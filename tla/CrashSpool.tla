----------------------------- MODULE CrashSpool -----------------------------
(***************************************************************************)
(* The filesystem crash storage as the queue between the collector, the    *)
(* webapp and the processor.                                               *)
(*                                                                         *)
(* The collector (Submit) and the webapp (Reprocess) save a raw crash and  *)
(* file it: a back symlink in the crash's own directory and a forward      *)
(* symlink in the dated slot directory.  The processor scans the slot      *)
(* directories and starts a worker per forward link; the worker removes    *)
(* the link, processes the crash and stores the result in the destination  *)
(* storages, one of which may be this same filesystem.  Every step is one  *)
(* file operation: nothing in the code makes two of them atomic.           *)
(***************************************************************************)
EXTENDS SlotTime, Sequences, FiniteSets

CONSTANTS
    Crashes,                    \* crash ids the collector may create
    NoCrash,                    \* what a record without a crash holds
    Handlers,                   \* concurrent HTTP requests of collector and webapp
    Workers,                    \* bound: goroutines the processor runs at once
    MaxSimultaneousProcessing,  \* processor.max_simultaneous_processing
    Configs,                    \* processor configurations considered
    MaxReprocess,               \* bound: reprocess requests
    Faults,                     \* processes may die, crashes may come without a minidump
    SavesWithinSlot,            \* timing: a request ends in the slot it began in
    ScansWithinHour,            \* timing: a scan ends in the hour it began in
    ReprocessesHits             \* users: only a search hit is reprocessed

Storages == {"fs", "es"}

ASSUME SpoolAssumption ==
    /\ NoCrash \notin Crashes
    /\ Handlers \cap Workers = {}
    /\ IsFiniteSet(Workers)
    /\ MaxSimultaneousProcessing \in Nat \ {0}
    /\ MaxReprocess \in Nat
    /\ {Faults, SavesWithinSlot, ScansWithinHour, ReprocessesHits} \subseteq BOOLEAN

\* destination_storage, save_raw_dump and remove_raw_dump.
ASSUME ConfigAssumption == \A cf \in Configs :
    /\ cf.dst \in Seq(Storages) /\ cf.dst # <<>>
    /\ cf.saveRaw \in BOOLEAN /\ cf.removeRaw \in BOOLEAN

VARIABLES
    config,    \* the configuration the processor read at start
    now,       \* the clock
    born,      \* the day in the crash id
    store,     \* the crash's own directory: raw JSON with dumps, report, back link
    dirs,      \* directories of the dated branches, as paths
    links,     \* forward links: <<slot path, crash>>
    indexed,   \* crashes with a document in Elasticsearch
    call,      \* each process's running save
    scan,      \* the processor's scanning goroutine
    worker,    \* the processor's worker goroutines
    answered,  \* history: crashes whose request was answered
    filed,     \* history: forward links made
    handed,    \* history: times a worker began the callback
    reprocessed

files   == <<store, dirs, links>>
history == <<filed, handed, reprocessed>>
fixed   == <<config, born>>
vars    == <<files, history, fixed, now, indexed, call, scan, worker, answered>>

Savers == Handlers \cup Workers
Unborn == -1
NoPath == <<0, 0, 0>>

IdleCall   == [pc |-> "idle", crash |-> NoCrash, file |-> "raw", content |-> "good", slot |-> <<0, 0>>]
IdleWorker == [pc |-> "idle", crash |-> NoCrash, path |-> NoPath, fresh |-> FALSE,
               raw |-> "good", dst |-> 0]
NewScan    == [pc |-> "begin", slot |-> <<0, 0>>, date |-> 0, dates |-> {}, hours |-> {}, mins |-> {},
               path |-> NoPath, skip |-> FALSE, entries |-> {}]

Init ==
    /\ config \in Configs
    /\ now = FirstTime
    /\ born = [c \in Crashes |-> Unborn]
    /\ store = [c \in Crashes |-> [raw |-> "absent", report |-> "absent", back |-> FALSE]]
    /\ dirs = {} /\ links = {} /\ indexed = {} /\ answered = {}
    /\ call = [p \in Savers |-> IdleCall]
    /\ scan = NewScan
    /\ worker = [w \in Workers |-> IdleWorker]
    /\ filed = [c \in Crashes |-> 0] /\ handed = [c \in Crashes |-> 0] /\ reprocessed = 0

-----------------------------------------------------------------------------
(* The filesystem. *)

HasDir(c)   == store[c] # [raw |-> "absent", report |-> "absent", back |-> FALSE]
Children(p) == {q[Len(p) + 1] : q \in {q \in dirs : Len(q) = Len(p) + 1 /\ SubSeq(q, 1, Len(p)) = p}}
Entries(p)  == {l[2] : l \in {l \in links : l[1] = p}}
Put(c, f, v) == store' = [store EXCEPT ![c][f] = v]

\* rmdir fails on a directory that is not empty.
Rmdir(p) == dirs' = IF Children(p) = {} /\ Entries(p) = {} THEN dirs \ {p} ELSE dirs

RawBytes(c) == store[c].raw

\* GetRawCrash: nil unless the file holds a JSON object.
GetRawCrash(c) == IF store[c].raw = "good" THEN "good" ELSE "null"

-----------------------------------------------------------------------------
(* saveFiles and, for a raw crash, the rest of SaveRawCrash.  The caller is a *)
(* request or a worker whose destination is "fs".                             *)

NewCall(c, file, content) ==
    [pc |-> "truncate", crash |-> c, file |-> file, content |-> content, slot |-> <<0, 0>>]
StartCall(p, c, file, content) == call' = [call EXCEPT ![p] = NewCall(c, file, content)]

AtCall(p, pc) == call[p].pc = pc
GoTo(p, pc)   == call' = [call EXCEPT ![p].pc = pc] /\ UNCHANGED answered
EndCall(p)    == /\ call' = [call EXCEPT ![p] = IdleCall]
                 /\ answered' = IF p \in Handlers THEN answered \cup {call[p].crash} ELSE answered
SlotPath(p)   == <<born[call[p].crash], call[p].slot[1], call[p].slot[2]>>
HourPath(p)   == <<born[call[p].crash], call[p].slot[1]>>
InSave        == UNCHANGED <<fixed, now, indexed, scan, worker, handed, reprocessed>>

\* MkdirAll; then ioutil.WriteFile opens with O_TRUNC and writes in place.
Truncate(p) ==
    /\ AtCall(p, "truncate") /\ GoTo(p, "write")
    /\ Put(call[p].crash, call[p].file, "torn")
    /\ dirs' = dirs \cup {<<born[call[p].crash]>>}
    /\ InSave /\ UNCHANGED <<links, filed>>

Write(p) ==
    /\ AtCall(p, "write")
    /\ IF store[call[p].crash][call[p].file] = "absent" THEN UNCHANGED store
       ELSE Put(call[p].crash, call[p].file, call[p].content)
    /\ IF call[p].file = "raw" THEN GoTo(p, "slot") ELSE EndCall(p)
    /\ InSave /\ UNCHANGED <<dirs, links, filed>>

PickSlot(p) ==
    /\ AtCall(p, "slot")
    /\ call' = [call EXCEPT ![p].pc = "mkhour", ![p].slot = SlotOf(now)]
    /\ InSave /\ UNCHANGED <<files, filed, answered>>

\* os.MkdirAll creates the hour and then the slot; its error is dropped.
MakeHourDir(p) ==
    /\ AtCall(p, "mkhour") /\ GoTo(p, "mkslot")
    /\ dirs' = dirs \cup {HourPath(p)}
    /\ InSave /\ UNCHANGED <<store, links, filed>>

MakeSlotDir(p) ==
    /\ AtCall(p, "mkslot") /\ GoTo(p, "back")
    /\ dirs' = IF HourPath(p) \in dirs THEN dirs \cup {SlotPath(p)} ELSE dirs
    /\ InSave /\ UNCHANGED <<store, links, filed>>

AnyLinkBack(c) == HasDir(c)

\* createDateToNameSymlink fails when the link is there, or its directory is not.
CanLinkBack(c) == HasDir(c) /\ ~store[c].back

LinkBack(p) ==
    /\ AtCall(p, "back")
    /\ IF CanLinkBack(call[p].crash) THEN Put(call[p].crash, "back", TRUE) /\ GoTo(p, "forward")
                                     ELSE EndCall(p) /\ UNCHANGED store
    /\ InSave /\ UNCHANGED <<dirs, links, filed>>

\* createNameToDateSymlink fails when the slot directory is gone.
CanLinkForward(p) == SlotPath(p) \in dirs /\ <<SlotPath(p), call[p].crash>> \notin links

LinkForward(p) ==
    /\ AtCall(p, "forward") /\ EndCall(p)
    /\ IF CanLinkForward(p)
       THEN /\ links' = links \cup {<<SlotPath(p), call[p].crash>>}
            /\ filed' = [filed EXCEPT ![call[p].crash] = @ + 1]
       ELSE UNCHANGED <<links, filed>>
    /\ InSave /\ UNCHANGED <<store, dirs>>

Save(p) == \/ Truncate(p) \/ Write(p) \/ PickSlot(p) \/ MakeHourDir(p)
           \/ MakeSlotDir(p) \/ LinkBack(p) \/ LinkForward(p)

-----------------------------------------------------------------------------
(* Requests, and the clock. *)

\* handleDumpSubmit: a fresh crash id that carries today's date.  The last slot
\* of the calendar never ends, so nothing is submitted in it.
Submit(p, c) ==
    /\ AtCall(p, "idle") /\ born[c] = Unborn /\ now # LastTime
    /\ born' = [born EXCEPT ![c] = now.day]
    /\ StartCall(p, c, "raw", "good")
    /\ UNCHANGED <<files, history, config, now, indexed, scan, worker, answered>>

\* reportReprocessApiHandler saves once more a raw crash it can read.
Reprocess(p, c) ==
    /\ AtCall(p, "idle") /\ reprocessed < MaxReprocess
    /\ ReprocessesHits => c \in indexed
    /\ GetRawCrash(c) = "good" /\ StartCall(p, c, "raw", "good")
    /\ reprocessed' = reprocessed + 1
    /\ UNCHANGED <<files, filed, handed, fixed, now, indexed, scan, worker, answered>>

\* The process that serves the request dies.
Abort(p) ==
    /\ Faults /\ ~AtCall(p, "idle")
    /\ call' = [call EXCEPT ![p] = IdleCall]
    /\ UNCHANGED <<files, history, fixed, now, indexed, scan, worker, answered>>

Tick ==
    /\ now # LastTime
    /\ SavesWithinSlot => \A p \in Handlers : AtCall(p, "idle")
    /\ ScansWithinHour /\ NextTime(now).hour # now.hour => scan.pc \in {"begin", "down"}
    /\ now' = NextTime(now)
    /\ UNCHANGED <<files, history, fixed, indexed, call, scan, worker, answered>>

-----------------------------------------------------------------------------
(* NewCrashes, on the processor's main goroutine. *)

Scanning(pc) == scan.pc = pc
First(S)     == {x \in S : \A y \in S : x <= y}  \* ReadDir sorts by name
Busy         == {w \in Workers : worker[w].pc # "idle"}
OnFiles      == UNCHANGED <<store, links, history, fixed, now, indexed, call, answered>>
ScanStep(s)  == scan' = s /\ OnFiles /\ UNCHANGED <<dirs, worker>>

\* Run starts a round with a new counter: workers still busy are not in it.
ReadSlot ==
    /\ Scanning("begin") /\ OnFiles /\ UNCHANGED dirs
    /\ scan' = [NewScan EXCEPT !.pc = "date", !.slot = SlotOf(now)]
    /\ worker' = [w \in Workers |-> [worker[w] EXCEPT !.fresh = FALSE]]

ReadDate == Scanning("date") /\ ScanStep([scan EXCEPT !.pc = "root", !.date = now.day])
ReadRoot == Scanning("root") /\ ScanStep([scan EXCEPT !.pc = "dates", !.dates = Children(<<>>)])

NextDate == \E d \in First(scan.dates) :
    /\ Scanning("dates")
    /\ ScanStep([scan EXCEPT !.pc = "hours", !.dates = @ \ {d}, !.path[1] = d, !.hours = Children(<<d>>)])

NextHour == \E h \in First(scan.hours) :
    /\ Scanning("hours")
    /\ ScanStep([scan EXCEPT !.pc = "minutes", !.hours = @ \ {h}, !.path[2] = h, !.skip = FALSE,
                             !.mins = Children(<<scan.path[1], h>>)])

NextMinute == \E m \in First(scan.mins) :
    LET path == [scan.path EXCEPT ![3] = m]
    IN  /\ Scanning("minutes")
        /\ ScanStep(IF SkipSlot(path[1], <<path[2], m>>, scan.date, scan.slot)
                    THEN [scan EXCEPT !.mins = @ \ {m}, !.skip = TRUE]
                    ELSE [scan EXCEPT !.mins = @ \ {m}, !.pc = "entries", !.path = path,
                                      !.entries = Entries(path)])

OffByOneFull(S) == Cardinality(S) > MaxSimultaneousProcessing

\* The throttle of visitMinuteSlot.  It leaves the gate of NewCrashes open.
Full(S) == Cardinality(S) >= MaxSimultaneousProcessing

Throttled == Full({w \in Busy : worker[w].fresh})

NewWorker(c, path) ==
    [pc |-> "lstat", crash |-> c, path |-> path, fresh |-> TRUE, raw |-> "good", dst |-> 0]

Spawn == \E c \in scan.entries, w \in Workers \ Busy :
    /\ Scanning("entries") /\ ~Throttled /\ OnFiles /\ UNCHANGED dirs
    /\ worker' = [worker EXCEPT ![w] = NewWorker(c, scan.path)]
    /\ scan' = [scan EXCEPT !.entries = @ \ {c}]

RemoveSlot ==
    /\ Scanning("entries") /\ ~Throttled /\ scan.entries = {}
    /\ Rmdir(scan.path)
    /\ scan' = [scan EXCEPT !.pc = "minutes"]
    /\ OnFiles /\ UNCHANGED worker

\* The hour is compared without its date.
RemoveHour ==
    /\ Scanning("minutes") /\ scan.mins = {}
    /\ IF ~scan.skip /\ scan.path[2] < scan.slot[1] THEN Rmdir(SubSeq(scan.path, 1, 2)) ELSE UNCHANGED dirs
    /\ scan' = [scan EXCEPT !.pc = "hours"]
    /\ OnFiles /\ UNCHANGED worker

EndDate  == Scanning("hours") /\ scan.hours = {} /\ ScanStep([scan EXCEPT !.pc = "dates"])
EndRound == Scanning("dates") /\ scan.dates = {} /\ ScanStep(NewScan)

Scan == \/ ReadSlot \/ ReadDate \/ ReadRoot \/ NextDate \/ NextHour \/ NextMinute
        \/ Spawn \/ RemoveSlot \/ RemoveHour \/ EndDate \/ EndRound

-----------------------------------------------------------------------------
(* A worker: the goroutine of visitMinuteSlot and the callback of Run. *)

At(w, pc)      == worker[w].pc = pc
WorkerTo(w, r) == worker' = [worker EXCEPT ![w] = r]
Move(w, pc)    == WorkerTo(w, [worker[w] EXCEPT !.pc = pc])
Link(w)        == <<worker[w].path, worker[w].crash>>
Crash(w)       == worker[w].crash
InWork         == UNCHANGED <<dirs, fixed, now, answered, filed, reprocessed>>

\* A panic in any goroutine, and os.Exit, end the processor with its workers.
ProcessorDown ==
    /\ worker' = [w \in Workers |-> IdleWorker]
    /\ call' = [p \in Savers |-> IF p \in Workers THEN IdleCall ELSE call[p]]
    /\ scan' = [NewScan EXCEPT !.pc = "down"]

GoOnIf(ok, w, r) == IF ok THEN WorkerTo(w, r) /\ UNCHANGED <<call, scan>> ELSE ProcessorDown

\* os.Lstat of a link another worker removed returns nil, and nil.Mode() panics.
Lstat(w) ==
    /\ At(w, "lstat")
    /\ GoOnIf(Link(w) \in links, w, [worker[w] EXCEPT !.pc = "stat"])
    /\ InWork /\ UNCHANGED <<store, links, indexed, handed>>

\* os.Stat of the raw JSON through the link; nil.IsDir() panics.
Stat(w) ==
    /\ At(w, "stat")
    /\ GoOnIf(Link(w) \in links /\ store[Crash(w)].raw # "absent", w, [worker[w] EXCEPT !.pc = "unlink"])
    /\ InWork /\ UNCHANGED <<store, links, indexed, handed>>

NothingUnlinked(w) == links

\* dateRootPath and nameDir are one path: it is removed twice, the back link never.
Unlinked(w) == links \ {Link(w)}

RemoveLink(w, from, to) ==
    /\ At(w, from) /\ Move(w, to)
    /\ links' = Unlinked(w)
    /\ handed' = IF to = "getraw" THEN [handed EXCEPT ![Crash(w)] = @ + 1] ELSE handed
    /\ InWork /\ UNCHANGED <<store, indexed, call, scan>>

GetRaw(w) ==
    /\ At(w, "getraw")
    /\ WorkerTo(w, [worker[w] EXCEPT !.pc = "getdumps", !.raw = GetRawCrash(Crash(w))])
    /\ InWork /\ UNCHANGED <<store, links, indexed, call, scan, handed>>

RemoveFirst(w, i) ==
    IF i < Len(config.dst) /\ ~(config.removeRaw /\ i = 0)
    THEN [worker[w] EXCEPT !.pc = "store", !.dst = i + 1]
    ELSE IF config.removeRaw THEN [worker[w] EXCEPT !.pc = "rmback"] ELSE IdleWorker

\* Where the callback goes after destination i: the next one, Remove, or its end.
AfterDestination(w, i) ==
    IF i < Len(config.dst) THEN [worker[w] EXCEPT !.pc = "store", !.dst = i + 1]
    ELSE IF config.removeRaw THEN [worker[w] EXCEPT !.pc = "rmback"] ELSE IdleWorker

\* GetRawDumpsAsFiles returns nil without the directory, and the type assertion panics.
GetDumps(w) ==
    /\ At(w, "getdumps")
    /\ GoOnIf(HasDir(Crash(w)), w, AfterDestination(w, 0))
    /\ InWork /\ UNCHANGED <<store, links, indexed, handed>>

LastDestinationFirst(w) == config.dst[Len(config.dst) + 1 - worker[w].dst]
Destination(w) == config.dst[worker[w].dst]

\* fs SaveProcessed: without a raw crash there is no uuid to save the report under.
SaveProcessed(w) ==
    /\ At(w, "store") /\ Destination(w) = "fs" /\ Move(w, "processed")
    /\ IF worker[w].raw = "good" THEN StartCall(w, Crash(w), "report", "good") ELSE UNCHANGED call
    /\ InWork /\ UNCHANGED <<store, links, indexed, scan, handed>>

\* fs SaveRawAndProcessed goes on with SaveRawCrash, for the raw crash it was given.
SaveRawCrash(w) ==
    /\ At(w, "processed") /\ AtCall(w, "idle") /\ config.saveRaw /\ Move(w, "saved")
    /\ StartCall(w, Crash(w), "raw", worker[w].raw)
    /\ InWork /\ UNCHANGED <<store, links, indexed, scan, handed>>

StoredInFs(w) ==
    /\ At(w, IF config.saveRaw THEN "saved" ELSE "processed") /\ AtCall(w, "idle")
    /\ WorkerTo(w, AfterDestination(w, worker[w].dst))
    /\ InWork /\ UNCHANGED <<store, links, indexed, call, scan, handed>>

\* es SaveRawAndProcessed drops a crash without a crash_date: one that came without a
\* minidump.  es SaveProcessed keeps it, but names the document by the uuid, which it
\* has from the raw crash.
Index(w, dated) ==
    /\ At(w, "store") /\ Destination(w) = "es"
    /\ indexed' = IF IF config.saveRaw THEN dated ELSE worker[w].raw = "good"
                  THEN indexed \cup {Crash(w)} ELSE indexed
    /\ WorkerTo(w, AfterDestination(w, worker[w].dst))
    /\ InWork /\ UNCHANGED <<store, links, call, scan, handed>>

\* Remove: the back link, then what is in the directory in any order, then the directory.
RemoveBack(w) ==
    /\ At(w, "rmback") /\ Move(w, "rmall")
    /\ Put(Crash(w), "back", FALSE)
    /\ InWork /\ UNCHANGED <<links, indexed, call, scan, handed>>

RemoveFile(w, f) ==
    /\ At(w, "rmall") /\ store[Crash(w)][f] # "absent"
    /\ Put(Crash(w), f, "absent")
    /\ InWork /\ UNCHANGED <<links, indexed, call, scan, worker, handed>>

RemoveDir(w) ==
    /\ At(w, "rmall") /\ \A f \in {"raw", "report"} : store[Crash(w)][f] = "absent"
    /\ Put(Crash(w), "back", FALSE) /\ WorkerTo(w, IdleWorker)
    /\ InWork /\ UNCHANGED <<links, indexed, call, scan, handed>>

Process(w) ==
    \/ Lstat(w) \/ Stat(w)
    \/ RemoveLink(w, "unlink", "unlink again") \/ RemoveLink(w, "unlink again", "getraw")
    \/ GetRaw(w) \/ GetDumps(w)
    \/ SaveProcessed(w) \/ SaveRawCrash(w) \/ StoredInFs(w)
    \/ \E dated \in {TRUE, ~Faults} : Index(w, dated)
    \/ RemoveBack(w) \/ (\E f \in {"raw", "report"} : RemoveFile(w, f)) \/ RemoveDir(w)

\* Killed, stopped (Run returns and main exits under its workers), or a panic in the callback.
ProcessorDies ==
    /\ Faults /\ ~Scanning("down") /\ ProcessorDown
    /\ InWork /\ UNCHANGED <<store, links, indexed, handed>>

Restart == Scanning("down") /\ ScanStep(NewScan)

-----------------------------------------------------------------------------
Next ==
    \/ \E p \in Handlers, c \in Crashes : Submit(p, c) \/ Reprocess(p, c)
    \/ \E p \in Savers : Save(p)
    \/ \E p \in Handlers : Abort(p)
    \/ \E w \in Workers : Process(w)
    \/ Scan \/ Tick \/ ProcessorDies \/ Restart

Spec == Init /\ [][Next]_vars

\* The operating system schedules every request and goroutine, and time passes:
\* the timing assumptions put a tick off, and do not stop the clock.
Fairness ==
    /\ \A p \in Savers : WF_vars(Save(p))
    /\ \A w \in Workers : WF_vars(Process(w))
    /\ WF_vars(Scan) /\ SF_vars(Tick)

FairSpec == Spec /\ Fairness

-----------------------------------------------------------------------------
(* Properties. *)

FileState  == {"absent", "torn", "good", "null"}
CallType   == [pc : {"idle", "truncate", "write", "slot", "mkhour", "mkslot", "back", "forward"},
               crash : Crashes \cup {NoCrash}, file : {"raw", "report"},
               content : {"good", "null"}, slot : Slot]
ScanType   == [pc : {"begin", "date", "root", "dates", "hours", "minutes", "entries", "down"},
               slot : Slot, date : Day, dates : SUBSET Int, hours : SUBSET Int, mins : SUBSET Int,
               path : [1 .. 3 -> Int], skip : BOOLEAN, entries : SUBSET Crashes]
WorkerType == [pc : {"idle", "lstat", "stat", "unlink", "unlink again", "getraw", "getdumps",
                     "store", "processed", "saved", "rmback", "rmall"},
               crash : Crashes \cup {NoCrash}, path : [1 .. 3 -> Int],
               fresh : BOOLEAN, raw : {"good", "null"}, dst : Nat]

\* Every variable holds what its code counterpart can hold.
TypeOK ==
    /\ config \in Configs /\ now \in Time
    /\ born \in [Crashes -> Day \cup {Unborn}]
    /\ store \in [Crashes -> [raw : FileState, report : FileState, back : BOOLEAN]]
    /\ dirs \subseteq Seq(Int) /\ links \subseteq Seq(Int) \X Crashes
    /\ indexed \subseteq Crashes /\ answered \subseteq Crashes
    /\ filed \in [Crashes -> Nat] /\ handed \in [Crashes -> Nat] /\ reprocessed \in Nat
    /\ call \in [Savers -> CallType] /\ scan \in ScanType /\ worker \in [Workers -> WorkerType]
    /\ \A p \in Savers  : ~AtCall(p, "idle") => call[p].crash \in Crashes
    /\ \A w \in Workers : ~At(w, "idle") => worker[w].crash \in Crashes

\* SaveRawCrash runs again for a crash that is reprocessed, and for every crash the
\* processor stores with save_raw_dump into the filesystem it reads from.  Only the
\* first save files the crash: while its directory stays, no crash is queued again,
\* and the processor does not feed itself.
FiledAtMostOnce == \A c \in Crashes : ~config.removeRaw => filed[c] <= 1

\* A queued crash is whole: a scanner that finds a forward link finds a raw crash that
\* was written completely and that nobody is writing, whoever died before.
LinkedIsWhole == \A l \in links : ~config.removeRaw => store[l[2]].raw = "good"

\* Who sees a search hit can open the report: with the filesystem among the
\* destinations, a crash is not in Elasticsearch before its report is there.
HitHasReport ==
    \A c \in indexed : ("fs" \in {config.dst[i] : i \in DOMAIN config.dst} /\ ~config.removeRaw)
                       => store[c].report # "absent"

\* remove_raw_dump gives up the source copy of a crash only after Elasticsearch has it,
\* unless the processor also wants the raw crash there and found no date for it.
RemovedIsIndexed ==
    \A c \in answered : (store[c].raw = "absent" /\ ~(config.saveRaw /\ Faults)) => c \in indexed

\* One worker at a time is allowed: then every crash is handed to the callback at most
\* once, across rounds, deaths of the processor and restarts.
HandedOnce == \A c \in Crashes : handed[c] <= 1

\* A crash that was collected is not overwritten with the null of a worker that read the
\* raw JSON while another one was rewriting it.
CollectedIsKept == \A c \in answered : store[c].raw # "null"

\* What the report page reads is whole: nobody rewrites the report of an indexed crash.
HitReportIsWhole ==
    \A c \in indexed : ("fs" \in {config.dst[i] : i \in DOMAIN config.dst}) => store[c].report = "good"

\* A request is answered only after its crash was queued: the scanner has not removed
\* the slot directory between the steps that make it and link into it.
AnsweredIsFiled == \A c \in answered : filed[c] >= 1

\* No worker panics: the link it looks at is still there, and so is the crash behind it.
\* (With remove_raw_dump, a save that races Remove can leave a link to nothing behind.)
NoPanic == \A w \in Workers :
    At(w, "lstat") \/ At(w, "stat") => Link(w) \in links /\ store[Crash(w)].raw # "absent"

\* Every collected crash is searchable in the end.
CollectedIsProcessed == \A c \in Crashes : c \in answered ~> c \in indexed

-----------------------------------------------------------------------------
(* The spool implements the life of a crash. *)

Stage == [c \in Crashes |-> IF \E l \in links : l[2] = c THEN "queued"
                            ELSE IF filed[c] > 0 THEN "taken" ELSE "new"]

Life == INSTANCE CrashLife WITH keeps <- ~config.removeRaw, stage <- Stage, searchable <- indexed

\* Whatever dies, overlaps or is reprocessed, a crash is queued once, is off the queue
\* before the search finds it, and is never found before it was queued.
ImplementsLife == Life!Spec
=============================================================================
