------------------------ MODULE SpoolFiles_proofs -------------------------
(* What a queued crash and a search hit can be relied on to have in their   *)
(* directory, that no slot directory is removed under a request that is     *)
(* about to link into it, and that what is removed is in Elasticsearch, for *)
(* every calendar (for the second, of more than one hour), any number of    *)
(* crashes, requests, goroutines, reprocess requests and deaths.            *)
EXTENDS CrashSpool_proofs, SequenceTheorems

-----------------------------------------------------------------------------
(* The inductive invariant.  A crash is touched by its first report or its  *)
(* document.  Until then only its first save writes to it, and once it is   *)
(* queued nobody; from then on its report is there, or its document.        *)

\* Nothing was stored of the crash yet: it has no report and no document.
Untouched(c) == store[c].report = "absent" /\ c \notin indexed

Saving(p) == ~AtCall(p, "idle")
Early(p)  == call[p].pc \in {"truncate", "write"}

\* A file that is being written is there.
WritesIntoFile == \A p \in Savers : AtCall(p, "write") => store[call[p].crash][call[p].file] # "absent"

\* A crash that nobody submitted was not saved, queued or stored.
UnbornIsBlank == \A c \in Crashes : born[c] = Unborn =>
    filed[c] = 0 /\ Untouched(c) /\ \A p \in Savers : Saving(p) => call[p].crash # c

\* A report is written by the goroutine that has the crash.
ReportsAreWorkers == \A p \in Savers : Saving(p) /\ call[p].file = "report" =>
    p \in Workers /\ At(p, "processed") /\ call[p].crash = Crash(p)

\* Only the first save of an untouched crash may be under way, and only before it is queued.
FirstSave ==
    /\ \A p \in Savers : Saving(p) /\ call[p].file = "raw" /\ Untouched(call[p].crash) =>
          /\ call[p].content = "good" /\ filed[call[p].crash] = 0
          /\ ~Early(p) => store[call[p].crash].raw = "good"
    /\ \A p, q \in Savers :
          (/\ Saving(p) /\ call[p].file = "raw" /\ Saving(q) /\ call[q].file = "raw"
           /\ call[p].crash = call[q].crash /\ Untouched(call[p].crash)) => p = q

\* What was filed and not touched is whole.
FiledIsWhole == \A c \in Crashes : filed[c] > 0 /\ Untouched(c) => store[c].raw = "good"

\* Who touches a crash has it from the queue, and takes it off the queue before.
TouchedIsTaken ==
    /\ \A c \in Crashes : ~Untouched(c) => filed[c] > 0
    /\ \A l \in links : Untouched(l[2])

\* A goroutine with an untouched crash has read it whole, and goes on to write its report.
WorkersReadWhole == \A w \in Workers : Holds(w) /\ Untouched(Crash(w)) =>
    /\ worker[w].raw = "good" /\ ~At(w, "saved")
    /\ At(w, "processed") => AtCall(w, "truncate") /\ call[w].file = "report"

FilesInv == /\ WritesIntoFile /\ UnbornIsBlank /\ ReportsAreWorkers /\ FirstSave
            /\ FiledIsWhole /\ TouchedIsTaken /\ WorkersReadWhole

StoresFs == \E i \in DOMAIN config.dst : config.dst[i] = "fs"

\* With the filesystem first, what comes after it finds the report.
ReportFirst ==
    /\ \A c \in indexed : store[c].report # "absent"
    /\ \A w \in Workers : At(w, "store") => worker[w].dst # 0 /\ (worker[w].dst # 1 => store[Crash(w)].report # "absent")

WInv == LInv /\ (ReprocessesHits /\ ~config.removeRaw => FilesInv)

-----------------------------------------------------------------------------
(* Steps that write to no file, index nothing and begin no save. *)

OldCalls == \A p \in Savers : Saving(p)' =>
    /\ Saving(p) /\ call'[p].crash = call[p].crash
    /\ call'[p].file = call[p].file /\ call'[p].content = call[p].content
    /\ call'[p].pc = call[p].pc \/ (~Early(p) /\ ~Early(p)')

OldOrNewWorkers == \A w \in Workers :
    /\ Holds(w)' => \/ /\ Holds(w) /\ worker'[w].crash = worker[w].crash /\ worker'[w].raw = worker[w].raw
                       /\ At(w, "saved")' \/ At(w, "processed")' => worker'[w].pc = worker[w].pc
                    \/ worker'[w].raw = "good" /\ ~At(w, "saved")' /\ ~At(w, "processed")'
    /\ At(w, "processed") /\ At(w, "processed")' /\ AtCall(w, "truncate") => call'[w] = call[w]
    /\ At(w, "processed") /\ ~At(w, "processed")' => AtCall(w, "idle")'

Plain ==
    /\ UNCHANGED <<indexed, filed, born>> /\ links' \subseteq links
    /\ \A c \in Crashes : store'[c].raw = store[c].raw /\ store'[c].report = store[c].report
    /\ OldCalls /\ OldOrNewWorkers

\* A plain step keeps the invariant.
LEMMA PlainKeeps ==
  ASSUME TypeOK, FilesInv, Plain PROVE FilesInv'
  <1>1. \A c \in Crashes : (store'[c].report = "absent" /\ c \notin indexed') <=> Untouched(c)
    BY DEF Untouched, Plain
  <1>2. ASSUME NEW p \in Savers, Saving(p)'
        PROVE  /\ Saving(p) /\ call[p].crash \in Crashes /\ call[p].file \in {"raw", "report"}
               /\ call'[p].crash = call[p].crash
               /\ call'[p].file = call[p].file /\ call'[p].content = call[p].content
               /\ call'[p].pc = call[p].pc \/ (~Early(p) /\ ~Early(p)')
    BY <1>2 DEF Plain, OldCalls, TypeOK, Saving, AtCall, CallType
  <1>3. WritesIntoFile'
    <2> SUFFICES ASSUME NEW p \in Savers, AtCall(p, "write")'
                 PROVE  store'[call'[p].crash][call'[p].file] # "absent"
      BY DEF WritesIntoFile
    <2>1. Saving(p)' /\ Early(p)'
      BY DEF Saving, AtCall, Early
    <2>2. AtCall(p, "write")
      BY <1>2, <2>1 DEF AtCall
    <2>3. store[call[p].crash][call[p].file] # "absent"
      BY <2>2 DEF FilesInv, WritesIntoFile
    <2>4. CASE call[p].file = "raw"
      BY <1>2, <2>1, <2>3, <2>4 DEF Plain
    <2>5. CASE call[p].file = "report"
      BY <1>2, <2>1, <2>3, <2>5 DEF Plain
    <2> QED
      BY <1>2, <2>1, <2>4, <2>5
  <1>4. UnbornIsBlank'
    BY <1>1, <1>2 DEF FilesInv, UnbornIsBlank, Plain, Untouched
  <1>5. ReportsAreWorkers'
    <2> SUFFICES ASSUME NEW p \in Savers, Saving(p)', call'[p].file = "report"
                 PROVE  p \in Workers /\ At(p, "processed")' /\ call'[p].crash = worker'[p].crash
      BY DEF ReportsAreWorkers, Crash
    <2>1. p \in Workers /\ At(p, "processed") /\ call[p].crash = worker[p].crash
      BY <1>2 DEF FilesInv, ReportsAreWorkers, Crash
    <2>2. At(p, "processed")'
      BY <2>1 DEF Plain, OldOrNewWorkers, Saving
    <2>3. worker'[p].crash = worker[p].crash
      BY <2>1, <2>2 DEF Plain, OldOrNewWorkers, Holds, At
    <2> QED
      BY <1>2, <2>1, <2>2, <2>3
  <1>6. FirstSave'
    <2>1. ASSUME NEW p \in Savers, Saving(p)', call'[p].file = "raw",
                 store'[call'[p].crash].report = "absent", call'[p].crash \notin indexed'
          PROVE  /\ call'[p].content = "good" /\ filed'[call'[p].crash] = 0
                 /\ ~Early(p)' => store'[call'[p].crash].raw = "good"
      <3>1. Saving(p) /\ call[p].file = "raw" /\ Untouched(call[p].crash)
        BY <1>1, <1>2, <2>1
      <3>2. /\ call[p].content = "good" /\ filed[call[p].crash] = 0
            /\ ~Early(p) => store[call[p].crash].raw = "good"
        BY <3>1 DEF FilesInv, FirstSave
      <3>3. ~Early(p)' => ~Early(p)
        BY <1>2, <2>1 DEF Early
      <3> QED
        BY <1>2, <2>1, <3>2, <3>3 DEF Plain
    <2>2. ASSUME NEW p \in Savers, NEW q \in Savers,
                 Saving(p)', call'[p].file = "raw", Saving(q)', call'[q].file = "raw",
                 call'[p].crash = call'[q].crash,
                 store'[call'[p].crash].report = "absent", call'[p].crash \notin indexed'
          PROVE  p = q
      <3>1. Untouched(call[p].crash)
        BY <1>1, <1>2, <2>2
      <3> QED
        BY <1>2, <2>2, <3>1 DEF FilesInv, FirstSave
    <2> QED
      BY <2>1, <2>2 DEF FirstSave, Untouched
  <1>7. FiledIsWhole'
    BY <1>1 DEF FilesInv, FiledIsWhole, Plain, Untouched
  <1>8. TouchedIsTaken'
    <2>1. \A l \in links : l[2] \in Crashes
      BY DEF TypeOK
    <2> QED
      BY <1>1, <2>1 DEF FilesInv, TouchedIsTaken, Plain, Untouched
  <1>9. WorkersReadWhole'
    <2> SUFFICES ASSUME NEW w \in Workers, Holds(w)',
                        store'[worker'[w].crash].report = "absent", worker'[w].crash \notin indexed'
                 PROVE  /\ worker'[w].raw = "good" /\ ~At(w, "saved")'
                        /\ At(w, "processed")' => AtCall(w, "truncate")' /\ call'[w].file = "report"
      BY DEF WorkersReadWhole, Untouched, Crash
    <2>1. CASE worker'[w].raw = "good" /\ ~At(w, "saved")' /\ ~At(w, "processed")'
      BY <2>1
    <2>2. CASE /\ Holds(w) /\ worker'[w].crash = worker[w].crash /\ worker'[w].raw = worker[w].raw
               /\ At(w, "saved")' \/ At(w, "processed")' => worker'[w].pc = worker[w].pc
      <3>1. Untouched(Crash(w))
        <4>1. worker[w].crash \in Crashes
          BY <2>2 DEF TypeOK, Holds
        <4> QED
          BY <1>1, <2>2, <4>1 DEF Crash
      <3>2. /\ worker[w].raw = "good" /\ ~At(w, "saved")
            /\ At(w, "processed") => AtCall(w, "truncate") /\ call[w].file = "report"
        BY <2>2, <3>1 DEF FilesInv, WorkersReadWhole
      <3>3. ~At(w, "saved")'
        BY <2>2, <3>2 DEF At
      <3>4. ASSUME At(w, "processed")' PROVE AtCall(w, "truncate")' /\ call'[w].file = "report"
        <4>1. At(w, "processed")
          BY <2>2, <3>4 DEF At
        <4>2. call'[w] = call[w]
          BY <3>2, <3>4, <4>1 DEF Plain, OldOrNewWorkers
        <4> QED
          BY <3>2, <4>1, <4>2 DEF AtCall
      <3> QED
        BY <2>2, <3>2, <3>3, <3>4
    <2> QED
      BY <2>1, <2>2 DEF Plain, OldOrNewWorkers
  <1> QED
    BY <1>3, <1>4, <1>5, <1>6, <1>7, <1>8, <1>9 DEF FilesInv

\* A save that picks its directory, and makes the back link or finds that it may not.
LEMMA LateSaveIsPlain ==
  ASSUME TypeOK, NEW p \in Savers, PickSlot(p) \/ MakeHourDir(p) \/ MakeSlotDir(p) \/ LinkBack(p)
  PROVE  Plain
  <1>1. /\ call \in [Savers -> CallType] /\ call[p] \in CallType /\ call[p].crash \in Crashes
        /\ call[p].pc \in {"slot", "mkhour", "mkslot", "back"}
    BY DEF TypeOK, PickSlot, MakeHourDir, MakeSlotDir, LinkBack, AtCall
  <1>2. UNCHANGED <<indexed, filed, born, links, worker>>
    BY DEF PickSlot, MakeHourDir, MakeSlotDir, LinkBack, InSave, files, fixed
  <1>3. \A c \in Crashes : store'[c].raw = store[c].raw /\ store'[c].report = store[c].report
    <2>1. UNCHANGED store \/ Put(call[p].crash, "back", TRUE)
      BY DEF PickSlot, MakeHourDir, MakeSlotDir, LinkBack, files
    <2>2. store \in [Crashes -> [raw : FileState, report : FileState, back : BOOLEAN]]
      BY DEF TypeOK
    <2> QED
      BY <2>1, <2>2 DEF Put
  <1>4. /\ \A q \in Savers : q # p => call'[q] = call[q]
        /\ \/ call'[p].pc = "idle"
           \/ /\ call'[p].crash = call[p].crash /\ call'[p].file = call[p].file
              /\ call'[p].content = call[p].content
              /\ call'[p].pc \in {"mkhour", "mkslot", "back", "forward"}
    <2>1. CASE PickSlot(p)
      BY <1>1, <2>1 DEF PickSlot, CallType
    <2>2. CASE MakeHourDir(p) \/ MakeSlotDir(p)
      BY <1>1, <2>2 DEF MakeHourDir, MakeSlotDir, GoTo, CallType
    <2>3. CASE LinkBack(p)
      <3>1. \/ call' = [call EXCEPT ![p].pc = "forward"]
            \/ call' = [call EXCEPT ![p] = IdleCall]
        BY <2>3 DEF LinkBack, GoTo, EndCall
      <3>2. CASE call' = [call EXCEPT ![p].pc = "forward"]
        BY <1>1, <3>2 DEF CallType
      <3>3. CASE call' = [call EXCEPT ![p] = IdleCall]
        BY <1>1, <3>3 DEF IdleCall
      <3> QED
        BY <3>1, <3>2, <3>3
    <2> QED
      BY <2>1, <2>2, <2>3
  <1>5. OldCalls
    BY <1>1, <1>4 DEF OldCalls, Saving, AtCall, Early
  <1>6. OldOrNewWorkers
    BY <1>1, <1>2, <1>4 DEF OldOrNewWorkers, Holds, At, AtCall, Savers
  <1> QED
    BY <1>2, <1>3, <1>5, <1>6 DEF Plain

\* Steps after which every worker has what it had, or begins with a new crash.
LEMMA WorkersOnly ==
  ASSUME UNCHANGED <<indexed, filed, born, store, call>>, links' \subseteq links, OldOrNewWorkers
  PROVE  Plain
  BY DEF Plain, OldCalls, Saving, AtCall, Early

\* A request that dies, and the clock.
LEMMA AbortIsPlain ==
  ASSUME TypeOK, Tick \/ \E p \in Handlers : Abort(p) PROVE Plain
  <1>1. UNCHANGED <<indexed, filed, born, store, links, worker>>
    BY DEF Tick, Abort, files, history, fixed
  <1>2. \A q \in Savers : call'[q] = call[q] \/ (call'[q].pc = "idle" /\ q \in Handlers)
    BY DEF TypeOK, Tick, Abort, IdleCall
  <1>3. OldCalls
    BY <1>2 DEF OldCalls, Saving, AtCall, Early
  <1>4. OldOrNewWorkers
    BY <1>1, <1>2, SpoolAssumption DEF OldOrNewWorkers, Holds, At, AtCall, Savers
  <1> QED
    BY <1>1, <1>3, <1>4 DEF Plain

\* The scanner gives a free worker a crash, whole as far as it knows.
LEMMA ScannerIsPlain == ASSUME TypeOK, Scan \/ Restart PROVE Plain
  <1>1. UNCHANGED <<indexed, filed, born, store, links, call>>
    BY DEF Scan, Restart, ReadSlot, ReadDate, ReadRoot, NextDate, NextHour, NextMinute, Spawn,
           RemoveSlot, RemoveHour, EndDate, EndRound, ScanStep, OnFiles, history, fixed
  <1>2. OldOrNewWorkers
    <2>1. CASE ReadSlot
      <3>1. worker' = [w \in Workers |-> [worker[w] EXCEPT !.fresh = FALSE]]
        BY <2>1 DEF ReadSlot
      <3>2. \A w \in Workers : worker[w] \in WorkerType
        BY DEF TypeOK
      <3>3. \A w \in Workers : /\ worker'[w].pc = worker[w].pc /\ worker'[w].crash = worker[w].crash
                                /\ worker'[w].raw = worker[w].raw
        BY <3>1, <3>2 DEF WorkerType
      <3> QED
        BY <1>1, <3>3 DEF OldOrNewWorkers, Holds, At
    <2>2. CASE Spawn
      <3>1. PICK c \in scan.entries, v \in Workers \ Busy :
              worker' = [worker EXCEPT ![v] = NewWorker(c, scan.path)]
        BY <2>2 DEF Spawn
      <3>2. /\ worker \in [Workers -> WorkerType] /\ worker[v].pc = "idle"
            /\ NewWorker(c, scan.path).pc = "lstat" /\ NewWorker(c, scan.path).raw = "good"
        BY <3>1 DEF TypeOK, NewWorker, Busy
      <3>3. worker'[v].pc = "lstat" /\ worker'[v].raw = "good"
            /\ \A w \in Workers : w # v => worker'[w] = worker[w]
        BY <3>1, <3>2
      <3> QED
        BY <1>1, <3>2, <3>3 DEF OldOrNewWorkers, Holds, At
    <2>3. CASE UNCHANGED worker
      BY <1>1, <2>3 DEF OldOrNewWorkers, Holds, At
    <2> QED
      BY <2>1, <2>2, <2>3
      DEF Scan, Restart, ReadDate, ReadRoot, NextDate, NextHour, NextMinute,
          RemoveSlot, RemoveHour, EndDate, EndRound, ScanStep
  <1> QED
    BY <1>1, <1>2, WorkersOnly

\* The processor's death ends its workers together with their saves.
LEMMA DownIsPlain ==
  ASSUME TypeOK, UNCHANGED <<store, filed, indexed, born>>, links' \subseteq links, ProcessorDown
  PROVE  Plain
  <1>1. \A w \in Workers : worker'[w].pc = "idle" /\ call'[w].pc = "idle"
    BY DEF ProcessorDown, IdleWorker, IdleCall, Savers
  <1>2. \A q \in Savers : call'[q] = call[q] \/ call'[q].pc = "idle"
    BY DEF ProcessorDown, IdleCall
  <1>3. OldCalls
    BY <1>2 DEF OldCalls, Saving, AtCall, Early
  <1>4. OldOrNewWorkers
    BY <1>1 DEF OldOrNewWorkers, Holds, At, AtCall
  <1> QED
    BY <1>3, <1>4 DEF Plain

\* A worker that looks at its link, removes it, looks for dumps, or is done with the
\* filesystem.
LEMMA WorkerIsPlain ==
  ASSUME TypeOK, NEW w \in Workers, ~config.removeRaw,
         \/ Lstat(w) \/ Stat(w) \/ GetDumps(w) \/ StoredInFs(w)
         \/ RemoveLink(w, "unlink", "unlink again") \/ RemoveLink(w, "unlink again", "getraw")
  PROVE  Plain
  <1>1. worker \in [Workers -> WorkerType] /\ worker[w] \in WorkerType /\ w \in Savers
    BY DEF TypeOK, Savers
  <1>2. UNCHANGED <<indexed, filed, born, store>> /\ links' \subseteq links
    BY DEF Lstat, Stat, GetDumps, StoredInFs, RemoveLink, InWork, fixed, Unlinked
  <1> DEFINE Kept(r) == \/ r.pc = "idle"
                        \/ /\ r.pc \in {"stat", "unlink", "unlink again", "getraw", "store"}
                           /\ r.crash = worker[w].crash /\ r.raw = worker[w].raw
  <1>3. \A pc \in {"stat", "unlink", "unlink again", "getraw"} : Kept([worker[w] EXCEPT !.pc = pc])
    BY <1>1 DEF WorkerType
  <1>4. \A i \in Nat : Kept(AfterDestination(w, i))
    <2>1. \A i \in Nat : Kept([worker[w] EXCEPT !.pc = "store", !.dst = i + 1])
      BY <1>1 DEF WorkerType
    <2>2. Kept(IdleWorker)
      BY DEF IdleWorker
    <2> QED
      BY <2>1, <2>2 DEF AfterDestination
  <1>5. \/ ProcessorDown
        \/ (\E r : WorkerTo(w, r) /\ Kept(r)) /\ UNCHANGED call /\ Holds(w)
           /\ (At(w, "processed") => AtCall(w, "idle"))
    <2>1. worker[w].dst \in Nat
      BY <1>1 DEF WorkerType
    <2>2. CASE Lstat(w) \/ Stat(w)
      BY <1>3, <2>2 DEF Lstat, Stat, GoOnIf, Holds, At
    <2>3. CASE RemoveLink(w, "unlink", "unlink again") \/ RemoveLink(w, "unlink again", "getraw")
      BY <1>3, <2>3 DEF RemoveLink, Move, Holds, At
    <2>4. CASE GetDumps(w)
      BY <1>4, <2>4 DEF GetDumps, GoOnIf, Holds, At
    <2>5. CASE StoredInFs(w)
      BY <1>4, <2>1, <2>5 DEF StoredInFs, Holds, At
    <2> QED
      BY <2>2, <2>3, <2>4, <2>5
  <1>6. ASSUME NEW r, WorkerTo(w, r), Kept(r), UNCHANGED call, Holds(w), At(w, "processed") => AtCall(w, "idle")
        PROVE  Plain
    <2>1. worker'[w] = r /\ \A v \in Workers : v # w => worker'[v] = worker[v]
      BY <1>1, <1>6 DEF WorkerTo
    <2>2. OldOrNewWorkers
      BY <1>6, <2>1 DEF OldOrNewWorkers, Holds, At, AtCall
    <2> QED
      BY <1>2, <1>6, <2>2, WorkersOnly
  <1> QED
    BY <1>2, <1>5, <1>6, DownIsPlain

-----------------------------------------------------------------------------
(* The steps that write to a file. *)

\* A save that truncates or writes its file keeps the invariant: an untouched crash is only
\* written to by its first save, and a report by the worker that took the crash.
LEMMA FileKeeps ==
  ASSUME TypeOK, HeldIsFiled, OneLink, FilesInv, NEW p \in Savers, NEW v \in {"torn", "good", "null"},
         Saving(p), UNCHANGED <<indexed, filed, born, links, worker>>,
         Put(call[p].crash, call[p].file, v),
         \A q \in Savers : q # p => call'[q] = call[q],
         \/ /\ call'[p].crash = call[p].crash /\ call'[p].file = call[p].file
            /\ call'[p].content = call[p].content
            /\ call'[p].pc = "write" \/ (call'[p].pc = "slot" /\ v = call[p].content)
         \/ call'[p].pc = "idle" /\ call[p].file = "report"
  PROVE  FilesInv'
  <1> DEFINE c == call[p].crash
             f == call[p].file
  <1>1. c \in Crashes /\ f \in {"raw", "report"} /\ call[p] \in CallType
    BY DEF TypeOK, Saving, CallType
  <1>2. \A d \in Crashes : /\ store'[d].raw = IF d = c /\ f = "raw" THEN v ELSE store[d].raw
                           /\ store'[d].report = IF d = c /\ f = "report" THEN v ELSE store[d].report
    <2>1. store \in [Crashes -> [raw : FileState, report : FileState, back : BOOLEAN]]
      BY DEF TypeOK
    <2>2. CASE f = "raw"
      BY <1>1, <2>1, <2>2 DEF Put
    <2>3. CASE f = "report"
      BY <1>1, <2>1, <2>3 DEF Put
    <2> QED
      BY <1>1, <2>2, <2>3
  <1>3. /\ \A d \in Crashes : store'[d].report = "absent" /\ d \notin indexed' => Untouched(d)
        /\ f = "report" => store'[c].report # "absent"
        /\ \A d \in Crashes : (d # c \/ f = "raw") /\ Untouched(d)
                => store'[d].report = "absent" /\ d \notin indexed'
    BY <1>1, <1>2 DEF Untouched
  <1>4. \A q \in Savers : Saving(q)' =>
            /\ Saving(q) /\ call[q].crash \in Crashes /\ call[q].file \in {"raw", "report"}
            /\ call'[q].crash = call[q].crash
            /\ call'[q].file = call[q].file /\ call'[q].content = call[q].content
    BY DEF TypeOK, Saving, AtCall, CallType
  <1>5. f = "report" => /\ p \in Workers /\ At(p, "processed") /\ c = Crash(p) /\ filed[c] > 0
                        /\ \A l \in links : l[2] # c
    <2> SUFFICES ASSUME f = "report"
                 PROVE  /\ p \in Workers /\ At(p, "processed") /\ c = Crash(p) /\ filed[c] > 0
                        /\ \A l \in links : l[2] # c
      OBVIOUS
    <2>1. p \in Workers /\ At(p, "processed") /\ c = Crash(p)
      BY DEF FilesInv, ReportsAreWorkers
    <2>2. Holds(p) /\ Past(p)
      BY <2>1 DEF Holds, Past, At
    <2> QED
      BY <2>1, <2>2 DEF HeldIsFiled, OneLink
  <1>6. WritesIntoFile'
    <2> SUFFICES ASSUME NEW q \in Savers, AtCall(q, "write")'
                 PROVE  store'[call'[q].crash][call'[q].file] # "absent"
      BY DEF WritesIntoFile
    <2>1. Saving(q)'
      BY DEF Saving, AtCall
    <2>2. CASE q = p
      <3>1. CASE f = "raw"
        BY <1>1, <1>2, <1>4, <2>1, <2>2, <3>1
      <3>2. CASE f = "report"
        BY <1>1, <1>2, <1>4, <2>1, <2>2, <3>2
      <3> QED
        BY <1>1, <3>1, <3>2
    <2>3. CASE q # p
      <3>1. store[call[q].crash][call[q].file] # "absent"
        BY <2>3 DEF FilesInv, WritesIntoFile, AtCall
      <3>2. CASE call[q].file = "raw"
        BY <1>2, <1>4, <2>1, <3>1, <3>2
      <3>3. CASE call[q].file = "report"
        BY <1>2, <1>4, <2>1, <3>1, <3>3
      <3> QED
        BY <1>4, <2>1, <3>2, <3>3
    <2> QED
      BY <2>2, <2>3
  <1>7. UnbornIsBlank'
    <2> SUFFICES ASSUME NEW d \in Crashes, born'[d] = Unborn
                 PROVE  /\ filed'[d] = 0 /\ store'[d].report = "absent" /\ d \notin indexed'
                        /\ \A q \in Savers : Saving(q)' => call'[q].crash # d
      BY DEF UnbornIsBlank, Untouched
    <2>1. filed[d] = 0 /\ Untouched(d) /\ \A q \in Savers : Saving(q) => call[q].crash # d
      BY DEF FilesInv, UnbornIsBlank
    <2> QED
      BY <1>3, <1>4, <2>1
  <1>8. ReportsAreWorkers'
    BY <1>4 DEF FilesInv, ReportsAreWorkers, At, Crash
  <1>9. FirstSave'
    <2>1. ASSUME NEW q \in Savers, Saving(q)', call'[q].file = "raw",
                 store'[call'[q].crash].report = "absent", call'[q].crash \notin indexed'
          PROVE  /\ call'[q].content = "good" /\ filed'[call'[q].crash] = 0
                 /\ ~Early(q)' => store'[call'[q].crash].raw = "good"
      <3>1. Saving(q) /\ call[q].file = "raw" /\ Untouched(call[q].crash)
        BY <1>3, <1>4, <2>1
      <3>2. /\ call[q].content = "good" /\ filed[call[q].crash] = 0
            /\ ~Early(q) => store[call[q].crash].raw = "good"
        BY <3>1 DEF FilesInv, FirstSave
      <3>3. CASE call[q].crash = c
        <4>1. f = "raw"
          BY <1>1, <1>3, <1>4, <2>1, <3>3
        <4>2. q = p
          BY <3>1, <3>3, <4>1 DEF FilesInv, FirstSave
        <4>3. ~Early(p)' => v = call[p].content
          BY <2>1, <4>2 DEF Early, Saving, AtCall
        <4> QED
          BY <1>1, <1>2, <1>4, <2>1, <3>2, <4>1, <4>2, <4>3
      <3>4. CASE call[q].crash # c
        <4>1. Early(q)' <=> Early(q)
          BY <3>4 DEF Early
        <4> QED
          BY <1>2, <1>4, <2>1, <3>2, <3>4, <4>1
      <3> QED
        BY <3>3, <3>4
    <2>2. ASSUME NEW q \in Savers, NEW r \in Savers,
                 Saving(q)', call'[q].file = "raw", Saving(r)', call'[r].file = "raw",
                 call'[q].crash = call'[r].crash,
                 store'[call'[q].crash].report = "absent", call'[q].crash \notin indexed'
          PROVE  q = r
      <3>1. Untouched(call[q].crash)
        BY <1>3, <1>4, <2>2
      <3> QED
        BY <1>4, <2>2, <3>1 DEF FilesInv, FirstSave
    <2> QED
      BY <2>1, <2>2 DEF FirstSave, Untouched
  <1>10. FiledIsWhole'
    <2> SUFFICES ASSUME NEW d \in Crashes, filed'[d] > 0, store'[d].report = "absent", d \notin indexed'
                 PROVE  store'[d].raw = "good"
      BY DEF FiledIsWhole, Untouched
    <2>1. Untouched(d) /\ store[d].raw = "good"
      BY <1>3 DEF FilesInv, FiledIsWhole
    <2>2. d = c => f # "raw"
      <3> SUFFICES ASSUME d = c, f = "raw" PROVE FALSE
        OBVIOUS
      <3>1. filed[c] = 0
        BY <2>1 DEF FilesInv, FirstSave
      <3> QED
        BY <3>1
    <2> QED
      BY <1>2, <2>1, <2>2
  <1>11. TouchedIsTaken'
    <2>1. ASSUME NEW d \in Crashes, ~(store'[d].report = "absent" /\ d \notin indexed')
          PROVE  filed'[d] > 0
      <3>1. CASE d = c /\ f = "report"
        BY <1>5, <3>1
      <3>2. CASE ~(d = c /\ f = "report")
        BY <1>1, <1>3, <2>1, <3>2 DEF FilesInv, TouchedIsTaken
      <3> QED
        BY <3>1, <3>2
    <2>2. ASSUME NEW l \in links'
          PROVE  store'[l[2]].report = "absent" /\ l[2] \notin indexed'
      <3>1. l[2] \in Crashes /\ Untouched(l[2])
        BY DEF TypeOK, FilesInv, TouchedIsTaken
      <3> QED
        BY <1>1, <1>3, <1>5, <3>1
    <2> QED
      BY <2>1, <2>2 DEF TouchedIsTaken, Untouched
  <1>12. WorkersReadWhole'
    <2> SUFFICES ASSUME NEW w \in Workers, Holds(w)',
                        store'[worker'[w].crash].report = "absent", worker'[w].crash \notin indexed'
                 PROVE  /\ worker'[w].raw = "good" /\ ~At(w, "saved")'
                        /\ At(w, "processed")' => AtCall(w, "truncate")' /\ call'[w].file = "report"
      BY DEF WorkersReadWhole, Untouched, Crash
    <2>1. worker[w].crash \in Crashes /\ Holds(w)
      BY DEF TypeOK, Holds, At
    <2>2. Untouched(Crash(w))
      BY <1>3, <2>1 DEF Crash
    <2>3. /\ worker[w].raw = "good" /\ ~At(w, "saved")
          /\ At(w, "processed") => AtCall(w, "truncate") /\ call[w].file = "report"
      BY <2>1, <2>2 DEF FilesInv, WorkersReadWhole
    <2>4. At(w, "processed") => w # p
      BY <1>3, <1>5, <2>3 DEF Crash
    <2> QED
      BY <2>3, <2>4 DEF At, AtCall, Savers
  <1> QED
    BY <1>6, <1>7, <1>8, <1>9, <1>10, <1>11, <1>12 DEF FilesInv

\* Truncating and writing are such steps: a file that is written to is there.
LEMMA WritingKeeps ==
  ASSUME TypeOK, HeldIsFiled, OneLink, FilesInv, NEW p \in Savers, Truncate(p) \/ Write(p)
  PROVE  FilesInv'
  <1>1. call \in [Savers -> CallType] /\ call[p] \in CallType /\ Saving(p)
    BY DEF TypeOK, Truncate, Write, Saving, AtCall
  <1>2. UNCHANGED <<indexed, filed, born, links, worker>>
    BY DEF Truncate, Write, InSave, fixed
  <1>3. CASE Truncate(p)
    <2>1. call' = [call EXCEPT ![p].pc = "write"] /\ Put(call[p].crash, call[p].file, "torn")
      BY <1>3 DEF Truncate, GoTo
    <2>2. /\ call'[p].crash = call[p].crash /\ call'[p].file = call[p].file
          /\ call'[p].content = call[p].content /\ call'[p].pc = "write"
          /\ \A q \in Savers : q # p => call'[q] = call[q]
      BY <1>1, <2>1 DEF CallType
    <2> QED
      BY <1>1, <1>2, <2>1, <2>2, FileKeeps
  <1>4. CASE Write(p)
    <2>1. Put(call[p].crash, call[p].file, call[p].content)
      BY <1>4 DEF Write, FilesInv, WritesIntoFile
    <2>2. call[p].content \in {"good", "null"} /\ call[p].file \in {"raw", "report"}
      BY <1>1 DEF CallType
    <2>3. CASE call[p].file = "raw"
      <3>1. call' = [call EXCEPT ![p].pc = "slot"]
        BY <1>4, <2>3 DEF Write, GoTo
      <3>2. /\ call'[p].crash = call[p].crash /\ call'[p].file = call[p].file
            /\ call'[p].content = call[p].content /\ call'[p].pc = "slot"
            /\ \A q \in Savers : q # p => call'[q] = call[q]
        BY <1>1, <3>1 DEF CallType
      <3> QED
        BY <1>1, <1>2, <2>1, <2>2, <3>2, FileKeeps
    <2>4. CASE call[p].file = "report"
      <3>1. call' = [call EXCEPT ![p] = IdleCall]
        BY <1>4, <2>4 DEF Write, EndCall
      <3>2. call'[p].pc = "idle" /\ \A q \in Savers : q # p => call'[q] = call[q]
        BY <1>1, <3>1 DEF IdleCall
      <3> QED
        BY <1>1, <1>2, <2>1, <2>2, <2>4, <3>2, FileKeeps
    <2> QED
      BY <2>2, <2>3, <2>4
  <1> QED
    BY <1>3, <1>4

-----------------------------------------------------------------------------
(* The forward link. *)

\* A crash that is queued now was written completely by the save that queues it.
LEMMA LinkForwardKeeps ==
  ASSUME TypeOK, BackLinkGuards, HeldIsFiled, FilesInv, NEW p \in Savers, LinkForward(p)
  PROVE  FilesInv'
  <1> DEFINE c == call[p].crash
  <1>1. /\ call \in [Savers -> CallType] /\ c \in Crashes /\ Saving(p) /\ Forwarding(p) /\ ~Early(p)
        /\ call[p].file \in {"raw", "report"} /\ filed \in [Crashes -> Nat]
    BY DEF TypeOK, LinkForward, Saving, Forwarding, AtCall, Early, CallType
  <1>2. UNCHANGED <<store, indexed, born, worker>> /\ call' = [call EXCEPT ![p] = IdleCall]
    BY DEF LinkForward, InSave, fixed, EndCall
  <1>3. ~Saving(p)' /\ \A q \in Savers : q # p => call'[q] = call[q]
    BY <1>1, <1>2 DEF IdleCall, Saving, AtCall
  <1>4. filed[c] = 0
    BY <1>1 DEF BackLinkGuards
  <1>5. Untouched(c) /\ born[c] # Unborn
    BY <1>1, <1>4 DEF FilesInv, TouchedIsTaken, UnbornIsBlank
  <1>6. call[p].file = "raw"
    <2> SUFFICES ASSUME call[p].file = "report" PROVE FALSE
      BY <1>1
    <2>1. p \in Workers /\ Holds(p) /\ c = Crash(p)
      BY <1>1 DEF FilesInv, ReportsAreWorkers, Holds, At
    <2> QED
      BY <1>4, <2>1 DEF HeldIsFiled
  <1>7. store[c].raw = "good"
    BY <1>1, <1>5, <1>6 DEF FilesInv, FirstSave
  <1>8. \A d \in Crashes : filed'[d] = filed[d] \/ (d = c /\ filed'[d] > 0)
    <2>1. filed' = filed \/ filed' = [filed EXCEPT ![c] = filed[c] + 1]
      BY DEF LinkForward
    <2> QED
      BY <1>1, <2>1
  <1>9. \A l \in links' : l \in links \/ l[2] = c
    BY DEF LinkForward
  <1>10. WritesIntoFile'
    BY <1>2, <1>3 DEF FilesInv, WritesIntoFile, Saving, AtCall
  <1>11. UnbornIsBlank'
    BY <1>2, <1>3, <1>5, <1>8 DEF FilesInv, UnbornIsBlank, Untouched, Saving, AtCall
  <1>12. ReportsAreWorkers'
    BY <1>2, <1>3 DEF FilesInv, ReportsAreWorkers, Saving, AtCall, At, Crash
  <1>13. FirstSave'
    <2>1. \A q \in Savers : Saving(q)' => q # p /\ Saving(q) /\ call'[q] = call[q] /\ call[q].crash \in Crashes
      BY <1>3 DEF TypeOK, Saving, AtCall
    <2>2. ASSUME NEW q \in Savers, Saving(q)', call'[q].file = "raw",
                 store'[call'[q].crash].report = "absent", call'[q].crash \notin indexed'
          PROVE  /\ call'[q].content = "good" /\ filed'[call'[q].crash] = 0
                 /\ ~Early(q)' => store'[call'[q].crash].raw = "good"
      <3>1. Saving(q) /\ call[q].file = "raw" /\ Untouched(call[q].crash) /\ q # p
        BY <1>2, <2>1, <2>2 DEF Untouched
      <3>2. call[q].crash # c
        BY <1>1, <1>6, <3>1 DEF FilesInv, FirstSave
      <3> QED
        BY <1>2, <1>8, <2>1, <2>2, <3>1, <3>2 DEF FilesInv, FirstSave, Early
    <2>3. ASSUME NEW q \in Savers, NEW r \in Savers,
                 Saving(q)', call'[q].file = "raw", Saving(r)', call'[r].file = "raw",
                 call'[q].crash = call'[r].crash,
                 store'[call'[q].crash].report = "absent", call'[q].crash \notin indexed'
          PROVE  q = r
      BY <1>2, <2>1, <2>3 DEF FilesInv, FirstSave, Untouched
    <2> QED
      BY <2>2, <2>3 DEF FirstSave, Untouched
  <1>14. FiledIsWhole'
    BY <1>2, <1>7, <1>8 DEF FilesInv, FiledIsWhole, Untouched
  <1>15. TouchedIsTaken'
    BY <1>2, <1>5, <1>8, <1>9 DEF FilesInv, TouchedIsTaken, Untouched
  <1>16. WorkersReadWhole'
    <2> SUFFICES ASSUME NEW w \in Workers, Holds(w),
                        store[worker[w].crash].report = "absent", worker[w].crash \notin indexed
                 PROVE  /\ worker[w].raw = "good" /\ ~At(w, "saved")
                        /\ At(w, "processed") => AtCall(w, "truncate")' /\ call'[w].file = "report"
      BY <1>2 DEF WorkersReadWhole, Untouched, Crash, Holds, At
    <2>1. /\ worker[w].raw = "good" /\ ~At(w, "saved")
          /\ At(w, "processed") => AtCall(w, "truncate") /\ call[w].file = "report"
      BY DEF FilesInv, WorkersReadWhole, Untouched, Crash
    <2>2. At(w, "processed") => w # p
      BY <1>1, <2>1 DEF Forwarding, AtCall
    <2> QED
      BY <1>3, <2>1, <2>2 DEF AtCall, Savers
  <1> QED
    BY <1>10, <1>11, <1>12, <1>13, <1>14, <1>15, <1>16 DEF FilesInv

-----------------------------------------------------------------------------
(* The steps that begin a save. *)

\* A save that begins keeps the invariant if it is a crash's first, a report by the worker
\* that has the crash, or one of a crash that was touched.
LEMMA BeginKeeps ==
  ASSUME TypeOK, FilesInv, NEW p \in Savers, NEW c \in Crashes,
         NEW file \in {"raw", "report"}, NEW content \in {"good", "null"},
         UNCHANGED <<store, indexed, filed, links>>, StartCall(p, c, file, content),
         born'[c] # Unborn, \A d \in Crashes : d # c => born'[d] = born[d],
         file = "raw" /\ Untouched(c) =>
            /\ content = "good" /\ filed[c] = 0
            /\ \A q \in Savers : Saving(q) => call[q].crash # c,
         file = "report" => p \in Workers /\ At(p, "processed")' /\ worker'[p].crash = c,
         \A w \in Workers : w # p => worker'[w] = worker[w],
         p \in Workers =>
            /\ Holds(p) /\ worker'[p].crash = worker[p].crash /\ worker'[p].raw = worker[p].raw
            /\ Untouched(worker[p].crash) => ~At(p, "saved")' /\ (At(p, "processed")' => file = "report")
  PROVE  FilesInv'
  <1>1. call'[p] = NewCall(c, file, content) /\ \A q \in Savers : q # p => call'[q] = call[q]
    BY DEF TypeOK, StartCall
  <1>2. /\ call'[p].pc = "truncate" /\ call'[p].crash = c
        /\ call'[p].file = file /\ call'[p].content = content
    BY <1>1 DEF NewCall
  <1>3. WritesIntoFile'
    BY <1>1, <1>2 DEF FilesInv, WritesIntoFile, AtCall
  <1>4. UnbornIsBlank'
    BY <1>1, <1>2 DEF FilesInv, UnbornIsBlank, Untouched, Saving, AtCall
  <1>5. ReportsAreWorkers'
    BY <1>1, <1>2 DEF FilesInv, ReportsAreWorkers, Saving, AtCall, At, Crash
  <1>6. FirstSave'
    BY <1>1, <1>2 DEF FilesInv, FirstSave, Untouched, Saving, AtCall, Early
  <1>7. FiledIsWhole' /\ TouchedIsTaken'
    BY DEF FilesInv, FiledIsWhole, TouchedIsTaken, Untouched
  <1>8. WorkersReadWhole'
    <2> SUFFICES ASSUME NEW w \in Workers, Holds(w)',
                        store[worker'[w].crash].report = "absent", worker'[w].crash \notin indexed
                 PROVE  /\ worker'[w].raw = "good" /\ ~At(w, "saved")'
                        /\ At(w, "processed")' => AtCall(w, "truncate")' /\ call'[w].file = "report"
      BY DEF WorkersReadWhole, Untouched, Crash
    <2>1. CASE w = p
      <3>1. Untouched(worker[p].crash) /\ worker[p].raw = "good"
        BY <2>1 DEF FilesInv, WorkersReadWhole, Untouched, Crash
      <3> QED
        BY <1>2, <2>1, <3>1 DEF AtCall
    <2>2. CASE w # p
      BY <1>1, <2>2 DEF FilesInv, WorkersReadWhole, Untouched, Crash, Holds, At, AtCall, Savers
    <2> QED
      BY <2>1, <2>2
  <1> QED
    BY <1>3, <1>4, <1>5, <1>6, <1>7, <1>8 DEF FilesInv

\* The collector saves a crash nobody knows; only hits are reprocessed.
LEMMA RequestKeeps ==
  ASSUME TypeOK, FilesInv, ReprocessesHits, NEW p \in Handlers, NEW c \in Crashes,
         Submit(p, c) \/ Reprocess(p, c)
  PROVE  FilesInv'
  <1>1. p \in Savers /\ p \notin Workers
    BY SpoolAssumption DEF Savers
  <1>2. UNCHANGED <<store, indexed, filed, links, worker>> /\ StartCall(p, c, "raw", "good")
    BY DEF Submit, Reprocess, files, history
  <1>3. CASE Submit(p, c)
    <2>1. filed[c] = 0 /\ \A q \in Savers : Saving(q) => call[q].crash # c
      BY <1>3 DEF Submit, FilesInv, UnbornIsBlank
    <2>2. born' = [born EXCEPT ![c] = now.day] /\ now.day \in Nat /\ born \in [Crashes -> Day \cup {Unborn}]
      BY <1>3, CalendarAssumption DEF Submit, TypeOK, Time, Day
    <2>3. born'[c] # Unborn /\ \A d \in Crashes : d # c => born'[d] = born[d]
      BY <2>2 DEF Unborn
    <2> QED
      BY <1>1, <1>2, <2>1, <2>3, BeginKeeps
  <1>4. CASE Reprocess(p, c)
    <2>1. c \in indexed /\ UNCHANGED born
      BY <1>4 DEF Reprocess, fixed
    <2>2. ~Untouched(c) /\ born[c] # Unborn
      BY <2>1 DEF FilesInv, UnbornIsBlank, Untouched
    <2> QED
      BY <1>1, <1>2, <2>1, <2>2, BeginKeeps
  <1> QED
    BY <1>3, <1>4

-----------------------------------------------------------------------------
(* A goroutine reads the raw crash, stores and indexes. *)

\* A goroutine that only moves on keeps the invariant, if it read an untouched crash whole.
LEMMA ReaderKeeps ==
  ASSUME TypeOK, FilesInv, NEW w \in Workers, NEW r,
         UNCHANGED <<store, indexed, filed, born, links, call>>, WorkerTo(w, r),
         r.crash = worker[w].crash, Holds(w), ~At(w, "processed"),
         Untouched(Crash(w)) => r.raw = "good" /\ r.pc # "saved" /\ r.pc # "processed"
  PROVE  FilesInv'
  <1>1. worker'[w] = r /\ \A v \in Workers : v # w => worker'[v] = worker[v]
    BY DEF TypeOK, WorkerTo
  <1>2. WritesIntoFile' /\ UnbornIsBlank' /\ FirstSave' /\ FiledIsWhole' /\ TouchedIsTaken'
    BY DEF FilesInv, WritesIntoFile, UnbornIsBlank, FirstSave, FiledIsWhole, TouchedIsTaken,
           Untouched, Saving, AtCall, Early
  <1>3. ReportsAreWorkers'
    BY <1>1 DEF FilesInv, ReportsAreWorkers, Saving, AtCall, At, Crash
  <1>4. WorkersReadWhole'
    <2> SUFFICES ASSUME NEW v \in Workers, Holds(v)',
                        store[worker'[v].crash].report = "absent", worker'[v].crash \notin indexed
                 PROVE  /\ worker'[v].raw = "good" /\ ~At(v, "saved")'
                        /\ At(v, "processed")' => AtCall(v, "truncate") /\ call[v].file = "report"
      BY DEF WorkersReadWhole, Untouched, Crash, AtCall
    <2>1. CASE v = w
      BY <1>1, <2>1 DEF Untouched, Crash, At
    <2>2. CASE v # w
      BY <1>1, <2>2 DEF FilesInv, WorkersReadWhole, Untouched, Crash, Holds, At
    <2> QED
      BY <2>1, <2>2
  <1> QED
    BY <1>2, <1>3, <1>4 DEF FilesInv

\* What a goroutine reads of an untouched crash was filed, so it is whole.
LEMMA GetRawKeeps ==
  ASSUME TypeOK, HeldIsFiled, FilesInv, NEW w \in Workers, GetRaw(w) PROVE FilesInv'
  <1> DEFINE r == [worker[w] EXCEPT !.pc = "getdumps", !.raw = GetRawCrash(Crash(w))]
  <1>1. worker[w] \in WorkerType /\ Holds(w) /\ ~At(w, "processed") /\ Crash(w) \in Crashes
    BY DEF TypeOK, GetRaw, Holds, At, Crash
  <1>2. r.crash = worker[w].crash /\ r.pc = "getdumps" /\ r.raw = GetRawCrash(Crash(w))
    BY <1>1 DEF WorkerType
  <1>3. UNCHANGED <<store, indexed, filed, born, links, call>> /\ WorkerTo(w, r)
    BY DEF GetRaw, InWork, fixed
  <1>4. Untouched(Crash(w)) => r.raw = "good"
    BY <1>1, <1>2 DEF HeldIsFiled, FilesInv, FiledIsWhole, GetRawCrash
  <1> QED
    BY <1>1, <1>2, <1>3, <1>4, ReaderKeeps

\* The report is the first thing stored of a crash that was read whole; without a raw crash
\* none is, and then the crash was touched before.
LEMMA SaveProcessedKeeps ==
  ASSUME TypeOK, HeldIsFiled, FilesInv, NEW w \in Workers, SaveProcessed(w) PROVE FilesInv'
  <1> DEFINE r == [worker[w] EXCEPT !.pc = "processed"]
             c == Crash(w)
  <1>1. /\ worker \in [Workers -> WorkerType] /\ worker[w] \in WorkerType /\ w \in Savers
        /\ Holds(w) /\ ~At(w, "processed") /\ c \in Crashes /\ filed[c] > 0
    BY DEF TypeOK, SaveProcessed, Holds, At, Crash, Savers, HeldIsFiled
  <1>2. r.crash = worker[w].crash /\ r.pc = "processed" /\ r.raw = worker[w].raw
    BY <1>1 DEF WorkerType
  <1>3. UNCHANGED <<store, indexed, filed, born, links>> /\ WorkerTo(w, r)
    BY DEF SaveProcessed, Move, InWork, fixed
  <1>4. worker'[w] = r /\ \A v \in Workers : v # w => worker'[v] = worker[v]
    BY <1>1, <1>3 DEF WorkerTo
  <1>5. born[c] # Unborn
    BY <1>1 DEF FilesInv, UnbornIsBlank
  <1>6. CASE worker[w].raw = "good"
    <2>1. StartCall(w, c, "report", "good")
      BY <1>6 DEF SaveProcessed
    <2>2. At(w, "processed")' /\ ~At(w, "saved")' /\ worker'[w].crash = c /\ worker'[w].raw = worker[w].raw
      BY <1>2, <1>4 DEF At, Crash
    <2> QED
      BY <1>1, <1>3, <1>4, <1>5, <2>1, <2>2, BeginKeeps DEF Crash
  <1>7. CASE worker[w].raw # "good"
    <2>1. UNCHANGED call
      BY <1>7 DEF SaveProcessed
    <2>2. ~Untouched(c)
      BY <1>1, <1>7 DEF FilesInv, WorkersReadWhole
    <2> QED
      BY <1>1, <1>2, <1>3, <2>1, <2>2, ReaderKeeps
  <1> QED
    BY <1>6, <1>7

\* The raw crash is saved again after the report, so its crash was touched before.
LEMMA SaveRawCrashKeeps ==
  ASSUME TypeOK, HeldIsFiled, FilesInv, NEW w \in Workers, SaveRawCrash(w) PROVE FilesInv'
  <1> DEFINE r == [worker[w] EXCEPT !.pc = "saved"]
             c == Crash(w)
  <1>1. /\ worker \in [Workers -> WorkerType] /\ worker[w] \in WorkerType /\ w \in Savers
        /\ Holds(w) /\ At(w, "processed") /\ AtCall(w, "idle") /\ c \in Crashes /\ filed[c] > 0
    BY DEF TypeOK, SaveRawCrash, Holds, At, Crash, Savers, HeldIsFiled
  <1>2. r.crash = worker[w].crash /\ r.pc = "saved" /\ r.raw = worker[w].raw
    BY <1>1 DEF WorkerType
  <1>3. UNCHANGED <<store, indexed, filed, born, links>> /\ WorkerTo(w, r) /\ StartCall(w, c, "raw", worker[w].raw)
    BY DEF SaveRawCrash, Move, InWork, fixed
  <1>4. worker'[w] = r /\ \A v \in Workers : v # w => worker'[v] = worker[v]
    BY <1>1, <1>3 DEF WorkerTo
  <1>5. born[c] # Unborn
    BY <1>1 DEF FilesInv, UnbornIsBlank
  <1>6. ~Untouched(c)
    BY <1>1 DEF FilesInv, WorkersReadWhole, AtCall
  <1>7. worker'[w].crash = c /\ worker'[w].raw = worker[w].raw /\ worker[w].raw \in {"good", "null"}
    BY <1>1, <1>2, <1>4 DEF Crash, WorkerType
  <1> QED
    BY <1>1, <1>2, <1>3, <1>4, <1>5, <1>6, <1>7, BeginKeeps DEF Crash

\* The document: its crash was taken off the queue.
LEMMA IndexKeeps ==
  ASSUME TypeOK, HeldIsFiled, OneLink, FilesInv, NEW w \in Workers, NEW dated, Index(w, dated)
  PROVE  FilesInv'
  <1> DEFINE c == Crash(w)
             i == worker[w].dst
             r == AfterDestination(w, i)
  <1>1. /\ worker \in [Workers -> WorkerType] /\ worker[w] \in WorkerType
        /\ Holds(w) /\ Past(w) /\ At(w, "store") /\ c \in Crashes /\ filed[c] > 0
    BY DEF TypeOK, Index, Holds, Past, At, Crash, HeldIsFiled
  <1>2. r.pc = "idle" \/ (r.pc \in {"store", "rmback"} /\ r.crash = worker[w].crash /\ r.raw = worker[w].raw)
    <2>1. /\ [worker[w] EXCEPT !.pc = "store", !.dst = i + 1].pc = "store"
          /\ [worker[w] EXCEPT !.pc = "store", !.dst = i + 1].crash = worker[w].crash
          /\ [worker[w] EXCEPT !.pc = "store", !.dst = i + 1].raw = worker[w].raw
      BY <1>1 DEF WorkerType
    <2>2. /\ [worker[w] EXCEPT !.pc = "rmback"].pc = "rmback"
          /\ [worker[w] EXCEPT !.pc = "rmback"].crash = worker[w].crash
          /\ [worker[w] EXCEPT !.pc = "rmback"].raw = worker[w].raw
      BY <1>1 DEF WorkerType
    <2>3. IdleWorker.pc = "idle"
      BY DEF IdleWorker
    <2> QED
      BY <2>1, <2>2, <2>3 DEF AfterDestination
  <1>3. UNCHANGED <<store, filed, born, links, call>> /\ WorkerTo(w, r)
    BY DEF Index, InWork, fixed
  <1>4. worker'[w] = r /\ \A v \in Workers : v # w => worker'[v] = worker[v]
    BY <1>1, <1>3 DEF WorkerTo
  <1>5. indexed' = indexed \/ indexed' = indexed \cup {c}
    BY DEF Index
  <1>6. \A l \in links : l[2] # c
    BY <1>1 DEF OneLink
  <1>7. WritesIntoFile' /\ FirstSave' /\ FiledIsWhole'
    BY <1>3, <1>5 DEF FilesInv, WritesIntoFile, FirstSave, FiledIsWhole, Untouched, Saving, AtCall, Early
  <1>8. UnbornIsBlank'
    BY <1>1, <1>3, <1>5 DEF FilesInv, UnbornIsBlank, Untouched, Saving, AtCall
  <1>9. ReportsAreWorkers'
    BY <1>1, <1>3, <1>4 DEF FilesInv, ReportsAreWorkers, Saving, AtCall, At, Crash
  <1>10. TouchedIsTaken'
    BY <1>1, <1>3, <1>5, <1>6 DEF FilesInv, TouchedIsTaken, Untouched
  <1>11. WorkersReadWhole'
    <2> SUFFICES ASSUME NEW v \in Workers, Holds(v)',
                        store[worker'[v].crash].report = "absent", worker'[v].crash \notin indexed'
                 PROVE  /\ worker'[v].raw = "good" /\ ~At(v, "saved")'
                        /\ At(v, "processed")' => AtCall(v, "truncate") /\ call[v].file = "report"
      BY <1>3 DEF WorkersReadWhole, Untouched, Crash, AtCall
    <2>1. worker'[v].crash \notin indexed
      BY <1>5
    <2>2. CASE v = w
      BY <1>1, <1>2, <1>4, <2>1, <2>2 DEF FilesInv, WorkersReadWhole, Untouched, Crash, Holds, At
    <2>3. CASE v # w
      BY <1>4, <2>1, <2>3 DEF FilesInv, WorkersReadWhole, Untouched, Crash, Holds, At
    <2> QED
      BY <2>2, <2>3
  <1> QED
    BY <1>7, <1>8, <1>9, <1>10, <1>11 DEF FilesInv

-----------------------------------------------------------------------------
\* Nothing was stored at the start.
LEMMA InitWhole == Init => WInv
  <1> SUFFICES ASSUME Init PROVE WInv
    OBVIOUS
  <1>1. \A p \in Savers : ~Saving(p) /\ ~AtCall(p, "write")
    BY DEF Init, IdleCall, Saving, AtCall
  <1>2. \A c \in Crashes : Untouched(c) /\ filed[c] = 0
    BY DEF Init, Untouched
  <1>3. links = {} /\ \A w \in Workers : ~Holds(w)
    BY DEF Init, IdleWorker, Holds, At
  <1>4. FilesInv
    BY <1>1, <1>2, <1>3 DEF FilesInv, WritesIntoFile, UnbornIsBlank, ReportsAreWorkers, FirstSave,
       FiledIsWhole, TouchedIsTaken, WorkersReadWhole
  <1> QED
    BY <1>4, InitHeld DEF WInv

\* Every step of the spool keeps what is known of its files.
LEMMA NextFiles ==
  ASSUME LInv, ReprocessesHits, ~config.removeRaw, FilesInv, [Next]_vars PROVE FilesInv'
  <1>1. TypeOK /\ BackLinkGuards /\ HeldIsFiled /\ OneLink
    BY DEF LInv, IInv
  <1>2. CASE Plain
    BY <1>1, <1>2, PlainKeeps
  <1>3. ASSUME NEW p \in Savers, Save(p) PROVE FilesInv'
    <2>1. CASE Truncate(p) \/ Write(p)
      BY <1>1, <2>1, WritingKeeps
    <2>2. CASE PickSlot(p) \/ MakeHourDir(p) \/ MakeSlotDir(p) \/ LinkBack(p)
      BY <1>1, <1>2, <2>2, LateSaveIsPlain
    <2>3. CASE LinkForward(p)
      BY <1>1, <2>3, LinkForwardKeeps
    <2> QED
      BY <1>3, <2>1, <2>2, <2>3 DEF Save
  <1>4. ASSUME NEW w \in Workers, Process(w) PROVE FilesInv'
    <2>1. ~RemoveBack(w) /\ ~RemoveDir(w) /\ \A f \in {"raw", "report"} : ~RemoveFile(w, f)
      BY <1>1 DEF BackLinkGuards, RemoveBack, RemoveFile, RemoveDir
    <2>2. CASE \/ Lstat(w) \/ Stat(w) \/ GetDumps(w) \/ StoredInFs(w)
               \/ RemoveLink(w, "unlink", "unlink again") \/ RemoveLink(w, "unlink again", "getraw")
      BY <1>1, <1>2, <2>2, WorkerIsPlain
    <2>3. CASE GetRaw(w) \/ SaveProcessed(w) \/ SaveRawCrash(w)
      BY <1>1, <2>3, GetRawKeeps, SaveProcessedKeeps, SaveRawCrashKeeps
    <2>4. ASSUME NEW dated, Index(w, dated) PROVE FilesInv'
      BY <1>1, <2>4, IndexKeeps
    <2> QED
      BY <1>4, <2>1, <2>2, <2>3, <2>4 DEF Process
  <1>5. CASE Scan \/ Restart
    BY <1>1, <1>2, <1>5, ScannerIsPlain
  <1>6. CASE Tick \/ \E p \in Handlers : Abort(p)
    BY <1>1, <1>2, <1>6, AbortIsPlain
  <1>7. CASE \E p \in Handlers, c \in Crashes : Submit(p, c) \/ Reprocess(p, c)
    BY <1>1, <1>7, RequestKeeps
  <1>8. CASE ProcessorDies
    <2>1. ProcessorDown /\ UNCHANGED <<store, filed, indexed, born>> /\ links' \subseteq links
      BY <1>8 DEF ProcessorDies, InWork, fixed
    <2> QED
      BY <1>1, <1>2, <2>1, DownIsPlain
  <1>9. CASE UNCHANGED vars
    <2>1. UNCHANGED <<store, filed, indexed, born, links, call, worker>>
      BY <1>9 DEF vars, files, history, fixed
    <2>2. OldOrNewWorkers
      BY <2>1 DEF OldOrNewWorkers, Holds, At
    <2> QED
      BY <1>1, <1>2, <2>1, <2>2, WorkersOnly
  <1> QED
    BY <1>3, <1>4, <1>5, <1>6, <1>7, <1>8, <1>9 DEF Next

\* Every step keeps the invariant.
LEMMA NextWhole == WInv /\ [Next]_vars => WInv'
  <1> SUFFICES ASSUME WInv, [Next]_vars PROVE WInv'
    OBVIOUS
  <1>1. LInv' /\ UNCHANGED config
    BY NextHeld, NextKeepsConfig DEF WInv
  <1> QED
    BY <1>1, NextFiles DEF WInv

\* Only hits are reprocessed: then a queued crash was written completely by its first save,
\* and nobody writes it before a goroutine takes it.
THEOREM SpoolLinkedIsWhole == ASSUME ReprocessesHits PROVE Spec => []LinkedIsWhole
  <1>1. WInv => LinkedIsWhole
    <2> SUFFICES ASSUME WInv, NEW l \in links, ~config.removeRaw PROVE store[l[2]].raw = "good"
      BY DEF LinkedIsWhole
    <2>1. TypeOK /\ HeldIsFiled /\ FilesInv
      BY DEF WInv, LInv, IInv
    <2>2. l[2] \in Crashes /\ filed[l[2]] > 0 /\ Untouched(l[2])
      BY <2>1 DEF TypeOK, HeldIsFiled, FilesInv, TouchedIsTaken
    <2> QED
      BY <2>1, <2>2 DEF FilesInv, FiledIsWhole
  <1> QED
    BY <1>1, InitWhole, NextWhole, PTL DEF Spec

-----------------------------------------------------------------------------
(* The report before the document. *)

FsFirst == \A cf \in Configs : (\E i \in DOMAIN cf.dst : cf.dst[i] = "fs") => cf.dst[1] = "fs"

RInv == WInv /\ (ReprocessesHits /\ FsFirst /\ StoresFs /\ ~config.removeRaw => ReportFirst)

ReportsStay == \A c \in Crashes : store[c].report # "absent" => store'[c].report # "absent"

\* A goroutine that is about to store was so before, begins with the first destination, or
\* has found the report.
StoresInOrder == \A w \in Workers : At(w, "store")' =>
    \/ At(w, "store") /\ worker'[w].crash = worker[w].crash /\ worker'[w].dst = worker[w].dst
    \/ worker'[w].dst = 1
    \/ worker'[w].dst # 0 /\ worker'[w].crash \in Crashes /\ store[worker'[w].crash].report # "absent"

\* Reports that stay, and destinations in order, keep the report before the document.
LEMMA OrderKeepsReports ==
  ASSUME TypeOK, ReportFirst, ReportsStay, StoresInOrder,
         \A c \in indexed' : c \in indexed \/ (c \in Crashes /\ store[c].report # "absent")
  PROVE  ReportFirst'
  <1>1. \A c \in indexed' : store'[c].report # "absent"
    BY DEF TypeOK, ReportFirst, ReportsStay
  <1>2. ASSUME NEW w \in Workers, At(w, "store")'
        PROVE  worker'[w].dst # 0 /\ (worker'[w].dst # 1 => store'[worker'[w].crash].report # "absent")
    <2>1. CASE At(w, "store") /\ worker'[w].crash = worker[w].crash /\ worker'[w].dst = worker[w].dst
      <3>1. worker[w].crash \in Crashes
        BY <2>1 DEF TypeOK, At
      <3> QED
        BY <2>1, <3>1 DEF ReportFirst, ReportsStay, Crash
    <2>2. CASE worker'[w].dst = 1
      BY <2>2
    <2>3. CASE worker'[w].dst # 0 /\ worker'[w].crash \in Crashes /\ store[worker'[w].crash].report # "absent"
      BY <2>3 DEF ReportsStay
    <2> QED
      BY <1>2, <2>1, <2>2, <2>3 DEF StoresInOrder
  <1> QED
    BY <1>1, <1>2 DEF ReportFirst, Crash

\* While raw crashes are kept, no report is ever removed.
LEMMA ReportStays ==
  ASSUME TypeOK, BackLinkGuards, ~config.removeRaw, [Next]_vars PROVE ReportsStay
  <1>1. \A w \in Workers : ~At(w, "rmback") /\ ~At(w, "rmall")
    BY DEF BackLinkGuards
  <1>2. \/ UNCHANGED store
        \/ \E p \in Savers : ~AtCall(p, "idle") /\
              \/ Put(call[p].crash, "back", TRUE)
              \/ \E v \in {"torn", "good", "null"} : Put(call[p].crash, call[p].file, v)
    <2>1. ASSUME NEW p \in Savers, Save(p)
          PROVE  \/ UNCHANGED store
                 \/ ~AtCall(p, "idle") /\
                       \/ Put(call[p].crash, "back", TRUE)
                       \/ \E v \in {"torn", "good", "null"} : Put(call[p].crash, call[p].file, v)
      <3>1. AtCall(p, "write") => call[p].content \in {"good", "null"}
        BY DEF TypeOK, CallType
      <3> QED
        BY <2>1, <3>1 DEF Save, Truncate, Write, PickSlot, MakeHourDir, MakeSlotDir, LinkBack, LinkForward,
           InSave, files, AtCall
    <2>2. ASSUME NEW w \in Workers, Process(w) PROVE UNCHANGED store
      BY <1>1, <2>2 DEF Process, Lstat, Stat, RemoveLink, GetRaw, GetDumps, SaveProcessed, SaveRawCrash,
         StoredInFs, Index, RemoveBack, RemoveFile, RemoveDir
    <2>3. CASE Scan \/ Restart \/ Tick \/ ProcessorDies
      BY <2>3 DEF Scan, ReadSlot, ReadDate, ReadRoot, NextDate, NextHour, NextMinute, Spawn,
         RemoveSlot, RemoveHour, EndDate, EndRound, Restart, Tick, ProcessorDies, ScanStep, OnFiles, files
    <2>4. CASE \E p \in Handlers : Abort(p) \/ \E c \in Crashes : Submit(p, c) \/ Reprocess(p, c)
      BY <2>4 DEF Abort, Submit, Reprocess, files
    <2>5. CASE UNCHANGED vars
      BY <2>5 DEF vars, files
    <2> QED
      BY <2>1, <2>2, <2>3, <2>4, <2>5 DEF Next
  <1>3. store \in [Crashes -> [raw : FileState, report : FileState, back : BOOLEAN]]
    BY DEF TypeOK
  <1>4. ASSUME NEW p \in Savers, ~AtCall(p, "idle"), Put(call[p].crash, "back", TRUE) PROVE ReportsStay
    <2>1. call[p].crash \in Crashes
      BY <1>4 DEF TypeOK
    <2> QED
      BY <1>3, <1>4, <2>1 DEF Put, ReportsStay
  <1>5. ASSUME NEW p \in Savers, ~AtCall(p, "idle"), NEW v \in {"torn", "good", "null"},
               Put(call[p].crash, call[p].file, v)
        PROVE  ReportsStay
    <2>1. call[p].crash \in Crashes /\ call[p].file \in {"raw", "report"}
      BY <1>5 DEF TypeOK, CallType
    <2>2. CASE call[p].file = "raw"
      BY <1>3, <1>5, <2>1, <2>2 DEF Put, ReportsStay
    <2>3. CASE call[p].file = "report"
      BY <1>3, <1>5, <2>1, <2>3 DEF Put, ReportsStay
    <2> QED
      BY <2>1, <2>2, <2>3
  <1>6. CASE UNCHANGED store
    BY <1>6 DEF ReportsStay
  <1> QED
    BY <1>2, <1>4, <1>5, <1>6

\* A goroutine goes through the destinations in their order, and leaves the filesystem
\* only after the report was written to.
LEMMA WorkersInOrder ==
  ASSUME TypeOK, FilesInv, ReportFirst, ~config.removeRaw, config.dst[1] = "fs", NEW w \in Workers, Process(w)
  PROVE  /\ StoresInOrder
         /\ \A c \in indexed' : c \in indexed \/ (c \in Crashes /\ store[c].report # "absent")
  <1>1. worker \in [Workers -> WorkerType] /\ worker[w] \in WorkerType /\ worker[w].dst \in Nat
    BY DEF TypeOK, WorkerType
  <1>2. ASSUME NEW r, WorkerTo(w, r), r.pc # "store" PROVE StoresInOrder
    BY <1>1, <1>2 DEF WorkerTo, StoresInOrder, At
  <1>3. ASSUME NEW i \in Nat, WorkerTo(w, AfterDestination(w, i)),
               i = 0 \/ (worker[w].crash \in Crashes /\ store[worker[w].crash].report # "absent")
        PROVE  StoresInOrder
    <2>1. \A v \in Workers : v # w => worker'[v] = worker[v]
      BY <1>1, <1>3 DEF WorkerTo
    <2>2. worker'[w] = AfterDestination(w, i)
      BY <1>1, <1>3 DEF WorkerTo
    <2> DEFINE r == [worker[w] EXCEPT !.pc = "store", !.dst = i + 1]
    <2>3. r.crash = worker[w].crash /\ r.dst = i + 1
      BY <1>1 DEF WorkerType
    <2>4. worker'[w] = r \/ worker'[w].pc = "idle"
      BY <2>2 DEF AfterDestination, IdleWorker
    <2>5. At(w, "store")' => worker'[w].crash = worker[w].crash /\ worker'[w].dst = i + 1
      BY <2>3, <2>4 DEF At
    <2> QED
      BY <1>3, <2>1, <2>5 DEF StoresInOrder, At
  <1>4. ASSUME ProcessorDown PROVE StoresInOrder
    BY <1>4 DEF ProcessorDown, IdleWorker, StoresInOrder, At
  <1>5. \A pc \in {"stat", "unlink", "unlink again", "getraw", "processed", "saved", "rmall"} :
           [worker[w] EXCEPT !.pc = pc].pc = pc
    BY <1>1 DEF WorkerType
  <1>6. ASSUME Lstat(w) \/ Stat(w) PROVE StoresInOrder
    BY <1>2, <1>4, <1>5, <1>6 DEF Lstat, Stat, GoOnIf
  <1>7. ASSUME RemoveLink(w, "unlink", "unlink again") \/ RemoveLink(w, "unlink again", "getraw") PROVE StoresInOrder
    BY <1>2, <1>5, <1>7 DEF RemoveLink, Move
  <1>8. ASSUME GetRaw(w) PROVE StoresInOrder
    <2> DEFINE r == [worker[w] EXCEPT !.pc = "getdumps", !.raw = GetRawCrash(Crash(w))]
    <2>1. r.pc = "getdumps" /\ WorkerTo(w, r)
      BY <1>1, <1>8 DEF GetRaw, WorkerType
    <2> QED
      BY <1>2, <2>1
  <1>9. ASSUME GetDumps(w) PROVE StoresInOrder
    BY <1>3, <1>4, <1>9 DEF GetDumps, GoOnIf
  <1>10. ASSUME SaveProcessed(w) \/ SaveRawCrash(w) \/ RemoveBack(w) PROVE StoresInOrder
    BY <1>2, <1>5, <1>10 DEF SaveProcessed, SaveRawCrash, RemoveBack, Move
  <1>11. ASSUME StoredInFs(w) PROVE StoresInOrder
    <2>1. Holds(w) /\ AtCall(w, "idle") /\ (At(w, "saved") \/ At(w, "processed")) /\ Crash(w) \in Crashes
      BY <1>11 DEF TypeOK, StoredInFs, Holds, At, Crash
    <2>2. ~Untouched(Crash(w))
      BY <2>1 DEF FilesInv, WorkersReadWhole, AtCall
    <2>3. store[worker[w].crash].report # "absent"
      BY <2>1, <2>2 DEF Untouched, ReportFirst, Crash
    <2> QED
      BY <1>1, <1>3, <1>11, <2>1, <2>3 DEF StoredInFs, Crash
  <1>12. ASSUME NEW dated, Index(w, dated)
         PROVE  /\ StoresInOrder /\ worker[w].crash \in Crashes /\ store[worker[w].crash].report # "absent"
                /\ indexed' \subseteq indexed \cup {worker[w].crash}
    <2>1. /\ At(w, "store") /\ worker[w].crash \in Crashes /\ worker[w].dst # 1
          /\ WorkerTo(w, AfterDestination(w, worker[w].dst))
          /\ indexed' \subseteq indexed \cup {worker[w].crash}
      BY <1>12 DEF TypeOK, Index, At, Destination, Crash
    <2>2. store[worker[w].crash].report # "absent"
      BY <2>1 DEF ReportFirst, Crash
    <2> QED
      BY <1>1, <1>3, <2>1, <2>2
  <1>13. UNCHANGED indexed \/ \E dated \in BOOLEAN : Index(w, dated)
    BY SpoolAssumption DEF Process, Lstat, Stat, RemoveLink, GetRaw, GetDumps, SaveProcessed, SaveRawCrash,
       StoredInFs, RemoveBack, RemoveFile, RemoveDir
  <1>14. ASSUME RemoveDir(w) PROVE StoresInOrder
    BY <1>2, <1>14 DEF RemoveDir, IdleWorker
  <1>15. ASSUME \E f \in {"raw", "report"} : RemoveFile(w, f) PROVE StoresInOrder
    BY <1>15 DEF RemoveFile, StoresInOrder, At
  <1>16. StoresInOrder
    BY <1>6, <1>7, <1>8, <1>9, <1>10, <1>11, <1>12, <1>14, <1>15 DEF Process
  <1>17. \A c \in indexed' : c \in indexed \/ (c \in Crashes /\ store[c].report # "absent")
    BY <1>12, <1>13
  <1> QED
    BY <1>16, <1>17

\* Every step of the spool keeps the report before the document.
LEMMA NextReports ==
  ASSUME WInv, ReprocessesHits, FsFirst, StoresFs, ~config.removeRaw, ReportFirst, [Next]_vars
  PROVE  ReportFirst'
  <1>1. TypeOK /\ BackLinkGuards /\ FilesInv
    BY DEF WInv, LInv, IInv
  <1>2. config.dst[1] = "fs"
    BY <1>1 DEF TypeOK, FsFirst, StoresFs
  <1>3. ReportsStay
    BY <1>1, ReportStays
  <1>4. ASSUME NEW w \in Workers, Process(w) PROVE ReportFirst'
    BY <1>1, <1>2, <1>3, <1>4, WorkersInOrder, OrderKeepsReports
  <1>5. ASSUME UNCHANGED indexed, \A w \in Workers : At(w, "store")' =>
                  At(w, "store") /\ worker'[w].crash = worker[w].crash /\ worker'[w].dst = worker[w].dst
        PROVE  ReportFirst'
    <2>1. StoresInOrder
      BY <1>5 DEF StoresInOrder
    <2> QED
      BY <1>1, <1>3, <1>5, <2>1, OrderKeepsReports
  <1>6. CASE UNCHANGED <<indexed, worker>>
    BY <1>5, <1>6 DEF At
  <1>7. ASSUME NEW p \in Savers, Save(p) PROVE ReportFirst'
    BY <1>6, <1>7 DEF Save, Truncate, Write, PickSlot, MakeHourDir, MakeSlotDir, LinkBack, LinkForward, InSave
  <1>8. CASE ReadSlot
    <2>1. \A w \in Workers : worker[w] \in WorkerType
      BY <1>1 DEF TypeOK
    <2>2. \A w \in Workers : worker'[w] = [worker[w] EXCEPT !.fresh = FALSE]
      BY <1>8 DEF ReadSlot
    <2>3. \A w \in Workers : /\ worker'[w].pc = worker[w].pc /\ worker'[w].crash = worker[w].crash
                              /\ worker'[w].dst = worker[w].dst
      BY <2>1, <2>2 DEF WorkerType
    <2> QED
      BY <1>5, <1>8, <2>3 DEF ReadSlot, OnFiles, At
  <1>9. CASE Spawn
    <2>1. PICK c \in scan.entries, v \in Workers \ Busy : worker' = [worker EXCEPT ![v] = NewWorker(c, scan.path)]
      BY <1>9 DEF Spawn
    <2>2. worker'[v].pc = "lstat" /\ \A w \in Workers : w # v => worker'[w] = worker[w]
      BY <1>1, <2>1 DEF TypeOK, NewWorker
    <2> QED
      BY <1>5, <1>9, <2>2 DEF Spawn, OnFiles, At
  <1>10. CASE Scan \/ Restart
    BY <1>6, <1>8, <1>9, <1>10 DEF Scan, Restart, ReadDate, ReadRoot, NextDate, NextHour, NextMinute,
       RemoveSlot, RemoveHour, EndDate, EndRound, ScanStep, OnFiles
  <1>11. CASE Tick \/ \E p \in Handlers : Abort(p) \/ \E c \in Crashes : Submit(p, c) \/ Reprocess(p, c)
    BY <1>6, <1>11 DEF Tick, Abort, Submit, Reprocess
  <1>12. CASE ProcessorDies
    BY <1>5, <1>12 DEF ProcessorDies, ProcessorDown, IdleWorker, At
  <1>13. CASE UNCHANGED vars
    BY <1>6, <1>13 DEF vars
  <1> QED
    BY <1>4, <1>7, <1>10, <1>11, <1>12, <1>13 DEF Next

\* Every step keeps the invariant.
LEMMA NextReportFirst == RInv /\ [Next]_vars => RInv'
  <1> SUFFICES ASSUME RInv, [Next]_vars PROVE RInv'
    OBVIOUS
  <1>1. WInv' /\ UNCHANGED config
    BY NextWhole, NextKeepsConfig DEF RInv, WInv
  <1>2. StoresFs' <=> StoresFs
    BY <1>1 DEF StoresFs
  <1> QED
    BY <1>1, <1>2, NextReports DEF RInv, FsFirst

\* With the filesystem as the first destination, and only hits reprocessed, whoever finds a
\* crash in the search finds its report: no document is ahead of it.
THEOREM SpoolHitHasReport == ASSUME ReprocessesHits, FsFirst PROVE Spec => []HitHasReport
  <1>1. Init => RInv
    <2> SUFFICES ASSUME Init PROVE RInv
      OBVIOUS
    <2>1. ReportFirst
      BY DEF Init, ReportFirst, IdleWorker, At
    <2> QED
      BY <2>1, InitWhole DEF RInv
  <1>2. RInv => HitHasReport
    <2> SUFFICES ASSUME RInv, NEW c \in indexed, "fs" \in {config.dst[i] : i \in DOMAIN config.dst},
                        ~config.removeRaw
                 PROVE  store[c].report # "absent"
      BY DEF HitHasReport
    <2>1. StoresFs
      BY DEF StoresFs
    <2> QED
      BY <2>1 DEF RInv, ReportFirst
  <1> QED
    BY <1>1, <1>2, NextReportFirst, PTL DEF Spec

-----------------------------------------------------------------------------
(* What the two timing assumptions buy.  The slot and the date that a scan  *)
(* captured are of the current hour, so that it spares what it finds of the *)
(* current slot and of the hour it is in; and there a request files its     *)
(* crash.                                                                   *)

Resting == scan.pc \in {"begin", "down"}

ScanIsNow ==
    /\ ~Resting => scan.slot[1] = now.hour /\ scan.slot[2] <= now.minute
    /\ ~Resting /\ scan.pc # "date" => scan.date = now.day
    /\ scan.pc = "entries" => ~SkipSlot(scan.path[1], <<scan.path[2], scan.path[3]>>, scan.date, scan.slot)

\* A save that may be its crash's first: it will make the forward link.
Pending(p) == Saving(p) /\ filed[call[p].crash] = 0

InSlot(p) == Pending(p) =>
    /\ born[call[p].crash] = now.day
    /\ call[p].pc \in {"mkhour", "mkslot", "back", "forward"} => call[p].slot = SlotOf(now)
    /\ call[p].pc \in {"mkslot", "back", "forward"} => HourPath(p) \in dirs
    /\ call[p].pc \in {"back", "forward"} => SlotPath(p) \in dirs
    /\ AtCall(p, "forward") \/ ~store[call[p].crash].back

UnbornIsUnlinked == \A c \in Crashes : born[c] = Unborn => ~store[c].back

SlotsInv == /\ ScanIsNow /\ UnbornIsUnlinked /\ AnsweredIsFiled
            /\ \A p \in Handlers : InSlot(p)

-----------------------------------------------------------------------------
(* The scanner and the clock. *)

\* A scanner that goes on with its date and slot, in the directories or on its way to them.
LEMMA ScanGoesOn ==
  ASSUME ScanIsNow, UNCHANGED now, scan'.slot = scan.slot, scan'.date = scan.date,
         ~Resting, scan.pc # "date", scan'.pc # "entries"
  PROVE  ScanIsNow'
  BY DEF ScanIsNow, Resting

\* A scanner at rest has captured nothing.
LEMMA ScanRests == ASSUME scan'.pc \in {"begin", "down"} PROVE ScanIsNow'
  BY DEF ScanIsNow, Resting

\* Every step of the scanner goes by the captured slot and date.
LEMMA ScannerIsNow == ASSUME TypeOK, ScanIsNow, Scan \/ Restart PROVE ScanIsNow'
  <1>1. scan \in ScanType /\ now \in Time /\ UNCHANGED now
    BY DEF TypeOK, Scan, Restart, ReadSlot, ReadDate, ReadRoot, NextDate, NextHour, NextMinute, Spawn,
           RemoveSlot, RemoveHour, EndDate, EndRound, ScanStep, OnFiles
  <1>2. NewScan.pc = "begin"
    BY DEF NewScan
  <1>3. CASE ReadSlot
    <2>1. scan'.pc = "date" /\ scan'.slot = SlotOf(now)
      BY <1>3 DEF ReadSlot, NewScan
    <2> QED
      BY <1>1, <2>1, CalendarAssumption DEF ScanIsNow, Resting, SlotOf, Time, Minute
  <1>4. CASE ReadDate
    <2>1. scan'.pc = "root" /\ scan'.slot = scan.slot /\ scan'.date = now.day /\ scan.pc = "date"
      BY <1>1, <1>4 DEF ReadDate, ScanStep, ScanType, Scanning
    <2> QED
      BY <1>1, <2>1 DEF ScanIsNow, Resting
  <1>5. CASE NextMinute
    <2>1. PICK m \in First(scan.mins) :
            LET path == [scan.path EXCEPT ![3] = m]
            IN  scan' = IF SkipSlot(path[1], <<path[2], m>>, scan.date, scan.slot)
                        THEN [scan EXCEPT !.mins = scan.mins \ {m}, !.skip = TRUE]
                        ELSE [scan EXCEPT !.mins = scan.mins \ {m}, !.pc = "entries", !.path = path,
                                          !.entries = Entries(path)]
      BY <1>5 DEF NextMinute, ScanStep
    <2> DEFINE path == [scan.path EXCEPT ![3] = m]
    <2>2. scan.pc = "minutes"
      BY <1>5 DEF NextMinute, Scanning
    <2>3. CASE SkipSlot(path[1], <<path[2], m>>, scan.date, scan.slot)
      <3>1. scan'.pc = "minutes" /\ scan'.slot = scan.slot /\ scan'.date = scan.date
        BY <1>1, <2>1, <2>2, <2>3 DEF ScanType
      <3> QED
        BY <1>1, <2>2, <3>1, ScanGoesOn DEF Resting
    <2>4. CASE ~SkipSlot(path[1], <<path[2], m>>, scan.date, scan.slot)
      <3>1. scan'.pc = "entries" /\ scan'.slot = scan.slot /\ scan'.date = scan.date /\ scan'.path = path
        BY <1>1, <2>1, <2>4 DEF ScanType
      <3>2. path[3] = m
        BY <1>1 DEF ScanType
      <3>3. ~SkipSlot(scan'.path[1], <<scan'.path[2], scan'.path[3]>>, scan'.date, scan'.slot)
        BY <2>4, <3>1, <3>2
      <3> QED
        BY <1>1, <2>2, <3>1, <3>3 DEF ScanIsNow, Resting
    <2> QED
      BY <2>3, <2>4
  <1>6. CASE Spawn
    <2>1. /\ scan'.pc = scan.pc /\ scan'.slot = scan.slot /\ scan'.date = scan.date /\ scan'.path = scan.path
      BY <1>1, <1>6 DEF Spawn, ScanType
    <2> QED
      BY <1>1, <2>1 DEF ScanIsNow, Resting
  <1>7. CASE ReadRoot \/ NextDate \/ NextHour \/ RemoveSlot \/ RemoveHour \/ EndDate
    <2>1. /\ scan'.slot = scan.slot /\ scan'.date = scan.date /\ scan'.pc # "entries"
          /\ ~Resting /\ scan.pc # "date"
      <3>1. CASE ReadRoot
        BY <1>1, <3>1 DEF ReadRoot, ScanStep, ScanType, Scanning, Resting
      <3>2. CASE NextDate
        BY <1>1, <3>2 DEF NextDate, ScanStep, ScanType, Scanning, Resting
      <3>3. CASE NextHour
        BY <1>1, <3>3 DEF NextHour, ScanStep, ScanType, Scanning, Resting
      <3>4. CASE RemoveSlot
        BY <1>1, <3>4 DEF RemoveSlot, ScanStep, ScanType, Scanning, Resting
      <3>5. CASE RemoveHour
        BY <1>1, <3>5 DEF RemoveHour, ScanStep, ScanType, Scanning, Resting
      <3>6. CASE EndDate
        BY <1>1, <3>6 DEF EndDate, ScanStep, ScanType, Scanning, Resting
      <3> QED
        BY <1>7, <3>1, <3>2, <3>3, <3>4, <3>5, <3>6
    <2> QED
      BY <1>1, <2>1, ScanGoesOn
  <1>8. CASE EndRound \/ Restart
    BY <1>2, <1>8, ScanRests DEF EndRound, Restart, ScanStep
  <1> QED
    BY <1>3, <1>4, <1>5, <1>6, <1>7, <1>8 DEF Scan

\* The clock goes from hour to hour only while the scanner rests.
LEMMA TickIsNow ==
  ASSUME TypeOK, ScanIsNow, ScansWithinHour, MaxHour # 0, Tick PROVE ScanIsNow'
  <1>1. /\ scan \in ScanType /\ now \in Time /\ UNCHANGED scan
        /\ now' = NextTime(now) /\ now # LastTime /\ now' \in Time
        /\ now'.hour # now.hour => Resting
    BY NextTimeType DEF TypeOK, Tick, Resting
  <1>2. now'.hour = now.hour => now'.day = now.day /\ now'.minute = now.minute + 1
    <2>1. CASE now.minute < MaxMinute
      BY <1>1, <2>1 DEF NextTime, Time
    <2>2. CASE ~(now.minute < MaxMinute) /\ now.hour < MaxHour
      BY <1>1, <2>2, CalendarAssumption DEF NextTime, Time, Hour
    <2>3. CASE ~(now.minute < MaxMinute) /\ ~(now.hour < MaxHour)
      <3>1. now'.hour = 0 /\ now.hour \in Nat /\ now.hour # 0
        BY <1>1, <2>3, CalendarAssumption DEF NextTime, Time, Hour
      <3> QED
        BY <3>1
    <2> QED
      BY <2>1, <2>2, <2>3
  <1>3. CASE Resting
    BY <1>1, <1>3, ScanRests DEF Resting
  <1>4. CASE ~Resting
    <2>1. now'.hour = now.hour /\ now'.day = now.day /\ now'.minute = now.minute + 1
      BY <1>1, <1>2, <1>4
    <2>2. now.minute \in Nat /\ scan.slot[2] \in Nat
      BY <1>1, CalendarAssumption DEF Time, Minute, Hour, Slot, ScanType
    <2>3. scan.slot[2] <= now.minute => scan.slot[2] <= now'.minute
      BY <2>1, <2>2
    <2> QED
      BY <1>1, <1>4, <2>1, <2>3 DEF ScanIsNow, Resting
  <1> QED
    BY <1>3, <1>4

\* The scanner goes by the current hour, whatever happens.
LEMMA NextIsNow ==
  ASSUME TypeOK, ScanIsNow, ScansWithinHour, MaxHour # 0, [Next]_vars PROVE ScanIsNow'
  <1>1. CASE UNCHANGED <<scan, now>>
    BY <1>1 DEF ScanIsNow, Resting
  <1>2. CASE ProcessorDown
    BY <1>2, ScanRests DEF ProcessorDown, NewScan
  <1>3. ASSUME NEW w \in Workers, Process(w) PROVE ScanIsNow'
    BY <1>1, <1>2, <1>3
    DEF Process, Lstat, Stat, GoOnIf, RemoveLink, GetRaw, GetDumps, SaveProcessed, SaveRawCrash,
        StoredInFs, Index, RemoveBack, RemoveFile, RemoveDir, InWork
  <1>4. ASSUME NEW p \in Savers, Save(p) PROVE ScanIsNow'
    BY <1>1, <1>4 DEF Save, Truncate, Write, PickSlot, MakeHourDir, MakeSlotDir, LinkBack, LinkForward, InSave
  <1>5. CASE \E p \in Handlers : Abort(p) \/ \E c \in Crashes : Submit(p, c) \/ Reprocess(p, c)
    BY <1>1, <1>5 DEF Abort, Submit, Reprocess
  <1>6. CASE Scan \/ Restart
    BY <1>6, ScannerIsNow
  <1>7. CASE Tick
    BY <1>7, TickIsNow
  <1>8. CASE ProcessorDies
    BY <1>2, <1>8 DEF ProcessorDies
  <1>9. CASE UNCHANGED vars
    BY <1>1, <1>9 DEF vars
  <1> QED
    BY <1>3, <1>4, <1>5, <1>6, <1>7, <1>8, <1>9 DEF Next

-----------------------------------------------------------------------------
(* What the scanner removes. *)

\* The scanner removes a slot that it did not skip, or an hour before the current one: never
\* the hour or the slot of the moment.
LEMMA NowIsSpared ==
  ASSUME TypeOK, ScanIsNow, Scan
  PROVE  /\ <<now.day, now.hour>> \in dirs => <<now.day, now.hour>> \in dirs'
         /\ <<now.day, now.hour, now.minute>> \in dirs => <<now.day, now.hour, now.minute>> \in dirs'
  <1> DEFINE h == <<now.day, now.hour>>
             s == <<now.day, now.hour, now.minute>>
  <1>1. scan \in ScanType /\ now \in Time /\ scan.path \in [1 .. 3 -> Int]
    BY DEF TypeOK, ScanType
  <1>2. CASE UNCHANGED dirs
    BY <1>2
  <1>3. CASE RemoveSlot
    <2>1. dirs \ {scan.path} \subseteq dirs' /\ scan.pc = "entries"
      BY <1>3 DEF RemoveSlot, Rmdir, Scanning
    <2>2. scan.path # h
      <3>1. DOMAIN scan.path = 1 .. 3 /\ DOMAIN h = 1 .. 2
        BY <1>1
      <3> QED
        BY <3>1
    <2>3. scan.path # s
      <3> SUFFICES ASSUME scan.path = s PROVE FALSE
        OBVIOUS
      <3>1. ~SkipSlot(now.day, <<now.hour, now.minute>>, now.day, scan.slot)
        BY <2>1 DEF ScanIsNow, Resting
      <3>2. scan.slot[1] = now.hour /\ scan.slot[2] <= now.minute
        BY <2>1 DEF ScanIsNow, Resting
      <3>3. now.hour \in Int /\ now.minute \in Int /\ now.day \in Int /\ scan.slot[2] \in Int
        BY <1>1, CalendarAssumption DEF Time, Hour, Minute, Day, ScanType, Slot
      <3> QED
        BY <3>1, <3>2, <3>3 DEF SkipSlot, GreaterThanEqualsSlot
    <2> QED
      BY <2>1, <2>2, <2>3
  <1>4. CASE RemoveHour
    <2> DEFINE q == SubSeq(scan.path, 1, 2)
    <2>1. scan.pc = "minutes" /\ (UNCHANGED dirs \/ (scan.path[2] < scan.slot[1] /\ dirs \ {q} \subseteq dirs'))
      BY <1>4 DEF RemoveHour, Rmdir, Scanning
    <2>2. scan.slot[1] = now.hour /\ now.hour \in Int
      BY <1>1, <2>1, CalendarAssumption DEF ScanIsNow, Resting, Time, Hour
    <2>3. \A i \in 1 .. 2 : scan.path[i] \in Int
      BY <1>1
    <2>4. Len(q) = 2 /\ q[2] = scan.path[2]
      BY <2>3, SubSeqProperties
    <2>5. CASE scan.path[2] < scan.slot[1]
      <3>3. q[2] # now.hour
        BY <2>2, <2>3, <2>4, <2>5
      <3> HIDE DEF q
      <3>1. q # h
        BY <3>3
      <3>2. q # s
        BY <2>4
      <3> QED
        BY <2>1, <3>1, <3>2
    <2> QED
      BY <2>1, <2>5
  <1> QED
    BY <1>2, <1>3, <1>4
    DEF Scan, ReadSlot, ReadDate, ReadRoot, NextDate, NextHour, NextMinute, Spawn, EndDate, EndRound, ScanStep

-----------------------------------------------------------------------------
(* Requests. *)

NowPathsStay ==
    /\ <<now.day, now.hour>> \in dirs => <<now.day, now.hour>> \in dirs'
    /\ <<now.day, now.hour, now.minute>> \in dirs => <<now.day, now.hour, now.minute>> \in dirs'

\* A step in which every request goes on in its slot, ends, or does nothing, the directories of
\* the moment stay, and who is answered was filed.
LEMMA SlotsStay ==
  ASSUME TypeOK, TypeOK', SlotsInv, ScanIsNow', UNCHANGED <<now, born>>, NowPathsStay,
         \A c \in Crashes : filed[c] > 0 => filed'[c] > 0,
         \A c \in answered' : c \in answered \/ filed'[c] > 0,
         \A c \in Crashes : born[c] = Unborn => ~store'[c].back,
         \A p \in Handlers : \/ call'[p].pc = "idle" \/ InSlot(p)'
                             \/ /\ call'[p] = call[p]
                                /\ Pending(p) => store'[call[p].crash].back = store[call[p].crash].back
  PROVE  SlotsInv'
  <1>1. filed \in [Crashes -> Nat] /\ filed' \in [Crashes -> Nat] /\ answered \subseteq Crashes /\ answered' \subseteq Crashes
    BY DEF TypeOK
  <1>2. AnsweredIsFiled'
    <2> SUFFICES ASSUME NEW c \in answered' PROVE filed'[c] >= 1
      BY DEF AnsweredIsFiled
    <2>1. c \in answered => filed[c] > 0
      BY <1>1 DEF SlotsInv, AnsweredIsFiled
    <2> QED
      BY <1>1, <2>1
  <1>3. UnbornIsUnlinked'
    BY DEF UnbornIsUnlinked
  <1>4. ASSUME NEW p \in Handlers PROVE InSlot(p)'
    <2>1. CASE call'[p].pc = "idle"
      BY <2>1 DEF InSlot, Pending, Saving, AtCall
    <2>2. ASSUME call'[p] = call[p], Pending(p) => store'[call[p].crash].back = store[call[p].crash].back
          PROVE  InSlot(p)'
      <3> SUFFICES ASSUME Pending(p)' PROVE InSlot(p)'
        BY DEF InSlot
      <3>1. Saving(p) /\ call[p].crash \in Crashes
        BY <2>2 DEF Pending, Saving, AtCall, TypeOK, Savers
      <3>2. Pending(p)
        BY <1>1, <2>2, <3>1 DEF Pending
      <3>3. InSlot(p)
        BY DEF SlotsInv
      <3>4. call[p].pc \in {"mkhour", "mkslot", "back", "forward"} =>
              HourPath(p) = <<now.day, now.hour>> /\ SlotPath(p) = <<now.day, now.hour, now.minute>>
        BY <3>2, <3>3 DEF InSlot, HourPath, SlotPath, SlotOf
      <3>5. UNCHANGED <<HourPath(p), SlotPath(p)>>
        BY <2>2 DEF HourPath, SlotPath
      <3> QED
        BY <2>2, <3>2, <3>3, <3>4, <3>5 DEF InSlot, NowPathsStay, AtCall
    <2> QED
      BY <2>1, <2>2
  <1> QED
    BY <1>2, <1>3, <1>4 DEF SlotsInv

\* A pending crash has one save.
LEMMA OnePending ==
  ASSUME TypeOK, HeldIsFiled, FilesInv,
         NEW p \in Savers, NEW q \in Savers, Pending(p), Saving(q), call[q].crash = call[p].crash
  PROVE  p = q /\ call[p].file = "raw" /\ Untouched(call[p].crash)
  <1>1. call[p].crash \in Crashes /\ ~(filed[call[p].crash] > 0)
    BY DEF TypeOK, Pending, Saving
  <1>2. Untouched(call[p].crash)
    BY <1>1 DEF FilesInv, TouchedIsTaken
  <1>3. ASSUME NEW r \in Savers, Saving(r), call[r].crash = call[p].crash PROVE call[r].file = "raw"
    <2>1. call[r].file \in {"raw", "report"}
      BY DEF TypeOK, CallType
    <2>2. CASE call[r].file = "report"
      <3>1. r \in Workers /\ Holds(r) /\ Crash(r) = call[p].crash
        BY <1>3, <2>2 DEF FilesInv, ReportsAreWorkers, Holds, At
      <3>2. filed[Crash(r)] > 0
        BY <3>1 DEF HeldIsFiled
      <3> QED
        BY <1>1, <3>1, <3>2
    <2> QED
      BY <2>1, <2>2
  <1>4. Saving(p)
    BY DEF Pending
  <1> QED
    BY <1>2, <1>3, <1>4 DEF FilesInv, FirstSave

\* The first save makes both links.
LEMMA FirstLinks ==
  ASSUME TypeOK, HeldIsFiled, FilesInv, NEW p \in Handlers, InSlot(p), Pending(p)
  PROVE  /\ AtCall(p, "back") => CanLinkBack(call[p].crash)
         /\ AtCall(p, "forward") => CanLinkForward(p)
  <1> DEFINE c == call[p].crash
  <1>1. p \in Savers /\ c \in Crashes
    BY DEF TypeOK, Pending, Saving, Savers
  <1>2. Saving(p) /\ call[p].file = "raw" /\ Untouched(c)
    BY <1>1, OnePending DEF Pending
  <1>3. ASSUME AtCall(p, "back") PROVE CanLinkBack(c)
    <2>1. store[c].raw = "good"
      BY <1>1, <1>2, <1>3 DEF FilesInv, FirstSave, Early, AtCall
    <2>2. HasDir(c)
      BY <2>1 DEF HasDir
    <2> QED
      BY <1>3, <2>2 DEF InSlot, AtCall, CanLinkBack
  <1>4. ASSUME AtCall(p, "forward") PROVE CanLinkForward(p)
    <2>1. SlotPath(p) \in dirs
      BY <1>4 DEF InSlot, AtCall
    <2>2. <<SlotPath(p), c>> \notin links
      <3> SUFFICES ASSUME <<SlotPath(p), c>> \in links PROVE FALSE
        OBVIOUS
      <3>1. filed[<<SlotPath(p), c>>[2]] > 0
        BY DEF HeldIsFiled
      <3> QED
        BY <1>1, <3>1 DEF Pending
    <2> QED
      BY <2>1, <2>2 DEF CanLinkForward
  <1> QED
    BY <1>3, <1>4

\* A request whose save is pending ends it with the forward link.
LEMMA EndIsNotGoOn ==
  ASSUME TypeOK, NEW p \in Handlers, call[p].file = "raw", Save(p), EndCall(p),
         AtCall(p, "back") => CanLinkBack(call[p].crash),
         AtCall(p, "forward") => CanLinkForward(p)
  PROVE  LinkForward(p) /\ CanLinkForward(p)
  <1>1. call \in [Savers -> CallType] /\ p \in Savers /\ call'[p].pc = "idle"
    BY DEF TypeOK, Savers, EndCall, IdleCall
  <1>2. ~Truncate(p) /\ ~Write(p) /\ ~PickSlot(p) /\ ~MakeHourDir(p) /\ ~MakeSlotDir(p) /\ ~LinkBack(p)
    BY <1>1 DEF Truncate, Write, PickSlot, MakeHourDir, MakeSlotDir, LinkBack, GoTo, CallType
  <1> QED
    BY <1>2 DEF Save, LinkForward

\* A request that goes on has its directories in the slot of the moment.
LEMMA GoesOnInSlot ==
  ASSUME TypeOK, NEW p \in Handlers, call[p].file = "raw", InSlot(p), Save(p)
  PROVE  call'[p].pc = "idle" \/ InSlot(p)'
  <1> DEFINE c == call[p].crash
  <1> SUFFICES ASSUME Pending(p)' PROVE InSlot(p)'
    BY DEF InSlot
  <1>1. /\ call \in [Savers -> CallType] /\ p \in Savers /\ call[p] \in CallType /\ c \in Crashes
        /\ UNCHANGED <<now, born>>
    <2>1. ~AtCall(p, "idle")
      BY DEF Save, Truncate, Write, PickSlot, MakeHourDir, MakeSlotDir, LinkBack, LinkForward, AtCall
    <2> QED
      BY <2>1 DEF TypeOK, Savers, Save, Truncate, Write, PickSlot, MakeHourDir, MakeSlotDir, LinkBack,
                  LinkForward, InSave, fixed
  <1>2. call'[p].pc # "idle"
    BY DEF Pending, Saving, AtCall
  <1>3. ~LinkForward(p)
    BY <1>1, <1>2 DEF LinkForward, EndCall, IdleCall
  <1>4. call'[p].crash = c /\ UNCHANGED filed
    <2>1. UNCHANGED filed
      BY <1>3 DEF Save, Truncate, Write, PickSlot, MakeHourDir, MakeSlotDir, LinkBack
    <2>2. CASE EndCall(p)
      BY <1>1, <1>2, <2>2 DEF EndCall, IdleCall
    <2>3. CASE \E pc : GoTo(p, pc)
      BY <1>1, <2>1, <2>3 DEF GoTo, CallType
    <2>4. CASE PickSlot(p)
      BY <1>1, <2>1, <2>4 DEF PickSlot, CallType
    <2> QED
      BY <1>3, <2>2, <2>3, <2>4 DEF Save, Truncate, Write, MakeHourDir, MakeSlotDir, LinkBack
  <1>5. Pending(p)
    <2>1. ~AtCall(p, "idle")
      BY DEF Save, Truncate, Write, PickSlot, MakeHourDir, MakeSlotDir, LinkBack, LinkForward, AtCall
    <2> QED
      BY <1>4, <2>1 DEF Pending, Saving
  <1>6. born[c] = now.day /\ born'[call'[p].crash] = now'.day
    BY <1>1, <1>4, <1>5 DEF InSlot
  <1>7. ~LinkBack(p) => store'[c].back = store[c].back
    BY <1>1, <1>3, EarlySaveIsQuiet DEF Save, Quiet
  <1>8. CASE Truncate(p) \/ Write(p)
    <2>1. call'[p].pc \in {"write", "slot"} /\ ~AtCall(p, "forward")
      BY <1>1, <1>2, <1>8 DEF Truncate, Write, GoTo, CallType, AtCall
    <2>2. ~store'[c].back
      BY <1>1, <1>5, <1>7, <1>8, <2>1 DEF InSlot, LinkBack, Truncate, Write, AtCall
    <2> QED
      BY <1>4, <1>6, <2>1, <2>2 DEF InSlot, AtCall
  <1>9. CASE PickSlot(p)
    <2>1. call'[p].pc = "mkhour" /\ call'[p].slot = SlotOf(now) /\ call[p].pc = "slot"
      BY <1>1, <1>9 DEF PickSlot, CallType, AtCall
    <2>2. ~store'[c].back
      BY <1>5, <1>7, <2>1 DEF InSlot, LinkBack, AtCall
    <2> QED
      BY <1>1, <1>4, <1>6, <2>1, <2>2 DEF InSlot, AtCall, SlotOf
  <1>10. CASE MakeHourDir(p)
    <2>1. call'[p].pc = "mkslot" /\ call'[p].slot = call[p].slot /\ call[p].pc = "mkhour"
      BY <1>1, <1>10 DEF MakeHourDir, GoTo, CallType, AtCall
    <2>2. ~store'[c].back
      BY <1>5, <1>7, <2>1 DEF InSlot, LinkBack, AtCall
    <2>3. HourPath(p)' = HourPath(p) /\ HourPath(p) \in dirs'
      BY <1>1, <1>4, <1>10, <2>1 DEF MakeHourDir, HourPath
    <2> QED
      BY <1>1, <1>4, <1>5, <1>6, <2>1, <2>2, <2>3 DEF InSlot, AtCall, SlotOf
  <1>11. CASE MakeSlotDir(p)
    <2>1. call'[p].pc = "back" /\ call'[p].slot = call[p].slot /\ call[p].pc = "mkslot"
      BY <1>1, <1>11 DEF MakeSlotDir, GoTo, CallType, AtCall
    <2>2. ~store'[c].back
      BY <1>5, <1>7, <2>1 DEF InSlot, LinkBack, AtCall
    <2>3. HourPath(p)' = HourPath(p) /\ SlotPath(p)' = SlotPath(p)
      BY <1>1, <1>4, <2>1 DEF HourPath, SlotPath
    <2>4. HourPath(p) \in dirs' /\ SlotPath(p) \in dirs'
      BY <1>5, <1>11, <2>1 DEF MakeSlotDir, InSlot
    <2> QED
      BY <1>1, <1>4, <1>5, <1>6, <2>1, <2>2, <2>3, <2>4 DEF InSlot, AtCall, SlotOf
  <1>12. CASE LinkBack(p)
    <2>1. call'[p].pc = "forward" /\ call'[p].slot = call[p].slot /\ call[p].pc = "back" /\ UNCHANGED dirs
      <3>1. call' = [call EXCEPT ![p].pc = "forward"]
        <4>1. ~EndCall(p)
          BY <1>1, <1>2 DEF EndCall, IdleCall
        <4>2. GoTo(p, "forward")
          BY <1>12, <4>1 DEF LinkBack
        <4> QED
          BY <4>2 DEF GoTo
      <3>2. call[p].pc = "back" /\ UNCHANGED dirs
        BY <1>12 DEF LinkBack, AtCall
      <3>3. call'[p] = [call[p] EXCEPT !.pc = "forward"]
        BY <1>1, <3>1
      <3> QED
        BY <1>1, <3>2, <3>3 DEF CallType
    <2>2. HourPath(p)' = HourPath(p) /\ SlotPath(p)' = SlotPath(p)
      BY <1>1, <1>4, <2>1 DEF HourPath, SlotPath
    <2> QED
      BY <1>1, <1>4, <1>5, <1>6, <2>1, <2>2 DEF InSlot, AtCall, SlotOf
  <1> QED
    BY <1>3, <1>8, <1>9, <1>10, <1>11, <1>12 DEF Save

\* A save goes on where the clock says, and is answered only when its crash was filed.
LEMMA SaveKeepsSlots ==
  ASSUME TypeOK, TypeOK', BackLinkGuards, HeldIsFiled, FilesInv, SlotsInv, ScanIsNow', NEW p \in Savers, Save(p)
  PROVE  SlotsInv'
  <1> DEFINE c == call[p].crash
  <1>1. /\ call \in [Savers -> CallType] /\ call[p] \in CallType /\ c \in Crashes /\ Saving(p)
        /\ filed \in [Crashes -> Nat] /\ born[c] # Unborn
    <2>1. Saving(p)
      BY DEF Save, Truncate, Write, PickSlot, MakeHourDir, MakeSlotDir, LinkBack, LinkForward, Saving, AtCall
    <2> QED
      BY <2>1 DEF TypeOK, Saving, FilesInv, UnbornIsBlank
  <1>2. UNCHANGED <<now, born>>
    BY DEF Save, Truncate, Write, PickSlot, MakeHourDir, MakeSlotDir, LinkBack, LinkForward, InSave, fixed
  <1>3. dirs \subseteq dirs'
    BY DEF Save, Truncate, Write, PickSlot, MakeHourDir, MakeSlotDir, LinkBack, LinkForward, files
  <1>4. \A q \in Savers : q # p => call'[q] = call[q]
    BY <1>1 DEF Save, Truncate, Write, PickSlot, MakeHourDir, MakeSlotDir, LinkBack, LinkForward, GoTo, EndCall
  <1>5. \A d \in Crashes : filed[d] > 0 => filed'[d] > 0
    <2>1. UNCHANGED filed \/ filed' = [filed EXCEPT ![c] = filed[c] + 1]
      BY DEF Save, Truncate, Write, PickSlot, MakeHourDir, MakeSlotDir, LinkBack, LinkForward
    <2> QED
      BY <1>1, <2>1
  <1>6. \A d \in Crashes : d # c => store'[d].back = store[d].back
    <2>1. CASE Truncate(p) \/ Write(p) \/ PickSlot(p) \/ MakeHourDir(p) \/ MakeSlotDir(p)
      BY <2>1, EarlySaveIsQuiet DEF Quiet
    <2>2. CASE LinkBack(p) \/ LinkForward(p)
      BY <1>1, <2>2 DEF LinkBack, LinkForward, Put, TypeOK
    <2> QED
      BY <2>1, <2>2 DEF Save
  <1>7. \A d \in Crashes : born[d] = Unborn => ~store'[d].back
    BY <1>1, <1>6 DEF SlotsInv, UnbornIsUnlinked
  <1>8. ASSUME NEW q \in Handlers, q # p
        PROVE  call'[q] = call[q] /\ (Pending(q) => store'[call[q].crash].back = store[call[q].crash].back)
    <2>1. q \in Savers
      BY DEF Savers
    <2>2. Pending(q) => call[q].crash \in Crashes /\ call[q].crash # c
      BY <1>1, <1>8, <2>1, OnePending DEF Pending, Saving, TypeOK
    <2> QED
      BY <1>4, <1>6, <1>8, <2>1, <2>2
  <1>9. ASSUME p \in Handlers PROVE call[p].file = "raw" /\ InSlot(p)
    <2>1. p \notin Workers
      BY <1>9, SpoolAssumption
    <2> QED
      BY <1>1, <1>9, <2>1 DEF FilesInv, ReportsAreWorkers, CallType, SlotsInv
  <1>10. ASSUME p \in Handlers, EndCall(p) PROVE filed'[c] > 0
    <2>1. CASE Pending(p)
      <3>1. LinkForward(p) /\ CanLinkForward(p)
        BY <1>9, <1>10, <2>1, FirstLinks, EndIsNotGoOn
      <3> QED
        BY <1>1, <3>1 DEF LinkForward
    <2>2. CASE ~Pending(p)
      BY <1>1, <1>5, <2>2 DEF Pending
    <2> QED
      BY <2>1, <2>2
  <1>11. \A d \in answered' : d \in answered \/ filed'[d] > 0
    <2>1. CASE EndCall(p)
      BY <1>10, <2>1 DEF EndCall
    <2>2. CASE UNCHANGED answered
      BY <2>2
    <2> QED
      BY <2>1, <2>2 DEF Save, Truncate, Write, PickSlot, MakeHourDir, MakeSlotDir, LinkBack, LinkForward, GoTo
  <1>12. ASSUME p \in Handlers PROVE call'[p].pc = "idle" \/ InSlot(p)'
    BY <1>9, <1>12, GoesOnInSlot
  <1> QED
    BY <1>2, <1>3, <1>5, <1>7, <1>8, <1>11, <1>12, SlotsStay DEF NowPathsStay

\* A new crash is of today; a crash that is reprocessed was filed.
LEMMA BeginsInSlot ==
  ASSUME TypeOK, TypeOK', FilesInv, SlotsInv, ScanIsNow', ReprocessesHits,
         NEW p \in Handlers, NEW c \in Crashes, Submit(p, c) \/ Reprocess(p, c)
  PROVE  SlotsInv'
  <1>1. /\ UNCHANGED <<store, dirs, filed, now, answered>>
        /\ call \in [Savers -> CallType] /\ p \in Savers
    BY DEF Submit, Reprocess, files, history, TypeOK, Savers
  <1>2. call'[p] = NewCall(c, "raw", "good") /\ \A q \in Savers : q # p => call'[q] = call[q]
    BY <1>1 DEF Submit, Reprocess, StartCall
  <1>3. call'[p].pc = "truncate" /\ call'[p].crash = c
    BY <1>2 DEF NewCall
  <1>4. AnsweredIsFiled'
    BY <1>1 DEF SlotsInv, AnsweredIsFiled
  <1>5. CASE Submit(p, c)
    <2>1. born[c] = Unborn /\ born' = [born EXCEPT ![c] = now.day] /\ born \in [Crashes -> Day \cup {Unborn}]
      BY <1>5 DEF Submit, TypeOK
    <2>2. UnbornIsUnlinked'
      <3> SUFFICES ASSUME NEW d \in Crashes, born'[d] = Unborn PROVE ~store'[d].back
        BY DEF UnbornIsUnlinked
      <3>1. now.day # Unborn
        BY CalendarAssumption DEF TypeOK, Time, Day, Unborn
      <3>2. born[d] = Unborn
        BY <2>1, <3>1
      <3> QED
        BY <1>1, <3>2 DEF SlotsInv, UnbornIsUnlinked
    <2>3. InSlot(p)'
      BY <1>1, <1>3, <2>1 DEF InSlot, AtCall, SlotsInv, UnbornIsUnlinked
    <2>4. ASSUME NEW q \in Handlers, q # p PROVE InSlot(q)'
      <3> SUFFICES ASSUME Pending(q)' PROVE InSlot(q)'
        BY DEF InSlot
      <3>1. q \in Savers /\ call'[q] = call[q]
        BY <1>2, <2>4 DEF Savers
      <3>2. Pending(q) /\ call[q].crash \in Crashes
        BY <1>1, <3>1 DEF Pending, Saving, AtCall, TypeOK
      <3>3. call[q].crash # c
        BY <2>1, <3>1, <3>2 DEF FilesInv, UnbornIsBlank, Pending
      <3>4. born'[call[q].crash] = born[call[q].crash] /\ InSlot(q)
        BY <2>1, <3>2, <3>3 DEF SlotsInv
      <3> QED
        BY <1>1, <3>1, <3>2, <3>4 DEF InSlot, AtCall, HourPath, SlotPath
    <2> QED
      BY <1>4, <2>2, <2>3, <2>4 DEF SlotsInv
  <1>6. CASE Reprocess(p, c)
    <2>1. UNCHANGED born /\ c \in indexed
      BY <1>6 DEF Reprocess, fixed
    <2>2. filed[c] > 0
      BY <2>1 DEF FilesInv, TouchedIsTaken, Untouched
    <2>3. InSlot(p)'
      BY <1>1, <1>3, <2>2 DEF InSlot, Pending, TypeOK
    <2>4. \A q \in Handlers : q # p => call'[q] = call[q]
      BY <1>2 DEF Savers
    <2> QED
      BY <1>1, <2>1, <2>3, <2>4, SlotsStay DEF NowPathsStay, SlotsInv, UnbornIsUnlinked
  <1> QED
    BY <1>5, <1>6

\* Every step keeps requests in their slots.
LEMMA NextSlots ==
  ASSUME WInv, TypeOK', ReprocessesHits, SavesWithinSlot, ScansWithinHour, MaxHour # 0, ~config.removeRaw,
         SlotsInv, [Next]_vars
  PROVE  SlotsInv'
  <1>1. /\ TypeOK /\ BackLinkGuards /\ HeldIsFiled /\ FilesInv /\ ScanIsNow
        /\ UnbornIsUnlinked /\ AnsweredIsFiled /\ \A p \in Handlers : p \in Savers /\ p \notin Workers
    BY SpoolAssumption DEF WInv, LInv, IInv, SlotsInv, Savers
  <1>2. ScanIsNow'
    BY <1>1, NextIsNow
  <1>3. ASSUME UNCHANGED <<now, born, filed, answered>>, NowPathsStay,
               \A c \in Crashes : store'[c].back = store[c].back,
               \A p \in Handlers : call'[p] = call[p] \/ call'[p].pc = "idle"
        PROVE  SlotsInv'
    <2>1. \A p \in Handlers : \/ call'[p].pc = "idle"
                              \/ /\ call'[p] = call[p]
                                 /\ Pending(p) => store'[call[p].crash].back = store[call[p].crash].back
      BY <1>1, <1>3 DEF Pending, Saving, TypeOK
    <2> QED
      BY <1>1, <1>2, <1>3, <2>1, SlotsStay DEF UnbornIsUnlinked
  <1>4. ASSUME NEW p \in Savers, Save(p) PROVE SlotsInv'
    BY <1>1, <1>2, <1>4, SaveKeepsSlots
  <1>5. ASSUME NEW p \in Handlers, NEW c \in Crashes, Submit(p, c) \/ Reprocess(p, c) PROVE SlotsInv'
    BY <1>1, <1>2, <1>5, BeginsInSlot
  <1>6. ASSUME NEW p \in Handlers, Abort(p) PROVE SlotsInv'
    <2>1. \A q \in Handlers : call'[q] = call[q] \/ call'[q].pc = "idle"
      BY <1>1, <1>6 DEF Abort, IdleCall, TypeOK
    <2> QED
      BY <1>3, <1>6, <2>1 DEF Abort, files, history, fixed, NowPathsStay
  <1>7. ASSUME NEW w \in Workers, Process(w) PROVE SlotsInv'
    <2>1. \A q \in Handlers : call'[q] = call[q]
      BY <1>1, <1>7 DEF TypeOK, Process, Lstat, Stat, GoOnIf, ProcessorDown, RemoveLink, GetRaw, GetDumps,
         SaveProcessed, SaveRawCrash, StartCall, StoredInFs, Index, RemoveBack, RemoveFile, RemoveDir
    <2>2. UNCHANGED <<now, born, answered, dirs>>
      BY <1>7 DEF Process, Lstat, Stat, RemoveLink, GetRaw, GetDumps, SaveProcessed, SaveRawCrash,
         StoredInFs, Index, RemoveBack, RemoveFile, RemoveDir, InWork, fixed
    <2>3. UNCHANGED filed /\ \A c \in Crashes : store'[c].back = store[c].back
      BY <1>1, <1>7, ProcessIsQuiet DEF Quiet
    <2> QED
      BY <1>3, <2>1, <2>2, <2>3 DEF NowPathsStay
  <1>8. CASE Scan
    <2>1. UNCHANGED <<now, born, filed, answered, store, call>>
      BY <1>8 DEF Scan, ReadSlot, ReadDate, ReadRoot, NextDate, NextHour, NextMinute, Spawn,
         RemoveSlot, RemoveHour, EndDate, EndRound, ScanStep, OnFiles, history, fixed
    <2>2. NowPathsStay
      BY <1>1, <1>8, NowIsSpared DEF NowPathsStay
    <2> QED
      BY <1>3, <2>1, <2>2
  <1>9. CASE ProcessorDies
    <2>1. \A q \in Handlers : call'[q] = call[q]
      BY <1>1, <1>9 DEF ProcessorDies, ProcessorDown
    <2> QED
      BY <1>3, <1>9, <2>1 DEF ProcessorDies, InWork, fixed, NowPathsStay
  <1>10. CASE Tick
    <2>1. \A p \in Handlers : call'[p].pc = "idle"
      BY <1>10 DEF Tick, AtCall
    <2>2. UNCHANGED <<born, store, filed, answered>>
      BY <1>10 DEF Tick, files, history, fixed
    <2>3. \A p \in Handlers : InSlot(p)'
      BY <2>1 DEF InSlot, Pending, Saving, AtCall
    <2> QED
      BY <1>1, <1>2, <2>2, <2>3 DEF SlotsInv, UnbornIsUnlinked, AnsweredIsFiled
  <1>11. CASE Restart \/ UNCHANGED vars
    BY <1>3, <1>11 DEF Restart, ScanStep, OnFiles, vars, files, history, fixed, NowPathsStay
  <1> QED
    BY <1>4, <1>5, <1>6, <1>7, <1>8, <1>9, <1>10, <1>11 DEF Next

\* When requests end in the slot and scans in the hour they began in, and only hits are
\* reprocessed, a request is answered only after its crash was queued: no scanner removes the
\* slot directory between the steps that make it and link into it.
THEOREM SpoolAnsweredIsFiled ==
  ASSUME SavesWithinSlot, ScansWithinHour, ReprocessesHits, MaxHour # 0, \A cf \in Configs : ~cf.removeRaw
  PROVE  Spec => []AnsweredIsFiled
  <1> DEFINE Inv == WInv /\ SlotsInv
  <1>1. Init => Inv
    <2> SUFFICES ASSUME Init PROVE SlotsInv
      BY InitWhole
    <2>1. ScanIsNow
      BY DEF Init, NewScan, ScanIsNow, Resting
    <2>2. \A p \in Handlers : InSlot(p)
      BY DEF Init, IdleCall, Savers, InSlot, Pending, Saving, AtCall
    <2> QED
      BY <2>1, <2>2 DEF Init, SlotsInv, UnbornIsUnlinked, AnsweredIsFiled
  <1>2. Inv /\ [Next]_vars => Inv'
    <2> SUFFICES ASSUME Inv, [Next]_vars PROVE Inv'
      OBVIOUS
    <2>1. WInv' /\ TypeOK' /\ ~config.removeRaw
      BY NextWhole DEF WInv, LInv, IInv, TypeOK
    <2> QED
      BY <2>1, NextSlots
  <1>3. Inv => AnsweredIsFiled
    BY DEF SlotsInv
  <1> QED
    BY <1>1, <1>2, <1>3, PTL DEF Spec

-----------------------------------------------------------------------------
(* What is removed.  With remove_raw_dump, a crash that is not in           *)
(* Elasticsearch is still whole in the spool once it was queued or answered *)
(* so that the goroutine that takes it reads it whole, indexes it on its    *)
(* way through the destinations, and only then removes it.                  *)

\* What makes the removal safe: Elasticsearch among the destinations, crashes that all
\* have a date when the raw crash is stored too, and reprocess requests for hits only.
Backed == /\ ReprocessesHits /\ ~(config.saveRaw /\ Faults)
          /\ config.removeRaw => \E i \in DOMAIN config.dst : config.dst[i] = "es"

Saves(p)     == ~AtCall(p, "idle")
Unwritten(p) == call[p].pc \in {"truncate", "write"}

\* With save_raw_dump into the spool, goroutines rewrite raw crashes while others read them.
Intact(c) == IF config.saveRaw THEN store[c].raw # "absent" ELSE store[c].raw = "good"

\* Only what was filed is queued or listed by the scanner.
QueuedIsFiled == /\ \A l \in links : filed[l[2]] > 0
                 /\ \A c \in scan.entries : filed[c] > 0

\* A goroutine, by its record: its crash was filed, and was read whole unless it is indexed
\* already; it is indexed once the goroutine is past Elasticsearch, and when it removes.
Fit(r) == r.pc # "idle" =>
    /\ filed[r.crash] > 0
    /\ r.raw = "good" \/ config.saveRaw \/ r.crash \in indexed
    /\ r.pc \in {"store", "processed", "saved"} =>
          /\ r.dst \in DOMAIN config.dst
          /\ \A i \in 1 .. r.dst - 1 : config.dst[i] = "es" => r.crash \in indexed
    /\ r.pc \in {"processed", "saved"} => config.dst[r.dst] = "fs"
    /\ r.pc \in {"rmback", "rmall"} => r.crash \in indexed

WorkersFit == \A w \in Workers : Fit(worker[w])

\* What was queued or answered and is not in Elasticsearch is in the spool.
SavedIsIntact == \A c \in Crashes : c \notin indexed /\ (filed[c] > 0 \/ c \in answered) => Intact(c)

\* A save: the request or goroutine p writes a report or a raw crash; of a crash that is not
\* indexed it finds what it has written, and that is the crash's first save, unless the
\* processor stores raw crashes too.
SaveFits(p) == Saves(p) =>
    /\ call[p].file = "report" => p \in Workers /\ Unwritten(p)
    /\ call[p].file = "raw" /\ call[p].crash \notin indexed =>
          /\ ~AtCall(p, "truncate") => store[call[p].crash].raw # "absent"
          /\ ~Unwritten(p) => Intact(call[p].crash)
          /\ config.saveRaw \/ (/\ call[p].content = "good" /\ filed[call[p].crash] = 0
                                /\ call[p].crash \notin answered)

SavesFit == \A p \in Savers : SaveFits(p)

OneFirstSave == \A p, q \in Savers :
    (/\ Saves(p) /\ call[p].file = "raw" /\ Saves(q) /\ call[q].file = "raw"
     /\ call[p].crash = call[q].crash /\ call[p].crash \notin indexed) => config.saveRaw \/ p = q

\* A crash that nobody submitted is nowhere.
UnbornIsNew == \A c \in Crashes : born[c] = Unborn =>
    /\ filed[c] = 0 /\ c \notin answered /\ c \notin indexed
    /\ \A p \in Savers : Saves(p) => call[p].crash # c

FilesFit == SavedIsIntact /\ SavesFit /\ OneFirstSave /\ UnbornIsNew

RemovalInv == TypeOK /\ (Backed => QueuedIsFiled /\ WorkersFit /\ FilesFit)

-----------------------------------------------------------------------------
(* Goroutines. *)

\* Nothing is taken back: crashes stay filed and indexed.
Grows == UNCHANGED config /\ indexed \subseteq indexed' /\ \A c \in Crashes : filed[c] > 0 => filed'[c] > 0

\* What was fit stays fit while crashes are filed and indexed.
LEMMA FitGrows ==
  ASSUME Grows, NEW r, r.pc # "idle" => r.crash \in Crashes, Fit(r) PROVE Fit(r)'
  BY DEF Fit, Grows

\* A goroutine that changed neither its crash nor its place among the destinations.
LEMMA WorkersKept ==
  ASSUME TypeOK, WorkersFit, Grows,
         \A w \in Workers : \/ worker'[w].pc = "idle"
                            \/ worker'[w] = worker[w]
                            \/ \E r : worker'[w] = r /\ Fit(r)'
  PROVE  WorkersFit'
  <1> SUFFICES ASSUME NEW w \in Workers PROVE Fit(worker[w])'
    BY DEF WorkersFit
  <1>1. CASE worker'[w].pc = "idle"
    BY <1>1 DEF Fit
  <1>2. CASE worker'[w] = worker[w]
    <2>1. PICK r : r = worker[w]
      OBVIOUS
    <2>2. Fit(r) /\ (r.pc # "idle" => r.crash \in Crashes)
      BY <2>1 DEF WorkersFit, TypeOK, At
    <2>3. Fit(r)'
      BY <2>2, FitGrows
    <2> QED
      BY <1>2, <2>1, <2>3 DEF Fit
  <1>3. CASE \E r : worker'[w] = r /\ Fit(r)'
    BY <1>3 DEF Fit
  <1> QED
    BY <1>1, <1>2, <1>3

\* The positions of a sequence.
LEMMA SeqDomain == ASSUME NEW S, NEW s \in Seq(S) PROVE Len(s) \in Nat /\ DOMAIN s = 1 .. Len(s)
  OBVIOUS

\* No position is before the first, and the last of k positions is k.
LEMMA Positions ==
  ASSUME NEW n \in Nat
  PROVE  /\ 0 \in 0 .. n /\ \A i : i \notin 1 .. 0
         /\ \A k \in 1 .. n : k \in 0 .. n /\ \A i \in 1 .. k : i = k \/ i \in 1 .. k - 1
  OBVIOUS

\* Behind a destination a goroutine is fit again, if the crash is indexed there.
LEMMA AfterDestinationFits ==
  ASSUME TypeOK, Backed, Grows, UNCHANGED filed, NEW w \in Workers, ~At(w, "idle"), NEW i \in 0 .. Len(config.dst),
         filed[Crash(w)] > 0,
         worker[w].raw = "good" \/ config.saveRaw \/ Crash(w) \in indexed,
         \A j \in 1 .. i : config.dst[j] = "es" => Crash(w) \in indexed',
         NEW r, r = AfterDestination(w, i)
  PROVE  Fit(r)'
  <1> DEFINE n == Len(config.dst)
  <1>1. /\ worker[w] \in WorkerType /\ config.dst \in Seq(Storages) /\ config' = config
        /\ n \in Nat /\ DOMAIN config.dst = 1 .. n
    BY ConfigAssumption DEF TypeOK, Grows
  <1>2. CASE i < n
    <2>1. r = [worker[w] EXCEPT !.pc = "store", !.dst = i + 1]
      BY <1>2 DEF AfterDestination
    <2>2. /\ r.pc = "store" /\ r.dst = i + 1 /\ r.crash = Crash(w) /\ r.raw = worker[w].raw
      BY <1>1, <2>1 DEF WorkerType, Crash
    <2>3. i + 1 \in 1 .. n /\ (i + 1) - 1 = i
      BY <1>1, <1>2
    <2> QED
      BY <1>1, <2>2, <2>3 DEF Fit, Grows
  <1>3. CASE ~(i < n) /\ config.removeRaw
    <2>1. r = [worker[w] EXCEPT !.pc = "rmback"]
      BY <1>3 DEF AfterDestination
    <2>2. r.pc = "rmback" /\ r.crash = Crash(w) /\ r.raw = worker[w].raw
      BY <1>1, <2>1 DEF WorkerType, Crash
    <2>3. PICK j \in DOMAIN config.dst : config.dst[j] = "es"
      BY <1>3 DEF Backed
    <2>4. j \in 1 .. i
      BY <1>1, <1>3
    <2>5. Crash(w) \in indexed'
      BY <2>3, <2>4
    <2> QED
      BY <1>1, <2>2, <2>5 DEF Fit, Grows
  <1>4. CASE ~(i < n) /\ ~config.removeRaw
    BY <1>4 DEF AfterDestination, IdleWorker, Fit
  <1> QED
    BY <1>2, <1>3, <1>4

-----------------------------------------------------------------------------
(* Files and saves. *)

\* A save that is where it was, or goes on past the writing of its file.
GoesOn(p) == /\ Saves(p) /\ call'[p].crash = call[p].crash
             /\ call'[p].file = call[p].file /\ call'[p].content = call[p].content
             /\ call'[p].pc = call[p].pc \/ (~Unwritten(p) /\ ~Unwritten(p)' /\ ~AtCall(p, "truncate")')

\* A save that begins: of a report by a goroutine, or of a raw crash that is indexed or
\* that the processor stores.
Begins(p) == /\ AtCall(p, "truncate")' /\ call'[p].crash \in Crashes
             /\ filed[call'[p].crash] > 0 \/ call'[p].crash \in indexed
             /\ call'[p].file = "report" => p \in Workers
             /\ call'[p].file = "raw" => config.saveRaw \/ call'[p].crash \in indexed

\* A step that writes, files and answers nothing, and gives up only what is indexed.
FilesKept ==
    /\ UNCHANGED <<filed, born, answered>> /\ Grows
    /\ \A c \in Crashes : c \in indexed' => c \in indexed \/ filed[c] > 0
    /\ \A c \in Crashes : c \notin indexed => store'[c].raw = store[c].raw
    /\ \A p \in Savers : Saves(p)' => GoesOn(p) \/ Begins(p)

\* Such a step keeps what the invariant says of files.
LEMMA FilesKeptFit == ASSUME TypeOK, FilesFit, FilesKept PROVE FilesFit'
  <1>1. /\ UNCHANGED <<filed, born, answered, config>>
        /\ \A c \in Crashes : c \notin indexed' => c \notin indexed /\ store'[c].raw = store[c].raw
        /\ \A p \in Savers : Saves(p)' => GoesOn(p) \/ Begins(p)
    BY DEF FilesKept, Grows
  <1>2. \A c \in Crashes : c \notin indexed' => (Intact(c)' <=> Intact(c))
    BY <1>1 DEF Intact
  <1>3. \A p \in Savers : Saves(p) => call[p].crash \in Crashes
    BY DEF TypeOK, Saves
  <1>4. SavedIsIntact'
    BY <1>1, <1>2 DEF FilesFit, SavedIsIntact
  <1>5. ASSUME NEW p \in Savers, Saves(p)' PROVE SaveFits(p)'
    <2>1. CASE GoesOn(p)
      <3>1. SaveFits(p) /\ Saves(p) /\ call[p].crash \in Crashes
        BY <1>3, <2>1 DEF FilesFit, SavesFit, GoesOn
      <3>2. call'[p].crash = call[p].crash /\ call'[p].file = call[p].file /\ call'[p].content = call[p].content
        BY <2>1 DEF GoesOn
      <3>3. (AtCall(p, "truncate") => AtCall(p, "truncate")') /\ (Unwritten(p) <=> Unwritten(p)')
        BY <2>1 DEF GoesOn, AtCall, Unwritten
      <3>4. ~AtCall(p, "truncate")' => ~AtCall(p, "truncate")
        BY <3>3
      <3>5. (call[p].file = "report" => p \in Workers /\ Unwritten(p))'
        BY <3>1, <3>2, <3>3 DEF SaveFits
      <3>6. ASSUME call'[p].file = "raw", call'[p].crash \notin indexed'
            PROVE  /\ ~AtCall(p, "truncate")' => store'[call'[p].crash].raw # "absent"
                   /\ ~Unwritten(p)' => Intact(call[p].crash)'
                   /\ config'.saveRaw \/ (/\ call'[p].content = "good" /\ filed'[call'[p].crash] = 0
                                          /\ call'[p].crash \notin answered')
        <4>1. call[p].file = "raw" /\ call[p].crash \notin indexed
              /\ store'[call[p].crash].raw = store[call[p].crash].raw
          BY <1>1, <3>1, <3>2, <3>6
        <4>2. Intact(call[p].crash)' <=> Intact(call[p].crash)
          BY <3>2, <4>1, <1>1 DEF Intact
        <4> QED
          BY <1>1, <3>1, <3>2, <3>3, <3>4, <4>1, <4>2 DEF SaveFits
      <3> QED
        BY <3>5, <3>6 DEF SaveFits
    <2>2. CASE Begins(p)
      BY <1>1, <2>2 DEF Begins, SaveFits, AtCall, Unwritten
    <2> QED
      BY <1>1, <1>5, <2>1, <2>2
  <1>6. SavesFit'
    <2>1. \A p \in Savers : ~Saves(p)' => SaveFits(p)'
      BY DEF SaveFits
    <2> QED
      BY <1>5, <2>1 DEF SavesFit
  <1>7. OneFirstSave'
    <2> SUFFICES ASSUME NEW p \in Savers, NEW q \in Savers, ~config'.saveRaw,
                        Saves(p)', call'[p].file = "raw", Saves(q)', call'[q].file = "raw",
                        call'[p].crash = call'[q].crash, call'[p].crash \notin indexed'
                 PROVE  p = q
      BY DEF OneFirstSave
    <2>1. GoesOn(p) /\ GoesOn(q)
      BY <1>1 DEF Begins
    <2>2. /\ Saves(p) /\ call[p].file = "raw" /\ Saves(q) /\ call[q].file = "raw"
          /\ call[p].crash = call[q].crash /\ call[p].crash \notin indexed
      BY <1>1, <1>3, <2>1 DEF GoesOn
    <2> QED
      BY <1>1, <2>2 DEF FilesFit, OneFirstSave
  <1>8. UnbornIsNew'
    <2> SUFFICES ASSUME NEW c \in Crashes, born'[c] = Unborn
                 PROVE  /\ filed'[c] = 0 /\ c \notin answered' /\ c \notin indexed'
                        /\ \A p \in Savers : Saves(p)' => call'[p].crash # c
      BY DEF UnbornIsNew
    <2>1. /\ filed[c] = 0 /\ c \notin answered /\ c \notin indexed
          /\ \A p \in Savers : Saves(p) => call[p].crash # c
      BY <1>1 DEF FilesFit, UnbornIsNew
    <2>2. c \notin indexed'
      BY <2>1 DEF FilesKept
    <2>3. ASSUME NEW p \in Savers, Saves(p)' PROVE call'[p].crash # c
      BY <1>1, <2>1, <2>3 DEF GoesOn, Begins
    <2> QED
      BY <1>1, <2>1, <2>2, <2>3
  <1> QED
    BY <1>4, <1>6, <1>7, <1>8 DEF FilesFit

-----------------------------------------------------------------------------
(* The steps of a save. *)

\* A step of a save in general: goroutines, scanner and documents are left alone.
LEMMA SaveElsewhere ==
  ASSUME TypeOK, Backed, QueuedIsFiled, WorkersFit, NEW p \in Savers, Save(p)
  PROVE  /\ QueuedIsFiled' /\ WorkersFit' /\ Grows
         /\ UNCHANGED <<indexed, born, config, scan, worker>>
         /\ Saves(p) /\ call[p].crash \in Crashes /\ call[p].file \in {"raw", "report"}
         /\ call[p].content \in {"good", "null"}
  <1>1. Saves(p)
    BY DEF Save, Truncate, Write, PickSlot, MakeHourDir, MakeSlotDir, LinkBack, LinkForward, AtCall, Saves
  <1>2. call[p].crash \in Crashes /\ call[p].file \in {"raw", "report"} /\ call[p].content \in {"good", "null"}
    BY <1>1 DEF TypeOK, Saves, CallType
  <1>3. UNCHANGED <<indexed, born, config, scan, worker>>
    BY DEF Save, Truncate, Write, PickSlot, MakeHourDir, MakeSlotDir, LinkBack, LinkForward, InSave, fixed
  <1>4. /\ \A c \in Crashes : filed[c] > 0 => filed'[c] > 0
        /\ links' \subseteq links \cup {<<SlotPath(p), call[p].crash>>}
        /\ links' = links \/ filed'[call[p].crash] > 0
    <2>1. CASE LinkForward(p) /\ CanLinkForward(p)
      <3>1. /\ links' = links \cup {<<SlotPath(p), call[p].crash>>}
            /\ filed' = [filed EXCEPT ![call[p].crash] = filed[call[p].crash] + 1]
        BY <2>1 DEF LinkForward
      <3>2. filed \in [Crashes -> Nat]
        BY DEF TypeOK
      <3>3. filed'[call[p].crash] > 0 /\ \A c \in Crashes : filed[c] > 0 => filed'[c] > 0
        BY <1>2, <3>1, <3>2
      <3> QED
        BY <3>1, <3>3
    <2>2. CASE UNCHANGED <<links, filed>>
      BY <2>2
    <2>3. (LinkForward(p) /\ CanLinkForward(p)) \/ UNCHANGED <<links, filed>>
      BY DEF Save, Truncate, Write, PickSlot, MakeHourDir, MakeSlotDir, LinkBack, LinkForward, files
    <2> QED
      BY <2>1, <2>2, <2>3
  <1>5. Grows
    BY <1>3, <1>4 DEF Grows
  <1>6. WorkersFit'
    BY <1>3, <1>5, WorkersKept
  <1>7. QueuedIsFiled'
    <2>1. ASSUME NEW l \in links' PROVE filed'[l[2]] > 0
      <3>1. CASE l \in links
        <4>1. l[2] \in Crashes
          BY <3>1 DEF TypeOK
        <4> QED
          BY <1>4, <3>1, <4>1 DEF QueuedIsFiled
      <3>2. CASE l \notin links
        BY <1>4, <2>1, <3>2
      <3> QED
        BY <3>1, <3>2
    <2>2. \A c \in scan.entries : c \in Crashes
      BY DEF TypeOK, ScanType
    <2> QED
      BY <1>3, <1>4, <2>1, <2>2 DEF QueuedIsFiled
  <1> QED
    BY <1>1, <1>2, <1>3, <1>5, <1>6, <1>7

\* Opening or writing a file: of a crash that is not indexed, the raw crash is not taken
\* away, and what is there when it was written is whole.
LEMMA WritingFits ==
  ASSUME TypeOK, FilesFit, NEW p \in Savers, Saves(p), UNCHANGED <<filed, born, indexed, config, answered>>,
         NEW v, \A d \in Crashes : store'[d].raw = IF d = call[p].crash /\ call[p].file = "raw" THEN v
                                                   ELSE store[d].raw,
         \A q \in Savers : q # p => call'[q] = call[q],
         \/ call'[p].pc = "idle"
         \/ /\ call'[p].crash = call[p].crash /\ call'[p].file = call[p].file
            /\ call'[p].content = call[p].content
            /\ Unwritten(p)' \/ call[p].file = "raw",
         call[p].file = "raw" /\ call[p].crash \notin indexed =>
            v # "absent" /\ (Saves(p)' => Unwritten(p)' \/ config.saveRaw \/ v = "good")
  PROVE  FilesFit'
  <1> DEFINE c == call[p].crash
  <1>1. /\ c \in Crashes /\ call[p].file \in {"raw", "report"}
        /\ \A q \in Savers : Saves(q) => call[q].crash \in Crashes /\ call[q].file \in {"raw", "report"}
    BY DEF TypeOK, Saves, CallType
  <1>2. SaveFits(p)
    BY DEF FilesFit, SavesFit
  <1>3. \A d \in Crashes : d \notin indexed /\ ~(d = c /\ call[p].file = "raw" /\ ~config.saveRaw) /\ Intact(d) => Intact(d)'
    BY <1>1 DEF Intact
  <1>4. ASSUME NEW d \in Crashes, d \notin indexed', filed'[d] > 0 \/ d \in answered'
        PROVE  Intact(d)'
    <2>1. Intact(d)
      BY <1>4 DEF FilesFit, SavedIsIntact
    <2>2. ~(d = c /\ call[p].file = "raw" /\ ~config.saveRaw)
      <3>1. filed \in [Crashes -> Nat]
        BY DEF TypeOK
      <3> QED
        BY <1>2, <1>4, <3>1 DEF SaveFits
    <2> QED
      BY <1>3, <1>4, <2>1, <2>2
  <1>5. SaveFits(p)'
    <2> SUFFICES ASSUME Saves(p)' PROVE SaveFits(p)'
      BY DEF SaveFits
    <2>1. /\ call'[p].crash = c /\ call'[p].file = call[p].file /\ call'[p].content = call[p].content
          /\ Unwritten(p)' \/ call[p].file = "raw"
      BY DEF Saves, AtCall
    <2>2. (call[p].file = "report" => p \in Workers /\ Unwritten(p))'
      BY <1>2, <2>1 DEF SaveFits
    <2>3. ASSUME call[p].file = "raw", c \notin indexed
          PROVE  /\ store'[c].raw # "absent" /\ (~Unwritten(p)' => Intact(c)')
                 /\ config.saveRaw \/ (/\ call[p].content = "good" /\ filed[c] = 0 /\ c \notin answered)
      <3>1. store'[c].raw = v
        BY <1>1, <2>3
      <3>2. ~Unwritten(p)' => Intact(c)'
        <4>1. SUFFICES ASSUME ~Unwritten(p)' PROVE Intact(c)'
          OBVIOUS
        <4>2. v # "absent" /\ (config.saveRaw \/ v = "good")
          BY <2>3, <4>1
        <4>3. PICK d : d = c
          OBVIOUS
        <4>4. Intact(d)'
          BY <3>1, <4>2, <4>3 DEF Intact
        <4> QED
          BY <2>1, <4>3, <4>4 DEF Intact
      <3> QED
        BY <1>2, <2>3, <3>1, <3>2 DEF SaveFits
    <2> QED
      BY <2>1, <2>2, <2>3 DEF SaveFits, Intact
  <1>6. ASSUME NEW q \in Savers, q # p PROVE SaveFits(q)'
    <2>1. SaveFits(q) /\ call'[q] = call[q]
      BY <1>6 DEF FilesFit, SavesFit
    <2> SUFFICES ASSUME Saves(q), call[q].file = "raw", call[q].crash \notin indexed
                 PROVE  /\ ~AtCall(q, "truncate") => store'[call[q].crash].raw # "absent"
                        /\ ~Unwritten(q) => Intact(call[q].crash)'
      BY <2>1 DEF SaveFits, Saves, AtCall, Unwritten
    <2>2. call[q].crash = c /\ call[p].file = "raw" => config.saveRaw
      BY <1>6 DEF FilesFit, OneFirstSave
    <2>3. PICK d \in Crashes : d = call[q].crash
      BY <1>1
    <2>4. ~AtCall(q, "truncate") => store'[d].raw # "absent"
      BY <2>1, <2>3 DEF SaveFits
    <2>5. ~Unwritten(q) => Intact(d)'
      BY <1>3, <2>1, <2>2, <2>3 DEF SaveFits
    <2>6. Intact(call[q].crash)' <=> Intact(d)'
      BY <2>1, <2>3 DEF Intact
    <2> QED
      BY <2>3, <2>4, <2>5, <2>6
  <1>7. SavesFit'
    BY <1>5, <1>6 DEF SavesFit
  <1>8. OneFirstSave'
    <2> SUFFICES ASSUME NEW q \in Savers, NEW r \in Savers, ~config.saveRaw,
                        Saves(q)', call'[q].file = "raw", Saves(r)', call'[r].file = "raw",
                        call'[q].crash = call'[r].crash, call'[q].crash \notin indexed
                 PROVE  q = r
      BY DEF OneFirstSave
    <2>1. \A s \in {q, r} : Saves(s) /\ call'[s].file = call[s].file /\ call'[s].crash = call[s].crash
      BY DEF Saves, AtCall
    <2> QED
      BY <2>1 DEF FilesFit, OneFirstSave
  <1>9. UnbornIsNew'
    <2> SUFFICES ASSUME NEW d \in Crashes, born[d] = Unborn, NEW q \in Savers, Saves(q)'
                 PROVE  call'[q].crash # d
      BY DEF UnbornIsNew, FilesFit
    <2>1. Saves(q) /\ call'[q].crash = call[q].crash
      BY DEF Saves, AtCall
    <2> QED
      BY <2>1 DEF FilesFit, UnbornIsNew
  <1> QED
    BY <1>4, <1>7, <1>8, <1>9 DEF FilesFit, SavedIsIntact

\* Opening the file for writing, and writing it.
LEMMA TruncateFits == ASSUME TypeOK, FilesFit, NEW p \in Savers, Truncate(p) \/ Write(p) PROVE FilesFit'
  <1> DEFINE c == call[p].crash
             f == call[p].file
  <1>1. /\ call \in [Savers -> CallType] /\ call[p] \in CallType
        /\ Saves(p) /\ c \in Crashes /\ f \in {"raw", "report"}
        /\ store \in [Crashes -> [raw : FileState, report : FileState, back : BOOLEAN]]
    BY DEF TypeOK, Truncate, Write, Saves, AtCall, CallType
  <1>2. UNCHANGED <<filed, born, indexed, config>>
    BY DEF Truncate, Write, InSave, fixed
  <1>3. SaveFits(p)
    BY DEF FilesFit, SavesFit
  <1>4. ASSUME NEW v, Put(c, f, v)
        PROVE  \A d \in Crashes : store'[d].raw = IF d = c /\ f = "raw" THEN v ELSE store[d].raw
    BY <1>1, <1>4 DEF Put
  <1>5. CASE Truncate(p)
    <2>1. call' = [call EXCEPT ![p].pc = "write"] /\ UNCHANGED answered /\ Put(c, f, "torn")
      BY <1>5 DEF Truncate, GoTo
    <2>2. /\ call'[p].pc = "write" /\ call'[p].crash = c /\ call'[p].file = f /\ call'[p].content = call[p].content
          /\ \A q \in Savers : q # p => call'[q] = call[q]
      BY <1>1, <2>1 DEF CallType
    <2>3. PICK v : v = "torn"
      OBVIOUS
    <2>4. \A d \in Crashes : store'[d].raw = IF d = c /\ f = "raw" THEN v ELSE store[d].raw
      BY <1>4, <2>1, <2>3
    <2>5. Unwritten(p)' /\ v # "absent"
      BY <2>2, <2>3 DEF Unwritten
    <2>6. UNCHANGED <<filed, born, indexed, config, answered>> /\ Saves(p)
      BY <1>1, <1>2, <2>1
    <2> QED
      BY <2>2, <2>4, <2>5, <2>6, WritingFits
  <1>6. CASE Write(p)
    <2>1. PICK v : v = IF store[c][f] = "absent" THEN "absent" ELSE call[p].content
      OBVIOUS
    <2>2. \A d \in Crashes : store'[d].raw = IF d = c /\ f = "raw" THEN v ELSE store[d].raw
      <3>1. CASE store[c][f] = "absent"
        <4>1. store' = store /\ v = "absent"
          BY <1>6, <2>1, <3>1 DEF Write
        <4> QED
          BY <3>1, <4>1
      <3>2. CASE store[c][f] # "absent"
        <4>1. Put(c, f, v)
          BY <1>6, <2>1, <3>2 DEF Write
        <4> QED
          BY <1>4, <4>1
      <3> QED
        BY <3>1, <3>2
    <2>3. f = "raw" /\ c \notin indexed => v # "absent" /\ (config.saveRaw \/ v = "good")
      <3>1. SUFFICES ASSUME f = "raw", c \notin indexed PROVE v # "absent" /\ (config.saveRaw \/ v = "good")
        OBVIOUS
      <3>2. ~AtCall(p, "truncate")
        BY <1>6 DEF Write, AtCall
      <3>3. store[c].raw # "absent" /\ (config.saveRaw \/ call[p].content = "good")
        BY <1>1, <1>3, <3>1, <3>2 DEF SaveFits
      <3>4. call[p].content \in {"good", "null"}
        BY <1>1 DEF CallType
      <3> QED
        BY <2>1, <3>1, <3>3, <3>4
    <2>4. CASE f = "raw"
      <3>1. call' = [call EXCEPT ![p].pc = "slot"] /\ UNCHANGED answered
        BY <1>6, <2>4 DEF Write, GoTo
      <3>2. /\ call'[p].crash = c /\ call'[p].file = f /\ call'[p].content = call[p].content
            /\ \A q \in Savers : q # p => call'[q] = call[q]
        BY <1>1, <3>1 DEF CallType
      <3> QED
        BY <1>1, <1>2, <2>2, <2>3, <2>4, <3>1, <3>2, WritingFits
    <2>5. CASE f # "raw"
      <3>1. EndCall(p) /\ p \notin Handlers
        BY <1>1, <1>3, <1>6, <2>5, SpoolAssumption DEF Write, SaveFits
      <3>2. /\ call'[p].pc = "idle" /\ UNCHANGED answered
            /\ \A q \in Savers : q # p => call'[q] = call[q]
        BY <1>1, <3>1 DEF EndCall, IdleCall
      <3> QED
        BY <1>1, <1>2, <2>2, <2>5, <3>2, WritingFits
    <2> QED
      BY <2>4, <2>5
  <1> QED
    BY <1>5, <1>6

\* Finding the slot, its directories and the back link.
LEMMA MiddleFits ==
  ASSUME TypeOK, FilesFit, Grows, NEW p \in Savers,
         \/ PickSlot(p) \/ MakeHourDir(p) \/ MakeSlotDir(p)
         \/ LinkBack(p) /\ CanLinkBack(call[p].crash)
  PROVE  FilesFit'
  <1>1. /\ call \in [Savers -> CallType] /\ call[p] \in CallType /\ call[p].crash \in Crashes
        /\ store \in [Crashes -> [raw : FileState, report : FileState, back : BOOLEAN]]
    BY DEF TypeOK, PickSlot, MakeHourDir, MakeSlotDir, LinkBack, AtCall
  <1>2. /\ UNCHANGED <<filed, born, answered, indexed>>
        /\ \A c \in Crashes : store'[c].raw = store[c].raw
    BY <1>1 DEF PickSlot, MakeHourDir, MakeSlotDir, LinkBack, GoTo, Put, InSave, fixed, files
  <1>3. /\ Saves(p) /\ ~Unwritten(p)
        /\ \E pc \in {"mkhour", "mkslot", "back", "forward"} : \E s :
              call' = [call EXCEPT ![p].pc = pc, ![p].slot = s]
    <2>1. call[p] = [call[p] EXCEPT !.slot = call[p].slot]
      BY <1>1 DEF CallType
    <2>2. ASSUME NEW pc, call' = [call EXCEPT ![p].pc = pc]
          PROVE  call' = [call EXCEPT ![p].pc = pc, ![p].slot = call[p].slot]
      BY <1>1, <2>2 DEF CallType
    <2>3. CASE PickSlot(p)
      BY <2>3 DEF PickSlot, Saves, AtCall, Unwritten
    <2>4. CASE MakeHourDir(p)
      BY <2>2, <2>4 DEF MakeHourDir, GoTo, Saves, AtCall, Unwritten
    <2>5. CASE MakeSlotDir(p)
      BY <2>2, <2>5 DEF MakeSlotDir, GoTo, Saves, AtCall, Unwritten
    <2>6. CASE LinkBack(p) /\ CanLinkBack(call[p].crash)
      BY <2>2, <2>6 DEF LinkBack, GoTo, Saves, AtCall, Unwritten
    <2> QED
      BY <2>3, <2>4, <2>5, <2>6
  <1>4. PICK pc \in {"mkhour", "mkslot", "back", "forward"} :
           \E s : call' = [call EXCEPT ![p].pc = pc, ![p].slot = s]
    BY <1>3
  <1>5. /\ \A q \in Savers : q # p => call'[q] = call[q]
        /\ call'[p].pc = pc /\ call'[p].crash = call[p].crash
        /\ call'[p].file = call[p].file /\ call'[p].content = call[p].content
    BY <1>1, <1>4 DEF CallType
  <1>6. \A q \in Savers : Saves(q)' => GoesOn(q)
    BY <1>3, <1>5 DEF GoesOn, Saves, AtCall, Unwritten
  <1>7. FilesKept
    BY <1>2, <1>6 DEF FilesKept
  <1> QED
    BY <1>7, FilesKeptFit

\* The end of a save that wrote its raw crash: the crash may be filed, and the request answered.
LEMMA EndFits ==
  ASSUME TypeOK, FilesFit, NEW p \in Savers,
         LinkForward(p) \/ (LinkBack(p) /\ ~CanLinkBack(call[p].crash))
  PROVE  FilesFit'
  <1> DEFINE c == call[p].crash
  <1>1. /\ call \in [Savers -> CallType] /\ c \in Crashes /\ call[p].file \in {"raw", "report"}
        /\ filed \in [Crashes -> Nat] /\ Saves(p) /\ ~Unwritten(p)
    BY DEF TypeOK, LinkForward, LinkBack, AtCall, Saves, Unwritten, CallType
  <1>2. /\ UNCHANGED <<store, born, indexed, config>>
        /\ call' = [call EXCEPT ![p] = IdleCall]
        /\ answered' \subseteq answered \cup {c}
        /\ filed' = filed \/ filed' = [filed EXCEPT ![c] = filed[c] + 1]
    BY DEF LinkForward, LinkBack, InSave, EndCall, fixed
  <1>3. \A q \in Savers : Saves(q)' => q # p /\ Saves(q) /\ call'[q] = call[q]
    BY <1>1, <1>2 DEF Saves, AtCall, IdleCall
  <1>4. \A d \in Crashes : d # c => filed'[d] = filed[d] /\ (d \in answered' <=> d \in answered)
    BY <1>1, <1>2 DEF LinkForward, LinkBack, EndCall
  <1>5. SaveFits(p)
    BY DEF FilesFit, SavesFit
  <1>6. call[p].file = "raw" /\ (c \notin indexed => Intact(c))
    BY <1>1, <1>5 DEF SaveFits
  <1>7. \A d \in Crashes : Intact(d)' <=> Intact(d)
    BY <1>2 DEF Intact
  <1>8. SavedIsIntact'
    BY <1>2, <1>4, <1>6, <1>7 DEF FilesFit, SavedIsIntact
  <1>9. ASSUME NEW q \in Savers PROVE SaveFits(q)'
    <2> SUFFICES ASSUME Saves(q)' PROVE SaveFits(q)'
      BY DEF SaveFits
    <2>1. q # p /\ Saves(q) /\ call'[q] = call[q] /\ SaveFits(q) /\ call[q].crash \in Crashes
      BY <1>3 DEF FilesFit, SavesFit, TypeOK, Saves
    <2>2. call[q].file = "raw" /\ call[q].crash \notin indexed /\ ~config.saveRaw => call[q].crash # c
      BY <1>1, <1>6, <2>1 DEF FilesFit, OneFirstSave
    <2>3. ASSUME call[q].file = "raw", call[q].crash \notin indexed
          PROVE  config.saveRaw \/ (/\ call[q].content = "good" /\ filed'[call[q].crash] = 0
                                    /\ call[q].crash \notin answered')
      BY <1>4, <2>1, <2>2, <2>3 DEF SaveFits
    <2>4. Intact(call[q].crash)' <=> Intact(call[q].crash)
      BY <1>2, <2>1 DEF Intact
    <2>5. (Unwritten(q)' <=> Unwritten(q)) /\ (AtCall(q, "truncate")' <=> AtCall(q, "truncate"))
      BY <2>1 DEF Unwritten, AtCall
    <2> QED
      BY <1>2, <2>1, <2>3, <2>4, <2>5 DEF SaveFits
  <1>10. OneFirstSave'
    BY <1>2, <1>3 DEF FilesFit, OneFirstSave
  <1>11. UnbornIsNew'
    <2> SUFFICES ASSUME NEW d \in Crashes, born[d] = Unborn
                 PROVE  /\ filed'[d] = 0 /\ d \notin answered' /\ d \notin indexed
                        /\ \A q \in Savers : Saves(q)' => call'[q].crash # d
      BY <1>2 DEF UnbornIsNew
    <2>1. d # c
      BY <1>1 DEF FilesFit, UnbornIsNew
    <2> QED
      BY <1>3, <1>4, <2>1 DEF FilesFit, UnbornIsNew
  <1> QED
    BY <1>8, <1>9, <1>10, <1>11 DEF FilesFit, SavesFit

\* Every step of a save.
LEMMA SaveKeepsInv ==
  ASSUME TypeOK, Backed, QueuedIsFiled, WorkersFit, FilesFit, NEW p \in Savers, Save(p)
  PROVE  QueuedIsFiled' /\ WorkersFit' /\ FilesFit'
  <1>1. QueuedIsFiled' /\ WorkersFit' /\ Grows
    BY SaveElsewhere
  <1>2. FilesFit'
    BY <1>1, TruncateFits, MiddleFits, EndFits DEF Save
  <1> QED
    BY <1>1, <1>2

-----------------------------------------------------------------------------
(* Requests, the clock and the scanner. *)

\* The submission of a crash: nobody else saves it, and it was not filed.
LEMMA SubmitKeepsInv ==
  ASSUME TypeOK, QueuedIsFiled, WorkersFit, FilesFit, NEW p \in Handlers, NEW c \in Crashes, Submit(p, c)
  PROVE  QueuedIsFiled' /\ WorkersFit' /\ FilesFit'
  <1>1. /\ p \in Savers /\ p \notin Workers /\ call \in [Savers -> CallType]
        /\ born \in [Crashes -> Day \cup {Unborn}] /\ now.day \in Day
    BY SpoolAssumption DEF TypeOK, Savers, Time
  <1>2. /\ UNCHANGED <<store, links, filed, config, indexed, scan, worker, answered>>
        /\ born[c] = Unborn /\ born' = [born EXCEPT ![c] = now.day]
        /\ call' = [call EXCEPT ![p] = NewCall(c, "raw", "good")]
    BY DEF Submit, StartCall, files, history
  <1>3. Grows
    BY <1>2 DEF Grows
  <1>4. WorkersFit' /\ QueuedIsFiled'
    BY <1>2, <1>3, WorkersKept DEF QueuedIsFiled
  <1>5. /\ call'[p].pc = "truncate" /\ call'[p].crash = c /\ call'[p].file = "raw" /\ call'[p].content = "good"
        /\ \A q \in Savers : q # p => call'[q] = call[q]
    BY <1>1, <1>2 DEF NewCall
  <1>6. /\ filed[c] = 0 /\ c \notin answered /\ c \notin indexed
        /\ \A q \in Savers : Saves(q) => call[q].crash # c
    BY <1>2 DEF FilesFit, UnbornIsNew
  <1>7. SavedIsIntact'
    BY <1>2 DEF FilesFit, SavedIsIntact, Intact
  <1>8. SavesFit'
    <2>1. SaveFits(p)'
      BY <1>2, <1>5, <1>6 DEF SaveFits, AtCall, Unwritten
    <2>2. ASSUME NEW q \in Savers, q # p PROVE SaveFits(q)'
      BY <1>2, <1>5, <2>2 DEF FilesFit, SavesFit, SaveFits, Saves, AtCall, Unwritten, Intact
    <2> QED
      BY <2>1, <2>2 DEF SavesFit
  <1>9. OneFirstSave'
    <2> SUFFICES ASSUME NEW q \in Savers, NEW r \in Savers, Saves(q)', call'[q].file = "raw",
                        Saves(r)', call'[r].file = "raw", call'[q].crash = call'[r].crash,
                        call'[q].crash \notin indexed, ~config.saveRaw
                 PROVE  q = r
      BY <1>2 DEF OneFirstSave
    <2>1. \A s \in Savers : s # p /\ Saves(s)' => Saves(s) /\ call'[s] = call[s] /\ call'[s].crash # c
      BY <1>5, <1>6 DEF Saves, AtCall
    <2> QED
      BY <1>5, <2>1 DEF FilesFit, OneFirstSave
  <1>10. UnbornIsNew'
    <2> SUFFICES ASSUME NEW d \in Crashes, born'[d] = Unborn
                 PROVE  /\ filed[d] = 0 /\ d \notin answered /\ d \notin indexed
                        /\ \A q \in Savers : Saves(q)' => call'[q].crash # d
      BY <1>2 DEF UnbornIsNew
    <2>1. d # c /\ born[d] = Unborn
      BY <1>1, <1>2, CalendarAssumption DEF Day, Unborn
    <2> QED
      BY <1>5, <2>1 DEF FilesFit, UnbornIsNew, Saves, AtCall
  <1> QED
    BY <1>4, <1>7, <1>8, <1>9, <1>10 DEF FilesFit

\* A reprocess request saves what is indexed already.
LEMMA ReprocessKeepsInv ==
  ASSUME TypeOK, Backed, QueuedIsFiled, WorkersFit, FilesFit, NEW p \in Handlers, NEW c \in Crashes, Reprocess(p, c)
  PROVE  QueuedIsFiled' /\ WorkersFit' /\ FilesFit'
  <1>1. p \in Savers /\ call \in [Savers -> CallType]
    BY DEF TypeOK, Savers
  <1>2. /\ UNCHANGED <<store, links, filed, config, indexed, scan, worker, answered, born>>
        /\ c \in indexed /\ call' = [call EXCEPT ![p] = NewCall(c, "raw", "good")]
    BY DEF Reprocess, StartCall, files, fixed, Backed
  <1>3. Grows
    BY <1>2 DEF Grows
  <1>4. WorkersFit' /\ QueuedIsFiled'
    BY <1>2, <1>3, WorkersKept DEF QueuedIsFiled
  <1>5. /\ call'[p].pc = "truncate" /\ call'[p].crash = c /\ call'[p].file = "raw"
        /\ \A q \in Savers : q # p => call'[q] = call[q]
    BY <1>1, <1>2 DEF NewCall
  <1>6. Begins(p)
    BY <1>2, <1>5 DEF Begins, AtCall
  <1>7. \A q \in Savers : Saves(q)' => GoesOn(q) \/ Begins(q)
    BY <1>5, <1>6 DEF GoesOn, Saves, AtCall
  <1>8. FilesKept
    BY <1>2, <1>3, <1>7 DEF FilesKept
  <1> QED
    BY <1>4, <1>8, FilesKeptFit

\* Saves that end without an answer, and all others as they were.
LEMMA OnlyEndsKeeps ==
  ASSUME TypeOK, FilesFit, UNCHANGED <<store, filed, born, answered, indexed, config>>,
         \A q \in Savers : call'[q] = call[q] \/ call'[q].pc = "idle"
  PROVE  FilesFit' /\ Grows
  <1>1. Grows
    BY DEF Grows
  <1>2. \A q \in Savers : Saves(q)' => GoesOn(q)
    BY DEF GoesOn, Saves, AtCall
  <1>3. FilesKept
    BY <1>1, <1>2 DEF FilesKept
  <1> QED
    BY <1>1, <1>3, FilesKeptFit

\* The death of a request, and the clock.
LEMMA AbortKeepsInv ==
  ASSUME TypeOK, QueuedIsFiled, WorkersFit, FilesFit, (\E p \in Handlers : Abort(p)) \/ Tick
  PROVE  QueuedIsFiled' /\ WorkersFit' /\ FilesFit'
  <1>1. call \in [Savers -> CallType]
    BY DEF TypeOK
  <1>2. /\ UNCHANGED <<store, links, filed, born, answered, indexed, config, scan, worker>>
        /\ \A q \in Savers : call'[q] = call[q] \/ call'[q].pc = "idle"
    BY <1>1 DEF Abort, Tick, IdleCall, files, history, fixed
  <1>3. FilesFit' /\ Grows
    BY <1>2, OnlyEndsKeeps
  <1>4. WorkersFit' /\ QueuedIsFiled'
    BY <1>2, <1>3, WorkersKept DEF QueuedIsFiled
  <1> QED
    BY <1>3, <1>4

\* The scanner lists what is queued, and hands over what it listed.
LEMMA ScannerKeepsInv ==
  ASSUME TypeOK, QueuedIsFiled, WorkersFit, FilesFit, Scan \/ Restart
  PROVE  QueuedIsFiled' /\ WorkersFit' /\ FilesFit'
  <1>1. UNCHANGED <<store, links, filed, born, answered, indexed, config, call>>
    BY DEF Scan, Restart, ReadSlot, ReadDate, ReadRoot, NextDate, NextHour, NextMinute, Spawn,
           RemoveSlot, RemoveHour, EndDate, EndRound, ScanStep, OnFiles, files, history, fixed
  <1>2. FilesFit' /\ Grows
    BY <1>1, OnlyEndsKeeps
  <1>3. scan \in ScanType
    BY DEF TypeOK
  <1>4. scan'.entries \subseteq scan.entries \cup {l[2] : l \in links}
    <2>1. CASE ReadSlot \/ EndRound \/ Restart
      <3>1. NewScan.entries = {} /\ \A x : [NewScan EXCEPT !.pc = "date", !.slot = x].entries = {}
        BY DEF NewScan
      <3>2. scan'.entries = {}
        BY <2>1, <3>1 DEF ReadSlot, EndRound, Restart, ScanStep
      <3> QED
        BY <3>2
    <2>2. CASE NextMinute
      <3>1. PICK m \in First(scan.mins) :
               \/ scan' = [scan EXCEPT !.mins = @ \ {m}, !.skip = TRUE]
               \/ scan' = [scan EXCEPT !.mins = @ \ {m}, !.pc = "entries",
                                       !.path = [scan.path EXCEPT ![3] = m],
                                       !.entries = Entries([scan.path EXCEPT ![3] = m])]
        BY <2>2 DEF NextMinute, ScanStep
      <3>2. scan'.entries = scan.entries \/ scan'.entries = Entries([scan.path EXCEPT ![3] = m])
        BY <1>3, <3>1 DEF ScanType
      <3> QED
        BY <3>2 DEF Entries
    <2>3. CASE Spawn
      <3>1. PICK c \in scan.entries : scan' = [scan EXCEPT !.entries = @ \ {c}]
        BY <2>3 DEF Spawn
      <3> QED
        BY <1>3, <3>1 DEF ScanType
    <2>4. CASE ReadDate \/ ReadRoot \/ NextDate \/ NextHour \/ RemoveSlot \/ RemoveHour \/ EndDate
      <3>1. CASE ReadDate
        BY <1>3, <3>1 DEF ReadDate, ScanStep, ScanType
      <3>2. CASE ReadRoot
        BY <1>3, <3>2 DEF ReadRoot, ScanStep, ScanType
      <3>3. CASE NextDate
        BY <1>3, <3>3 DEF NextDate, ScanStep, ScanType
      <3>4. CASE NextHour
        BY <1>3, <3>4 DEF NextHour, ScanStep, ScanType
      <3>5. CASE RemoveSlot
        BY <1>3, <3>5 DEF RemoveSlot, ScanStep, ScanType
      <3>6. CASE RemoveHour
        BY <1>3, <3>6 DEF RemoveHour, ScanStep, ScanType
      <3>7. CASE EndDate
        BY <1>3, <3>7 DEF EndDate, ScanStep, ScanType
      <3> QED
        BY <2>4, <3>1, <3>2, <3>3, <3>4, <3>5, <3>6, <3>7
    <2> QED
      BY <2>1, <2>2, <2>3, <2>4 DEF Scan
  <1>5. QueuedIsFiled'
    BY <1>1, <1>4 DEF QueuedIsFiled
  <1>6. WorkersFit'
    <2>1. CASE ReadSlot
      <3>1. worker' = [w \in Workers |-> [worker[w] EXCEPT !.fresh = FALSE]]
        BY <2>1 DEF ReadSlot
      <3>2. ASSUME NEW w \in Workers PROVE Fit(worker[w])'
        <4>1. worker[w] \in WorkerType /\ Fit(worker[w])
          BY DEF TypeOK, WorkersFit
        <4>2. PICK r : r = [worker[w] EXCEPT !.fresh = FALSE]
          OBVIOUS
        <4>3. /\ r.pc = worker[w].pc /\ r.crash = worker[w].crash
              /\ r.raw = worker[w].raw /\ r.dst = worker[w].dst
          BY <4>1, <4>2 DEF WorkerType
        <4>4. Fit(r)'
          BY <1>1, <4>1, <4>3 DEF Fit
        <4> QED
          BY <3>1, <4>2, <4>4 DEF Fit
      <3> QED
        BY <3>2 DEF WorkersFit
    <2>2. CASE Spawn
      <3>1. PICK c \in scan.entries : \E w \in Workers \ Busy : worker' = [worker EXCEPT ![w] = NewWorker(c, scan.path)]
        BY <2>2 DEF Spawn
      <3>2. filed[c] > 0 /\ worker \in [Workers -> WorkerType]
        BY DEF QueuedIsFiled, TypeOK
      <3>3. PICK r : r = NewWorker(c, scan.path)
        OBVIOUS
      <3>4. r.pc = "lstat" /\ r.crash = c /\ r.raw = "good"
        BY <3>3 DEF NewWorker
      <3>5. Fit(r)'
        BY <1>1, <3>2, <3>4 DEF Fit
      <3>6. \A w \in Workers : worker'[w] = worker[w] \/ \E s : worker'[w] = s /\ Fit(s)'
        BY <3>1, <3>2, <3>3, <3>5
      <3> QED
        BY <1>2, <3>6, WorkersKept
    <2>3. CASE UNCHANGED worker
      BY <1>2, <2>3, WorkersKept
    <2> QED
      BY <2>1, <2>2, <2>3
      DEF Scan, Restart, ReadDate, ReadRoot, NextDate, NextHour, NextMinute,
          RemoveSlot, RemoveHour, EndDate, EndRound, ScanStep
  <1> QED
    BY <1>2, <1>5, <1>6

-----------------------------------------------------------------------------
(* The goroutines, and the death of the processor. *)

\* The processor's death ends its goroutines and their saves.
LEMMA DownKeepsInv ==
  ASSUME TypeOK, QueuedIsFiled, WorkersFit, FilesFit, ProcessorDown,
         UNCHANGED <<store, links, filed, born, answered, indexed, config>>
  PROVE  QueuedIsFiled' /\ WorkersFit' /\ FilesFit'
  <1>1. /\ \A w \in Workers : worker'[w].pc = "idle"
        /\ \A q \in Savers : call'[q] = call[q] \/ call'[q].pc = "idle"
        /\ scan'.entries = {}
    BY DEF ProcessorDown, IdleWorker, IdleCall, NewScan
  <1>2. FilesFit' /\ Grows
    BY <1>1, OnlyEndsKeeps
  <1>3. WorkersFit'
    BY <1>1, <1>2, WorkersKept
  <1>4. QueuedIsFiled'
    BY <1>1 DEF QueuedIsFiled
  <1> QED
    BY <1>2, <1>3, <1>4

\* What one goroutine's step comes to: it changes its own record, begins at most one save
\* of its crash, takes at most links off the queue, and removes or indexes at most its crash.
WorkerMoves(w) ==
    /\ UNCHANGED <<filed, born, answered, config>> /\ scan' = scan /\ links' \subseteq links
    /\ indexed' \subseteq indexed \cup {Crash(w)} /\ indexed \subseteq indexed'
    /\ \A c \in Crashes : c \notin indexed => store'[c].raw = store[c].raw
    /\ \A q \in Savers : Saves(q)' => call'[q] = call[q] \/ Begins(q)
    /\ \E r : Fit(r)' /\ worker' = [worker EXCEPT ![w] = r]

\* Such a step keeps the invariant.
LEMMA WorkerMovesKeeps ==
  ASSUME TypeOK, QueuedIsFiled, WorkersFit, FilesFit, NEW w \in Workers, ~At(w, "idle"), WorkerMoves(w)
  PROVE  QueuedIsFiled' /\ WorkersFit' /\ FilesFit'
  <1>1. worker \in [Workers -> WorkerType] /\ Crash(w) \in Crashes /\ filed[Crash(w)] > 0
    BY DEF TypeOK, WorkersFit, Fit, At, Crash
  <1>2. Grows
    BY DEF Grows, WorkerMoves
  <1>3. \A v \in Workers : worker'[v] = worker[v] \/ \E r : worker'[v] = r /\ Fit(r)'
    BY <1>1 DEF WorkerMoves
  <1>4. WorkersFit'
    BY <1>2, <1>3, WorkersKept
  <1>5. QueuedIsFiled'
    BY DEF QueuedIsFiled, WorkerMoves
  <1>6. \A q \in Savers : Saves(q)' => GoesOn(q) \/ Begins(q)
    BY DEF WorkerMoves, GoesOn, Saves, AtCall
  <1>7. FilesKept
    BY <1>1, <1>2, <1>6 DEF FilesKept, WorkerMoves
  <1> QED
    BY <1>4, <1>5, <1>7, FilesKeptFit

\* Reading and storing, up to the end of the destinations.
LEMMA StoringMoves ==
  ASSUME TypeOK, Backed, QueuedIsFiled, WorkersFit, FilesFit, NEW w \in Workers,
         \/ Lstat(w) \/ Stat(w) \/ RemoveLink(w, "unlink", "unlink again") \/ RemoveLink(w, "unlink again", "getraw")
         \/ GetRaw(w) \/ GetDumps(w) \/ SaveProcessed(w) \/ SaveRawCrash(w) \/ StoredInFs(w)
  PROVE  WorkerMoves(w) \/ (ProcessorDown /\ UNCHANGED <<store, links, filed, born, answered, indexed, config>>)
  <1>1. /\ call \in [Savers -> CallType] /\ worker \in [Workers -> WorkerType] /\ worker[w] \in WorkerType
        /\ w \in Savers /\ ~At(w, "idle") /\ Crash(w) \in Crashes
        /\ Fit(worker[w]) /\ filed[Crash(w)] > 0
        /\ worker[w].raw = "good" \/ config.saveRaw \/ Crash(w) \in indexed
    BY DEF TypeOK, Savers, WorkersFit, Fit, At, Crash, Lstat, Stat, RemoveLink, GetRaw, GetDumps,
           SaveProcessed, SaveRawCrash, StoredInFs
  <1>2. /\ UNCHANGED <<filed, born, answered, config, store, indexed>> /\ links' \subseteq links
        /\ Lstat(w) \/ Stat(w) \/ GetDumps(w) => UNCHANGED links
    BY DEF InWork, fixed, Unlinked, Lstat, Stat, RemoveLink, GetRaw, GetDumps, SaveProcessed, SaveRawCrash, StoredInFs
  <1>3. Grows
    BY <1>2 DEF Grows
  <1>4. /\ config.dst \in Seq(Storages) /\ Len(config.dst) \in Nat
        /\ DOMAIN config.dst = 1 .. Len(config.dst)
    <2>1. config.dst \in Seq(Storages)
      BY ConfigAssumption DEF TypeOK
    <2> QED
      BY <2>1, SeqDomain
  <1>5. ASSUME NEW r, Fit(r)', WorkerTo(w, r), UNCHANGED scan,
               call' = call \/ \E f \in {"report", "raw"} : \E x :
                                 StartCall(w, Crash(w), f, x) /\ (f = "raw" => config.saveRaw)
        PROVE  WorkerMoves(w)
    <2>1. \A q \in Savers : Saves(q)' => call'[q] = call[q] \/ Begins(q)
      <3>1. CASE call' = call
        BY <3>1
      <3>2. ASSUME NEW f \in {"report", "raw"}, NEW x, StartCall(w, Crash(w), f, x), f = "raw" => config.saveRaw
            PROVE  \A q \in Savers : call'[q] = call[q] \/ Begins(q)
        <4>1. /\ \A q \in Savers : q # w => call'[q] = call[q]
              /\ call'[w].pc = "truncate" /\ call'[w].crash = Crash(w) /\ call'[w].file = f
          BY <1>1, <3>2 DEF StartCall, NewCall
        <4>2. Begins(w)
          BY <1>1, <3>2, <4>1 DEF Begins, AtCall
        <4> QED
          BY <4>1, <4>2
      <3> QED
        BY <1>5, <3>1, <3>2
    <2>2. \A c \in Crashes : store'[c].raw = store[c].raw
      BY <1>2
    <2>3. indexed' \subseteq indexed \cup {Crash(w)} /\ indexed \subseteq indexed'
      BY <1>2
    <2>4. \E s : Fit(s)' /\ worker' = [worker EXCEPT ![w] = s]
      BY <1>5 DEF WorkerTo
    <2> QED
      BY <1>2, <1>5, <2>1, <2>2, <2>3, <2>4 DEF WorkerMoves
  <1>6. ASSUME NEW pc \in {"stat", "unlink", "unlink again", "getraw"},
               NEW r, r = [worker[w] EXCEPT !.pc = pc]
        PROVE  Fit(r)'
    <2>1. r.pc = pc /\ r.crash = Crash(w) /\ r.raw = worker[w].raw /\ r.dst = worker[w].dst
      BY <1>1, <1>6 DEF WorkerType, Crash
    <2> QED
      BY <1>1, <1>2, <2>1 DEF Fit
  <1>7. CASE Lstat(w) \/ Stat(w)
    <2>1. PICK r : \E pc \in {"stat", "unlink"} : r = [worker[w] EXCEPT !.pc = pc] /\ (ProcessorDown \/ (WorkerTo(w, r) /\ UNCHANGED <<call, scan>>))
      BY <1>7 DEF Lstat, Stat, GoOnIf
    <2>2. Fit(r)'
      BY <1>6, <2>1
    <2> QED
      BY <1>2, <1>5, <1>7, <2>1, <2>2
  <1>8. CASE RemoveLink(w, "unlink", "unlink again") \/ RemoveLink(w, "unlink again", "getraw")
    <2>1. PICK r : /\ \E pc \in {"unlink again", "getraw"} : r = [worker[w] EXCEPT !.pc = pc]
                   /\ WorkerTo(w, r) /\ UNCHANGED <<call, scan>>
      BY <1>8 DEF RemoveLink, Move
    <2>2. Fit(r)'
      BY <1>6, <2>1
    <2> QED
      BY <1>5, <2>1, <2>2
  <1>9. CASE GetRaw(w)
    <2>1. PICK r : r = [worker[w] EXCEPT !.pc = "getdumps", !.raw = GetRawCrash(Crash(w))]
      OBVIOUS
    <2>2. r.pc = "getdumps" /\ r.crash = Crash(w) /\ r.raw = GetRawCrash(Crash(w))
      BY <1>1, <2>1 DEF WorkerType, Crash
    <2>3. r.raw = "good" \/ config.saveRaw \/ Crash(w) \in indexed
      BY <1>1, <2>2 DEF FilesFit, SavedIsIntact, Intact, GetRawCrash
    <2>4. Fit(r)'
      BY <1>1, <1>2, <2>2, <2>3 DEF Fit
    <2> QED
      BY <1>5, <1>9, <2>1, <2>4 DEF GetRaw
  <1>10. CASE GetDumps(w)
    <2>1. PICK r : r = AfterDestination(w, 0)
      OBVIOUS
    <2>2. 0 \in 0 .. Len(config.dst) /\ UNCHANGED filed
          /\ \A j \in 1 .. 0 : config.dst[j] = "es" => Crash(w) \in indexed'
      BY <1>2, <1>4, Positions
    <2>3. Fit(r)'
      BY <1>1, <1>3, <2>1, <2>2, AfterDestinationFits
    <2> QED
      BY <1>2, <1>5, <1>10, <2>1, <2>3 DEF GetDumps, GoOnIf
  <1>11. CASE SaveProcessed(w)
    <2>1. PICK r : r = [worker[w] EXCEPT !.pc = "processed"]
      OBVIOUS
    <2>2. r.pc = "processed" /\ r.crash = Crash(w) /\ r.raw = worker[w].raw /\ r.dst = worker[w].dst
      BY <1>1, <2>1 DEF WorkerType, Crash
    <2>3. worker[w].pc = "store" /\ config.dst[worker[w].dst] = "fs"
      BY <1>11 DEF SaveProcessed, At, Destination
    <2>4. Fit(r)'
      BY <1>1, <1>2, <2>2, <2>3 DEF Fit, Crash
    <2>5. WorkerTo(w, r) /\ UNCHANGED scan /\ (call' = call \/ StartCall(w, Crash(w), "report", "good"))
      BY <1>11, <2>1 DEF SaveProcessed, Move
    <2> QED
      BY <1>5, <2>4, <2>5
  <1>12. CASE SaveRawCrash(w)
    <2>1. PICK r : r = [worker[w] EXCEPT !.pc = "saved"]
      OBVIOUS
    <2>2. r.pc = "saved" /\ r.crash = Crash(w) /\ r.raw = worker[w].raw /\ r.dst = worker[w].dst
      BY <1>1, <2>1 DEF WorkerType, Crash
    <2>3. worker[w].pc = "processed"
      BY <1>12 DEF SaveRawCrash, At
    <2>4. Fit(r)'
      BY <1>1, <1>2, <2>2, <2>3 DEF Fit, Crash
    <2>5. WorkerTo(w, r) /\ UNCHANGED scan /\ StartCall(w, Crash(w), "raw", worker[w].raw) /\ config.saveRaw
      BY <1>12, <2>1 DEF SaveRawCrash, Move
    <2> QED
      BY <1>5, <2>4, <2>5
  <1>13. CASE StoredInFs(w)
    <2>1. PICK r : r = AfterDestination(w, worker[w].dst)
      OBVIOUS
    <2>2. worker[w].pc \in {"processed", "saved"}
      BY <1>13 DEF StoredInFs, At
    <2>3. /\ worker[w].dst \in 1 .. Len(config.dst) /\ config.dst[worker[w].dst] = "fs"
          /\ \A i \in 1 .. worker[w].dst - 1 : config.dst[i] = "es" => Crash(w) \in indexed
      BY <1>1, <1>4, <2>2 DEF Fit, Crash
    <2>4. \A i \in 1 .. worker[w].dst : config.dst[i] = "es" => Crash(w) \in indexed'
      <3>1. \A i \in 1 .. worker[w].dst : i = worker[w].dst \/ i \in 1 .. worker[w].dst - 1
        BY <1>4, <2>3, Positions
      <3> QED
        BY <1>2, <2>3, <3>1
    <2>5. worker[w].dst \in 0 .. Len(config.dst)
      BY <1>4, <2>3, Positions
    <2>6. Fit(r)'
      BY <1>1, <1>2, <1>3, <2>1, <2>4, <2>5, AfterDestinationFits
    <2> QED
      BY <1>5, <1>13, <2>1, <2>6 DEF StoredInFs
  <1> QED
    BY <1>7, <1>8, <1>9, <1>10, <1>11, <1>12, <1>13

\* Storing in Elasticsearch: it takes the crash for certain.
LEMMA IndexMoves ==
  ASSUME TypeOK, Backed, QueuedIsFiled, WorkersFit, FilesFit, NEW w \in Workers,
         NEW dated \in {TRUE, ~Faults}, Index(w, dated)
  PROVE  WorkerMoves(w)
  <1>1. /\ worker[w] \in WorkerType /\ ~At(w, "idle") /\ worker[w].pc = "store" /\ Crash(w) \in Crashes
        /\ Fit(worker[w]) /\ filed[Crash(w)] > 0
        /\ worker[w].raw = "good" \/ config.saveRaw \/ Crash(w) \in indexed
    BY DEF TypeOK, WorkersFit, Fit, At, Crash, Index
  <1>2. UNCHANGED <<filed, born, answered, config, store, links, call, scan>>
    BY DEF InWork, fixed, Index
  <1>3. /\ config.dst \in Seq(Storages) /\ Len(config.dst) \in Nat
        /\ DOMAIN config.dst = 1 .. Len(config.dst)
    <2>1. config.dst \in Seq(Storages)
      BY ConfigAssumption DEF TypeOK
    <2> QED
      BY <2>1, SeqDomain
  <1>4. /\ indexed \subseteq indexed' /\ indexed' \subseteq indexed \cup {Crash(w)}
        /\ Crash(w) \in indexed'
    <2>1. CASE config.saveRaw
      <3>1. dated = TRUE
        BY <2>1, SpoolAssumption DEF Backed
      <3> QED
        BY <2>1, <3>1 DEF Index
    <2>2. CASE ~config.saveRaw
      BY <1>1, <2>2 DEF Index
    <2> QED
      BY <2>1, <2>2
  <1>5. Grows
    BY <1>2, <1>4 DEF Grows
  <1>6. PICK r : r = AfterDestination(w, worker[w].dst)
    OBVIOUS
  <1>7. worker[w].dst \in 0 .. Len(config.dst)
    BY <1>1, <1>3 DEF Fit
  <1>8. Fit(r)'
    BY <1>1, <1>2, <1>4, <1>5, <1>6, <1>7, AfterDestinationFits
  <1>9. worker' = [worker EXCEPT ![w] = r]
    BY <1>6 DEF Index, WorkerTo
  <1> QED
    BY <1>2, <1>4, <1>8, <1>9 DEF WorkerMoves

\* Removing: the crash is indexed.
LEMMA RemoveMoves ==
  ASSUME TypeOK, WorkersFit, NEW w \in Workers,
         RemoveBack(w) \/ (\E f \in {"raw", "report"} : RemoveFile(w, f)) \/ RemoveDir(w)
  PROVE  WorkerMoves(w)
  <1>1. /\ worker \in [Workers -> WorkerType] /\ worker[w] \in WorkerType
        /\ worker[w].pc \in {"rmback", "rmall"} /\ Crash(w) \in Crashes
        /\ Fit(worker[w]) /\ filed[Crash(w)] > 0 /\ Crash(w) \in indexed
        /\ store \in [Crashes -> [raw : FileState, report : FileState, back : BOOLEAN]]
    BY DEF TypeOK, WorkersFit, Fit, At, Crash, RemoveBack, RemoveFile, RemoveDir
  <1>2. UNCHANGED <<filed, born, answered, config, links, call, scan, indexed>>
    BY DEF InWork, fixed, RemoveBack, RemoveFile, RemoveDir
  <1>3. \A c \in Crashes : c \notin indexed => store'[c].raw = store[c].raw
    BY <1>1 DEF RemoveBack, RemoveFile, RemoveDir, Put
  <1>4. PICK r : worker' = [worker EXCEPT ![w] = r] /\ (r = worker[w] \/ r = IdleWorker \/ r = [worker[w] EXCEPT !.pc = "rmall"])
    <2>1. [worker EXCEPT ![w] = worker[w]] = worker
      BY <1>1
    <2> QED
      BY <2>1 DEF RemoveBack, RemoveFile, RemoveDir, WorkerTo, Move
  <1>5. r.pc = "idle" \/ (r.pc \in {"rmback", "rmall"} /\ r.crash = Crash(w) /\ r.raw = worker[w].raw)
    <2>1. CASE r = worker[w]
      BY <1>1, <2>1 DEF Crash
    <2>2. CASE r = IdleWorker
      BY <2>2 DEF IdleWorker
    <2>3. CASE r = [worker[w] EXCEPT !.pc = "rmall"]
      BY <1>1, <2>3 DEF WorkerType, Crash
    <2> QED
      BY <1>4, <2>1, <2>2, <2>3
  <1>6. Fit(r)'
    BY <1>1, <1>2, <1>5 DEF Fit
  <1> QED
    BY <1>2, <1>3, <1>4, <1>6 DEF WorkerMoves

\* Every step of a goroutine.
LEMMA ProcessKeepsInv ==
  ASSUME TypeOK, Backed, QueuedIsFiled, WorkersFit, FilesFit, NEW w \in Workers, Process(w)
  PROVE  QueuedIsFiled' /\ WorkersFit' /\ FilesFit'
  <1>1. ~At(w, "idle")
    BY DEF Process, At, Lstat, Stat, RemoveLink, GetRaw, GetDumps, SaveProcessed, SaveRawCrash, StoredInFs,
           Index, RemoveBack, RemoveFile, RemoveDir
  <1>2. CASE ProcessorDown /\ UNCHANGED <<store, links, filed, born, answered, indexed, config>>
    BY <1>2, DownKeepsInv
  <1>3. CASE WorkerMoves(w)
    BY <1>1, <1>3, WorkerMovesKeeps
  <1> QED
    BY <1>2, <1>3, StoringMoves, IndexMoves, RemoveMoves DEF Process

-----------------------------------------------------------------------------
\* At the start nothing is queued, saved or indexed.
LEMMA InitRemoval == Init => RemovalInv
  <1> SUFFICES ASSUME Init PROVE RemovalInv
    OBVIOUS
  <1>1. QueuedIsFiled /\ WorkersFit
    BY DEF Init, QueuedIsFiled, WorkersFit, Fit, IdleWorker, NewScan
  <1>2. FilesFit
    BY DEF Init, FilesFit, SavedIsIntact, SavesFit, SaveFits, OneFirstSave, UnbornIsNew, Saves, AtCall, IdleCall
  <1> QED
    BY <1>1, <1>2, InitType DEF RemovalInv

\* Every step keeps the inductive invariant.
LEMMA NextRemoval == RemovalInv /\ [Next]_vars => RemovalInv'
  <1> SUFFICES ASSUME RemovalInv, [Next]_vars PROVE RemovalInv'
    OBVIOUS
  <1>1. TypeOK /\ TypeOK'
    BY NextType DEF RemovalInv
  <1>2. Backed' => Backed
    BY NextKeepsConfig DEF Backed
  <1>3. ASSUME Backed PROVE (QueuedIsFiled /\ WorkersFit /\ FilesFit)'
    <2>1. QueuedIsFiled /\ WorkersFit /\ FilesFit
      BY <1>3 DEF RemovalInv
    <2>2. ASSUME NEW p \in Handlers, NEW c \in Crashes, Submit(p, c) \/ Reprocess(p, c)
          PROVE  (QueuedIsFiled /\ WorkersFit /\ FilesFit)'
      BY <1>1, <1>3, <2>1, <2>2, SubmitKeepsInv, ReprocessKeepsInv
    <2>3. ASSUME NEW p \in Savers, Save(p) PROVE (QueuedIsFiled /\ WorkersFit /\ FilesFit)'
      BY <1>1, <1>3, <2>1, <2>3, SaveKeepsInv
    <2>4. CASE (\E p \in Handlers : Abort(p)) \/ Tick
      BY <1>1, <2>1, <2>4, AbortKeepsInv
    <2>5. ASSUME NEW w \in Workers, Process(w) PROVE (QueuedIsFiled /\ WorkersFit /\ FilesFit)'
      BY <1>1, <1>3, <2>1, <2>5, ProcessKeepsInv
    <2>6. CASE Scan \/ Restart
      BY <1>1, <2>1, <2>6, ScannerKeepsInv
    <2>7. CASE ProcessorDies
      <3>1. ProcessorDown /\ UNCHANGED <<store, links, filed, born, answered, indexed, config>>
        BY <2>7 DEF ProcessorDies, InWork, fixed
      <3> QED
        BY <1>1, <2>1, <3>1, DownKeepsInv
    <2>8. CASE UNCHANGED vars
      <3>1. /\ UNCHANGED <<store, links, filed, born, answered, indexed, config, scan, worker>>
            /\ UNCHANGED call
        BY <2>8 DEF vars, files, history, fixed
      <3>2. FilesFit' /\ Grows
        BY <1>1, <2>1, <3>1, OnlyEndsKeeps
      <3>3. WorkersFit' /\ QueuedIsFiled'
        BY <1>1, <2>1, <3>1, <3>2, WorkersKept DEF QueuedIsFiled
      <3> QED
        BY <3>2, <3>3
    <2> QED
      BY <2>2, <2>3, <2>4, <2>5, <2>6, <2>7, <2>8 DEF Next
  <1> QED
    BY <1>1, <1>2, <1>3 DEF RemovalInv

\* Where every configuration that removes raw crashes stores into Elasticsearch, and only
\* search hits are reprocessed, a crash that was answered and is gone from the spool is in
\* Elasticsearch, whatever saves, goroutines, deaths and restarts come together.
THEOREM SpoolRemovedIsIndexed ==
  ASSUME ReprocessesHits, \A cf \in Configs : cf.removeRaw => \E i \in DOMAIN cf.dst : cf.dst[i] = "es"
  PROVE  Spec => []RemovedIsIndexed
  <1>1. RemovalInv => RemovedIsIndexed
    <2> SUFFICES ASSUME RemovalInv, NEW c \in answered, store[c].raw = "absent", ~(config.saveRaw /\ Faults)
                 PROVE  c \in indexed
      BY DEF RemovedIsIndexed
    <2>1. c \in Crashes /\ config \in Configs
      BY DEF RemovalInv, TypeOK
    <2>2. Backed
      BY <2>1 DEF Backed
    <2>3. c \notin indexed => Intact(c)
      BY <2>1, <2>2 DEF RemovalInv, FilesFit, SavedIsIntact
    <2> QED
      BY <2>3 DEF Intact
  <1> QED
    BY <1>1, InitRemoval, NextRemoval, PTL DEF Spec
===========================================================================
