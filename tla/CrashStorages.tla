--------------------------- MODULE CrashStorages ---------------------------
(***************************************************************************)
(* One crash in all storages: what the collector, the processor and the    *)
(* webapp put into the filesystem, S3 and Elasticsearch, and what they get *)
(* back.  Every file, key and document carries the crash id, so crashes do *)
(* not meet.  A composed storage calls its members one after the other,    *)
(* and they share the report, a map that a member may change.  A call of a *)
(* storage is one step; CrashSpool takes those of the filesystem apart.    *)
(***************************************************************************)
EXTENDS Naturals, Sequences, FiniteSets

CONSTANTS
    DumpNames,    \* form fields that may carry a dump
    Minidump,     \* "upload_file_minidump"
    Minidumps,    \* the fields with that prefix
    DumpField,    \* storage.fs.dump_field
    Configs,      \* configurations of collector, processor and webapp
    MaxWeek,      \* bound: the clock, in weeks
    MaxReprocess, \* bound: reprocess requests
    Refusals      \* S3 and Elasticsearch may refuse a call

Undated == 0
Nothing == ""

ASSUME StoragesAssumption ==
    /\ {Minidump} \subseteq Minidumps /\ Minidumps \subseteq DumpNames
    /\ DumpField \in DumpNames /\ Nothing \notin DumpNames
    /\ MaxWeek \in Nat \ {0} /\ MaxReprocess \in Nat /\ Refusals \in BOOLEAN

\* collector.storage.classes, destination_storage, save_raw_dump, remove_raw_dump and
\* webapp.crashstorage.  An unknown name gives the null storage.
ASSUME ConfigAssumption == \A cf \in Configs :
    /\ {cf.classes, cf.dst} \subseteq Seq({"fs", "s3", "es", "null"})
    /\ {cf.saveRaw, cf.removeRaw} \subseteq BOOLEAN /\ cf.web \in {"fs", "s3"}

VARIABLES
    config, week,
    submitted, \* the dumps of the upload
    walk,      \* the crash time the stackwalker finds in a minidump, or Undated
    kept,      \* what the filesystem and S3 hold
    docs,      \* the indices (weeks) with a document of the crash
    queued,    \* the forward link
    backLink,  \* the back link: the crash is not queued again
    task,      \* the running save of each process
    purge,     \* the webapp's delete: the indices it has still to visit
    deleted,   \* history: "no", "deleted", or "back" when indexed again
    spared,    \* history: the documents that the last delete was refused
    refused,   \* history: a call was refused
    reprocessed

vars == <<config, week, walk, submitted, kept, docs, queued, backLink, task, purge, deleted,
          spared, refused, reprocessed>>

Processes == {"collector", "webapp", "worker"}

NoReport == [dump |-> Nothing, date |-> Undated]
Idle     == [op |-> "idle", todo |-> <<>>, dumps |-> <<>>, report |-> NoReport]
NotHeld  == [raw |-> FALSE, dumps |-> <<>>, processed |-> FALSE, report |-> NoReport]

Save(op, classes, dumps, report) == [op |-> op, todo |-> classes, dumps |-> dumps, report |-> report]

\* The collector has read the form (getRawCrashFromForm) and begins to save.
Init ==
    /\ config \in Configs /\ week = 1
    /\ submitted \in SUBSET DumpNames /\ walk \in [submitted \cap Minidumps -> Undated .. MaxWeek]
    /\ kept = [s \in {"fs", "s3"} |-> NotHeld]
    /\ docs = {} /\ queued = FALSE /\ backLink = FALSE
    /\ task = [p \in Processes |-> IF p = "collector"
                                  THEN Save("SaveRawCrash", config.classes, [n \in submitted |-> n], NoReport)
                                  ELSE Idle]
    /\ purge = {} /\ deleted = "no" /\ spared = {} /\ refused = FALSE /\ reprocessed = 0

-----------------------------------------------------------------------------
(* Names.  A dump is given by the field it was uploaded in; a mapping gives the *)
(* dump behind each name.                                                       *)

\* getDumpFileName: the configured field goes into the file without a name.
FileOf(n) == IF n = DumpField THEN Nothing ELSE n

KeepName(f) == f

\* dumpNameFromPath.
NameOf(f) == IF f = Nothing THEN DumpField ELSE f

Named(dumps, name) == [m \in {name[n] : n \in DOMAIN dumps} |-> dumps[CHOOSE n \in DOMAIN dumps : name[n] = m]]

Files(dumps) == Named(dumps, [n \in DOMAIN dumps |-> FileOf(n)])

\* A key has the name of its dump only if there are several dumps.
S3Keys(dumps) == Named(dumps, [n \in DOMAIN dumps |-> IF Cardinality(DOMAIN dumps) > 1 THEN n ELSE Nothing])

\* GetRawDumps, as a set without or with one mapping.  S3 looks for the key without a name.
GetRawDumps(s) ==
    IF s = "fs" THEN {Named(kept.fs.dumps, [f \in DOMAIN kept.fs.dumps |-> NameOf(f)])}
    ELSE {[n \in {Minidump} |-> kept.s3.dumps[k]] : k \in DOMAIN kept.s3.dumps \cap {Nothing}}

-----------------------------------------------------------------------------
(* Saves. *)

SavesRaw(op)    == op \in {"SaveRawCrash", "SaveRawAndProcessed"}
SavesReport(op) == op \in {"SaveProcessed", "SaveRawAndProcessed"}

Target(p)   == IF task[p].todo = <<>> THEN Nothing ELSE Head(task[p].todo)
Advance(p, report) == task' = [task EXCEPT ![p].todo = Tail(@), ![p].report = report]

\* What is stored again replaces what is there under the same name.
Overwritten(old, new) == [n \in DOMAIN old \cup DOMAIN new |-> IF n \in DOMAIN new THEN new[n] ELSE old[n]]

With(held, t, names, lost) ==
    [raw       |-> held.raw \/ (SavesRaw(t.op) /\ "raw" \notin lost),
     dumps     |-> IF SavesRaw(t.op) /\ "dumps" \notin lost THEN Overwritten(held.dumps, names) ELSE held.dumps,
     processed |-> held.processed \/ (SavesReport(t.op) /\ "report" \notin lost),
     report    |-> IF SavesReport(t.op) /\ "report" \notin lost THEN t.report ELSE held.report]

Around == UNCHANGED <<config, week, walk, submitted, purge, spared, reprocessed>>

StoreFs(p) ==
    /\ Target(p) = "fs" /\ Advance(p, task[p].report)
    /\ kept' = [kept EXCEPT !.fs = With(@, task[p], Files(task[p].dumps), {})]
    /\ queued' = (queued \/ (SavesRaw(task[p].op) /\ ~backLink))
    /\ backLink' = (backLink \/ SavesRaw(task[p].op))
    /\ UNCHANGED <<docs, deleted, refused>> /\ Around

\* An object that S3 refuses is reported on the console, and the save goes on.
StoreS3(p, lost) ==
    /\ Target(p) = "s3" /\ Advance(p, task[p].report)
    /\ kept' = [kept EXCEPT !.s3 = With(@, task[p], S3Keys(task[p].dumps), lost)]
    /\ refused' = (refused \/ lost # {})
    /\ UNCHANGED <<docs, queued, backLink, deleted>> /\ Around

IndexNow(report) == week

IndexAfter(report) == report.date + 1

\* The index is named by the week of the crash; without a crash_date, by the zero time.
IndexOf(report) == report.date

\* Elasticsearch keeps no raw crash alone.  With the raw crash it drops a report without a
\* date; else it takes the stack out of the report, for itself and for whoever comes next.
StoreEs(p) ==
    /\ Target(p) = "es"
    /\ IF SavesReport(task[p].op) /\ (task[p].op = "SaveProcessed" \/ task[p].report.date # Undated)
       THEN /\ docs' = docs \cup {IndexOf(task[p].report)}
            /\ Advance(p, [task[p].report EXCEPT !.dump = Nothing])
            /\ deleted' = IF deleted = "no" THEN "no" ELSE "back"
       ELSE Advance(p, task[p].report) /\ UNCHANGED <<docs, deleted>>
    /\ UNCHANGED <<kept, queued, backLink, refused>> /\ Around

StoreNull(p) ==
    /\ Target(p) = "null" /\ Advance(p, task[p].report)
    /\ UNCHANGED <<kept, docs, queued, backLink, deleted, refused>> /\ Around

Store(p) ==
    \/ StoreFs(p) \/ StoreEs(p) \/ StoreNull(p)
    \/ \E lost \in {{}} \cup IF Refusals THEN {{"raw"}, {"dumps"}, {"report"}} ELSE {} : StoreS3(p, lost)

Start(p, t) == task[p] = Idle /\ task' = [task EXCEPT ![p] = t]

-----------------------------------------------------------------------------
(* Collector and webapp. *)

\* Without dumps the type assertion panics and nothing is saved.
Reprocess == \E dumps \in GetRawDumps(config.web) :
    /\ kept[config.web].raw /\ reprocessed < MaxReprocess
    /\ Start("webapp", Save("SaveRawCrash", config.classes, dumps, NoReport))
    /\ reprocessed' = reprocessed + 1
    /\ UNCHANGED <<config, week, walk, submitted, kept, docs, queued, backLink, purge, deleted, spared, refused>>

Answer(p) ==
    /\ p \in {"collector", "webapp"} /\ task[p] # Idle /\ task[p].todo = <<>>
    /\ task' = [task EXCEPT ![p] = Idle]
    /\ UNCHANGED <<kept, docs, queued, backLink, deleted, refused>> /\ Around

\* es Remove: the names of all indices, those of other crashes among them, and none if
\* Elasticsearch refuses to tell; then the document in each of them.
Delete(names) ==
    /\ docs # {} /\ purge = {}
    /\ purge' = names /\ refused' = (refused \/ names = {})
    /\ IF names = {} THEN UNCHANGED <<deleted, spared>> ELSE deleted' = "deleted" /\ spared' = {}
    /\ UNCHANGED <<config, week, walk, submitted, kept, docs, queued, backLink, task, reprocessed>>

GiveUp(i) == {}

\* A refused delete is printed, and the next index has its turn.
AfterRefusal(i) == purge \ {i}

\* Whose document it is does not matter: to delete one that is not there is no more than a
\* line on the console.
DeleteFrom(i) ==
    /\ \/ purge' = purge \ {i} /\ docs' = docs \ {i} /\ UNCHANGED <<spared, refused>>
       \/ /\ Refusals /\ refused' = TRUE
          /\ purge' = AfterRefusal(i) /\ spared' = spared \cup (docs \cap {i}) /\ UNCHANGED docs
    /\ UNCHANGED <<config, week, walk, submitted, kept, queued, backLink, task, deleted, reprocessed>>

-----------------------------------------------------------------------------
(* The processor. *)

OnlyMinidump(n) == n = Minidump

IsMinidump(n) == n \in Minidumps

\* A file that is no minidump fails the stackwalker.
Time(d) == IF d \in DOMAIN walk THEN walk[d] ELSE Undated

\* processCrash: the stackwalker runs on every minidump, and the result of the last one
\* stays; the order of the map is random.  Without a crash time the crash is dated now.
Analyses(dumps) ==
    LET minidumps == {n \in DOMAIN dumps : IsMinidump(n)}
    IN  IF minidumps = {} THEN {NoReport}
        ELSE {[dump |-> dumps[n], date |-> IF Time(dumps[n]) = Undated THEN week ELSE Time(dumps[n])]
              : n \in minidumps}

Process == \E dumps \in GetRawDumps("fs") : \E report \in Analyses(dumps) :
    /\ queued /\ queued' = FALSE
    /\ Start("worker", Save(IF config.saveRaw THEN "SaveRawAndProcessed" ELSE "SaveProcessed",
                            config.dst, dumps, report))
    /\ UNCHANGED <<kept, docs, backLink, deleted, refused>> /\ Around

FirstStored(t) == t.op # "idle" /\ (config.dst = <<>> \/ Len(t.todo) < Len(config.dst))

AllStored(t) == t.op # "idle" /\ t.todo = <<>>

\* Remove only after the destinations returned; it takes the directory with its back link.
Finish ==
    /\ AllStored(task["worker"])
    /\ task' = [task EXCEPT !["worker"] = Idle]
    /\ IF config.removeRaw THEN kept' = [kept EXCEPT !.fs = NotHeld] /\ backLink' = FALSE
                           ELSE UNCHANGED <<kept, backLink>>
    /\ UNCHANGED <<docs, queued, deleted, refused>> /\ Around

\* Elasticsearch refuses and the worker panics, which ends the processor.
Panic ==
    /\ Refusals /\ Target("worker") = "es" /\ refused' = TRUE
    /\ task' = [task EXCEPT !["worker"] = Idle]
    /\ UNCHANGED <<kept, docs, queued, backLink, deleted>> /\ Around

NextWeek ==
    /\ week < MaxWeek /\ week' = week + 1
    /\ UNCHANGED <<config, walk, submitted, kept, docs, queued, backLink, task, purge, deleted,
                   spared, refused, reprocessed>>

Next ==
    \/ Reprocess \/ Process \/ Finish \/ Panic \/ NextWeek
    \/ \E p \in Processes : Store(p) \/ Answer(p)
    \/ \E names \in SUBSET (Undated .. MaxWeek) :
          (docs \subseteq names \/ (Refusals /\ names = {})) /\ Delete(names)
    \/ \E i \in purge : DeleteFrom(i)

Spec == Init /\ [][Next]_vars

-----------------------------------------------------------------------------
(* Properties. *)

Reports == [dump : DumpNames \cup {Nothing}, date : Undated .. MaxWeek]

\* Every variable holds what its code counterpart can hold, and a mapping only uploaded dumps.
TypeOK ==
    /\ config \in Configs /\ week \in 1 .. MaxWeek /\ submitted \subseteq DumpNames
    /\ \A s \in {"fs", "s3"} :
          /\ kept[s].raw \in BOOLEAN /\ kept[s].processed \in BOOLEAN /\ kept[s].report \in Reports
          /\ \A k \in DOMAIN kept[s].dumps : kept[s].dumps[k] \in submitted
    /\ docs \subseteq Undated .. MaxWeek /\ {purge, spared} \subseteq SUBSET (Undated .. MaxWeek)
    /\ {queued, backLink, refused} \subseteq BOOLEAN /\ deleted \in {"no", "deleted", "back"}
    /\ \A p \in Processes : task[p].report \in Reports

\* What S3 gives back may be saved to the filesystem again.
NamesLast == submitted = {Minidump} \/ config.web = "fs"

\* Who reads a crash back, from whichever storage holds it, gets the uploaded dumps under
\* their names: from the filesystem however many there are, from S3 a single minidump.
\* Reprocessing a crash that was removed meanwhile brings all of it back.
ReadsBack == \A s \in {"fs", "s3"} :
    (kept[s].raw /\ ~refused /\ NamesLast /\ (s = "s3" => submitted = {Minidump}))
    => GetRawDumps(s) = {[n \in submitted |-> n]}

Before(s, t) == \E i, j \in DOMAIN config.dst : i < j /\ config.dst[i] = s /\ config.dst[j] = t

\* A report in the filesystem or in S3 has the stack of a minidump, unless Elasticsearch
\* comes first among the destinations and has taken it out of the shared map.
ReportKeepsStack == \A s \in {"fs", "s3"} :
    (kept[s].processed /\ ~Before("es", s) /\ submitted \cap Minidumps # {})
    => kept[s].report.dump \in Minidumps

\* Elasticsearch needs no stack; the other storages do.
StoredReportsKeepStack == \A s \in {"fs", "s3"} :
    kept[s].processed /\ submitted \cap Minidumps # {} => kept[s].report.dump # Nothing

InAll == {config.dst[i] : i \in DOMAIN config.dst}

\* With remove_raw_dump the source copy goes only when every destination has what it was
\* given: S3 the raw crash and the report, Elasticsearch a document of every dated crash.
\* Refused calls void this: the console is all that hears of them.
RemovedIsStored ==
    (task["collector"] = Idle /\ ~kept.fs.raw /\ ~refused)
    => /\ "s3" \in InAll => kept.s3.processed /\ (config.saveRaw => kept.s3.raw)
       /\ "es" \in InAll => docs # {} \/ deleted # "no" \/ (config.saveRaw /\ submitted \cap Minidumps = {})

\* A crash of known time has one document, whenever and however often it is processed.
OneDocument ==
    (NamesLast /\ \A m, n \in submitted \cap Minidumps : walk[m] = walk[n] /\ walk[m] # Undated)
    => Cardinality(docs) <= 1

\* After a delete a document is left only where its own delete was refused, until the crash
\* is processed again: no index is left out, and a refusal in one does not spare the others.
DeletedIsGone == deleted = "deleted" /\ purge = {} => docs \subseteq spared
=============================================================================
