------------------------ MODULE CrashStorages_proofs ------------------------
(* What the storages have of a crash: what a delete that runs index by     *)
(* index and remove_raw_dump leave of it, what is read back, what a report  *)
(* keeps, and where its document is, for any configurations, uploads,       *)
(* weeks, outages and reprocess requests.                                   *)
EXTENDS CrashStorages, TLAPS, FiniteSetTheorems

-----------------------------------------------------------------------------
(* The delete. *)

\* What the delete has not reached yet is on its list, and what it was refused is recorded,
\* unless the crash was indexed again.
OnTheList == deleted = "deleted" => docs \subseteq purge \cup spared

\* A storage that takes the crash indexes it at most, and then it is back.
LEMMA StoreKeepsList == ASSUME OnTheList, NEW p \in Processes, Store(p) PROVE OnTheList'
  <1>1. CASE StoreEs(p)
    BY <1>1 DEF StoreEs, Around, OnTheList
  <1>2. CASE UNCHANGED <<docs, purge, deleted, spared>>
    BY <1>2 DEF OnTheList
  <1> QED
    BY <1>1, <1>2 DEF Store, StoreFs, StoreS3, StoreNull, Around

\* The list has every index with a document; the list of a delete that was refused is empty,
\* and is made only when no delete succeeded since the crash was indexed.
LEMMA DeleteKeepsList ==
  ASSUME OnTheList, NEW names, docs \subseteq names \/ names = {}, Delete(names) PROVE OnTheList'
  <1>1. CASE names = {}
    BY <1>1 DEF OnTheList, Delete
  <1>2. CASE names # {}
    BY <1>2 DEF OnTheList, Delete
  <1> QED
    BY <1>1, <1>2

\* An index that refuses keeps its document, which is recorded, and leaves the others on the list.
LEMMA DeleteFromKeepsList == ASSUME OnTheList, NEW i \in purge, DeleteFrom(i) PROVE OnTheList'
  <1>1. CASE purge' = purge \ {i} /\ docs' = docs \ {i} /\ UNCHANGED spared
    BY <1>1 DEF DeleteFrom, OnTheList
  <1>2. CASE purge' = AfterRefusal(i) /\ spared' = spared \cup (docs \cap {i}) /\ UNCHANGED docs
    BY <1>2 DEF DeleteFrom, AfterRefusal, OnTheList
  <1> QED
    BY <1>1, <1>2 DEF DeleteFrom

\* When a delete has visited every index, a document of the crash is left only where the index
\* itself refused to delete it, whatever was stored, refused or requested in between, until the
\* crash is indexed again.
THEOREM StoragesDeletedIsGone == Spec => []DeletedIsGone
  <1>1. Init => OnTheList
    BY DEF Init, OnTheList
  <1>2. OnTheList /\ [Next]_vars => OnTheList'
    <2> SUFFICES ASSUME OnTheList, [Next]_vars PROVE OnTheList'
      OBVIOUS
    <2>1. ASSUME NEW p \in Processes, Store(p) PROVE OnTheList'
      BY <2>1, StoreKeepsList
    <2>2. ASSUME NEW names, docs \subseteq names \/ names = {}, Delete(names) PROVE OnTheList'
      BY <2>2, DeleteKeepsList
    <2>3. ASSUME NEW i \in purge, DeleteFrom(i) PROVE OnTheList'
      BY <2>3, DeleteFromKeepsList
    <2>4. CASE \/ Reprocess \/ Process \/ Finish \/ Panic \/ NextWeek \/ UNCHANGED vars
               \/ \E p \in Processes : Answer(p)
      BY <2>4 DEF Reprocess, Process, Finish, Panic, NextWeek, Answer, Around, vars, OnTheList
    <2> QED
      BY <2>1, <2>2, <2>3, <2>4 DEF Next
  <1>3. OnTheList => DeletedIsGone
    BY DEF OnTheList, DeletedIsGone
  <1> QED
    BY <1>1, <1>2, <1>3, PTL DEF Spec

-----------------------------------------------------------------------------
(* The shape of the state. *)

Classes == {"fs", "s3", "es", "null"}

IsReport(r) == r \in [dump : {r.dump}, date : {r.date}]
IsTask(t)   == IsReport(t.report) /\ t \in [op : {t.op}, todo : Seq(Classes), dumps : {t.dumps}, report : {t.report}]
IsHeld(h)   == h \in [raw : {h.raw}, dumps : {h.dumps}, processed : {h.processed}, report : {h.report}]

ShapeOK == /\ config \in Configs /\ week \in Nat \ {0}
           /\ DOMAIN task = Processes /\ \A p \in Processes : IsTask(task[p])
           /\ task = [p \in Processes |-> task[p]]
           /\ kept = [s \in {"fs", "s3"} |-> kept[s]] /\ \A s \in {"fs", "s3"} : IsHeld(kept[s])

\* A process that starts on a task, and one that ends.
LEMMA TaskShape ==
  ASSUME ShapeOK, NEW p \in Processes, NEW t, IsTask(t), task' = [task EXCEPT ![p] = t]
  PROVE  /\ task'[p] = t /\ \A q \in Processes : q # p => task'[q] = task[q]
         /\ DOMAIN task' = Processes /\ (\A q \in Processes : IsTask(task'[q]))
         /\ task' = [q \in Processes |-> task'[q]]
  BY DEF ShapeOK

\* A storage has done its part of a save.
LEMMA AdvanceShape ==
  ASSUME ShapeOK, NEW p \in Processes, NEW report, Target(p) # Nothing, Advance(p, report), IsReport(report)
  PROVE  \E t : /\ IsTask(t) /\ task' = [task EXCEPT ![p] = t]
                /\ t.op = task[p].op /\ t.todo = Tail(task[p].todo) /\ t.dumps = task[p].dumps /\ t.report = report
  <1>1. task[p].todo \in Seq(Classes) /\ task[p].todo # <<>> /\ IsTask(task[p])
    BY DEF ShapeOK, IsTask, Target
  <1>2. Tail(task[p].todo) \in Seq(Classes)
    BY <1>1
  <1> DEFINE t == [task[p] EXCEPT !.todo = Tail(task[p].todo), !.report = report]
  <1>3. t.op = task[p].op /\ t.todo = Tail(task[p].todo) /\ t.dumps = task[p].dumps /\ t.report = report
    BY <1>1 DEF IsTask
  <1>4. t \in [op : {task[p].op}, todo : Seq(Classes), dumps : {task[p].dumps}, report : {report}]
    BY <1>1, <1>2 DEF IsTask
  <1>5. task' = [task EXCEPT ![p] = t]
    BY DEF Advance
  <1> HIDE DEF t
  <1>6. IsTask(t)
    BY <1>3, <1>4 DEF IsTask
  <1> QED
    BY <1>3, <1>5, <1>6

-----------------------------------------------------------------------------
(* The inductive invariant of what remove_raw_dump relies on.  A crash with a       *)
(* minidump is read back with one, so that the worker dates it; and every           *)
(* destination is still to come or has what it was given.                           *)

HasMinidump(names) == \E n \in names : n \in Minidumps

OpsOK ==
    /\ \A p \in {"collector", "webapp"} : task[p].op \in {"idle", "SaveRawCrash"}
    /\ task["worker"].op \in {"idle", IF config.saveRaw THEN "SaveRawAndProcessed" ELSE "SaveProcessed"}
    /\ \A p \in Processes : task[p].op = "idle" => task[p].todo = <<>>

MinidumpStays ==
    /\ HasMinidump(submitted) =>
         /\ \A p \in Processes : SavesRaw(task[p].op) => HasMinidump(DOMAIN task[p].dumps)
         /\ kept["fs"].raw => HasMinidump({NameOf(f) : f \in DOMAIN kept["fs"].dumps})
    /\ task["worker"].op # "idle" /\ task["worker"].report.date = Undated => ~HasMinidump(submitted)

QueuedOnce ==
    /\ queued => backLink /\ kept["fs"].raw
    /\ task["worker"].op # "idle" => ~queued /\ backLink

TasksInv == ShapeOK /\ OpsOK /\ MinidumpStays /\ QueuedOnce

\* The file of a dump is read back under the dump's name.
LEMMA NameIsKept == \A n \in DumpNames : NameOf(FileOf(n)) = n
  BY StoragesAssumption DEF NameOf, FileOf

\* A member of a composed storage leaves to the next ones the same save and the same date.
LEMMA StoreAdvances ==
  ASSUME ShapeOK, NEW p \in Processes, Store(p)
  PROVE  /\ \E t : /\ IsTask(t) /\ task' = [task EXCEPT ![p] = t]
                   /\ t.op = task[p].op /\ t.todo = Tail(task[p].todo) /\ t.dumps = task[p].dumps
                   /\ t.report.date = task[p].report.date
         /\ task[p].todo \in Seq(Classes) /\ task[p].todo # <<>> /\ Head(task[p].todo) = Target(p)
  <1>1. Target(p) # Nothing
    BY DEF Store, StoreFs, StoreS3, StoreEs, StoreNull, Nothing
  <1>2. task[p].todo \in Seq(Classes) /\ task[p].todo # <<>> /\ Head(task[p].todo) = Target(p)
    BY <1>1 DEF ShapeOK, IsTask, Target
  <1>3. IsReport(task[p].report)
    BY DEF ShapeOK, IsTask
  <1>4. PICK report : Advance(p, report) /\ IsReport(report) /\ report.date = task[p].report.date
    <2>1. CASE Advance(p, task[p].report)
      BY <1>3, <2>1
    <2>2. CASE Advance(p, [task[p].report EXCEPT !.dump = Nothing])
      <3>1. IsReport([task[p].report EXCEPT !.dump = Nothing])
        BY <1>3 DEF IsReport
      <3>2. [task[p].report EXCEPT !.dump = Nothing].date = task[p].report.date
        BY <1>3 DEF IsReport
      <3> QED
        BY <2>2, <3>1, <3>2
    <2> QED
      BY <2>1, <2>2 DEF Store, StoreFs, StoreS3, StoreEs, StoreNull
  <1> QED
    BY <1>1, <1>2, <1>4, AdvanceShape

\* What a storage holds afterwards.
LEMMA StoreHolds ==
  ASSUME ShapeOK, NEW p \in Processes, Store(p)
  PROVE  /\ kept' = [s \in {"fs", "s3"} |-> kept'[s]] /\ \A s \in {"fs", "s3"} : IsHeld(kept'[s])
         /\ Target(p) # "fs" => kept'["fs"] = kept["fs"] /\ UNCHANGED <<queued, backLink>>
         /\ Target(p) = "fs" =>
              /\ kept'["fs"] = With(kept["fs"], task[p], Files(task[p].dumps), {})
              /\ queued' = (queued \/ (SavesRaw(task[p].op) /\ ~backLink))
              /\ backLink' = (backLink \/ SavesRaw(task[p].op))
         /\ Target(p) # "s3" => kept'["s3"] = kept["s3"]
         /\ Target(p) = "s3" => \E lost : /\ kept'["s3"] = With(kept["s3"], task[p], S3Keys(task[p].dumps), lost)
                                          /\ refused' = (refused \/ lost # {})
  <1>1. \A h, t, names, lost : IsHeld(With(h, t, names, lost))
    BY DEF With, IsHeld
  <1>2. CASE StoreFs(p)
    <2>1. kept' = [kept EXCEPT !["fs"] = With(kept["fs"], task[p], Files(task[p].dumps), {})]
      BY <1>2 DEF StoreFs
    <2> QED
      BY <1>1, <1>2, <2>1 DEF StoreFs, ShapeOK
  <1>3. ASSUME NEW lost, StoreS3(p, lost)
        PROVE  /\ kept' = [s \in {"fs", "s3"} |-> kept'[s]] /\ \A s \in {"fs", "s3"} : IsHeld(kept'[s])
               /\ kept'["fs"] = kept["fs"] /\ UNCHANGED <<queued, backLink>>
               /\ kept'["s3"] = With(kept["s3"], task[p], S3Keys(task[p].dumps), lost)
               /\ refused' = (refused \/ lost # {}) /\ Target(p) = "s3"
    <2>1. kept' = [kept EXCEPT !["s3"] = With(kept["s3"], task[p], S3Keys(task[p].dumps), lost)]
      BY <1>3 DEF StoreS3
    <2> QED
      BY <1>1, <1>3, <2>1 DEF StoreS3, ShapeOK
  <1>4. CASE StoreEs(p) \/ StoreNull(p)
    BY <1>4 DEF StoreEs, StoreNull, ShapeOK
  <1> QED
    BY <1>2, <1>3, <1>4 DEF Store

\* What is held when no part of a save is lost.
LEMMA WithAll ==
  ASSUME NEW h, NEW t, NEW names
  PROVE  /\ With(h, t, names, {}).raw <=> (h.raw \/ SavesRaw(t.op))
         /\ With(h, t, names, {}).processed <=> (h.processed \/ SavesReport(t.op))
         /\ With(h, t, names, {}).dumps = IF SavesRaw(t.op) THEN Overwritten(h.dumps, names) ELSE h.dumps
  <1>1. "raw" \notin {} /\ "dumps" \notin {} /\ "report" \notin {}
    OBVIOUS
  <1> QED
    BY <1>1 DEF With

\* A storage leaves to the others what the invariant says of the save, and the filesystem
\* keeps a minidump under a name that is read back.
LEMMA StoreTasks == ASSUME TasksInv, NEW p \in Processes, Store(p) PROVE TasksInv'
  <1>1. ShapeOK /\ OpsOK /\ MinidumpStays /\ QueuedOnce
    BY DEF TasksInv
  <1>2. PICK t : /\ IsTask(t) /\ task' = [task EXCEPT ![p] = t]
                 /\ t.op = task[p].op /\ t.todo = Tail(task[p].todo) /\ t.dumps = task[p].dumps
                 /\ t.report.date = task[p].report.date
    BY <1>1, StoreAdvances
  <1>3. /\ task'[p] = t /\ \A q \in Processes : q # p => task'[q] = task[q]
        /\ DOMAIN task' = Processes /\ (\A q \in Processes : IsTask(task'[q]))
        /\ task' = [q \in Processes |-> task'[q]]
    BY <1>1, <1>2, TaskShape
  <1>4. UNCHANGED <<config, week, submitted>>
    BY DEF Store, StoreFs, StoreS3, StoreEs, StoreNull, Around
  <1>5. ShapeOK'
    <2>1. kept' = [s \in {"fs", "s3"} |-> kept'[s]] /\ \A s \in {"fs", "s3"} : IsHeld(kept'[s])
      BY <1>1, StoreHolds
    <2>2. \A q \in Processes : IsTask(task[q])'
      BY <1>3 DEF IsTask, IsReport
    <2>3. \A s \in {"fs", "s3"} : IsHeld(kept[s])'
      BY <2>1 DEF IsHeld
    <2> QED
      BY <1>1, <1>3, <1>4, <2>1, <2>2, <2>3 DEF ShapeOK
  <1>6. \A q \in Processes : task'[q].op = task[q].op /\ task'[q].dumps = task[q].dumps
                             /\ task'[q].report.date = task[q].report.date
    BY <1>2, <1>3
  <1>7. task[p].op # "idle"
    BY <1>1, StoreAdvances DEF OpsOK
  <1>8. OpsOK'
    <2>1. \A q \in Processes : task'[q].op = "idle" => task'[q].todo = <<>>
      BY <1>1, <1>2, <1>3, <1>7 DEF OpsOK
    <2> QED
      BY <1>1, <1>4, <1>6, <2>1 DEF OpsOK, Processes
  <1>9. MinidumpStays'
    <2>1. ASSUME HasMinidump(submitted), kept'["fs"].raw
          PROVE  HasMinidump({NameOf(f) : f \in DOMAIN kept'["fs"].dumps})
      <3>1. CASE Target(p) # "fs" \/ ~SavesRaw(task[p].op)
        <4>1. kept["fs"].raw /\ kept'["fs"].dumps = kept["fs"].dumps
          <5>1. CASE Target(p) # "fs"
            BY <1>1, <2>1, <5>1, StoreHolds
          <5>2. CASE Target(p) = "fs"
            BY <1>1, <2>1, <3>1, <5>2, StoreHolds, WithAll
          <5> QED
            BY <5>1, <5>2
        <4> QED
          BY <1>1, <2>1, <4>1 DEF MinidumpStays
      <3>2. CASE Target(p) = "fs" /\ SavesRaw(task[p].op)
        <4>1. kept'["fs"].dumps = Overwritten(kept["fs"].dumps, Files(task[p].dumps))
          BY <1>1, <3>2, StoreHolds, WithAll
        <4>2. PICK n \in DOMAIN task[p].dumps : n \in Minidumps
          BY <1>1, <2>1, <3>2 DEF MinidumpStays, HasMinidump
        <4>3. FileOf(n) \in DOMAIN Files(task[p].dumps)
          <5> DEFINE name == [m \in DOMAIN task[p].dumps |-> FileOf(m)]
          <5>1. DOMAIN Files(task[p].dumps) = {name[m] : m \in DOMAIN task[p].dumps}
            BY DEF Files, Named
          <5>2. name[n] = FileOf(n)
            BY <4>2
          <5> QED
            BY <4>2, <5>1, <5>2
        <4>4. FileOf(n) \in DOMAIN kept'["fs"].dumps
          BY <4>1, <4>3 DEF Overwritten
        <4>5. NameOf(FileOf(n)) = n
          BY <4>2, NameIsKept, StoragesAssumption
        <4> QED
          BY <4>2, <4>4, <4>5 DEF HasMinidump
      <3> QED
        BY <3>1, <3>2
    <2> QED
      BY <1>1, <1>4, <1>6, <2>1 DEF MinidumpStays, HasMinidump, Processes
  <1>10. QueuedOnce'
    <2>1. CASE Target(p) # "fs"
      BY <1>1, <1>6, <2>1, StoreHolds DEF QueuedOnce, Processes
    <2>2. CASE Target(p) = "fs"
      <3>1. kept'["fs"].raw <=> (kept["fs"].raw \/ SavesRaw(task[p].op))
        BY <1>1, <2>2, StoreHolds, WithAll
      <3>2. /\ queued' = (queued \/ (SavesRaw(task[p].op) /\ ~backLink))
            /\ backLink' = (backLink \/ SavesRaw(task[p].op))
        BY <1>1, <2>2, StoreHolds
      <3> QED
        BY <1>1, <1>6, <3>1, <3>2 DEF QueuedOnce, Processes
    <2> QED
      BY <2>1, <2>2
  <1> QED
    BY <1>5, <1>8, <1>9, <1>10 DEF TasksInv

\* What the filesystem and S3 give back has the minidump.
LEMMA ReadsMinidump ==
  ASSUME TasksInv, HasMinidump(submitted), NEW s \in {"fs", "s3"}, kept[s].raw, NEW dumps \in GetRawDumps(s)
  PROVE  HasMinidump(DOMAIN dumps)
  <1>1. CASE s = "fs"
    <2> DEFINE held == kept["fs"].dumps
               name == [f \in DOMAIN held |-> NameOf(f)]
    <2>1. dumps = Named(held, name)
      BY <1>1 DEF GetRawDumps
    <2>2. DOMAIN dumps = {name[f] : f \in DOMAIN held}
      BY <2>1 DEF Named
    <2>3. PICK f \in DOMAIN held : NameOf(f) \in Minidumps
      BY <1>1 DEF TasksInv, MinidumpStays, HasMinidump
    <2>4. name[f] = NameOf(f)
      BY <2>3
    <2> QED
      BY <2>2, <2>3, <2>4 DEF HasMinidump
  <1>2. CASE s = "s3"
    <2>1. DOMAIN dumps = {Minidump}
      BY <1>2 DEF GetRawDumps
    <2> QED
      BY <2>1, StoragesAssumption DEF HasMinidump
  <1> QED
    BY <1>1, <1>2

\* A report of a crash with a minidump has a date.
LEMMA AnalysesDate ==
  ASSUME ShapeOK, NEW dumps, NEW report \in Analyses(dumps)
  PROVE  IsReport(report) /\ (report.date = Undated => ~HasMinidump(DOMAIN dumps))
  <1> DEFINE minidumps == {n \in DOMAIN dumps : IsMinidump(n)}
             DateOf(n) == IF Time(dumps[n]) = Undated THEN week ELSE Time(dumps[n])
  <1>1. CASE minidumps = {}
    BY <1>1 DEF Analyses, NoReport, IsReport, HasMinidump, IsMinidump
  <1>2. CASE minidumps # {}
    <2>1. PICK n \in minidumps : report = [dump |-> dumps[n], date |-> DateOf(n)]
      BY <1>2 DEF Analyses
    <2>2. DateOf(n) # Undated
      BY DEF ShapeOK, Undated
    <2> HIDE DEF DateOf
    <2> QED
      BY <2>1, <2>2 DEF IsReport
  <1> QED
    BY <1>1, <1>2

\* A save that begins: of whatever class list, dumps and report it is given.
LEMMA SaveIsTask ==
  ASSUME NEW op, NEW classes \in Seq(Classes), NEW dumps, NEW report, IsReport(report),
         NEW t, t = Save(op, classes, dumps, report)
  PROVE  IsTask(t) /\ t.op = op /\ t.todo = classes /\ t.dumps = dumps /\ t.report = report
  <1>1. t.op = op /\ t.todo = classes /\ t.dumps = dumps /\ t.report = report
    BY DEF Save
  <1>2. t \in [op : {op}, todo : Seq(Classes), dumps : {dumps}, report : {report}]
    BY DEF Save
  <1> QED
    BY <1>1, <1>2 DEF IsTask

\* No task.
LEMMA IdleIsTask == IsTask(Idle) /\ Idle.op = "idle" /\ Idle.todo = <<>>
  <1>1. IsReport(NoReport)
    BY DEF NoReport, IsReport
  <1>2. Idle.op = "idle" /\ Idle.todo = <<>> /\ Idle.dumps = <<>> /\ Idle.report = NoReport
    BY DEF Idle
  <1>3. Idle \in [op : {"idle"}, todo : Seq(Classes), dumps : {<<>>}, report : {NoReport}]
    BY DEF Idle
  <1> QED
    BY <1>1, <1>2, <1>3 DEF IsTask

\* Steps that leave the saves and what is stored alone.
LEMMA OthersTasks ==
  ASSUME TasksInv, UNCHANGED <<config, submitted, kept, queued, backLink, task>>, week' \in Nat \ {0}
  PROVE  TasksInv'
  BY DEF TasksInv, ShapeOK, OpsOK, MinidumpStays, QueuedOnce, IsTask, IsReport, IsHeld, HasMinidump

\* A request or the worker has another task.
LEMMA NewTask ==
  ASSUME TasksInv, UNCHANGED <<config, submitted, week>>, NEW p \in Processes, NEW t, IsTask(t),
         task' = [task EXCEPT ![p] = t], t.op = "idle" => t.todo = <<>>,
         p # "worker" => t.op \in {"idle", "SaveRawCrash"},
         p = "worker" => t.op \in {"idle", IF config.saveRaw THEN "SaveRawAndProcessed" ELSE "SaveProcessed"},
         kept' = [s \in {"fs", "s3"} |-> kept'[s]] /\ \A s \in {"fs", "s3"} : IsHeld(kept'[s]),
         SavesRaw(t.op) /\ HasMinidump(submitted) => HasMinidump(DOMAIN t.dumps),
         p = "worker" /\ t.op # "idle" /\ t.report.date = Undated => ~HasMinidump(submitted),
         kept'["fs"] = kept["fs"] \/ ~kept'["fs"].raw, QueuedOnce'
  PROVE  TasksInv'
  <1>1. ShapeOK /\ OpsOK /\ MinidumpStays
    BY DEF TasksInv
  <1>2. /\ task'[p] = t /\ \A q \in Processes : q # p => task'[q] = task[q]
        /\ DOMAIN task' = Processes /\ (\A q \in Processes : IsTask(task'[q]))
        /\ task' = [q \in Processes |-> task'[q]]
    BY <1>1, TaskShape
  <1>3. ShapeOK'
    <2>1. \A q \in Processes : IsTask(task[q])'
      BY <1>2 DEF IsTask, IsReport
    <2>2. \A s \in {"fs", "s3"} : IsHeld(kept[s])'
      BY DEF IsHeld
    <2> QED
      BY <1>1, <1>2, <2>1, <2>2 DEF ShapeOK
  <1>4. OpsOK'
    BY <1>1, <1>2 DEF OpsOK, Processes
  <1>5. MinidumpStays'
    <2>1. ASSUME HasMinidump(submitted), NEW q \in Processes, SavesRaw(task'[q].op)
          PROVE  HasMinidump(DOMAIN task'[q].dumps)
      <3>1. CASE q = p
        BY <1>2, <2>1, <3>1
      <3>2. CASE q # p
        BY <1>1, <1>2, <2>1, <3>2 DEF MinidumpStays
      <3> QED
        BY <3>1, <3>2
    <2>2. HasMinidump(submitted) /\ kept'["fs"].raw => HasMinidump({NameOf(f) : f \in DOMAIN kept'["fs"].dumps})
      BY <1>1 DEF MinidumpStays
    <2>3. task'["worker"].op # "idle" /\ task'["worker"].report.date = Undated => ~HasMinidump(submitted)
      BY <1>1, <1>2 DEF MinidumpStays, Processes
    <2> QED
      BY <2>1, <2>2, <2>3 DEF MinidumpStays, HasMinidump
  <1> QED
    BY <1>3, <1>4, <1>5 DEF TasksInv

\* A reprocess request saves what it read, minidump included.
LEMMA ReprocessTasks == ASSUME TasksInv, Reprocess PROVE TasksInv'
  <1>1. PICK dumps \in GetRawDumps(config.web) :
           /\ kept[config.web].raw
           /\ Start("webapp", Save("SaveRawCrash", config.classes, dumps, NoReport))
    BY DEF Reprocess
  <1>2. config.web \in {"fs", "s3"} /\ config.classes \in Seq(Classes)
    BY ConfigAssumption DEF TasksInv, ShapeOK, Classes
  <1> DEFINE t == Save("SaveRawCrash", config.classes, dumps, NoReport)
  <1>3. IsTask(t) /\ t.op = "SaveRawCrash" /\ t.dumps = dumps
    BY <1>2, IdleIsTask, SaveIsTask DEF IsTask, Idle
  <1>4. HasMinidump(submitted) => HasMinidump(DOMAIN dumps)
    BY <1>1, <1>2, ReadsMinidump
  <1>5. task' = [task EXCEPT !["webapp"] = t]
    BY <1>1 DEF Start
  <1>6. UNCHANGED <<config, submitted, week, kept, queued, backLink>>
    BY DEF Reprocess
  <1> HIDE DEF t
  <1>7. QueuedOnce'
    BY <1>5, <1>6 DEF TasksInv, QueuedOnce, ShapeOK, Processes
  <1>8. kept' = [s \in {"fs", "s3"} |-> kept'[s]] /\ \A s \in {"fs", "s3"} : IsHeld(kept'[s])
    BY <1>6 DEF TasksInv, ShapeOK
  <1> QED
    BY <1>3, <1>4, <1>5, <1>6, <1>7, <1>8, NewTask DEF Processes

\* A request is answered.
LEMMA AnswerTasks == ASSUME TasksInv, NEW p \in Processes, Answer(p) PROVE TasksInv'
  <1>1. p # "worker" /\ task' = [task EXCEPT ![p] = Idle] /\ UNCHANGED <<config, submitted, week, kept, queued, backLink>>
    BY DEF Answer, Around
  <1>2. QueuedOnce'
    BY <1>1 DEF TasksInv, QueuedOnce, ShapeOK, Processes
  <1>3. kept' = [s \in {"fs", "s3"} |-> kept'[s]] /\ \A s \in {"fs", "s3"} : IsHeld(kept'[s])
    BY <1>1 DEF TasksInv, ShapeOK
  <1>4. ~SavesRaw("idle")
    BY DEF SavesRaw
  <1> QED
    BY <1>1, <1>2, <1>3, <1>4, IdleIsTask, NewTask

\* The worker has read the crash with its minidump, and dated it.
LEMMA ProcessTasks == ASSUME TasksInv, Process PROVE TasksInv'
  <1> DEFINE op == IF config.saveRaw THEN "SaveRawAndProcessed" ELSE "SaveProcessed"
  <1>0. PICK dumps \in GetRawDumps("fs") : \E report \in Analyses(dumps) :
           queued /\ ~queued' /\ Start("worker", Save(op, config.dst, dumps, report))
    BY DEF Process
  <1>1. PICK report \in Analyses(dumps) :
           queued /\ ~queued' /\ Start("worker", Save(op, config.dst, dumps, report))
    BY <1>0
  <1> DEFINE t == Save(op, config.dst, dumps, report)
  <1>2. IsReport(report) /\ (report.date = Undated => ~HasMinidump(DOMAIN dumps))
    BY AnalysesDate DEF TasksInv
  <1>3. config.dst \in Seq(Classes)
    BY ConfigAssumption DEF TasksInv, ShapeOK, Classes
  <1>4. IsTask(t) /\ t.op = op /\ t.dumps = dumps /\ t.report = report
    BY <1>2, <1>3, SaveIsTask
  <1>5. HasMinidump(submitted) => HasMinidump(DOMAIN dumps)
    BY <1>1, ReadsMinidump DEF TasksInv, QueuedOnce
  <1>6. task' = [task EXCEPT !["worker"] = t]
    BY <1>1 DEF Start
  <1>7. UNCHANGED <<config, submitted, week, kept, backLink>>
    BY DEF Process, Around
  <1> HIDE DEF t
  <1>8. QueuedOnce'
    BY <1>1, <1>6, <1>7 DEF TasksInv, QueuedOnce, ShapeOK, Processes
  <1>9. kept' = [s \in {"fs", "s3"} |-> kept'[s]] /\ \A s \in {"fs", "s3"} : IsHeld(kept'[s])
    BY <1>7 DEF TasksInv, ShapeOK
  <1> QED
    BY <1>2, <1>4, <1>5, <1>6, <1>7, <1>8, <1>9, NewTask DEF Processes

\* The worker is done, or has panicked: it is not in the queue again by itself.
LEMMA EndTasks == ASSUME TasksInv, Finish \/ Panic PROVE TasksInv'
  <1>1. task' = [task EXCEPT !["worker"] = Idle] /\ UNCHANGED <<config, submitted, week, queued>>
    BY DEF Finish, Panic, Around
  <1>2. /\ kept' = [s \in {"fs", "s3"} |-> kept'[s]] /\ \A s \in {"fs", "s3"} : IsHeld(kept'[s])
        /\ UNCHANGED <<kept, backLink>> \/ (~kept'["fs"].raw /\ task["worker"].op # "idle")
    <2>1. CASE UNCHANGED <<kept, backLink>>
      BY <2>1 DEF TasksInv, ShapeOK
    <2>2. CASE Finish /\ config.removeRaw
      <3>1. kept' = [kept EXCEPT !["fs"] = NotHeld] /\ task["worker"].op # "idle"
        BY <2>2 DEF Finish, AllStored
      <3>2. IsHeld(NotHeld) /\ ~NotHeld.raw
        BY DEF IsHeld, NotHeld
      <3> QED
        BY <3>1, <3>2 DEF TasksInv, ShapeOK
    <2> QED
      BY <2>1, <2>2 DEF Finish, Panic
  <1>3. task'["worker"].op = "idle"
    BY <1>1, IdleIsTask DEF TasksInv, ShapeOK, Processes
  <1>4. QueuedOnce'
    BY <1>1, <1>2, <1>3 DEF TasksInv, QueuedOnce
  <1>5. ~SavesRaw("idle")
    BY DEF SavesRaw
  <1> QED
    BY <1>1, <1>2, <1>4, <1>5, IdleIsTask, NewTask DEF Processes

\* Every step of the program.
LEMMA NextTasks == ASSUME TasksInv, [Next]_vars PROVE TasksInv'
  <1>1. ASSUME NEW p \in Processes, Store(p) PROVE TasksInv'
    BY <1>1, StoreTasks
  <1>2. ASSUME NEW p \in Processes, Answer(p) PROVE TasksInv'
    BY <1>2, AnswerTasks
  <1>3. CASE Reprocess
    BY <1>3, ReprocessTasks
  <1>4. CASE Process
    BY <1>4, ProcessTasks
  <1>5. CASE Finish \/ Panic
    BY <1>5, EndTasks
  <1>6. CASE NextWeek \/ UNCHANGED vars \/ (\E names : Delete(names)) \/ (\E i \in purge : DeleteFrom(i))
    <2>1. UNCHANGED <<config, submitted, kept, queued, backLink, task>>
      BY <1>6 DEF NextWeek, vars, Delete, DeleteFrom
    <2>2. week' = week \/ week' = week + 1
      BY <1>6 DEF NextWeek, vars, Delete, DeleteFrom
    <2>3. week' \in Nat \ {0}
      BY <2>2 DEF TasksInv, ShapeOK
    <2> QED
      BY <2>1, <2>3, OthersTasks
  <1> QED
    BY <1>1, <1>2, <1>3, <1>4, <1>5, <1>6 DEF Next

\* The collector saves the upload.
LEMMA InitTasks == ASSUME Init PROVE TasksInv
  <1> DEFINE upload == [n \in submitted |-> n]
             first  == Save("SaveRawCrash", config.classes, upload, NoReport)
  <1>1. config \in Configs /\ config.classes \in Seq(Classes)
    BY ConfigAssumption DEF Init, Classes
  <1>2. IsTask(first) /\ first.op = "SaveRawCrash" /\ first.dumps = upload
    BY <1>1, IdleIsTask, SaveIsTask DEF IsTask, Idle
  <1>3. DOMAIN first.dumps = submitted
    BY <1>2
  <1>4. task = [p \in Processes |-> IF p = "collector" THEN first ELSE Idle]
    BY DEF Init
  <1> HIDE DEF first
  <1>5. task["collector"] = first /\ task["webapp"] = Idle /\ task["worker"] = Idle
    BY <1>4 DEF Processes
  <1>6. IsHeld(NotHeld) /\ ~NotHeld.raw
    BY DEF IsHeld, NotHeld
  <1>7. kept = [s \in {"fs", "s3"} |-> NotHeld] /\ week = 1 /\ ~queued /\ ~backLink
    BY DEF Init
  <1>8. ShapeOK
    BY <1>1, <1>2, <1>4, <1>6, <1>7, IdleIsTask DEF ShapeOK
  <1>9. OpsOK
    BY <1>2, <1>5, IdleIsTask DEF OpsOK, Processes
  <1>10. MinidumpStays
    BY <1>3, <1>5, <1>6, <1>7, IdleIsTask DEF MinidumpStays, Processes, SavesRaw
  <1>11. QueuedOnce
    BY <1>5, <1>7, IdleIsTask DEF QueuedOnce
  <1> QED
    BY <1>8, <1>9, <1>10, <1>11 DEF TasksInv

-----------------------------------------------------------------------------
(* Every destination is still to come, or has what it was given. *)

Stored(s) ==
    /\ s = "s3" => kept["s3"].processed /\ (config.saveRaw => kept["s3"].raw)
    /\ s = "es" => docs # {} \/ deleted # "no" \/ (config.saveRaw /\ ~HasMinidump(submitted))

ToCome(p, s) == \E i \in DOMAIN task[p].todo : task[p].todo[i] = s

StoredInv ==
    /\ purge # {} => deleted # "no"
    /\ ~refused =>
         /\ task["worker"].op # "idle" => \A s \in InAll : ToCome("worker", s) \/ Stored(s)
         /\ kept["fs"].raw \/ ToCome("collector", "fs") \/ \A s \in InAll : Stored(s)

\* What does not come next comes later.
LEMMA TailHasRest ==
  ASSUME NEW q \in Seq(Classes), q # <<>>, NEW i \in DOMAIN q, q[i] # Head(q)
  PROVE  \E j \in DOMAIN Tail(q) : Tail(q)[j] = q[i]
  <1>1. Len(q) \in Nat /\ DOMAIN q = 1 .. Len(q) /\ i # 1
    OBVIOUS
  <1>2. i - 1 \in 1 .. Len(Tail(q)) /\ Tail(q)[i - 1] = q[i]
    BY <1>1
  <1>3. DOMAIN Tail(q) = 1 .. Len(Tail(q))
    OBVIOUS
  <1> QED
    BY <1>2, <1>3

\* Nothing that a destination has is given up, except to a delete.
Stays == /\ UNCHANGED <<config, submitted>> /\ (refused => refused')
         /\ kept["s3"].processed => kept'["s3"].processed
         /\ kept["s3"].raw => kept'["s3"].raw
         /\ docs # {} => docs' # {} \/ deleted' # "no"
         /\ deleted # "no" => deleted' # "no"

LEMMA StoredStays == ASSUME Stays, NEW s, Stored(s) PROVE Stored(s)'
  BY DEF Stays, Stored, HasMinidump

\* Whatever is lost of a save, what was held is.
LEMMA WithKeeps ==
  ASSUME NEW h, NEW t, NEW names, NEW lost
  PROVE  /\ h.raw => With(h, t, names, lost).raw
         /\ h.processed => With(h, t, names, lost).processed
  BY DEF With

\* A storage keeps what it has.
LEMMA StoreStays == ASSUME ShapeOK, NEW p \in Processes, Store(p) PROVE Stays /\ UNCHANGED purge
  <1>1. UNCHANGED <<config, submitted, purge>>
    BY DEF Store, StoreFs, StoreS3, StoreEs, StoreNull, Around
  <1>2. /\ refused => refused'
        /\ kept["s3"].processed => kept'["s3"].processed
        /\ kept["s3"].raw => kept'["s3"].raw
    <2>1. CASE Target(p) # "s3"
      <3>1. UNCHANGED refused
        BY <2>1 DEF Store, StoreFs, StoreS3, StoreEs, StoreNull
      <3> QED
        BY <2>1, <3>1, StoreHolds
    <2>2. CASE Target(p) = "s3"
      <3>1. PICK lost : /\ kept'["s3"] = With(kept["s3"], task[p], S3Keys(task[p].dumps), lost)
                        /\ refused' = (refused \/ lost # {})
        BY <2>2, StoreHolds
      <3>2. refused => refused'
        BY <3>1
      <3> QED
        BY <3>1, <3>2, WithKeeps
    <2> QED
      BY <2>1, <2>2
  <1>3. (docs # {} => docs' # {}) /\ (deleted # "no" => deleted' # "no")
    <2>1. CASE StoreEs(p)
      BY <2>1 DEF StoreEs
    <2>2. CASE UNCHANGED <<docs, deleted>>
      BY <2>2
    <2> QED
      BY <2>1, <2>2 DEF Store, StoreFs, StoreS3, StoreNull
  <1> QED
    BY <1>1, <1>2, <1>3 DEF Stays

\* The worker's next destination gets what it has to: from S3 that nothing is refused, from
\* Elasticsearch that a crash with a minidump is dated.
LEMMA StoreGives ==
  ASSUME TasksInv, Store("worker"), ~refused', NEW s, s = Target("worker") PROVE Stored(s)'
  <1> DEFINE w == "worker"
  <1>1. ShapeOK /\ OpsOK /\ MinidumpStays /\ w \in Processes
    BY DEF TasksInv, Processes
  <1>2. task[w].op = IF config.saveRaw THEN "SaveRawAndProcessed" ELSE "SaveProcessed"
    BY <1>1, StoreAdvances DEF OpsOK
  <1>3. UNCHANGED <<config, submitted>>
    BY <1>1, StoreStays DEF Stays
  <1>4. SavesReport(task[w].op) /\ (config.saveRaw => SavesRaw(task[w].op))
    BY <1>2 DEF SavesReport, SavesRaw
  <1>5. CASE Target(w) = "s3"
    <2>1. PICK lost : /\ kept'["s3"] = With(kept["s3"], task[w], S3Keys(task[w].dumps), lost)
                      /\ refused' = (refused \/ lost # {})
      BY <1>1, <1>5, StoreHolds
    <2>2. lost = {}
      BY <2>1
    <2> QED
      BY <1>3, <1>4, <1>5, <2>1, <2>2, WithAll DEF Stored
  <1>6. CASE Target(w) = "es"
    <2>1. StoreEs(w)
      BY <1>6 DEF Store, StoreFs, StoreS3, StoreEs, StoreNull
    <2>2. CASE task[w].op = "SaveProcessed" \/ task[w].report.date # Undated
      <3>1. docs' # {}
        BY <1>4, <2>1, <2>2 DEF StoreEs
      <3> QED
        BY <1>6, <3>1 DEF Stored
    <2>3. CASE task[w].op # "SaveProcessed" /\ task[w].report.date = Undated
      <3>1. config.saveRaw /\ ~HasMinidump(submitted)
        BY <1>1, <1>2, <2>3 DEF MinidumpStays
      <3> QED
        BY <1>3, <1>6, <3>1 DEF Stored, HasMinidump
    <2> QED
      BY <2>2, <2>3
  <1>7. CASE Target(w) \notin {"s3", "es"}
    BY <1>7 DEF Stored
  <1> QED
    BY <1>5, <1>6, <1>7

\* A storage takes its part: who is still to come stays, the worker's next destination has it.
LEMMA StoreStored ==
  ASSUME TasksInv, StoredInv, NEW p \in Processes, Store(p)
  PROVE  StoredInv'
  <1>1. ShapeOK /\ OpsOK /\ Stays /\ UNCHANGED purge
    BY StoreStays DEF TasksInv
  <1>2. PICK t : /\ IsTask(t) /\ task' = [task EXCEPT ![p] = t] /\ t.op = task[p].op /\ t.todo = Tail(task[p].todo)
    BY <1>1, StoreAdvances
  <1>3. task'[p] = t /\ \A q \in Processes : q # p => task'[q] = task[q]
    BY <1>1, <1>2, TaskShape
  <1>4. task[p].todo \in Seq(Classes) /\ task[p].todo # <<>> /\ Head(task[p].todo) = Target(p)
    BY <1>1, StoreAdvances
  <1>5. ASSUME NEW q \in Processes, NEW s, ToCome(q, s), q # p \/ s # Target(p) PROVE ToCome(q, s)'
    <2>1. CASE q # p
      BY <1>3, <1>5, <2>1 DEF ToCome
    <2>2. CASE q = p
      <3>1. PICK i \in DOMAIN task[p].todo : task[p].todo[i] = s
        BY <1>5, <2>2 DEF ToCome
      <3>2. \E j \in DOMAIN Tail(task[p].todo) : Tail(task[p].todo)[j] = s
        BY <1>4, <1>5, <2>2, <3>1, TailHasRest
      <3>3. task'[p].todo = Tail(task[p].todo)
        BY <1>2, <1>3
      <3>4. ToCome(p, s)'
        BY <3>2, <3>3 DEF ToCome
      <3> QED
        BY <2>2, <3>4
    <2> QED
      BY <2>1, <2>2
  <1>6. purge' # {} => deleted' # "no"
    BY <1>1 DEF StoredInv, Stays
  <1>7. InAll' = InAll
    BY <1>1 DEF Stays, InAll
  <1>8. ASSUME ~refused', task'["worker"].op # "idle", NEW s \in InAll
        PROVE  ToCome("worker", s)' \/ Stored(s)'
    <2>1. task["worker"].op # "idle" /\ ~refused
      BY <1>1, <1>2, <1>3, <1>8 DEF Stays, Processes
    <2>2. CASE Stored(s)
      BY <1>1, <2>2, StoredStays
    <2>3. CASE ToCome("worker", s) /\ (p # "worker" \/ s # Target(p))
      BY <1>5, <2>3 DEF Processes
    <2>4. CASE p = "worker" /\ s = Target(p)
      BY <1>8, <2>4, StoreGives
    <2> QED
      BY <2>1, <2>2, <2>3, <2>4 DEF StoredInv
  <1>9. ASSUME ~refused', NEW s \in InAll
        PROVE  kept'["fs"].raw \/ ToCome("collector", "fs")' \/ Stored(s)'
    <2>1. ~refused
      BY <1>1, <1>9 DEF Stays
    <2>2. CASE Stored(s)
      BY <1>1, <2>2, StoredStays
    <2>3. CASE kept["fs"].raw
      BY <1>1, <2>3, StoreHolds, WithAll
    <2>4. CASE ToCome("collector", "fs") /\ (p # "collector" \/ "fs" # Target(p))
      BY <1>5, <2>4 DEF Processes
    <2>5. CASE p = "collector" /\ Target(p) = "fs"
      <3>1. task[p].op = "SaveRawCrash"
        BY <1>1, <1>4, <2>5 DEF OpsOK, Processes
      <3>2. SavesRaw(task[p].op)
        BY <3>1 DEF SavesRaw
      <3> QED
        BY <1>1, <2>5, <3>2, StoreHolds, WithAll
    <2> QED
      BY <2>1, <2>2, <2>3, <2>4, <2>5 DEF StoredInv
  <1> QED
    BY <1>6, <1>7, <1>8, <1>9 DEF StoredInv

\* Tasks begin and end, and none of the steps of one is taken.
OnlyBegins ==
    /\ task'["worker"].op # "idle" => task'["worker"] = task["worker"] \/ task'["worker"].todo = config.dst
    /\ ToCome("collector", "fs") => ToCome("collector", "fs")'

\* A step that stores nothing: it may begin the worker's task, or give up the source copy when
\* all destinations have the crash.
LEMMA OthersStored ==
  ASSUME StoredInv, Stays, purge' # {} => deleted' # "no",
         OnlyBegins,
         refused' \/ (kept["fs"].raw => kept'["fs"].raw) \/ (\A s \in InAll : Stored(s))
  PROVE  StoredInv'
  <1>1. InAll' = InAll /\ config' = config
    BY DEF Stays, InAll
  <1>2. ASSUME ~refused', task'["worker"].op # "idle", NEW s \in InAll
        PROVE  ToCome("worker", s)' \/ Stored(s)'
    <2>1. ~refused
      BY <1>2 DEF Stays
    <2>2. CASE task'["worker"] = task["worker"]
      <3>1. ToCome("worker", s) \/ Stored(s)
        BY <1>2, <2>1, <2>2 DEF StoredInv
      <3>2. CASE Stored(s)
        BY <3>2, StoredStays
      <3>3. CASE ToCome("worker", s)
        BY <2>2, <3>3 DEF ToCome
      <3> QED
        BY <3>1, <3>2, <3>3
    <2>3. CASE task'["worker"].todo = config.dst
      BY <1>2, <2>3 DEF InAll, ToCome
    <2> QED
      BY <1>2, <2>2, <2>3 DEF OnlyBegins
  <1>3. ASSUME ~refused', NEW s \in InAll
        PROVE  kept'["fs"].raw \/ ToCome("collector", "fs")' \/ Stored(s)'
    <2>1. ~refused
      BY <1>3 DEF Stays
    <2>2. kept'["fs"].raw \/ ToCome("collector", "fs") \/ Stored(s)
      BY <1>3, <2>1 DEF StoredInv
    <2>3. CASE Stored(s)
      BY <2>3, StoredStays
    <2> QED
      BY <2>2, <2>3 DEF OnlyBegins
  <1> QED
    BY <1>1, <1>2, <1>3 DEF StoredInv

\* The worker removes the source copy only when nothing is to come.
LEMMA FinishStored == ASSUME TasksInv, StoredInv, Finish PROVE StoredInv'
  <1>1. task' = [task EXCEPT !["worker"] = Idle] /\ UNCHANGED <<config, submitted, docs, deleted, refused, purge>>
    BY DEF Finish, Around
  <1>2. task["worker"].op # "idle" /\ task["worker"].todo = <<>>
    BY DEF Finish, AllStored
  <1>3. refused \/ \A s \in InAll : Stored(s)
    BY <1>2 DEF StoredInv, ToCome
  <1>4. kept'["s3"] = kept["s3"]
    BY DEF Finish, TasksInv, ShapeOK
  <1>5. Stays
    BY <1>1, <1>4 DEF Stays
  <1>6. task'["worker"].op = "idle" /\ task'["collector"] = task["collector"]
    BY <1>1, IdleIsTask DEF TasksInv, ShapeOK, Processes
  <1>7. purge' # {} => deleted' # "no"
    BY <1>1 DEF StoredInv
  <1> QED
    BY <1>1, <1>3, <1>5, <1>6, <1>7, OthersStored DEF ToCome, OnlyBegins

\* The webapp's delete takes documents, and is remembered.
LEMMA DeleteStored == ASSUME StoredInv, (\E names : Delete(names)) \/ (\E i \in purge : DeleteFrom(i)) PROVE StoredInv'
  <1>0. UNCHANGED <<config, submitted, kept, task>>
    BY DEF Delete, DeleteFrom
  <1>1. refused => refused'
    <2>1. CASE \E names : Delete(names)
      BY <2>1 DEF Delete
    <2>2. CASE \E i \in purge : DeleteFrom(i)
      BY <2>2 DEF DeleteFrom
    <2> QED
      BY <2>1, <2>2
  <1>2. deleted # "no" => deleted' # "no"
    BY DEF Delete, DeleteFrom
  <1>3. (purge' # {} => deleted' # "no") /\ (docs # {} => docs' # {} \/ deleted' # "no")
    BY DEF StoredInv, Delete, DeleteFrom, AfterRefusal
  <1> QED
    BY <1>0, <1>1, <1>2, <1>3, OthersStored DEF Stays, ToCome, OnlyBegins

\* Every step of the program.
LEMMA NextStored == ASSUME TasksInv, StoredInv, [Next]_vars PROVE StoredInv'
  <1>1. ASSUME NEW p \in Processes, Store(p) PROVE StoredInv'
    BY <1>1, StoreStored
  <1>2. CASE Finish
    BY <1>2, FinishStored
  <1>3. CASE (\E names : Delete(names)) \/ (\E i \in purge : DeleteFrom(i))
    BY <1>3, DeleteStored
  <1>4. CASE Reprocess \/ Process \/ Panic \/ NextWeek \/ UNCHANGED vars \/ \E p \in Processes : Answer(p)
    <2>1. UNCHANGED <<config, submitted, kept, docs, deleted, purge>> /\ (refused => refused')
      BY <1>4 DEF Reprocess, Process, Panic, NextWeek, vars, Answer, Around
    <2>2. OnlyBegins
      <3>1. CASE Reprocess
        <4>1. PICK t : task' = [task EXCEPT !["webapp"] = t]
          BY <3>1 DEF Reprocess, Start
        <4> QED
          BY <4>1 DEF TasksInv, ShapeOK, Processes, ToCome, OnlyBegins
      <3>2. CASE Process
        <4>1. PICK op, dumps, report : task' = [task EXCEPT !["worker"] = Save(op, config.dst, dumps, report)]
          BY <3>2 DEF Process, Start
        <4>2. Save(op, config.dst, dumps, report).todo = config.dst
          BY DEF Save
        <4> QED
          BY <4>1, <4>2 DEF TasksInv, ShapeOK, Processes, ToCome, OnlyBegins
      <3>3. CASE Panic
        <4>1. task' = [task EXCEPT !["worker"] = Idle]
          BY <3>3 DEF Panic
        <4> QED
          BY <4>1, IdleIsTask DEF TasksInv, ShapeOK, Processes, ToCome, OnlyBegins
      <3>4. CASE NextWeek \/ UNCHANGED vars
        BY <3>4 DEF NextWeek, vars, ToCome, OnlyBegins
      <3>5. ASSUME NEW p \in Processes, Answer(p) PROVE OnlyBegins
        <4>1. task' = [task EXCEPT ![p] = Idle] /\ p # "worker" /\ task[p].todo = <<>>
          BY <3>5 DEF Answer
        <4> QED
          BY <4>1 DEF TasksInv, ShapeOK, Processes, ToCome, OnlyBegins
      <3> QED
        BY <1>4, <3>1, <3>2, <3>3, <3>4, <3>5
    <2> QED
      BY <2>1, <2>2, OthersStored DEF Stays, StoredInv
  <1> QED
    BY <1>1, <1>2, <1>3, <1>4 DEF Next

\* With the filesystem among the collector's storages: however many destinations there are,
\* remove_raw_dump gives up a crash only when each has what it was given, as long as nothing
\* is refused, and a crash with a minidump is never dropped for want of a date.
THEOREM StoragesRemovedIsStored ==
  ASSUME \A cf \in Configs : \E i \in DOMAIN cf.classes : cf.classes[i] = "fs"
  PROVE  Spec => []RemovedIsStored
  <1>1. Init => TasksInv /\ StoredInv
    <2> SUFFICES ASSUME Init PROVE TasksInv /\ StoredInv
      OBVIOUS
    <2>1. TasksInv
      BY InitTasks
    <2>2. task["worker"] = Idle /\ purge = {}
      BY DEF Init, Processes
    <2>3. config \in Configs /\ task["collector"].todo = config.classes
      BY DEF Init, Processes, Save
    <2>4. ToCome("collector", "fs")
      BY <2>3 DEF ToCome
    <2> QED
      BY <2>1, <2>2, <2>4, IdleIsTask DEF StoredInv
  <1>2. TasksInv /\ StoredInv /\ [Next]_vars => (TasksInv /\ StoredInv)'
    BY NextTasks, NextStored
  <1>3. TasksInv /\ StoredInv => RemovedIsStored
    <2> SUFFICES ASSUME TasksInv, StoredInv, task["collector"] = Idle, ~kept["fs"].raw, ~refused
                 PROVE  /\ "s3" \in InAll => kept["s3"].processed /\ (config.saveRaw => kept["s3"].raw)
                        /\ "es" \in InAll => \/ docs # {} \/ deleted # "no"
                                             \/ (config.saveRaw /\ submitted \cap Minidumps = {})
      BY DEF RemovedIsStored
    <2>1. ~ToCome("collector", "fs")
      BY IdleIsTask DEF ToCome
    <2>2. \A s \in InAll : Stored(s)
      BY <2>1 DEF StoredInv
    <2>3. ~HasMinidump(submitted) => submitted \cap Minidumps = {}
      BY DEF HasMinidump
    <2> QED
      BY <2>2, <2>3 DEF Stored
  <1> QED
    BY <1>1, <1>2, <1>3, PTL DEF Spec

-----------------------------------------------------------------------------
(* Names and dumps.  Whatever is saved, stored or read back was uploaded. *)

FileNames == {FileOf(n) : n \in DumpNames}

DumpsOK == /\ \A p \in Processes : /\ DOMAIN task[p].dumps \subseteq DumpNames
                                   /\ \A n \in DOMAIN task[p].dumps : task[p].dumps[n] \in submitted
           /\ DOMAIN kept["fs"].dumps \subseteq FileNames

PlacesInv == /\ TypeOK /\ DumpsOK /\ walk \in [submitted \cap Minidumps -> Undated .. MaxWeek]
             /\ TasksInv

\* With a dump among the minidumps: under a minidump's name there is a minidump, a report has
\* the stack of one until Elasticsearch is among the destinations it has been to, and the
\* reports that were stored before that have it.
Behind(k) == \E i \in 1 .. k : config.dst[i] = "es"

MinidumpsInv ==
    /\ \A p \in Processes : \A n \in DOMAIN task[p].dumps \cap Minidumps : task[p].dumps[n] \in Minidumps
    /\ \A f \in DOMAIN kept["fs"].dumps : NameOf(f) \in Minidumps => kept["fs"].dumps[f] \in Minidumps
    /\ Nothing \in DOMAIN kept["s3"].dumps => kept["s3"].dumps[Nothing] \in Minidumps

ReportInv == task["worker"].op # "idle" => \E k \in 0 .. Len(config.dst) :
    /\ task["worker"].todo = SubSeq(config.dst, k + 1, Len(config.dst))
    /\ task["worker"].report.dump \in Minidumps \/ Behind(k)

StackInv == MinidumpsInv /\ ReportInv /\ ReportKeepsStack

\* Saves of the crash have all of its dumps, and so has what holds its raw crash.
IdentityOf(names) == [n \in names |-> n]

NamesInv ==
    /\ \A p \in Processes : SavesRaw(task[p].op) => task[p].dumps = IdentityOf(submitted)
    /\ DOMAIN kept["fs"].dumps = IF kept["fs"].raw THEN {FileOf(n) : n \in submitted} ELSE {}
    /\ \A f \in DOMAIN kept["fs"].dumps : kept["fs"].dumps[f] = NameOf(f)
    /\ submitted = {Minidump} =>
          /\ DOMAIN kept["s3"].dumps \subseteq {Nothing}
          /\ \A k \in DOMAIN kept["s3"].dumps : kept["s3"].dumps[k] = Minidump
          /\ kept["s3"].raw /\ ~refused => Nothing \in DOMAIN kept["s3"].dumps

\* The weeks of the index a crash of known time goes to.
TheWeeks == IF HasMinidump(submitted) THEN {walk[n] : n \in submitted \cap Minidumps} ELSE {Undated}

WeeksInv ==
    /\ task["worker"].op # "idle" => task["worker"].report.date \in TheWeeks
    /\ docs \subseteq TheWeeks

KnownTime == \A m, n \in submitted \cap Minidumps : walk[m] = walk[n] /\ walk[m] # Undated

-----------------------------------------------------------------------------
(* What the operators on names return. *)

\* A dump is found under the name that nothing else has.
LEMMA NamedValue ==
  ASSUME NEW dumps, NEW name, NEW n \in DOMAIN dumps, \A m \in DOMAIN dumps : name[m] = name[n] => m = n
  PROVE  name[n] \in DOMAIN Named(dumps, name) /\ Named(dumps, name)[name[n]] = dumps[n]
  <1>1. name[n] \in {name[m] : m \in DOMAIN dumps}
    OBVIOUS
  <1>2. (CHOOSE m \in DOMAIN dumps : name[m] = name[n]) = n
    OBVIOUS
  <1> QED
    BY <1>1, <1>2 DEF Named

\* Every name is that of a dump.
LEMMA NamedComesFrom ==
  ASSUME NEW dumps, NEW name, NEW m \in DOMAIN Named(dumps, name)
  PROVE  \E n \in DOMAIN dumps : name[n] = m /\ Named(dumps, name)[m] = dumps[n]
  <1>1. m \in {name[n] : n \in DOMAIN dumps}
    BY DEF Named
  <1> DEFINE n == CHOOSE n \in DOMAIN dumps : name[n] = m
  <1>2. n \in DOMAIN dumps /\ name[n] = m
    BY <1>1
  <1>3. Named(dumps, name)[m] = dumps[n]
    BY <1>1 DEF Named
  <1> QED
    BY <1>2, <1>3

\* The names of a mapping.
LEMMA NamedDomain == ASSUME NEW dumps, NEW name PROVE DOMAIN Named(dumps, name) = {name[n] : n \in DOMAIN dumps}
  BY DEF Named

\* It is a mapping.
LEMMA NamedIsMapping ==
  ASSUME NEW dumps, NEW name, NEW new, new = Named(dumps, name)
  PROVE  new = [m \in DOMAIN new |-> new[m]]
  <1> DEFINE names == {name[n] : n \in DOMAIN dumps}
             Of(m) == dumps[CHOOSE n \in DOMAIN dumps : name[n] = m]
  <1>1. new = [m \in names |-> Of(m)]
    BY DEF Named
  <1> HIDE DEF Of
  <1> QED
    BY <1>1

\* The file of a dump tells its name.
LEMMA FileTellsName == \A m, n \in DumpNames : FileOf(m) = FileOf(n) => m = n
  BY NameIsKept

\* In the filesystem every dump of a save has a file of its own.
LEMMA FilesHold ==
  ASSUME NEW dumps, DOMAIN dumps \subseteq DumpNames
  PROVE  /\ DOMAIN Files(dumps) = {FileOf(n) : n \in DOMAIN dumps}
         /\ \A n \in DOMAIN dumps : Files(dumps)[FileOf(n)] = dumps[n]
  <1> DEFINE name == [n \in DOMAIN dumps |-> FileOf(n)]
  <1>1. Files(dumps) = Named(dumps, name)
    BY DEF Files
  <1>2. DOMAIN Files(dumps) = {name[n] : n \in DOMAIN dumps}
    BY <1>1, NamedDomain
  <1>3. ASSUME NEW n \in DOMAIN dumps PROVE Files(dumps)[FileOf(n)] = dumps[n]
    <2>1. \A m \in DOMAIN dumps : name[m] = name[n] => m = n
      BY FileTellsName
    <2>2. Named(dumps, name)[name[n]] = dumps[n]
      BY <2>1, NamedValue
    <2> QED
      BY <1>1, <2>2
  <1> QED
    BY <1>2, <1>3

\* The filesystem gives back every file, under the name it tells.
LEMMA FilesReadBack ==
  ASSUME DOMAIN kept["fs"].dumps \subseteq FileNames, NEW dumps \in GetRawDumps("fs")
  PROVE  /\ GetRawDumps("fs") = {dumps}
         /\ dumps = [n \in DOMAIN dumps |-> dumps[n]]
         /\ DOMAIN dumps = {NameOf(f) : f \in DOMAIN kept["fs"].dumps} /\ DOMAIN dumps \subseteq DumpNames
         /\ \A f \in DOMAIN kept["fs"].dumps : dumps[NameOf(f)] = kept["fs"].dumps[f]
  <1> DEFINE held == kept["fs"].dumps
             name == [f \in DOMAIN held |-> NameOf(f)]
  <1>1. dumps = Named(held, name) /\ GetRawDumps("fs") = {dumps}
    BY DEF GetRawDumps
  <1>2. \A f \in DOMAIN held : \E n \in DumpNames : f = FileOf(n) /\ NameOf(f) = n
    BY NameIsKept DEF FileNames
  <1>3. \A f, g \in DOMAIN held : NameOf(f) = NameOf(g) => f = g
    BY <1>2
  <1>4. DOMAIN dumps = {name[f] : f \in DOMAIN held}
    BY <1>1, NamedDomain
  <1>5. ASSUME NEW f \in DOMAIN held PROVE dumps[NameOf(f)] = held[f]
    <2>1. \A g \in DOMAIN held : name[g] = name[f] => g = f
      BY <1>3
    <2>2. Named(held, name)[name[f]] = held[f]
      BY <2>1, NamedValue
    <2> QED
      BY <1>1, <2>2
  <1>6. dumps = [n \in DOMAIN dumps |-> dumps[n]]
    BY <1>1, NamedIsMapping
  <1> QED
    BY <1>1, <1>2, <1>4, <1>5, <1>6

\* S3 gives back the dump without a name, as a minidump.
LEMMA S3ReadsBack ==
  ASSUME NEW dumps \in GetRawDumps("s3")
  PROVE  /\ Nothing \in DOMAIN kept["s3"].dumps
         /\ dumps = [n \in {Minidump} |-> kept["s3"].dumps[Nothing]]
  BY DEF GetRawDumps

\* A key has a dump of the save; without a name it has the only one.
LEMMA S3KeysHold ==
  ASSUME NEW dumps, DOMAIN dumps \subseteq DumpNames, NEW k \in DOMAIN S3Keys(dumps)
  PROVE  \E n \in DOMAIN dumps :
            /\ S3Keys(dumps)[k] = dumps[n]
            /\ k = Nothing /\ IsFiniteSet(DumpNames) => DOMAIN dumps = {n}
  <1> DEFINE name == [n \in DOMAIN dumps |-> IF Cardinality(DOMAIN dumps) > 1 THEN n ELSE Nothing]
  <1>1. PICK n \in DOMAIN dumps : name[n] = k /\ S3Keys(dumps)[k] = dumps[n]
    BY NamedComesFrom DEF S3Keys
  <1>2. ASSUME k = Nothing, IsFiniteSet(DumpNames) PROVE DOMAIN dumps = {n}
    <2>1. IsFiniteSet(DOMAIN dumps)
      BY <1>2, FS_Subset
    <2>2. ~(Cardinality(DOMAIN dumps) > 1)
      BY <1>1, <1>2, StoragesAssumption
    <2>3. Cardinality(DOMAIN dumps) \in Nat /\ Cardinality(DOMAIN dumps) # 0
      BY <2>1, FS_CardinalityType, FS_EmptySet
    <2>4. Cardinality(DOMAIN dumps) = 1
      BY <2>2, <2>3
    <2>5. PICK m : DOMAIN dumps = {m}
      BY <2>1, <2>4, FS_Singleton
    <2> QED
      BY <2>5
  <1> QED
    BY <1>1, <1>2

\* What is overwritten has the new value, the rest the old one.
LEMMA OverwrittenValue ==
  ASSUME NEW old, NEW new, NEW all, all = Overwritten(old, new)
  PROVE  /\ DOMAIN all = DOMAIN old \cup DOMAIN new
         /\ \A k \in DOMAIN new : all[k] = new[k]
         /\ \A k \in DOMAIN old \ DOMAIN new : all[k] = old[k]
  BY DEF Overwritten

-----------------------------------------------------------------------------
(* The kinds of steps. *)

\* A reprocess request or the worker has read the crash back and begins to save.
Begins(p, t) ==
    /\ p \in Processes /\ IsTask(t) /\ task' = [task EXCEPT ![p] = t]
    /\ UNCHANGED <<config, submitted, walk, kept, docs, refused>>
    /\ \/ /\ p = "webapp" /\ t.op = "SaveRawCrash" /\ t.report = NoReport
          /\ config.web \in {"fs", "s3"} /\ kept[config.web].raw /\ t.dumps \in GetRawDumps(config.web)
       \/ /\ p = "worker" /\ kept["fs"].raw /\ t.dumps \in GetRawDumps("fs")
          /\ t.report \in Analyses(t.dumps) /\ t.todo = config.dst

\* A save ends, and the source copy may go.
Ends(p) == /\ p \in Processes /\ task' = [task EXCEPT ![p] = Idle]
           /\ UNCHANGED <<config, submitted, walk, docs>> /\ (refused => refused')
           /\ kept' = kept \/ kept' = [kept EXCEPT !["fs"] = NotHeld]

\* The clock and the delete.
Elsewhere == UNCHANGED <<config, submitted, walk, kept, task>> /\ docs' \subseteq docs /\ (refused => refused')

LEMMA Kinds ==
  ASSUME TasksInv, [Next]_vars
  PROVE  \/ \E p \in Processes : Store(p)
         \/ \E p, t : Begins(p, t)
         \/ \E p : Ends(p)
         \/ Elsewhere
  <1>1. config.web \in {"fs", "s3"} /\ config.classes \in Seq(Classes) /\ config.dst \in Seq(Classes)
    BY ConfigAssumption DEF TasksInv, ShapeOK, Classes
  <1>2. CASE Reprocess
    <2>1. PICK dumps \in GetRawDumps(config.web) :
             /\ kept[config.web].raw
             /\ Start("webapp", Save("SaveRawCrash", config.classes, dumps, NoReport))
      BY <1>2 DEF Reprocess
    <2>2. PICK t : t = Save("SaveRawCrash", config.classes, dumps, NoReport)
      OBVIOUS
    <2>3. IsReport(NoReport)
      BY DEF IsReport, NoReport
    <2>4. IsTask(t) /\ t.op = "SaveRawCrash" /\ t.dumps = dumps /\ t.report = NoReport
      BY <1>1, <2>2, <2>3, SaveIsTask
    <2>5. UNCHANGED <<config, submitted, walk, kept, docs, refused>> /\ task' = [task EXCEPT !["webapp"] = t]
      BY <1>2, <2>1, <2>2 DEF Reprocess, Start
    <2>6. Begins("webapp", t)
      BY <1>1, <2>1, <2>4, <2>5 DEF Begins, Processes
    <2> QED
      BY <2>6
  <1>3. CASE Process
    <2> DEFINE op == IF config.saveRaw THEN "SaveRawAndProcessed" ELSE "SaveProcessed"
    <2>1. PICK dumps \in GetRawDumps("fs") : \E report \in Analyses(dumps) :
             queued /\ Start("worker", Save(op, config.dst, dumps, report))
      BY <1>3 DEF Process
    <2>2. PICK report \in Analyses(dumps) : queued /\ Start("worker", Save(op, config.dst, dumps, report))
      BY <2>1
    <2>3. PICK t : t = Save(op, config.dst, dumps, report)
      OBVIOUS
    <2>4. IsReport(report)
      BY AnalysesDate DEF TasksInv
    <2>5. IsTask(t) /\ t.dumps = dumps /\ t.report = report /\ t.todo = config.dst
      BY <1>1, <2>3, <2>4, SaveIsTask
    <2>6. UNCHANGED <<config, submitted, walk, kept, docs, refused>> /\ task' = [task EXCEPT !["worker"] = t]
      BY <1>3, <2>2, <2>3 DEF Process, Start, Around
    <2>7. kept["fs"].raw
      BY <2>2 DEF TasksInv, QueuedOnce
    <2>8. Begins("worker", t)
      BY <2>1, <2>2, <2>5, <2>6, <2>7 DEF Begins, Processes
    <2> QED
      BY <2>8
  <1>4. CASE Finish
    <2>1. Ends("worker")
      BY <1>4 DEF Finish, Ends, Around, Processes
    <2> QED
      BY <2>1
  <1>5. CASE Panic
    <2>1. Ends("worker")
      BY <1>5 DEF Panic, Ends, Around, Processes
    <2> QED
      BY <2>1
  <1>6. ASSUME NEW p \in Processes, Answer(p) PROVE Ends(p)
    BY <1>6 DEF Answer, Ends, Around
  <1>7. CASE NextWeek \/ UNCHANGED vars \/ (\E names : Delete(names)) \/ (\E i \in purge : DeleteFrom(i))
    <2>1. UNCHANGED <<config, submitted, walk, kept, task>>
      BY <1>7 DEF NextWeek, vars, Delete, DeleteFrom
    <2>2. docs' \subseteq docs
      BY <1>7 DEF NextWeek, vars, Delete, DeleteFrom
    <2>3. refused => refused'
      <3>1. CASE NextWeek \/ UNCHANGED vars \/ \E i \in purge : DeleteFrom(i)
        BY <3>1 DEF NextWeek, vars, DeleteFrom
      <3>2. CASE \E names : Delete(names)
        BY <3>2 DEF Delete
      <3> QED
        BY <1>7, <3>1, <3>2
    <2> QED
      BY <2>1, <2>2, <2>3 DEF Elsewhere
  <1> QED
    BY <1>2, <1>3, <1>4, <1>5, <1>6, <1>7 DEF Next

\* What a storage does to the save, and what the filesystem and S3 hold of it then.
LEMMA StoreDoes ==
  ASSUME ShapeOK, NEW p \in Processes, Store(p)
  PROVE  /\ UNCHANGED <<config, submitted, walk>> /\ (refused => refused')
         /\ task[p].todo # <<>> /\ task[p].todo \in Seq(Classes) /\ Head(task[p].todo) = Target(p)
         /\ \E t : /\ IsTask(t) /\ task' = [task EXCEPT ![p] = t]
                   /\ t.op = task[p].op /\ t.todo = Tail(task[p].todo) /\ t.dumps = task[p].dumps
                   /\ t.report.date = task[p].report.date
                   /\ \/ t.report.dump = task[p].report.dump
                      \/ t.report.dump = Nothing /\ Target(p) = "es"
         /\ kept'["fs"] = kept["fs"] \/ (Target(p) = "fs" /\ kept'["fs"] = With(kept["fs"], task[p], Files(task[p].dumps), {}))
         /\ \/ kept'["s3"] = kept["s3"]
            \/ /\ Target(p) = "s3"
               /\ \E lost : /\ kept'["s3"] = With(kept["s3"], task[p], S3Keys(task[p].dumps), lost)
                            /\ refused' = (refused \/ lost # {})
         /\ \/ docs' = docs
            \/ SavesReport(task[p].op) /\ docs' = docs \cup {task[p].report.date}
  <1>1. UNCHANGED <<config, submitted, walk>>
    BY DEF Store, StoreFs, StoreS3, StoreEs, StoreNull, Around
  <1>2. refused => refused'
    BY StoreStays DEF Stays
  <1>3. task[p].todo \in Seq(Classes) /\ task[p].todo # <<>> /\ Head(task[p].todo) = Target(p)
    BY StoreAdvances
  <1>4. Target(p) # Nothing
    BY DEF Store, StoreFs, StoreS3, StoreEs, StoreNull, Nothing
  <1>5. IsReport(task[p].report)
    BY DEF ShapeOK, IsTask
  <1>6. PICK report : /\ Advance(p, report) /\ IsReport(report) /\ report.date = task[p].report.date
                      /\ report.dump = task[p].report.dump \/ (report.dump = Nothing /\ Target(p) = "es")
    <2>1. CASE Advance(p, task[p].report)
      BY <1>5, <2>1
    <2>2. CASE Advance(p, [task[p].report EXCEPT !.dump = Nothing]) /\ Target(p) = "es"
      <3>1. PICK r : r = [task[p].report EXCEPT !.dump = Nothing]
        OBVIOUS
      <3>2. IsReport(r) /\ r.date = task[p].report.date /\ r.dump = Nothing
        BY <1>5, <3>1 DEF IsReport
      <3> QED
        BY <2>2, <3>1, <3>2
    <2> QED
      BY <2>1, <2>2 DEF Store, StoreFs, StoreS3, StoreEs, StoreNull
  <1>7. \E t : /\ IsTask(t) /\ task' = [task EXCEPT ![p] = t]
               /\ t.op = task[p].op /\ t.todo = Tail(task[p].todo) /\ t.dumps = task[p].dumps /\ t.report = report
    BY <1>4, <1>6, AdvanceShape
  <1>8. docs' = docs \/ (SavesReport(task[p].op) /\ docs' = docs \cup {task[p].report.date})
    BY DEF Store, StoreFs, StoreS3, StoreEs, StoreNull, IndexOf
  <1> QED
    BY <1>1, <1>2, <1>3, <1>6, <1>7, <1>8, StoreHolds

\* What is held after a save, some of whose parts may be lost.
LEMMA WithParts ==
  ASSUME NEW h, NEW t, NEW names, NEW lost, NEW new, new = With(h, t, names, lost)
  PROVE  /\ new.raw <=> (h.raw \/ (SavesRaw(t.op) /\ "raw" \notin lost))
         /\ new.processed <=> (h.processed \/ (SavesReport(t.op) /\ "report" \notin lost))
         /\ \/ new.dumps = h.dumps
            \/ SavesRaw(t.op) /\ "dumps" \notin lost /\ new.dumps = Overwritten(h.dumps, names)
         /\ \/ new.report = h.report /\ ~(SavesReport(t.op) /\ "report" \notin lost)
            \/ SavesReport(t.op) /\ new.report = t.report
         /\ new.raw \in BOOLEAN /\ new.processed \in BOOLEAN
  <1>1. new.raw = (h.raw \/ (SavesRaw(t.op) /\ "raw" \notin lost))
    BY DEF With
  <1>2. new.processed = (h.processed \/ (SavesReport(t.op) /\ "report" \notin lost))
    BY DEF With
  <1>3. \/ new.dumps = h.dumps
        \/ SavesRaw(t.op) /\ "dumps" \notin lost /\ new.dumps = Overwritten(h.dumps, names)
    BY DEF With
  <1>4. \/ new.report = h.report /\ ~(SavesReport(t.op) /\ "report" \notin lost)
        \/ SavesReport(t.op) /\ new.report = t.report
    BY DEF With
  <1>5. new.raw \in BOOLEAN /\ new.processed \in BOOLEAN
    BY <1>1, <1>2
  <1> QED
    BY <1>1, <1>2, <1>3, <1>4, <1>5

-----------------------------------------------------------------------------
(* Types. *)

\* What is read back was uploaded.
LEMMA ReadsUploaded ==
  ASSUME PlacesInv, NEW s \in {"fs", "s3"}, NEW dumps \in GetRawDumps(s)
  PROVE  DOMAIN dumps \subseteq DumpNames /\ \A n \in DOMAIN dumps : dumps[n] \in submitted
  <1>1. \A k \in DOMAIN kept[s].dumps : kept[s].dumps[k] \in submitted
    BY DEF PlacesInv, TypeOK
  <1>2. CASE s = "fs"
    <2>1. DOMAIN kept["fs"].dumps \subseteq FileNames
      BY DEF PlacesInv, DumpsOK
    <2>2. /\ DOMAIN dumps = {NameOf(f) : f \in DOMAIN kept["fs"].dumps} /\ DOMAIN dumps \subseteq DumpNames
          /\ \A f \in DOMAIN kept["fs"].dumps : dumps[NameOf(f)] = kept["fs"].dumps[f]
      BY <1>2, <2>1, FilesReadBack
    <2> QED
      BY <1>1, <1>2, <2>2
  <1>3. CASE s = "s3"
    <2>1. DOMAIN dumps = {Minidump} /\ dumps[Minidump] = kept["s3"].dumps[Nothing] /\ Nothing \in DOMAIN kept["s3"].dumps
      BY <1>3, S3ReadsBack
    <2>2. Minidump \in DumpNames
      BY StoragesAssumption
    <2> QED
      BY <1>1, <1>3, <2>1, <2>2
  <1> QED
    BY <1>2, <1>3

\* The report of a crash with minidumps is that of one of them.
LEMMA AnalysesAre ==
  ASSUME PlacesInv, NEW dumps, \A n \in DOMAIN dumps : dumps[n] \in submitted, NEW report \in Analyses(dumps)
  PROVE  /\ report.dump \in DumpNames \cup {Nothing} /\ report.date \in Undated .. MaxWeek
         /\ HasMinidump(DOMAIN dumps) =>
               \E n \in DOMAIN dumps \cap Minidumps :
                  /\ report.dump = dumps[n]
                  /\ report.date = IF Time(dumps[n]) = Undated THEN week ELSE Time(dumps[n])
         /\ ~HasMinidump(DOMAIN dumps) => report = NoReport
  <1> DEFINE minidumps == {n \in DOMAIN dumps : IsMinidump(n)}
             DateOf(n) == IF Time(dumps[n]) = Undated THEN week ELSE Time(dumps[n])
  <1>1. Undated \in Undated .. MaxWeek /\ week \in Undated .. MaxWeek
    BY StoragesAssumption DEF PlacesInv, TypeOK, Undated
  <1>2. \A d : Time(d) \in Undated .. MaxWeek
    <2>1. walk \in [submitted \cap Minidumps -> Undated .. MaxWeek]
      BY DEF PlacesInv
    <2> QED
      BY <1>1, <2>1 DEF Time
  <1>3. \A n : DateOf(n) \in Undated .. MaxWeek
    BY <1>1, <1>2
  <1>4. CASE minidumps = {}
    BY <1>1, <1>4 DEF Analyses, NoReport, HasMinidump, IsMinidump
  <1>5. CASE minidumps # {}
    <2>1. PICK n \in minidumps : report = [dump |-> dumps[n], date |-> DateOf(n)]
      BY <1>5 DEF Analyses
    <2>2. n \in DOMAIN dumps \cap Minidumps /\ HasMinidump(DOMAIN dumps)
      BY DEF IsMinidump, HasMinidump
    <2>3. DateOf(n) \in Undated .. MaxWeek
      BY <1>3
    <2>4. dumps[n] \in DumpNames
      BY <2>2 DEF PlacesInv, TypeOK
    <2>5. report.dump = dumps[n] /\ report.date = DateOf(n)
      BY <2>1
    <2> QED
      BY <2>2, <2>3, <2>4, <2>5
  <1> QED
    BY <1>4, <1>5

\* A report by its parts.
LEMMA ReportType ==
  ASSUME NEW r, IsReport(r), r.dump \in DumpNames \cup {Nothing}, r.date \in Undated .. MaxWeek
  PROVE  r \in Reports
  BY DEF IsReport, Reports

\* What the saves, the filesystem and S3 have.
ContentsOK ==
    /\ DumpsOK
    /\ \A s \in {"fs", "s3"} :
          /\ kept[s].raw \in BOOLEAN /\ kept[s].processed \in BOOLEAN /\ kept[s].report \in Reports
          /\ \A k \in DOMAIN kept[s].dumps : kept[s].dumps[k] \in submitted
    /\ \A p \in Processes : task[p].report \in Reports

\* A storage takes over what the save has.
LEMMA StoreContents == ASSUME PlacesInv, NEW p \in Processes, Store(p) PROVE ContentsOK'
  <1>1. ShapeOK /\ ContentsOK /\ submitted \subseteq DumpNames
    BY DEF PlacesInv, TasksInv, TypeOK, ContentsOK
  <1>2. /\ UNCHANGED submitted
        /\ kept'["fs"] = kept["fs"] \/ kept'["fs"] = With(kept["fs"], task[p], Files(task[p].dumps), {})
        /\ kept'["s3"] = kept["s3"] \/ \E lost : kept'["s3"] = With(kept["s3"], task[p], S3Keys(task[p].dumps), lost)
    BY <1>1, StoreDoes
  <1>3. PICK t : /\ IsTask(t) /\ task' = [task EXCEPT ![p] = t] /\ t.dumps = task[p].dumps
                 /\ t.report.date = task[p].report.date
                 /\ t.report.dump = task[p].report.dump \/ t.report.dump = Nothing
    BY <1>1, StoreDoes
  <1>4. task'[p] = t /\ \A q \in Processes : q # p => task'[q] = task[q]
    BY <1>1, <1>3, TaskShape
  <1>5. /\ DOMAIN task[p].dumps \subseteq DumpNames
        /\ \A n \in DOMAIN task[p].dumps : task[p].dumps[n] \in submitted
    BY <1>1 DEF ContentsOK, DumpsOK
  <1>6. task[p].report \in Reports
    BY <1>1 DEF ContentsOK
  <1>7. t.report \in Reports
    <2>1. task[p].report.dump \in DumpNames \cup {Nothing} /\ task[p].report.date \in Undated .. MaxWeek
      BY <1>6 DEF Reports
    <2>2. IsReport(t.report)
      BY <1>3 DEF IsTask
    <2> QED
      BY <1>3, <2>1, <2>2, ReportType
  <1>8. \A q \in Processes : /\ task'[q].report \in Reports /\ DOMAIN task'[q].dumps \subseteq DumpNames
                             /\ \A n \in DOMAIN task'[q].dumps : task'[q].dumps[n] \in submitted
    BY <1>1, <1>3, <1>4, <1>5, <1>7 DEF ContentsOK, DumpsOK
  <1>9. ASSUME NEW s \in {"fs", "s3"}, NEW names, NEW lost, kept'[s] = With(kept[s], task[p], names, lost),
               \A k \in DOMAIN names : names[k] \in submitted
        PROVE  /\ kept'[s].raw \in BOOLEAN /\ kept'[s].processed \in BOOLEAN /\ kept'[s].report \in Reports
               /\ DOMAIN kept'[s].dumps \subseteq DOMAIN kept[s].dumps \cup DOMAIN names
               /\ \A k \in DOMAIN kept'[s].dumps : kept'[s].dumps[k] \in submitted
    <2>1. /\ kept'[s].dumps = kept[s].dumps \/ kept'[s].dumps = Overwritten(kept[s].dumps, names)
          /\ kept'[s].report = kept[s].report \/ kept'[s].report = task[p].report
          /\ kept'[s].raw \in BOOLEAN /\ kept'[s].processed \in BOOLEAN
      BY <1>9, WithParts
    <2>2. kept[s].report \in Reports /\ \A k \in DOMAIN kept[s].dumps : kept[s].dumps[k] \in submitted
      BY <1>1 DEF ContentsOK
    <2>3. PICK old : old = kept[s].dumps
      OBVIOUS
    <2>4. PICK all : all = Overwritten(old, names)
      OBVIOUS
    <2>5. /\ DOMAIN all = DOMAIN old \cup DOMAIN names
          /\ \A k \in DOMAIN names : all[k] = names[k]
          /\ \A k \in DOMAIN old \ DOMAIN names : all[k] = old[k]
      BY <2>4 DEF Overwritten
    <2>6. \A k \in DOMAIN all : all[k] \in submitted
      BY <1>9, <2>2, <2>3, <2>5
    <2>7. kept'[s].dumps = old \/ kept'[s].dumps = all
      BY <2>1, <2>3, <2>4
    <2> QED
      BY <1>6, <2>1, <2>2, <2>3, <2>5, <2>6, <2>7
  <1>10. \A k \in DOMAIN Files(task[p].dumps) : Files(task[p].dumps)[k] \in submitted /\ k \in FileNames
    <2>1. PICK names : names = Files(task[p].dumps)
      OBVIOUS
    <2>2. /\ DOMAIN names = {FileOf(n) : n \in DOMAIN task[p].dumps}
          /\ \A n \in DOMAIN task[p].dumps : names[FileOf(n)] = task[p].dumps[n]
      BY <1>5, <2>1, FilesHold
    <2> QED
      BY <1>5, <2>1, <2>2 DEF FileNames
  <1>11. \A k \in DOMAIN S3Keys(task[p].dumps) : S3Keys(task[p].dumps)[k] \in submitted
    BY <1>5, S3KeysHold
  <1>12. /\ kept'["fs"].raw \in BOOLEAN /\ kept'["fs"].processed \in BOOLEAN /\ kept'["fs"].report \in Reports
         /\ DOMAIN kept'["fs"].dumps \subseteq FileNames
         /\ \A k \in DOMAIN kept'["fs"].dumps : kept'["fs"].dumps[k] \in submitted
    <2>1. CASE kept'["fs"] = kept["fs"]
      BY <1>1, <2>1 DEF ContentsOK, DumpsOK
    <2>2. CASE kept'["fs"] = With(kept["fs"], task[p], Files(task[p].dumps), {})
      <3>1. DOMAIN kept["fs"].dumps \subseteq FileNames
        BY <1>1 DEF ContentsOK, DumpsOK
      <3> QED
        BY <1>9, <1>10, <2>2, <3>1
    <2> QED
      BY <1>2, <2>1, <2>2
  <1>13. /\ kept'["s3"].raw \in BOOLEAN /\ kept'["s3"].processed \in BOOLEAN /\ kept'["s3"].report \in Reports
         /\ \A k \in DOMAIN kept'["s3"].dumps : kept'["s3"].dumps[k] \in submitted
    <2>1. CASE kept'["s3"] = kept["s3"]
      BY <1>1, <2>1 DEF ContentsOK
    <2>2. ASSUME NEW lost, kept'["s3"] = With(kept["s3"], task[p], S3Keys(task[p].dumps), lost)
          PROVE  /\ kept'["s3"].raw \in BOOLEAN /\ kept'["s3"].processed \in BOOLEAN /\ kept'["s3"].report \in Reports
                 /\ \A k \in DOMAIN kept'["s3"].dumps : kept'["s3"].dumps[k] \in submitted
      BY <1>9, <1>11, <2>2
    <2> QED
      BY <1>2, <2>1, <2>2
  <1> QED
    BY <1>2, <1>8, <1>12, <1>13 DEF ContentsOK, DumpsOK

\* What begins has what was read back, and what ends has nothing.
LEMMA OthersContents ==
  ASSUME PlacesInv, (\E p, t : Begins(p, t)) \/ (\E p : Ends(p)) \/ Elsewhere PROVE ContentsOK'
  <1>1. ShapeOK /\ ContentsOK /\ submitted \subseteq DumpNames /\ MaxWeek \in Nat
    BY StoragesAssumption DEF PlacesInv, TasksInv, TypeOK, ContentsOK
  <1>2. IsReport(NoReport) /\ NoReport \in Reports
    BY <1>1 DEF NoReport, IsReport, Reports, Undated
  <1>3. /\ IsTask(Idle) /\ Idle.report \in Reports /\ DOMAIN Idle.dumps = {}
    BY <1>2, IdleIsTask DEF Idle
  <1>4. ASSUME NEW p \in Processes, NEW t, IsTask(t), task' = [task EXCEPT ![p] = t], t.report \in Reports,
               DOMAIN t.dumps \subseteq DumpNames, \A n \in DOMAIN t.dumps : t.dumps[n] \in submitted,
               kept' = kept \/ kept' = [kept EXCEPT !["fs"] = NotHeld], UNCHANGED submitted
        PROVE  ContentsOK'
    <2>1. task'[p] = t /\ \A q \in Processes : q # p => task'[q] = task[q]
      BY <1>1, <1>4, TaskShape
    <2>2. \A s \in {"fs", "s3"} : kept'[s] = kept[s] \/ kept'[s] = NotHeld
      BY <1>1, <1>4 DEF ShapeOK
    <2>3. /\ NotHeld.raw \in BOOLEAN /\ NotHeld.processed \in BOOLEAN /\ NotHeld.report \in Reports
          /\ DOMAIN NotHeld.dumps = {}
      BY <1>2 DEF NotHeld
    <2>4. \A q \in Processes : /\ task'[q].report \in Reports /\ DOMAIN task'[q].dumps \subseteq DumpNames
                               /\ \A n \in DOMAIN task'[q].dumps : task'[q].dumps[n] \in submitted
      BY <1>1, <1>4, <2>1 DEF ContentsOK, DumpsOK
    <2>5. \A s \in {"fs", "s3"} :
             /\ kept'[s].raw \in BOOLEAN /\ kept'[s].processed \in BOOLEAN /\ kept'[s].report \in Reports
             /\ \A k \in DOMAIN kept'[s].dumps : kept'[s].dumps[k] \in submitted
      BY <1>1, <2>2, <2>3 DEF ContentsOK
    <2>6. DOMAIN kept'["fs"].dumps \subseteq FileNames
      BY <1>1, <2>2, <2>3 DEF ContentsOK, DumpsOK
    <2> QED
      BY <1>4, <2>4, <2>5, <2>6 DEF ContentsOK, DumpsOK
  <1>5. ASSUME NEW p, NEW t, Begins(p, t) PROVE ContentsOK'
    <2>1. PICK s \in {"fs", "s3"} : t.dumps \in GetRawDumps(s)
      BY <1>5 DEF Begins
    <2>2. DOMAIN t.dumps \subseteq DumpNames /\ \A n \in DOMAIN t.dumps : t.dumps[n] \in submitted
      BY <2>1, ReadsUploaded
    <2>3. t.report \in Reports
      <3>1. CASE t.report = NoReport
        BY <1>2, <3>1
      <3>2. CASE t.report \in Analyses(t.dumps)
        <4>1. IsReport(t.report)
          BY <1>5 DEF Begins, IsTask
        <4> QED
          BY <2>2, <3>2, <4>1, AnalysesAre, ReportType
      <3> QED
        BY <1>5, <3>1, <3>2 DEF Begins
    <2> QED
      BY <1>4, <1>5, <2>2, <2>3 DEF Begins
  <1>6. ASSUME NEW p, Ends(p) PROVE ContentsOK'
    BY <1>3, <1>4, <1>6 DEF Ends
  <1>7. CASE Elsewhere
    BY <1>1, <1>7 DEF Elsewhere, ContentsOK, DumpsOK
  <1> QED
    BY <1>5, <1>6, <1>7

\* Every step keeps the types.
LEMMA NextPlaces == ASSUME PlacesInv, [Next]_vars PROVE PlacesInv'
  <1>1. TasksInv /\ TasksInv'
    BY NextTasks DEF PlacesInv
  <1>2. ContentsOK'
    BY <1>1, Kinds, StoreContents, OthersContents
  <1>3. UNCHANGED <<config, submitted, walk>>
    BY DEF Next, vars, Reprocess, Process, Finish, Panic, NextWeek, Answer, Delete, DeleteFrom, Around,
           Store, StoreFs, StoreS3, StoreEs, StoreNull
  <1>4. week' \in 1 .. MaxWeek
    <2>1. week' = week \/ (week < MaxWeek /\ week' = week + 1)
      BY DEF Next, vars, Reprocess, Process, Finish, Panic, NextWeek, Answer, Delete, DeleteFrom, Around,
             Store, StoreFs, StoreS3, StoreEs, StoreNull
    <2> QED
      BY <2>1, StoragesAssumption DEF PlacesInv, TypeOK
  <1>5. docs' \subseteq Undated .. MaxWeek /\ {purge, spared}' \subseteq SUBSET (Undated .. MaxWeek)
    <2>1. docs \subseteq Undated .. MaxWeek /\ purge \subseteq Undated .. MaxWeek /\ spared \subseteq Undated .. MaxWeek
      BY DEF PlacesInv, TypeOK
    <2>2. docs' \subseteq Undated .. MaxWeek
      <3>1. ASSUME NEW p \in Processes, Store(p) PROVE docs' \subseteq Undated .. MaxWeek
        <4>1. task[p].report.date \in Undated .. MaxWeek
          BY DEF PlacesInv, TypeOK, Reports
        <4> QED
          BY <1>1, <2>1, <3>1, <4>1, StoreDoes, Zenon DEF TasksInv
      <3>2. CASE docs' \subseteq docs
        BY <2>1, <3>2
      <3> QED
        BY <1>1, <3>1, <3>2, Kinds DEF Begins, Ends, Elsewhere
    <2>3. purge' \subseteq Undated .. MaxWeek
      <3>1. \/ purge' \subseteq purge
            \/ \E names \in SUBSET (Undated .. MaxWeek) : purge' = names
        BY DEF Next, vars, Reprocess, Process, Finish, Panic, NextWeek, Answer, Delete, DeleteFrom, Around,
               AfterRefusal, Store, StoreFs, StoreS3, StoreEs, StoreNull
      <3> QED
        BY <2>1, <3>1
    <2>4. spared' \subseteq Undated .. MaxWeek
      <3>1. spared' \in {spared, {}} \/ \E i : spared' = spared \cup (docs \cap {i})
        BY DEF Next, vars, Reprocess, Process, Finish, Panic, NextWeek, Answer, Delete, DeleteFrom, Around,
               Store, StoreFs, StoreS3, StoreEs, StoreNull
      <3> QED
        BY <2>1, <3>1
    <2> QED
      BY <2>2, <2>3, <2>4
  <1>6. {queued, backLink, refused}' \subseteq BOOLEAN
    <2>1. {queued, backLink, refused} \subseteq BOOLEAN
      BY DEF PlacesInv, TypeOK
    <2>2. refused' \in BOOLEAN
      BY <2>1 DEF Next, vars, Reprocess, Process, Finish, Panic, NextWeek, Answer, Delete, DeleteFrom, Around,
                  Store, StoreFs, StoreS3, StoreEs, StoreNull
    <2>3. queued' \in BOOLEAN
      BY <2>1 DEF Next, vars, Reprocess, Process, Finish, Panic, NextWeek, Answer, Delete, DeleteFrom, Around,
                  Store, StoreFs, StoreS3, StoreEs, StoreNull
    <2>4. backLink' \in BOOLEAN
      BY <2>1 DEF Next, vars, Reprocess, Process, Finish, Panic, NextWeek, Answer, Delete, DeleteFrom, Around,
                  Store, StoreFs, StoreS3, StoreEs, StoreNull
    <2> QED
      BY <2>2, <2>3, <2>4
  <1>7. deleted' \in {"no", "deleted", "back"}
    BY DEF PlacesInv, TypeOK, Next, vars, Reprocess, Process, Finish, Panic, NextWeek, Answer, Delete,
           DeleteFrom, Around, Store, StoreFs, StoreS3, StoreEs, StoreNull
  <1>8. TypeOK'
    <2>1. config' \in Configs /\ submitted' \subseteq DumpNames
      BY <1>3 DEF PlacesInv, TypeOK
    <2> QED
      BY <1>2, <1>4, <1>5, <1>6, <1>7, <2>1 DEF TypeOK, ContentsOK
  <1>9. walk' \in [submitted' \cap Minidumps -> Undated .. MaxWeek]
    BY <1>3 DEF PlacesInv
  <1> QED
    BY <1>1, <1>2, <1>8, <1>9 DEF PlacesInv, ContentsOK

\* At first there is the upload and nothing else.
LEMMA InitHas ==
  ASSUME Init
  PROVE  /\ task["collector"].dumps = IdentityOf(submitted)
         /\ \A p \in Processes : task[p].report = NoReport
         /\ \A p \in {"webapp", "worker"} : task[p].dumps = <<>> /\ task[p].op = "idle"
         /\ \A s \in {"fs", "s3"} : /\ ~kept[s].raw /\ ~kept[s].processed
                                    /\ kept[s].dumps = <<>> /\ kept[s].report = NoReport
         /\ docs = {} /\ walk \in [submitted \cap Minidumps -> Undated .. MaxWeek]
  <1> DEFINE first == Save("SaveRawCrash", config.classes, IdentityOf(submitted), NoReport)
  <1>1. first.dumps = IdentityOf(submitted) /\ first.report = NoReport
    BY DEF Save
  <1>2. task = [p \in Processes |-> IF p = "collector" THEN first ELSE Idle]
    BY DEF Init, IdentityOf
  <1> HIDE DEF first
  <1>3. task["collector"] = first /\ task["webapp"] = Idle /\ task["worker"] = Idle
    BY <1>2 DEF Processes
  <1>4. Idle.dumps = <<>> /\ Idle.report = NoReport /\ Idle.op = "idle"
    BY DEF Idle
  <1>5. ~NotHeld.raw /\ ~NotHeld.processed /\ NotHeld.dumps = <<>> /\ NotHeld.report = NoReport
    BY DEF NotHeld
  <1>6. kept["fs"] = NotHeld /\ kept["s3"] = NotHeld
    BY DEF Init
  <1>7. docs = {} /\ walk \in [submitted \cap Minidumps -> Undated .. MaxWeek]
    BY DEF Init
  <1> QED
    BY <1>1, <1>3, <1>4, <1>5, <1>6, <1>7 DEF Processes

\* The types hold at first.
LEMMA InitPlaces == ASSUME Init PROVE PlacesInv
  <1>1. submitted \subseteq DumpNames /\ config \in Configs /\ week \in 1 .. MaxWeek
    BY StoragesAssumption DEF Init
  <1>2. NoReport \in Reports
    BY StoragesAssumption DEF NoReport, Reports, Undated
  <1>3. DOMAIN <<>> = {}
    OBVIOUS
  <1>4. \A s \in {"fs", "s3"} :
           /\ kept[s].raw \in BOOLEAN /\ kept[s].processed \in BOOLEAN /\ kept[s].report \in Reports
           /\ \A k \in DOMAIN kept[s].dumps : kept[s].dumps[k] \in submitted
    <2>1. NotHeld.raw \in BOOLEAN /\ NotHeld.processed \in BOOLEAN
      BY DEF NotHeld
    <2>2. kept["fs"] = NotHeld /\ kept["s3"] = NotHeld
      BY DEF Init
    <2> QED
      BY <1>2, <1>3, <2>1, <2>2, InitHas
  <1>5. DumpsOK
    <2>1. DOMAIN IdentityOf(submitted) = submitted /\ \A n \in submitted : IdentityOf(submitted)[n] = n
      BY DEF IdentityOf
    <2> QED
      BY <1>1, <1>3, <2>1, InitHas DEF DumpsOK, Processes
  <1>6. /\ docs \subseteq Undated .. MaxWeek /\ {purge, spared} \subseteq SUBSET (Undated .. MaxWeek)
        /\ {queued, backLink, refused} \subseteq BOOLEAN /\ deleted \in {"no", "deleted", "back"}
    BY DEF Init
  <1>7. TypeOK
    BY <1>1, <1>2, <1>4, <1>6, InitHas DEF TypeOK
  <1> QED
    BY <1>5, <1>7, InitHas, InitTasks DEF PlacesInv

\* Whatever is uploaded, configured, refused and asked for again, the filesystem, S3 and the
\* running saves hold dumps of the upload only, and reports and indices have their types.
THEOREM StoragesTypeOK == Spec => []TypeOK
  <1>1. Init => PlacesInv
    BY InitPlaces
  <1>2. PlacesInv /\ [Next]_vars => PlacesInv'
    BY NextPlaces
  <1>3. PlacesInv => TypeOK
    BY DEF PlacesInv
  <1> QED
    BY <1>1, <1>2, <1>3, PTL DEF Spec

-----------------------------------------------------------------------------
(* The stack. *)

\* Lists of the same members.
LEMMA SameList ==
  ASSUME NEW t \in Seq(Classes), NEW u \in Seq(Classes), Len(t) = Len(u), \A i \in 1 .. Len(t) : t[i] = u[i]
  PROVE  t = u
  <1>1. DOMAIN t = 1 .. Len(t) /\ DOMAIN u = 1 .. Len(t) /\ Len(t) \in Nat
    OBVIOUS
  <1>2. t = [i \in 1 .. Len(t) |-> t[i]] /\ u = [i \in 1 .. Len(t) |-> u[i]]
    BY <1>1
  <1> QED
    BY <1>2

\* The first of the destinations that are still to come, and the rest.
LEMMA RestOf ==
  ASSUME NEW q \in Seq(Classes), NEW k \in 0 .. Len(q), NEW r, r = SubSeq(q, k + 1, Len(q)), r # <<>>
  PROVE  k + 1 \in 1 .. Len(q) /\ Head(r) = q[k + 1] /\ Tail(r) = SubSeq(q, (k + 1) + 1, Len(q))
  <1>1. Len(q) \in Nat /\ k \in Nat /\ k <= Len(q)
    OBVIOUS
  <1>2. k + 1 <= Len(q)
    BY <1>1
  <1>3. r \in Seq(Classes) /\ Len(r) = Len(q) - k /\ \A i \in 1 .. Len(r) : r[i] = q[k + i]
    BY <1>1, <1>2
  <1>4. Head(r) = q[k + 1]
    BY <1>1, <1>2, <1>3
  <1>5. PICK t : t = Tail(r)
    OBVIOUS
  <1>6. t \in Seq(Classes) /\ Len(t) = Len(r) - 1 /\ \A i \in 1 .. Len(t) : t[i] = r[i + 1]
    BY <1>1, <1>2, <1>3, <1>5
  <1>7. PICK u : u = SubSeq(q, (k + 1) + 1, Len(q))
    OBVIOUS
  <1>8. u \in Seq(Classes) /\ Len(u) = Len(q) - (k + 1) /\ \A i \in 1 .. Len(u) : u[i] = q[(k + 1) + i]
    BY <1>1, <1>2, <1>7
  <1>9. Len(t) = Len(u) /\ \A i \in 1 .. Len(t) : t[i] = u[i]
    <2>1. Len(t) = Len(u)
      BY <1>1, <1>3, <1>6, <1>8
    <2>2. ASSUME NEW i \in 1 .. Len(t) PROVE t[i] = u[i]
      <3>1. t[i] = r[i + 1] /\ i + 1 \in 1 .. Len(r)
        BY <1>1, <1>3, <1>6
      <3>2. r[i + 1] = q[k + (i + 1)]
        BY <1>3, <3>1
      <3>3. u[i] = q[(k + 1) + i]
        BY <1>8, <2>1
      <3>4. (k + 1) + i = k + (i + 1)
        BY <1>1
      <3> QED
        BY <3>1, <3>2, <3>3, <3>4
    <2> QED
      BY <2>1, <2>2
  <1>10. t = u
    BY <1>6, <1>8, <1>9, SameList
  <1> QED
    BY <1>1, <1>2, <1>4, <1>5, <1>7, <1>10

\* Before anything was stored everything is still to come.
LEMMA AllOf == ASSUME NEW q \in Seq(Classes) PROVE q = SubSeq(q, 0 + 1, Len(q)) /\ 0 \in 0 .. Len(q)
  <1>1. Len(q) \in Nat
    OBVIOUS
  <1>2. PICK r : r = SubSeq(q, 0 + 1, Len(q))
    OBVIOUS
  <1>3. r \in Seq(Classes) /\ Len(r) = Len(q) /\ \A i \in 1 .. Len(r) : r[i] = q[i]
    BY <1>1, <1>2
  <1>4. r = q
    BY <1>3
  <1> QED
    BY <1>1, <1>2, <1>4

\* A storage keeps a minidump under a minidump's name.
LEMMA StoreMinidumps ==
  ASSUME IsFiniteSet(DumpNames), PlacesInv, HasMinidump(submitted), MinidumpsInv, NEW p \in Processes, Store(p)
  PROVE  MinidumpsInv'
  <1>1. ShapeOK /\ MinidumpStays /\ DumpsOK
    BY DEF PlacesInv, TasksInv
  <1>2. PICK t : IsTask(t) /\ task' = [task EXCEPT ![p] = t] /\ t.dumps = task[p].dumps
    BY <1>1, StoreDoes
  <1>3. \A q \in Processes : task'[q].dumps = task[q].dumps
    BY <1>1, <1>2, TaskShape
  <1>4. PICK d : d = task[p].dumps
    OBVIOUS
  <1>5. DOMAIN d \subseteq DumpNames /\ \A n \in DOMAIN d \cap Minidumps : d[n] \in Minidumps
    BY <1>1, <1>4 DEF DumpsOK, MinidumpsInv
  <1>6. ASSUME NEW f \in DOMAIN kept'["fs"].dumps, NameOf(f) \in Minidumps
        PROVE  kept'["fs"].dumps[f] \in Minidumps
    <2>1. PICK old, names, all : /\ old = kept["fs"].dumps /\ names = Files(d) /\ all = Overwritten(old, names)
      OBVIOUS
    <2>2. /\ DOMAIN all = DOMAIN old \cup DOMAIN names
          /\ \A k \in DOMAIN names : all[k] = names[k]
          /\ \A k \in DOMAIN old \ DOMAIN names : all[k] = old[k]
      BY <2>1 DEF Overwritten
    <2>3. DOMAIN names = {FileOf(n) : n \in DOMAIN d} /\ \A n \in DOMAIN d : names[FileOf(n)] = d[n]
      BY <1>5, <2>1, FilesHold
    <2>4. \A k \in DOMAIN old : NameOf(k) \in Minidumps => old[k] \in Minidumps
      BY <2>1 DEF MinidumpsInv
    <2>5. kept'["fs"].dumps = old \/ kept'["fs"].dumps = all
      <3>1. CASE kept'["fs"] = kept["fs"]
        BY <2>1, <3>1
      <3>2. CASE kept'["fs"] = With(kept["fs"], task[p], Files(task[p].dumps), {})
        BY <1>4, <2>1, <3>2, WithParts
      <3> QED
        BY <1>1, <3>1, <3>2, StoreDoes
    <2>6. CASE f \in DOMAIN names /\ kept'["fs"].dumps = all
      <3>1. PICK n \in DOMAIN d : f = FileOf(n)
        BY <2>3, <2>6
      <3>2. NameOf(f) = n
        BY <1>5, <3>1, NameIsKept
      <3>3. d[n] \in Minidumps
        BY <1>5, <1>6, <3>2
      <3> QED
        BY <2>2, <2>3, <2>6, <3>1, <3>3
    <2>7. CASE ~(f \in DOMAIN names /\ kept'["fs"].dumps = all)
      BY <1>6, <2>2, <2>4, <2>5, <2>7
    <2> QED
      BY <2>6, <2>7
  <1>7. ASSUME Nothing \in DOMAIN kept'["s3"].dumps PROVE kept'["s3"].dumps[Nothing] \in Minidumps
    <2>1. PICK old, names, all : /\ old = kept["s3"].dumps /\ names = S3Keys(d) /\ all = Overwritten(old, names)
      OBVIOUS
    <2>2. /\ DOMAIN all = DOMAIN old \cup DOMAIN names
          /\ \A k \in DOMAIN names : all[k] = names[k]
          /\ \A k \in DOMAIN old \ DOMAIN names : all[k] = old[k]
      BY <2>1 DEF Overwritten
    <2>3. Nothing \in DOMAIN old => old[Nothing] \in Minidumps
      BY <2>1 DEF MinidumpsInv
    <2>4. kept'["s3"].dumps = old \/ (kept'["s3"].dumps = all /\ SavesRaw(task[p].op))
      <3>1. CASE kept'["s3"] = kept["s3"]
        BY <2>1, <3>1
      <3>2. ASSUME NEW lost, kept'["s3"] = With(kept["s3"], task[p], S3Keys(task[p].dumps), lost)
            PROVE  kept'["s3"].dumps = old \/ (kept'["s3"].dumps = all /\ SavesRaw(task[p].op))
        BY <1>4, <2>1, <3>2, WithParts
      <3> QED
        BY <1>1, <3>1, <3>2, StoreDoes
    <2>5. CASE Nothing \in DOMAIN names /\ kept'["s3"].dumps = all /\ SavesRaw(task[p].op)
      <3>1. PICK n \in DOMAIN d : names[Nothing] = d[n] /\ DOMAIN d = {n}
        BY <1>5, <2>1, <2>5, S3KeysHold
      <3>2. HasMinidump(DOMAIN d)
        BY <1>1, <1>4, <2>5 DEF MinidumpStays
      <3>3. n \in Minidumps
        BY <3>1, <3>2 DEF HasMinidump
      <3> QED
        BY <1>5, <2>2, <2>5, <3>1, <3>3
    <2>6. CASE ~(Nothing \in DOMAIN names /\ kept'["s3"].dumps = all /\ SavesRaw(task[p].op))
      BY <1>7, <2>2, <2>3, <2>4, <2>6
    <2> QED
      BY <2>5, <2>6
  <1>8. \A q \in Processes : \A n \in DOMAIN task'[q].dumps \cap Minidumps : task'[q].dumps[n] \in Minidumps
    BY <1>3 DEF MinidumpsInv
  <1> QED
    BY <1>6, <1>7, <1>8 DEF MinidumpsInv

\* What is read back has minidumps under their names.
LEMMA ReadsMinidumps ==
  ASSUME PlacesInv, MinidumpsInv, NEW s \in {"fs", "s3"}, NEW dumps \in GetRawDumps(s)
  PROVE  \A n \in DOMAIN dumps \cap Minidumps : dumps[n] \in Minidumps
  <1>1. CASE s = "fs"
    <2>1. DOMAIN kept["fs"].dumps \subseteq FileNames
      BY DEF PlacesInv, DumpsOK
    <2>2. /\ DOMAIN dumps = {NameOf(f) : f \in DOMAIN kept["fs"].dumps}
          /\ \A f \in DOMAIN kept["fs"].dumps : dumps[NameOf(f)] = kept["fs"].dumps[f]
      BY <1>1, <2>1, FilesReadBack
    <2> QED
      BY <2>2 DEF MinidumpsInv
  <1>2. CASE s = "s3"
    <2>1. DOMAIN dumps = {Minidump} /\ dumps[Minidump] = kept["s3"].dumps[Nothing] /\ Nothing \in DOMAIN kept["s3"].dumps
      BY <1>2, S3ReadsBack
    <2> QED
      BY <2>1 DEF MinidumpsInv
  <1> QED
    BY <1>1, <1>2

\* Until Elasticsearch was among them, what the destinations are given has the stack of a minidump.
LEMMA StoreReport ==
  ASSUME PlacesInv, ReportInv, ReportKeepsStack, HasMinidump(submitted), NEW p \in Processes, Store(p)
  PROVE  ReportInv' /\ ReportKeepsStack'
  <1>1. ShapeOK /\ OpsOK
    BY DEF PlacesInv, TasksInv
  <1>2. UNCHANGED <<config, submitted>>
    BY <1>1, StoreDoes
  <1>3. PICK t : /\ IsTask(t) /\ task' = [task EXCEPT ![p] = t]
                 /\ t.op = task[p].op /\ t.todo = Tail(task[p].todo)
                 /\ \/ t.report.dump = task[p].report.dump
                    \/ t.report.dump = Nothing /\ Target(p) = "es"
    BY <1>1, StoreDoes
  <1>4. task'[p] = t /\ \A q \in Processes : q # p => task'[q] = task[q]
    BY <1>1, <1>3, TaskShape
  <1>5. /\ task[p].todo # <<>> /\ Head(task[p].todo) = Target(p) /\ task[p].op # "idle"
        /\ task[p].todo \in Seq(Classes)
    BY <1>1, StoreDoes DEF OpsOK
  <1>6. config.dst \in Seq(Classes)
    BY <1>1, ConfigAssumption DEF ShapeOK, Classes
  <1>7. \A s \in {"fs", "s3"} :
           \/ kept'[s].report = kept[s].report /\ (kept'[s].processed => kept[s].processed)
           \/ Target(p) = s /\ SavesReport(task[p].op) /\ kept'[s].report = task[p].report
    <2>1. ASSUME NEW s \in {"fs", "s3"}, NEW names, NEW lost, kept'[s] = With(kept[s], task[p], names, lost),
                 Target(p) = s
          PROVE  \/ kept'[s].report = kept[s].report /\ (kept'[s].processed => kept[s].processed)
                 \/ Target(p) = s /\ SavesReport(task[p].op) /\ kept'[s].report = task[p].report
      BY <2>1, WithParts
    <2>2. kept'["fs"] = kept["fs"] \/ (Target(p) = "fs" /\ kept'["fs"] = With(kept["fs"], task[p], Files(task[p].dumps), {}))
      BY <1>1, StoreDoes
    <2>3. \/ kept'["s3"] = kept["s3"]
          \/ Target(p) = "s3" /\ \E lost : kept'["s3"] = With(kept["s3"], task[p], S3Keys(task[p].dumps), lost)
      BY <1>1, StoreDoes
    <2> QED
      BY <2>1, <2>2, <2>3
  <1>8. CASE p # "worker"
    <2>1. ~SavesReport(task[p].op)
      BY <1>1, <1>8 DEF OpsOK, SavesReport, Processes
    <2>2. \A s \in {"fs", "s3"} : kept'[s].report = kept[s].report /\ (kept'[s].processed => kept[s].processed)
      BY <1>7, <2>1
    <2>3. task'["worker"] = task["worker"]
      BY <1>4, <1>8 DEF Processes
    <2> QED
      BY <1>2, <2>2, <2>3 DEF ReportInv, ReportKeepsStack, Before, Behind
  <1>9. CASE p = "worker"
    <2>1. PICK k \in 0 .. Len(config.dst) :
             /\ task[p].todo = SubSeq(config.dst, k + 1, Len(config.dst))
             /\ task[p].report.dump \in Minidumps \/ Behind(k)
      BY <1>5, <1>9 DEF ReportInv
    <2>2. PICK dst, todo : dst = config.dst /\ todo = task[p].todo
      OBVIOUS
    <2>3. k + 1 \in 1 .. Len(dst) /\ Head(todo) = dst[k + 1] /\ Tail(todo) = SubSeq(dst, (k + 1) + 1, Len(dst))
      BY <1>5, <1>6, <2>1, <2>2, RestOf
    <2>4. Len(dst) \in Nat /\ k \in Nat /\ DOMAIN dst = 1 .. Len(dst)
      BY <1>6, <2>1, <2>2
    <2>5. Target(p) = dst[k + 1]
      BY <1>5, <2>2, <2>3
    <2>6. Behind(k) => Behind(k + 1)
      BY <2>4 DEF Behind
    <2>7. Target(p) = "es" => Behind(k + 1)
      <3>1. k + 1 \in 1 .. (k + 1)
        BY <2>4
      <3>2. Target(p) = config.dst[k + 1]
        BY <2>2, <2>5
      <3> QED
        BY <3>1, <3>2 DEF Behind
    <2>8. t.report.dump \in Minidumps \/ Behind(k + 1)
      BY <1>3, <2>1, <2>6, <2>7
    <2>9. ReportInv'
      <3>1. k + 1 \in 0 .. Len(config'.dst)
        BY <1>2, <2>2, <2>3, <2>4
      <3>2. task'["worker"].todo = SubSeq(config'.dst, (k + 1) + 1, Len(config'.dst))
        BY <1>2, <1>3, <1>4, <1>9, <2>2, <2>3
      <3>3. task'["worker"].report.dump \in Minidumps \/ Behind(k + 1)'
        BY <1>2, <1>4, <1>9, <2>8 DEF Behind
      <3> QED
        BY <3>1, <3>2, <3>3 DEF ReportInv
    <2>10. ASSUME NEW s \in {"fs", "s3"}, kept'[s].processed, ~Before("es", s), submitted \cap Minidumps # {}
           PROVE  kept'[s].report.dump \in Minidumps
      <3>1. CASE kept'[s].report = kept[s].report /\ kept[s].processed
        BY <2>10, <3>1 DEF ReportKeepsStack
      <3>2. CASE Target(p) = s /\ kept'[s].report = task[p].report
        <4>1. ~Behind(k)
          <5>1. ASSUME NEW i \in 1 .. k, dst[i] = "es" PROVE FALSE
            <6>1. i \in DOMAIN dst /\ k + 1 \in DOMAIN dst /\ i < k + 1
              BY <2>3, <2>4
            <6> QED
              BY <2>2, <2>5, <2>10, <3>2, <5>1, <6>1 DEF Before
          <5> QED
            BY <2>2, <5>1 DEF Behind
        <4> QED
          BY <2>1, <3>2, <4>1
      <3> QED
        BY <1>7, <2>10, <3>1, <3>2
    <2>11. ReportKeepsStack'
      BY <1>2, <2>10 DEF ReportKeepsStack, Before
    <2> QED
      BY <2>9, <2>11
  <1> QED
    BY <1>8, <1>9

\* The worker begins with the stack of a minidump.
LEMMA OthersStack ==
  ASSUME PlacesInv, StackInv, HasMinidump(submitted), (\E p, t : Begins(p, t)) \/ (\E p : Ends(p)) \/ Elsewhere
  PROVE  StackInv'
  <1>1. ShapeOK /\ TasksInv /\ MinidumpsInv /\ ReportInv /\ ReportKeepsStack
    BY DEF PlacesInv, TasksInv, StackInv
  <1>2. DOMAIN <<>> = {}
    OBVIOUS
  <1>3. IsTask(Idle) /\ Idle.dumps = <<>> /\ Idle.op = "idle"
    BY IdleIsTask DEF Idle
  <1>4. ~NotHeld.processed /\ NotHeld.dumps = <<>>
    BY DEF NotHeld
  <1>5. ASSUME NEW p \in Processes, NEW t, IsTask(t), task' = [task EXCEPT ![p] = t],
               \A n \in DOMAIN t.dumps \cap Minidumps : t.dumps[n] \in Minidumps,
               p = "worker" /\ t.op # "idle" => t.todo = config.dst /\ t.report.dump \in Minidumps,
               kept' = kept \/ kept' = [kept EXCEPT !["fs"] = NotHeld], UNCHANGED <<config, submitted>>
        PROVE  StackInv'
    <2>1. task'[p] = t /\ \A q \in Processes : q # p => task'[q] = task[q]
      BY <1>1, <1>5, TaskShape
    <2>2. \A s \in {"fs", "s3"} : kept'[s] = kept[s] \/ kept'[s] = NotHeld
      BY <1>1, <1>5 DEF ShapeOK
    <2>3. MinidumpsInv'
      <3>1. \A q \in Processes : \A n \in DOMAIN task'[q].dumps \cap Minidumps : task'[q].dumps[n] \in Minidumps
        BY <1>1, <1>5, <2>1 DEF MinidumpsInv
      <3>2. \A f \in DOMAIN kept'["fs"].dumps : NameOf(f) \in Minidumps => kept'["fs"].dumps[f] \in Minidumps
        BY <1>1, <1>2, <1>4, <2>2 DEF MinidumpsInv
      <3>3. Nothing \in DOMAIN kept'["s3"].dumps => kept'["s3"].dumps[Nothing] \in Minidumps
        BY <1>1, <1>2, <1>4, <2>2 DEF MinidumpsInv
      <3> QED
        BY <3>1, <3>2, <3>3 DEF MinidumpsInv
    <2>4. ReportInv'
      <3>1. CASE p # "worker"
        <4>1. task'["worker"] = task["worker"]
          BY <2>1, <3>1 DEF Processes
        <4> QED
          BY <1>1, <1>5, <4>1 DEF ReportInv, Behind
      <3>2. CASE p = "worker" /\ t.op = "idle"
        BY <2>1, <3>2 DEF ReportInv
      <3>3. CASE p = "worker" /\ t.op # "idle"
        <4>1. PICK dst : dst = config.dst
          OBVIOUS
        <4>2. dst \in Seq(Classes)
          BY <1>1, <4>1, ConfigAssumption DEF ShapeOK, Classes
        <4>3. dst = SubSeq(dst, 0 + 1, Len(dst)) /\ 0 \in 0 .. Len(dst)
          BY <4>2, AllOf
        <4>4. task'["worker"].todo = dst /\ task'["worker"].report.dump \in Minidumps /\ config'.dst = dst
          BY <1>5, <2>1, <3>3, <4>1
        <4>5. /\ task'["worker"].todo = SubSeq(config'.dst, 0 + 1, Len(config'.dst))
              /\ task'["worker"].report.dump \in Minidumps /\ 0 \in 0 .. Len(config'.dst)
          BY <4>3, <4>4
        <4> QED
          BY <4>5 DEF ReportInv
      <3> QED
        BY <3>1, <3>2, <3>3
    <2>5. ReportKeepsStack'
      <3>1. ASSUME NEW s \in {"fs", "s3"}, kept'[s].processed, ~Before("es", s), submitted \cap Minidumps # {}
            PROVE  kept'[s].report.dump \in Minidumps
        BY <1>1, <1>4, <2>2, <3>1 DEF ReportKeepsStack
      <3> QED
        BY <1>5, <3>1 DEF ReportKeepsStack, Before
    <2> QED
      BY <2>3, <2>4, <2>5 DEF StackInv
  <1>6. ASSUME NEW p, NEW t, Begins(p, t) PROVE StackInv'
    <2>1. PICK s \in {"fs", "s3"} : t.dumps \in GetRawDumps(s) /\ kept[s].raw /\ (p = "worker" => s = "fs")
      BY <1>6 DEF Begins
    <2>2. \A n \in DOMAIN t.dumps \cap Minidumps : t.dumps[n] \in Minidumps
      BY <1>1, <2>1, ReadsMinidumps
    <2>3. ASSUME p = "worker" PROVE t.todo = config.dst /\ t.report.dump \in Minidumps
      <3>1. t.todo = config.dst /\ t.report \in Analyses(t.dumps)
        BY <1>6, <2>3 DEF Begins
      <3>2. HasMinidump(DOMAIN t.dumps)
        BY <1>1, <2>1, ReadsMinidump
      <3>3. \A n \in DOMAIN t.dumps : t.dumps[n] \in submitted
        BY <2>1, ReadsUploaded
      <3>4. \E n \in DOMAIN t.dumps \cap Minidumps : t.report.dump = t.dumps[n]
        BY <3>1, <3>2, <3>3, AnalysesAre
      <3> QED
        BY <2>2, <3>1, <3>4
    <2> QED
      BY <1>5, <1>6, <2>2, <2>3 DEF Begins
  <1>7. ASSUME NEW p, Ends(p) PROVE StackInv'
    BY <1>2, <1>3, <1>5, <1>7 DEF Ends
  <1>8. CASE Elsewhere
    BY <1>1, <1>8 DEF Elsewhere, StackInv, MinidumpsInv, ReportInv, ReportKeepsStack, Before, Behind
  <1> QED
    BY <1>6, <1>7, <1>8

\* At first no report is stored and every dump is under its own name.
LEMMA InitStack == ASSUME Init PROVE StackInv
  <1>1. DOMAIN IdentityOf(submitted) = submitted /\ \A n \in submitted : IdentityOf(submitted)[n] = n
    BY DEF IdentityOf
  <1>2. DOMAIN <<>> = {}
    OBVIOUS
  <1>3. MinidumpsInv
    BY <1>1, <1>2, InitHas DEF MinidumpsInv, Processes
  <1>4. ReportInv
    BY InitHas DEF ReportInv
  <1>5. ReportKeepsStack
    BY InitHas DEF ReportKeepsStack
  <1> QED
    BY <1>3, <1>4, <1>5 DEF StackInv

\* With finitely many fields, a report in the filesystem or in S3 has the stack of a minidump,
\* in whatever order minidumps are analysed and however often, unless Elasticsearch comes
\* before that storage among the destinations.
THEOREM StoragesReportKeepsStack == ASSUME IsFiniteSet(DumpNames) PROVE Spec => []ReportKeepsStack
  <1> DEFINE Inv == PlacesInv /\ (HasMinidump(submitted) => StackInv) /\ (~HasMinidump(submitted) => ReportKeepsStack)
  <1>1. Init => Inv
    BY InitPlaces, InitStack DEF StackInv
  <1>2. Inv /\ [Next]_vars => Inv'
    <2> SUFFICES ASSUME Inv, [Next]_vars PROVE Inv'
      OBVIOUS
    <2>1. PlacesInv' /\ PlacesInv /\ TasksInv
      BY NextPlaces DEF PlacesInv
    <2>2. submitted' = submitted
      BY <2>1, Kinds, StoreDoes DEF Begins, Ends, Elsewhere, TasksInv
    <2>3. CASE HasMinidump(submitted)
      <3>1. StackInv'
        BY <2>1, <2>3, Kinds, StoreMinidumps, StoreReport, OthersStack DEF StackInv
      <3> QED
        BY <2>1, <2>2, <2>3, <3>1 DEF HasMinidump
    <2>4. CASE ~HasMinidump(submitted)
      <3>1. submitted' \cap Minidumps = {}
        BY <2>2, <2>4 DEF HasMinidump
      <3>2. ReportKeepsStack'
        BY <3>1 DEF ReportKeepsStack
      <3>3. ~HasMinidump(submitted')
        BY <2>2, <2>4
      <3> QED
        BY <2>1, <3>2, <3>3
    <2> QED
      BY <2>3, <2>4
  <1>3. Inv => ReportKeepsStack
    BY DEF StackInv
  <1> QED
    BY <1>1, <1>2, <1>3, PTL DEF Spec

-----------------------------------------------------------------------------
(* Names. *)

\* The dumps of the upload under their names.
LEMMA IdentityHas == \A names : /\ DOMAIN IdentityOf(names) = names
                                /\ \A n \in names : IdentityOf(names)[n] = n
  BY DEF IdentityOf

\* A mapping of every name to itself.
LEMMA IsIdentity ==
  ASSUME NEW names, NEW dumps, dumps = [n \in DOMAIN dumps |-> dumps[n]], DOMAIN dumps = names,
         \A n \in names : dumps[n] = n
  PROVE  dumps = IdentityOf(names)
  BY DEF IdentityOf

\* The filesystem gives back what was uploaded.
LEMMA FilesReadIdentity ==
  ASSUME PlacesInv, NamesInv, kept["fs"].raw PROVE GetRawDumps("fs") = {IdentityOf(submitted)}
  <1>1. DOMAIN kept["fs"].dumps \subseteq FileNames /\ submitted \subseteq DumpNames
    BY DEF PlacesInv, DumpsOK, TypeOK
  <1>2. PICK dumps : dumps \in GetRawDumps("fs")
    BY DEF GetRawDumps
  <1>3. PICK held : held = kept["fs"].dumps
    OBVIOUS
  <1>4. /\ GetRawDumps("fs") = {dumps} /\ dumps = [n \in DOMAIN dumps |-> dumps[n]]
        /\ DOMAIN dumps = {NameOf(f) : f \in DOMAIN held}
        /\ \A f \in DOMAIN held : dumps[NameOf(f)] = held[f]
    BY <1>1, <1>2, <1>3, FilesReadBack
  <1>5. DOMAIN held = {FileOf(n) : n \in submitted} /\ \A f \in DOMAIN held : held[f] = NameOf(f)
    BY <1>3 DEF NamesInv
  <1>6. \A n \in submitted : NameOf(FileOf(n)) = n
    BY <1>1, NameIsKept
  <1>7. DOMAIN dumps = submitted
    BY <1>4, <1>5, <1>6
  <1>8. \A n \in submitted : dumps[n] = n
    BY <1>4, <1>5, <1>6
  <1>9. dumps = IdentityOf(submitted)
    BY <1>4, <1>7, <1>8, IsIdentity
  <1> QED
    BY <1>4, <1>9

\* And so does S3, when it has a minidump alone.
LEMMA S3ReadsIdentity ==
  ASSUME NamesInv, submitted = {Minidump}, NEW dumps \in GetRawDumps("s3")
  PROVE  dumps = IdentityOf(submitted)
  <1>1. Nothing \in DOMAIN kept["s3"].dumps /\ dumps = [n \in {Minidump} |-> kept["s3"].dumps[Nothing]]
    BY S3ReadsBack
  <1>2. kept["s3"].dumps[Nothing] = Minidump
    BY <1>1 DEF NamesInv
  <1> QED
    BY <1>1, <1>2 DEF IdentityOf

\* The key of a minidump alone has no name.
LEMMA S3KeyOfOne ==
  ASSUME NEW d, d = IdentityOf({Minidump}), NEW keys, keys = S3Keys(d)
  PROVE  DOMAIN keys = {Nothing} /\ keys[Nothing] = Minidump
  <1>1. DOMAIN d = {Minidump} /\ d[Minidump] = Minidump
    BY IdentityHas
  <1>2. ~(Cardinality(DOMAIN d) > 1)
    <2>1. Cardinality({Minidump}) = 1
      BY FS_Singleton
    <2> QED
      BY <1>1, <2>1
  <1>3. PICK name : name = [n \in DOMAIN d |-> IF Cardinality(DOMAIN d) > 1 THEN n ELSE Nothing]
    OBVIOUS
  <1>4. name[Minidump] = Nothing
    BY <1>1, <1>2, <1>3
  <1>5. keys = Named(d, name)
    BY <1>3 DEF S3Keys
  <1>6. DOMAIN keys = {name[n] : n \in DOMAIN d}
    BY <1>5, NamedDomain
  <1>7. DOMAIN keys = {Nothing}
    BY <1>1, <1>4, <1>6
  <1>8. keys[Nothing] = Minidump
    <2>1. PICK n \in DOMAIN d : Named(d, name)[Nothing] = d[n]
      BY <1>5, <1>7, NamedComesFrom
    <2> QED
      BY <1>1, <1>5, <2>1
  <1> QED
    BY <1>7, <1>8

\* A storage keeps the names.
LEMMA StoreNames == ASSUME PlacesInv, NamesInv, NEW p \in Processes, Store(p) PROVE NamesInv'
  <1>1. ShapeOK /\ DumpsOK /\ submitted \subseteq DumpNames
    BY DEF PlacesInv, TasksInv, TypeOK
  <1>2. UNCHANGED submitted /\ (refused => refused')
    BY <1>1, StoreDoes
  <1>3. PICK t : IsTask(t) /\ task' = [task EXCEPT ![p] = t] /\ t.op = task[p].op /\ t.dumps = task[p].dumps
    BY <1>1, StoreDoes
  <1>4. \A q \in Processes : task'[q].dumps = task[q].dumps /\ task'[q].op = task[q].op
    BY <1>1, <1>3, TaskShape
  <1>5. \A q \in Processes : SavesRaw(task'[q].op) => task'[q].dumps = IdentityOf(submitted')
    BY <1>2, <1>4 DEF NamesInv
  <1>6. PICK d : d = task[p].dumps
    OBVIOUS
  <1>7. DOMAIN d \subseteq DumpNames /\ (SavesRaw(task[p].op) => d = IdentityOf(submitted))
    BY <1>1, <1>6 DEF DumpsOK, NamesInv
  <1>8. /\ DOMAIN kept'["fs"].dumps = IF kept'["fs"].raw THEN {FileOf(n) : n \in submitted} ELSE {}
        /\ \A f \in DOMAIN kept'["fs"].dumps : kept'["fs"].dumps[f] = NameOf(f)
    <2>1. PICK old, names, all : /\ old = kept["fs"].dumps /\ names = Files(d) /\ all = Overwritten(old, names)
      OBVIOUS
    <2>2. /\ DOMAIN old = IF kept["fs"].raw THEN {FileOf(n) : n \in submitted} ELSE {}
          /\ \A f \in DOMAIN old : old[f] = NameOf(f)
      BY <2>1 DEF NamesInv
    <2>3. CASE Target(p) = "fs" /\ SavesRaw(task[p].op)
      <3>1. kept'["fs"].dumps = all /\ kept'["fs"].raw
        BY <1>1, <1>6, <2>1, <2>3, StoreHolds, WithAll
      <3>2. /\ DOMAIN all = DOMAIN old \cup DOMAIN names
            /\ \A k \in DOMAIN names : all[k] = names[k]
            /\ \A k \in DOMAIN old \ DOMAIN names : all[k] = old[k]
        BY <2>1 DEF Overwritten
      <3>3. DOMAIN d = submitted /\ \A n \in submitted : d[n] = n
        BY <1>7, <2>3, IdentityHas
      <3>4. DOMAIN names = {FileOf(n) : n \in submitted} /\ \A n \in submitted : names[FileOf(n)] = n
        BY <1>7, <2>1, <3>3, FilesHold
      <3>5. \A n \in submitted : NameOf(FileOf(n)) = n
        BY <1>1, NameIsKept
      <3>6. DOMAIN all = {FileOf(n) : n \in submitted}
        BY <2>2, <3>2, <3>4
      <3>7. \A f \in DOMAIN all : all[f] = NameOf(f)
        BY <3>2, <3>4, <3>5, <3>6
      <3> QED
        BY <3>1, <3>6, <3>7
    <2>4. CASE ~(Target(p) = "fs" /\ SavesRaw(task[p].op))
      <3>1. kept'["fs"].dumps = old /\ (kept'["fs"].raw <=> kept["fs"].raw)
        <4>1. CASE Target(p) # "fs"
          BY <1>1, <2>1, <4>1, StoreHolds
        <4>2. CASE Target(p) = "fs" /\ ~SavesRaw(task[p].op)
          BY <1>1, <2>1, <4>2, StoreHolds, WithAll
        <4> QED
          BY <2>4, <4>1, <4>2
      <3> QED
        BY <2>2, <3>1
    <2> QED
      BY <2>3, <2>4
  <1>9. ASSUME submitted = {Minidump}
        PROVE  /\ DOMAIN kept'["s3"].dumps \subseteq {Nothing}
               /\ \A k \in DOMAIN kept'["s3"].dumps : kept'["s3"].dumps[k] = Minidump
               /\ kept'["s3"].raw /\ ~refused' => Nothing \in DOMAIN kept'["s3"].dumps
    <2>1. PICK old, names, all : /\ old = kept["s3"].dumps /\ names = S3Keys(d) /\ all = Overwritten(old, names)
      OBVIOUS
    <2>2. /\ DOMAIN old \subseteq {Nothing} /\ \A k \in DOMAIN old : old[k] = Minidump
          /\ kept["s3"].raw /\ ~refused => Nothing \in DOMAIN old
      BY <1>9, <2>1 DEF NamesInv
    <2>3. CASE kept'["s3"] = kept["s3"]
      BY <1>2, <2>1, <2>2, <2>3
    <2>4. ASSUME NEW lost, kept'["s3"] = With(kept["s3"], task[p], S3Keys(task[p].dumps), lost),
                 refused' = (refused \/ lost # {})
          PROVE  /\ DOMAIN kept'["s3"].dumps \subseteq {Nothing}
                 /\ \A k \in DOMAIN kept'["s3"].dumps : kept'["s3"].dumps[k] = Minidump
                 /\ kept'["s3"].raw /\ ~refused' => Nothing \in DOMAIN kept'["s3"].dumps
      <3>1. kept'["s3"].dumps = old \/ (SavesRaw(task[p].op) /\ kept'["s3"].dumps = all)
        BY <1>6, <2>1, <2>4, WithParts
      <3>2. /\ DOMAIN all = DOMAIN old \cup DOMAIN names
            /\ \A k \in DOMAIN names : all[k] = names[k]
            /\ \A k \in DOMAIN old \ DOMAIN names : all[k] = old[k]
        BY <2>1 DEF Overwritten
      <3>3. SavesRaw(task[p].op) => DOMAIN names = {Nothing} /\ names[Nothing] = Minidump
        BY <1>7, <1>9, <2>1, S3KeyOfOne
      <3>4. SavesRaw(task[p].op) => DOMAIN all = {Nothing} /\ all[Nothing] = Minidump
        BY <2>2, <3>2, <3>3
      <3>5. ASSUME kept'["s3"].raw, ~refused' PROVE Nothing \in DOMAIN kept'["s3"].dumps
        <4>1. lost = {} /\ ~refused
          BY <2>4, <3>5
        <4>2. CASE SavesRaw(task[p].op)
          <5>1. kept'["s3"].dumps = all
            BY <1>6, <2>1, <2>4, <4>1, <4>2, WithAll
          <5> QED
            BY <3>4, <4>2, <5>1
        <4>3. CASE ~SavesRaw(task[p].op)
          <5>1. kept'["s3"].dumps = old /\ kept["s3"].raw
            BY <2>1, <2>4, <3>5, <4>1, <4>3, WithAll
          <5> QED
            BY <2>2, <4>1, <5>1
        <4> QED
          BY <4>2, <4>3
      <3> QED
        BY <2>2, <3>1, <3>4, <3>5
    <2> QED
      BY <1>1, <2>3, <2>4, StoreDoes
  <1> QED
    BY <1>2, <1>5, <1>8, <1>9 DEF NamesInv

\* What begins has the dumps of the upload, and what ends has none.
LEMMA OthersNames ==
  ASSUME PlacesInv, NamesLast, NamesInv, (\E p, t : Begins(p, t)) \/ (\E p : Ends(p)) \/ Elsewhere
  PROVE  NamesInv'
  <1>1. ShapeOK
    BY DEF PlacesInv, TasksInv
  <1>2. DOMAIN <<>> = {}
    OBVIOUS
  <1>3. IsTask(Idle) /\ ~SavesRaw(Idle.op)
    BY IdleIsTask DEF SavesRaw
  <1>4. ~NotHeld.raw /\ NotHeld.dumps = <<>>
    BY DEF NotHeld
  <1>5. ASSUME NEW p \in Processes, NEW t, IsTask(t), task' = [task EXCEPT ![p] = t],
               SavesRaw(t.op) => t.dumps = IdentityOf(submitted),
               kept' = kept \/ kept' = [kept EXCEPT !["fs"] = NotHeld], submitted' = submitted, refused => refused'
        PROVE  NamesInv'
    <2>1. task'[p] = t /\ \A q \in Processes : q # p => task'[q] = task[q]
      BY <1>1, <1>5, TaskShape
    <2>2. (kept'["fs"] = kept["fs"] \/ kept'["fs"] = NotHeld) /\ kept'["s3"] = kept["s3"]
      BY <1>1, <1>5 DEF ShapeOK
    <2>3. \A q \in Processes : SavesRaw(task'[q].op) => task'[q].dumps = IdentityOf(submitted')
      BY <1>5, <2>1 DEF NamesInv
    <2>4. /\ DOMAIN kept'["fs"].dumps = IF kept'["fs"].raw THEN {FileOf(n) : n \in submitted'} ELSE {}
          /\ \A f \in DOMAIN kept'["fs"].dumps : kept'["fs"].dumps[f] = NameOf(f)
      <3>1. CASE kept'["fs"] = kept["fs"]
        BY <1>5, <3>1 DEF NamesInv
      <3>2. CASE kept'["fs"] = NotHeld
        BY <1>2, <1>4, <3>2
      <3> QED
        BY <2>2, <3>1, <3>2
    <2>5. submitted' = {Minidump} =>
             /\ DOMAIN kept'["s3"].dumps \subseteq {Nothing}
             /\ \A k \in DOMAIN kept'["s3"].dumps : kept'["s3"].dumps[k] = Minidump
             /\ kept'["s3"].raw /\ ~refused' => Nothing \in DOMAIN kept'["s3"].dumps
      BY <1>5, <2>2 DEF NamesInv
    <2> QED
      BY <2>3, <2>4, <2>5 DEF NamesInv
  <1>6. ASSUME NEW p, NEW t, Begins(p, t) PROVE NamesInv'
    <2>1. t.dumps = IdentityOf(submitted)
      <3>1. CASE t.dumps \in GetRawDumps("fs") /\ kept["fs"].raw
        BY <3>1, FilesReadIdentity
      <3>2. CASE t.dumps \in GetRawDumps("s3") /\ config.web = "s3"
        <4>1. submitted = {Minidump}
          BY <3>2 DEF NamesLast
        <4> QED
          BY <3>2, <4>1, S3ReadsIdentity
      <3> QED
        BY <1>6, <3>1, <3>2 DEF Begins
    <2> QED
      BY <1>5, <1>6, <2>1 DEF Begins
  <1>7. ASSUME NEW p, Ends(p) PROVE NamesInv'
    BY <1>3, <1>5, <1>7 DEF Ends
  <1>8. CASE Elsewhere
    BY <1>8 DEF Elsewhere, NamesInv
  <1> QED
    BY <1>6, <1>7, <1>8

\* Every step keeps the names, and whether they last.
LEMMA NextNames == ASSUME PlacesInv, NamesLast => NamesInv, [Next]_vars PROVE (NamesLast => NamesInv)'
  <1>1. TasksInv
    BY DEF PlacesInv
  <1>2. UNCHANGED <<config, submitted>>
    BY <1>1, Kinds, StoreDoes DEF Begins, Ends, Elsewhere, TasksInv
  <1>3. NamesLast' => NamesLast
    BY <1>2 DEF NamesLast
  <1>4. NamesLast => NamesInv'
    BY <1>1, Kinds, StoreNames, OthersNames
  <1> QED
    BY <1>3, <1>4

\* At first the upload has its names and no storage has any.
LEMMA InitNames == ASSUME Init PROVE NamesInv
  <1>1. DOMAIN <<>> = {}
    OBVIOUS
  <1>2. \A p \in Processes : SavesRaw(task[p].op) => task[p].dumps = IdentityOf(submitted)
    BY InitHas DEF Processes, SavesRaw
  <1> QED
    BY <1>1, <1>2, InitHas DEF NamesInv

\* Who reads a crash back, however often it was stored, processed, removed and asked for again
\* in between, gets the uploaded dumps under their names: from the filesystem however many there
\* are, from S3 a single minidump, provided that S3 refused nothing.
THEOREM StoragesReadsBack == Spec => []ReadsBack
  <1>1. Init => PlacesInv /\ (NamesLast => NamesInv)
    BY InitPlaces, InitNames
  <1>2. PlacesInv /\ (NamesLast => NamesInv) /\ [Next]_vars => PlacesInv' /\ (NamesLast => NamesInv)'
    BY NextPlaces, NextNames
  <1>3. PlacesInv /\ (NamesLast => NamesInv) => ReadsBack
    <2> SUFFICES ASSUME PlacesInv, NamesLast => NamesInv, NEW s \in {"fs", "s3"},
                        kept[s].raw, ~refused, NamesLast, s = "s3" => submitted = {Minidump}
                 PROVE  GetRawDumps(s) = {[n \in submitted |-> n]}
      BY DEF ReadsBack
    <2>1. CASE s = "fs"
      BY <2>1, FilesReadIdentity DEF IdentityOf
    <2>2. CASE s = "s3"
      <3>1. Nothing \in DOMAIN kept["s3"].dumps
        BY <2>2 DEF NamesInv
      <3>2. \E dumps : dumps \in GetRawDumps("s3")
        <4>1. PICK dumps : dumps = [n \in {Minidump} |-> kept["s3"].dumps[Nothing]]
          OBVIOUS
        <4>2. GetRawDumps("s3") = {[n \in {Minidump} |-> kept["s3"].dumps[k]] : k \in DOMAIN kept["s3"].dumps \cap {Nothing}}
          BY DEF GetRawDumps
        <4>3. dumps \in GetRawDumps("s3")
          BY <3>1, <4>1, <4>2
        <4> QED
          BY <4>3
      <3>3. \A dumps \in GetRawDumps("s3") : dumps = IdentityOf(submitted)
        BY <2>2, S3ReadsIdentity
      <3> QED
        BY <2>2, <3>2, <3>3 DEF IdentityOf
    <2> QED
      BY <2>1, <2>2
  <1> QED
    BY <1>1, <1>2, <1>3, PTL DEF Spec

-----------------------------------------------------------------------------
(* Weeks. *)

\* The worker's report of a crash of known time has that time.
LEMMA ReportOfKnownTime ==
  ASSUME PlacesInv, KnownTime, NEW report \in Analyses(IdentityOf(submitted)) PROVE report.date \in TheWeeks
  <1>1. PICK dumps : dumps = IdentityOf(submitted)
    OBVIOUS
  <1>2. DOMAIN dumps = submitted /\ \A n \in submitted : dumps[n] = n
    BY <1>1, IdentityHas
  <1>3. CASE HasMinidump(submitted)
    <2>1. \A n \in DOMAIN dumps : dumps[n] \in submitted
      BY <1>2
    <2>2. PICK n \in DOMAIN dumps \cap Minidumps :
             report.date = IF Time(dumps[n]) = Undated THEN week ELSE Time(dumps[n])
      BY <1>1, <1>2, <1>3, <2>1, AnalysesAre
    <2>3. n \in submitted \cap Minidumps /\ dumps[n] = n
      BY <1>2, <2>2
    <2>4. walk[n] # Undated
      BY <2>3 DEF KnownTime
    <2>5. Time(n) = walk[n]
      BY <2>3 DEF PlacesInv, Time
    <2>6. report.date = walk[n]
      BY <2>2, <2>3, <2>4, <2>5
    <2> QED
      BY <1>3, <2>3, <2>6 DEF TheWeeks
  <1>4. CASE ~HasMinidump(submitted)
    <2>1. \A n \in DOMAIN dumps : dumps[n] \in submitted
      BY <1>2
    <2>2. report = NoReport
      BY <1>1, <1>2, <1>4, <2>1, AnalysesAre
    <2>3. NoReport.date = Undated
      BY DEF NoReport
    <2> QED
      BY <1>4, <2>2, <2>3 DEF TheWeeks
  <1> QED
    BY <1>3, <1>4

\* The worker's save and the documents keep to the week of the crash.
LEMMA NextWeeks ==
  ASSUME PlacesInv, NamesInv, KnownTime, WeeksInv, [Next]_vars PROVE WeeksInv'
  <1>1. ShapeOK /\ OpsOK /\ TasksInv
    BY DEF PlacesInv, TasksInv
  <1>2. UNCHANGED <<config, submitted, walk>>
    BY <1>1, Kinds, StoreDoes DEF Begins, Ends, Elsewhere
  <1>3. TheWeeks' = TheWeeks
    BY <1>2 DEF TheWeeks, HasMinidump
  <1>4. ASSUME NEW p \in Processes, Store(p) PROVE WeeksInv'
    <2>1. PICK t : /\ IsTask(t) /\ task' = [task EXCEPT ![p] = t]
                   /\ t.op = task[p].op /\ t.report.date = task[p].report.date
      BY <1>1, <1>4, StoreDoes
    <2>2. task'[p] = t /\ \A q \in Processes : q # p => task'[q] = task[q]
      BY <1>1, <2>1, TaskShape
    <2>3. task'["worker"].op = task["worker"].op /\ task'["worker"].report.date = task["worker"].report.date
      BY <2>1, <2>2 DEF Processes
    <2>4. docs' = docs \/ (SavesReport(task[p].op) /\ docs' = docs \cup {task[p].report.date})
      BY <1>1, <1>4, StoreDoes
    <2>5. SavesReport(task[p].op) => p = "worker" /\ task["worker"].op # "idle"
      BY <1>1 DEF OpsOK, SavesReport, Processes
    <2>6. docs' \subseteq TheWeeks
      BY <2>4, <2>5 DEF WeeksInv
    <2> QED
      BY <1>3, <2>3, <2>6 DEF WeeksInv
  <1>5. ASSUME NEW p, NEW t, Begins(p, t) PROVE WeeksInv'
    <2>1. p \in Processes /\ IsTask(t) /\ task' = [task EXCEPT ![p] = t] /\ docs' = docs
      BY <1>5 DEF Begins
    <2>2. task'[p] = t /\ \A q \in Processes : q # p => task'[q] = task[q]
      BY <1>1, <2>1, TaskShape
    <2>3. CASE p = "worker"
      <3>1. kept["fs"].raw /\ t.dumps \in GetRawDumps("fs") /\ t.report \in Analyses(t.dumps)
        BY <1>5, <2>3 DEF Begins
      <3>2. t.dumps = IdentityOf(submitted)
        BY <3>1, FilesReadIdentity
      <3>3. t.report.date \in TheWeeks
        BY <3>1, <3>2, ReportOfKnownTime
      <3> QED
        BY <1>3, <2>1, <2>2, <2>3, <3>3 DEF WeeksInv
    <2>4. CASE p # "worker"
      <3>1. task'["worker"] = task["worker"]
        BY <2>2, <2>4 DEF Processes
      <3> QED
        BY <1>3, <2>1, <3>1 DEF WeeksInv
    <2> QED
      BY <2>3, <2>4
  <1>6. ASSUME NEW p, Ends(p) PROVE WeeksInv'
    <2>1. p \in Processes /\ task' = [task EXCEPT ![p] = Idle] /\ docs' = docs
      BY <1>6 DEF Ends
    <2>2. task'[p] = Idle /\ \A q \in Processes : q # p => task'[q] = task[q]
      BY <1>1, <2>1, TaskShape, IdleIsTask
    <2>3. task'["worker"] = task["worker"] \/ task'["worker"].op = "idle"
      BY <2>2, IdleIsTask DEF Processes
    <2> QED
      BY <1>3, <2>1, <2>3 DEF WeeksInv
  <1>7. CASE Elsewhere
    BY <1>3, <1>7 DEF Elsewhere, WeeksInv
  <1> QED
    BY <1>1, <1>4, <1>5, <1>6, <1>7, Kinds

\* A crash of known time has one document, in the week of that time, whenever and however often
\* it is processed: a reprocess request in a later week finds the same dumps, and the worker the
\* same date in them.
THEOREM StoragesOneDocument == Spec => []OneDocument
  <1> DEFINE Inv == PlacesInv /\ (NamesLast => NamesInv) /\ (NamesLast /\ KnownTime => WeeksInv)
  <1>1. Init => Inv
    BY InitPlaces, InitNames, InitHas DEF WeeksInv
  <1>2. Inv /\ [Next]_vars => Inv'
    <2> SUFFICES ASSUME Inv, [Next]_vars PROVE Inv'
      OBVIOUS
    <2>1. PlacesInv' /\ (NamesLast => NamesInv)'
      BY NextPlaces, NextNames
    <2>2. UNCHANGED <<config, submitted, walk>>
      BY Kinds, StoreDoes DEF Begins, Ends, Elsewhere, PlacesInv, TasksInv
    <2>3. (NamesLast /\ KnownTime)' => NamesLast /\ KnownTime
      BY <2>2 DEF NamesLast, KnownTime
    <2>4. NamesLast /\ KnownTime => WeeksInv'
      BY NextWeeks
    <2> QED
      BY <2>1, <2>3, <2>4
  <1>3. Inv => OneDocument
    <2> SUFFICES ASSUME WeeksInv, KnownTime PROVE Cardinality(docs) <= 1
      BY DEF OneDocument, KnownTime
    <2>1. \E w : TheWeeks \subseteq {w}
      <3>1. CASE HasMinidump(submitted)
        <4>1. PICK m \in submitted \cap Minidumps : TRUE
          BY <3>1 DEF HasMinidump
        <4>2. \A n \in submitted \cap Minidumps : walk[n] = walk[m]
          BY DEF KnownTime
        <4> QED
          BY <4>2 DEF TheWeeks
      <3>2. CASE ~HasMinidump(submitted)
        BY <3>2 DEF TheWeeks
      <3> QED
        BY <3>1, <3>2
    <2>2. PICK w : docs \subseteq {w}
      BY <2>1 DEF WeeksInv
    <2>3. CASE docs = {}
      BY <2>3, FS_EmptySet
    <2>4. CASE docs = {w}
      <3>1. Cardinality({w}) = 1
        BY FS_Singleton
      <3> QED
        BY <2>4, <3>1
    <2> QED
      BY <2>2, <2>3, <2>4
  <1> QED
    BY <1>1, <1>2, <1>3, PTL DEF Spec
=============================================================================
