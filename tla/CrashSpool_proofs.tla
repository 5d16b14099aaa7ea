------------------------ MODULE CrashSpool_proofs -------------------------
(* What holds of the spool for every calendar, any number of crashes,  *)
(* requests, reprocess requests, goroutines and deaths, and every      *)
(* configuration: types, a crash is queued at most once, and the spool *)
(* implements the life of a crash.                                     *)
EXTENDS CrashSpool, TLAPS

-----------------------------------------------------------------------------
(* The calendar. *)

\* A scan leaves alone the slot in which it began.
THEOREM CurrentSlotIsSpared ==
  ASSUME NEW t \in Time
  PROVE  SkipSlot(t.day, SlotOf(t), t.day, SlotOf(t))
  BY CalendarAssumption
  DEF Time, Day, Hour, Minute, SlotOf, SkipSlot, GreaterThanEqualsSlot

\* While the hour in which a scan began at t lasts, it leaves the current slot alone:
\* this is what the assumption ScansWithinHour buys.
THEOREM SlotsOfTheHourAreSpared ==
  ASSUME NEW t \in Time, NEW u \in Time,
         u.day = t.day, u.hour = t.hour, u.minute >= t.minute
  PROVE  SkipSlot(u.day, SlotOf(u), t.day, SlotOf(t))
  BY CalendarAssumption
  DEF Time, Day, Hour, Minute, SlotOf, SkipSlot, GreaterThanEqualsSlot

\* No slot is skipped for ever: what lies before the scan began is visited.
THEOREM PastSlotsAreVisited ==
  ASSUME NEW t \in Time, NEW d \in Day, NEW s \in Slot, Earlier(d, s, t)
  PROVE  ~SkipSlot(d, s, t.day, SlotOf(t))
  BY CalendarAssumption
  DEF Time, Day, Hour, Minute, Slot, SlotOf, SkipSlot, GreaterThanEqualsSlot, Earlier

\* The clock stays in the calendar.
LEMMA NextTimeType ==
  ASSUME NEW t \in Time, t # LastTime PROVE NextTime(t) \in Time
  <1>1. t = [day |-> t.day, hour |-> t.hour, minute |-> t.minute]
    BY DEF Time
  <1>2. t.day # MaxDay \/ t.hour # MaxHour \/ t.minute # MaxMinute
    BY <1>1 DEF LastTime
  <1>3. CASE t.minute < MaxMinute
    BY <1>3, CalendarAssumption DEF Time, Minute, NextTime
  <1>4. CASE ~(t.minute < MaxMinute) /\ t.hour < MaxHour
    BY <1>4, CalendarAssumption DEF Time, Hour, Minute, NextTime
  <1>5. CASE ~(t.minute < MaxMinute) /\ ~(t.hour < MaxHour)
    BY <1>2, <1>5, CalendarAssumption DEF Time, Day, Hour, Minute, NextTime
  <1> QED
    BY <1>3, <1>4, <1>5

-----------------------------------------------------------------------------
(* Types. *)

FilesOK  == /\ store \in [Crashes -> [raw : FileState, report : FileState, back : BOOLEAN]]
            /\ dirs \subseteq Seq(Int) /\ links \subseteq Seq(Int) \X Crashes
CallOK   == /\ call \in [Savers -> CallType]
            /\ \A p \in Savers : ~AtCall(p, "idle") => call[p].crash \in Crashes
WorkerOK == /\ worker \in [Workers -> WorkerType]
            /\ \A w \in Workers : ~At(w, "idle") => worker[w].crash \in Crashes
ScanOK   == scan \in ScanType
RestOK   == /\ config \in Configs /\ now \in Time
            /\ born \in [Crashes -> Day \cup {Unborn}]
            /\ indexed \subseteq Crashes /\ answered \subseteq Crashes
            /\ filed \in [Crashes -> Nat] /\ handed \in [Crashes -> Nat] /\ reprocessed \in Nat

\* TypeOK by the part of the state it speaks of, before a step and after it.
LEMMA TypeParts == /\ TypeOK  <=> FilesOK /\ CallOK /\ WorkerOK /\ ScanOK /\ RestOK
                   /\ TypeOK' <=> FilesOK' /\ CallOK' /\ WorkerOK' /\ ScanOK' /\ RestOK'
  BY DEF TypeOK, FilesOK, CallOK, WorkerOK, ScanOK, RestOK

\* A process that starts to save, goes on, or ends.
LEMMA StartCallType ==
  ASSUME CallOK, NEW p \in Savers, NEW c \in Crashes, NEW f \in {"raw", "report"},
         NEW x \in {"good", "null"}, StartCall(p, c, f, x)
  PROVE  CallOK'
  <1>1. NewCall(c, f, x) \in CallType /\ NewCall(c, f, x).crash = c
    BY CalendarAssumption DEF NewCall, CallType, Slot, Hour, Minute
  <1> QED
    BY <1>1 DEF CallOK, StartCall, AtCall

\* A save that goes on to its next step.
LEMMA GoToType ==
  ASSUME CallOK, NEW p \in Savers, ~AtCall(p, "idle"),
         NEW pc \in {"write", "slot", "mkhour", "mkslot", "back", "forward"}, GoTo(p, pc)
  PROVE  CallOK'
  BY DEF CallOK, GoTo, CallType, AtCall

\* A process that saves nothing.
LEMMA IdleCallType == IdleCall \in CallType
  BY CalendarAssumption DEF CallType, IdleCall, Slot, Hour, Minute

\* A save that ends, and the answer that a request sends then.
LEMMA EndCallType ==
  ASSUME CallOK, RestOK, NEW p \in Savers, ~AtCall(p, "idle"), EndCall(p)
  PROVE  CallOK' /\ answered' \subseteq Crashes
  <1>1. CallOK'
    BY IdleCallType DEF CallOK, EndCall, AtCall, IdleCall
  <1>2. answered' \subseteq Crashes
    BY DEF CallOK, RestOK, EndCall, AtCall
  <1> QED
    BY <1>1, <1>2

\* Writing one entry of a crash's directory.
LEMMA PutType ==
  ASSUME FilesOK, NEW c \in Crashes, NEW f \in {"raw", "report", "back"}, NEW v, Put(c, f, v),
         IF f = "back" THEN v \in BOOLEAN ELSE v \in FileState
  PROVE  store' \in [Crashes -> [raw : FileState, report : FileState, back : BOOLEAN]]
  BY DEF FilesOK, Put

\* What no step of a save touches.
LEMMA InSaveType ==
  ASSUME WorkerOK, ScanOK, RestOK, InSave, answered' \subseteq Crashes, filed' \in [Crashes -> Nat]
  PROVE  WorkerOK' /\ ScanOK' /\ RestOK'
  BY DEF InSave, WorkerOK, At, ScanOK, RestOK, fixed

\* The crash and the paths of a process that saves.
LEMMA SaverType ==
  ASSUME TypeOK, NEW p \in Savers, ~AtCall(p, "idle")
  PROVE  /\ call[p].crash \in Crashes /\ call[p] \in CallType
         /\ <<born[call[p].crash]>> \in Seq(Int) /\ SlotPath(p) \in Seq(Int) /\ HourPath(p) \in Seq(Int)
  <1>1. call[p].crash \in Crashes /\ call[p] \in CallType
    BY DEF TypeOK
  <1>2. born[call[p].crash] \in Int
    BY <1>1, CalendarAssumption DEF TypeOK, Day, Unborn
  <1>3. call[p].slot[1] \in Int /\ call[p].slot[2] \in Int
    BY <1>1, CalendarAssumption DEF CallType, Slot, Hour, Minute
  <1>4. SlotPath(p) \in Seq(Int) /\ HourPath(p) \in Seq(Int)
    BY <1>2, <1>3 DEF SlotPath, HourPath
  <1> QED
    BY <1>1, <1>2, <1>4

\* Every step of a save keeps the types.
LEMMA SaveType == ASSUME TypeOK, NEW p \in Savers, Save(p) PROVE TypeOK'
  <1> DEFINE c == call[p].crash
             Store == [Crashes -> [raw : FileState, report : FileState, back : BOOLEAN]]
  <1>1. FilesOK /\ CallOK /\ WorkerOK /\ ScanOK /\ RestOK
    BY TypeParts
  <1>2. ~AtCall(p, "idle")
    BY DEF Save, Truncate, Write, PickSlot, MakeHourDir, MakeSlotDir, LinkBack, LinkForward, AtCall
  <1>3. /\ c \in Crashes /\ call[p] \in CallType
        /\ <<born[c]>> \in Seq(Int) /\ SlotPath(p) \in Seq(Int) /\ HourPath(p) \in Seq(Int)
    BY <1>2, SaverType
  <1>4. ASSUME CallOK', answered' \subseteq Crashes, FilesOK', InSave, filed' \in [Crashes -> Nat]
        PROVE  TypeOK'
    BY <1>1, <1>4, InSaveType, TypeParts
  <1>5. ASSUME NEW pc \in {"write", "slot", "mkhour", "mkslot", "back", "forward"}, GoTo(p, pc)
        PROVE  CallOK' /\ answered' \subseteq Crashes
    BY <1>1, <1>2, <1>5, GoToType DEF GoTo, RestOK
  <1>6. ASSUME EndCall(p) PROVE CallOK' /\ answered' \subseteq Crashes
    BY <1>1, <1>2, <1>6, EndCallType
  <1>7. filed \in [Crashes -> Nat]
    BY <1>1 DEF RestOK
  <1>8. CASE Truncate(p)
    <2>1. store' \in Store
      BY <1>1, <1>3, <1>8, PutType DEF Truncate, CallType, FileState
    <2>2. FilesOK'
      BY <1>1, <1>3, <1>8, <2>1 DEF FilesOK, Truncate
    <2> QED
      BY <1>4, <1>5, <1>7, <1>8, <2>2 DEF Truncate
  <1>9. CASE Write(p)
    <2>1. store' \in Store
      BY <1>1, <1>3, <1>9, PutType DEF Write, CallType, FileState, FilesOK
    <2>2. FilesOK'
      BY <1>1, <1>9, <2>1 DEF FilesOK, Write
    <2>3. CallOK' /\ answered' \subseteq Crashes
      BY <1>5, <1>6, <1>9 DEF Write
    <2> QED
      BY <1>4, <1>7, <1>9, <2>2, <2>3 DEF Write
  <1>10. CASE PickSlot(p)
    <2>1. SlotOf(now) \in Slot
      BY <1>1 DEF RestOK, Time, SlotOf, Slot
    <2>2. [call[p] EXCEPT !.pc = "mkhour", !.slot = SlotOf(now)] \in CallType
      BY <1>3, <2>1 DEF CallType
    <2>3. CallOK'
      BY <1>1, <1>3, <1>10, <2>1, <2>2 DEF PickSlot, CallOK, AtCall, CallType
    <2>4. FilesOK' /\ answered' \subseteq Crashes
      BY <1>1, <1>10 DEF FilesOK, RestOK, PickSlot, files
    <2> QED
      BY <1>4, <1>7, <1>10, <2>3, <2>4 DEF PickSlot
  <1>11. CASE MakeHourDir(p)
    <2>1. FilesOK'
      BY <1>1, <1>3, <1>11 DEF FilesOK, MakeHourDir
    <2> QED
      BY <1>4, <1>5, <1>7, <1>11, <2>1 DEF MakeHourDir
  <1>12. CASE MakeSlotDir(p)
    <2>1. FilesOK'
      BY <1>1, <1>3, <1>12 DEF FilesOK, MakeSlotDir
    <2> QED
      BY <1>4, <1>5, <1>7, <1>12, <2>1 DEF MakeSlotDir
  <1>13. CASE LinkBack(p)
    <2>1. store' \in Store
      BY <1>1, <1>3, <1>13, PutType DEF LinkBack, FilesOK
    <2>2. FilesOK'
      BY <1>1, <1>13, <2>1 DEF FilesOK, LinkBack
    <2>3. CallOK' /\ answered' \subseteq Crashes
      BY <1>5, <1>6, <1>13 DEF LinkBack
    <2> QED
      BY <1>4, <1>7, <1>13, <2>2, <2>3 DEF LinkBack
  <1>14. CASE LinkForward(p)
    <2>1. filed' \in [Crashes -> Nat]
      <3>1. filed' = filed \/ filed' = [filed EXCEPT ![c] = filed[c] + 1]
        BY <1>14 DEF LinkForward
      <3>2. [filed EXCEPT ![c] = filed[c] + 1] \in [Crashes -> Nat]
        BY <1>3, <1>7
      <3> QED
        BY <1>7, <3>1, <3>2
    <2>2. FilesOK'
      BY <1>1, <1>3, <1>14 DEF FilesOK, LinkForward
    <2> QED
      BY <1>4, <1>6, <1>14, <2>1, <2>2 DEF LinkForward
  <1> QED
    BY <1>8, <1>9, <1>10, <1>11, <1>12, <1>13, <1>14 DEF Save

\* Requests, their deaths, and the clock.
LEMMA RequestType ==
  ASSUME TypeOK,
         Tick \/ \E q \in Handlers : Abort(q) \/ \E d \in Crashes : Submit(q, d) \/ Reprocess(q, d)
  PROVE  TypeOK'
  <1>1. FilesOK /\ CallOK /\ WorkerOK /\ ScanOK /\ RestOK
    BY TypeParts
  <1>2. Handlers \subseteq Savers
    BY DEF Savers
  <1>3. ASSUME NEW p \in Handlers, NEW c \in Crashes, Submit(p, c) PROVE TypeOK'
    <2>1. CallOK'
      BY <1>1, <1>2, <1>3, StartCallType DEF Submit
    <2>2. born' \in [Crashes -> Day \cup {Unborn}]
      BY <1>1, <1>3 DEF Submit, RestOK, Time
    <2>3. FilesOK' /\ WorkerOK' /\ ScanOK' /\ RestOK'
      BY <1>1, <1>3, <2>2 DEF Submit, FilesOK, WorkerOK, At, ScanOK, RestOK, files, history
    <2> QED
      BY <2>1, <2>3, TypeParts
  <1>4. ASSUME NEW p \in Handlers, NEW c \in Crashes, Reprocess(p, c) PROVE TypeOK'
    <2>1. CallOK'
      BY <1>1, <1>2, <1>4, StartCallType DEF Reprocess
    <2>2. FilesOK' /\ WorkerOK' /\ ScanOK' /\ RestOK'
      BY <1>1, <1>4 DEF Reprocess, FilesOK, WorkerOK, At, ScanOK, RestOK, files, fixed
    <2> QED
      BY <2>1, <2>2, TypeParts
  <1>5. ASSUME NEW p \in Handlers, Abort(p) PROVE TypeOK'
    <2>1. CallOK'
      BY <1>1, <1>2, <1>5, IdleCallType DEF Abort, CallOK, AtCall, IdleCall
    <2>2. FilesOK' /\ WorkerOK' /\ ScanOK' /\ RestOK'
      BY <1>1, <1>5 DEF Abort, FilesOK, WorkerOK, At, ScanOK, RestOK, files, history, fixed
    <2> QED
      BY <2>1, <2>2, TypeParts
  <1>6. CASE Tick
    <2>1. now' \in Time
      BY <1>1, <1>6, NextTimeType DEF Tick, RestOK
    <2>2. FilesOK' /\ CallOK' /\ WorkerOK' /\ ScanOK' /\ RestOK'
      BY <1>1, <1>6, <2>1
      DEF Tick, FilesOK, CallOK, AtCall, WorkerOK, At, ScanOK, RestOK, files, history, fixed
    <2> QED
      BY <2>2, TypeParts
  <1> QED
    BY <1>3, <1>4, <1>5, <1>6

\* What a directory lists.
LEMMA ChildrenType == ASSUME FilesOK, NEW q \in Seq(Int) PROVE Children(q) \subseteq Int
  <1>1. ASSUME NEW r \in dirs, Len(r) = Len(q) + 1 PROVE r[Len(q) + 1] \in Int
    BY <1>1 DEF FilesOK
  <1> QED
    BY <1>1 DEF Children

\* The crashes a directory lists, and what rmdir leaves.
LEMMA ListType ==
  ASSUME FilesOK
  PROVE  /\ \A q : Entries(q) \subseteq Crashes
         /\ \A q : Rmdir(q) => dirs' \subseteq Seq(Int)
  BY DEF FilesOK, Entries, Rmdir

\* What no step of the scanner touches.
LEMMA OnFilesType ==
  ASSUME TypeOK, OnFiles, dirs' \subseteq Seq(Int), scan' \in ScanType, WorkerOK'
  PROVE  TypeOK'
  <1>1. FilesOK' /\ CallOK' /\ RestOK'
    BY DEF OnFiles, TypeOK, FilesOK, CallOK, AtCall, RestOK, history, fixed
  <1> QED
    BY <1>1, TypeParts DEF ScanOK

\* A step that only moves the scanner.
LEMMA ScanStepType ==
  ASSUME TypeOK, NEW s \in ScanType, ScanStep(s) PROVE TypeOK'
  <1>1. WorkerOK' /\ dirs' \subseteq Seq(Int)
    BY DEF ScanStep, TypeOK, WorkerOK, At
  <1> QED
    BY <1>1, OnFilesType DEF ScanStep

\* Every step of the scanner keeps the types.
LEMMA ScannerType == ASSUME TypeOK, Scan \/ Restart PROVE TypeOK'
  <1>1. FilesOK /\ WorkerOK /\ ScanOK /\ RestOK
    BY TypeParts
  <1>2. NewScan \in ScanType /\ IdleWorker \in WorkerType
    BY CalendarAssumption DEF NewScan, ScanType, IdleWorker, WorkerType, NoPath, Slot, Day, Hour, Minute
  <1>3. scan \in ScanType /\ now \in Time /\ dirs \subseteq Seq(Int)
    BY <1>1 DEF ScanOK, RestOK, FilesOK
  <1>4. SlotOf(now) \in Slot /\ now.day \in Day
    BY <1>3 DEF Time, SlotOf, Slot
  <1>5. CASE ReadSlot
    <2>1. WorkerOK'
      <3>1. worker' = [w \in Workers |-> [worker[w] EXCEPT !.fresh = FALSE]]
        BY <1>5 DEF ReadSlot
      <3>2. ASSUME NEW w \in Workers
            PROVE  [worker[w] EXCEPT !.fresh = FALSE] \in WorkerType
        BY <1>1 DEF WorkerOK, WorkerType
      <3>3. worker' \in [Workers -> WorkerType]
        BY <3>1, <3>2
      <3>4. ASSUME NEW w \in Workers
            PROVE  worker'[w].pc = worker[w].pc /\ worker'[w].crash = worker[w].crash
        BY <1>1, <3>1 DEF WorkerOK, WorkerType
      <3> QED
        BY <1>1, <3>3, <3>4 DEF WorkerOK, At
    <2>2. scan' \in ScanType
      BY <1>2, <1>4, <1>5 DEF ReadSlot, ScanType
    <2> QED
      BY <1>3, <1>5, <2>1, <2>2, OnFilesType DEF ReadSlot
  <1>6. CASE ReadDate
    <2>1. [scan EXCEPT !.pc = "root", !.date = now.day] \in ScanType
      BY <1>3, <1>4 DEF ScanType
    <2> QED
      BY <1>6, <2>1, ScanStepType DEF ReadDate
  <1>7. CASE ReadRoot
    <2>1. Children(<<>>) \subseteq Int
      <3>1. <<>> \in Seq(Int)
        OBVIOUS
      <3> QED
        BY <1>1, <3>1, ChildrenType
    <2>2. [scan EXCEPT !.pc = "dates", !.dates = Children(<<>>)] \in ScanType
      BY <1>3, <2>1 DEF ScanType
    <2> QED
      BY <1>7, <2>2, ScanStepType DEF ReadRoot
  <1>8. CASE NextDate
    <2>1. PICK d \in First(scan.dates) :
            ScanStep([scan EXCEPT !.pc = "hours", !.dates = @ \ {d}, !.path[1] = d, !.hours = Children(<<d>>)])
      BY <1>8 DEF NextDate
    <2>2. d \in Int
      BY <1>3 DEF ScanType, First
    <2>3. Children(<<d>>) \subseteq Int
      <3>1. <<d>> \in Seq(Int)
        BY <2>2
      <3> QED
        BY <1>1, <3>1, ChildrenType
    <2>4. [scan EXCEPT !.pc = "hours", !.dates = @ \ {d}, !.path[1] = d, !.hours = Children(<<d>>)] \in ScanType
      BY <1>3, <2>2, <2>3 DEF ScanType
    <2> QED
      BY <2>1, <2>4, ScanStepType
  <1>9. CASE NextHour
    <2>1. PICK h \in First(scan.hours) :
            ScanStep([scan EXCEPT !.pc = "minutes", !.hours = @ \ {h}, !.path[2] = h, !.skip = FALSE,
                                  !.mins = Children(<<scan.path[1], h>>)])
      BY <1>9 DEF NextHour
    <2>2. h \in Int /\ scan.path[1] \in Int
      BY <1>3 DEF ScanType, First
    <2>3. Children(<<scan.path[1], h>>) \subseteq Int
      <3>1. <<scan.path[1], h>> \in Seq(Int)
        BY <2>2
      <3> QED
        BY <1>1, <3>1, ChildrenType
    <2>4. [scan EXCEPT !.pc = "minutes", !.hours = @ \ {h}, !.path[2] = h, !.skip = FALSE,
                       !.mins = Children(<<scan.path[1], h>>)] \in ScanType
      BY <1>3, <2>2, <2>3 DEF ScanType
    <2> QED
      BY <2>1, <2>4, ScanStepType
  <1>10. CASE NextMinute
    <2>1. PICK m \in First(scan.mins) :
            LET path == [scan.path EXCEPT ![3] = m]
            IN  ScanStep(IF SkipSlot(path[1], <<path[2], m>>, scan.date, scan.slot)
                         THEN [scan EXCEPT !.mins = @ \ {m}, !.skip = TRUE]
                         ELSE [scan EXCEPT !.mins = @ \ {m}, !.pc = "entries", !.path = path,
                                           !.entries = Entries(path)])
      BY <1>10 DEF NextMinute
    <2> DEFINE path == [scan.path EXCEPT ![3] = m]
    <2>2. m \in Int /\ path \in [1 .. 3 -> Int]
      BY <1>3 DEF ScanType, First
    <2>3. Entries(path) \subseteq Crashes
      BY <1>1, ListType
    <2>4. [scan EXCEPT !.mins = @ \ {m}, !.skip = TRUE] \in ScanType
      BY <1>3 DEF ScanType
    <2>5. [scan EXCEPT !.mins = @ \ {m}, !.pc = "entries", !.path = path, !.entries = Entries(path)] \in ScanType
      BY <1>3, <2>2, <2>3 DEF ScanType
    <2> QED
      BY <2>1, <2>4, <2>5, ScanStepType
  <1>11. CASE Spawn
    <2>1. PICK c \in scan.entries, w \in Workers \ Busy :
            /\ OnFiles /\ UNCHANGED dirs
            /\ worker' = [worker EXCEPT ![w] = NewWorker(c, scan.path)]
            /\ scan' = [scan EXCEPT !.entries = @ \ {c}]
      BY <1>11 DEF Spawn
    <2>2. c \in Crashes
      BY <1>3 DEF ScanType
    <2>3. NewWorker(c, scan.path) \in WorkerType /\ NewWorker(c, scan.path).crash = c
      BY <1>3, <2>2 DEF NewWorker, WorkerType, ScanType
    <2>4. WorkerOK'
      BY <1>1, <2>1, <2>2, <2>3 DEF WorkerOK, At
    <2>5. scan' \in ScanType
      BY <1>3, <2>1 DEF ScanType
    <2> QED
      BY <1>3, <2>1, <2>4, <2>5, OnFilesType
  <1>12. CASE RemoveSlot \/ RemoveHour
    <2>1. dirs' \subseteq Seq(Int)
      BY <1>1, <1>3, <1>12, ListType DEF RemoveSlot, RemoveHour
    <2>2. WorkerOK'
      BY <1>1, <1>12 DEF RemoveSlot, RemoveHour, WorkerOK, At
    <2>3. scan' \in ScanType
      BY <1>3, <1>12 DEF RemoveSlot, RemoveHour, ScanType
    <2> QED
      BY <1>12, <2>1, <2>2, <2>3, OnFilesType DEF RemoveSlot, RemoveHour
  <1>13. CASE EndDate
    <2>1. [scan EXCEPT !.pc = "dates"] \in ScanType
      BY <1>3 DEF ScanType
    <2> QED
      BY <1>13, <2>1, ScanStepType DEF EndDate
  <1>14. CASE EndRound \/ Restart
    BY <1>2, <1>14, ScanStepType DEF EndRound, Restart
  <1> QED
    BY <1>5, <1>6, <1>7, <1>8, <1>9, <1>10, <1>11, <1>12, <1>13, <1>14 DEF Scan

\* Counting one more for a crash.
LEMMA IncrementType ==
  ASSUME NEW f \in [Crashes -> Nat], NEW c \in Crashes
  PROVE  [f EXCEPT ![c] = f[c] + 1] \in [Crashes -> Nat]
  OBVIOUS

\* What no step of a worker touches, and what is left to show for it.
LEMMA InWorkType ==
  ASSUME TypeOK, InWork, WorkerOK', CallOK', ScanOK',
         store' \in [Crashes -> [raw : FileState, report : FileState, back : BOOLEAN]],
         links' \subseteq links, indexed' \subseteq Crashes, handed' \in [Crashes -> Nat]
  PROVE  TypeOK'
  <1>1. FilesOK' /\ RestOK'
    BY DEF InWork, TypeOK, FilesOK, RestOK, fixed
  <1> QED
    BY <1>1, TypeParts

\* A panic leaves no goroutine of the processor behind.
LEMMA DownType == ASSUME TypeOK, ProcessorDown PROVE WorkerOK' /\ CallOK' /\ ScanOK'
  <1>1. IdleWorker \in WorkerType /\ [NewScan EXCEPT !.pc = "down"] \in ScanType
    <2>1. IdleWorker \in WorkerType /\ NewScan \in ScanType
      BY CalendarAssumption
      DEF IdleWorker, WorkerType, NewScan, ScanType, NoPath, Slot, Day, Hour, Minute
    <2> QED
      BY <2>1 DEF ScanType
  <1>2. WorkerOK'
    BY <1>1 DEF ProcessorDown, WorkerOK, At, IdleWorker
  <1>3. CallOK'
    BY IdleCallType DEF ProcessorDown, TypeOK, CallOK, AtCall, IdleCall
  <1> QED
    BY <1>1, <1>2, <1>3 DEF ProcessorDown, ScanOK

\* A worker that goes on.
LEMMA WorkerToType ==
  ASSUME TypeOK, NEW w \in Workers, NEW r \in WorkerType, r.pc # "idle" => r.crash \in Crashes,
         WorkerTo(w, r)
  PROVE  WorkerOK'
  BY DEF TypeOK, WorkerTo, WorkerOK, At

\* The states a worker goes to.
LEMMA NextWorkerType ==
  ASSUME TypeOK, NEW w \in Workers, ~At(w, "idle")
  PROVE  /\ Crash(w) \in Crashes
         /\ \A x \in {"stat", "unlink", "unlink again", "getraw", "getdumps", "processed", "saved", "rmback", "rmall"} :
              /\ [worker[w] EXCEPT !.pc = x] \in WorkerType
              /\ [worker[w] EXCEPT !.pc = x].crash \in Crashes
         /\ IdleWorker \in WorkerType
         /\ \A i \in Nat : /\ AfterDestination(w, i) \in WorkerType
                           /\ AfterDestination(w, i).pc # "idle" => AfterDestination(w, i).crash \in Crashes
  <1>1. worker[w] \in WorkerType /\ worker[w].crash \in Crashes
    BY DEF TypeOK
  <1>2. IdleWorker \in WorkerType /\ IdleWorker.pc = "idle"
    BY CalendarAssumption DEF IdleWorker, WorkerType, NoPath
  <1>3. \A x \in {"stat", "unlink", "unlink again", "getraw", "getdumps", "processed", "saved", "rmback", "rmall"} :
              /\ [worker[w] EXCEPT !.pc = x] \in WorkerType
              /\ [worker[w] EXCEPT !.pc = x].crash \in Crashes
    BY <1>1 DEF WorkerType
  <1>4. ASSUME NEW i \in Nat
        PROVE  /\ [worker[w] EXCEPT !.pc = "store", !.dst = i + 1] \in WorkerType
               /\ [worker[w] EXCEPT !.pc = "store", !.dst = i + 1].crash \in Crashes
    <2>1. i + 1 \in Nat
      OBVIOUS
    <2>2. \A j \in Nat : [worker[w] EXCEPT !.pc = "store", !.dst = j] \in WorkerType
      BY <1>1 DEF WorkerType
    <2>3. \A j \in Nat : [worker[w] EXCEPT !.pc = "store", !.dst = j].crash = worker[w].crash
      BY <1>1 DEF WorkerType
    <2> QED
      BY <1>1, <2>1, <2>2, <2>3
  <1>5. ASSUME NEW i \in Nat
        PROVE  /\ AfterDestination(w, i) \in WorkerType
               /\ AfterDestination(w, i).pc # "idle" => AfterDestination(w, i).crash \in Crashes
    BY <1>2, <1>3, <1>4 DEF AfterDestination
  <1> QED
    BY <1>1, <1>2, <1>3, <1>5 DEF Crash

\* Every step of a worker keeps the types.
LEMMA ProcessType == ASSUME TypeOK, NEW w \in Workers, Process(w) PROVE TypeOK'
  <1> DEFINE Store == [Crashes -> [raw : FileState, report : FileState, back : BOOLEAN]]
  <1>1. FilesOK /\ CallOK /\ WorkerOK /\ ScanOK /\ RestOK
    BY TypeParts
  <1>2. ~At(w, "idle") /\ w \in Savers
    BY DEF Process, Lstat, Stat, RemoveLink, GetRaw, GetDumps, SaveProcessed, SaveRawCrash, StoredInFs,
           Index, RemoveBack, RemoveFile, RemoveDir, At, Savers
  <1>3. Crash(w) \in Crashes /\ worker[w] \in WorkerType /\ worker[w].raw \in {"good", "null"} /\ worker[w].dst \in Nat
    <2>1. Crash(w) \in Crashes /\ worker[w] \in WorkerType
      BY <1>1, <1>2 DEF WorkerOK, Crash
    <2> QED
      BY <2>1 DEF WorkerType
  <1>4. ASSUME NEW x \in {"stat", "unlink", "unlink again", "getraw", "getdumps", "processed", "saved", "rmback", "rmall"},
               Move(w, x)
        PROVE  WorkerOK'
    BY <1>2, <1>4, NextWorkerType, WorkerToType DEF Move
  <1>5. ASSUME NEW i \in Nat, WorkerTo(w, AfterDestination(w, i)) PROVE WorkerOK'
    BY <1>2, <1>5, NextWorkerType, WorkerToType
  <1>6. ASSUME WorkerTo(w, IdleWorker) PROVE WorkerOK'
    BY <1>2, <1>6, NextWorkerType, WorkerToType DEF IdleWorker
  <1>7. ASSUME UNCHANGED <<call, scan>> PROVE CallOK' /\ ScanOK'
    BY <1>1, <1>7 DEF CallOK, AtCall, ScanOK
  <1>8. store \in Store /\ links \subseteq links /\ indexed \subseteq Crashes /\ handed \in [Crashes -> Nat]
    BY <1>1 DEF FilesOK, RestOK
  <1>9. CASE Lstat(w)
    <2>1. WorkerOK' /\ CallOK' /\ ScanOK'
      BY <1>4, <1>7, <1>9, DownType DEF Lstat, GoOnIf, Move
    <2> QED
      BY <1>8, <1>9, <2>1, InWorkType DEF Lstat
  <1>10. CASE Stat(w)
    <2>1. WorkerOK' /\ CallOK' /\ ScanOK'
      BY <1>4, <1>7, <1>10, DownType DEF Stat, GoOnIf, Move
    <2> QED
      BY <1>8, <1>10, <2>1, InWorkType DEF Stat
  <1>11. ASSUME NEW x \in {"unlink", "unlink again"}, NEW y \in {"unlink again", "getraw"}, RemoveLink(w, x, y)
         PROVE  TypeOK'
    <2>1. WorkerOK' /\ CallOK' /\ ScanOK'
      BY <1>4, <1>7, <1>11 DEF RemoveLink
    <2>2. handed' \in [Crashes -> Nat]
      <3>1. handed' = handed \/ handed' = [handed EXCEPT ![Crash(w)] = handed[Crash(w)] + 1]
        BY <1>11 DEF RemoveLink
      <3>2. [handed EXCEPT ![Crash(w)] = handed[Crash(w)] + 1] \in [Crashes -> Nat]
        BY <1>3, <1>8, IncrementType
      <3> QED
        BY <1>8, <3>1, <3>2
    <2> QED
      BY <1>8, <1>11, <2>1, <2>2, InWorkType DEF RemoveLink, Unlinked
  <1>12. CASE GetRaw(w)
    <2>1. GetRawCrash(Crash(w)) \in {"good", "null"}
      BY DEF GetRawCrash
    <2>2. \A v \in {"good", "null"} : /\ [worker[w] EXCEPT !.pc = "getdumps", !.raw = v] \in WorkerType
                                      /\ [worker[w] EXCEPT !.pc = "getdumps", !.raw = v].crash = worker[w].crash
      BY <1>3 DEF WorkerType
    <2>3. WorkerOK'
      BY <1>3, <1>12, <2>1, <2>2, WorkerToType DEF GetRaw, Crash
    <2> QED
      BY <1>7, <1>8, <1>12, <2>3, InWorkType DEF GetRaw
  <1>13. CASE GetDumps(w)
    <2>1. WorkerOK' /\ CallOK' /\ ScanOK'
      BY <1>5, <1>7, <1>13, DownType DEF GetDumps, GoOnIf
    <2> QED
      BY <1>8, <1>13, <2>1, InWorkType DEF GetDumps
  <1>14. CASE SaveProcessed(w)
    <2>1. WorkerOK' /\ ScanOK'
      BY <1>1, <1>4, <1>14 DEF SaveProcessed, ScanOK
    <2>2. CallOK'
      BY <1>1, <1>2, <1>3, <1>14, StartCallType DEF SaveProcessed, CallOK, AtCall
    <2> QED
      BY <1>8, <1>14, <2>1, <2>2, InWorkType DEF SaveProcessed
  <1>15. CASE SaveRawCrash(w)
    <2>1. WorkerOK' /\ ScanOK'
      BY <1>1, <1>4, <1>15 DEF SaveRawCrash, ScanOK
    <2>2. CallOK'
      BY <1>1, <1>2, <1>3, <1>15, StartCallType DEF SaveRawCrash
    <2> QED
      BY <1>8, <1>15, <2>1, <2>2, InWorkType DEF SaveRawCrash
  <1>16. CASE StoredInFs(w)
    BY <1>3, <1>5, <1>7, <1>8, <1>16, InWorkType DEF StoredInFs
  <1>17. ASSUME NEW dated, Index(w, dated) PROVE TypeOK'
    <2>1. indexed' \subseteq Crashes
      BY <1>3, <1>8, <1>17 DEF Index
    <2> QED
      BY <1>3, <1>5, <1>7, <1>8, <1>17, <2>1, InWorkType DEF Index
  <1>18. CASE RemoveBack(w)
    <2>1. store' \in Store
      BY <1>1, <1>3, <1>18, PutType DEF RemoveBack
    <2> QED
      BY <1>4, <1>7, <1>8, <1>18, <2>1, InWorkType DEF RemoveBack
  <1>19. ASSUME NEW f \in {"raw", "report"}, RemoveFile(w, f) PROVE TypeOK'
    <2>1. store' \in Store
      BY <1>1, <1>3, <1>19, PutType DEF RemoveFile, FileState
    <2>2. WorkerOK'
      BY <1>1, <1>19 DEF RemoveFile, WorkerOK, At
    <2> QED
      BY <1>7, <1>8, <1>19, <2>1, <2>2, InWorkType DEF RemoveFile
  <1>20. CASE RemoveDir(w)
    <2>1. store' \in Store
      BY <1>1, <1>3, <1>20, PutType DEF RemoveDir
    <2> QED
      BY <1>6, <1>7, <1>8, <1>20, <2>1, InWorkType DEF RemoveDir
  <1> QED
    BY <1>9, <1>10, <1>11, <1>12, <1>13, <1>14, <1>15, <1>16, <1>17, <1>18, <1>19, <1>20 DEF Process

\* The types hold at the start and after every step.
LEMMA InitType == Init => TypeOK
  <1> SUFFICES ASSUME Init PROVE TypeOK
    OBVIOUS
  <1>1. FilesOK
    BY DEF Init, FilesOK, FileState
  <1>2. CallOK
    BY IdleCallType DEF Init, CallOK, AtCall, IdleCall
  <1>3. IdleWorker \in WorkerType /\ NewScan \in ScanType
    BY CalendarAssumption
    DEF IdleWorker, WorkerType, NewScan, ScanType, NoPath, Slot, Day, Hour, Minute
  <1>4. WorkerOK /\ ScanOK
    BY <1>3 DEF Init, WorkerOK, At, IdleWorker, ScanOK
  <1>5. RestOK
    BY CalendarAssumption DEF Init, RestOK, FirstTime, Time, Day, Hour, Minute
  <1> QED
    BY <1>1, <1>2, <1>4, <1>5, TypeParts

\* Every step of the system keeps the types.
LEMMA NextType == TypeOK /\ [Next]_vars => TypeOK'
  <1> SUFFICES ASSUME TypeOK, [Next]_vars PROVE TypeOK'
    OBVIOUS
  <1>1. CASE UNCHANGED vars
    BY <1>1 DEF vars, TypeOK, AtCall, At, files, history, fixed
  <1>2. CASE ProcessorDies
    <2>1. /\ store \in [Crashes -> [raw : FileState, report : FileState, back : BOOLEAN]]
          /\ links \subseteq links /\ indexed \subseteq Crashes /\ handed \in [Crashes -> Nat]
      BY DEF TypeOK
    <2> QED
      BY <1>2, <2>1, DownType, InWorkType DEF ProcessorDies
  <1> QED
    BY <1>1, <1>2, SaveType, RequestType, ScannerType, ProcessType DEF Next

\* No step, panic or death of any process leaves the types.
THEOREM SpoolTypeOK == Spec => []TypeOK
  BY InitType, NextType, PTL DEF Spec

-----------------------------------------------------------------------------
(* A crash is queued at most once.  The back link is what keeps a crash     *)
(* from being filed again: it is made once, by the one process that goes on *)
(* to the forward link, and it stays while no worker removes the directory. *)

Forwarding(p) == AtCall(p, "forward")

BackLinkGuards ==
    /\ \A c \in Crashes : ~store[c].back => filed[c] = 0
    /\ \A c \in Crashes : filed[c] <= 1
    /\ \A p \in Savers : Forwarding(p) => store[call[p].crash].back /\ filed[call[p].crash] = 0
    /\ \A p, q \in Savers : Forwarding(p) /\ Forwarding(q) /\ call[p].crash = call[q].crash => p = q
    /\ \A w \in Workers : ~At(w, "rmback") /\ ~At(w, "rmall")

IInv == TypeOK /\ (~config.removeRaw => BackLinkGuards)

\* A step that makes no link and removes no back link.
Quiet ==
    /\ UNCHANGED filed
    /\ \A c \in Crashes : store'[c].back = store[c].back
    /\ \A p \in Savers : Forwarding(p)' => Forwarding(p) /\ call'[p].crash = call[p].crash
    /\ \A w \in Workers : At(w, "rmback")' \/ At(w, "rmall")' => At(w, "rmback") \/ At(w, "rmall")

\* A quiet step keeps the guards of the back link.
LEMMA QuietKeepsGuards == ASSUME TypeOK, BackLinkGuards, Quiet PROVE BackLinkGuards'
  <1>1. \A p \in Savers : Forwarding(p) => call[p].crash \in Crashes
    BY DEF TypeOK, Forwarding, AtCall
  <1>2. \A c \in Crashes : (~store[c].back => filed[c] = 0)' /\ (filed[c] <= 1)'
    BY DEF BackLinkGuards, Quiet
  <1>3. ASSUME NEW p \in Savers, Forwarding(p)'
        PROVE  (store[call[p].crash].back /\ filed[call[p].crash] = 0)'
    BY <1>1, <1>3 DEF BackLinkGuards, Quiet
  <1>4. ASSUME NEW p \in Savers, NEW q \in Savers,
               Forwarding(p)', Forwarding(q)', call'[p].crash = call'[q].crash
        PROVE  p = q
    BY <1>4 DEF BackLinkGuards, Quiet
  <1>5. \A w \in Workers : (~At(w, "rmback") /\ ~At(w, "rmall"))'
    BY DEF BackLinkGuards, Quiet
  <1> QED
    BY <1>2, <1>3, <1>4, <1>5 DEF BackLinkGuards

-----------------------------------------------------------------------------
(* The two steps that make the links. *)

\* Making the back link: the first to make it is the only one that goes on to file.
LEMMA LinkBackKeepsGuards ==
  ASSUME TypeOK, BackLinkGuards, NEW p \in Savers, LinkBack(p) PROVE BackLinkGuards'
  <1> DEFINE c == call[p].crash
  <1>1. c \in Crashes /\ call \in [Savers -> CallType]
    BY DEF TypeOK, LinkBack, AtCall
  <1>2. UNCHANGED <<filed, worker>>
    BY DEF LinkBack, InSave
  <1>3. CASE CanLinkBack(c)
    <2>1. /\ store' = [store EXCEPT ![c]["back"] = TRUE]
          /\ call' = [call EXCEPT ![p].pc = "forward"]
          /\ ~store[c].back
      BY <1>3 DEF LinkBack, Put, GoTo, CanLinkBack
    <2>2. filed[c] = 0
      BY <1>1, <2>1 DEF BackLinkGuards
    <2>3. \A d \in Crashes : store'[d].back = IF d = c THEN TRUE ELSE store[d].back
      BY <1>1, <2>1 DEF TypeOK
    <2>4. \A q \in Savers : q # p => call'[q] = call[q]
      BY <1>1, <2>1
    <2>5. call'[p].crash = c
      BY <1>1, <2>1 DEF CallType
    <2>6. \A q \in Savers : Forwarding(q) => call[q].crash # c
      BY <2>1 DEF BackLinkGuards
    <2>7. \A q \in Savers : Forwarding(q)' => q = p \/ (Forwarding(q) /\ call'[q].crash = call[q].crash)
      BY <2>4 DEF Forwarding, AtCall
    <2>8. \A d \in Crashes : (~store[d].back => filed[d] = 0)' /\ (filed[d] <= 1)'
      BY <1>2, <2>3 DEF BackLinkGuards
    <2>9. ASSUME NEW q \in Savers, Forwarding(q)'
          PROVE  (store[call[q].crash].back /\ filed[call[q].crash] = 0)'
      <3>1. CASE q = p
        BY <1>1, <1>2, <2>2, <2>3, <2>5, <3>1
      <3>2. CASE q # p
        <4>1. Forwarding(q) /\ call'[q].crash = call[q].crash /\ call[q].crash \in Crashes
          BY <2>7, <2>9, <3>2 DEF TypeOK, Forwarding, AtCall
        <4> QED
          BY <1>2, <2>3, <4>1 DEF BackLinkGuards
      <3> QED
        BY <3>1, <3>2
    <2>10. ASSUME NEW q \in Savers, NEW r \in Savers,
                  Forwarding(q)', Forwarding(r)', call'[q].crash = call'[r].crash
           PROVE  q = r
      BY <2>5, <2>6, <2>7, <2>10 DEF BackLinkGuards
    <2>11. \A w \in Workers : (~At(w, "rmback") /\ ~At(w, "rmall"))'
      BY <1>2 DEF BackLinkGuards, At
    <2> QED
      BY <2>8, <2>9, <2>10, <2>11 DEF BackLinkGuards
  <1>4. CASE ~CanLinkBack(c)
    <2>1. UNCHANGED store /\ call' = [call EXCEPT ![p] = IdleCall]
      BY <1>4 DEF LinkBack, EndCall
    <2>2. Quiet
      BY <1>1, <1>2, <2>1 DEF Quiet, Forwarding, AtCall, At, IdleCall
    <2> QED
      BY <2>2, QuietKeepsGuards
  <1> QED
    BY <1>3, <1>4

\* Making the forward link: it is the crash's first, since its maker made the back link.
LEMMA LinkForwardKeepsGuards ==
  ASSUME TypeOK, BackLinkGuards, NEW p \in Savers, LinkForward(p) PROVE BackLinkGuards'
  <1> DEFINE c == call[p].crash
  <1>1. /\ c \in Crashes /\ call \in [Savers -> CallType] /\ Forwarding(p)
        /\ filed \in [Crashes -> Nat]
    BY DEF TypeOK, LinkForward, AtCall, Forwarding
  <1>2. store[c].back /\ filed[c] = 0
    BY <1>1 DEF BackLinkGuards
  <1>3. UNCHANGED <<store, worker>> /\ call' = [call EXCEPT ![p] = IdleCall]
    BY DEF LinkForward, InSave, EndCall
  <1>4. \A d \in Crashes : filed'[d] = filed[d] \/ (d = c /\ filed'[d] = 1)
    <2>1. filed' = filed \/ filed' = [filed EXCEPT ![c] = filed[c] + 1]
      BY DEF LinkForward
    <2> QED
      BY <1>1, <1>2, <2>1
  <1>5. \A q \in Savers : Forwarding(q)' => q # p /\ Forwarding(q) /\ call'[q] = call[q]
    BY <1>1, <1>3 DEF Forwarding, AtCall, IdleCall
  <1>6. \A d \in Crashes : (~store[d].back => filed[d] = 0)' /\ (filed[d] <= 1)'
    BY <1>2, <1>3, <1>4 DEF BackLinkGuards
  <1>7. ASSUME NEW q \in Savers, Forwarding(q)'
        PROVE  (store[call[q].crash].back /\ filed[call[q].crash] = 0)'
    <2>1. q # p /\ Forwarding(q) /\ call'[q] = call[q] /\ call[q].crash \in Crashes
      BY <1>5, <1>7 DEF TypeOK, Forwarding, AtCall
    <2>2. call[q].crash # c
      BY <1>1, <2>1 DEF BackLinkGuards
    <2> QED
      BY <1>3, <1>4, <2>1, <2>2 DEF BackLinkGuards
  <1>8. ASSUME NEW q \in Savers, NEW r \in Savers,
               Forwarding(q)', Forwarding(r)', call'[q].crash = call'[r].crash
        PROVE  q = r
    BY <1>5, <1>8 DEF BackLinkGuards
  <1>9. \A w \in Workers : (~At(w, "rmback") /\ ~At(w, "rmall"))'
    BY <1>3 DEF BackLinkGuards, At
  <1> QED
    BY <1>6, <1>7, <1>8, <1>9 DEF BackLinkGuards

-----------------------------------------------------------------------------
(* Every other step is quiet. *)

\* Writing a file into a crash's directory leaves the back link alone.
LEMMA FileKeepsBack ==
  ASSUME TypeOK, NEW c \in Crashes, NEW f \in {"raw", "report"}, NEW v, Put(c, f, v)
  PROVE  \A d \in Crashes : store'[d].back = store[d].back
  <1>1. store[c] \in [raw : FileState, report : FileState, back : BOOLEAN]
    BY DEF TypeOK
  <1>2. [store[c] EXCEPT ![f] = v].back = store[c].back
    BY <1>1
  <1>3. store' = [store EXCEPT ![c] = [store[c] EXCEPT ![f] = v]]
    BY DEF Put
  <1>4. store \in [Crashes -> [raw : FileState, report : FileState, back : BOOLEAN]]
    BY DEF TypeOK
  <1> QED
    BY <1>2, <1>3, <1>4

\* A save makes no link before it reaches the back link, nor when it ends.
LEMMA EarlySaveIsQuiet ==
  ASSUME TypeOK, NEW p \in Savers,
         Truncate(p) \/ Write(p) \/ PickSlot(p) \/ MakeHourDir(p) \/ MakeSlotDir(p)
  PROVE  Quiet
  <1>1. call[p].crash \in Crashes /\ call[p].file \in {"raw", "report"} /\ call \in [Savers -> CallType]
    BY DEF TypeOK, Truncate, Write, PickSlot, MakeHourDir, MakeSlotDir, AtCall, CallType
  <1>2. UNCHANGED <<filed, worker>>
    BY DEF Truncate, Write, PickSlot, MakeHourDir, MakeSlotDir, InSave
  <1>3. \A c \in Crashes : store'[c].back = store[c].back
    <2>1. \/ UNCHANGED store
          \/ \E v : Put(call[p].crash, call[p].file, v)
      BY DEF Truncate, Write, PickSlot, MakeHourDir, MakeSlotDir, files
    <2> QED
      BY <1>1, <2>1, FileKeepsBack
  <1>4. (\A q \in Savers : q # p => call'[q] = call[q]) /\ call'[p].pc # "forward"
    <2>1. CASE Truncate(p) \/ MakeHourDir(p) \/ MakeSlotDir(p)
      BY <1>1, <2>1 DEF Truncate, MakeHourDir, MakeSlotDir, GoTo, CallType
    <2>2. CASE Write(p)
      BY <1>1, <2>2 DEF Write, GoTo, EndCall, IdleCall, CallType
    <2>3. CASE PickSlot(p)
      BY <1>1, <2>3 DEF PickSlot, CallType
    <2> QED
      BY <2>1, <2>2, <2>3
  <1>5. \A q \in Savers : Forwarding(q)' => Forwarding(q) /\ call'[q].crash = call[q].crash
    BY <1>1, <1>4 DEF Forwarding, AtCall
  <1> QED
    BY <1>2, <1>3, <1>5 DEF Quiet, At

\* A request that begins, and one that dies.
LEMMA RequestIsQuiet ==
  ASSUME TypeOK, NEW p \in Handlers, NEW c \in Crashes, Submit(p, c) \/ Reprocess(p, c) \/ Abort(p)
  PROVE  Quiet
  <1>1. p \in Savers /\ call \in [Savers -> CallType]
    BY DEF TypeOK, Savers
  <1>2. UNCHANGED <<filed, worker, store>>
    BY DEF Submit, Reprocess, Abort, files, history
  <1>3. (\A q \in Savers : q # p => call'[q] = call[q]) /\ call'[p].pc # "forward"
    BY <1>1 DEF Submit, Reprocess, Abort, StartCall, NewCall, IdleCall
  <1>4. \A q \in Savers : Forwarding(q)' => Forwarding(q) /\ call'[q].crash = call[q].crash
    BY <1>1, <1>3 DEF Forwarding, AtCall
  <1> QED
    BY <1>2, <1>4 DEF Quiet, At

\* The scanner never touches a link or a crash's directory.
LEMMA ScannerIsQuiet == ASSUME TypeOK, Scan \/ Restart \/ Tick PROVE Quiet
  <1>1. UNCHANGED <<filed, store, call>>
    BY DEF Scan, Restart, Tick, ReadSlot, ReadDate, ReadRoot, NextDate, NextHour, NextMinute, Spawn,
           RemoveSlot, RemoveHour, EndDate, EndRound, ScanStep, OnFiles, files, history
  <1>2. \A w \in Workers : At(w, "rmback")' \/ At(w, "rmall")' => At(w, "rmback") \/ At(w, "rmall")
    <2>1. CASE ReadSlot
      <3>1. worker' = [w \in Workers |-> [worker[w] EXCEPT !.fresh = FALSE]]
        BY <2>1 DEF ReadSlot
      <3>2. \A w \in Workers : worker[w] \in WorkerType
        BY DEF TypeOK
      <3>3. \A w \in Workers : worker'[w].pc = worker[w].pc
        BY <3>1, <3>2 DEF WorkerType
      <3> QED
        BY <3>3 DEF At
    <2>2. CASE Spawn
      <3>1. PICK c \in scan.entries, v \in Workers \ Busy :
              worker' = [worker EXCEPT ![v] = NewWorker(c, scan.path)]
        BY <2>2 DEF Spawn
      <3>2. worker \in [Workers -> WorkerType] /\ NewWorker(c, scan.path).pc = "lstat"
        BY DEF TypeOK, NewWorker
      <3> QED
        BY <3>1, <3>2 DEF At
    <2>3. CASE UNCHANGED worker
      BY <2>3 DEF At
    <2> QED
      BY <2>1, <2>2, <2>3
      DEF Scan, Restart, Tick, ReadDate, ReadRoot, NextDate, NextHour, NextMinute,
          RemoveSlot, RemoveHour, EndDate, EndRound, ScanStep
  <1> QED
    BY <1>1, <1>2 DEF Quiet, Forwarding, AtCall

\* The processor's death ends its own saves and leaves the others.
LEMMA DownIsQuiet ==
  ASSUME TypeOK, UNCHANGED <<store, filed>>, ProcessorDown PROVE Quiet
  <1>1. \A w \in Workers : worker'[w].pc = "idle"
    BY DEF ProcessorDown, IdleWorker
  <1>2. \A q \in Savers : call'[q] = call[q] \/ call'[q].pc = "idle"
    BY DEF ProcessorDown, IdleCall
  <1> QED
    BY <1>1, <1>2 DEF Quiet, Forwarding, AtCall, At

\* While raw crashes are kept, a worker reads and stores, and never removes.
LEMMA ProcessIsQuiet ==
  ASSUME TypeOK, BackLinkGuards, ~config.removeRaw, NEW w \in Workers, Process(w)
  PROVE  Quiet
  <1>1. /\ call \in [Savers -> CallType] /\ worker \in [Workers -> WorkerType]
        /\ w \in Savers /\ worker[w] \in WorkerType
    BY DEF TypeOK, Savers
  <1>2. ~At(w, "rmback") /\ ~At(w, "rmall")
    BY DEF BackLinkGuards
  <1>3. UNCHANGED <<store, filed>>
    BY <1>2 DEF Process, Lstat, Stat, RemoveLink, GetRaw, GetDumps, SaveProcessed, SaveRawCrash,
                StoredInFs, Index, RemoveBack, RemoveFile, RemoveDir, InWork
  <1>4. \A i \in Nat : AfterDestination(w, i).pc \in {"store", "idle"}
    BY <1>1 DEF AfterDestination, WorkerType, IdleWorker
  <1>5. \/ ProcessorDown
        \/ /\ \E r : WorkerTo(w, r) /\ r.pc \notin {"rmback", "rmall"}
           /\ call' = call \/ \E c, f, x : StartCall(w, c, f, x)
    <2>1. \A pc \in {"stat", "unlink", "unlink again", "getraw", "processed", "saved"} :
            [worker[w] EXCEPT !.pc = pc].pc = pc
      BY <1>1 DEF WorkerType
    <2>2. CASE Lstat(w) \/ Stat(w)
      BY <2>1, <2>2 DEF Lstat, Stat, GoOnIf
    <2>3. CASE RemoveLink(w, "unlink", "unlink again") \/ RemoveLink(w, "unlink again", "getraw")
      BY <2>1, <2>3 DEF RemoveLink, Move
    <2>4. CASE GetRaw(w)
      <3>1. [worker[w] EXCEPT !.pc = "getdumps", !.raw = GetRawCrash(Crash(w))].pc = "getdumps"
        BY <1>1 DEF WorkerType
      <3> QED
        BY <2>4, <3>1 DEF GetRaw
    <2>5. CASE GetDumps(w)
      BY <1>4, <2>5 DEF GetDumps, GoOnIf
    <2>6. CASE SaveProcessed(w) \/ SaveRawCrash(w)
      BY <2>1, <2>6 DEF SaveProcessed, SaveRawCrash, Move
    <2>7. worker[w].dst \in Nat
      BY <1>1 DEF WorkerType
    <2>8. CASE StoredInFs(w)
      BY <1>4, <2>7, <2>8 DEF StoredInFs
    <2>9. ASSUME NEW dated, Index(w, dated)
          PROVE  (\E r : WorkerTo(w, r) /\ r.pc \notin {"rmback", "rmall"}) /\ call' = call
      BY <1>4, <2>7, <2>9 DEF Index
    <2> QED
      BY <1>2, <2>2, <2>3, <2>4, <2>5, <2>6, <2>8, <2>9 DEF Process, RemoveBack, RemoveFile, RemoveDir
  <1>6. CASE ProcessorDown
    BY <1>3, <1>6, DownIsQuiet
  <1>7. ASSUME NEW r, WorkerTo(w, r), r.pc \notin {"rmback", "rmall"},
               call' = call \/ \E c, f, x : StartCall(w, c, f, x)
        PROVE  Quiet
    <2>1. \A q \in Savers : Forwarding(q)' => Forwarding(q) /\ call'[q].crash = call[q].crash
      BY <1>1, <1>7 DEF Forwarding, AtCall, StartCall, NewCall
    <2>2. \A v \in Workers : At(v, "rmback")' \/ At(v, "rmall")' => At(v, "rmback") \/ At(v, "rmall")
      BY <1>1, <1>7 DEF WorkerTo, At
    <2> QED
      BY <1>3, <2>1, <2>2 DEF Quiet
  <1> QED
    BY <1>5, <1>6, <1>7

-----------------------------------------------------------------------------
\* At the start no crash is filed and no process saves.
LEMMA InitGuards == Init => IInv
  <1> SUFFICES ASSUME Init PROVE IInv
    OBVIOUS
  <1>1. \A c \in Crashes : filed[c] = 0
    BY DEF Init
  <1>2. \A p \in Savers : ~Forwarding(p)
    BY DEF Init, Forwarding, AtCall, IdleCall
  <1>3. \A w \in Workers : ~At(w, "rmback") /\ ~At(w, "rmall")
    BY DEF Init, At, IdleWorker
  <1>4. BackLinkGuards
    BY <1>1, <1>2, <1>3 DEF BackLinkGuards
  <1> QED
    BY <1>4, InitType DEF IInv

\* The configuration is read once.
LEMMA NextKeepsConfig == ASSUME [Next]_vars PROVE UNCHANGED config
  BY DEF Next, Submit, Reprocess, Save, Truncate, Write, PickSlot, MakeHourDir, MakeSlotDir, LinkBack,
         LinkForward, Abort, Process, Lstat, Stat, RemoveLink, GetRaw, GetDumps, SaveProcessed,
         SaveRawCrash, StoredInFs, Index, RemoveBack, RemoveFile, RemoveDir, Scan, ReadSlot, ReadDate,
         ReadRoot, NextDate, NextHour, NextMinute, Spawn, RemoveSlot, RemoveHour, EndDate, EndRound,
         Tick, ProcessorDies, Restart, ScanStep, OnFiles, InSave, InWork, fixed, vars

\* Every step keeps the inductive invariant.
LEMMA NextGuards == IInv /\ [Next]_vars => IInv'
  <1> SUFFICES ASSUME IInv, [Next]_vars PROVE IInv'
    OBVIOUS
  <1>1. TypeOK /\ TypeOK'
    BY NextType DEF IInv
  <1>2. UNCHANGED config
    BY NextKeepsConfig
  <1>3. ASSUME ~config'.removeRaw PROVE BackLinkGuards'
    <2>1. BackLinkGuards /\ ~config.removeRaw
      BY <1>2, <1>3 DEF IInv
    <2>2. ASSUME NEW p \in Savers, Save(p) PROVE BackLinkGuards'
      BY <1>1, <2>1, <2>2, EarlySaveIsQuiet, LinkBackKeepsGuards, LinkForwardKeepsGuards,
         QuietKeepsGuards DEF Save
    <2>3. ASSUME NEW p \in Handlers, NEW c \in Crashes, Submit(p, c) \/ Reprocess(p, c)
          PROVE  BackLinkGuards'
      BY <1>1, <2>1, <2>3, RequestIsQuiet, QuietKeepsGuards
    <2>4. ASSUME NEW p \in Handlers, Abort(p) PROVE BackLinkGuards'
      <3>1. PICK c : c = call[p].crash /\ c \in Crashes
        BY <1>1, <2>4 DEF Abort, TypeOK, Savers
      <3> QED
        BY <1>1, <2>1, <2>4, <3>1, RequestIsQuiet, QuietKeepsGuards
    <2>5. ASSUME NEW w \in Workers, Process(w) PROVE BackLinkGuards'
      BY <1>1, <2>1, <2>5, ProcessIsQuiet, QuietKeepsGuards
    <2>6. CASE Scan \/ Tick \/ Restart
      BY <1>1, <2>1, <2>6, ScannerIsQuiet, QuietKeepsGuards
    <2>7. CASE ProcessorDies
      <3>1. UNCHANGED <<store, filed>> /\ ProcessorDown
        BY <2>7 DEF ProcessorDies, InWork
      <3> QED
        BY <1>1, <2>1, <3>1, DownIsQuiet, QuietKeepsGuards
    <2>8. CASE UNCHANGED vars
      BY <2>1, <2>8 DEF BackLinkGuards, Forwarding, AtCall, At, vars, files, history
    <2> QED
      BY <2>2, <2>3, <2>4, <2>5, <2>6, <2>7, <2>8 DEF Next
  <1> QED
    BY <1>1, <1>3 DEF IInv

\* While raw crashes are kept, no crash is filed twice, whatever reprocess requests, saves
\* of the processor into its own spool, deaths and restarts come together.
THEOREM SpoolFiledAtMostOnce == Spec => []FiledAtMostOnce
  <1>1. IInv => FiledAtMostOnce
    BY DEF IInv, BackLinkGuards, FiledAtMostOnce
  <1> QED
    BY <1>1, InitGuards, NextGuards, PTL DEF Spec

-----------------------------------------------------------------------------
(* The spool implements the life of a crash.  Whatever holds a crash, a  *)
(* link, a listing or a goroutine, was filed; and while raw crashes are  *)
(* kept all of them refer to the crash's one forward link, which is gone *)
(* once a goroutine is past removing it.                                 *)

Holds(w) == ~At(w, "idle")
Past(w)  == worker[w].pc \notin {"idle", "lstat", "stat", "unlink"}

HeldIsFiled ==
    /\ \A l \in links : filed[l[2]] > 0
    /\ \A c \in scan.entries : filed[c] > 0
    /\ scan.entries # {} => scan.pc = "entries"
    /\ \A w \in Workers : Holds(w) => filed[Crash(w)] > 0

OneLink ==
    /\ \A l, m \in links : l[2] = m[2] => l = m
    /\ \A l \in links : l[2] \in scan.entries => l[1] = scan.path
    /\ \A w \in Workers, l \in links : Holds(w) /\ l[2] = Crash(w) => l = Link(w) /\ ~Past(w)

LInv == IInv /\ HeldIsFiled /\ (~config.removeRaw => OneLink)

\* A step that files nothing, takes no link away and gives no goroutine a crash.
OldWorkers == \A w \in Workers :
    Holds(w)' => /\ Holds(w) /\ (Past(w)' => Past(w))
                 /\ worker'[w].crash = worker[w].crash /\ worker'[w].path = worker[w].path

OldEntries ==
    /\ scan'.entries \subseteq scan.entries
    /\ scan'.entries # {} => scan'.pc = "entries" /\ scan'.path = scan.path

Steady == UNCHANGED <<config, links, filed>> /\ OldWorkers /\ OldEntries

\* A steady step keeps the invariant.
LEMMA SteadyKeeps ==
  ASSUME HeldIsFiled, Steady
  PROVE  HeldIsFiled' /\ (OneLink => OneLink')
  <1>1. HeldIsFiled'
    BY DEF HeldIsFiled, Steady, OldWorkers, OldEntries, Crash
  <1>2. ASSUME OneLink PROVE OneLink'
    <2>1. \A l, m \in links' : l[2] = m[2] => l = m
      BY <1>2 DEF OneLink, Steady
    <2>2. ASSUME NEW l \in links', l[2] \in scan'.entries PROVE l[1] = scan'.path
      BY <1>2, <2>2 DEF OneLink, Steady, OldEntries
    <2>3. ASSUME NEW w \in Workers, NEW l \in links', Holds(w)', l[2] = Crash(w)'
          PROVE  l = Link(w)' /\ ~Past(w)'
      BY <1>2, <2>3 DEF OneLink, Steady, OldWorkers, Crash, Link
    <2> QED
      BY <2>1, <2>2, <2>3 DEF OneLink
  <1> QED
    BY <1>1, <1>2

-----------------------------------------------------------------------------
(* The steps that are not steady. *)

\* A forward link is the first of its crash, of which nobody holds anything yet.
LEMMA LinkForwardKeepsHeld ==
  ASSUME TypeOK, IInv, HeldIsFiled, ~config.removeRaw => OneLink, NEW p \in Savers, LinkForward(p)
  PROVE  HeldIsFiled' /\ (~config.removeRaw => OneLink')
  <1> DEFINE c == call[p].crash
             l0 == <<SlotPath(p), c>>
  <1>1. c \in Crashes /\ filed \in [Crashes -> Nat] /\ Forwarding(p)
    BY DEF TypeOK, LinkForward, AtCall, Forwarding
  <1>2. UNCHANGED <<scan, worker>>
    BY DEF LinkForward, InSave
  <1>3. \A d \in Crashes : filed[d] > 0 => filed'[d] > 0
    <2>1. filed' = filed \/ filed' = [filed EXCEPT ![c] = filed[c] + 1]
      BY DEF LinkForward
    <2> QED
      BY <1>1, <2>1
  <1>4. links' = links \/ (links' = links \cup {l0} /\ filed'[c] > 0)
    <2>1. CASE CanLinkForward(p)
      <3>1. links' = links \cup {l0} /\ filed' = [filed EXCEPT ![c] = filed[c] + 1]
        BY <2>1 DEF LinkForward
      <3> QED
        BY <1>1, <3>1
    <2> QED
      BY <2>1 DEF LinkForward
  <1>5. links \subseteq Seq(Int) \X Crashes /\ scan.entries \subseteq Crashes
    BY DEF TypeOK, ScanType
  <1>6. \A w \in Workers : Holds(w) => Crash(w) \in Crashes
    BY DEF TypeOK, Holds, Crash
  <1>7. HeldIsFiled'
    <2>1. ASSUME NEW l \in links' PROVE filed'[l[2]] > 0
      <3>1. CASE l \in links
        <4>1. l[2] \in Crashes /\ filed[l[2]] > 0
          BY <1>5, <3>1 DEF HeldIsFiled
        <4> QED
          BY <1>3, <4>1
      <3>2. CASE l \notin links
        BY <1>4, <2>1, <3>2
      <3> QED
        BY <3>1, <3>2
    <2>2. \A d \in scan'.entries : filed'[d] > 0
      BY <1>2, <1>3, <1>5 DEF HeldIsFiled
    <2>3. \A w \in Workers : Holds(w)' => filed'[Crash(w)'] > 0
      BY <1>2, <1>3, <1>6 DEF HeldIsFiled, Holds, At, Crash
    <2> QED
      BY <1>2, <2>1, <2>2, <2>3 DEF HeldIsFiled
  <1>8. ASSUME ~config.removeRaw PROVE OneLink'
    <2>1. filed[c] = 0 /\ OneLink
      BY <1>1, <1>8 DEF IInv, BackLinkGuards
    <2>2. /\ \A l \in links : l[2] # c
          /\ c \notin scan.entries
          /\ \A w \in Workers : Holds(w) => Crash(w) # c
      BY <2>1 DEF HeldIsFiled
    <2>3. \A l \in links' : l \in links \/ (l = l0 /\ l[2] = c)
      BY <1>4
    <2>4. \A l, m \in links' : l[2] = m[2] => l = m
      BY <2>1, <2>2, <2>3 DEF OneLink
    <2>5. \A l \in links' : l[2] \in scan'.entries => l[1] = scan'.path
      BY <1>2, <2>1, <2>2, <2>3 DEF OneLink
    <2>6. \A w \in Workers, l \in links' : Holds(w)' /\ l[2] = Crash(w)' => l = Link(w)' /\ ~Past(w)'
      BY <1>2, <2>1, <2>2, <2>3 DEF OneLink, Holds, At, Crash, Link, Past
    <2> QED
      BY <2>4, <2>5, <2>6 DEF OneLink
  <1> QED
    BY <1>7, <1>8

\* Listing a slot directory: what it holds is linked from there, and only from there.
LEMMA NextMinuteKeepsHeld ==
  ASSUME TypeOK, HeldIsFiled, NextMinute
  PROVE  HeldIsFiled' /\ (OneLink => OneLink')
  <1>1. PICK m : \/ scan'.entries = scan.entries /\ scan'.pc = scan.pc
                 \/ /\ scan'.entries = Entries([scan.path EXCEPT ![3] = m])
                    /\ scan'.path = [scan.path EXCEPT ![3] = m]
                    /\ scan'.pc = "entries"
    <2>1. scan \in ScanType
      BY DEF TypeOK
    <2>2. PICK m \in First(scan.mins) :
            \/ scan' = [scan EXCEPT !.mins = scan.mins \ {m}, !.skip = TRUE]
            \/ scan' = [scan EXCEPT !.mins = scan.mins \ {m}, !.pc = "entries",
                                    !.path = [scan.path EXCEPT ![3] = m],
                                    !.entries = Entries([scan.path EXCEPT ![3] = m])]
      BY DEF NextMinute, ScanStep
    <2> QED
      BY <2>1, <2>2 DEF ScanType
  <1>2. UNCHANGED <<links, filed, worker>> /\ scan.entries = {}
    BY DEF NextMinute, ScanStep, OnFiles, Scanning, HeldIsFiled, history
  <1>3. HeldIsFiled'
    BY <1>1, <1>2 DEF HeldIsFiled, Entries, Holds, At, Crash
  <1>4. ASSUME OneLink PROVE OneLink'
    BY <1>1, <1>2, <1>4 DEF OneLink, Entries, Holds, At, Crash, Link, Past
  <1> QED
    BY <1>3, <1>4

\* A goroutine is started with a listed crash and the slot it was listed in.
LEMMA SpawnKeepsHeld ==
  ASSUME TypeOK, HeldIsFiled, Spawn
  PROVE  HeldIsFiled' /\ (OneLink => OneLink')
  <1>1. PICK c \in scan.entries, w \in Workers \ Busy :
          /\ worker' = [worker EXCEPT ![w] = NewWorker(c, scan.path)]
          /\ scan' = [scan EXCEPT !.entries = scan.entries \ {c}]
    BY DEF Spawn
  <1>2. UNCHANGED <<links, filed>> /\ scan \in ScanType /\ worker \in [Workers -> WorkerType]
    BY DEF Spawn, OnFiles, history, TypeOK
  <1>3. /\ scan'.entries \subseteq scan.entries /\ scan'.pc = scan.pc /\ scan'.path = scan.path
    BY <1>1, <1>2 DEF ScanType
  <1>4. /\ worker'[w].pc = "lstat" /\ worker'[w].crash = c /\ worker'[w].path = scan.path
        /\ \A v \in Workers : v # w => worker'[v] = worker[v]
    BY <1>1, <1>2 DEF NewWorker
  <1>5. HeldIsFiled'
    <2>1. \A v \in Workers : Holds(v)' => filed'[Crash(v)'] > 0
      BY <1>1, <1>2, <1>4 DEF HeldIsFiled, Holds, At, Crash
    <2> QED
      BY <1>2, <1>3, <2>1 DEF HeldIsFiled
  <1>6. ASSUME OneLink PROVE OneLink'
    <2>1. ASSUME NEW v \in Workers, NEW l \in links, Holds(v)', l[2] = Crash(v)'
          PROVE  l = Link(v)' /\ ~Past(v)'
      <3>1. CASE v # w
        BY <1>4, <1>6, <2>1, <3>1 DEF OneLink, Holds, At, Crash, Link, Past
      <3>2. CASE v = w
        <4>1. l[2] = c /\ l[1] = scan.path
          BY <1>1, <1>4, <1>6, <2>1, <3>2 DEF OneLink, Crash
        <4>2. l = <<l[1], l[2]>>
          BY DEF TypeOK
        <4> QED
          BY <1>4, <3>2, <4>1, <4>2 DEF Link, Past
      <3> QED
        BY <3>1, <3>2
    <2> QED
      BY <1>2, <1>3, <1>6, <2>1 DEF OneLink
  <1> QED
    BY <1>5, <1>6

\* A goroutine that removes its link removes the only one.
LEMMA RemoveLinkKeepsHeld ==
  ASSUME TypeOK, HeldIsFiled, NEW w \in Workers,
         RemoveLink(w, "unlink", "unlink again") \/ RemoveLink(w, "unlink again", "getraw")
  PROVE  HeldIsFiled' /\ (OneLink => OneLink')
  <1>1. UNCHANGED <<filed, scan>> /\ links' = links \ {Link(w)}
    BY DEF RemoveLink, InWork, Unlinked
  <1>2. /\ worker \in [Workers -> WorkerType] /\ Holds(w)
        /\ \E pc \in {"unlink again", "getraw"} : worker' = [worker EXCEPT ![w] = [worker[w] EXCEPT !.pc = pc]]
    BY DEF TypeOK, RemoveLink, Move, WorkerTo, At, Holds
  <1>3. \A v \in Workers : /\ worker'[v].crash = worker[v].crash /\ worker'[v].path = worker[v].path
                           /\ v # w => worker'[v].pc = worker[v].pc
    <2>1. PICK pc \in {"unlink again", "getraw"} : worker' = [worker EXCEPT ![w] = [worker[w] EXCEPT !.pc = pc]]
      BY <1>2
    <2>2. worker[w] \in WorkerType /\ worker'[w] = [worker[w] EXCEPT !.pc = pc]
      BY <1>2, <2>1
    <2>3. worker'[w].crash = worker[w].crash /\ worker'[w].path = worker[w].path
      BY <2>2 DEF WorkerType
    <2>4. \A v \in Workers : v # w => worker'[v] = worker[v]
      BY <1>2, <2>1
    <2> QED
      BY <2>3, <2>4
  <1>4. \A v \in Workers : Holds(v)' => Holds(v)
    BY <1>2, <1>3 DEF Holds, At
  <1>5. HeldIsFiled'
    BY <1>1, <1>3, <1>4 DEF HeldIsFiled, Crash
  <1>6. ASSUME OneLink PROVE OneLink'
    <2>1. ASSUME NEW v \in Workers, NEW l \in links', Holds(v)', l[2] = Crash(v)'
          PROVE  l = Link(v)' /\ ~Past(v)'
      <3>1. l \in links /\ l # Link(w) /\ Holds(v) /\ l[2] = Crash(v)
        BY <1>1, <1>3, <1>4, <2>1 DEF Crash
      <3>2. l = Link(v) /\ ~Past(v)
        BY <1>6, <3>1 DEF OneLink
      <3>3. v # w
        BY <3>1, <3>2
      <3> QED
        BY <1>3, <3>2, <3>3 DEF Link, Past
    <2> QED
      BY <1>1, <1>6, <2>1 DEF OneLink
  <1> QED
    BY <1>5, <1>6

-----------------------------------------------------------------------------
(* Every other step is steady. *)

\* A step that leaves scanner and workers alone.
LEMMA ElsewhereIsSteady ==
  ASSUME HeldIsFiled, UNCHANGED <<config, links, filed, scan, worker>> PROVE Steady
  BY DEF Steady, OldWorkers, OldEntries, HeldIsFiled, Holds, Past, At

\* A save before its forward link, a request that begins or dies, and the clock.
LEMMA OthersAreSteady ==
  ASSUME HeldIsFiled,
         \/ Tick
         \/ \E p \in Savers : Truncate(p) \/ Write(p) \/ PickSlot(p) \/ MakeHourDir(p)
                            \/ MakeSlotDir(p) \/ LinkBack(p)
         \/ \E p \in Handlers : Abort(p) \/ \E c \in Crashes : Submit(p, c) \/ Reprocess(p, c)
  PROVE  Steady
  <1>1. UNCHANGED <<config, links, filed, scan, worker>>
    BY DEF Tick, Truncate, Write, PickSlot, MakeHourDir, MakeSlotDir, LinkBack, Abort, Submit, Reprocess,
           InSave, fixed, files, history
  <1> QED
    BY <1>1, ElsewhereIsSteady

\* The scanner between its listings, and at the start of a round.
LEMMA ScannerIsSteady ==
  ASSUME TypeOK, HeldIsFiled,
         \/ ReadSlot \/ ReadDate \/ ReadRoot \/ NextDate \/ NextHour
         \/ RemoveSlot \/ RemoveHour \/ EndDate \/ EndRound \/ Restart
  PROVE  Steady
  <1>1. UNCHANGED <<config, links, filed>>
    BY DEF ReadSlot, ReadDate, ReadRoot, NextDate, NextHour, RemoveSlot, RemoveHour, EndDate, EndRound,
           Restart, ScanStep, OnFiles, fixed, history
  <1>2. scan'.entries = {}
    <2>1. scan \in ScanType /\ NewScan.entries = {}
      BY DEF TypeOK, NewScan
    <2>2. scan.pc = "entries" \/ scan.entries = {}
      BY DEF HeldIsFiled
    <2>3. CASE ReadSlot
      BY <2>1, <2>3 DEF ReadSlot, NewScan
    <2>4. CASE ReadDate \/ ReadRoot \/ NextDate \/ NextHour
      BY <2>1, <2>2, <2>4 DEF ReadDate, ReadRoot, NextDate, NextHour, ScanStep, Scanning, ScanType
    <2>5. CASE RemoveSlot \/ RemoveHour \/ EndDate
      BY <2>1, <2>2, <2>5 DEF RemoveSlot, RemoveHour, EndDate, ScanStep, Scanning, ScanType
    <2>6. CASE EndRound \/ Restart
      BY <2>1, <2>6 DEF EndRound, Restart, ScanStep
    <2> QED
      BY <2>3, <2>4, <2>5, <2>6
  <1>3. OldWorkers
    <2>1. CASE ReadSlot
      <3>1. \A w \in Workers : worker[w] \in WorkerType
        BY DEF TypeOK
      <3>2. \A w \in Workers : worker'[w] = [worker[w] EXCEPT !.fresh = FALSE]
        BY <2>1 DEF ReadSlot
      <3>3. \A w \in Workers : /\ worker'[w].pc = worker[w].pc /\ worker'[w].crash = worker[w].crash
                                /\ worker'[w].path = worker[w].path
        BY <3>1, <3>2 DEF WorkerType
      <3> QED
        BY <3>3 DEF OldWorkers, Holds, Past, At
    <2>2. CASE UNCHANGED worker
      BY <2>2 DEF OldWorkers, Holds, Past, At
    <2> QED
      BY <2>1, <2>2 DEF ReadDate, ReadRoot, NextDate, NextHour, RemoveSlot, RemoveHour, EndDate, EndRound,
                        Restart, ScanStep
  <1> QED
    BY <1>1, <1>2, <1>3 DEF Steady, OldEntries

\* The processor's death lets go of everything.
LEMMA DownIsSteady ==
  ASSUME ProcessorDown, UNCHANGED <<config, links, filed>> PROVE Steady
  <1>1. scan'.entries = {} /\ \A w \in Workers : worker'[w].pc = "idle"
    BY DEF ProcessorDown, NewScan, IdleWorker
  <1> QED
    BY <1>1 DEF Steady, OldWorkers, OldEntries, Holds, At

\* A goroutine that looks, reads, stores or removes files keeps its crash or lets it go,
\* and is never back before its link.
LEMMA ProcessIsSteady ==
  ASSUME TypeOK, HeldIsFiled, NEW w \in Workers, Process(w),
         ~RemoveLink(w, "unlink", "unlink again"), ~RemoveLink(w, "unlink again", "getraw")
  PROVE  Steady
  <1>1. worker \in [Workers -> WorkerType] /\ worker[w] \in WorkerType
    BY DEF TypeOK
  <1>2. UNCHANGED <<config, links, filed>>
    BY DEF Process, Lstat, Stat, GetRaw, GetDumps, SaveProcessed, SaveRawCrash, StoredInFs, Index,
           RemoveBack, RemoveFile, RemoveDir, InWork, fixed
  <1> DEFINE Same(r) == r.crash = worker[w].crash /\ r.path = worker[w].path
             Kept(r) == \/ r.pc = "idle"
                        \/ Same(r) /\ Holds(w) /\ (r.pc \notin {"idle", "lstat", "stat", "unlink"} => Past(w))
  <1>3. \A pc \in {"stat", "unlink", "store", "processed", "saved", "rmback", "rmall"} :
          [worker[w] EXCEPT !.pc = pc].pc = pc /\ Same([worker[w] EXCEPT !.pc = pc])
    BY <1>1 DEF WorkerType
  <1>4. ASSUME Past(w), NEW i \in Nat PROVE Holds(w) /\ Kept(AfterDestination(w, i))
    <2>1. Holds(w)
      BY <1>4 DEF Past, Holds, At
    <2>2. Same([worker[w] EXCEPT !.pc = "store", !.dst = i + 1])
      BY <1>1 DEF WorkerType
    <2>3. Kept([worker[w] EXCEPT !.pc = "store", !.dst = i + 1])
      BY <1>4, <2>1, <2>2
    <2>4. Kept([worker[w] EXCEPT !.pc = "rmback"])
      BY <1>3, <1>4, <2>1
    <2>5. Kept(IdleWorker)
      BY DEF IdleWorker
    <2> QED
      BY <2>1, <2>3, <2>4, <2>5 DEF AfterDestination
  <1>5. \/ ProcessorDown
        \/ UNCHANGED <<worker, scan>>
        \/ (\E r : WorkerTo(w, r) /\ Kept(r)) /\ UNCHANGED scan
    <2>1. worker[w].dst \in Nat
      BY <1>1 DEF WorkerType
    <2>2. CASE Lstat(w)
      <3>1. Kept([worker[w] EXCEPT !.pc = "stat"])
        BY <1>3, <2>2 DEF Lstat, At, Holds
      <3> QED
        BY <2>2, <3>1 DEF Lstat, GoOnIf
    <2>3. CASE Stat(w)
      <3>1. Kept([worker[w] EXCEPT !.pc = "unlink"])
        BY <1>3, <2>3 DEF Stat, At, Holds
      <3> QED
        BY <2>3, <3>1 DEF Stat, GoOnIf
    <2>4. CASE GetRaw(w)
      <3> DEFINE r == [worker[w] EXCEPT !.pc = "getdumps", !.raw = GetRawCrash(Crash(w))]
      <3>1. Same(r) /\ Holds(w) /\ Past(w)
        BY <1>1, <2>4 DEF WorkerType, GetRaw, At, Holds, Past
      <3> QED
        BY <2>4, <3>1 DEF GetRaw
    <2>5. CASE GetDumps(w)
      <3>1. Past(w)
        BY <2>5 DEF GetDumps, At, Past
      <3> QED
        BY <1>4, <2>5, <3>1 DEF GetDumps, GoOnIf
    <2>6. CASE SaveProcessed(w) \/ SaveRawCrash(w) \/ RemoveBack(w)
      <3>1. Past(w) /\ Holds(w)
        BY <2>6 DEF SaveProcessed, SaveRawCrash, RemoveBack, At, Past, Holds
      <3>2. \A pc \in {"processed", "saved", "rmall"} : Kept([worker[w] EXCEPT !.pc = pc])
        BY <1>3, <3>1
      <3> QED
        BY <2>6, <3>2 DEF SaveProcessed, SaveRawCrash, RemoveBack, Move
    <2>7. CASE StoredInFs(w)
      <3>1. Past(w)
        BY <2>7 DEF StoredInFs, At, Past
      <3> QED
        BY <1>4, <2>1, <2>7, <3>1 DEF StoredInFs
    <2>8. ASSUME NEW dated, Index(w, dated)
          PROVE  (\E r : WorkerTo(w, r) /\ Kept(r)) /\ UNCHANGED scan
      <3>1. Past(w)
        BY <2>8 DEF Index, At, Past
      <3> QED
        BY <1>4, <2>1, <2>8, <3>1 DEF Index
    <2>9. CASE RemoveDir(w)
      <3>1. Kept(IdleWorker)
        BY DEF IdleWorker
      <3> QED
        BY <2>9, <3>1 DEF RemoveDir
    <2>10. CASE \E f \in {"raw", "report"} : RemoveFile(w, f)
      BY <2>10 DEF RemoveFile
    <2> QED
      BY <2>2, <2>3, <2>4, <2>5, <2>6, <2>7, <2>8, <2>9, <2>10 DEF Process
  <1>6. CASE ProcessorDown
    BY <1>2, <1>6, DownIsSteady
  <1>7. CASE UNCHANGED <<worker, scan>>
    BY <1>2, <1>7, ElsewhereIsSteady
  <1>8. ASSUME NEW r, WorkerTo(w, r), Kept(r), UNCHANGED scan PROVE Steady
    <2>1. worker'[w] = r /\ \A v \in Workers : v # w => worker'[v] = worker[v]
      BY <1>1, <1>8 DEF WorkerTo
    <2>2. OldWorkers
      BY <1>8, <2>1 DEF OldWorkers, Holds, Past, At
    <2> QED
      BY <1>2, <1>8, <2>2 DEF Steady, OldEntries, HeldIsFiled
  <1> QED
    BY <1>5, <1>6, <1>7, <1>8

-----------------------------------------------------------------------------
\* At the start nobody holds anything.
LEMMA InitHeld == Init => LInv
  <1> SUFFICES ASSUME Init PROVE LInv
    OBVIOUS
  <1>1. links = {} /\ scan.entries = {} /\ \A w \in Workers : ~Holds(w)
    BY DEF Init, NewScan, IdleWorker, Holds, At
  <1> QED
    BY <1>1, InitGuards DEF LInv, HeldIsFiled, OneLink

\* Every step keeps the invariant.
LEMMA NextHeld == LInv /\ [Next]_vars => LInv'
  <1> SUFFICES ASSUME LInv, [Next]_vars PROVE LInv'
    OBVIOUS
  <1>1. IInv' /\ TypeOK /\ IInv /\ HeldIsFiled /\ (~config.removeRaw => OneLink)
    BY NextGuards DEF LInv, IInv
  <1>2. UNCHANGED config
    BY NextKeepsConfig
  <1>3. CASE Steady
    BY <1>1, <1>2, <1>3, SteadyKeeps DEF LInv
  <1>4. ASSUME NEW p \in Savers, Save(p) PROVE LInv'
    <2>1. CASE LinkForward(p)
      BY <1>1, <1>2, <2>1, LinkForwardKeepsHeld DEF LInv
    <2> QED
      BY <1>1, <1>3, <1>4, <2>1, OthersAreSteady DEF Save
  <1>5. ASSUME NEW w \in Workers, Process(w) PROVE LInv'
    <2>1. CASE RemoveLink(w, "unlink", "unlink again") \/ RemoveLink(w, "unlink again", "getraw")
      BY <1>1, <1>2, <2>1, RemoveLinkKeepsHeld DEF LInv
    <2> QED
      BY <1>1, <1>3, <1>5, <2>1, ProcessIsSteady
  <1>6. CASE Scan
    <2>1. CASE NextMinute
      BY <1>1, <1>2, <2>1, NextMinuteKeepsHeld DEF LInv
    <2>2. CASE Spawn
      BY <1>1, <1>2, <2>2, SpawnKeepsHeld DEF LInv
    <2> QED
      BY <1>1, <1>3, <1>6, <2>1, <2>2, ScannerIsSteady DEF Scan
  <1>7. CASE Restart
    BY <1>1, <1>3, <1>7, ScannerIsSteady
  <1>8. CASE Tick \/ \E p \in Handlers : Abort(p) \/ \E c \in Crashes : Submit(p, c) \/ Reprocess(p, c)
    BY <1>1, <1>3, <1>8, OthersAreSteady
  <1>9. CASE ProcessorDies
    <2>1. ProcessorDown /\ UNCHANGED <<config, links, filed>>
      BY <1>9 DEF ProcessorDies, InWork, fixed
    <2> QED
      BY <1>3, <2>1, DownIsSteady
  <1>10. CASE UNCHANGED vars
    <2>1. UNCHANGED <<config, links, filed, scan, worker>>
      BY <1>10 DEF vars, files, history, fixed
    <2> QED
      BY <1>1, <1>3, <2>1, ElsewhereIsSteady
  <1> QED
    BY <1>4, <1>5, <1>6, <1>7, <1>8, <1>9, <1>10 DEF Next

-----------------------------------------------------------------------------
(* Every step of the spool is a step of the crash's life, or none. *)

\* Nothing happens in a crash's life while links, histories and index stay.
LEMMA NoLifeStep == UNCHANGED <<config, links, filed, indexed>> => UNCHANGED Life!vars
  BY DEF Life!vars, Stage

\* Two stages are the same when they agree on every crash.
LEMMA StageType ==
  /\ Stage \in [Crashes -> {"new", "queued", "taken"}] /\ Stage' \in [Crashes -> {"new", "queued", "taken"}]
  /\ (\A c \in Crashes : Stage'[c] = Stage[c]) => Stage' = Stage
  <1>1. Stage \in [Crashes -> {"new", "queued", "taken"}] /\ Stage' \in [Crashes -> {"new", "queued", "taken"}]
    BY DEF Stage
  <1>2. ASSUME \A c \in Crashes : Stage'[c] = Stage[c] PROVE Stage' = Stage
    <2>1. \A f, g \in [Crashes -> {"new", "queued", "taken"}] : (\A c \in Crashes : f[c] = g[c]) => f = g
      OBVIOUS
    <2> QED
      BY ONLY <1>1, <1>2, <2>1
  <1> QED
    BY <1>1, <1>2

\* A forward link that is made queues its crash, unless it was queued already.
LEMMA LinkForwardQueues ==
  ASSUME LInv, NEW p \in Savers, LinkForward(p) PROVE [Life!Next]_Life!vars
  <1> DEFINE c == call[p].crash
             l0 == <<SlotPath(p), c>>
  <1>1. c \in Crashes /\ filed \in [Crashes -> Nat] /\ Forwarding(p)
    BY DEF LInv, IInv, TypeOK, LinkForward, AtCall, Forwarding
  <1>2. UNCHANGED <<config, indexed>>
    BY DEF LinkForward, InSave, fixed
  <1>3. CASE ~CanLinkForward(p)
    BY <1>2, <1>3, NoLifeStep DEF LinkForward
  <1>4. CASE CanLinkForward(p)
    <2>1. links' = links \cup {l0} /\ filed' = [filed EXCEPT ![c] = filed[c] + 1]
      BY <1>4 DEF LinkForward
    <2>2. l0[2] = c
      OBVIOUS
    <2>3. Stage' = [Stage EXCEPT ![c] = "queued"]
      <3>1. \A d \in Crashes : Stage'[d] = IF d = c THEN "queued" ELSE Stage[d]
        BY <1>1, <2>1, <2>2 DEF Stage
      <3> QED
        BY <1>1, <3>1, StageType
    <2>4. CASE \E l \in links : l[2] = c
      <3>1. Stage[c] = "queued"
        BY <1>1, <2>4 DEF Stage
      <3>2. Stage' = Stage
        BY <1>1, <2>3, <3>1, StageType
      <3> QED
        BY <1>2, <3>2 DEF Life!vars
    <2>5. CASE \A l \in links : l[2] # c
      <3>1. Stage[c] = IF filed[c] > 0 THEN "taken" ELSE "new"
        BY <1>1, <2>5 DEF Stage
      <3>2. ~config.removeRaw => filed[c] = 0
        BY <1>1 DEF LInv, IInv, BackLinkGuards
      <3>3. Life!Queue(c)
        BY <1>1, <1>2, <2>3, <3>1, <3>2 DEF Life!Queue
      <3> QED
        BY <1>1, <3>3 DEF Life!Next
    <2> QED
      BY <2>4, <2>5
  <1> QED
    BY <1>3, <1>4

\* Removing the link takes the crash off the queue, if it was still there.
LEMMA RemoveLinkTakes ==
  ASSUME LInv, NEW w \in Workers,
         RemoveLink(w, "unlink", "unlink again") \/ RemoveLink(w, "unlink again", "getraw")
  PROVE  [Life!Next]_Life!vars
  <1> DEFINE c == Crash(w)
  <1>1. UNCHANGED <<config, filed, indexed>> /\ links' = links \ {Link(w)}
    BY DEF RemoveLink, InWork, Unlinked, fixed
  <1>2. c \in Crashes /\ filed[c] > 0 /\ Link(w)[2] = c
    BY DEF LInv, IInv, TypeOK, RemoveLink, At, Crash, Link, HeldIsFiled, Holds
  <1>3. \A d \in Crashes : d # c => Stage'[d] = Stage[d]
    BY <1>1, <1>2 DEF Stage
  <1>4. CASE Stage'[c] = Stage[c]
    <2>1. Stage' = Stage
      BY <1>3, <1>4, StageType
    <2> QED
      BY <1>1, <2>1 DEF Life!vars
  <1>5. CASE Stage'[c] # Stage[c]
    <2>1. Stage[c] = "queued" /\ Stage'[c] = "taken"
      BY <1>1, <1>2, <1>5 DEF Stage
    <2>2. Stage' = [Stage EXCEPT ![c] = "taken"]
      BY <1>2, <1>3, <2>1, StageType
    <2>3. Life!Take(c)
      BY <1>1, <2>1, <2>2 DEF Life!Take
    <2> QED
      BY <1>2, <2>3 DEF Life!Next
  <1> QED
    BY <1>4, <1>5

\* A crash that is indexed was taken before; with remove_raw_dump it may be back in the queue.
LEMMA IndexPublishes ==
  ASSUME LInv, NEW w \in Workers, NEW dated, Index(w, dated) PROVE [Life!Next]_Life!vars
  <1> DEFINE c == Crash(w)
  <1>1. UNCHANGED <<config, filed, links>> /\ Holds(w) /\ Past(w)
    BY DEF Index, InWork, fixed, Holds, Past, At
  <1>2. c \in Crashes /\ filed[c] > 0
    BY <1>1 DEF LInv, IInv, TypeOK, HeldIsFiled, Holds, Crash
  <1>3. UNCHANGED Stage
    BY <1>1 DEF Stage
  <1>4. CASE indexed' = indexed
    BY <1>1, <1>4, NoLifeStep
  <1>5. CASE indexed' = indexed \cup {c}
    <2>1. ~config.removeRaw => \A l \in links : l[2] # c
      BY <1>1 DEF LInv, OneLink
    <2>2. Stage[c] = "taken" \/ (Stage[c] = "queued" /\ config.removeRaw)
      BY <1>2, <2>1 DEF Stage
    <2>3. Life!Publish(c)
      BY <1>1, <1>3, <1>5, <2>2 DEF Life!Publish
    <2> QED
      BY <1>2, <2>3 DEF Life!Next
  <1> QED
    BY <1>4, <1>5 DEF Index

\* What the spool does with its files, for every number of requests, goroutines, deaths
\* and restarts, is a life of its crashes: queued once while raw crashes are kept, taken
\* before they are found, never lost from the index.
THEOREM SpoolImplementsLife == Spec => ImplementsLife
  <1>1. Init => Life!Init
    <2> SUFFICES ASSUME Init PROVE Life!Init
      OBVIOUS
    <2>1. links = {} /\ indexed = {} /\ filed = [c \in Crashes |-> 0] /\ config \in Configs
      BY DEF Init
    <2>2. Stage = [c \in Crashes |-> "new"]
      BY <2>1 DEF Stage
    <2>3. (~config.removeRaw) \in BOOLEAN
      OBVIOUS
    <2> QED
      BY <2>1, <2>2, <2>3 DEF Life!Init
  <1>2. LInv /\ [Next]_vars => [Life!Next]_Life!vars
    <2> SUFFICES ASSUME LInv, [Next]_vars PROVE [Life!Next]_Life!vars
      OBVIOUS
    <2>1. CASE UNCHANGED <<config, links, filed, indexed>>
      BY <2>1, NoLifeStep
    <2>2. ASSUME NEW p \in Savers, Save(p) PROVE [Life!Next]_Life!vars
      BY <2>1, <2>2, LinkForwardQueues DEF Save, Truncate, Write, PickSlot, MakeHourDir, MakeSlotDir,
         LinkBack, InSave, fixed, files
    <2>3. ASSUME NEW w \in Workers, Process(w) PROVE [Life!Next]_Life!vars
      BY <2>1, <2>3, RemoveLinkTakes, IndexPublishes DEF Process, Lstat, Stat, GetRaw, GetDumps,
         SaveProcessed, SaveRawCrash, StoredInFs, RemoveBack, RemoveFile, RemoveDir, InWork, fixed
    <2>4. CASE Scan \/ Restart \/ Tick \/ ProcessorDies
      BY <2>1, <2>4 DEF Scan, ReadSlot, ReadDate, ReadRoot, NextDate, NextHour, NextMinute, Spawn,
         RemoveSlot, RemoveHour, EndDate, EndRound, Restart, Tick, ProcessorDies, ScanStep, OnFiles,
         InWork, fixed, files, history
    <2>5. CASE \E p \in Handlers : Abort(p) \/ \E c \in Crashes : Submit(p, c) \/ Reprocess(p, c)
      BY <2>1, <2>5 DEF Abort, Submit, Reprocess, fixed, files, history
    <2>6. CASE UNCHANGED vars
      BY <2>1, <2>6 DEF vars, fixed, files, history
    <2> QED
      BY <2>2, <2>3, <2>4, <2>5, <2>6 DEF Next
  <1> QED
    BY <1>1, <1>2, InitHeld, NextHeld, PTL DEF Spec, ImplementsLife, Life!Spec
===========================================================================
