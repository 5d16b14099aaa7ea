------------------------- MODULE SpoolSerial_proofs -------------------------
(* What one goroutine at a time buys, which is the default of              *)
(* max_simultaneous_processing, for every calendar, any number of crashes, *)
(* requests, reprocess requests and deaths.                                *)
EXTENDS SpoolFiles_proofs, FiniteSetTheorems

OneAtATime == MaxSimultaneousProcessing = 1
KeepsRaw   == \A cf \in Configs : ~cf.removeRaw

-----------------------------------------------------------------------------
(* The inductive invariant.  visitMinuteSlot waits for its goroutine before it *)
(* leaves the slot, so the scanner lists a slot only when nobody works: what   *)
(* it lists is linked until the goroutine that has it removes the link.        *)

OneByOne ==
    /\ \A v, w \in Workers : Holds(v) /\ Holds(w) => v = w
    /\ \A w \in Workers : Holds(w) => scan.pc = "entries" /\ worker[w].fresh

AtLink(w) == worker[w].pc \in {"lstat", "stat", "unlink"}

ListedIsLinked ==
    /\ \A c \in scan.entries : <<scan.path, c>> \in links
    /\ \A w \in Workers : AtLink(w) => Link(w) \in links
    /\ \A w \in Workers : Holds(w) => Crash(w) \notin scan.entries

HandedIsTaken ==
    /\ HandedOnce
    /\ \A c \in Crashes : handed[c] > 0 => filed[c] > 0
    /\ \A l \in links : handed[l[2]] = 0
    /\ \A w \in Workers : At(w, "unlink again") => handed[Crash(w)] = 0

SerialInv == OneByOne /\ ListedIsLinked /\ HandedIsTaken

\* Steps of requests and saves: a link that is new is its crash's first.
LEMMA OthersKeepSerial ==
  ASSUME TypeOK, SerialInv, UNCHANGED <<scan, worker, handed>>, links \subseteq links',
         \A l \in links' : l \in links \/ (l[2] \in Crashes /\ filed[l[2]] = 0),
         \A c \in Crashes : filed[c] > 0 => filed'[c] > 0
  PROVE  SerialInv'
  <1>1. OneByOne' /\ ListedIsLinked'
    BY DEF SerialInv, OneByOne, ListedIsLinked, Holds, At, AtLink, Link, Crash
  <1>2. ASSUME NEW l \in links' PROVE handed[l[2]] = 0
    <2>1. handed \in [Crashes -> Nat]
      BY DEF TypeOK
    <2>2. CASE l \in links
      BY <2>2 DEF SerialInv, HandedIsTaken
    <2>3. CASE l[2] \in Crashes /\ filed[l[2]] = 0
      <3>1. handed[l[2]] \in Nat /\ ~(filed[l[2]] > 0)
        BY <2>1, <2>3
      <3>2. ~(handed[l[2]] > 0)
        BY <2>3, <3>1 DEF SerialInv, HandedIsTaken
      <3> QED
        BY <3>1, <3>2
    <2> QED
      BY <2>2, <2>3
  <1>3. HandedIsTaken'
    BY <1>2 DEF SerialInv, HandedIsTaken, HandedOnce, At, Crash
  <1> QED
    BY <1>1, <1>3 DEF SerialInv

\* The goroutine goes on with its crash, or lets it go.
LEMMA WorkerKeepsSerial ==
  ASSUME TypeOK, SerialInv, NEW w \in Workers, NEW r, WorkerTo(w, r), Holds(w),
         UNCHANGED <<scan, links, handed, filed>>,
         \/ r.pc = "idle"
         \/ /\ r.crash = worker[w].crash /\ r.path = worker[w].path /\ r.fresh = worker[w].fresh
            /\ r.pc # "unlink again" /\ (r.pc \in {"lstat", "stat", "unlink"} => AtLink(w))
  PROVE  SerialInv'
  <1>1. worker'[w] = r /\ \A v \in Workers : v # w => worker'[v] = worker[v]
    BY DEF TypeOK, WorkerTo
  <1>2. OneByOne'
    <2>1. \A v \in Workers : Holds(v)' => Holds(v) /\ worker'[v].fresh = worker[v].fresh
      BY <1>1 DEF Holds, At
    <2> QED
      BY <2>1 DEF SerialInv, OneByOne
  <1>3. ListedIsLinked'
    BY <1>1 DEF SerialInv, ListedIsLinked, Holds, At, AtLink, Link, Crash
  <1>4. HandedIsTaken'
    BY <1>1 DEF SerialInv, HandedIsTaken, HandedOnce, At, Crash
  <1> QED
    BY <1>2, <1>3, <1>4 DEF SerialInv

\* When nobody works and nothing is listed.
LEMMA NobodyIsSerial ==
  ASSUME SerialInv, UNCHANGED <<links, handed, filed>>, \A w \in Workers : ~Holds(w)',
         \A c \in scan'.entries : <<scan'.path, c>> \in links
  PROVE  SerialInv'
  <1>1. OneByOne' /\ ListedIsLinked'
    BY DEF SerialInv, OneByOne, ListedIsLinked, Holds, At, AtLink
  <1>2. HandedIsTaken'
    BY DEF SerialInv, HandedIsTaken, HandedOnce, Holds, At
  <1> QED
    BY <1>1, <1>2 DEF SerialInv

\* A crash that is handed over for the first time, and the others.
LEMMA FirstHandOver ==
  ASSUME NEW f \in [Crashes -> Nat], NEW c \in Crashes, f[c] = 0
  PROVE  /\ [f EXCEPT ![c] = f[c] + 1][c] = 1
         /\ \A d \in Crashes : d # c => [f EXCEPT ![c] = f[c] + 1][d] = f[d]
  OBVIOUS

\* Removing the link, and again: the second time the crash is handed over, for the first time.
LEMMA RemoveLinkKeepsSerial ==
  ASSUME TypeOK, HeldIsFiled, OneLink, SerialInv, NEW w \in Workers,
         RemoveLink(w, "unlink", "unlink again") \/ RemoveLink(w, "unlink again", "getraw")
  PROVE  SerialInv'
  <1> DEFINE c == Crash(w)
  <1>1. /\ worker \in [Workers -> WorkerType] /\ worker[w] \in WorkerType /\ handed \in [Crashes -> Nat]
        /\ Holds(w) /\ c \in Crashes /\ filed[c] > 0
    BY DEF TypeOK, RemoveLink, Holds, At, Crash, HeldIsFiled
  <1>2. UNCHANGED <<scan, filed>> /\ links' = links \ {Link(w)} /\ Link(w)[2] = c
    BY DEF RemoveLink, InWork, Unlinked, Link, Crash
  <1>3. /\ worker'[w].crash = worker[w].crash /\ worker'[w].path = worker[w].path
        /\ worker'[w].fresh = worker[w].fresh /\ worker'[w].pc \in {"unlink again", "getraw"}
        /\ \A v \in Workers : v # w => worker'[v] = worker[v]
    <2>1. PICK pc \in {"unlink again", "getraw"} : worker' = [worker EXCEPT ![w] = [worker[w] EXCEPT !.pc = pc]]
      BY DEF RemoveLink, Move, WorkerTo
    <2>2. worker'[w] = [worker[w] EXCEPT !.pc = pc]
      BY <1>1, <2>1
    <2> QED
      BY <1>1, <2>1, <2>2 DEF WorkerType
  <1>4. \A v \in Workers : Holds(v)' => v = w
    BY <1>1, <1>3 DEF SerialInv, OneByOne, Holds, At
  <1>5. \A l \in links' : l \in links /\ l[2] # c
    <2> SUFFICES ASSUME NEW l \in links, l[2] = c PROVE l = Link(w)
      BY <1>2
    <2> QED
      BY <1>1 DEF OneLink
  <1>6. OneByOne'
    BY <1>1, <1>2, <1>3, <1>4 DEF SerialInv, OneByOne
  <1>7. ListedIsLinked'
    <2>1. ASSUME NEW d \in scan'.entries PROVE <<scan'.path, d>> \in links'
      <3>1. d # c /\ <<scan.path, d>> \in links
        BY <1>1, <1>2, <2>1 DEF SerialInv, ListedIsLinked
      <3>2. <<scan.path, d>>[2] = d
        OBVIOUS
      <3> QED
        BY <1>2, <3>1, <3>2
    <2>2. \A v \in Workers : ~AtLink(v)'
      BY <1>3, <1>4 DEF AtLink, Holds, At
    <2>3. \A v \in Workers : Holds(v)' => worker'[v].crash \notin scan'.entries
      BY <1>1, <1>2, <1>3, <1>4 DEF SerialInv, ListedIsLinked, Crash
    <2> QED
      BY <2>1, <2>2, <2>3 DEF ListedIsLinked, Crash
  <1>8. HandedIsTaken'
    <2>1. CASE RemoveLink(w, "unlink", "unlink again")
      <3>1. UNCHANGED handed /\ Link(w) \in links
        BY <2>1 DEF RemoveLink, SerialInv, ListedIsLinked, AtLink, At
      <3>2. handed[c] = 0
        BY <1>2, <3>1 DEF SerialInv, HandedIsTaken
      <3> QED
        BY <1>2, <1>3, <1>4, <1>5, <3>1, <3>2 DEF SerialInv, HandedIsTaken, HandedOnce, Holds, At, Crash
    <2>2. CASE RemoveLink(w, "unlink again", "getraw")
      <3>1. handed' = [handed EXCEPT ![c] = handed[c] + 1] /\ handed[c] = 0 /\ At(w, "getraw")'
        <4>1. worker'[w] = [worker[w] EXCEPT !.pc = "getraw"]
          BY <1>1, <2>2 DEF RemoveLink, Move, WorkerTo
        <4> QED
          BY <1>1, <2>2, <4>1 DEF RemoveLink, SerialInv, HandedIsTaken, At, WorkerType
      <3>2. handed'[c] = 1 /\ \A d \in Crashes : d # c => handed'[d] = handed[d]
        BY <1>1, <3>1, FirstHandOver
      <3>3. HandedOnce' /\ \A d \in Crashes : handed'[d] > 0 => filed'[d] > 0
        <4> SUFFICES ASSUME NEW d \in Crashes PROVE handed'[d] <= 1 /\ (handed'[d] > 0 => filed'[d] > 0)
          BY DEF HandedOnce
        <4>1. CASE d = c
          <5>1. handed'[d] = 1 /\ filed'[d] = filed[d] /\ filed[d] > 0
            BY <1>1, <1>2, <3>2, <4>1
          <5> QED
            BY ONLY <5>1
        <4>2. CASE d # c
          BY <1>2, <3>2, <4>2 DEF SerialInv, HandedIsTaken, HandedOnce
        <4> QED
          BY <4>1, <4>2
      <3>4. \A l \in links' : handed'[l[2]] = 0
        BY <1>5, <3>2 DEF SerialInv, HandedIsTaken, TypeOK
      <3>5. \A v \in Workers : ~At(v, "unlink again")'
        BY <1>4, <3>1 DEF Holds, At
      <3> QED
        BY <3>3, <3>4, <3>5 DEF HandedIsTaken
    <2> QED
      BY <2>1, <2>2
  <1> QED
    BY <1>6, <1>7, <1>8 DEF SerialInv

-----------------------------------------------------------------------------
(* The scanner. *)

\* With one goroutine at a time, the throttle passes when nobody works.
LEMMA ThrottleWaits ==
  ASSUME OneAtATime, OneByOne, ~Throttled PROVE \A w \in Workers : ~Holds(w)
  <1> SUFFICES ASSUME NEW w \in Workers, Holds(w) PROVE FALSE
    OBVIOUS
  <1> DEFINE S == {v \in Busy : worker[v].fresh}
  <1>1. S = {w}
    BY DEF OneByOne, Busy, Holds, At
  <1>2. Cardinality(S) = 1
    BY <1>1, FS_Singleton
  <1> QED
    BY <1>2 DEF Throttled, Full, OneAtATime

\* A goroutine begins with a listed crash, alone.
LEMMA SpawnKeepsSerial ==
  ASSUME TypeOK, OneAtATime, HeldIsFiled, SerialInv, Spawn PROVE SerialInv'
  <1>1. PICK c \in scan.entries, w \in Workers \ Busy :
          /\ worker' = [worker EXCEPT ![w] = NewWorker(c, scan.path)]
          /\ scan' = [scan EXCEPT !.entries = scan.entries \ {c}]
    BY DEF Spawn
  <1>2. UNCHANGED <<links, handed, filed>> /\ scan.pc = "entries" /\ scan \in ScanType
    BY DEF Spawn, OnFiles, history, Scanning, TypeOK
  <1>3. scan'.entries = scan.entries \ {c} /\ scan'.path = scan.path /\ scan'.pc = "entries"
    BY <1>1, <1>2 DEF ScanType
  <1>4. \A v \in Workers : ~Holds(v)
    BY ThrottleWaits DEF Spawn, SerialInv
  <1>5. /\ worker'[w].pc = "lstat" /\ worker'[w].crash = c /\ worker'[w].path = scan.path /\ worker'[w].fresh
        /\ \A v \in Workers : v # w => worker'[v] = worker[v]
    BY <1>1 DEF TypeOK, NewWorker
  <1>6. \A v \in Workers : Holds(v)' => v = w
    BY <1>4, <1>5 DEF Holds, At
  <1>7. OneByOne'
    BY <1>3, <1>5, <1>6 DEF OneByOne
  <1>8. ListedIsLinked'
    <2>1. <<scan.path, c>> \in links
      BY DEF SerialInv, ListedIsLinked
    <2>2. \A v \in Workers : AtLink(v)' => v = w
      BY <1>6 DEF AtLink, Holds, At
    <2> QED
      BY <1>2, <1>3, <1>5, <1>6, <2>1, <2>2 DEF SerialInv, ListedIsLinked, Link, Crash
  <1>9. HandedIsTaken'
    BY <1>2, <1>5, <1>6 DEF SerialInv, HandedIsTaken, HandedOnce, Holds, At
  <1> QED
    BY <1>7, <1>8, <1>9 DEF SerialInv

\* Every other step of the scanner is one when nobody works.
LEMMA ScannerKeepsSerial ==
  ASSUME TypeOK, OneAtATime, HeldIsFiled, HeldIsFiled', SerialInv, (Scan /\ ~Spawn) \/ Restart
  PROVE  SerialInv'
  <1>1. UNCHANGED <<links, handed, filed>>
    BY DEF Scan, Restart, ReadSlot, ReadDate, ReadRoot, NextDate, NextHour, NextMinute,
           RemoveSlot, RemoveHour, EndDate, EndRound, ScanStep, OnFiles, history
  <1>2. \A w \in Workers : ~Holds(w)
    <2>1. CASE RemoveSlot
      BY <2>1, ThrottleWaits DEF RemoveSlot, SerialInv
    <2>2. CASE scan.pc # "entries"
      BY <2>2 DEF SerialInv, OneByOne
    <2> QED
      BY <2>1, <2>2 DEF Scan, Restart, ReadSlot, ReadDate, ReadRoot, NextDate, NextHour, NextMinute,
                        RemoveHour, EndDate, EndRound, Scanning
  <1>3. \A w \in Workers : ~Holds(w)'
    <2>1. CASE ReadSlot
      <3>1. \A w \in Workers : worker[w] \in WorkerType /\ worker'[w] = [worker[w] EXCEPT !.fresh = FALSE]
        BY <2>1 DEF ReadSlot, TypeOK
      <3> QED
        BY <1>2, <3>1 DEF WorkerType, Holds, At
    <2>2. CASE UNCHANGED worker
      BY <1>2, <2>2 DEF Holds, At
    <2> QED
      BY <2>1, <2>2 DEF Scan, Restart, ReadDate, ReadRoot, NextDate, NextHour, NextMinute,
                        RemoveSlot, RemoveHour, EndDate, EndRound, ScanStep
  <1>4. ASSUME NEW c \in scan'.entries PROVE <<scan'.path, c>> \in links
    <2>1. scan'.pc = "entries"
      BY <1>4 DEF HeldIsFiled
    <2>2. scan \in ScanType
      BY DEF TypeOK
    <2>3. CASE NextMinute
      <3>1. PICK m \in First(scan.mins) :
              \/ scan' = [scan EXCEPT !.mins = scan.mins \ {m}, !.skip = TRUE]
              \/ scan' = [scan EXCEPT !.mins = scan.mins \ {m}, !.pc = "entries",
                                      !.path = [scan.path EXCEPT ![3] = m],
                                      !.entries = Entries([scan.path EXCEPT ![3] = m])]
        BY <2>3 DEF NextMinute, ScanStep
      <3>2. scan.pc = "minutes"
        BY <2>3 DEF NextMinute, Scanning
      <3>3. scan'.entries = Entries(scan'.path)
        BY <2>1, <2>2, <3>1, <3>2 DEF ScanType
      <3>4. PICK l \in links : l[1] = scan'.path /\ l[2] = c
        BY <1>4, <3>3 DEF Entries
      <3>5. l = <<l[1], l[2]>>
        BY DEF TypeOK
      <3> QED
        BY <3>4, <3>5
    <2>4. CASE ReadSlot \/ EndRound \/ Restart
      <3>1. NewScan.entries = {} /\ NewScan.pc = "begin"
        BY DEF NewScan
      <3>2. CASE ReadSlot
        <4>1. scan' = [NewScan EXCEPT !.pc = "date", !.slot = SlotOf(now)]
          BY <3>2 DEF ReadSlot
        <4>2. scan'.entries = NewScan.entries
          BY <4>1 DEF NewScan
        <4> QED
          BY <1>4, <3>1, <4>2
      <3> QED
        BY <1>4, <2>4, <3>1, <3>2 DEF EndRound, Restart, ScanStep
    <2>5. CASE ReadDate \/ ReadRoot \/ NextDate \/ NextHour
      BY <2>1, <2>2, <2>5 DEF ReadDate, ReadRoot, NextDate, NextHour, ScanStep, ScanType
    <2>6. CASE RemoveSlot \/ RemoveHour \/ EndDate
      BY <2>1, <2>2, <2>6 DEF RemoveSlot, RemoveHour, EndDate, ScanStep, ScanType
    <2> QED
      BY <2>3, <2>4, <2>5, <2>6 DEF Scan
  <1> QED
    BY <1>1, <1>3, <1>4, NobodyIsSerial

-----------------------------------------------------------------------------
(* The goroutine. *)

\* What a goroutine's record is after it moves on, and after a destination.
LEMMA MovedWorker ==
  ASSUME TypeOK, NEW w \in Workers
  PROVE  \A pc : LET r == [worker[w] EXCEPT !.pc = pc]
                 IN  /\ r.pc = pc /\ r.crash = worker[w].crash /\ r.path = worker[w].path
                     /\ r.fresh = worker[w].fresh /\ r.raw = worker[w].raw /\ r.dst = worker[w].dst
  <1>1. worker[w] \in WorkerType
    BY DEF TypeOK
  <1> QED
    BY <1>1 DEF WorkerType

\* The next destination is one of the configured, or there is none and the goroutine ends.
LEMMA NextDestination ==
  ASSUME TypeOK, ~config.removeRaw, NEW w \in Workers, NEW i \in Nat
  PROVE  LET r == AfterDestination(w, i)
         IN  \/ r.pc = "idle"
             \/ /\ r.pc = "store" /\ r.crash = worker[w].crash /\ r.path = worker[w].path
                /\ r.fresh = worker[w].fresh /\ r.raw = worker[w].raw
                /\ r.dst = i + 1 /\ i + 1 \in DOMAIN config.dst
  <1>1. worker[w] \in WorkerType /\ config.dst \in Seq(Storages)
    BY ConfigAssumption DEF TypeOK
  <1> DEFINE r == [worker[w] EXCEPT !.pc = "store", !.dst = i + 1]
  <1>2. /\ r.pc = "store" /\ r.crash = worker[w].crash /\ r.path = worker[w].path
        /\ r.fresh = worker[w].fresh /\ r.raw = worker[w].raw /\ r.dst = i + 1
    BY <1>1 DEF WorkerType
  <1>3. i < Len(config.dst) => i + 1 \in DOMAIN config.dst
    BY <1>1
  <1>4. IdleWorker.pc = "idle"
    BY DEF IdleWorker
  <1> QED
    BY <1>2, <1>3, <1>4 DEF AfterDestination

\* Whatever the goroutine does, crashes are handed over one by one.
LEMMA ProcessKeepsSerial ==
  ASSUME TypeOK, BackLinkGuards, HeldIsFiled, OneLink, SerialInv, ~config.removeRaw,
         NEW w \in Workers, Process(w)
  PROVE  SerialInv'
  <1>1. ~RemoveBack(w) /\ ~RemoveDir(w) /\ \A f \in {"raw", "report"} : ~RemoveFile(w, f)
    BY DEF BackLinkGuards, RemoveBack, RemoveFile, RemoveDir
  <1>2. worker[w].dst \in Nat
    BY DEF TypeOK, WorkerType
  <1> DEFINE Goes(r) == \/ r.pc = "idle"
                        \/ /\ r.crash = worker[w].crash /\ r.path = worker[w].path /\ r.fresh = worker[w].fresh
                           /\ r.pc # "unlink again" /\ (r.pc \in {"lstat", "stat", "unlink"} => AtLink(w))
  <1>3. ASSUME NEW r, WorkerTo(w, r), Goes(r), Holds(w), UNCHANGED <<scan, links, handed, filed>>
        PROVE  SerialInv'
    BY <1>3, WorkerKeepsSerial
  <1>4. ASSUME ProcessorDown, UNCHANGED <<links, handed, filed>> PROVE SerialInv'
    <2>1. scan'.entries = {} /\ \A v \in Workers : ~Holds(v)'
      BY <1>4 DEF ProcessorDown, NewScan, IdleWorker, Holds, At
    <2> QED
      BY <1>4, <2>1, NobodyIsSerial
  <1>5. \A i \in Nat : Goes(AfterDestination(w, i))
    <2> TAKE i \in Nat
    <2>1. LET r == AfterDestination(w, i)
          IN  r.pc = "idle" \/ (/\ r.pc = "store" /\ r.crash = worker[w].crash /\ r.path = worker[w].path
                                /\ r.fresh = worker[w].fresh)
      BY NextDestination
    <2> QED
      BY <2>1
  <1>6. ASSUME NEW pc \in {"getdumps", "processed", "saved"} PROVE Goes([worker[w] EXCEPT !.pc = pc])
    <2> DEFINE r == [worker[w] EXCEPT !.pc = pc]
    <2>1. r.pc = pc /\ r.crash = worker[w].crash /\ r.path = worker[w].path /\ r.fresh = worker[w].fresh
      BY MovedWorker
    <2> HIDE DEF r
    <2>2. Goes(r)
      BY <2>1
    <2> QED
      BY <2>2 DEF r
  <1>7. CASE Lstat(w) \/ Stat(w)
    <2>1. AtLink(w) /\ Holds(w) /\ UNCHANGED <<links, handed, filed>>
      BY <1>7 DEF Lstat, Stat, AtLink, Holds, At, InWork
    <2>2. ASSUME NEW pc \in {"stat", "unlink"} PROVE Goes([worker[w] EXCEPT !.pc = pc])
      <3> DEFINE r == [worker[w] EXCEPT !.pc = pc]
      <3>1. r.pc = pc /\ r.crash = worker[w].crash /\ r.path = worker[w].path /\ r.fresh = worker[w].fresh
        BY MovedWorker
      <3> HIDE DEF r
      <3>2. Goes(r)
        BY <2>1, <3>1
      <3> QED
        BY <3>2 DEF r
    <2> QED
      BY <1>3, <1>4, <1>7, <2>1, <2>2 DEF Lstat, Stat, GoOnIf
  <1>8. CASE RemoveLink(w, "unlink", "unlink again") \/ RemoveLink(w, "unlink again", "getraw")
    BY <1>8, RemoveLinkKeepsSerial
  <1>9. CASE GetRaw(w)
    <2> DEFINE r == [worker[w] EXCEPT !.pc = "getdumps", !.raw = GetRawCrash(Crash(w))]
    <2>1. r.pc = "getdumps" /\ r.crash = worker[w].crash /\ r.path = worker[w].path /\ r.fresh = worker[w].fresh
      BY DEF TypeOK, WorkerType
    <2> QED
      BY <1>3, <1>9, <2>1 DEF GetRaw, Holds, At, InWork
  <1>10. CASE GetDumps(w)
    <2>1. Holds(w) /\ UNCHANGED <<links, handed, filed>>
      BY <1>10 DEF GetDumps, Holds, At, InWork
    <2> QED
      BY <1>3, <1>4, <1>5, <1>10, <2>1 DEF GetDumps, GoOnIf
  <1>11. CASE SaveProcessed(w) \/ SaveRawCrash(w)
    <2>1. Holds(w) /\ UNCHANGED <<scan, links, handed, filed>>
      BY <1>11 DEF SaveProcessed, SaveRawCrash, Holds, At, InWork
    <2> QED
      BY <1>3, <1>6, <1>11, <2>1 DEF SaveProcessed, SaveRawCrash, Move
  <1>12. CASE StoredInFs(w)
    <2>1. Holds(w) /\ UNCHANGED <<scan, links, handed, filed>>
      BY <1>12 DEF StoredInFs, Holds, At, InWork
    <2> QED
      BY <1>2, <1>3, <1>5, <1>12, <2>1 DEF StoredInFs
  <1>13. ASSUME NEW dated, Index(w, dated) PROVE SerialInv'
    <2>1. Holds(w) /\ UNCHANGED <<scan, links, handed, filed>>
      BY <1>13 DEF Index, Holds, At, InWork
    <2> QED
      BY <1>2, <1>3, <1>5, <1>13, <2>1 DEF Index
  <1> QED
    BY <1>1, <1>7, <1>8, <1>9, <1>10, <1>11, <1>12, <1>13 DEF Process

\* Every step keeps the serial invariant.
LEMMA NextSerial ==
  ASSUME LInv, OneAtATime, SerialInv, ~config.removeRaw, [Next]_vars PROVE SerialInv'
  <1>1. TypeOK /\ BackLinkGuards /\ HeldIsFiled /\ OneLink /\ HeldIsFiled'
    BY NextHeld DEF LInv, IInv
  <1>2. CASE UNCHANGED <<scan, worker, handed, links, filed>>
    BY <1>1, <1>2, OthersKeepSerial
  <1>3. ASSUME NEW p \in Savers, LinkForward(p) PROVE SerialInv'
    <2> DEFINE c == call[p].crash
    <2>1. c \in Crashes /\ filed[c] = 0 /\ filed \in [Crashes -> Nat] /\ UNCHANGED <<scan, worker, handed>>
      BY <1>1, <1>3 DEF TypeOK, BackLinkGuards, LinkForward, Forwarding, AtCall, InSave
    <2>2. links \subseteq links' /\ \A l \in links' : l \in links \/ l[2] = c
      BY <1>3 DEF LinkForward
    <2>3. \A d \in Crashes : filed[d] > 0 => filed'[d] > 0
      <3>1. filed' = filed \/ filed' = [filed EXCEPT ![c] = filed[c] + 1]
        BY <1>3 DEF LinkForward
      <3> QED
        BY <2>1, <3>1
    <2> QED
      BY <1>1, <2>1, <2>2, <2>3, OthersKeepSerial
  <1>4. ASSUME NEW p \in Savers, Save(p) PROVE SerialInv'
    BY <1>2, <1>3, <1>4 DEF Save, Truncate, Write, PickSlot, MakeHourDir, MakeSlotDir, LinkBack, InSave, files
  <1>5. ASSUME NEW w \in Workers, Process(w) PROVE SerialInv'
    BY <1>1, <1>5, ProcessKeepsSerial
  <1>6. CASE Scan \/ Restart
    BY <1>1, <1>6, SpawnKeepsSerial, ScannerKeepsSerial
  <1>7. CASE Tick \/ \E p \in Handlers : Abort(p) \/ \E c \in Crashes : Submit(p, c) \/ Reprocess(p, c)
    BY <1>2, <1>7 DEF Tick, Abort, Submit, Reprocess, files, history
  <1>8. CASE ProcessorDies
    <2>1. scan'.entries = {} /\ \A v \in Workers : ~Holds(v)'
      BY <1>8 DEF ProcessorDies, ProcessorDown, NewScan, IdleWorker, Holds, At
    <2> QED
      BY <1>8, <2>1, NobodyIsSerial DEF ProcessorDies, InWork
  <1>9. CASE UNCHANGED vars
    BY <1>2, <1>9 DEF vars, files, history
  <1> QED
    BY <1>4, <1>5, <1>6, <1>7, <1>8, <1>9 DEF Next

SInv == WInv /\ (OneAtATime /\ ~config.removeRaw => SerialInv)

\* The serial invariant holds at the start.
LEMMA InitSerial == Init => SInv
  <1> SUFFICES ASSUME Init PROVE SInv
    OBVIOUS
  <1>1. links = {} /\ scan.entries = {} /\ \A w \in Workers : ~Holds(w)
    BY DEF Init, NewScan, IdleWorker, Holds, At
  <1>2. \A c \in Crashes : handed[c] = 0
    BY DEF Init
  <1>3. OneByOne /\ ListedIsLinked
    BY <1>1 DEF OneByOne, ListedIsLinked, AtLink, Holds, At
  <1>4. HandedIsTaken
    <2>1. \A c \in Crashes : handed[c] <= 1 /\ ~(handed[c] > 0)
      BY <1>2
    <2> QED
      BY <1>1, <2>1 DEF HandedIsTaken, HandedOnce, Holds, At
  <1> QED
    BY <1>3, <1>4, InitWhole DEF SInv, SerialInv

\* Every step keeps both invariants.
LEMMA NextSerialWhole == SInv /\ [Next]_vars => SInv'
  <1> SUFFICES ASSUME SInv, [Next]_vars PROVE SInv'
    OBVIOUS
  <1>1. WInv' /\ UNCHANGED config /\ LInv
    BY NextWhole, NextKeepsConfig DEF SInv, WInv
  <1> QED
    BY <1>1, NextSerial DEF SInv

\* One goroutine at a time: no crash is handed to the callback twice, across rounds, deaths
\* of the processor and restarts.
THEOREM SpoolHandedOnce == ASSUME OneAtATime, KeepsRaw PROVE Spec => []HandedOnce
  <1>1. SInv => HandedOnce
    BY DEF SInv, WInv, LInv, IInv, TypeOK, KeepsRaw, SerialInv, HandedIsTaken
  <1> QED
    BY <1>1, InitSerial, NextSerialWhole, PTL DEF Spec

\* Then the link that a goroutine looks at is there, and so is the crash behind it: it does
\* not panic.
THEOREM SpoolNoPanic == ASSUME OneAtATime, KeepsRaw, ReprocessesHits PROVE Spec => []NoPanic
  <1>1. SInv => NoPanic
    <2> SUFFICES ASSUME SInv, NEW w \in Workers, At(w, "lstat") \/ At(w, "stat")
                 PROVE  Link(w) \in links /\ store[Crash(w)].raw # "absent"
      BY DEF NoPanic
    <2>1. ~config.removeRaw /\ TypeOK
      BY DEF SInv, WInv, LInv, IInv, TypeOK, KeepsRaw
    <2>2. SerialInv /\ FilesInv /\ HeldIsFiled
      BY <2>1 DEF SInv, WInv, LInv
    <2>3. Link(w) \in links /\ Link(w)[2] = Crash(w)
      BY <2>2 DEF SerialInv, ListedIsLinked, AtLink, At, Link, Crash
    <2>4. Crash(w) \in Crashes /\ filed[Crash(w)] > 0 /\ Untouched(Crash(w))
      BY <2>1, <2>2, <2>3 DEF TypeOK, HeldIsFiled, FilesInv, TouchedIsTaken
    <2> QED
      BY <2>2, <2>3, <2>4 DEF FilesInv, FiledIsWhole
  <1> QED
    BY <1>1, InitSerial, NextSerialWhole, PTL DEF Spec

-----------------------------------------------------------------------------
(* What one goroutine reads and writes is whole.  It holds an untouched crash until it has *)
(* read it, since nobody else touches crashes; so no null is ever written.  Its first      *)
(* report is its crash's only one.                                                         *)

Reading(w)  == At(w, "unlink again") \/ At(w, "getraw")
Reporting(w) == \/ worker[w].pc \in {"unlink again", "getraw", "getdumps"}
                \/ worker[w].pc \in {"store", "processed", "saved"} /\ worker[w].dst = 1

GoodFiles(c)  == store[c].raw # "null" /\ store[c].report # "null"
GoodSave(p)   == Saving(p) => call[p].content = "good"
GoodWorker(w) == /\ Holds(w) => worker[w].raw = "good"
                 /\ Reading(w) => Untouched(Crash(w))

WholeInv == /\ \A c \in Crashes : GoodFiles(c)
            /\ \A p \in Savers : GoodSave(p)
            /\ \A w \in Workers : GoodWorker(w)

\* The filesystem is a destination at most once, and then the first.
FsOnlyFirst == \A cf \in Configs : \A i \in DOMAIN cf.dst : cf.dst[i] = "fs" => i = 1

GoodReport(c)  == store[c].report = "good"
ReportSave(p)  == Saving(p) /\ call[p].file = "report" => Early(p)
ReportWorker(w) ==
    /\ Reporting(w) => Crash(w) \notin indexed
    /\ At(w, "store") => worker[w].dst \in DOMAIN config.dst /\ (worker[w].dst # 1 => GoodReport(Crash(w)))
    /\ At(w, "processed") \/ At(w, "saved") => worker[w].dst = 1
    /\ At(w, "saved") \/ (At(w, "processed") /\ AtCall(w, "idle")) => GoodReport(Crash(w))
    /\ At(w, "processed") /\ ~AtCall(w, "idle") => call[w].file = "report"

ReportsInv == /\ FsOnlyFirst /\ StoresFs
              /\ \A c \in indexed : GoodReport(c)
              /\ \A p \in Savers : ReportSave(p)
              /\ \A w \in Workers : ReportWorker(w)

SameWorker(w) == /\ worker'[w].pc = worker[w].pc /\ worker'[w].crash = worker[w].crash
                 /\ worker'[w].raw = worker[w].raw /\ worker'[w].dst = worker[w].dst

\* A step that leaves files and index alone, and every goroutine and save as it was, idle, or
\* in order.
LEMMA OrderlyKeeps ==
  ASSUME TypeOK, WholeInv, UNCHANGED <<indexed, config>>,
         \A c \in Crashes : store'[c].raw = store[c].raw /\ store'[c].report = store[c].report,
         \A p \in Savers : \/ call'[p].pc = "idle" \/ call'[p] = call[p]
                           \/ GoodSave(p)' /\ (ReportsInv => ReportSave(p)'),
         \A w \in Workers : \/ worker'[w].pc = "idle" \/ (SameWorker(w) /\ call'[w] = call[w])
                            \/ GoodWorker(w)' /\ (ReportsInv => ReportWorker(w)')
  PROVE  WholeInv' /\ (ReportsInv => ReportsInv')
  <1>1. \A w \in Workers : Holds(w) => Crash(w) \in Crashes
    BY DEF TypeOK, Holds, Crash
  <1>2. ASSUME NEW w \in Workers PROVE GoodWorker(w)'
    <2>1. CASE worker'[w].pc = "idle"
      BY <2>1 DEF GoodWorker, Holds, Reading, At
    <2>2. CASE SameWorker(w) /\ Holds(w)
      BY <1>1, <2>2 DEF WholeInv, GoodWorker, SameWorker, Holds, Reading, At, Untouched, Crash
    <2>3. CASE SameWorker(w) /\ ~Holds(w)
      BY <2>3 DEF GoodWorker, SameWorker, Holds, Reading, At
    <2> QED
      BY <2>1, <2>2, <2>3
  <1>3. ASSUME NEW p \in Savers PROVE GoodSave(p)'
    BY DEF WholeInv, GoodSave, Saving, AtCall
  <1>4. ASSUME ReportsInv, NEW w \in Workers PROVE ReportWorker(w)'
    <2>1. CASE worker'[w].pc = "idle"
      BY <2>1 DEF ReportWorker, Reporting, At
    <2>2. CASE SameWorker(w) /\ call'[w] = call[w] /\ Holds(w)
      BY <1>1, <1>4, <2>2 DEF ReportsInv, ReportWorker, SameWorker, Reporting, At, AtCall, GoodReport, Crash
    <2>3. CASE SameWorker(w) /\ ~Holds(w)
      BY <2>3 DEF ReportWorker, SameWorker, Reporting, Holds, At
    <2> QED
      BY <1>4, <2>1, <2>2, <2>3
  <1>5. ASSUME ReportsInv, NEW p \in Savers PROVE ReportSave(p)'
    BY <1>5 DEF ReportsInv, ReportSave, Saving, AtCall, Early
  <1>6. \A c \in Crashes : GoodFiles(c)'
    BY DEF WholeInv, GoodFiles
  <1>7. ReportsInv => \A c \in indexed' : GoodReport(c)'
    BY DEF TypeOK, ReportsInv, GoodReport
  <1> QED
    BY <1>2, <1>3, <1>4, <1>5, <1>6, <1>7 DEF WholeInv, ReportsInv, StoresFs

\* A save that picks its directory and makes its links is one of a raw crash.
LEMMA LateSaveIsWhole ==
  ASSUME TypeOK, WholeInv, NEW p \in Savers,
         PickSlot(p) \/ MakeHourDir(p) \/ MakeSlotDir(p) \/ LinkBack(p) \/ LinkForward(p)
  PROVE  WholeInv' /\ (ReportsInv => ReportsInv')
  <1>1. /\ call \in [Savers -> CallType] /\ call[p] \in CallType /\ Saving(p)
        /\ call[p].pc \in {"slot", "mkhour", "mkslot", "back", "forward"}
    BY DEF TypeOK, PickSlot, MakeHourDir, MakeSlotDir, LinkBack, LinkForward, AtCall, Saving
  <1>2. UNCHANGED <<indexed, config, worker>>
    BY DEF PickSlot, MakeHourDir, MakeSlotDir, LinkBack, LinkForward, InSave, files, fixed
  <1>3. \A c \in Crashes : store'[c].raw = store[c].raw /\ store'[c].report = store[c].report
    <2>1. CASE LinkForward(p)
      BY <2>1 DEF LinkForward
    <2>2. CASE ~LinkForward(p)
      BY <2>2, LateSaveIsPlain DEF Plain
    <2> QED
      BY <2>1, <2>2
  <1>4. /\ \A q \in Savers : q # p => call'[q] = call[q]
        /\ \/ call'[p].pc = "idle"
           \/ call'[p].file = call[p].file /\ call'[p].content = call[p].content
    <2>1. CASE PickSlot(p)
      BY <1>1, <2>1 DEF PickSlot, CallType
    <2>2. CASE MakeHourDir(p) \/ MakeSlotDir(p)
      BY <1>1, <2>2 DEF MakeHourDir, MakeSlotDir, GoTo, CallType
    <2>3. CASE LinkBack(p) \/ LinkForward(p)
      <3>1. \/ call' = [call EXCEPT ![p].pc = "forward"]
            \/ call' = [call EXCEPT ![p] = IdleCall]
        BY <2>3 DEF LinkBack, LinkForward, GoTo, EndCall
      <3>2. CASE call' = [call EXCEPT ![p].pc = "forward"]
        BY <1>1, <3>2 DEF CallType
      <3>3. CASE call' = [call EXCEPT ![p] = IdleCall]
        BY <1>1, <3>3 DEF IdleCall
      <3> QED
        BY <3>1, <3>2, <3>3
    <2> QED
      BY <2>1, <2>2, <2>3
  <1>5. ReportsInv => call[p].file # "report" /\ (p \in Workers => ~At(p, "processed"))
    <2> SUFFICES ASSUME ReportsInv PROVE call[p].file # "report" /\ (p \in Workers => ~At(p, "processed"))
      OBVIOUS
    <2>1. call[p].file # "report"
      BY <1>1 DEF ReportsInv, ReportSave, Early
    <2>2. p \in Workers => ~At(p, "processed")
      BY <1>1, <2>1 DEF ReportsInv, ReportWorker, Saving
    <2> QED
      BY <2>1, <2>2
  <1>6. \A q \in Savers : \/ call'[q].pc = "idle" \/ call'[q] = call[q]
                          \/ GoodSave(q)' /\ (ReportsInv => ReportSave(q)')
    BY <1>1, <1>4, <1>5 DEF WholeInv, GoodSave, ReportSave, Saving, AtCall
  <1>7. ASSUME NEW w \in Workers
        PROVE  \/ SameWorker(w) /\ call'[w] = call[w]
               \/ worker'[w].pc = "idle"
               \/ GoodWorker(w)' /\ (ReportsInv => ReportWorker(w)')
    <2>1. CASE w # p
      BY <1>2, <1>4, <2>1 DEF SameWorker, Savers
    <2>2. CASE w = p /\ Holds(w)
      <3>1. Crash(w) \in Crashes
        BY <2>2 DEF TypeOK, Holds, Crash
      <3>2. GoodWorker(w)'
        BY <1>2, <1>3, <3>1 DEF WholeInv, GoodWorker, Holds, Reading, At, Untouched, Crash
      <3>3. ReportsInv => ReportWorker(w)'
        BY <1>2, <1>3, <1>5, <2>2, <3>1 DEF ReportsInv, ReportWorker, Reporting, At, AtCall, GoodReport, Crash
      <3> QED
        BY <3>2, <3>3
    <2>3. CASE ~Holds(w)
      BY <1>2, <2>3 DEF Holds, At
    <2> QED
      BY <2>1, <2>2, <2>3
  <1> QED
    BY <1>2, <1>3, <1>6, <1>7, OrderlyKeeps

\* Requests, the clock, the scanner and the processor's death.
LEMMA OthersAreWhole ==
  ASSUME TypeOK, WholeInv,
         \/ Tick \/ Scan \/ Restart \/ ProcessorDies
         \/ \E p \in Handlers : Abort(p) \/ \E c \in Crashes : Submit(p, c) \/ Reprocess(p, c)
         \/ UNCHANGED vars
  PROVE  WholeInv' /\ (ReportsInv => ReportsInv')
  <1>1. UNCHANGED <<indexed, config, store>>
    BY DEF Scan, Restart, ReadSlot, ReadDate, ReadRoot, NextDate, NextHour, NextMinute, Spawn,
           RemoveSlot, RemoveHour, EndDate, EndRound, ScanStep, OnFiles, Tick, ProcessorDies, Abort,
           Submit, Reprocess, InWork, files, fixed, vars
  <1>2. ASSUME NEW p \in Handlers, NEW c \in Crashes, Submit(p, c) \/ Reprocess(p, c)
        PROVE  WholeInv' /\ (ReportsInv => ReportsInv')
    <2>1. p \in Savers /\ p \notin Workers /\ UNCHANGED worker
      BY <1>2, SpoolAssumption DEF Savers, Submit, Reprocess
    <2>2. call'[p] = NewCall(c, "raw", "good") /\ \A q \in Savers : q # p => call'[q] = call[q]
      BY <1>2, <2>1 DEF TypeOK, Submit, Reprocess, StartCall
    <2>3. GoodSave(p)' /\ ReportSave(p)'
      BY <2>2 DEF NewCall, GoodSave, ReportSave
    <2>4. \A w \in Workers : SameWorker(w) /\ call'[w] = call[w]
      BY <2>1, <2>2 DEF SameWorker, Savers
    <2> QED
      BY <1>1, <2>2, <2>3, <2>4, OrderlyKeeps
  <1>3. ASSUME \A p \in Savers : call'[p].pc = "idle" \/ call'[p] = call[p],
               \A w \in Workers : \/ worker'[w].pc = "idle" \/ (SameWorker(w) /\ call'[w] = call[w])
                                  \/ worker'[w].pc = "lstat" /\ worker'[w].raw = "good"
        PROVE  WholeInv' /\ (ReportsInv => ReportsInv')
    <2>1. \A w \in Workers : worker'[w].pc = "lstat" /\ worker'[w].raw = "good" => GoodWorker(w)' /\ ReportWorker(w)'
      BY DEF GoodWorker, ReportWorker, Reporting, Reading, At
    <2> QED
      BY <1>1, <1>3, <2>1, OrderlyKeeps
  <1>4. CASE Tick \/ \E p \in Handlers : Abort(p)
    <2>1. UNCHANGED worker /\ \A w \in Workers : call'[w] = call[w]
      <3>1. \A p \in Handlers : p \notin Workers
        BY SpoolAssumption
      <3> QED
        BY <1>4, <3>1 DEF TypeOK, Tick, Abort, Savers
    <2>2. \A p \in Savers : call'[p].pc = "idle" \/ call'[p] = call[p]
      BY <1>4 DEF TypeOK, Tick, Abort, IdleCall
    <2> QED
      BY <1>3, <2>1, <2>2 DEF SameWorker
  <1>5. CASE Scan \/ Restart
    <2>1. UNCHANGED call
      BY <1>5 DEF Scan, Restart, ReadSlot, ReadDate, ReadRoot, NextDate, NextHour, NextMinute, Spawn,
         RemoveSlot, RemoveHour, EndDate, EndRound, ScanStep, OnFiles
    <2>2. \A w \in Workers : SameWorker(w) \/ (worker'[w].pc = "lstat" /\ worker'[w].raw = "good")
      <3>1. CASE ReadSlot
        <4>1. \A w \in Workers : worker[w] \in WorkerType /\ worker'[w] = [worker[w] EXCEPT !.fresh = FALSE]
          BY <3>1 DEF ReadSlot, TypeOK
        <4> QED
          BY <4>1 DEF WorkerType, SameWorker
      <3>2. CASE Spawn
        <4>1. PICK c \in scan.entries, v \in Workers \ Busy :
                worker' = [worker EXCEPT ![v] = NewWorker(c, scan.path)]
          BY <3>2 DEF Spawn
        <4>2. /\ worker'[v].pc = "lstat" /\ worker'[v].raw = "good"
              /\ \A w \in Workers : w # v => worker'[w] = worker[w]
          BY <4>1 DEF TypeOK, NewWorker
        <4> QED
          BY <4>2 DEF SameWorker
      <3>3. CASE UNCHANGED worker
        BY <3>3 DEF SameWorker
      <3> QED
        BY <1>5, <3>1, <3>2, <3>3 DEF Scan, Restart, ReadDate, ReadRoot, NextDate, NextHour, NextMinute,
           RemoveSlot, RemoveHour, EndDate, EndRound, ScanStep
    <2> QED
      BY <1>3, <2>1, <2>2
  <1>6. CASE ProcessorDies
    BY <1>3, <1>6 DEF ProcessorDies, ProcessorDown, IdleWorker, IdleCall
  <1>7. CASE UNCHANGED vars
    BY <1>3, <1>7 DEF vars, SameWorker
  <1> QED
    BY <1>2, <1>4, <1>5, <1>6, <1>7

\* Writing to a file leaves it torn or good.  Who writes a report is the one goroutine.
LEMMA WritingIsWhole ==
  ASSUME TypeOK, OneByOne, FilesInv, WholeInv, NEW p \in Savers, Truncate(p) \/ Write(p)
  PROVE  WholeInv' /\ (ReportsInv => ReportsInv')
  <1> DEFINE c == call[p].crash
             f == call[p].file
  <1>1. /\ call \in [Savers -> CallType] /\ call[p] \in CallType /\ Saving(p) /\ Early(p)
        /\ c \in Crashes /\ f \in {"raw", "report"} /\ call[p].content = "good"
    BY DEF TypeOK, Truncate, Write, AtCall, Saving, Early, CallType, WholeInv, GoodSave
  <1>2. UNCHANGED <<indexed, config, worker>>
    BY DEF Truncate, Write, InSave, fixed
  <1>3. PICK v \in {"torn", "good"} :
          store' = [store EXCEPT ![c][f] = v] /\ (Write(p) => v = "good")
    <2>1. CASE Write(p)
      BY <1>1, <2>1 DEF Write, Put, FilesInv, WritesIntoFile
    <2>2. CASE ~Write(p)
      BY <2>2 DEF Truncate, Put
    <2> QED
      BY <2>1, <2>2
  <1>4. /\ \A d \in Crashes : d # c => store'[d] = store[d]
        /\ f = "raw" => store'[c].raw = v /\ store'[c].report = store[c].report
        /\ f = "report" => store'[c].report = v /\ store'[c].raw = store[c].raw
    <2>1. /\ store \in [Crashes -> [raw : FileState, report : FileState, back : BOOLEAN]]
          /\ store[c] \in [raw : FileState, report : FileState, back : BOOLEAN]
      BY <1>1 DEF TypeOK
    <2> QED
      BY <1>1, <1>3, <2>1
  <1>5. /\ \A q \in Savers : q # p => call'[q] = call[q]
        /\ Truncate(p) => call'[p].pc = "write" /\ call'[p].file = f /\ call'[p].content = "good"
        /\ Write(p) /\ f = "raw" => call'[p].pc = "slot" /\ call'[p].file = f /\ call'[p].content = "good"
        /\ Write(p) /\ f = "report" => call'[p].pc = "idle"
    <2>1. CASE Truncate(p)
      BY <1>1, <2>1 DEF Truncate, GoTo, CallType, Write, AtCall
    <2>2. CASE Write(p) /\ f = "raw"
      BY <1>1, <2>2 DEF Write, GoTo, CallType, Truncate, AtCall
    <2>3. CASE Write(p) /\ f = "report"
      BY <1>1, <2>3 DEF Write, EndCall, IdleCall, CallType, Truncate, AtCall
    <2> QED
      BY <1>1, <2>1, <2>2, <2>3
  <1>6. f = "report" => /\ p \in Workers /\ At(p, "processed") /\ c = Crash(p)
                        /\ \A w \in Workers : Holds(w) => w = p
    BY <1>1 DEF FilesInv, ReportsAreWorkers, OneByOne, Holds, At
  <1>7. WholeInv'
    <2>1. \A d \in Crashes : GoodFiles(d)'
      BY <1>1, <1>3, <1>4 DEF WholeInv, GoodFiles
    <2>2. \A q \in Savers : GoodSave(q)'
      BY <1>1, <1>5 DEF WholeInv, GoodSave, Saving, AtCall
    <2>3. ASSUME NEW w \in Workers PROVE GoodWorker(w)'
      <3>1. Holds(w)' => worker'[w].raw = "good"
        BY <1>2 DEF WholeInv, GoodWorker, Holds, At
      <3>2. ASSUME Reading(w)' PROVE Untouched(Crash(w))'
        <4>1. Reading(w) /\ Holds(w) /\ Crash(w) \in Crashes /\ UNCHANGED Crash(w)
          BY <1>2, <3>2 DEF Reading, Holds, At, Crash, TypeOK
        <4>2. Untouched(Crash(w))
          BY <4>1 DEF WholeInv, GoodWorker
        <4>3. f = "raw"
          BY <1>1, <1>6, <4>1 DEF Reading, At
        <4> QED
          BY <1>2, <1>4, <4>1, <4>2, <4>3 DEF Untouched
      <3> QED
        BY <3>1, <3>2 DEF GoodWorker
    <2> QED
      BY <2>1, <2>2, <2>3 DEF WholeInv
  <1>8. ASSUME ReportsInv, f = "raw" PROVE ReportsInv'
    <2>1. \A d \in Crashes : GoodReport(d)' <=> GoodReport(d)
      BY <1>4, <1>8 DEF GoodReport
    <2>2. \A d \in indexed' : GoodReport(d)'
      BY <1>2, <1>8, <2>1 DEF ReportsInv, TypeOK
    <2>3. \A q \in Savers : ReportSave(q)'
      BY <1>1, <1>5, <1>8 DEF ReportsInv, ReportSave, Saving, AtCall, Early
    <2>4. ASSUME NEW w \in Workers PROVE ReportWorker(w)'
      <3>1. worker'[w] = worker[w]
        BY <1>2
      <3>4. ReportWorker(w) /\ (Holds(w) => (GoodReport(Crash(w))' <=> GoodReport(Crash(w))))
        BY <1>8, <2>1, <3>1 DEF ReportsInv, Holds, At, Crash, TypeOK, GoodReport
      <3>2. CASE w = p
        <4>1. ~At(w, "processed")
          BY <1>1, <1>8, <3>2 DEF ReportsInv, ReportWorker, Saving
        <4> QED
          BY <1>2, <3>1, <3>4, <4>1 DEF ReportWorker, Reporting, Holds, At, Crash
      <3>3. CASE w # p
        <4>1. call'[w] = call[w]
          BY <1>5, <3>3 DEF Savers
        <4> QED
          BY <1>2, <3>1, <3>4, <4>1 DEF ReportWorker, Reporting, Holds, At, AtCall, Crash
      <3> QED
        BY <3>2, <3>3
    <2> QED
      BY <1>2, <1>8, <2>2, <2>3, <2>4 DEF ReportsInv, StoresFs
  <1>9. ASSUME ReportsInv, f = "report" PROVE ReportsInv'
    <2>1. /\ p \in Workers /\ At(p, "processed") /\ c = Crash(p) /\ c \notin indexed /\ worker[p].dst = 1
          /\ \A w \in Workers : Holds(w) => w = p
      BY <1>6, <1>9 DEF ReportsInv, ReportWorker, Reporting, At
    <2>2. \A d \in indexed' : GoodReport(d)'
      BY <1>2, <1>4, <1>9, <2>1 DEF ReportsInv, GoodReport, TypeOK
    <2>3. \A q \in Savers : ReportSave(q)'
      BY <1>1, <1>5, <1>9 DEF ReportsInv, ReportSave, Saving, AtCall, Early
    <2>4. ASSUME NEW w \in Workers PROVE ReportWorker(w)'
      <3>1. CASE w # p
        <4>1. worker'[w].pc = "idle"
          BY <1>2, <2>1, <3>1 DEF Holds, At
        <4> QED
          BY <4>1 DEF ReportWorker, Reporting, At
      <3>2. CASE w = p
        <4>1. worker'[w].pc = "processed" /\ worker'[w].dst = 1 /\ worker'[w].crash = c /\ c \notin indexed'
          BY <1>2, <2>1, <3>2 DEF At, Crash
        <4>2. call'[w].pc = "idle" => store'[c].report = "good"
          BY <1>3, <1>4, <1>5, <1>9, <3>2
        <4>3. call'[w].pc # "idle" => call'[w].file = "report"
          BY <1>5, <1>9, <3>2
        <4> QED
          BY <4>1, <4>2, <4>3 DEF ReportWorker, Reporting, At, AtCall, GoodReport, Crash
      <3> QED
        BY <3>1, <3>2
    <2> QED
      BY <1>2, <1>9, <2>2, <2>3, <2>4 DEF ReportsInv, StoresFs
  <1> QED
    BY <1>1, <1>7, <1>8, <1>9

\* A step of a goroutine that leaves the files and the index alone, and itself idle or in order.
LEMMA GoesOnWhole ==
  ASSUME TypeOK, WholeInv, NEW w \in Workers, NEW r, WorkerTo(w, r), UNCHANGED <<store, indexed, config>>,
         \/ UNCHANGED call
         \/ /\ \A q \in Savers : q # w => call'[q] = call[q]
            /\ GoodSave(w)' /\ (ReportsInv => ReportSave(w)'),
         r.pc = "idle" \/ (GoodWorker(w)' /\ (ReportsInv => ReportWorker(w)'))
  PROVE  WholeInv' /\ (ReportsInv => ReportsInv')
  <1>1. worker'[w] = r /\ \A v \in Workers : v # w => worker'[v] = worker[v]
    BY DEF TypeOK, WorkerTo
  <1>2. \A q \in Savers : q = w \/ call'[q] = call[q]
    OBVIOUS
  <1>3. \A v \in Workers : v # w => SameWorker(v) /\ call'[v] = call[v]
    BY <1>1, <1>2 DEF SameWorker, Savers
  <1>4. \A q \in Savers : \/ call'[q].pc = "idle" \/ call'[q] = call[q]
                          \/ GoodSave(q)' /\ (ReportsInv => ReportSave(q)')
    <2>1. CASE UNCHANGED call
      BY <2>1
    <2>2. CASE GoodSave(w)' /\ (ReportsInv => ReportSave(w)')
      BY <1>2, <2>2
    <2> QED
      BY <2>1, <2>2
  <1>5. \A v \in Workers : \/ worker'[v].pc = "idle" \/ (SameWorker(v) /\ call'[v] = call[v])
                           \/ GoodWorker(v)' /\ (ReportsInv => ReportWorker(v)')
    BY <1>1, <1>3
  <1> QED
    BY <1>4, <1>5, OrderlyKeeps

\* Up to the callback: what the link leads to is untouched, and whole.
LEMMA TakingIsWhole ==
  ASSUME TypeOK, HeldIsFiled, SerialInv, FilesInv, WholeInv, NEW w \in Workers,
         \/ Lstat(w) \/ Stat(w) \/ GetRaw(w)
         \/ RemoveLink(w, "unlink", "unlink again") \/ RemoveLink(w, "unlink again", "getraw")
  PROVE  WholeInv' /\ (ReportsInv => ReportsInv')
  <1> DEFINE c == Crash(w)
  <1>1. Holds(w) /\ c \in Crashes /\ filed[c] > 0 /\ worker[w].raw = "good" /\ GoodWorker(w)
    BY DEF Lstat, Stat, GetRaw, RemoveLink, Holds, At, TypeOK, HeldIsFiled, WholeInv, GoodWorker, Crash
  <1>2. UNCHANGED <<store, indexed, config>>
    BY DEF Lstat, Stat, GetRaw, RemoveLink, InWork, fixed
  <1>3. CASE Lstat(w) \/ Stat(w)
    <2>1. CASE ProcessorDown
      <3>1. /\ \A v \in Workers : worker'[v].pc = "idle"
            /\ \A q \in Savers : call'[q].pc = "idle" \/ call'[q] = call[q]
        BY <2>1 DEF ProcessorDown, IdleWorker, IdleCall
      <3> QED
        BY <1>2, <3>1, OrderlyKeeps
    <2>2. ASSUME NEW pc \in {"stat", "unlink"}, WorkerTo(w, [worker[w] EXCEPT !.pc = pc]), UNCHANGED call
          PROVE  WholeInv' /\ (ReportsInv => ReportsInv')
      <3> DEFINE r == [worker[w] EXCEPT !.pc = pc]
      <3>1. worker'[w] = r /\ r.pc = pc /\ r.raw = "good"
        BY <1>1, <2>2, MovedWorker DEF TypeOK, WorkerTo
      <3>2. WorkerTo(w, r)
        BY <2>2
      <3> HIDE DEF r
      <3>3. GoodWorker(w)' /\ ReportWorker(w)'
        BY <3>1 DEF GoodWorker, ReportWorker, Reporting, Reading, At
      <3> QED
        BY <1>2, <2>2, <3>2, <3>3, GoesOnWhole
    <2> QED
      BY <1>3, <2>1, <2>2 DEF Lstat, Stat, GoOnIf
  <1>4. CASE RemoveLink(w, "unlink", "unlink again") \/ RemoveLink(w, "unlink again", "getraw")
    <2>1. Untouched(c)
      <3>1. CASE At(w, "unlink")
        <4>1. Link(w) \in links /\ Link(w)[2] = c
          BY <3>1 DEF SerialInv, ListedIsLinked, AtLink, At, Link, Crash
        <4> QED
          BY <4>1 DEF FilesInv, TouchedIsTaken
      <3>2. CASE At(w, "unlink again")
        BY <1>1, <3>2 DEF GoodWorker, Reading
      <3> QED
        BY <1>4, <3>1, <3>2 DEF RemoveLink
    <2>2. ASSUME NEW pc \in {"unlink again", "getraw"}, Move(w, pc), UNCHANGED call
          PROVE  WholeInv' /\ (ReportsInv => ReportsInv')
      <3> DEFINE r == [worker[w] EXCEPT !.pc = pc]
      <3>1. worker'[w] = r /\ r.pc = pc /\ r.raw = "good" /\ r.crash = c
        BY <1>1, <2>2, MovedWorker DEF TypeOK, WorkerTo, Move, Crash
      <3>2. WorkerTo(w, r)
        BY <2>2 DEF Move
      <3> HIDE DEF r
      <3>3. GoodWorker(w)' /\ ReportWorker(w)'
        BY <1>2, <2>1, <3>1 DEF GoodWorker, ReportWorker, Reporting, Reading, At, Crash, Untouched
      <3> QED
        BY <1>2, <2>2, <3>2, <3>3, GoesOnWhole
    <2> QED
      BY <1>4, <2>2 DEF RemoveLink
  <1>5. CASE GetRaw(w)
    <2> DEFINE r == [worker[w] EXCEPT !.pc = "getdumps", !.raw = GetRawCrash(c)]
    <2>1. GetRawCrash(c) = "good"
      <3>1. Untouched(c)
        BY <1>1, <1>5 DEF GetRaw, GoodWorker, Reading
      <3> QED
        BY <1>1, <3>1 DEF FilesInv, FiledIsWhole, GetRawCrash
    <2>2. worker'[w] = r /\ r.pc = "getdumps" /\ r.raw = "good" /\ r.crash = c
      BY <1>5, <2>1 DEF GetRaw, TypeOK, WorkerTo, WorkerType, Crash
    <2>3. WorkerTo(w, r) /\ UNCHANGED call /\ At(w, "getraw")
      BY <1>5 DEF GetRaw
    <2> HIDE DEF r
    <2>4. GoodWorker(w)'
      BY <2>2 DEF GoodWorker, Reading, At
    <2>5. ReportsInv => ReportWorker(w)'
      BY <1>2, <2>2, <2>3 DEF ReportsInv, ReportWorker, Reporting, At, Crash
    <2> QED
      BY <1>2, <2>3, <2>4, <2>5, GoesOnWhole
  <1> QED
    BY <1>3, <1>4, <1>5

\* The callback: it writes the one report of its crash, and moves on when that is done.
LEMMA StoringIsWhole ==
  ASSUME TypeOK, ~config.removeRaw, WholeInv, NEW w \in Workers,
         GetDumps(w) \/ SaveProcessed(w) \/ SaveRawCrash(w) \/ StoredInFs(w)
  PROVE  WholeInv' /\ (ReportsInv => ReportsInv')
  <1> DEFINE c == Crash(w)
  <1>1. /\ Holds(w) /\ c \in Crashes /\ worker[w].raw = "good" /\ worker[w].dst \in Nat
        /\ config \in Configs /\ w \in Savers
    BY DEF GetDumps, SaveProcessed, SaveRawCrash, StoredInFs, Holds, At, TypeOK, WorkerType,
           WholeInv, GoodWorker, Crash, Savers
  <1>2. UNCHANGED <<store, indexed, config>>
    BY DEF GetDumps, SaveProcessed, SaveRawCrash, StoredInFs, InWork, fixed
  <1>3. CASE GetDumps(w)
    <2> DEFINE r == AfterDestination(w, 0)
    <2>1. CASE ProcessorDown
      <3>1. /\ \A v \in Workers : worker'[v].pc = "idle"
            /\ \A q \in Savers : call'[q].pc = "idle" \/ call'[q] = call[q]
        BY <2>1 DEF ProcessorDown, IdleWorker, IdleCall
      <3> QED
        BY <1>2, <3>1, OrderlyKeeps
    <2>2. CASE WorkerTo(w, r) /\ UNCHANGED call
      <3>1. /\ worker'[w] = r
            /\ r.pc = "idle" \/ (r.pc = "store" /\ r.crash = c /\ r.raw = "good" /\ r.dst = 1 /\ 1 \in DOMAIN config.dst)
        BY <1>1, <2>2, NextDestination DEF TypeOK, WorkerTo, Crash
      <3> HIDE DEF r
      <3>2. r.pc = "idle" \/ (GoodWorker(w)' /\ (ReportsInv => ReportWorker(w)'))
        BY <1>2, <1>3, <3>1 DEF GetDumps, GoodWorker, ReportsInv, ReportWorker, Reporting, Reading, At, Crash
      <3> QED
        BY <1>2, <2>2, <3>2, GoesOnWhole
    <2> QED
      BY <1>3, <2>1, <2>2 DEF GetDumps, GoOnIf
  <1>4. CASE SaveProcessed(w)
    <2> DEFINE r == [worker[w] EXCEPT !.pc = "processed"]
    <2>1. worker'[w] = r /\ r.pc = "processed" /\ r.raw = "good" /\ r.crash = c /\ r.dst = worker[w].dst
      BY <1>1, <1>4, MovedWorker DEF SaveProcessed, Move, TypeOK, WorkerTo, Crash
    <2>2. WorkerTo(w, r)
      BY <1>4 DEF SaveProcessed, Move
    <2>3. call'[w] = NewCall(c, "report", "good") /\ \A q \in Savers : q # w => call'[q] = call[q]
      BY <1>1, <1>4 DEF SaveProcessed, StartCall, TypeOK
    <2> HIDE DEF r
    <2>4. GoodSave(w)' /\ ReportSave(w)' /\ call'[w].pc = "truncate" /\ call'[w].file = "report"
      BY <2>3 DEF NewCall, GoodSave, ReportSave, Early
    <2>5. GoodWorker(w)'
      BY <2>1 DEF GoodWorker, Reading, At
    <2>6. ASSUME ReportsInv PROVE ReportWorker(w)'
      <3>1. At(w, "store") /\ worker[w].dst \in DOMAIN config.dst /\ config.dst[worker[w].dst] = "fs"
        BY <1>4, <2>6 DEF SaveProcessed, Destination, ReportsInv, ReportWorker
      <3>2. worker[w].dst = 1 /\ c \notin indexed
        BY <1>1, <2>6, <3>1 DEF FsOnlyFirst, ReportsInv, ReportWorker, Reporting, At
      <3> QED
        BY <1>2, <2>1, <2>4, <3>2 DEF ReportWorker, Reporting, At, AtCall, Crash
    <2> QED
      BY <1>2, <2>2, <2>3, <2>4, <2>5, <2>6, GoesOnWhole
  <1>5. CASE SaveRawCrash(w)
    <2> DEFINE r == [worker[w] EXCEPT !.pc = "saved"]
    <2>1. worker'[w] = r /\ r.pc = "saved" /\ r.raw = "good" /\ r.crash = c /\ r.dst = worker[w].dst
      BY <1>1, <1>5, MovedWorker DEF SaveRawCrash, Move, TypeOK, WorkerTo, Crash
    <2>2. WorkerTo(w, r) /\ At(w, "processed") /\ AtCall(w, "idle")
      BY <1>5 DEF SaveRawCrash, Move
    <2>3. call'[w] = NewCall(c, "raw", "good") /\ \A q \in Savers : q # w => call'[q] = call[q]
      BY <1>1, <1>5 DEF SaveRawCrash, StartCall, TypeOK
    <2> HIDE DEF r
    <2>4. GoodSave(w)' /\ ReportSave(w)'
      BY <2>3 DEF NewCall, GoodSave, ReportSave
    <2>5. GoodWorker(w)'
      BY <2>1 DEF GoodWorker, Reading, At
    <2>6. ReportsInv => ReportWorker(w)'
      BY <1>1, <1>2, <2>1, <2>2 DEF ReportsInv, ReportWorker, Reporting, At, GoodReport, Crash
    <2> QED
      BY <1>2, <2>2, <2>3, <2>4, <2>5, <2>6, GoesOnWhole
  <1>6. CASE StoredInFs(w)
    <2> DEFINE r == AfterDestination(w, worker[w].dst)
    <2>1. /\ worker'[w] = r
          /\ \/ r.pc = "idle"
             \/ /\ r.pc = "store" /\ r.crash = c /\ r.raw = "good"
                /\ r.dst = worker[w].dst + 1 /\ r.dst \in DOMAIN config.dst
      BY <1>1, <1>6, NextDestination DEF StoredInFs, TypeOK, WorkerTo, Crash
    <2>2. WorkerTo(w, r) /\ UNCHANGED call /\ (At(w, "saved") \/ (At(w, "processed") /\ AtCall(w, "idle")))
      BY <1>6 DEF StoredInFs
    <2> HIDE DEF r
    <2>3. r.pc = "idle" \/ GoodWorker(w)'
      BY <2>1 DEF GoodWorker, Reading, At
    <2>4. ASSUME ReportsInv PROVE r.pc = "idle" \/ ReportWorker(w)'
      <3>1. worker[w].dst = 1 /\ GoodReport(c)
        BY <1>1, <2>2, <2>4 DEF ReportsInv, ReportWorker
      <3>2. r.pc = "idle" \/ (r.pc = "store" /\ r.crash = c /\ r.dst = 2 /\ r.dst \in DOMAIN config.dst)
        BY <2>1, <3>1
      <3>3. ASSUME r.pc # "idle" PROVE ReportWorker(w)'
        <4>1. /\ worker'[w].pc = "store" /\ worker'[w].crash = c /\ worker'[w].dst = 2
              /\ 2 \in DOMAIN config'.dst /\ store'[c].report = "good"
          BY <1>2, <2>1, <3>1, <3>2, <3>3 DEF GoodReport
        <4> QED
          BY <4>1 DEF ReportWorker, Reporting, At, GoodReport, Crash
      <3> QED
        BY <3>3
    <2> QED
      BY <1>2, <2>2, <2>3, <2>4, GoesOnWhole
  <1> QED
    BY <1>3, <1>4, <1>5, <1>6

\* Elasticsearch comes after the report; nobody else has a crash at the time.
LEMMA IndexingIsWhole ==
  ASSUME TypeOK, OneByOne, ~config.removeRaw, WholeInv, NEW w \in Workers, NEW dated, Index(w, dated)
  PROVE  WholeInv' /\ (ReportsInv => ReportsInv')
  <1> DEFINE c == Crash(w)
             r == AfterDestination(w, worker[w].dst)
  <1>1. /\ Holds(w) /\ c \in Crashes /\ worker[w].raw = "good" /\ worker[w].dst \in Nat
        /\ config \in Configs /\ w \in Savers /\ At(w, "store")
    BY DEF Index, Holds, At, TypeOK, WorkerType, WholeInv, GoodWorker, Crash, Savers
  <1>2. UNCHANGED <<store, config, call>> /\ indexed' \subseteq indexed \cup {c}
    BY DEF Index, InWork, fixed
  <1>3. /\ worker'[w] = r /\ \A v \in Workers : v # w => worker'[v] = worker[v] /\ worker'[v].pc = "idle"
        /\ \/ r.pc = "idle"
           \/ /\ r.pc = "store" /\ r.crash = c /\ r.raw = "good"
              /\ r.dst = worker[w].dst + 1 /\ r.dst \in DOMAIN config.dst
    <2>1. worker'[w] = r /\ \A v \in Workers : v # w => worker'[v] = worker[v]
      BY DEF Index, TypeOK, WorkerTo
    <2>2. \A v \in Workers : v # w => worker[v].pc = "idle"
      BY <1>1 DEF OneByOne, Holds, At
    <2>3. \/ r.pc = "idle"
          \/ /\ r.pc = "store" /\ r.crash = c /\ r.raw = "good"
             /\ r.dst = worker[w].dst + 1 /\ r.dst \in DOMAIN config.dst
      BY <1>1, NextDestination DEF Crash
    <2> QED
      BY <2>1, <2>2, <2>3
  <1> HIDE DEF r
  <1>4. WholeInv'
    <2>1. ASSUME NEW v \in Workers PROVE GoodWorker(v)'
      BY <1>3 DEF GoodWorker, Holds, Reading, At
    <2> QED
      BY <1>2, <2>1 DEF WholeInv, GoodFiles, GoodSave, Saving, AtCall
  <1>5. ASSUME ReportsInv PROVE ReportsInv'
    <2>1. worker[w].dst # 1 /\ GoodReport(c)
      <3>1. config.dst[1] = "fs"
        BY <1>1, <1>5 DEF ReportsInv, FsOnlyFirst, StoresFs
      <3>2. worker[w].dst # 1
        BY <3>1 DEF Index, Destination
      <3> QED
        BY <1>1, <1>5, <3>2 DEF ReportsInv, ReportWorker
    <2>2. \A d \in indexed' : GoodReport(d)'
      BY <1>2, <1>5, <2>1 DEF ReportsInv, GoodReport
    <2>3. \A p \in Savers : ReportSave(p)'
      BY <1>2, <1>5 DEF ReportsInv, ReportSave, Saving, AtCall, Early
    <2>4. ASSUME NEW v \in Workers PROVE ReportWorker(v)'
      <3>1. CASE worker'[v].pc = "idle"
        BY <3>1 DEF ReportWorker, Reporting, At
      <3>2. CASE v = w /\ r.pc # "idle"
        <4>1. /\ worker'[w].pc = "store" /\ worker'[w].crash = c /\ worker'[w].dst = worker[w].dst + 1
              /\ worker'[w].dst \in DOMAIN config'.dst /\ store'[c].report = "good"
          BY <1>2, <1>3, <2>1, <3>2 DEF GoodReport
        <4>2. worker[w].dst \in DOMAIN config.dst /\ config.dst \in Seq(Storages)
          BY <1>1, <1>5, ConfigAssumption DEF ReportsInv, ReportWorker
        <4>3. worker'[w].dst # 1
          BY <4>1, <4>2
        <4> QED
          BY <3>2, <4>1, <4>3 DEF ReportWorker, Reporting, At, GoodReport, Crash
      <3> QED
        BY <1>3, <3>1, <3>2
    <2> QED
      BY <1>2, <1>5, <2>2, <2>3, <2>4 DEF ReportsInv, StoresFs
  <1> QED
    BY <1>4, <1>5

GInv == SInv /\ (OneAtATime /\ ReprocessesHits /\ ~config.removeRaw =>
                   WholeInv /\ (FsOnlyFirst /\ StoresFs => ReportsInv))

\* At the start nothing is stored and nobody works.
LEMMA InitGood == Init => GInv
  <1> SUFFICES ASSUME Init PROVE GInv
    OBVIOUS
  <1>1. /\ \A c \in Crashes : store[c].raw = "absent" /\ store[c].report = "absent"
        /\ indexed = {}
        /\ \A p \in Savers : call[p].pc = "idle"
        /\ \A w \in Workers : worker[w].pc = "idle"
    BY DEF Init, IdleCall, IdleWorker
  <1>2. WholeInv
    BY <1>1 DEF WholeInv, GoodFiles, GoodSave, Saving, AtCall, GoodWorker, Holds, Reading, At
  <1>3. FsOnlyFirst /\ StoresFs => ReportsInv
    BY <1>1 DEF ReportsInv, ReportSave, Saving, AtCall, ReportWorker, Reporting, At
  <1> QED
    BY <1>2, <1>3, InitSerial DEF GInv

\* Every step keeps what is read and written whole.
LEMMA NextGood == GInv /\ [Next]_vars => GInv'
  <1> SUFFICES ASSUME GInv, [Next]_vars PROVE GInv'
    OBVIOUS
  <1>1. SInv /\ SInv' /\ UNCHANGED config
    BY NextSerialWhole, NextKeepsConfig DEF GInv, SInv, WInv, LInv
  <1>2. ASSUME OneAtATime, ReprocessesHits, ~config.removeRaw
        PROVE  WholeInv' /\ (ReportsInv => ReportsInv')
    <2>1. /\ TypeOK /\ BackLinkGuards /\ HeldIsFiled /\ SerialInv /\ FilesInv /\ WholeInv /\ OneByOne
      BY <1>1, <1>2 DEF GInv, SInv, WInv, LInv, IInv, SerialInv
    <2>2. ASSUME NEW p \in Savers, Save(p) PROVE WholeInv' /\ (ReportsInv => ReportsInv')
      BY <2>1, <2>2, WritingIsWhole, LateSaveIsWhole DEF Save
    <2>3. ASSUME NEW w \in Workers, Process(w) PROVE WholeInv' /\ (ReportsInv => ReportsInv')
      <3>1. ~RemoveBack(w) /\ ~RemoveDir(w) /\ \A f \in {"raw", "report"} : ~RemoveFile(w, f)
        BY <1>2, <2>1 DEF BackLinkGuards, RemoveBack, RemoveFile, RemoveDir
      <3>2. CASE \/ Lstat(w) \/ Stat(w) \/ GetRaw(w)
                 \/ RemoveLink(w, "unlink", "unlink again") \/ RemoveLink(w, "unlink again", "getraw")
        BY <2>1, <3>2, TakingIsWhole
      <3>3. CASE GetDumps(w) \/ SaveProcessed(w) \/ SaveRawCrash(w) \/ StoredInFs(w)
        BY <1>2, <2>1, <3>3, StoringIsWhole
      <3>4. CASE \E dated \in {TRUE, ~Faults} : Index(w, dated)
        BY <1>2, <2>1, <3>4, IndexingIsWhole
      <3> QED
        BY <2>3, <3>1, <3>2, <3>3, <3>4 DEF Process
    <2>4. CASE \/ Tick \/ Scan \/ Restart \/ ProcessorDies
               \/ \E p \in Handlers : Abort(p) \/ \E c \in Crashes : Submit(p, c) \/ Reprocess(p, c)
               \/ UNCHANGED vars
      BY <2>1, <2>4, OthersAreWhole
    <2> QED
      BY <2>2, <2>3, <2>4 DEF Next
  <1>3. StoresFs' <=> StoresFs
    BY <1>1 DEF StoresFs
  <1> QED
    BY <1>1, <1>2, <1>3 DEF GInv

\* One goroutine at a time, and only search hits reprocessed: a crash that was collected is
\* never overwritten with the null of a goroutine that read it half written.
THEOREM SpoolCollectedIsKept ==
  ASSUME OneAtATime, KeepsRaw, ReprocessesHits PROVE Spec => []CollectedIsKept
  <1>1. GInv => CollectedIsKept
    <2> SUFFICES ASSUME GInv, NEW c \in answered PROVE store[c].raw # "null"
      BY DEF CollectedIsKept
    <2>1. ~config.removeRaw /\ c \in Crashes
      BY DEF GInv, SInv, WInv, LInv, IInv, TypeOK, KeepsRaw
    <2> QED
      BY <2>1 DEF GInv, WholeInv, GoodFiles
  <1> QED
    BY <1>1, InitGood, NextGood, PTL DEF Spec

\* And with the filesystem among the destinations only as the first, what the report page
\* reads for a search hit is whole: nobody writes the report of an indexed crash again.
THEOREM SpoolHitReportIsWhole ==
  ASSUME OneAtATime, KeepsRaw, ReprocessesHits, FsOnlyFirst PROVE Spec => []HitReportIsWhole
  <1>1. GInv => HitReportIsWhole
    <2> SUFFICES ASSUME GInv, NEW c \in indexed, "fs" \in {config.dst[i] : i \in DOMAIN config.dst}
                 PROVE  store[c].report = "good"
      BY DEF HitReportIsWhole
    <2>1. ~config.removeRaw
      BY DEF GInv, SInv, WInv, LInv, IInv, TypeOK, KeepsRaw
    <2>2. StoresFs
      BY DEF StoresFs
    <2> QED
      BY <2>1, <2>2 DEF GInv, ReportsInv, GoodReport
  <1> QED
    BY <1>1, InitGood, NextGood, PTL DEF Spec
=============================================================================
