------------------------- MODULE WorkerPool_proofs -------------------------
(* What holds of the worker pool for every number of goroutines, every     *)
(* limit, and rounds of any size.                                          *)
EXTENDS WorkerPool, FiniteSetTheorems, TLAPS

\* How full the round may be, by where the main goroutine is.
CountBound ==
    /\ pc \in {"round", "scan", "visit", "sleep"} => count < MaxSimultaneousProcessing
    /\ count <= MaxSimultaneousProcessing
    /\ waiting => pc = "throttled" /\ count = MaxSimultaneousProcessing
    /\ pc = "go" => entries > 0

\* The inductive invariant.
IInv == TypeOK /\ CountIsCurrent /\ CountBound /\ OnlyThrottleWaits

\* Sets of goroutines can be counted.
LEMMA CurrentIsFinite == TypeOK => IsFiniteSet(current) /\ Cardinality(current) \in Nat
  BY PoolAssumption, FS_Subset, FS_CardinalityType DEF TypeOK

\* The processor starts with an empty pool.
LEMMA InitIInv == Init => IInv
  <1> SUFFICES ASSUME Init PROVE IInv
    OBVIOUS
  <1>1. Cardinality(current) = 0
    BY FS_EmptySet DEF Init
  <1>2. MaxSimultaneousProcessing \in Nat /\ MaxSimultaneousProcessing > 0
    BY PoolAssumption
  <1>3. TypeOK
    BY DEF Init, TypeOK
  <1>4. CountIsCurrent /\ CountBound /\ OnlyThrottleWaits
    BY <1>1, <1>2 DEF Init, CountIsCurrent, CountBound, OnlyThrottleWaits
  <1> QED
    BY <1>3, <1>4 DEF IInv

\* A goroutine that starts was counted before.
LEMMA GoIInv == ASSUME IInv, NEW w \in Workers, Go(w) PROVE IInv'
  <1>1. Cardinality(current') = Cardinality(current) + 1
    <2>1. w \notin current /\ current' = current \cup {w}
      BY DEF IInv, TypeOK, Go
    <2> QED
      BY <2>1, CurrentIsFinite, FS_AddElement DEF IInv
  <1>2. count = Cardinality(current')
    BY <1>1, CurrentIsFinite DEF IInv, CountIsCurrent, Go
  <1>3. TypeOK'
    <2>1. entries' \in Nat
      BY DEF IInv, TypeOK, CountBound, Go
    <2> QED
      BY <2>1 DEF IInv, TypeOK, Go
  <1>4. CountIsCurrent' /\ CountBound' /\ OnlyThrottleWaits'
    BY <1>2, PoolAssumption
    DEF IInv, TypeOK, CountIsCurrent, CountBound, OnlyThrottleWaits, Go
  <1> QED
    BY <1>3, <1>4 DEF IInv

\* A goroutine that ends counts itself out of the round that counted it in.
LEMMA FinishIInv == ASSUME IInv, NEW w \in Workers, Finish(w) PROVE IInv'
  <1>1. CASE w \in current
    <2>1. Cardinality(current') = Cardinality(current) - 1
      BY <1>1, CurrentIsFinite, FS_RemoveElement DEF IInv, Finish
    <2>2. Cardinality(current') \in Nat
      <3>1. TypeOK => IsFiniteSet(current \ {w})
        BY CurrentIsFinite, FS_RemoveElement
      <3> QED
        BY <3>1, FS_CardinalityType DEF IInv, Finish
    <2>3. count' = count - 1 /\ waiting' = FALSE /\ UNCHANGED <<pc, entries>>
      BY <1>1 DEF Finish, Counted, Decremented, Broadcast
    <2>4. count' = Cardinality(current') + (IF pc' = "go" THEN 1 ELSE 0) /\ count' \in Nat
      BY <2>1, <2>2, <2>3, CurrentIsFinite DEF IInv, CountIsCurrent
    <2>5. TypeOK'
      BY <2>3, <2>4 DEF IInv, TypeOK, Finish
    <2>6. CountBound' /\ OnlyThrottleWaits'
      BY <2>3, PoolAssumption DEF IInv, TypeOK, CountBound, OnlyThrottleWaits
    <2> QED
      BY <2>4, <2>5, <2>6 DEF IInv, CountIsCurrent
  <1>2. CASE w \notin current
    <2>1. current' = current /\ UNCHANGED <<count, waiting, pc, entries>>
      BY <1>2 DEF Finish, Counted
    <2>2. TypeOK'
      BY <1>2, <2>1 DEF IInv, TypeOK, Finish
    <2> QED
      BY <2>1, <2>2 DEF IInv, CountIsCurrent, CountBound, OnlyThrottleWaits
  <1> QED
    BY <1>1, <1>2

\* A new round, and the end of the processor, leave nothing counted.
LEMMA EmptiedIInv == ASSUME IInv, StartRound \/ EndSleep PROVE IInv'
  <1>1. Cardinality({}) = 0
    BY FS_EmptySet
  <1>2. MaxSimultaneousProcessing \in Nat /\ MaxSimultaneousProcessing > 0
    BY PoolAssumption
  <1>3. CASE StartRound
    <2>1. slots' \in Nat
      BY <1>3, PoolAssumption DEF StartRound
    <2> QED
      BY <1>1, <1>2, <1>3, <2>1
      DEF IInv, TypeOK, CountIsCurrent, CountBound, OnlyThrottleWaits, StartRound
  <1>4. CASE EndSleep
    BY <1>1, <1>2, <1>4
    DEF IInv, TypeOK, CountIsCurrent, CountBound, OnlyThrottleWaits, EndSleep
  <1> QED
    BY <1>3, <1>4

\* The steps that start and end no goroutine; the throttle is what restores the bound.
LEMMA MainIInv ==
  ASSUME IInv, Gate \/ CountIn \/ Throttle \/ LeaveSlot \/ Drain \/ Interrupt
  PROVE  IInv'
  <1> USE DEF IInv, TypeOK, CountIsCurrent, CountBound, OnlyThrottleWaits, WaitIf, AtMax, AboveMax
  <1>1. MaxSimultaneousProcessing \in Nat /\ MaxEntries \in Nat /\ Cardinality(current) \in Nat
    BY PoolAssumption, CurrentIsFinite
  <1>2. CASE Gate
    <2>1. entries' \in Nat /\ slots' \in Nat
      BY <1>1, <1>2 DEF Gate
    <2> QED
      BY <1>1, <1>2, <2>1 DEF Gate
  <1>3. CASE CountIn
    BY <1>1, <1>3 DEF CountIn, InSlot
  <1>4. CASE Throttle
    BY <1>1, <1>4 DEF Throttle
  <1>5. CASE LeaveSlot
    BY <1>1, <1>5 DEF LeaveSlot, InSlot
  <1>6. CASE Drain
    BY <1>1, <1>6 DEF Drain
  <1>7. CASE Interrupt
    BY <1>1, <1>7 DEF Interrupt
  <1> QED
    BY <1>2, <1>3, <1>4, <1>5, <1>6, <1>7

\* Every step keeps the invariant.
LEMMA NextIInv == IInv /\ [Next]_vars => IInv'
  <1> SUFFICES ASSUME IInv, [Next]_vars PROVE IInv'
    OBVIOUS
  <1>1. ASSUME NEW w \in Workers, Go(w) PROVE IInv'
    BY <1>1, GoIInv
  <1>2. ASSUME NEW w \in Workers, Finish(w) PROVE IInv'
    BY <1>2, FinishIInv
  <1>3. CASE UNCHANGED vars
    BY <1>3 DEF vars, IInv, TypeOK, CountIsCurrent, CountBound, OnlyThrottleWaits
  <1> QED
    BY <1>1, <1>2, <1>3, EmptiedIInv, MainIInv DEF Next, MainStep

\* The inductive invariant holds always.
THEOREM PoolInvariant == Spec => []IInv
  BY InitIInv, NextIInv, PTL DEF Spec

\* The variables keep their types; in particular the counter never goes below zero.
THEOREM PoolTypeOK == Spec => []TypeOK
  BY PoolInvariant, PTL DEF IInv

\* currentlyProcessing is exact whenever the main goroutine looks at it.
THEOREM PoolCountIsCurrent == Spec => []CountIsCurrent
  BY PoolInvariant, PTL DEF IInv

\* No round exceeds the limit, whatever earlier rounds left running.
THEOREM PoolRoundWithinMax == Spec => []RoundWithinMax
  <1>1. IInv => RoundWithinMax
    <2> SUFFICES ASSUME IInv PROVE RoundWithinMax
      OBVIOUS
    <2>1. Cardinality(current) \in Nat /\ MaxSimultaneousProcessing \in Nat
      BY PoolAssumption, CurrentIsFinite DEF IInv
    <2> QED
      BY <2>1 DEF IInv, CountIsCurrent, CountBound, RoundWithinMax
  <1> QED
    BY <1>1, PoolInvariant, PTL

\* The gate and the drain never wait.
THEOREM PoolOnlyThrottleWaits == Spec => []OnlyThrottleWaits
  BY PoolInvariant, PTL DEF IInv

\* The main goroutine never waits without a goroutine that will wake it.
THEOREM PoolWaiterHasWaker == Spec => []WaiterHasWaker
  <1>1. IInv => WaiterHasWaker
    <2> SUFFICES ASSUME IInv, waiting, current = {} PROVE FALSE
      BY DEF WaiterHasWaker
    <2>1. Cardinality(current) = 0
      BY FS_EmptySet
    <2>2. MaxSimultaneousProcessing \in Nat /\ MaxSimultaneousProcessing > 0
      BY PoolAssumption
    <2> QED
      BY <2>1, <2>2 DEF IInv, CountIsCurrent, CountBound
  <1> QED
    BY <1>1, PoolInvariant, PTL
=============================================================================
