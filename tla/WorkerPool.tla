----------------------------- MODULE WorkerPool -----------------------------
(***************************************************************************)
(* How the processor bounds its goroutines: the loop of Run, with a mutex, *)
(* a condition variable and a counter made new for every round, and the    *)
(* gate, throttle and drain that wait on them.  A critical section is one  *)
(* step.  A worker holds the counter of the round that started it; those   *)
(* of earlier rounds are not current, and nobody reads their counter.      *)
(***************************************************************************)
EXTENDS Integers, FiniteSets

CONSTANTS
    Workers,                    \* goroutines
    MaxSimultaneousProcessing,  \* processor.max_simultaneous_processing
    MaxSlots, MaxEntries        \* bounds: slots in a round, crashes in a slot

ASSUME PoolAssumption ==
    /\ IsFiniteSet(Workers)
    /\ MaxSimultaneousProcessing \in Nat \ {0}
    /\ MaxSlots \in Nat /\ MaxEntries \in Nat

VARIABLES
    pc,       \* the main goroutine
    slots,    \* minute slots this round still has to visit
    entries,  \* crashes of the slot that are still to be started
    count,    \* currentlyProcessing of this round
    waiting,  \* the main goroutine is in cond.Wait
    running,  \* goroutines whose callback has not ended
    current,  \* those among them that this round started
    stop      \* an interrupt arrived

vars == <<pc, slots, entries, count, waiting, running, current, stop>>

Init ==
    /\ pc = "round" /\ slots = 0 /\ entries = 0 /\ count = 0
    /\ waiting = FALSE /\ running = {} /\ current = {} /\ stop = FALSE

AboveMax(n) == n > MaxSimultaneousProcessing
AtMax(n)    == n >= MaxSimultaneousProcessing

\* A critical section of the main goroutine: wait, or leave it and go on.
WaitIf(full, there, next) ==
    /\ pc' = IF full THEN there ELSE next
    /\ waiting' = full

StartRound ==
    /\ pc = "round" /\ pc' = "scan"
    /\ count' = 0 /\ current' = {}
    /\ slots' \in 0 .. MaxSlots
    /\ UNCHANGED <<entries, waiting, running, stop>>

\* The gate of NewCrashes.
Gate ==
    /\ pc = "scan" /\ slots > 0
    /\ WaitIf(AtMax(count), "gate", "visit")
    /\ slots' = slots - 1 /\ entries' \in 0 .. MaxEntries
    /\ UNCHANGED <<count, running, current, stop>>

\* The gate is an if: who was woken goes on without a second look.
InSlot == pc = "visit" \/ (pc = "gate" /\ ~waiting)

\* visitMinuteSlot counts a goroutine before it starts it, and then throttles.
CountIn ==
    /\ InSlot /\ entries > 0 /\ pc' = "go"
    /\ count' = count + 1
    /\ UNCHANGED <<slots, entries, waiting, running, current, stop>>

Go(w) ==
    /\ pc = "go" /\ w \notin running /\ pc' = "throttle"
    /\ running' = running \cup {w} /\ current' = current \cup {w}
    /\ entries' = entries - 1
    /\ UNCHANGED <<slots, count, waiting, stop>>

NoThrottle ==
    /\ pc = "throttle" /\ pc' = "visit"
    /\ UNCHANGED <<slots, entries, count, waiting, running, current, stop>>

Throttle ==
    /\ pc = "throttle" \/ (pc = "throttled" /\ ~waiting)
    /\ WaitIf(AtMax(count), "throttled", "visit")
    /\ UNCHANGED <<slots, entries, count, running, current, stop>>

LeaveSlot ==
    /\ InSlot /\ entries = 0 /\ pc' = "scan"
    /\ UNCHANGED <<slots, entries, count, waiting, running, current, stop>>

\* The drain of Run compares with >, so it lets a full pool pass.
Drain ==
    /\ (pc = "scan" /\ slots = 0) \/ (pc = "drain" /\ ~waiting)
    /\ WaitIf(AboveMax(count), "drain", "sleep")
    /\ UNCHANGED <<slots, entries, count, running, current, stop>>

\* When Run returns, main exits and takes the goroutines with it.
EndSleep ==
    /\ pc = "sleep"
    /\ IF stop THEN pc' = "stopped" /\ running' = {} /\ current' = {} /\ count' = 0
               ELSE pc' = "round" /\ UNCHANGED <<running, current, count>>
    /\ UNCHANGED <<slots, entries, waiting, stop>>

Undecremented(n) == n
Decremented(n)   == n - 1
NoBroadcast(b)   == b
Broadcast(b)     == FALSE
SharedCounter(w) == w \in running
Counted(w)       == w \in current

\* The callback ends; the goroutine counts itself out and wakes the main goroutine.
Finish(w) ==
    /\ w \in running
    /\ running' = running \ {w} /\ current' = current \ {w}
    /\ IF Counted(w) THEN count' = Decremented(count) /\ waiting' = Broadcast(waiting)
                     ELSE UNCHANGED <<count, waiting>>
    /\ UNCHANGED <<pc, slots, entries, stop>>

Interrupt ==
    /\ ~stop /\ pc # "stopped" /\ stop' = TRUE
    /\ UNCHANGED <<pc, slots, entries, count, waiting, running, current>>

MainStep == \/ StartRound \/ Gate \/ CountIn \/ (\E w \in Workers : Go(w))
            \/ Throttle \/ LeaveSlot \/ Drain \/ EndSleep

Next == MainStep \/ (\E w \in Workers : Finish(w)) \/ Interrupt

Spec == Init /\ [][Next]_vars

\* The Go scheduler runs every goroutine, and every callback ends: stackwalker is
\* run without a timeout, so this is an assumption about it.
FairSpec == Spec /\ WF_vars(MainStep) /\ \A w \in Workers : WF_vars(Finish(w))

-----------------------------------------------------------------------------
(* Properties. *)

\* Every variable holds what its code counterpart can hold.
TypeOK ==
    /\ pc \in {"round", "scan", "gate", "visit", "go", "throttle", "throttled", "drain", "sleep", "stopped"}
    /\ slots \in Nat /\ entries \in Nat /\ count \in Nat
    /\ waiting \in BOOLEAN /\ stop \in BOOLEAN
    /\ running \subseteq Workers /\ current \subseteq running

\* currentlyProcessing counts the goroutines of the round, and the one about to start.
CountIsCurrent == count = Cardinality(current) + (IF pc = "go" THEN 1 ELSE 0)

\* A round never has more goroutines than max_simultaneous_processing.
RoundWithinMax == Cardinality(current) <= MaxSimultaneousProcessing

\* Only the throttle ever waits: the if of the gate is never woken without a second
\* look, and the drain waits for nobody, so that a round can end with a full pool.
OnlyThrottleWaits == pc \notin {"gate", "drain"}

\* No lost wakeup: whoever waits has a goroutine of its own round that will wake it.
WaiterHasWaker == waiting => current # {}

\* An interrupt stops the processor, however many rounds and waits are in between.
InterruptStops == stop ~> pc = "stopped"

\* The limit the configuration states: no more than max_simultaneous_processing at once.
RunningWithinMax == Cardinality(running) <= MaxSimultaneousProcessing
=============================================================================
