----------------------------- MODULE CrashLife -----------------------------
(***************************************************************************)
(* What the spool promises of a crash, without files, links or goroutines: *)
(* it is queued, taken off the queue by the processor, and then found by   *)
(* the search.  While raw crashes are kept this happens once and in this   *)
(* order, however often the crash is saved, reprocessed or handed out.     *)
(***************************************************************************)
CONSTANT Crashes

VARIABLES
    keeps,      \* the processor keeps raw crashes (remove_raw_dump is off)
    stage,      \* "new", "queued" or "taken"
    searchable  \* crashes the search finds

vars == <<keeps, stage, searchable>>

Init ==
    /\ keeps \in BOOLEAN
    /\ stage = [c \in Crashes |-> "new"]
    /\ searchable = {}

\* A crash that was removed may come back with a later save.
Queue(c) ==
    /\ stage[c] = "new" \/ (stage[c] = "taken" /\ ~keeps)
    /\ stage' = [stage EXCEPT ![c] = "queued"]
    /\ UNCHANGED <<keeps, searchable>>

Take(c) ==
    /\ stage[c] = "queued"
    /\ stage' = [stage EXCEPT ![c] = "taken"]
    /\ UNCHANGED <<keeps, searchable>>

Publish(c) ==
    /\ stage[c] = "taken" \/ (stage[c] = "queued" /\ ~keeps)
    /\ searchable' = searchable \cup {c}
    /\ UNCHANGED <<keeps, stage>>

Next == \E c \in Crashes : Queue(c) \/ Take(c) \/ Publish(c)

Spec == Init /\ [][Next]_vars
=============================================================================
