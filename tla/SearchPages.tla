---------------------------- MODULE SearchPages ----------------------------
(***************************************************************************)
(* The pages that search: one of them is open while crashes arrive.        *)
(***************************************************************************)
EXTENDS ReportList, DayChart

vars == <<index, now, view, listVars, chart>>

Init == view \in {"search", "reports", "home"} /\ InitIndex /\ InitList /\ InitChart

ListStep == (Choose \/ Answer) /\ UNCHANGED <<index, now, view, chart>>

HomeStep == view = "home" /\ ChartStep /\ UNCHANGED <<index, now, view, listVars>>

Grow == Arrive /\ NoteArrival /\ UNCHANGED <<view, list, visited, requests, answers, inputs, chart>>

Pass == view = "home" /\ Tick /\ UNCHANGED <<view, listVars, chart>>

Next == ListStep \/ HomeStep \/ Grow \/ Pass

Spec == Init /\ [][Next]_vars

\* Every request is answered or fails in the end.
FairSpec == Spec /\ WF_vars(UNCHANGED <<index, now, view, chart>> /\ Answer)

-----------------------------------------------------------------------------
(* Properties. *)

\* What is shown and what is under way: a page that exists, a total that the index can
\* have, at most one page of rows, and requests for what was or is chosen.
TypeOK ==
    /\ view \in {"search", "reports", "home"} /\ now \in Nat /\ inputs \in 0 .. MaxInputs
    /\ list.page \in Nat \ {0} /\ list.total \in 0 .. Cardinality(index) /\ Len(list.rows) <= Rows
    /\ view = "search" => \A r \in UnderWay : r.selection \in visited
    /\ chart.pc \in {"end", "start", "versions", "histogram", "drawn", "thrown", "failed"}

\* The chart counts each crash once.
ChartCountsEach == [][IsCounted]_vars
=============================================================================
