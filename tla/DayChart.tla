------------------------------ MODULE DayChart ------------------------------
(***************************************************************************)
(* getDayHistogramData: the home page's chart of the crashes per day and   *)
(* version, put together from two searches and two readings of the clock.  *)
(***************************************************************************)
EXTENDS SearchIndex

CONSTANTS
    Days,       \* days the chart goes back
    Shifts      \* ticks that daylight saving time adds to them or takes away

ASSUME ChartAssumption == Days \in Nat \ {0} /\ Shifts \subseteq Int

VARIABLE chart  \* [pc, end, start, versions, cells]

NaN == -1    \* no count

InitChart == chart = [pc |-> "end", end |-> 0, start |-> 0, versions |-> {}, cells |-> <<>>]

ChartDays == [product |-> {}, version |-> {}, gte |-> chart.start, lt |-> chart.end]

ReadEnd == chart.pc = "end" /\ chart' = [chart EXCEPT !.pc = "start", !.end = now]

\* A second moment(), from which the days are taken in local time.
ReadStart ==
    /\ chart.pc = "start"
    /\ \E s \in Shifts : chart' = [chart EXCEPT !.pc = "versions", !.start = now - Days * Day + s]

\* getVersions: of all crashes.
GetVersions ==
    /\ chart.pc = "versions"
    /\ chart' = [chart EXCEPT !.pc = "histogram", !.versions = {b.term : b \in Facet(index, "version")}]

Steps == {k \in 0 .. Days + 1 : chart.start + k * Day <= chart.end}

Grid == {(chart.start + k * Day) \div Day : k \in Steps}

\* Every bucket is added to its cell.  A version that is not in the list has no cells, which
\* throws; a day that is not in the grid makes one that is no number.
Draw(histogram) ==
    LET used  == UNION {{b.term : b \in h.facet} : h \in histogram}
        count(v, n) == Counted({b \in UNION {h.facet : h \in {g \in histogram : g.day = n}} : b.term = v})
        beyond == {x \in chart.versions \X {h.day : h \in histogram} : x[2] \notin Grid /\ count(x[1], x[2]) > 0}
    IN  chart' = IF used \subseteq chart.versions
                 THEN [chart EXCEPT !.pc = "drawn", !.cells =
                          [x \in (chart.versions \X Grid) \cup beyond |-> IF x \in beyond THEN NaN ELSE count(x[1], x[2])]]
                 ELSE [chart EXCEPT !.pc = "thrown"]

GetHistogram == chart.pc = "histogram" /\ Draw(Histogram(Filtered(index, ChartDays), "version"))

\* Either search fails: no chart.
Fail == chart.pc \in {"versions", "histogram"} /\ chart' = [chart EXCEPT !.pc = "failed"]

ChartStep == ReadEnd \/ ReadStart \/ GetVersions \/ GetHistogram \/ Fail

-----------------------------------------------------------------------------
(* Properties. *)

\* A chart of numbers counts every crash of its days that has a version once, as long as
\* the versions fit into a facet.
IsCounted ==
    LET docs == {d \in index : d.date >= Format(chart.start) /\ d.date < Format(chart.end) /\ d.version # None}
        cells == chart'.cells
    IN  (/\ chart.pc = "histogram" /\ chart'.pc = "drawn" /\ NaN \notin {cells[x] : x \in DOMAIN cells}
         /\ Cardinality({d.version : d \in index} \ {None}) <= FacetSize)
        => FoldSet(LAMBDA x, n : cells[x] + n, 0, DOMAIN cells) = Cardinality(docs)

\* The cells of all versions and all days are there before the counts are added to them.
CellsAreInitialized ==
    /\ chart.pc # "thrown"
    /\ \A x \in DOMAIN chart.cells : chart.cells[x] # NaN
=============================================================================
