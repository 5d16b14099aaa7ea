---------------------------- MODULE SearchIndex ----------------------------
(***************************************************************************)
(* DoSearch: what POST /api/search reads from Elasticsearch, all of whose  *)
(* indices it searches.  A document is what the search tells of a report.  *)
(***************************************************************************)
EXTENDS Integers, SequencesExt

CONSTANTS
    Reports,        \* [product, version, signature] of the crashes that may arrive
    Indexes,        \* contents of Elasticsearch at first: [product, version, signature, date]
    None,           \* a field without a value, and a date that is not chosen
    FacetSize,      \* 50: terms of an aggregation
    MaxSize,        \* 10000: hits of a page
    Window,         \* 10000: hits Elasticsearch counts through to find a page
    Second, Day,    \* ticks of the clock in a second and in a day
    Now, MaxNow,    \* the first and the last tick
    Lag             \* ticks between a crash and its document

ASSUME IndexAssumption ==
    /\ {FacetSize, MaxSize, Window, Second, Day} \subseteq Nat \ {0}
    /\ Day % Second = 0 /\ Now \in Nat /\ MaxNow \in Nat /\ Lag \in Nat

VARIABLES index, now

InitIndex == index \in Indexes /\ now = Now

Document(r, t) == [product |-> r.product, version |-> r.version, signature |-> r.signature, date |-> t]

\* A processor indexes the report of a crash that happened a while ago.
Arrive ==
    /\ now < MaxNow /\ now' = now + 1
    /\ \E r \in Reports : index' = index \cup {Document(r, now - Lag)}

Tick == now < MaxNow /\ now' = now + 1 /\ UNCHANGED index

-----------------------------------------------------------------------------
(* The query. *)

\* A date is written in whole seconds.
Format(t) == t - (t % Second)

TermFilters(selection) ==
    UNION {{[name |-> f, value |-> v] : v \in selection[f]} : f \in {"product", "version"}}

RangeFilters(selection) ==
    {[operator |-> o, value |-> Format(selection[o])] : o \in {p \in {"gte", "lt"} : selection[p] # None}}

InClosedRange(t, r) == IF r.operator = "gte" THEN t >= r.value ELSE t <= r.value

InRange(t, r) == IF r.operator = "gte" THEN t >= r.value ELSE t < r.value

\* buildFilters: the values of one field are alternatives, the fields and ranges are not.
Filtered(docs, selection) == LET terms == TermFilters(selection) IN
    {d \in docs : /\ \A r \in RangeFilters(selection) : InRange(d.date, r)
                  /\ \A f \in {t.name : t \in terms} : \E t \in terms : t.name = f /\ d[f] = t.value}

AtLeast(rows) == IF rows < MaxSize THEN MaxSize ELSE rows

Size(rows) == IF rows > MaxSize THEN MaxSize ELSE rows

FromPage(page, rows) == page * rows

\* results_from, for pages that count from 1.
From(page, rows) == (page - 1) * rows

\* buildPaginate caps the size and not the sum; Elasticsearch refuses the search then.
BeyondWindow(page, rows) == From(page, rows) + Size(rows) > Window

Newer(d, docs) == Cardinality({e \in docs : e.date > d.date})

\* Sorted by date, the newest first.
Hits(docs, page, rows) ==
    LET sorted == [i \in 1 .. Cardinality(docs) |-> CHOOSE d \in docs : Newer(d, docs) = i - 1]
        last   == From(page, rows) + Size(rows)
    IN  SubSeq(sorted, From(page, rows) + 1, IF last < Len(sorted) THEN last ELSE Len(sorted))

\* A terms aggregation: the most frequent terms of a field.  Documents without a value are
\* not counted.
Facet(docs, field) ==
    LET terms   == {d[field] : d \in docs} \ {None}
        buckets == {[term |-> t, count |-> Cardinality({d \in docs : d[field] = t})] : t \in terms}
    IN  IF Cardinality(buckets) <= FacetSize THEN buckets
        ELSE CHOOSE top \in kSubset(FacetSize, buckets) :
                 \A b \in top, c \in buckets \ top : b.count >= c.count

\* histogramToMap: the days, and of each the facet of a field.
Histogram(docs, field) ==
    {[day |-> n, facet |-> Facet({d \in docs : d.date \div Day = n}, field)] : n \in {d.date \div Day : d \in docs}}

Counted(facet) == FoldSet(LAMBDA b, n : b.count + n, 0, facet)
=============================================================================
