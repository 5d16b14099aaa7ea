----------------------------- MODULE ReportList -----------------------------
(***************************************************************************)
(* The lists of the search and the reports page: what the user chooses,    *)
(* the requests under way, and what the answers, in whatever order they    *)
(* come, leave on the page.                                                *)
(***************************************************************************)
EXTENDS SearchIndex, Bags

CONSTANTS
    Selections,     \* [page -> what can be chosen there]: [product, version, gte, lt]
    All,            \* nothing chosen
    Rows,           \* 50: rowsPerPage
    MaxInputs       \* bound on what the user does and on the outages

ASSUME ListAssumption == Rows \in Nat \ {0} /\ MaxInputs \in Nat

VARIABLES
    view,       \* the page that is open
    list,       \* the component: [selection, page, total, rows, signatures]
    visited,    \* selections in the history of the browser
    requests,   \* bag of the requests sent: [kind, selection, page, first]
    answers,    \* bag of the answers on their way: [to, hits, facet]
    inputs,     \* what the user has done, and the outages
    noted       \* history variables: [failed, disturbed, counts]

listVars == <<list, visited, requests, answers, inputs, noted>>

-----------------------------------------------------------------------------
(* Requests. *)

ReportsOf(l)    == [kind |-> "reports", selection |-> l.selection, page |-> l.page, first |-> FALSE]
SignaturesOf(l) == [kind |-> "signatures", selection |-> l.selection, page |-> 1, first |-> FALSE]

Times(r, n) == [x \in {r} |-> n]

UnderWay == BagToSet(requests) \cup {a.to : a \in BagToSet(answers)}

IsReports(r) == r.kind = "reports"

\* What counts as undisturbed: one kind of report request under way, and the same index.
Noted(r, others) == [noted EXCEPT
    !.failed = FALSE, !.disturbed = \E o \in others : IsReports(o) /\ (@ \/ o # r)]

\* totalReportCount: what the products of the facet add up to.
TotalOf(docs, s) == Counted(Facet(Filtered(docs, s), "product"))

InitList ==
    /\ list \in [selection : Selections[view], page : {1}, total : {0}, rows : {<<>>}, signatures : {{}}]
    /\ view = "reports" => list.selection = All
    /\ visited = {list.selection} /\ answers = EmptyBag /\ inputs = 0
    /\ requests = IF view = "search" THEN Times(ReportsOf(list), 1) (+) Times(SignaturesOf(list), 1)
                  ELSE IF view = "reports" THEN Times([ReportsOf(list) EXCEPT !.first = TRUE], 1) ELSE EmptyBag
    /\ noted = [failed |-> FALSE, disturbed |-> FALSE, counts |-> {TotalOf(index, list.selection)}]

-----------------------------------------------------------------------------
(* The user. *)

Input == view \in {"search", "reports"} /\ inputs < MaxInputs /\ inputs' = inputs + 1 /\ UNCHANGED answers

\* The handlers and the watchers of the page that run after it send n requests for reports.
Show(l, n) ==
    /\ list' = l
    /\ requests' = requests (+) Times(ReportsOf(l), n)
                   (+) IF l.selection # list.selection THEN Times(SignaturesOf(l), 1) ELSE EmptyBag
    /\ noted' = [Noted(ReportsOf(l), UnderWay) EXCEPT
                    !.counts = IF l.selection # list.selection THEN {TotalOf(index, l.selection)} ELSE @]

\* searchChanged goes back to the first page, which the watcher of the pagination sees, too.
Select(s) ==
    /\ view = "search" /\ s # list.selection /\ Input
    /\ Show([list EXCEPT !.selection = s, !.page = 1], IF list.page # 1 THEN 2 ELSE 1)
    /\ visited' = visited \cup {s}

\* onVersionSelected, onProductSelected.
SelectOne(s) ==
    /\ view = "reports" /\ s # list.selection /\ Input
    /\ Show([list EXCEPT !.selection = s], 1)
    /\ UNCHANGED visited

\* window.onpopstate.
Back(s) ==
    /\ view = "search" /\ s # list.selection /\ Input
    /\ Show([list EXCEPT !.selection = s], 1)
    /\ UNCHANGED visited

Pages == (list.total + Rows - 1) \div Rows

\* The watcher of the pagination is deep: it sees the page.  A click, or the table that goes
\* back to its first page.
ChangePage(p) == p # list.page /\ Input /\ Show([list EXCEPT !.page = p], 1) /\ UNCHANGED visited

-----------------------------------------------------------------------------
(* The answers. *)

\* DoSearch on what the index holds by then.
Serve(r) ==
    /\ IsReports(r) /\ ~BeyondWindow(r.page, Rows)
    /\ UNCHANGED <<list, visited, inputs, noted>> /\ requests' = requests (-) Times(r, 1)
    /\ LET docs == Filtered(index, r.selection)
       IN  answers' = answers (+) Times([to |-> r, hits |-> Hits(docs, r.page, Rows), facet |-> Facet(docs, "product")], 1)

\* Nothing depends on the signatures: they are served and shown in one step.
ServeSignatures(r) ==
    /\ ~IsReports(r)
    /\ UNCHANGED <<visited, answers, inputs, noted>> /\ requests' = requests (-) Times(r, 1)
    /\ list' = [list EXCEPT !.signatures = Facet(Filtered(index, r.selection), "signature")]

\* loadInitialData loads the signatures after the reports.
AfterFirst(r) == IF r.first THEN Times(SignaturesOf(list), 1) ELSE EmptyBag

\* DoSearch panics, because of the page or of an outage: the page keeps what it shows.
Refuse(r) ==
    /\ IF IsReports(r) /\ BeyondWindow(r.page, Rows) THEN UNCHANGED inputs
       ELSE inputs < MaxInputs /\ inputs' = inputs + 1
    /\ requests' = (requests (-) Times(r, 1)) (+) AfterFirst(r)
    /\ noted' = [noted EXCEPT !.failed = @ \/ (IsReports(r) /\ r.selection = list.selection)]
    /\ UNCHANGED <<list, visited, answers>>

IsNoTotal(t) == t \in {}

IsAnyTotal(t) == t \in Nat

IsNewTotal(t) == t # list.total

\* The watcher of the pagination also sees its totalItems: a new total loads the reports of
\* what is chosen by now.
Deliver(a) ==
    /\ UNCHANGED <<visited, inputs>> /\ answers' = answers (-) Times(a, 1)
    /\ list' = [list EXCEPT !.rows = a.hits, !.total = Counted(a.facet)]
    /\ IF IsNewTotal(Counted(a.facet))
       THEN /\ requests' = requests (+) Times(ReportsOf(list), 1) (+) AfterFirst(a.to)
            /\ noted' = Noted(ReportsOf(list), BagToSet(requests) \cup {b.to : b \in BagToSet(answers')})
       ELSE requests' = requests (+) AfterFirst(a.to) /\ UNCHANGED noted

Choose == \/ \E s \in Selections["search"] : Select(s)
          \/ \E s \in Selections["reports"] : SelectOne(s)
          \/ \E s \in visited : Back(s)
          \/ \E p \in 1 .. Pages : ChangePage(p)

Answer == \/ \E a \in BagToSet(answers) : Deliver(a)
          \/ \E r \in BagToSet(requests) : Refuse(r) \/ ServeSignatures(r) \/ Serve(r)

\* The index grows below the page.
NoteArrival == noted' = [noted EXCEPT !.disturbed = TRUE, !.counts = @ \cup {TotalOf(index', list.selection)}]

-----------------------------------------------------------------------------
(* Properties. *)

Quiet == requests = EmptyBag /\ answers = EmptyBag

\* However the answers of overlapping requests come, the number of reports the page ends
\* with is one the index had for what is chosen: a stale answer changes the total, and the
\* watcher asks again.
QuietTotalIsCurrent == (view # "home" /\ Quiet /\ ~noted.failed) => list.total \in noted.counts

\* Requests that do not overlap with other ones, over an index that does not grow, leave
\* the chosen page of the reports that match, and the number of those with a product.
QuietListIsCurrent == (view # "home" /\ Quiet /\ ~noted.failed /\ ~noted.disturbed) =>
    LET s == list.selection
        docs == {d \in index : /\ \A f \in {"product", "version"} : s[f] = {} \/ d[f] \in s[f]
                               /\ s.gte # None => d.date >= Format(s.gte)
                               /\ s.lt # None => d.date < Format(s.lt)}
    IN  /\ ToSet(list.rows) = {d \in docs : Newer(d, docs) \div Rows = list.page - 1}
        /\ list.total = Cardinality({d \in docs : d.product # None})

\* Once the user stops the page comes to rest: answers do not ask for ever.
Settles == <>[]Quiet
=============================================================================
