------------------------- MODULE SearchPages_proofs -------------------------
(* What the lists of the search and the reports page end with, in whatever *)
(* order answers come, for any index, choices, page length and outages.    *)
EXTENDS SearchPages, Induction


-----------------------------------------------------------------------------
(* Bags. *)

IsBag(b) == \A e \in DOMAIN b : b[e] \in Nat /\ b[e] > 0

\* What was sent is under way with what was before.
LEMMA BagAndBag ==
  ASSUME NEW a, NEW b, IsBag(a), IsBag(b), NEW c, c = a (+) b
  PROVE  IsBag(c) /\ DOMAIN c = DOMAIN a \cup DOMAIN b
  <1>1. DOMAIN c = DOMAIN a \cup DOMAIN b
    BY DEF (+)
  <1>2. ASSUME NEW e \in DOMAIN c PROVE c[e] \in Nat /\ c[e] > 0
    <2>1. c[e] = (IF e \in DOMAIN a THEN a[e] ELSE 0) + (IF e \in DOMAIN b THEN b[e] ELSE 0)
      BY <1>1 DEF (+)
    <2> QED
      BY <1>1, <2>1 DEF IsBag
  <1> QED
    BY <1>1, <1>2 DEF IsBag

\* What was taken out leaves the others.
LEMMA BagRest ==
  ASSUME NEW a, IsBag(a), NEW r, NEW b, b = Times(r, 1), NEW c, c = a (-) b
  PROVE  IsBag(c) /\ (\A e \in DOMAIN c : e \in DOMAIN a) /\ \A e \in DOMAIN a : e # r => e \in DOMAIN c
  <1>2. DOMAIN b = {r} /\ b[r] = 1
    BY DEF Times
  <1>3. PICK left : left = [e \in DOMAIN a |-> IF e \in DOMAIN b THEN a[e] - b[e] ELSE a[e]]
    OBVIOUS
  <1>4. c = [e \in {d \in DOMAIN left : left[d] > 0} |-> left[e]]
    BY <1>3 DEF (-)
  <1>5. DOMAIN left = DOMAIN a /\ \A e \in DOMAIN a : left[e] \in Int /\ (e # r => left[e] = a[e])
    BY <1>2, <1>3 DEF IsBag
  <1>6. DOMAIN c = {d \in DOMAIN left : left[d] > 0} /\ \A e \in DOMAIN c : c[e] = left[e]
    BY <1>4
  <1> QED
    BY <1>5, <1>6 DEF IsBag

\* A request sent several times.
LEMMA TimesIsBag ==
  ASSUME NEW r, NEW n \in Nat \ {0}, NEW c, c = Times(r, n)
  PROVE  IsBag(c) /\ DOMAIN c = {r}
  BY DEF Times, IsBag

\* Nothing is under way.
LEMMA EmptyIsBag == ASSUME NEW c, c = EmptyBag PROVE IsBag(c) /\ DOMAIN c = {}
  BY DEF EmptyBag, SetToBag, IsBag
-----------------------------------------------------------------------------
(* What a search counts. *)

Having(docs, field, t)  == {d \in docs : d[field] = t}
TermsOf(docs, field)    == {d[field] : d \in docs} \ {None}
BucketsOf(docs, field)  == {[term |-> t, count |-> Cardinality(Having(docs, field, t))] : t \in TermsOf(docs, field)}
InBucket(docs, field, facet) == {d \in docs : \E b \in facet : b.term = d[field]}

\* A set has no more buckets than members.
LEMMA BucketsFinite ==
  ASSUME NEW docs, IsFiniteSet(docs), NEW field, NEW buckets, buckets = BucketsOf(docs, field)
  PROVE  /\ IsFiniteSet(buckets)
         /\ \A b \in buckets : /\ b.term # None /\ b.count = Cardinality(Having(docs, field, b.term))
                               /\ b.count \in Nat /\ b.count <= Cardinality(docs)
         /\ \A b, c \in buckets : b.term = c.term => b = c
         /\ \A d \in docs : d[field] # None => \E b \in buckets : b.term = d[field]
  <1> DEFINE Of(t) == [term |-> t, count |-> Cardinality(Having(docs, field, t))]
  <1>1. PICK kept : kept = {d \in docs : d[field] # None}
    OBVIOUS
  <1>2. IsFiniteSet(kept)
    BY <1>1, FS_Subset
  <1>3. PICK f : f = [d \in kept |-> Of(d[field])]
    OBVIOUS
  <1>4. buckets = {Of(t) : t \in TermsOf(docs, field)}
    BY DEF BucketsOf
  <1>5. \A t \in TermsOf(docs, field) : \E d \in kept : t = d[field]
    BY <1>1 DEF TermsOf
  <1>6. \A d \in kept : d[field] \in TermsOf(docs, field)
    BY <1>1 DEF TermsOf
  <1>7. f \in Surjection(kept, buckets)
    <2> HIDE DEF Of
    <2> QED
      BY <1>3, <1>4, <1>5, <1>6 DEF Surjection
  <1>8. IsFiniteSet(buckets)
    BY <1>2, <1>7, FS_Surjection
  <1>9. \A t : Having(docs, field, t) \in SUBSET docs
    BY DEF Having
  <1>10. \A t : Cardinality(Having(docs, field, t)) \in Nat /\ Cardinality(Having(docs, field, t)) <= Cardinality(docs)
    BY <1>9, FS_Subset, FS_CardinalityType
  <1>11. \A t : Of(t).term = t /\ Of(t).count = Cardinality(Having(docs, field, t))
    OBVIOUS
  <1>12. \A t \in TermsOf(docs, field) : t # None
    BY DEF TermsOf
  <1> HIDE DEF Of
  <1>13. \A b \in buckets : \E t \in TermsOf(docs, field) : b = Of(t)
    BY <1>4
  <1>14. \A b, c \in buckets : b.term = c.term => b = c
    BY <1>11, <1>13
  <1>15. \A d \in docs : d[field] # None => \E b \in buckets : b.term = d[field]
    BY <1>1, <1>4, <1>6, <1>11
  <1> QED
    BY <1>8, <1>10, <1>11, <1>12, <1>13, <1>14, <1>15

\* A facet has buckets only, and all of them if they fit.
LEMMA FacetIs ==
  ASSUME NEW docs, IsFiniteSet(docs), NEW field, NEW buckets, buckets = BucketsOf(docs, field)
  PROVE  /\ Facet(docs, field) \subseteq buckets
         /\ Cardinality(buckets) <= FacetSize => Facet(docs, field) = buckets
  <1>1. Facet(docs, field) = IF Cardinality(buckets) <= FacetSize THEN buckets
                             ELSE CHOOSE top \in kSubset(FacetSize, buckets) :
                                      \A b \in top, c \in buckets \ top : b.count >= c.count
    BY DEF Facet, BucketsOf, TermsOf, Having
  <1>2. FacetSize \in Nat
    BY IndexAssumption
  <1>3. IsFiniteSet(buckets) /\ \A b \in buckets : b.count \in Nat /\ b.count <= Cardinality(docs)
    BY BucketsFinite
  <1>4. ASSUME ~(Cardinality(buckets) <= FacetSize)
        PROVE  \E top \in kSubset(FacetSize, buckets) : \A b \in top, c \in buckets \ top : b.count >= c.count
    <2>1. PICK w : w = [b \in buckets |-> b.count]
      OBVIOUS
    <2>2. Cardinality(buckets) \in Nat /\ Cardinality(docs) \in Nat /\ FacetSize <= Cardinality(buckets)
      BY <1>2, <1>3, <1>4, FS_CardinalityType
    <2>3. \A b \in buckets : w[b] = b.count
      BY <2>1
    <2>4. \A b \in buckets : w[b] \in Nat /\ w[b] <= Cardinality(docs)
      BY <1>3, <2>3
    <2>5. HasTop(buckets, w, FacetSize)
      BY <1>2, <1>3, <2>2, <2>4, TopExists
    <2>6. PICK top \in SUBSET buckets : Cardinality(top) = FacetSize /\ \A b \in top, c \in buckets \ top : w[b] >= w[c]
      BY <2>5 DEF HasTop
    <2> QED
      BY <2>3, <2>6 DEF kSubset
  <1>5. ~(Cardinality(buckets) <= FacetSize) => Facet(docs, field) \in kSubset(FacetSize, buckets)
    BY <1>1, <1>4
  <1> QED
    BY <1>1, <1>5 DEF kSubset

\* What the sum of the counts of buckets goes through.
CountsOf(g, facet) == g = [s \in SUBSET facet |->
    IF s = {} THEN 0 ELSE (CHOOSE x \in s : TRUE).count + g[s \ {CHOOSE x \in s : TRUE}]]

\* What buckets add up to is the number of documents in them.
LEMMA CountedIs ==
  ASSUME NEW docs, IsFiniteSet(docs), NEW field, NEW facet, facet \subseteq BucketsOf(docs, field)
  PROVE  Counted(facet) = Cardinality(InBucket(docs, field, facet))
  <1>1. PICK buckets : buckets = BucketsOf(docs, field)
    OBVIOUS
  <1>2. facet \in SUBSET buckets /\ IsFiniteSet(facet)
    BY <1>1, BucketsFinite, FS_Subset
  <1>3. PICK w, part : w = [b \in facet |-> b.count] /\ part = [b \in facet |-> Having(docs, field, b.term)]
    OBVIOUS
  <1>4. PICK f : f = CHOOSE g : CountsOf(g, facet)
    OBVIOUS
  <1>5. Counted(facet) = f[facet]
    BY <1>4 DEF Counted, FoldSet, MapThenFoldSet, CountsOf
  <1>6. \A s \in SUBSET facet : s # {} => w[Some(s)] = (CHOOSE x \in s : TRUE).count
    BY <1>3, SomeIn DEF Some
  <1>7. \A g : Adds(g, w, SUBSET facet) <=> CountsOf(g, facet)
    BY <1>6 DEF Adds, Some, CountsOf
  <1>8. \E g : Adds(g, w, SUBSET facet)
    BY <1>2, AddsExists
  <1>9. Adds(f, w, SUBSET facet)
    BY <1>4, <1>7, <1>8, Zenon
  <1>10. \A b \in facet : /\ w[b] = Cardinality(part[b]) /\ part[b] \in SUBSET docs
                          /\ part[b] = Having(docs, field, b.term)
    BY <1>1, <1>2, <1>3, BucketsFinite DEF Having
  <1>11. \A b \in facet : IsFiniteSet(part[b])
    BY <1>10, FS_Subset
  <1>12. \A b, c \in facet : \A d : d \in part[b] /\ d \in part[c] => b = c
    BY <1>1, <1>2, <1>10, BucketsFinite DEF Having
  <1>13. PICK all : all = InBucket(docs, field, facet)
    OBVIOUS
  <1>14. IsFiniteSet(all) /\ f[facet] = Cardinality(all)
    <2>1. \A b \in facet : IsFiniteSet(part[b]) /\ w[b] = Cardinality(part[b])
      BY <1>10, <1>11
    <2>2. \A d : d \in all <=> \E b \in facet : d \in part[b]
      BY <1>10, <1>13 DEF InBucket, Having
    <2>3. Parts(facet, w, part, all)
      BY <1>12, <2>1, <2>2 DEF Parts
    <2> QED
      BY <1>2, <1>9, <2>3, AddsParts
  <1> QED
    BY <1>5, <1>13, <1>14

\* A facet counts no document twice, and every one with a value if its terms fit.
LEMMA CountedFacet ==
  ASSUME NEW docs, IsFiniteSet(docs), NEW field
  PROVE  /\ Counted(Facet(docs, field)) \in 0 .. Cardinality(docs)
         /\ Cardinality(BucketsOf(docs, field)) <= FacetSize =>
               Counted(Facet(docs, field)) = Cardinality({d \in docs : d[field] # None})
  <1>1. PICK buckets, facet, inside :
           buckets = BucketsOf(docs, field) /\ facet = Facet(docs, field) /\ inside = InBucket(docs, field, facet)
    OBVIOUS
  <1>2. facet \subseteq buckets /\ (Cardinality(buckets) <= FacetSize => facet = buckets)
    BY <1>1, FacetIs
  <1>3. Counted(facet) = Cardinality(inside)
    BY <1>1, <1>2, CountedIs
  <1>4. inside \in SUBSET docs
    BY <1>1 DEF InBucket
  <1>5. Cardinality(inside) \in Nat /\ Cardinality(docs) \in Nat /\ Cardinality(inside) <= Cardinality(docs)
    BY <1>4, FS_Subset, FS_CardinalityType
  <1>6. facet = buckets => inside = {d \in docs : d[field] # None}
    <2>1. /\ \A b \in buckets : b.term # None
          /\ \A d \in docs : d[field] # None => \E b \in buckets : b.term = d[field]
      BY <1>1, BucketsFinite
    <2> QED
      BY <1>1, <2>1 DEF InBucket
  <1> QED
    BY <1>1, <1>2, <1>3, <1>5, <1>6

\* A page is no longer than it was asked for.
LEMMA HitsFit ==
  ASSUME NEW docs, IsFiniteSet(docs), NEW page \in Nat \ {0}
  PROVE  Len(Hits(docs, page, Rows)) \in Nat /\ Len(Hits(docs, page, Rows)) <= Rows
  <1>1. PICK n, from, size, sorted :
           /\ n = Cardinality(docs) /\ from = From(page, Rows) /\ size = Size(Rows)
           /\ sorted = [i \in 1 .. n |-> CHOOSE d \in docs : Newer(d, docs) = i - 1]
    OBVIOUS
  <1>2. n \in Nat
    BY <1>1, FS_CardinalityType
  <1>3. Rows \in Nat /\ MaxSize \in Nat
    BY ListAssumption, IndexAssumption
  <1>4. size \in Nat /\ size <= Rows
    BY <1>1, <1>3 DEF Size
  <1>5. from \in Nat
    BY <1>1, <1>3 DEF From
  <1>6. PICK S : S = {sorted[i] : i \in 1 .. n}
    OBVIOUS
  <1>7. sorted \in [1 .. n -> S]
    BY <1>1, <1>6
  <1>8. sorted \in Seq(S) /\ Len(sorted) = n
    BY <1>2, <1>7
  <1>9. PICK last : last = IF from + size < n THEN from + size ELSE n
    OBVIOUS
  <1>10. Hits(docs, page, Rows) = SubSeq(sorted, from + 1, last)
    BY <1>1, <1>8, <1>9 DEF Hits
  <1>11. Len(SubSeq(sorted, from + 1, last)) = IF from + 1 <= last THEN last - from ELSE 0
    BY <1>2, <1>4, <1>5, <1>8, <1>9
  <1>12. last \in Nat /\ (from + 1 <= last => last - from <= size)
    BY <1>2, <1>4, <1>5, <1>9
  <1>13. Len(Hits(docs, page, Rows)) = IF from + 1 <= last THEN last - from ELSE 0
    BY <1>10, <1>11
  <1> QED
    BY <1>3, <1>4, <1>5, <1>12, <1>13

-----------------------------------------------------------------------------
(* What the steps do to what is under way. *)

IsList(l)  == l \in [selection : {l.selection}, page : {l.page}, total : {l.total},
                     rows : {l.rows}, signatures : {l.signatures}]
IsNoted(n) == n \in [failed : {n.failed}, disturbed : {n.disturbed}, counts : {n.counts}]

Flight == IsList(list) /\ IsNoted(noted) /\ IsBag(requests) /\ IsBag(answers)

\* Another request for reports is under way, or there was one before.
Disturbs(r, others) == \E o \in others : IsReports(o) /\ (noted.disturbed \/ o # r)

\* What is noted of a request.
LEMMA NotedIs ==
  ASSUME IsNoted(noted), NEW r, NEW others, NEW n, n = Noted(r, others)
  PROVE  IsNoted(n) /\ n.counts = noted.counts /\ n.failed = FALSE /\ n.disturbed = Disturbs(r, others)
  <1> DEFINE disturbed == Disturbs(r, others)
  <1>1. n = [noted EXCEPT !.failed = FALSE, !.disturbed = disturbed]
    BY DEF Noted, Disturbs
  <1> HIDE DEF disturbed
  <1>2. n.failed = FALSE /\ n.disturbed = disturbed /\ n.counts = noted.counts
    BY <1>1 DEF IsNoted
  <1>3. n \in [failed : {FALSE}, disturbed : {disturbed}, counts : {noted.counts}]
    BY <1>1 DEF IsNoted
  <1>4. n.disturbed = Disturbs(r, others)
    BY <1>2 DEF disturbed
  <1> QED
    BY <1>2, <1>3, <1>4 DEF IsNoted

\* A request for reports asks for what is chosen.
LEMMA AsksForChosen ==
  ASSUME NEW l, NEW r, r = ReportsOf(l) \/ r = [ReportsOf(l) EXCEPT !.first = TRUE]
  PROVE  IsReports(r) /\ r.selection = l.selection /\ r.page = l.page
  BY DEF ReportsOf, IsReports

\* A request for signatures is none for reports.
LEMMA AsksForSignatures == ASSUME NEW l PROVE ~IsReports(SignaturesOf(l)) /\ SignaturesOf(l).selection = l.selection
  BY DEF SignaturesOf, IsReports

\* The signatures of what is chosen are asked for, or nothing is.
LEMMA MoreIsBag ==
  ASSUME NEW l, NEW wanted \in BOOLEAN, NEW c, c = IF wanted THEN Times(SignaturesOf(l), 1) ELSE EmptyBag
  PROVE  IsBag(c) /\ \A e \in DOMAIN c : e = SignaturesOf(l)
  <1>1. PICK sg : sg = SignaturesOf(l)
    OBVIOUS
  <1>2. CASE wanted
    <2>1. c = Times(sg, 1)
      BY <1>1, <1>2
    <2>2. IsBag(c) /\ DOMAIN c = {sg}
      BY <2>1, TimesIsBag, 1 \in Nat \ {0}, Zenon
    <2> QED
      BY <1>1, <2>2
  <1>3. CASE ~wanted
    <2>1. c = EmptyBag
      BY <1>3
    <2>2. IsBag(c) /\ DOMAIN c = {}
      BY <2>1, EmptyIsBag, Zenon
    <2> QED
      BY <2>2
  <1> QED
    BY <1>2, <1>3

\* The page shows something else, and asks for it.
LEMMA ShowFlight ==
  ASSUME Flight, NEW l, IsList(l), NEW n \in Nat \ {0}, Show(l, n), UNCHANGED answers
  PROVE  /\ Flight' /\ list' = l
         /\ noted'.counts = IF l.selection # list.selection THEN {TotalOf(index, l.selection)} ELSE noted.counts
         /\ noted'.failed = FALSE /\ noted'.disturbed = Disturbs(ReportsOf(l), UnderWay)
         /\ ReportsOf(l) \in DOMAIN requests'
         /\ \A e \in DOMAIN requests' : e \in DOMAIN requests \/ e = ReportsOf(l) \/ e = SignaturesOf(l)
  <1>1. IsList(list) /\ IsNoted(noted) /\ IsBag(requests) /\ IsBag(answers)
    BY DEF Flight
  <1>2. PICK r, times, sent, more :
           /\ r = ReportsOf(l) /\ times = Times(r, n) /\ sent = requests (+) times
           /\ more = IF l.selection # list.selection THEN Times(SignaturesOf(l), 1) ELSE EmptyBag
    OBVIOUS
  <1>3. IsBag(times) /\ DOMAIN times = {r}
    BY <1>2, TimesIsBag
  <1>4. IsBag(more) /\ \A e \in DOMAIN more : e = SignaturesOf(l)
    <2>1. PICK wanted \in BOOLEAN : wanted = (l.selection # list.selection)
      OBVIOUS
    <2>2. more = IF wanted THEN Times(SignaturesOf(l), 1) ELSE EmptyBag
      BY <1>2, <2>1
    <2> QED
      BY <2>2, MoreIsBag, Zenon
  <1>5. IsBag(sent) /\ DOMAIN sent = DOMAIN requests \cup DOMAIN times
    BY <1>1, <1>2, <1>3, BagAndBag, Zenon
  <1>6. requests' = sent (+) more
    BY <1>2 DEF Show
  <1>7. IsBag(requests') /\ DOMAIN requests' = DOMAIN sent \cup DOMAIN more
    BY <1>4, <1>5, <1>6, BagAndBag, Zenon
  <1>8. list' = l
    BY DEF Show
  <1>9. PICK m : m = Noted(r, UnderWay)
    OBVIOUS
  <1>10. IsNoted(m) /\ m.counts = noted.counts /\ m.failed = FALSE /\ m.disturbed = Disturbs(r, UnderWay)
    BY <1>1, <1>9, NotedIs, Zenon
  <1>11. PICK counts : counts = IF l.selection # list.selection THEN {TotalOf(index, l.selection)} ELSE noted.counts
    OBVIOUS
  <1>12. noted' = [m EXCEPT !.counts = counts]
    BY <1>2, <1>9, <1>10, <1>11 DEF Show
  <1>13. noted'.counts = counts /\ IsNoted(noted') /\ noted'.failed = m.failed /\ noted'.disturbed = m.disturbed
    BY <1>10, <1>12 DEF IsNoted
  <1>14. IsList(list') /\ IsBag(answers')
    BY <1>1, <1>8
  <1>15. Flight'
    BY <1>7, <1>13, <1>14, Zenon DEF Flight
  <1> QED
    BY <1>2, <1>3, <1>4, <1>5, <1>7, <1>8, <1>10, <1>11, <1>13, <1>15

\* Whatever the user chooses is shown: another selection or another page.
LEMMA ChooseShows ==
  ASSUME Choose, IsList(list)
  PROVE  \E l, n : /\ n \in Nat \ {0} /\ IsList(l) /\ Show(l, n) /\ UNCHANGED answers
                   /\ l.total = list.total /\ l.rows = list.rows
                   /\ l.page = list.page \/ l.page \in 1 .. Pages \/ l.page = 1
                   /\ view \in {"search", "reports"} /\ inputs < MaxInputs /\ inputs' = inputs + 1
                   /\ visited \subseteq visited'
                   /\ view = "reports" \/ l.selection \in visited' \/ l.selection = list.selection
  <1>1. ASSUME NEW s, NEW l, l = [list EXCEPT !.selection = s, !.page = 1] \/ l = [list EXCEPT !.selection = s]
        PROVE  /\ IsList(l) /\ l.total = list.total /\ l.rows = list.rows /\ l.selection = s
               /\ l.page = list.page \/ l.page = 1
    BY <1>1 DEF IsList
  <1>2. ASSUME NEW p, NEW l, l = [list EXCEPT !.page = p]
        PROVE  IsList(l) /\ l.total = list.total /\ l.rows = list.rows /\ l.selection = list.selection /\ l.page = p
    BY <1>2 DEF IsList
  <1> DEFINE Shows(l, n) ==
        /\ n \in Nat \ {0} /\ IsList(l) /\ Show(l, n) /\ UNCHANGED answers
        /\ l.total = list.total /\ l.rows = list.rows
        /\ l.page = list.page \/ l.page \in 1 .. Pages \/ l.page = 1
        /\ view \in {"search", "reports"} /\ inputs < MaxInputs /\ inputs' = inputs + 1
        /\ visited \subseteq visited'
        /\ view = "reports" \/ l.selection \in visited' \/ l.selection = list.selection
  <1>3. ASSUME NEW s, Select(s) PROVE \E l, n : Shows(l, n)
    <2>1. PICK l : l = [list EXCEPT !.selection = s, !.page = 1]
      OBVIOUS
    <2>2. PICK n \in Nat \ {0} : Show(l, n)
      BY <1>3, <2>1 DEF Select
    <2>3. visited' = visited \cup {s} /\ Input
      BY <1>3 DEF Select
    <2>4. Shows(l, n)
      <3>1. IsList(l) /\ l.total = list.total /\ l.rows = list.rows /\ l.selection = s /\ (l.page = list.page \/ l.page = 1)
        BY <1>1, <2>1, Zenon
      <3>2. UNCHANGED answers /\ view \in {"search", "reports"} /\ inputs < MaxInputs /\ inputs' = inputs + 1
        BY <2>3 DEF Input
      <3>3. visited \subseteq visited' /\ (view = "reports" \/ l.selection \in visited' \/ l.selection = list.selection)
        BY <2>2, <2>3, <3>1
      <3> QED
        BY <2>2, <2>3, <3>1, <3>2, <3>3, Zenon
    <2> QED
      BY <2>4
  <1>4. ASSUME NEW s \in visited \cup Selections["reports"], SelectOne(s) \/ (s \in visited /\ Back(s))
        PROVE  \E l, n : Shows(l, n)
    <2>1. PICK l : l = [list EXCEPT !.selection = s]
      OBVIOUS
    <2>2. Show(l, 1) /\ Input /\ visited' = visited /\ (view = "reports" \/ s \in visited)
      BY <1>4, <2>1 DEF SelectOne, Back
    <2>3. Shows(l, 1)
      <3>1. IsList(l) /\ l.total = list.total /\ l.rows = list.rows /\ l.selection = s /\ (l.page = list.page \/ l.page = 1)
        BY <1>1, <2>1, Zenon
      <3>2. UNCHANGED answers /\ view \in {"search", "reports"} /\ inputs < MaxInputs /\ inputs' = inputs + 1
        BY <2>2 DEF Input
      <3>3. visited \subseteq visited' /\ (view = "reports" \/ l.selection \in visited' \/ l.selection = list.selection)
        BY <2>2, 1 \in Nat \ {0}, <3>1
      <3> QED
        BY <2>2, 1 \in Nat \ {0}, <3>1, <3>2, <3>3, Zenon
    <2> QED
      BY <2>3
  <1>5. ASSUME NEW p \in 1 .. Pages, ChangePage(p) PROVE \E l, n : Shows(l, n)
    <2>1. PICK l : l = [list EXCEPT !.page = p]
      OBVIOUS
    <2>2. Show(l, 1) /\ Input /\ visited' = visited
      BY <1>5, <2>1 DEF ChangePage
    <2>3. Shows(l, 1)
      <3>1. IsList(l) /\ l.total = list.total /\ l.rows = list.rows /\ l.selection = list.selection /\ l.page \in 1 .. Pages
        BY <1>2, <2>1, Zenon
      <3>2. UNCHANGED answers /\ view \in {"search", "reports"} /\ inputs < MaxInputs /\ inputs' = inputs + 1
        BY <2>2 DEF Input
      <3>3. visited \subseteq visited' /\ (view = "reports" \/ l.selection \in visited' \/ l.selection = list.selection)
        BY <2>2, 1 \in Nat \ {0}, <3>1
      <3> QED
        BY <2>2, 1 \in Nat \ {0}, <3>1, <3>2, <3>3, Zenon
    <2> QED
      BY <2>3
  <1> HIDE DEF Shows
  <1>6. \E l, n : Shows(l, n)
    BY <1>3, <1>4, <1>5 DEF Choose
  <1> QED
    BY <1>6 DEF Shows

\* The answer to a request: what the index has for it by now.
AnswerTo(r) == LET docs == Filtered(index, r.selection)
               IN  [to |-> r, hits |-> Hits(docs, r.page, Rows), facet |-> Facet(docs, "product")]

\* A request for reports is answered.
LEMMA ServeFlight ==
  ASSUME Flight, NEW r \in DOMAIN requests, Serve(r)
  PROVE  /\ Flight' /\ UNCHANGED <<list, noted, visited, inputs>> /\ IsReports(r)
         /\ \A e \in DOMAIN requests' : e \in DOMAIN requests
         /\ \A e \in DOMAIN requests : e # r => e \in DOMAIN requests'
         /\ DOMAIN answers' = DOMAIN answers \cup {AnswerTo(r)}
  <1>1. IsList(list) /\ IsNoted(noted) /\ IsBag(requests) /\ IsBag(answers)
    BY DEF Flight
  <1>2. PICK taken, a, sent : taken = Times(r, 1) /\ a = AnswerTo(r) /\ sent = Times(a, 1)
    OBVIOUS
  <1>3. /\ requests' = requests (-) taken /\ UNCHANGED <<list, noted, visited, inputs>>
        /\ IsReports(r) /\ answers' = answers (+) sent
    BY <1>2 DEF Serve, AnswerTo
  <1>4. /\ IsBag(requests') /\ (\A e \in DOMAIN requests' : e \in DOMAIN requests)
        /\ \A e \in DOMAIN requests : e # r => e \in DOMAIN requests'
    BY <1>1, <1>2, <1>3, BagRest, Zenon
  <1>5. IsBag(sent) /\ DOMAIN sent = {a}
    BY <1>2, TimesIsBag, 1 \in Nat \ {0}, Zenon
  <1>6. IsBag(answers') /\ DOMAIN answers' = DOMAIN answers \cup DOMAIN sent
    BY <1>1, <1>3, <1>5, BagAndBag, Zenon
  <1>7. IsList(list') /\ IsNoted(noted')
    BY <1>1, <1>3
  <1>8. Flight'
    BY <1>4, <1>6, <1>7, Zenon DEF Flight
  <1> QED
    BY <1>2, <1>3, <1>4, <1>5, <1>6, <1>8

\* A request for signatures is answered.
LEMMA SignaturesFlight ==
  ASSUME Flight, NEW r \in DOMAIN requests, ServeSignatures(r)
  PROVE  /\ Flight' /\ UNCHANGED <<answers, noted, visited, inputs>> /\ ~IsReports(r)
         /\ list'.selection = list.selection /\ list'.page = list.page /\ list'.total = list.total
         /\ list'.rows = list.rows
         /\ \A e \in DOMAIN requests' : e \in DOMAIN requests
         /\ \A e \in DOMAIN requests : e # r => e \in DOMAIN requests'
  <1>1. IsList(list) /\ IsNoted(noted) /\ IsBag(requests) /\ IsBag(answers)
    BY DEF Flight
  <1>2. PICK taken : taken = Times(r, 1)
    OBVIOUS
  <1>3. requests' = requests (-) taken /\ UNCHANGED <<answers, noted, visited, inputs>> /\ ~IsReports(r)
    BY <1>2 DEF ServeSignatures
  <1>4. /\ IsBag(requests') /\ (\A e \in DOMAIN requests' : e \in DOMAIN requests)
        /\ \A e \in DOMAIN requests : e # r => e \in DOMAIN requests'
    BY <1>1, <1>2, <1>3, BagRest, Zenon
  <1>5. PICK signatures : list' = [list EXCEPT !.signatures = signatures]
    BY DEF ServeSignatures
  <1>6. /\ IsList(list') /\ list'.selection = list.selection /\ list'.page = list.page
        /\ list'.total = list.total /\ list'.rows = list.rows
    BY <1>1, <1>5 DEF IsList
  <1>7. IsBag(answers') /\ IsNoted(noted')
    BY <1>1, <1>3
  <1>8. Flight'
    BY <1>4, <1>6, <1>7, Zenon DEF Flight
  <1> QED
    BY <1>3, <1>4, <1>6, <1>8

\* What is sent after the first answer.
LEMMA AfterFirstIsBag ==
  ASSUME NEW r, NEW c, c = AfterFirst(r) PROVE IsBag(c) /\ \A e \in DOMAIN c : e = SignaturesOf(list)
  <1>1. PICK sg : sg = SignaturesOf(list)
    OBVIOUS
  <1>2. c = Times(sg, 1) \/ c = EmptyBag
    BY <1>1 DEF AfterFirst
  <1>3. c = Times(sg, 1) => IsBag(c) /\ DOMAIN c = {sg}
    BY TimesIsBag, 1 \in Nat \ {0}, Zenon
  <1>4. c = EmptyBag => IsBag(c) /\ DOMAIN c = {}
    BY EmptyIsBag, Zenon
  <1> QED
    BY <1>1, <1>2, <1>3, <1>4

\* A request fails.
LEMMA RefuseFlight ==
  ASSUME Flight, NEW r \in DOMAIN requests, Refuse(r)
  PROVE  /\ Flight' /\ UNCHANGED <<list, answers, visited>>
         /\ inputs' = inputs \/ (inputs < MaxInputs /\ inputs' = inputs + 1)
         /\ noted'.counts = noted.counts /\ noted'.disturbed = noted.disturbed
         /\ noted.failed => noted'.failed
         /\ IsReports(r) /\ r.selection = list.selection => noted'.failed
         /\ \A e \in DOMAIN requests' : e \in DOMAIN requests \/ e = SignaturesOf(list)
         /\ \A e \in DOMAIN requests : e # r => e \in DOMAIN requests'
  <1>1. IsList(list) /\ IsNoted(noted) /\ IsBag(requests) /\ IsBag(answers)
    BY DEF Flight
  <1>2. PICK taken, left, more : taken = Times(r, 1) /\ left = requests (-) taken /\ more = AfterFirst(r)
    OBVIOUS
  <1>3. /\ requests' = left (+) more /\ UNCHANGED <<list, answers, visited>>
        /\ inputs' = inputs \/ (inputs < MaxInputs /\ inputs' = inputs + 1)
    BY <1>2 DEF Refuse
  <1>4. /\ IsBag(left) /\ (\A e \in DOMAIN left : e \in DOMAIN requests)
        /\ \A e \in DOMAIN requests : e # r => e \in DOMAIN left
    BY <1>1, <1>2, BagRest, Zenon
  <1>5. IsBag(more) /\ \A e \in DOMAIN more : e = SignaturesOf(list)
    BY <1>2, AfterFirstIsBag, Zenon
  <1>6. IsBag(requests') /\ DOMAIN requests' = DOMAIN left \cup DOMAIN more
    BY <1>3, <1>4, <1>5, BagAndBag, Zenon
  <1> DEFINE failed == noted.failed \/ (IsReports(r) /\ r.selection = list.selection)
  <1>7. noted' = [noted EXCEPT !.failed = failed]
    BY DEF Refuse
  <1> HIDE DEF failed
  <1>8. /\ IsNoted(noted') /\ noted'.counts = noted.counts /\ noted'.disturbed = noted.disturbed
        /\ noted'.failed = failed
    BY <1>1, <1>7 DEF IsNoted
  <1>9. (noted.failed => noted'.failed) /\ (IsReports(r) /\ r.selection = list.selection => noted'.failed)
    BY <1>8, Zenon DEF failed
  <1>10. IsList(list') /\ IsBag(answers')
    BY <1>1, <1>3
  <1>11. Flight'
    BY <1>6, <1>8, <1>10, Zenon DEF Flight
  <1> QED
    BY <1>3, <1>4, <1>5, <1>6, <1>8, <1>9, <1>11

\* An answer is shown, and asks again when its total is a new one.
LEMMA DeliverFlight ==
  ASSUME Flight, NEW a \in DOMAIN answers, Deliver(a)
  PROVE  /\ Flight' /\ UNCHANGED <<visited, inputs>>
         /\ list'.selection = list.selection /\ list'.page = list.page
         /\ list'.total = Counted(a.facet) /\ list'.rows = a.hits
         /\ noted'.counts = noted.counts
         /\ \A e \in DOMAIN answers' : e \in DOMAIN answers
         /\ \A e \in DOMAIN answers : e # a => e \in DOMAIN answers'
         /\ \A e \in DOMAIN requests : e \in DOMAIN requests'
         /\ \A e \in DOMAIN requests' : e \in DOMAIN requests \/ e = ReportsOf(list) \/ e = SignaturesOf(list)
         /\ IF Counted(a.facet) = list.total THEN noted' = noted
            ELSE /\ ReportsOf(list) \in DOMAIN requests' /\ noted'.failed = FALSE
                 /\ noted'.disturbed = Disturbs(ReportsOf(list), DOMAIN requests \cup {b.to : b \in DOMAIN answers'})
  <1>1. IsBag(requests) /\ IsBag(answers) /\ IsList(list) /\ IsNoted(noted)
    BY DEF Flight
  <1>2. PICK r, taken, times, sent, more, total :
           /\ r = ReportsOf(list) /\ taken = Times(a, 1) /\ times = Times(r, 1) /\ sent = requests (+) times
           /\ more = AfterFirst(a.to) /\ total = Counted(a.facet)
    OBVIOUS
  <1>3. answers' = answers (-) taken /\ UNCHANGED <<visited, inputs>>
    BY <1>2 DEF Deliver
  <1>4. /\ IsBag(answers') /\ (\A e \in DOMAIN answers' : e \in DOMAIN answers)
        /\ \A e \in DOMAIN answers : e # a => e \in DOMAIN answers'
    BY <1>1, <1>2, <1>3, BagRest, Zenon
  <1>5. list' = [list EXCEPT !.rows = a.hits, !.total = total]
    BY <1>2 DEF Deliver
  <1>6. /\ IsList(list') /\ list'.selection = list.selection /\ list'.page = list.page
        /\ list'.total = total /\ list'.rows = a.hits
    BY <1>1, <1>5 DEF IsList
  <1>7. IsBag(more) /\ \A e \in DOMAIN more : e = SignaturesOf(list)
    BY <1>2, AfterFirstIsBag, Zenon
  <1>8. CASE total # list.total
    <2>1. PICK others : others = DOMAIN requests \cup {b.to : b \in DOMAIN answers'}
      OBVIOUS
    <2>2. others = BagToSet(requests) \cup {b.to : b \in BagToSet(answers')}
      BY <2>1 DEF BagToSet
    <2>3. requests' = sent (+) more /\ noted' = Noted(r, others)
      BY <1>2, <1>8, <2>2 DEF Deliver, IsNewTotal
    <2>4. IsBag(times) /\ DOMAIN times = {r}
      BY <1>2, TimesIsBag, 1 \in Nat \ {0}, Zenon
    <2>5. IsBag(sent) /\ DOMAIN sent = DOMAIN requests \cup DOMAIN times
      BY <1>1, <1>2, <2>4, BagAndBag, Zenon
    <2>6. IsBag(requests') /\ DOMAIN requests' = DOMAIN sent \cup DOMAIN more
      BY <1>7, <2>3, <2>5, BagAndBag, Zenon
    <2>7. /\ IsNoted(noted') /\ noted'.counts = noted.counts /\ noted'.failed = FALSE
          /\ noted'.disturbed = Disturbs(r, others)
      BY <1>1, <2>3, NotedIs, Zenon
    <2>8. Flight'
      BY <1>4, <1>6, <2>6, <2>7, Zenon DEF Flight
    <2>9. \A e \in DOMAIN requests' : e \in DOMAIN requests \/ e = r \/ e = SignaturesOf(list)
      BY <1>7, <2>4, <2>5, <2>6
    <2>10. r \in DOMAIN requests' /\ \A e \in DOMAIN requests : e \in DOMAIN requests'
      BY <2>4, <2>5, <2>6
    <2>11. noted'.disturbed = Disturbs(ReportsOf(list), DOMAIN requests \cup {b.to : b \in DOMAIN answers'})
      BY <1>2, <2>1, <2>7
    <2> QED
      BY <1>2, <1>3, <1>4, <1>6, <1>8, <2>7, <2>8, <2>9, <2>10, <2>11
  <1>9. CASE total = list.total
    <2>1. requests' = requests (+) more /\ UNCHANGED noted
      BY <1>2, <1>9 DEF Deliver, IsNewTotal
    <2>2. IsBag(requests') /\ DOMAIN requests' = DOMAIN requests \cup DOMAIN more
      BY <1>1, <1>7, <2>1, BagAndBag, Zenon
    <2>3. IsNoted(noted')
      BY <1>1, <2>1
    <2>4. Flight'
      BY <1>4, <1>6, <2>2, <2>3, Zenon DEF Flight
    <2> QED
      BY <1>2, <1>3, <1>4, <1>6, <1>7, <1>9, <2>1, <2>2, <2>4
  <1> QED
    BY <1>8, <1>9

\* A crash that arrives disturbs the lists, and adds a total to those that the index had.
LEMMA GrowFlight ==
  ASSUME Flight, NoteArrival, UNCHANGED <<list, requests, answers>>
  PROVE  /\ Flight' /\ noted'.failed = noted.failed /\ noted'.disturbed = TRUE
         /\ noted'.counts = noted.counts \cup {TotalOf(index', list.selection)}
  <1>1. IsBag(requests) /\ IsBag(answers) /\ IsList(list) /\ IsNoted(noted)
    BY DEF Flight
  <1>2. PICK total : total = TotalOf(index', list.selection)
    OBVIOUS
  <1>3. noted' = [noted EXCEPT !.disturbed = TRUE, !.counts = @ \cup {total}]
    BY <1>2 DEF NoteArrival
  <1>4. /\ IsNoted(noted') /\ noted'.counts = noted.counts \cup {total}
        /\ noted'.failed = noted.failed /\ noted'.disturbed = TRUE
    BY <1>1, <1>3 DEF IsNoted
  <1>5. IsList(list') /\ IsBag(requests') /\ IsBag(answers')
    BY <1>1
  <1>6. Flight'
    BY <1>4, <1>5, Zenon DEF Flight
  <1> QED
    BY <1>2, <1>4, <1>6

\* The other steps leave it alone.
LEMMA SameFlight == ASSUME Flight, UNCHANGED <<list, requests, answers, noted>> PROVE Flight'
  <1>1. IsBag(requests) /\ IsBag(answers) /\ IsList(list) /\ IsNoted(noted)
    BY DEF Flight
  <1>2. IsBag(requests') /\ IsBag(answers') /\ IsList(list') /\ IsNoted(noted')
    BY <1>1
  <1> QED
    BY <1>2, Zenon DEF Flight

\* A page that opens has asked for what it starts with, and has shown nothing yet.
LEMMA InitFlight ==
  ASSUME Init
  PROVE  /\ Flight /\ view \in {"search", "reports", "home"} /\ inputs = 0
         /\ list.page = 1 /\ list.total = 0 /\ list.rows = <<>> /\ visited = {list.selection}
         /\ noted.counts = {TotalOf(index, list.selection)} /\ noted.disturbed = FALSE /\ noted.failed = FALSE
         /\ DOMAIN answers = {}
         /\ \A r \in DOMAIN requests : r.selection = list.selection /\ (IsReports(r) => r.page = list.page)
         /\ view # "home" => \E r \in DOMAIN requests : IsReports(r)
  <1>1. view \in {"search", "reports", "home"} /\ InitList
    BY DEF Init
  <1>2. /\ IsList(list) /\ list.page = 1 /\ list.total = 0 /\ list.rows = <<>>
        /\ visited = {list.selection} /\ inputs = 0
    BY <1>1 DEF InitList, IsList
  <1>3. PICK total, r, f, sg, one, two, first, both :
           /\ total = TotalOf(index, list.selection)
           /\ r = ReportsOf(list) /\ f = [ReportsOf(list) EXCEPT !.first = TRUE] /\ sg = SignaturesOf(list)
           /\ one = Times(r, 1) /\ two = Times(sg, 1) /\ first = Times(f, 1) /\ both = one (+) two
    OBVIOUS
  <1>4. noted = [failed |-> FALSE, disturbed |-> FALSE, counts |-> {total}]
    BY <1>1, <1>3 DEF InitList
  <1>5. IsNoted(noted) /\ noted.counts = {total} /\ noted.disturbed = FALSE /\ noted.failed = FALSE
    BY <1>4 DEF IsNoted
  <1>6. IsBag(answers) /\ DOMAIN answers = {}
    BY <1>1, EmptyIsBag, Zenon DEF InitList
  <1>7. IsBag(one) /\ DOMAIN one = {r}
    BY <1>3, TimesIsBag, 1 \in Nat \ {0}, Zenon
  <1>8. IsBag(two) /\ DOMAIN two = {sg}
    BY <1>3, TimesIsBag, 1 \in Nat \ {0}, Zenon
  <1>9. IsBag(first) /\ DOMAIN first = {f}
    BY <1>3, TimesIsBag, 1 \in Nat \ {0}, Zenon
  <1>10. IsBag(both) /\ DOMAIN both = DOMAIN one \cup DOMAIN two
    BY <1>3, <1>7, <1>8, BagAndBag, Zenon
  <1>11. /\ \A q \in {r, f} : IsReports(q) /\ q.selection = list.selection /\ q.page = list.page
         /\ ~IsReports(sg) /\ sg.selection = list.selection
    BY <1>3, AsksForChosen, AsksForSignatures
  <1>12. requests = IF view = "search" THEN both ELSE IF view = "reports" THEN first ELSE EmptyBag
    BY <1>1, <1>3 DEF InitList
  <1> DEFINE Opened ==
        /\ IsBag(requests)
        /\ \A q \in DOMAIN requests : q.selection = list.selection /\ (IsReports(q) => q.page = list.page)
        /\ view # "home" => \E q \in DOMAIN requests : IsReports(q)
  <1>13. CASE view = "search"
    <2>1. requests = both
      BY <1>12, <1>13
    <2>2. DOMAIN requests = {r, sg} /\ IsBag(requests)
      BY <1>7, <1>8, <1>10, <2>1
    <2>3. Opened
      BY <1>11, <2>2
    <2> QED
      BY <1>1, <1>2, <1>3, <1>5, <1>6, <2>3 DEF Flight
  <1>14. CASE view = "reports"
    <2>1. requests = first
      BY <1>12, <1>14
    <2>2. DOMAIN requests = {f} /\ IsBag(requests)
      BY <1>9, <2>1
    <2>3. Opened
      BY <1>11, <2>2
    <2> QED
      BY <1>1, <1>2, <1>3, <1>5, <1>6, <2>3 DEF Flight
  <1>15. CASE view = "home"
    <2>1. requests = EmptyBag
      BY <1>12, <1>15
    <2>2. IsBag(requests) /\ DOMAIN requests = {}
      BY <2>1, EmptyIsBag, Zenon
    <2>3. Opened
      BY <1>15, <2>2
    <2> QED
      BY <1>1, <1>2, <1>3, <1>5, <1>6, <2>3 DEF Flight
  <1> QED
    BY <1>1, <1>13, <1>14, <1>15

-----------------------------------------------------------------------------
(* The number of reports.  A request for the reports of what is chosen is under way, or an *)
(* answer with a total that the index had for it, or it is shown.                          *)

Asked == \E r \in DOMAIN requests : IsReports(r) /\ r.selection = list.selection
Told  == \E a \in DOMAIN answers : Counted(a.facet) \in noted.counts

TotalInv ==
    view # "home" => /\ TotalOf(index, list.selection) \in noted.counts
                     /\ noted.failed \/ list.total \in noted.counts \/ Asked \/ Told

\* Whatever the user chooses is asked for.
LEMMA ChooseTotal == ASSUME Flight, TotalInv, Choose, UNCHANGED <<index, view>> PROVE TotalInv'
  <1>1. PICK l, n : n \in Nat \ {0} /\ IsList(l) /\ Show(l, n) /\ UNCHANGED answers
    BY ChooseShows DEF Flight
  <1>2. /\ list' = l /\ ReportsOf(l) \in DOMAIN requests'
        /\ noted'.counts = IF l.selection # list.selection THEN {TotalOf(index, l.selection)} ELSE noted.counts
    BY <1>1, ShowFlight, Zenon
  <1>3. Asked'
    BY <1>2, AsksForChosen DEF Asked, IsReports
  <1>4. view # "home" => TotalOf(index, l.selection) \in noted'.counts
    BY <1>2 DEF TotalInv
  <1> QED
    BY <1>2, <1>3, <1>4 DEF TotalInv

\* The answer to a request for what is chosen has the total of the index.
LEMMA ServeTotal ==
  ASSUME Flight, TotalInv, NEW r \in DOMAIN requests, Serve(r), UNCHANGED <<index, view>> PROVE TotalInv'
  <1>1. PICK a : a = AnswerTo(r)
    OBVIOUS
  <1>2. /\ UNCHANGED <<list, noted>> /\ (\A e \in DOMAIN requests : e # r => e \in DOMAIN requests')
        /\ DOMAIN answers' = DOMAIN answers \cup {a}
    BY <1>1, ServeFlight
  <1>3. Told => Told'
    BY <1>2 DEF Told
  <1>4. ASSUME Asked, view # "home" PROVE Asked' \/ Told'
    <2>1. PICK q \in DOMAIN requests : IsReports(q) /\ q.selection = list.selection
      BY <1>4 DEF Asked
    <2>2. CASE q # r
      BY <1>2, <2>1, <2>2 DEF Asked, IsReports
    <2>3. CASE q = r
      <3>1. Counted(a.facet) = TotalOf(index, list.selection)
        BY <1>1, <2>1, <2>3 DEF TotalOf, AnswerTo
      <3>2. Counted(a.facet) \in noted.counts
        BY <1>4, <3>1 DEF TotalInv
      <3> QED
        BY <1>2, <3>2 DEF Told
    <2> QED
      BY <2>2, <2>3
  <1> QED
    BY <1>2, <1>3, <1>4 DEF TotalInv

\* The signatures leave the total and the requests for reports.
LEMMA SignaturesTotal ==
  ASSUME Flight, TotalInv, NEW r \in DOMAIN requests, ServeSignatures(r), UNCHANGED <<index, view>>
  PROVE  TotalInv'
  <1>1. /\ UNCHANGED <<answers, noted>> /\ ~IsReports(r)
        /\ list'.selection = list.selection /\ list'.total = list.total
        /\ \A e \in DOMAIN requests : e # r => e \in DOMAIN requests'
    BY SignaturesFlight
  <1>2. Told => Told'
    BY <1>1 DEF Told
  <1>3. Asked => Asked'
    BY <1>1 DEF Asked, IsReports
  <1> QED
    BY <1>1, <1>2, <1>3 DEF TotalInv

\* A request for what is chosen that fails is noted.
LEMMA RefuseTotal ==
  ASSUME Flight, TotalInv, NEW r \in DOMAIN requests, Refuse(r), UNCHANGED <<index, view>> PROVE TotalInv'
  <1>1. /\ UNCHANGED <<list, answers>> /\ noted'.counts = noted.counts /\ (noted.failed => noted'.failed)
        /\ IsReports(r) /\ r.selection = list.selection => noted'.failed
        /\ \A e \in DOMAIN requests : e # r => e \in DOMAIN requests'
    BY RefuseFlight
  <1>2. Told => Told'
    BY <1>1 DEF Told
  <1>3. Asked => Asked' \/ noted'.failed
    BY <1>1 DEF Asked, IsReports
  <1> QED
    BY <1>1, <1>2, <1>3 DEF TotalInv

\* An answer with a total the page does not show makes it ask again; one with the total it
\* shows leaves it.
LEMMA DeliverTotal ==
  ASSUME Flight, TotalInv, NEW a \in DOMAIN answers, Deliver(a), UNCHANGED <<index, view>> PROVE TotalInv'
  <1>1. /\ list'.selection = list.selection /\ list'.total = Counted(a.facet) /\ noted'.counts = noted.counts
        /\ \A e \in DOMAIN answers : e # a => e \in DOMAIN answers'
        /\ \A e \in DOMAIN requests : e \in DOMAIN requests'
        /\ Counted(a.facet) = list.total => noted' = noted
        /\ Counted(a.facet) # list.total => ReportsOf(list) \in DOMAIN requests'
    BY DeliverFlight
  <1>2. view # "home" => TotalOf(index, list.selection) \in noted.counts
    BY DEF TotalInv
  <1>3. CASE Counted(a.facet) # list.total
    <2>1. Asked'
      BY <1>1, <1>3, AsksForChosen DEF Asked, IsReports
    <2> QED
      BY <1>1, <1>2, <2>1 DEF TotalInv
  <1>4. CASE Counted(a.facet) = list.total
    <2>1. Asked => Asked'
      BY <1>1 DEF Asked, IsReports
    <2>2. Told => Told' \/ list.total \in noted.counts
      BY <1>1, <1>4 DEF Told
    <2> QED
      BY <1>1, <1>2, <1>4, <2>1, <2>2 DEF TotalInv
  <1> QED
    BY <1>3, <1>4

\* Every step.
LEMMA NextTotal == ASSUME Flight, TotalInv, [Next]_vars PROVE Flight' /\ TotalInv'
  <1>1. CASE Choose /\ UNCHANGED <<index, now, view, chart>>
    <2>1. Flight'
      <3>1. PICK l, n : n \in Nat \ {0} /\ IsList(l) /\ Show(l, n) /\ UNCHANGED answers
        BY <1>1, ChooseShows DEF Flight
      <3> QED
        BY <3>1, ShowFlight, Zenon
    <2> QED
      BY <1>1, <2>1, ChooseTotal
  <1>2. CASE Answer /\ UNCHANGED <<index, now, view, chart>>
    <2>1. DOMAIN requests = BagToSet(requests) /\ DOMAIN answers = BagToSet(answers)
      BY DEF BagToSet
    <2>2. ASSUME NEW a \in DOMAIN answers, Deliver(a) PROVE Flight' /\ TotalInv'
      BY <1>2, <2>2, DeliverTotal, DeliverFlight
    <2>3. ASSUME NEW r \in DOMAIN requests, Refuse(r) PROVE Flight' /\ TotalInv'
      BY <1>2, <2>3, RefuseTotal, RefuseFlight
    <2>4. ASSUME NEW r \in DOMAIN requests, ServeSignatures(r) PROVE Flight' /\ TotalInv'
      BY <1>2, <2>4, SignaturesTotal, SignaturesFlight
    <2>5. ASSUME NEW r \in DOMAIN requests, Serve(r) PROVE Flight' /\ TotalInv'
      BY <1>2, <2>5, ServeTotal, ServeFlight
    <2> QED
      BY <1>2, <2>1, <2>2, <2>3, <2>4, <2>5 DEF Answer
  <1>3. CASE HomeStep \/ Pass \/ UNCHANGED vars
    <2>1. UNCHANGED <<index, view, list, requests, answers, noted>>
      BY <1>3 DEF HomeStep, Pass, Tick, vars, listVars
    <2> QED
      BY <2>1, SameFlight DEF TotalInv, Asked, Told, IsReports
  <1>4. CASE Grow
    <2>1. NoteArrival /\ UNCHANGED <<view, list, requests, answers>>
      BY <1>4 DEF Grow
    <2>2. Flight' /\ noted'.failed = noted.failed /\ noted'.counts = noted.counts \cup {TotalOf(index', list.selection)}
      BY <2>1, GrowFlight
    <2> QED
      BY <2>1, <2>2 DEF TotalInv, Asked, Told, IsReports
  <1> QED
    BY <1>1, <1>2, <1>3, <1>4 DEF Next, ListStep

\* The number of reports a page comes to rest with is one that the index had for what is
\* chosen, however the answers of overlapping requests come.
THEOREM SearchQuietTotalIsCurrent == Spec => []QuietTotalIsCurrent
  <1>1. Init => Flight /\ TotalInv
    BY InitFlight DEF TotalInv, Asked
  <1>2. Flight /\ TotalInv /\ [Next]_vars => Flight' /\ TotalInv'
    BY NextTotal
  <1>3. TotalInv => QuietTotalIsCurrent
    <2> SUFFICES ASSUME TotalInv, view # "home", Quiet, ~noted.failed PROVE list.total \in noted.counts
      BY DEF QuietTotalIsCurrent
    <2>1. DOMAIN requests = {} /\ DOMAIN answers = {}
      BY EmptyIsBag, Zenon DEF Quiet
    <2> QED
      BY <2>1 DEF TotalInv, Asked, Told
  <1> QED
    BY <1>1, <1>2, <1>3, PTL DEF Spec

-----------------------------------------------------------------------------
(* What is shown and what is under way. *)

\* Elasticsearch has finitely many documents.
FiniteIndexes == \A i \in Indexes : IsFiniteSet(i)

ShownOK == /\ list.page \in Nat \ {0} /\ list.total \in 0 .. Cardinality(index)
           /\ Len(list.rows) \in Nat /\ Len(list.rows) <= Rows

\* What will be shown.
SentOK == /\ \A r \in DOMAIN requests : r.page \in Nat \ {0}
          /\ \A a \in DOMAIN answers : /\ Counted(a.facet) \in 0 .. Cardinality(index)
                                       /\ Len(a.hits) \in Nat /\ Len(a.hits) <= Rows

ChosenOK == view = "search" => /\ list.selection \in visited
                               /\ \A r \in DOMAIN requests : r.selection \in visited
                               /\ \A a \in DOMAIN answers : a.to.selection \in visited

ChartOK == chart \in [pc : {"end", "start", "versions", "histogram", "drawn", "thrown", "failed"}, end : {chart.end},
                      start : {chart.start}, versions : {chart.versions}, cells : {chart.cells}]

ServerOK == IsFiniteSet(index) /\ view \in {"search", "reports", "home"} /\ now \in Nat

PagesInv == ShownOK /\ SentOK /\ ChosenOK /\ ChartOK /\ ServerOK /\ inputs \in 0 .. MaxInputs

\* What a request asks for.
LEMMA AsksFor ==
  ASSUME NEW l, NEW r, r = ReportsOf(l) \/ r = [ReportsOf(l) EXCEPT !.first = TRUE] \/ r = SignaturesOf(l)
  PROVE  r.selection = l.selection /\ (r.page = l.page \/ r.page = 1)
  BY DEF ReportsOf, SignaturesOf

\* An answer has no more than the index.
LEMMA AnswerFits ==
  ASSUME IsFiniteSet(index), NEW r, r.page \in Nat \ {0}
  PROVE  /\ Counted(AnswerTo(r).facet) \in 0 .. Cardinality(index)
         /\ Len(AnswerTo(r).hits) \in Nat /\ Len(AnswerTo(r).hits) <= Rows /\ AnswerTo(r).to = r
  <1>1. PICK docs, hits, facet : /\ docs = Filtered(index, r.selection) /\ hits = Hits(docs, r.page, Rows)
                                 /\ facet = Facet(docs, "product")
    OBVIOUS
  <1>2. docs \in SUBSET index
    BY <1>1 DEF Filtered
  <1>3. IsFiniteSet(docs) /\ Cardinality(docs) \in Nat /\ Cardinality(index) \in Nat /\ Cardinality(docs) <= Cardinality(index)
    BY <1>2, FS_Subset, FS_CardinalityType
  <1>4. Counted(facet) \in 0 .. Cardinality(docs)
    BY <1>1, <1>3, CountedFacet, Zenon
  <1>5. Len(hits) \in Nat /\ Len(hits) <= Rows
    BY <1>1, <1>3, HitsFit, Zenon
  <1>6. AnswerTo(r).facet = facet /\ AnswerTo(r).hits = hits /\ AnswerTo(r).to = r
    BY <1>1 DEF AnswerTo
  <1> QED
    BY <1>3, <1>4, <1>5, <1>6

\* The page that opens.
LEMMA InitPages == ASSUME FiniteIndexes, Init PROVE PagesInv
  <1>1. list \in [selection : Selections[view], page : {1}, total : {0}, rows : {<<>>}, signatures : {{}}]
    BY DEF Init, InitList
  <1>2. IsFiniteSet(index) /\ now = Now /\ Now \in Nat
    BY IndexAssumption DEF Init, InitIndex, FiniteIndexes
  <1>3. ShownOK
    <2>1. Cardinality(index) \in Nat /\ Rows \in Nat
      BY <1>2, FS_CardinalityType, ListAssumption
    <2> QED
      BY <1>1, <2>1 DEF ShownOK
  <1>4. DOMAIN answers = {}
    BY EmptyIsBag, Zenon DEF Init, InitList
  <1>5. PICK q, f, g : q = ReportsOf(list) /\ f = [q EXCEPT !.first = TRUE] /\ g = SignaturesOf(list)
    OBVIOUS
  <1>6. PICK bq, bf, bg : bq = Times(q, 1) /\ bf = Times(f, 1) /\ bg = Times(g, 1)
    OBVIOUS
  <1>7. IsBag(bq) /\ IsBag(bf) /\ IsBag(bg) /\ DOMAIN bq = {q} /\ DOMAIN bf = {f} /\ DOMAIN bg = {g}
    BY <1>6, TimesIsBag, 1 \in Nat \ {0}, Zenon
  <1>8. \A r \in DOMAIN requests : r = q \/ r = f \/ r = g
    <2>1. CASE view = "search"
      <3>1. requests = bq (+) bg
        BY <1>5, <1>6, <2>1 DEF Init, InitList
      <3>2. DOMAIN requests = DOMAIN bq \cup DOMAIN bg
        BY <1>7, <3>1, BagAndBag, Zenon
      <3> QED
        BY <1>7, <3>2
    <2>2. CASE view = "reports"
      <3>1. requests = bf
        BY <1>5, <1>6, <2>2 DEF Init, InitList
      <3> QED
        BY <1>7, <3>1
    <2>3. CASE view = "home"
      <3>1. requests = EmptyBag
        BY <2>3 DEF Init, InitList
      <3>2. DOMAIN requests = {}
        BY <3>1, EmptyIsBag, Zenon
      <3> QED
        BY <3>2
    <2> QED
      BY <2>1, <2>2, <2>3 DEF Init
  <1>9. \A r \in DOMAIN requests : r.selection = list.selection /\ (r.page = list.page \/ r.page = 1)
    BY <1>5, <1>8, AsksFor
  <1>10. SentOK
    BY <1>1, <1>4, <1>9 DEF SentOK
  <1>11. ChosenOK
    BY <1>4, <1>9 DEF ChosenOK, Init, InitList
  <1>12. ChartOK
    BY DEF ChartOK, Init, InitChart
  <1>13. ServerOK
    BY <1>2 DEF ServerOK, Init
  <1>14. inputs \in 0 .. MaxInputs
    BY ListAssumption DEF Init, InitList
  <1> QED
    BY <1>3, <1>10, <1>11, <1>12, <1>13, <1>14 DEF PagesInv

\* Another selection or page is shown.
LEMMA ChoosePages == ASSUME Flight, PagesInv, Choose, UNCHANGED <<index, now, view, chart>> PROVE PagesInv'
  <1>1. PICK l, n : /\ n \in Nat \ {0} /\ IsList(l) /\ Show(l, n) /\ UNCHANGED answers
                    /\ l.total = list.total /\ l.rows = list.rows
                    /\ l.page = list.page \/ l.page \in 1 .. Pages \/ l.page = 1
                    /\ view \in {"search", "reports"} /\ inputs < MaxInputs /\ inputs' = inputs + 1
                    /\ visited \subseteq visited'
                    /\ view = "reports" \/ l.selection \in visited' \/ l.selection = list.selection
    BY ChooseShows DEF Flight
  <1>2. /\ list' = l
        /\ \A e \in DOMAIN requests' : e \in DOMAIN requests \/ e = ReportsOf(l) \/ e = SignaturesOf(l)
    BY <1>1, ShowFlight, Zenon
  <1>3. l.page \in Nat \ {0}
    <2>1. list.total \in Nat /\ list.page \in Nat \ {0} /\ Rows \in Nat \ {0}
      <3>1. Cardinality(index) \in Nat
        BY FS_CardinalityType DEF PagesInv, ServerOK
      <3> QED
        BY <3>1, ListAssumption DEF PagesInv, ShownOK
    <2>2. Pages \in Int
      BY <2>1 DEF Pages
    <2> QED
      BY <1>1, <2>1, <2>2
  <1>4. ShownOK'
    BY <1>1, <1>2, <1>3 DEF PagesInv, ShownOK
  <1>5. \A e \in DOMAIN requests' : e \in DOMAIN requests \/ (e.selection = l.selection /\ e.page \in Nat \ {0})
    <2>1. 1 \in Nat \ {0}
      OBVIOUS
    <2> QED
      BY <1>2, <1>3, <2>1, AsksFor
  <1>6. SentOK'
    BY <1>1, <1>5 DEF PagesInv, SentOK
  <1>7. ChosenOK'
    BY <1>1, <1>2, <1>5 DEF PagesInv, ChosenOK
  <1>8. ServerOK' /\ ChartOK'
    BY DEF PagesInv, ServerOK, ChartOK
  <1>9. inputs' \in 0 .. MaxInputs
    BY <1>1, ListAssumption DEF PagesInv
  <1> QED
    BY <1>4, <1>6, <1>7, <1>8, <1>9 DEF PagesInv

\* An answer comes, or is shown.
LEMMA AnswerPages == ASSUME Flight, PagesInv, Answer, UNCHANGED <<index, now, view, chart>> PROVE PagesInv'
  <1>1. DOMAIN requests = BagToSet(requests) /\ DOMAIN answers = BagToSet(answers)
    BY DEF BagToSet
  <1>2. ServerOK' /\ ChartOK'
    BY DEF PagesInv, ServerOK, ChartOK
  <1>3. \A r : r = ReportsOf(list) \/ r = SignaturesOf(list) => r.selection = list.selection /\ r.page \in Nat \ {0}
    <2>1. 1 \in Nat \ {0} /\ list.page \in Nat \ {0}
      BY DEF PagesInv, ShownOK
    <2> QED
      BY <2>1, AsksFor
  <1>4. ASSUME NEW a \in DOMAIN answers, Deliver(a) PROVE PagesInv'
    <2>1. /\ UNCHANGED <<visited, inputs>>
          /\ list'.selection = list.selection /\ list'.page = list.page
          /\ list'.total = Counted(a.facet) /\ list'.rows = a.hits
          /\ \A e \in DOMAIN answers' : e \in DOMAIN answers
          /\ \A e \in DOMAIN requests' : e \in DOMAIN requests \/ e = ReportsOf(list) \/ e = SignaturesOf(list)
      BY <1>4, DeliverFlight
    <2>2. ShownOK'
      BY <2>1 DEF PagesInv, ShownOK, SentOK
    <2>3. SentOK'
      BY <1>3, <2>1 DEF PagesInv, SentOK
    <2>4. ChosenOK'
      BY <1>3, <2>1 DEF PagesInv, ChosenOK
    <2> QED
      BY <1>2, <2>1, <2>2, <2>3, <2>4 DEF PagesInv
  <1>5. ASSUME NEW r \in DOMAIN requests, Refuse(r) PROVE PagesInv'
    <2>1. /\ UNCHANGED <<list, answers, visited>>
          /\ inputs' = inputs \/ (inputs < MaxInputs /\ inputs' = inputs + 1)
          /\ \A e \in DOMAIN requests' : e \in DOMAIN requests \/ e = SignaturesOf(list)
      BY <1>5, RefuseFlight
    <2>2. ShownOK'
      BY <2>1 DEF PagesInv, ShownOK
    <2>3. SentOK'
      BY <1>3, <2>1 DEF PagesInv, SentOK
    <2>4. ChosenOK'
      BY <1>3, <2>1 DEF PagesInv, ChosenOK
    <2>5. inputs' \in 0 .. MaxInputs
      BY <2>1, ListAssumption DEF PagesInv
    <2> QED
      BY <1>2, <2>2, <2>3, <2>4, <2>5 DEF PagesInv
  <1>6. ASSUME NEW r \in DOMAIN requests, ServeSignatures(r) PROVE PagesInv'
    <2>1. /\ UNCHANGED <<answers, visited, inputs>>
          /\ list'.selection = list.selection /\ list'.page = list.page /\ list'.total = list.total
          /\ list'.rows = list.rows
          /\ \A e \in DOMAIN requests' : e \in DOMAIN requests
      BY <1>6, SignaturesFlight
    <2>2. ShownOK'
      BY <2>1 DEF PagesInv, ShownOK
    <2>3. SentOK' /\ ChosenOK'
      BY <2>1 DEF PagesInv, SentOK, ChosenOK
    <2> QED
      BY <1>2, <2>1, <2>2, <2>3 DEF PagesInv
  <1>7. ASSUME NEW r \in DOMAIN requests, Serve(r) PROVE PagesInv'
    <2>1. /\ UNCHANGED <<list, visited, inputs>>
          /\ \A e \in DOMAIN requests' : e \in DOMAIN requests
          /\ DOMAIN answers' = DOMAIN answers \cup {AnswerTo(r)}
      BY <1>7, ServeFlight
    <2>2. /\ Counted(AnswerTo(r).facet) \in 0 .. Cardinality(index)
          /\ Len(AnswerTo(r).hits) \in Nat /\ Len(AnswerTo(r).hits) <= Rows /\ AnswerTo(r).to = r
      BY AnswerFits DEF PagesInv, SentOK, ServerOK
    <2>3. ShownOK' /\ SentOK'
      BY <2>1, <2>2 DEF PagesInv, ShownOK, SentOK
    <2>4. ChosenOK'
      BY <2>1, <2>2 DEF PagesInv, ChosenOK
    <2> QED
      BY <1>2, <2>1, <2>3, <2>4 DEF PagesInv
  <1> QED
    BY <1>1, <1>4, <1>5, <1>6, <1>7 DEF Answer

\* The chart, a crash that arrives, and the clock.
LEMMA OtherPages == ASSUME PagesInv, HomeStep \/ Grow \/ Pass \/ UNCHANGED vars PROVE PagesInv'
  <1>1. CASE HomeStep
    <2>1. UNCHANGED <<index, now, view, list, visited, requests, answers, inputs>> /\ ChartStep
      BY <1>1 DEF HomeStep, listVars
    <2>2. ShownOK' /\ SentOK' /\ ChosenOK' /\ ServerOK' /\ inputs' \in 0 .. MaxInputs
      BY <2>1 DEF PagesInv, ShownOK, SentOK, ChosenOK, ServerOK
    <2>3. ChartOK'
      <3>1. ASSUME ReadEnd \/ ReadStart \/ GetVersions \/ Fail PROVE ChartOK'
        BY <3>1 DEF PagesInv, ChartOK, ReadEnd, ReadStart, GetVersions, Fail
      <3>2. ASSUME GetHistogram PROVE ChartOK'
        <4>1. PICK cells : \/ chart' = [chart EXCEPT !.pc = "drawn", !.cells = cells]
                           \/ chart' = [chart EXCEPT !.pc = "thrown"]
          BY <3>2 DEF GetHistogram, Draw
        <4> QED
          BY <4>1 DEF PagesInv, ChartOK
      <3> QED
        BY <2>1, <3>1, <3>2 DEF ChartStep
    <2> QED
      BY <2>2, <2>3 DEF PagesInv
  <1>2. CASE Grow
    <2>1. /\ UNCHANGED <<view, list, visited, requests, answers, inputs, chart>>
          /\ now' = now + 1 /\ \E e : index' = index \cup {e}
      BY <1>2 DEF Grow, Arrive
    <2>2. IsFiniteSet(index') /\ Cardinality(index) \in Nat /\ Cardinality(index') \in Nat
          /\ Cardinality(index) <= Cardinality(index')
      <3>1. IsFiniteSet(index')
        BY <2>1, FS_AddElement DEF PagesInv, ServerOK
      <3> QED
        BY <2>1, <3>1, FS_Subset, FS_CardinalityType
    <2>3. ShownOK' /\ SentOK'
      <3>1. \A n \in 0 .. Cardinality(index) : n \in 0 .. Cardinality(index')
        BY <2>2
      <3>2. ShownOK'
        BY <2>1, <3>1 DEF PagesInv, ShownOK
      <3>3. SentOK'
        BY <2>1, <3>1 DEF PagesInv, SentOK
      <3> QED
        BY <3>2, <3>3
    <2>4. ServerOK' /\ ChosenOK' /\ ChartOK' /\ inputs' \in 0 .. MaxInputs
      BY <2>1, <2>2 DEF PagesInv, ServerOK, ChosenOK, ChartOK
    <2> QED
      BY <2>3, <2>4 DEF PagesInv
  <1>3. CASE Pass
    <2>1. UNCHANGED <<index, view, list, visited, requests, answers, inputs, chart>> /\ now' = now + 1
      BY <1>3 DEF Pass, Tick, listVars
    <2> QED
      BY <2>1 DEF PagesInv, ShownOK, SentOK, ChosenOK, ServerOK, ChartOK
  <1>4. CASE UNCHANGED vars
    BY <1>4 DEF vars, listVars, PagesInv, ShownOK, SentOK, ChosenOK, ServerOK, ChartOK
  <1> QED
    BY <1>1, <1>2, <1>3, <1>4

\* The page that is shown exists and is no longer than it may be, its total is one that the
\* index can have, and what is under way was chosen.
THEOREM SearchTypeOK == ASSUME FiniteIndexes PROVE Spec => []TypeOK
  <1>1. Init => Flight /\ TotalInv /\ PagesInv
    BY InitFlight, InitPages DEF TotalInv, Asked
  <1>2. Flight /\ TotalInv /\ PagesInv /\ [Next]_vars => (Flight /\ TotalInv /\ PagesInv)'
    <2> SUFFICES ASSUME Flight, TotalInv, PagesInv, [Next]_vars PROVE Flight' /\ TotalInv' /\ PagesInv'
      OBVIOUS
    <2>1. PagesInv'
      BY ChoosePages, AnswerPages, OtherPages DEF Next, ListStep
    <2> QED
      BY <2>1, NextTotal
  <1>3. PagesInv => TypeOK
    <2> SUFFICES ASSUME PagesInv PROVE TypeOK
      OBVIOUS
    <2>1. UnderWay = DOMAIN requests \cup {a.to : a \in DOMAIN answers}
      BY DEF UnderWay, BagToSet
    <2>2. chart.pc \in {"end", "start", "versions", "histogram", "drawn", "thrown", "failed"}
      BY DEF PagesInv, ChartOK
    <2> QED
      BY <2>1, <2>2 DEF TypeOK, PagesInv, ShownOK, SentOK, ChosenOK, ServerOK
  <1> QED
    BY <1>1, <1>2, <1>3, PTL DEF Spec

-----------------------------------------------------------------------------
(* The list.  Dates order the reports, and all products fit into a facet. *)

Products == {d.product : d \in (UNION Indexes) \cup Reports}

\* No two reports have the same date: sorting by date alone does not order those that have.
DatesDiffer ==
    \A i \in Indexes : \A d \in i : /\ d.date \in Int \ ((Now - Lag) .. (MaxNow - 1 - Lag))
                                    /\ \A e \in i : e.date = d.date => e = d

ProductsFit == IsFiniteSet(Products) /\ Cardinality(Products \ {None}) <= FacetSize

\* The same of what the index has by now.
DocsInv ==
    /\ IsFiniteSet(index) /\ now \in Nat
    /\ \A d \in index : /\ d.date \in Int \ ((now - Lag) .. (MaxNow - 1 - Lag))
                        /\ d.product \in Products
                        /\ \A e \in index : e.date = d.date => e = d

Dated(docs) == \A d \in docs : d.date \in Int /\ \A e \in docs : e.date = d.date => e = d

Matching(docs, s) == {d \in docs : /\ \A f \in {"product", "version"} : s[f] = {} \/ d[f] \in s[f]
                                   /\ s.gte # None => d.date >= Format(s.gte)
                                   /\ s.lt # None => d.date < Format(s.lt)}

\* The query finds what matches.
LEMMA FilteredIs == ASSUME NEW docs, NEW s PROVE Filtered(docs, s) = Matching(docs, s)
  <1> DEFINE terms == TermFilters(s)
             ranges == RangeFilters(s)
             InRanges(d) == \A r \in ranges : InRange(d.date, r)
             HasTerms(d) == \A f \in {t.name : t \in terms} : \E t \in terms : t.name = f /\ d[f] = t.value
  <1>1. ASSUME NEW d PROVE HasTerms(d) <=> \A f \in {"product", "version"} : s[f] = {} \/ d[f] \in s[f]
    <2>1. \A t : t \in terms <=> \E f \in {"product", "version"} : \E v \in s[f] : t = [name |-> f, value |-> v]
      BY DEF TermFilters
    <2>2. ASSUME HasTerms(d), NEW f \in {"product", "version"}, NEW v \in s[f] PROVE d[f] \in s[f]
      <3>1. PICK u : u = [name |-> f, value |-> v]
        OBVIOUS
      <3>2. u \in terms /\ u.name = f
        BY <2>1, <3>1
      <3>3. PICK t \in terms : t.name = f /\ d[f] = t.value
        BY <2>2, <3>2
      <3>4. PICK g \in {"product", "version"} : \E w \in s[g] : t = [name |-> g, value |-> w]
        BY <2>1, <3>3
      <3> QED
        BY <3>3, <3>4
    <2>3. ASSUME \A f \in {"product", "version"} : s[f] = {} \/ d[f] \in s[f] PROVE HasTerms(d)
      <3> SUFFICES ASSUME NEW u \in terms PROVE \E t \in terms : t.name = u.name /\ d[u.name] = t.value
        OBVIOUS
      <3>1. PICK g \in {"product", "version"} : \E w \in s[g] : u = [name |-> g, value |-> w]
        BY <2>1
      <3>2. u.name = g /\ d[g] \in s[g]
        BY <2>3, <3>1
      <3>3. PICK t : t = [name |-> g, value |-> d[g]]
        OBVIOUS
      <3>4. t \in terms
        BY <2>1, <3>2, <3>3
      <3> HIDE DEF terms
      <3> QED
        BY <3>2, <3>3, <3>4
    <2> HIDE DEF HasTerms
    <2>4. HasTerms(d) => \A f \in {"product", "version"} : s[f] = {} \/ d[f] \in s[f]
      BY <2>2
    <2> QED
      BY <2>3, <2>4
  <1>2. ASSUME NEW d
        PROVE  InRanges(d) <=> (s.gte # None => d.date >= Format(s.gte)) /\ (s.lt # None => d.date < Format(s.lt))
    <2>1. \A r : r \in ranges <=> \E o \in {"gte", "lt"} : s[o] # None /\ r = [operator |-> o, value |-> Format(s[o])]
      BY DEF RangeFilters
    <2>2. PICK g, l : g = [operator |-> "gte", value |-> Format(s.gte)] /\ l = [operator |-> "lt", value |-> Format(s.lt)]
      OBVIOUS
    <2>3. \A r : r \in ranges <=> (s.gte # None /\ r = g) \/ (s.lt # None /\ r = l)
      BY <2>1, <2>2
    <2>4. InRange(d.date, g) <=> d.date >= Format(s.gte)
      BY <2>2 DEF InRange
    <2>5. InRange(d.date, l) <=> d.date < Format(s.lt)
      BY <2>2 DEF InRange
    <2> HIDE DEF ranges
    <2> QED
      BY <2>3, <2>4, <2>5
  <1>3. Filtered(docs, s) = {d \in docs : InRanges(d) /\ HasTerms(d)}
    BY DEF Filtered
  <1> HIDE DEF InRanges, HasTerms
  <1> QED
    BY <1>1, <1>2, <1>3 DEF Matching

\* The number of newer reports is the place of a report.
LEMMA NewerRanks ==
  ASSUME NEW docs, IsFiniteSet(docs), Dated(docs), NEW n, n = Cardinality(docs)
  PROVE  /\ n \in Nat
         /\ \A d \in docs : Newer(d, docs) \in 0 .. n - 1
         /\ \A d, e \in docs : Newer(d, docs) = Newer(e, docs) => d = e
         /\ \A k \in 0 .. n - 1 : \E d \in docs : Newer(d, docs) = k
  <1>1. n \in Nat
    BY FS_CardinalityType
  <1> DEFINE Above(d) == {e \in docs : e.date > d.date}
  <1>2. \A d : Newer(d, docs) = Cardinality(Above(d))
    BY DEF Newer
  <1>3. \A d \in docs : Above(d) \in SUBSET docs /\ d \notin Above(d)
    BY DEF Dated
  <1>4. \A d, e \in docs : d.date > e.date => d \in Above(e) /\ Above(d) \in SUBSET Above(e)
    BY DEF Dated
  <1> HIDE DEF Above
  <1>5. ASSUME NEW S, IsFiniteSet(S), NEW T \in SUBSET S, NEW x \in S, x \notin T
        PROVE  IsFiniteSet(T) /\ Cardinality(T) \in Nat /\ Cardinality(S) \in Nat /\ Cardinality(T) < Cardinality(S)
    <2>1. IsFiniteSet(T) /\ Cardinality(T) <= Cardinality(S) /\ Cardinality(S) # Cardinality(T)
      BY <1>5, FS_Subset
    <2> QED
      BY <1>5, <2>1, FS_CardinalityType
  <1>6. \A d \in docs : IsFiniteSet(Above(d)) /\ Newer(d, docs) \in 0 .. n - 1
    BY <1>1, <1>2, <1>3, <1>5
  <1>7. \A d, e \in docs : d.date > e.date => Newer(d, docs) < Newer(e, docs)
    BY <1>2, <1>3, <1>4, <1>5, <1>6
  <1>8. ASSUME NEW d \in docs, NEW e \in docs, Newer(d, docs) = Newer(e, docs) PROVE d = e
    <2>1. ~(d.date > e.date) /\ ~(e.date > d.date)
      BY <1>6, <1>7, <1>8
    <2> QED
      BY <2>1 DEF Dated
  <1>9. PICK f : f = [d \in docs |-> Newer(d, docs)]
    OBVIOUS
  <1>10. f \in Injection(docs, 0 .. n - 1)
    BY <1>6, <1>8, <1>9 DEF Injection, IsInjective
  <1>11. IsFiniteSet(0 .. n - 1) /\ Cardinality(0 .. n - 1) = n
    <2>1. PICK last : last = n - 1 /\ last \in Int
      BY <1>1
    <2>2. IsFiniteSet(0 .. last) /\ Cardinality(0 .. last) = IF 0 > last THEN 0 ELSE last - 0 + 1
      BY <2>1, FS_Interval, 0 \in Int, Zenon
    <2>3. (IF 0 > last THEN 0 ELSE last - 0 + 1) = n
      BY <1>1, <2>1
    <2> QED
      BY <2>1, <2>2, <2>3
  <1>12. f \in Surjection(docs, 0 .. n - 1)
    BY <1>10, <1>11, FS_Injection
  <1>13. \A k \in 0 .. n - 1 : \E d \in docs : Newer(d, docs) = k
    BY <1>9, <1>12 DEF Surjection
  <1> QED
    BY <1>1, <1>6, <1>8, <1>13

\* A number is on the page it is counted to.
LEMMA OnPage ==
  ASSUME NEW k \in Nat, NEW p \in Nat, NEW r \in Nat \ {0}
  PROVE  k \div r = p <=> p * r <= k /\ k < p * r + r
  <1>1. PICK q, m : q = k \div r /\ m = k % r
    OBVIOUS
  <1>2. q \in Nat /\ m \in Nat /\ m < r /\ k = q * r + m
    BY <1>1
  <1>3. q = p => p * r <= k /\ k < p * r + r
    BY <1>2
  <1>4. q < p => q * r + r <= p * r
    <2>1. q < p => (p - q - 1) * r >= 0
      BY <1>2
    <2>2. (p - q - 1) * r = p * r - q * r - r
      BY <1>2
    <2> QED
      BY <1>2, <2>1, <2>2
  <1>5. p < q => p * r + r <= q * r
    <2>1. p < q => (q - p - 1) * r >= 0
      BY <1>2
    <2>2. (q - p - 1) * r = q * r - p * r - r
      BY <1>2
    <2> QED
      BY <1>2, <2>1, <2>2
  <1>6. PICK pr, qr : pr = p * r /\ qr = q * r /\ pr \in Nat /\ qr \in Nat
    BY <1>2
  <1>7. q # p => q < p \/ p < q
    BY <1>2
  <1> QED
    BY <1>1, <1>2, <1>3, <1>4, <1>5, <1>6, <1>7

\* The reports of a page are those with as many newer ones as are on the pages before it.
LEMMA HitsAre ==
  ASSUME NEW docs, IsFiniteSet(docs), Dated(docs), Rows <= MaxSize, NEW page \in Nat \ {0}
  PROVE  ToSet(Hits(docs, page, Rows)) = {d \in docs : Newer(d, docs) \div Rows = page - 1}
  <1>1. PICK n, from, size, sorted :
           /\ n = Cardinality(docs) /\ from = From(page, Rows) /\ size = Size(Rows)
           /\ sorted = [i \in 1 .. n |-> CHOOSE d \in docs : Newer(d, docs) = i - 1]
    OBVIOUS
  <1>2. /\ n \in Nat
        /\ \A d \in docs : Newer(d, docs) \in 0 .. n - 1
        /\ \A d, e \in docs : Newer(d, docs) = Newer(e, docs) => d = e
        /\ \A k \in 0 .. n - 1 : \E d \in docs : Newer(d, docs) = k
    BY <1>1, NewerRanks
  <1>3. Rows \in Nat \ {0} /\ MaxSize \in Nat
    BY ListAssumption, IndexAssumption
  <1>4. size = Rows /\ from = (page - 1) * Rows /\ from \in Nat
    BY <1>1, <1>3 DEF Size, From
  <1>5. \A i \in 1 .. n : sorted[i] \in docs /\ Newer(sorted[i], docs) = i - 1
    <2>1. \A i \in 1 .. n : i - 1 \in 0 .. n - 1
      BY <1>2
    <2> QED
      BY <1>1, <1>2, <2>1
  <1>6. sorted \in Seq(docs) /\ Len(sorted) = n
    BY <1>1, <1>2, <1>5
  <1>7. PICK last : last = IF from + size < n THEN from + size ELSE n
    OBVIOUS
  <1>8. PICK hits : hits = Hits(docs, page, Rows)
    OBVIOUS
  <1>9. hits = SubSeq(sorted, from + 1, last)
    BY <1>1, <1>6, <1>7, <1>8 DEF Hits
  <1>10. last \in Nat /\ last <= n /\ last <= from + Rows
    BY <1>2, <1>3, <1>4, <1>7
  <1>11. PICK m : m = IF from + 1 <= last THEN last - from ELSE 0
    OBVIOUS
  <1>12. m \in Nat
    BY <1>4, <1>10, <1>11
  <1>13. Len(hits) = m /\ \A j \in 1 .. m : hits[j] = sorted[from + j]
    <2>1. CASE from + 1 <= last
      <3>1. m = last - from /\ from + 1 \in Nat /\ from + 1 >= 1 /\ last <= Len(sorted)
        BY <1>4, <1>6, <1>10, <1>11, <2>1
      <3>2. /\ Len(hits) = last - (from + 1) + 1
            /\ \A j \in 1 .. last - (from + 1) + 1 : hits[j] = sorted[(from + 1) + j - 1]
        BY <1>6, <1>9, <1>10, <2>1, <3>1
      <3>3. last - (from + 1) + 1 = m /\ \A j \in 1 .. m : (from + 1) + j - 1 = from + j
        BY <1>4, <1>10, <3>1
      <3> QED
        BY <3>2, <3>3
    <2>2. CASE ~(from + 1 <= last)
      <3>1. m = 0 /\ last < from + 1
        BY <1>4, <1>10, <1>11, <2>2
      <3>2. Len(hits) = 0
        BY <1>4, <1>6, <1>9, <1>10, <3>1
      <3> QED
        BY <3>1, <3>2
    <2> QED
      BY <2>1, <2>2
  <1>14. hits \in Seq(docs)
    BY <1>4, <1>6, <1>9, <1>10
  <1>15. DOMAIN hits = 1 .. m
    BY <1>13, <1>14
  <1>16. ToSet(hits) = {hits[j] : j \in 1 .. m}
    BY <1>15 DEF ToSet
  <1>17. \A j \in 1 .. m : from + j \in 1 .. n /\ from + j - 1 >= from /\ from + j - 1 < from + Rows
    <2> SUFFICES ASSUME NEW j \in 1 .. m
                 PROVE  from + j \in 1 .. n /\ from + j - 1 >= from /\ from + j - 1 < from + Rows
      OBVIOUS
    <2>1. m = last - from /\ j \in Nat /\ j >= 1 /\ j <= last - from
      BY <1>4, <1>10, <1>11
    <2> QED
      BY <1>2, <1>3, <1>4, <1>10, <2>1
  <1>18. \A d \in docs : Newer(d, docs) \div Rows = page - 1 <=> from <= Newer(d, docs) /\ Newer(d, docs) < from + Rows
    <2> SUFFICES ASSUME NEW d \in docs
                 PROVE  Newer(d, docs) \div Rows = page - 1 <=> from <= Newer(d, docs) /\ Newer(d, docs) < from + Rows
      OBVIOUS
    <2>1. PICK k, p : k = Newer(d, docs) /\ p = page - 1
      OBVIOUS
    <2>2. k \in Nat /\ p \in Nat /\ from = p * Rows
      BY <1>2, <1>4, <2>1
    <2>3. k \div Rows = p <=> p * Rows <= k /\ k < p * Rows + Rows
      BY <1>3, <2>2, OnPage, Zenon
    <2> QED
      BY <2>1, <2>2, <2>3
  <1>19. ASSUME NEW j \in 1 .. m PROVE hits[j] \in docs /\ Newer(hits[j], docs) \div Rows = page - 1
    BY <1>4, <1>5, <1>13, <1>17, <1>18
  <1>20. ASSUME NEW d \in docs, Newer(d, docs) \div Rows = page - 1 PROVE \E j \in 1 .. m : d = hits[j]
    <2>1. PICK k : k = Newer(d, docs)
      OBVIOUS
    <2>2. k \in 0 .. n - 1 /\ from <= k /\ k < from + Rows
      BY <1>2, <1>18, <1>20, <2>1
    <2>3. k + 1 \in 1 .. n /\ k + 1 - from \in 1 .. m
      BY <1>2, <1>3, <1>4, <1>7, <1>10, <1>11, <2>2
    <2>4. sorted[k + 1] = d
      BY <1>2, <1>5, <2>1, <2>2, <2>3
    <2>5. hits[k + 1 - from] = sorted[k + 1]
      <3>1. from + (k + 1 - from) = k + 1
        BY <1>4, <2>2
      <3> QED
        BY <1>13, <2>3, <3>1
    <2> QED
      BY <2>3, <2>4, <2>5
  <1> QED
    BY <1>8, <1>16, <1>19, <1>20

\* Terms that are few enough fit into a facet.
LEMMA BucketsFit ==
  ASSUME NEW docs, IsFiniteSet(docs), NEW field, NEW named, IsFiniteSet(named), Cardinality(named) <= FacetSize,
         TermsOf(docs, field) \subseteq named
  PROVE  Facet(docs, field) = BucketsOf(docs, field) /\ Cardinality(BucketsOf(docs, field)) <= FacetSize
  <1>1. PICK buckets : buckets = BucketsOf(docs, field)
    OBVIOUS
  <1>2. IsFiniteSet(buckets) /\ \A b, c \in buckets : b.term = c.term => b = c
    BY <1>1, BucketsFinite
  <1>3. \A b \in buckets : b.term \in named
    BY <1>1 DEF BucketsOf
  <1>4. PICK f : f = [b \in buckets |-> b.term]
    OBVIOUS
  <1>5. f \in Injection(buckets, named)
    BY <1>2, <1>3, <1>4 DEF Injection, IsInjective
  <1>6. Cardinality(buckets) <= Cardinality(named) /\ Cardinality(buckets) \in Nat /\ Cardinality(named) \in Nat
    BY <1>2, <1>5, FS_Injection, FS_CardinalityType
  <1>7. FacetSize \in Nat
    BY IndexAssumption
  <1>8. Cardinality(buckets) <= FacetSize
    BY <1>6, <1>7
  <1> QED
    BY <1>1, <1>8, FacetIs

\* The total of reports whose products fit is the number of those that have one.
LEMMA TotalIs ==
  ASSUME ProductsFit, NEW docs, IsFiniteSet(docs), \A d \in docs : d.product \in Products
  PROVE  Counted(Facet(docs, "product")) = Cardinality({d \in docs : d.product # None})
  <1>1. PICK named : named = Products \ {None}
    OBVIOUS
  <1>2. IsFiniteSet(named) /\ Cardinality(named) <= FacetSize
    BY <1>1, FS_Subset DEF ProductsFit
  <1>3. TermsOf(docs, "product") \subseteq named
    BY <1>1 DEF TermsOf
  <1>4. Cardinality(BucketsOf(docs, "product")) <= FacetSize
    BY <1>2, <1>3, BucketsFit
  <1> QED
    BY <1>4, CountedFacet

\* A request for reports asks for what is shown.
ForShown(r) == IsReports(r) => r.selection = list.selection /\ r.page = list.page

Shown == /\ list.rows = Hits(Filtered(index, list.selection), list.page, Rows)
         /\ list.total = TotalOf(index, list.selection)

\* As long as nothing disturbs the requests, they and the answers are for what is shown, the
\* answers are still true, and there is one unless the list is what it should be.
Calm == /\ \A r \in DOMAIN requests : ForShown(r)
        /\ \A a \in DOMAIN answers : ForShown(a.to) /\ a = AnswerTo(a.to)
        /\ noted.failed \/ (\E r \in DOMAIN requests : IsReports(r)) \/ DOMAIN answers # {} \/ Shown

CalmInv == /\ \A a \in DOMAIN answers : IsReports(a.to)
           /\ view # "home" /\ ~noted.disturbed => Calm

\* An index that does not change answers the same.
LEMMA SameAnswers ==
  ASSUME UNCHANGED index
  PROVE  (\A r : AnswerTo(r)' = AnswerTo(r)) /\ (UNCHANGED list => (Shown' <=> Shown))
  BY DEF AnswerTo, Shown

\* What an answer to a request for what is shown shows.
LEMMA AnswerShows ==
  ASSUME NEW a, a = AnswerTo(a.to), a.to.selection = list.selection, a.to.page = list.page
  PROVE  /\ a.hits = Hits(Filtered(index, list.selection), list.page, Rows)
         /\ Counted(a.facet) = TotalOf(index, list.selection)
  <1>1. PICK r : r = a.to
    OBVIOUS
  <1>2. a = AnswerTo(r) /\ r.selection = list.selection /\ r.page = list.page
    BY <1>1
  <1>3. /\ AnswerTo(r).hits = Hits(Filtered(index, r.selection), r.page, Rows)
        /\ AnswerTo(r).facet = Facet(Filtered(index, r.selection), "product")
    BY DEF AnswerTo
  <1> QED
    BY <1>2, <1>3 DEF TotalOf

\* What asks for the same as others do disturbs nothing that was not disturbed.
LEMMA AskSame ==
  ASSUME NEW r, NEW others, ~Disturbs(r, others)
  PROVE  \A o \in others : IsReports(o) => o = r /\ ~noted.disturbed
  BY DEF Disturbs

\* Another selection or page is shown.
LEMMA ChooseCalm == ASSUME Flight, CalmInv, Choose, UNCHANGED <<index, view>> PROVE CalmInv'
  <1>1. PICK l, n : n \in Nat \ {0} /\ IsList(l) /\ Show(l, n) /\ UNCHANGED answers /\ view \in {"search", "reports"}
    BY ChooseShows DEF Flight
  <1>2. PICK r : r = ReportsOf(l)
    OBVIOUS
  <1>3. /\ list' = l /\ noted'.disturbed = Disturbs(r, UnderWay) /\ r \in DOMAIN requests'
        /\ \A e \in DOMAIN requests' : e \in DOMAIN requests \/ e = r \/ e = SignaturesOf(l)
    BY <1>1, <1>2, ShowFlight, Zenon
  <1>4. /\ IsReports(r) /\ r.selection = l.selection /\ r.page = l.page /\ ~IsReports(SignaturesOf(l))
    BY <1>2, AsksForChosen, AsksForSignatures
  <1>5. UnderWay = DOMAIN requests \cup {a.to : a \in DOMAIN answers}
    BY DEF UnderWay, BagToSet
  <1>6. \A a \in DOMAIN answers' : IsReports(a.to)
    BY <1>1 DEF CalmInv
  <1>7. ASSUME ~noted'.disturbed PROVE Calm'
    <2>1. \A o \in UnderWay : IsReports(o) => o = r /\ ~noted.disturbed
      BY <1>3, <1>7, AskSame
    <2>2. \A e \in DOMAIN requests' : IsReports(e) => e = r
      BY <1>3, <1>4, <1>5, <2>1
    <2>3. \A a \in DOMAIN answers : a.to = r /\ a = AnswerTo(a.to)
      BY <1>1, <1>5, <2>1 DEF CalmInv, Calm
    <2>4. \A a \in DOMAIN answers' : a.to = r /\ a = AnswerTo(a.to)'
      BY <1>1, <2>3, SameAnswers
    <2>5. \A e : e = r => ForShown(e)'
      BY <1>3, <1>4 DEF ForShown
    <2>6. \A e \in DOMAIN requests' : ForShown(e)'
      BY <2>2, <2>5 DEF ForShown, IsReports
    <2> QED
      BY <1>3, <1>4, <2>4, <2>5, <2>6 DEF Calm, IsReports
  <1> QED
    BY <1>6, <1>7 DEF CalmInv, IsReports

\* What comes is true.
LEMMA ServeCalm ==
  ASSUME Flight, CalmInv, NEW r \in DOMAIN requests, Serve(r), UNCHANGED <<index, view>> PROVE CalmInv'
  <1>1. /\ UNCHANGED <<list, noted>> /\ IsReports(r)
        /\ \A e \in DOMAIN requests' : e \in DOMAIN requests
        /\ DOMAIN answers' = DOMAIN answers \cup {AnswerTo(r)}
    BY ServeFlight
  <1>2. AnswerTo(r).to = r
    BY DEF AnswerTo
  <1>3. \A a \in DOMAIN answers' : IsReports(a.to)
    BY <1>1, <1>2 DEF CalmInv
  <1>4. ASSUME Calm PROVE Calm'
    <2>1. \A e : ForShown(e)' <=> ForShown(e)
      BY <1>1 DEF ForShown, IsReports
    <2>2. \A a \in DOMAIN answers' : ForShown(a.to) /\ a = AnswerTo(a.to)'
      BY <1>1, <1>2, <1>4, SameAnswers DEF Calm
    <2> QED
      BY <1>1, <1>4, <2>1, <2>2 DEF Calm
  <1> QED
    BY <1>1, <1>3, <1>4 DEF CalmInv, IsReports

\* A request that fails is noted, and signatures do not show in the list.
LEMMA RestCalm ==
  ASSUME Flight, CalmInv, NEW r \in DOMAIN requests, Refuse(r) \/ ServeSignatures(r), UNCHANGED <<index, view>>
  PROVE  CalmInv'
  <1>1. /\ UNCHANGED answers /\ noted'.disturbed = noted.disturbed
        /\ list'.selection = list.selection /\ list'.page = list.page /\ list'.total = list.total /\ list'.rows = list.rows
        /\ noted.failed => noted'.failed
        /\ IsReports(r) /\ r.selection = list.selection => noted'.failed
        /\ \A e \in DOMAIN requests' : e \in DOMAIN requests \/ e = SignaturesOf(list)
        /\ \A e \in DOMAIN requests : e # r => e \in DOMAIN requests'
    BY RefuseFlight, SignaturesFlight
  <1>2. ASSUME Calm PROVE Calm'
    <2>1. \A e : ForShown(e)' <=> ForShown(e)
      BY <1>1 DEF ForShown, IsReports
    <2>2. ForShown(SignaturesOf(list))
      BY AsksForSignatures DEF ForShown
    <2>3. Shown => Shown'
      BY <1>1 DEF Shown
    <2>4. (\E e \in DOMAIN requests : IsReports(e)) => noted'.failed \/ \E e \in DOMAIN requests' : IsReports(e)
      BY <1>1, <1>2 DEF Calm, ForShown
    <2>5. \A a \in DOMAIN answers' : ForShown(a.to) /\ a = AnswerTo(a.to)'
      BY <1>1, <1>2, SameAnswers DEF Calm
    <2> QED
      BY <1>1, <1>2, <2>1, <2>2, <2>3, <2>4, <2>5 DEF Calm, IsReports
  <1> QED
    BY <1>1, <1>2 DEF CalmInv, IsReports

\* An answer that is shown is true, or what is shown is asked for again.
LEMMA DeliverCalm ==
  ASSUME Flight, CalmInv, NEW a \in DOMAIN answers, Deliver(a), UNCHANGED <<index, view>> PROVE CalmInv'
  <1>1. PICK r : r = ReportsOf(list)
    OBVIOUS
  <1>2. /\ list'.selection = list.selection /\ list'.page = list.page
        /\ list'.total = Counted(a.facet) /\ list'.rows = a.hits
        /\ \A e \in DOMAIN answers' : e \in DOMAIN answers
        /\ \A e \in DOMAIN requests' : e \in DOMAIN requests \/ e = r \/ e = SignaturesOf(list)
        /\ IF Counted(a.facet) = list.total THEN noted' = noted
           ELSE /\ r \in DOMAIN requests'
                /\ noted'.disturbed = Disturbs(r, DOMAIN requests \cup {b.to : b \in DOMAIN answers'})
    BY <1>1, DeliverFlight
  <1>3. IsReports(r) /\ r.selection = list.selection /\ r.page = list.page /\ ~IsReports(SignaturesOf(list))
    BY <1>1, AsksForChosen, AsksForSignatures
  <1>4. \A e : ForShown(e)' <=> ForShown(e)
    BY <1>2 DEF ForShown, IsReports
  <1>5. ForShown(r) /\ ForShown(SignaturesOf(list))
    BY <1>3 DEF ForShown
  <1>6. \A b \in DOMAIN answers' : IsReports(b.to)
    BY <1>2 DEF CalmInv
  <1>7. CASE Counted(a.facet) = list.total
    <2>1. ASSUME Calm PROVE Calm'
      <3>1. a.hits = Hits(Filtered(index, list.selection), list.page, Rows) /\ Counted(a.facet) = TotalOf(index, list.selection)
        <4>1. a = AnswerTo(a.to) /\ a.to.selection = list.selection /\ a.to.page = list.page
          BY <2>1 DEF Calm, CalmInv, ForShown
        <4> QED
          BY <4>1, AnswerShows
      <3>2. Shown'
        BY <1>2, <3>1 DEF Shown
      <3>3. \A b \in DOMAIN answers' : ForShown(b.to) /\ b = AnswerTo(b.to)'
        BY <1>2, <2>1, SameAnswers DEF Calm
      <3> QED
        BY <1>2, <1>4, <1>5, <2>1, <3>2, <3>3 DEF Calm
    <2> QED
      BY <1>2, <1>6, <1>7, <2>1 DEF CalmInv, IsReports
  <1>8. CASE Counted(a.facet) # list.total
    <2>1. PICK others : others = DOMAIN requests \cup {b.to : b \in DOMAIN answers'}
      OBVIOUS
    <2>2. r \in DOMAIN requests' /\ noted'.disturbed = Disturbs(r, others)
      BY <1>2, <1>8, <2>1
    <2>3. ASSUME view # "home", ~noted'.disturbed PROVE Calm'
      <3>1. \A o \in others : IsReports(o) => o = r /\ ~noted.disturbed
        BY <2>2, <2>3, AskSame
      <3>2. \A e \in DOMAIN requests' : ForShown(e)
        BY <1>2, <1>5, <2>1, <3>1 DEF ForShown
      <3>3. ASSUME NEW b \in DOMAIN answers' PROVE ForShown(b.to) /\ b = AnswerTo(b.to)
        <4>1. b.to \in others /\ IsReports(b.to) /\ b \in DOMAIN answers
          BY <1>2, <1>6, <2>1
        <4>2. Calm
          BY <2>3, <3>1, <4>1 DEF CalmInv
        <4> QED
          BY <4>1, <4>2 DEF Calm
      <3>4. \A b \in DOMAIN answers' : ForShown(b.to) /\ b = AnswerTo(b.to)'
        BY <3>3, SameAnswers
      <3> QED
        BY <1>3, <1>4, <2>2, <3>2, <3>4 DEF Calm, IsReports
    <2> QED
      BY <1>6, <2>3 DEF CalmInv, IsReports
  <1> QED
    BY <1>7, <1>8

\* Every step.
LEMMA NextCalm == ASSUME Flight, CalmInv, [Next]_vars PROVE CalmInv'
  <1>1. CASE Choose /\ UNCHANGED <<index, now, view, chart>>
    BY <1>1, ChooseCalm
  <1>2. CASE Answer /\ UNCHANGED <<index, now, view, chart>>
    <2>1. DOMAIN requests = BagToSet(requests) /\ DOMAIN answers = BagToSet(answers)
      BY DEF BagToSet
    <2> QED
      BY <1>2, <2>1, DeliverCalm, RestCalm, ServeCalm DEF Answer
  <1>3. CASE HomeStep \/ Pass \/ UNCHANGED vars
    <2>1. UNCHANGED <<index, view, list, requests, answers, noted>>
      BY <1>3 DEF HomeStep, Pass, Tick, vars, listVars
    <2>2. \A e : ForShown(e)' <=> ForShown(e)
      BY <2>1 DEF ForShown, IsReports
    <2>3. Calm => Calm'
      BY <2>1, <2>2, SameAnswers DEF Calm, IsReports
    <2> QED
      BY <2>1, <2>3 DEF CalmInv, IsReports
  <1>4. CASE Grow
    <2>1. NoteArrival /\ UNCHANGED <<view, list, requests, answers>>
      BY <1>4 DEF Grow
    <2>2. noted'.disturbed = TRUE
      BY <2>1, GrowFlight
    <2> QED
      BY <2>1, <2>2 DEF CalmInv, IsReports
  <1> QED
    BY <1>1, <1>2, <1>3, <1>4 DEF Next, ListStep

\* The reports that arrive are later than others of their time, and of a known product.
LEMMA NextDocs == ASSUME DocsInv, [Next]_vars PROVE DocsInv'
  <1>1. CASE UNCHANGED <<index, now>>
    BY <1>1 DEF DocsInv
  <1>2. CASE Tick /\ UNCHANGED index
    <2>1. now' = now + 1 /\ UNCHANGED index /\ now \in Nat /\ Lag \in Nat /\ MaxNow \in Nat
      BY <1>2, IndexAssumption DEF Tick, DocsInv
    <2>2. \A d \in index : d.date \in Int \ ((now' - Lag) .. (MaxNow - 1 - Lag))
      BY <2>1 DEF DocsInv
    <2> QED
      BY <2>1, <2>2 DEF DocsInv
  <1>3. CASE Arrive
    <2>1. PICK r \in Reports : index' = index \cup {Document(r, now - Lag)}
      BY <1>3 DEF Arrive
    <2>2. PICK e : e = Document(r, now - Lag)
      OBVIOUS
    <2>3. now < MaxNow /\ now' = now + 1 /\ now \in Nat /\ Lag \in Nat /\ MaxNow \in Nat /\ IsFiniteSet(index)
      BY <1>3, IndexAssumption DEF Arrive, DocsInv
    <2>4. e.date = now - Lag /\ e.product \in Products
      BY <2>1, <2>2 DEF Document, Products
    <2>5. IsFiniteSet(index')
      BY <2>1, <2>3, FS_AddElement
    <2>6. e.date \in Int \ ((now' - Lag) .. (MaxNow - 1 - Lag)) /\ e.date \in (now - Lag) .. (MaxNow - 1 - Lag)
      BY <2>3, <2>4
    <2>7. \A d \in index : d.date \in Int \ ((now' - Lag) .. (MaxNow - 1 - Lag)) /\ d.date # e.date
      BY <2>3, <2>6 DEF DocsInv
    <2> QED
      BY <2>1, <2>2, <2>3, <2>4, <2>5, <2>6, <2>7 DEF DocsInv
  <1> QED
    BY <1>1, <1>2, <1>3 DEF Next, ListStep, HomeStep, Grow, Pass, vars, Tick

\* A page that opens has shown nothing yet.
LEMMA InitCalm == ASSUME FiniteIndexes, DatesDiffer, Init PROVE CalmInv /\ DocsInv
  <1>1. CalmInv
    BY InitFlight DEF CalmInv, Calm, ForShown
  <1>2. index \in Indexes /\ now = Now /\ Now \in Nat
    BY IndexAssumption DEF Init, InitIndex
  <1>3. \A d \in index : d.product \in Products
    BY <1>2 DEF Products
  <1>4. DocsInv
    BY <1>2, <1>3 DEF DocsInv, FiniteIndexes, DatesDiffer
  <1> QED
    BY <1>1, <1>4

\* Requests that do not overlap with others leave the chosen page of the reports that match,
\* and their number, whatever was chosen, arrived, failed or overlapped before.
THEOREM SearchQuietListIsCurrent ==
  ASSUME FiniteIndexes, DatesDiffer, ProductsFit, Rows <= MaxSize
  PROVE  Spec => []QuietListIsCurrent
  <1> DEFINE Inv == Flight /\ TotalInv /\ PagesInv /\ CalmInv /\ DocsInv
  <1>1. Init => Inv
    BY InitFlight, InitPages, InitCalm DEF TotalInv, Asked
  <1>2. Inv /\ [Next]_vars => Inv'
    <2> SUFFICES ASSUME Inv, [Next]_vars PROVE Inv'
      OBVIOUS
    <2>1. PagesInv'
      BY ChoosePages, AnswerPages, OtherPages DEF Next, ListStep
    <2>2. CalmInv' /\ DocsInv'
      BY NextCalm, NextDocs
    <2> QED
      BY <2>1, <2>2, NextTotal
  <1>3. Inv => QuietListIsCurrent
    <2> SUFFICES ASSUME Inv, view # "home", Quiet, ~noted.failed, ~noted.disturbed PROVE QuietListIsCurrent
      BY DEF QuietListIsCurrent
    <2>1. DOMAIN requests = {} /\ DOMAIN answers = {}
      BY EmptyIsBag, Zenon DEF Quiet
    <2>2. Shown
      BY <2>1 DEF CalmInv, Calm
    <2>3. PICK docs : docs = Matching(index, list.selection)
      OBVIOUS
    <2>4. list.rows = Hits(docs, list.page, Rows) /\ list.total = Counted(Facet(docs, "product"))
      BY <2>2, <2>3, FilteredIs DEF Shown, TotalOf
    <2>5. docs \in SUBSET index
      BY <2>3 DEF Matching
    <2>6. IsFiniteSet(docs) /\ Dated(docs) /\ \A d \in docs : d.product \in Products
      BY <2>5, FS_Subset DEF DocsInv, Dated
    <2>7. list.page \in Nat \ {0}
      BY DEF PagesInv, ShownOK
    <2>8. ToSet(list.rows) = {d \in docs : Newer(d, docs) \div Rows = list.page - 1}
      <3>1. PICK page : page = list.page
        OBVIOUS
      <3>2. page \in Nat \ {0}
        BY <2>7, <3>1
      <3>3. ToSet(Hits(docs, page, Rows)) = {d \in docs : Newer(d, docs) \div Rows = page - 1}
        BY <2>6, <3>2, HitsAre
      <3> QED
        BY <2>4, <3>1, <3>3
    <2>9. list.total = Cardinality({d \in docs : d.product # None})
      BY <2>4, <2>6, TotalIs, Zenon
    <2> QED
      BY <2>3, <2>8, <2>9, Zenon DEF QuietListIsCurrent, Matching
  <1> HIDE DEF Inv
  <1> QED
    BY <1>1, <1>2, <1>3, PTL DEF Spec

-----------------------------------------------------------------------------
(* The chart. *)

\* What a histogram has for a version and a day.
CountOf(histogram, v, n) == Counted({b \in UNION {h.facet : h \in {g \in histogram : g.day = n}} : b.term = v})

\* The reports of a version and a day.
CellOf(docs, v, n) == {d \in docs : d.version # None /\ d.version = v /\ d.date \div Day = n}

\* A histogram counts the reports of each version and day, as long as the versions fit.
LEMMA CountIs ==
  ASSUME NEW docs, IsFiniteSet(docs), NEW named, IsFiniteSet(named), Cardinality(named) <= FacetSize,
         TermsOf(docs, "version") \subseteq named, NEW histogram, histogram = Histogram(docs, "version"), NEW v, NEW n
  PROVE  /\ CountOf(histogram, v, n) = Cardinality(CellOf(docs, v, n))
         /\ CellOf(docs, v, n) # {} => /\ CountOf(histogram, v, n) > 0
                                       /\ \E h \in histogram : h.day = n /\ \E b \in h.facet : b.term = v
  <1> DEFINE On(day) == {d \in docs : d.date \div Day = day}
             days == {d.date \div Day : d \in docs}
  <1>1. \A day : On(day) \in SUBSET docs /\ TermsOf(On(day), "version") \subseteq named
    BY DEF TermsOf
  <1>2. \A day : IsFiniteSet(On(day))
    <2> HIDE DEF On
    <2> QED
      BY <1>1, FS_Subset
  <1>3. PICK buckets, picked, cell :
           /\ buckets = BucketsOf(On(n), "version") /\ cell = CellOf(docs, v, n)
           /\ picked = {b \in UNION {h.facet : h \in {g \in histogram : g.day = n}} : b.term = v}
    OBVIOUS
  <1>4. Facet(On(n), "version") = buckets
    <2>1. PICK on : on = On(n)
      OBVIOUS
    <2>2. IsFiniteSet(on) /\ TermsOf(on, "version") \subseteq named
      BY <1>1, <1>2, <2>1
    <2>3. Facet(on, "version") = BucketsOf(on, "version")
      BY <2>2, BucketsFit
    <2> QED
      BY <1>3, <2>1, <2>3
  <1>5. histogram = {[day |-> m, facet |-> Facet(On(m), "version")] : m \in days}
    BY DEF Histogram
  <1>6. \A h \in histogram : h.day = n => n \in days /\ h.facet = buckets
    <2> HIDE DEF On, days
    <2> QED
      BY <1>4, <1>5
  <1>7. n \in days => \E h \in histogram : h.day = n /\ h.facet = buckets
    <2>1. PICK h : h = [day |-> n, facet |-> buckets]
      OBVIOUS
    <2>2. h.day = n /\ h.facet = buckets
      BY <2>1
    <2> HIDE DEF On, days
    <2>3. h = [day |-> n, facet |-> Facet(On(n), "version")]
      BY <1>4, <2>1
    <2>4. n \in days => h \in histogram
      BY <1>5, <2>3
    <2> QED
      BY <2>2, <2>4
  <1>8. \A b : b \in picked <=> n \in days /\ b \in buckets /\ b.term = v
    <2> HIDE DEF On, days
    <2> QED
      BY <1>3, <1>6, <1>7
  <1>9. Counted(picked) = Cardinality(InBucket(On(n), "version", picked))
    <2>1. PICK on : on = On(n)
      OBVIOUS
    <2>2. IsFiniteSet(on) /\ picked \subseteq BucketsOf(on, "version")
      BY <1>2, <1>3, <1>8, <2>1
    <2>3. Counted(picked) = Cardinality(InBucket(on, "version", picked))
      BY <2>2, CountedIs
    <2> QED
      BY <2>1, <2>3
  <1>10. /\ \A b \in buckets : b.term # None
         /\ \A d \in On(n) : d.version # None => \E b \in buckets : b.term = d.version
    <2>1. PICK on : on = On(n)
      OBVIOUS
    <2>2. IsFiniteSet(on) /\ buckets = BucketsOf(on, "version")
      BY <1>2, <1>3, <2>1
    <2>3. /\ \A b \in buckets : b.term # None
          /\ \A d \in on : d["version"] # None => \E b \in buckets : b.term = d["version"]
      BY <2>2, BucketsFinite
    <2> QED
      BY <2>1, <2>3
  <1>11. \A d \in cell : d \in On(n) /\ n \in days /\ d.version = v /\ d.version # None
    BY <1>3 DEF CellOf
  <1>12. InBucket(On(n), "version", picked) = cell
    <2>1. \A d \in On(n) : d.version # None /\ d.version = v => d \in cell
      BY <1>3 DEF CellOf
    <2>2. \A d : d \in InBucket(On(n), "version", picked) <=> d \in On(n) /\ \E b \in picked : b.term = d.version
      BY DEF InBucket
    <2> HIDE DEF On, days
    <2> QED
      BY <1>8, <1>10, <1>11, <2>1, <2>2
  <1>13. CountOf(histogram, v, n) = Cardinality(cell)
    BY <1>3, <1>9, <1>12 DEF CountOf
  <1>14. cell # {} => Cardinality(cell) > 0
    <2>1. cell \in SUBSET docs
      BY <1>3 DEF CellOf
    <2>2. IsFiniteSet(cell) /\ Cardinality(cell) \in Nat
      BY <2>1, FS_Subset, FS_CardinalityType
    <2> QED
      BY <2>2, FS_EmptySet
  <1>15. cell # {} => \E h \in histogram : h.day = n /\ \E b \in h.facet : b.term = v
    <2> HIDE DEF On, days
    <2> QED
      BY <1>7, <1>10, <1>11
  <1> QED
    BY <1>3, <1>13, <1>14, <1>15

\* What the sum of the cells goes through.
CellsOf(g, cells, D) == g = [s \in SUBSET D |->
    IF s = {} THEN 0 ELSE cells[CHOOSE x \in s : TRUE] + g[s \ {CHOOSE x \in s : TRUE}]]

\* Numbers of sets that have nothing in common add up to the number of all.
LEMMA CellsAdd ==
  ASSUME NEW D, IsFiniteSet(D), NEW cells, NEW part, NEW all, Parts(D, cells, part, all)
  PROVE  FoldSet(LAMBDA x, n : cells[x] + n, 0, D) = Cardinality(all)
  <1>1. PICK f : f = CHOOSE g : CellsOf(g, cells, D)
    OBVIOUS
  <1>2. FoldSet(LAMBDA x, n : cells[x] + n, 0, D) = f[D]
    BY <1>1 DEF FoldSet, MapThenFoldSet, CellsOf
  <1>3. \A g : Adds(g, cells, SUBSET D) <=> CellsOf(g, cells, D)
    BY DEF Adds, Some, CellsOf
  <1>4. \E g : Adds(g, cells, SUBSET D)
    BY AddsExists
  <1>5. Adds(f, cells, SUBSET D)
    BY <1>1, <1>3, <1>4, Zenon
  <1> QED
    BY <1>2, <1>5, AddsParts

\* The times and versions of the chart.
ChartInv == ChartOK /\ chart.end \in Int /\ chart.start \in Int /\ IsFiniteSet(chart.versions)

\* A chart that is drawn has each report of its days in one cell.
LEMMA DrawCounts ==
  ASSUME None \notin Int, IsFiniteSet(index), ChartInv, GetHistogram PROVE IsCounted
  <1> DEFINE docs == Filtered(index, ChartDays)
             all == {d \in index : d.date >= Format(chart.start) /\ d.date < Format(chart.end) /\ d.version # None}
             named == {d.version : d \in index} \ {None}
             cells == chart'.cells
  <1> SUFFICES ASSUME chart'.pc = "drawn", NaN \notin {cells[x] : x \in DOMAIN cells}, Cardinality(named) <= FacetSize
               PROVE  FoldSet(LAMBDA x, n : cells[x] + n, 0, DOMAIN cells) = Cardinality(all)
    BY DEF IsCounted
  <1>1. docs = {d \in index : d.date >= Format(chart.start) /\ d.date < Format(chart.end)}
    <2>1. PICK s : s = ChartDays
      OBVIOUS
    <2>2. s.product = {} /\ s.version = {} /\ s.gte # None /\ s.lt # None /\ s.gte = chart.start /\ s.lt = chart.end
      BY <2>1 DEF ChartDays, ChartInv
    <2>3. docs = Matching(index, s)
      BY <2>1, FilteredIs
    <2> HIDE DEF docs
    <2> QED
      BY <2>2, <2>3 DEF Matching
  <1>2. docs \in SUBSET index /\ IsFiniteSet(docs) /\ TermsOf(docs, "version") \subseteq named
    <2>1. docs \in SUBSET index
      BY <1>1
    <2> HIDE DEF docs
    <2> QED
      BY <2>1, FS_Subset DEF TermsOf
  <1>3. IsFiniteSet(named)
    <2>1. PICK f, values : f = [d \in index |-> d.version] /\ values = {d.version : d \in index}
      OBVIOUS
    <2>2. f \in Surjection(index, values)
      BY <2>1 DEF Surjection
    <2>3. IsFiniteSet(values)
      BY <2>2, FS_Surjection
    <2> QED
      BY <2>1, <2>3, FS_Subset
  <1>4. PICK histogram : histogram = Histogram(docs, "version")
    OBVIOUS
  <1> HIDE DEF docs, named
  <1>5. PICK grid, beyond :
           /\ grid = Grid
           /\ beyond = {x \in chart.versions \X {h.day : h \in histogram} :
                           x[2] \notin Grid /\ CountOf(histogram, x[1], x[2]) > 0}
    OBVIOUS
  <1>6. /\ UNION {{b.term : b \in h.facet} : h \in histogram} \subseteq chart.versions
        /\ cells = [x \in (chart.versions \X grid) \cup beyond |->
                       IF x \in beyond THEN NaN ELSE CountOf(histogram, x[1], x[2])]
    <2>1. Draw(histogram)
      BY <1>4 DEF GetHistogram, docs
    <2>2. chart' = IF UNION {{b.term : b \in h.facet} : h \in histogram} \subseteq chart.versions
                   THEN [chart EXCEPT !.pc = "drawn", !.cells =
                           [x \in (chart.versions \X grid) \cup beyond |->
                               IF x \in beyond THEN NaN ELSE CountOf(histogram, x[1], x[2])]]
                   ELSE [chart EXCEPT !.pc = "thrown"]
      BY <1>5, <2>1 DEF Draw, CountOf
    <2>3. PICK drawn : drawn = [x \in (chart.versions \X grid) \cup beyond |->
                                   IF x \in beyond THEN NaN ELSE CountOf(histogram, x[1], x[2])]
      OBVIOUS
    <2>4. chart' = IF UNION {{b.term : b \in h.facet} : h \in histogram} \subseteq chart.versions
                   THEN [chart EXCEPT !.pc = "drawn", !.cells = drawn] ELSE [chart EXCEPT !.pc = "thrown"]
      BY <2>2, <2>3
    <2>5. "drawn" # "thrown" /\ [chart EXCEPT !.pc = "thrown"].pc = "thrown" /\ [chart EXCEPT !.pc = "drawn", !.cells = drawn].cells = drawn
      BY DEF ChartInv, ChartOK
    <2> QED
      BY <2>3, <2>4, <2>5
  <1>7. beyond = {}
    BY <1>6
  <1>8. DOMAIN cells = chart.versions \X grid /\ \A x \in DOMAIN cells : cells[x] = CountOf(histogram, x[1], x[2])
    BY <1>6, <1>7
  <1>9. IsFiniteSet(DOMAIN cells)
    <2>1. Days \in Nat
      BY ChartAssumption
    <2>2. IsFiniteSet(0 .. Days + 1)
      BY <2>1, FS_Interval
    <2>3. PICK f : f = [k \in Steps |-> (chart.start + k * Day) \div Day]
      OBVIOUS
    <2>4. Steps \in SUBSET (0 .. Days + 1)
      BY DEF Steps
    <2>5. f \in Surjection(Steps, grid)
      BY <1>5, <2>3 DEF Surjection, Grid
    <2>6. IsFiniteSet(Steps)
      BY <2>2, <2>4, FS_Subset
    <2>7. IsFiniteSet(grid)
      BY <2>5, <2>6, FS_Surjection
    <2> QED
      BY <1>8, <2>7, FS_Product DEF ChartInv
  <1>10. PICK part : part = [x \in DOMAIN cells |-> CellOf(docs, x[1], x[2])]
    OBVIOUS
  <1>11. \A x \in DOMAIN cells : part[x] \in SUBSET docs /\ cells[x] = Cardinality(part[x])
    BY <1>2, <1>3, <1>4, <1>8, <1>10, CountIs DEF CellOf
  <1>12. \A x \in DOMAIN cells : IsFiniteSet(part[x])
    BY <1>2, <1>11, FS_Subset
  <1>13. \A x, y \in DOMAIN cells : \A d : d \in part[x] /\ d \in part[y] => x = y
    BY <1>8, <1>10 DEF CellOf
  <1>14. ASSUME NEW d \in all PROVE \E x \in DOMAIN cells : d \in part[x]
    <2>1. PICK v, n : v = d.version /\ n = d.date \div Day
      OBVIOUS
    <2>2. d \in CellOf(docs, v, n)
      BY <1>1, <2>1 DEF CellOf
    <2>3. CountOf(histogram, v, n) > 0 /\ \E h \in histogram : h.day = n /\ \E b \in h.facet : b.term = v
      BY <1>2, <1>3, <1>4, <2>2, CountIs
    <2>4. v \in chart.versions
      BY <1>6, <2>3
    <2>5. n \in grid
      <3>1. <<v, n>> \in chart.versions \X {h.day : h \in histogram}
        BY <2>3, <2>4
      <3>2. n \notin grid => <<v, n>> \in beyond
        BY <1>5, <2>3, <3>1
      <3> QED
        BY <1>7, <3>2
    <2>6. <<v, n>> \in DOMAIN cells
      BY <1>8, <2>4, <2>5
    <2> QED
      BY <1>10, <2>2, <2>6
  <1>15. \A x \in DOMAIN cells : \A d \in part[x] : d \in all
    BY <1>1, <1>10 DEF CellOf
  <1>16. Parts(DOMAIN cells, cells, part, all)
    BY <1>11, <1>12, <1>13, <1>14, <1>15 DEF Parts
  <1> HIDE DEF all, cells
  <1> QED
    BY <1>9, <1>16, CellsAdd

\* The chart's times are numbers, and its versions those of an index.
LEMMA ChartKeeps ==
  ASSUME ChartInv, IsFiniteSet(index), now \in Nat, ChartStep PROVE ChartInv'
  <1>1. Days \in Nat /\ Day \in Nat /\ Shifts \subseteq Int
    BY ChartAssumption, IndexAssumption
  <1>2. CASE ReadEnd
    <2>1. chart' = [chart EXCEPT !.pc = "start", !.end = now]
      BY <1>2 DEF ReadEnd
    <2>2. chart'.end = now /\ chart'.start = chart.start /\ chart'.versions = chart.versions
      BY <2>1 DEF ChartInv, ChartOK
    <2>3. ChartOK'
      BY <2>1 DEF ChartInv, ChartOK
    <2> QED
      BY <2>2, <2>3 DEF ChartInv
  <1>3. CASE ReadStart
    <2>1. PICK s \in Shifts : chart' = [chart EXCEPT !.pc = "versions", !.start = now - Days * Day + s]
      BY <1>3 DEF ReadStart
    <2>2. PICK start : start = now - Days * Day + s
      OBVIOUS
    <2>3. start \in Int
      BY <1>1, <2>2
    <2>4. chart' = [chart EXCEPT !.pc = "versions", !.start = start]
      BY <2>1, <2>2
    <2> QED
      BY <2>3, <2>4 DEF ChartInv, ChartOK
  <1>4. CASE GetVersions
    <2>1. PICK facet, buckets, versions : /\ facet = Facet(index, "version") /\ buckets = BucketsOf(index, "version")
                                          /\ versions = {b.term : b \in facet}
      OBVIOUS
    <2>2. facet \in SUBSET buckets /\ IsFiniteSet(buckets)
      BY <2>1, BucketsFinite, FacetIs
    <2>3. IsFiniteSet(facet)
      BY <2>2, FS_Subset
    <2>4. PICK f : f = [b \in facet |-> b.term]
      OBVIOUS
    <2>5. f \in Surjection(facet, versions)
      BY <2>1, <2>4 DEF Surjection
    <2>6. IsFiniteSet(versions)
      BY <2>3, <2>5, FS_Surjection
    <2>7. chart' = [chart EXCEPT !.pc = "histogram", !.versions = versions]
      BY <1>4, <2>1 DEF GetVersions
    <2> QED
      BY <2>6, <2>7 DEF ChartInv, ChartOK
  <1>5. CASE GetHistogram
    <2>1. PICK cells : \/ chart' = [chart EXCEPT !.pc = "drawn", !.cells = cells]
                       \/ chart' = [chart EXCEPT !.pc = "thrown"]
      BY <1>5 DEF GetHistogram, Draw
    <2> QED
      BY <2>1 DEF ChartInv, ChartOK
  <1>6. CASE Fail
    BY <1>6 DEF ChartInv, ChartOK, Fail
  <1> QED
    BY <1>2, <1>3, <1>4, <1>5, <1>6 DEF ChartStep

\* The chart counts each crash once, whatever arrived between its searches.
THEOREM SearchChartCountsEach == ASSUME FiniteIndexes, None \notin Int PROVE Spec => ChartCountsEach
  <1> DEFINE Inv == IsFiniteSet(index) /\ now \in Nat /\ ChartInv
  <1>1. Init => Inv
    <2> SUFFICES ASSUME Init PROVE Inv
      OBVIOUS
    <2>1. IsFiniteSet(index) /\ now \in Nat
      BY IndexAssumption DEF Init, InitIndex, FiniteIndexes
    <2>2. ChartInv
      BY FS_EmptySet DEF Init, InitChart, ChartInv, ChartOK
    <2> QED
      BY <2>1, <2>2
  <1>2. ASSUME Inv, [Next]_vars PROVE Inv' /\ [IsCounted]_vars
    <2>1. CASE HomeStep
      <3>1. UNCHANGED <<index, now>> /\ ChartStep
        BY <2>1 DEF HomeStep
      <3>2. ChartInv'
        BY <1>2, <3>1, ChartKeeps
      <3>3. ASSUME chart.pc = "histogram", chart'.pc = "drawn" PROVE GetHistogram
        <4>1. Fail => chart'.pc = "failed"
          BY <1>2 DEF Fail, ChartInv, ChartOK
        <4> QED
          BY <3>1, <3>3, <4>1 DEF ChartStep, ReadEnd, ReadStart, GetVersions
      <3>4. GetHistogram => IsCounted
        BY <1>2, DrawCounts
      <3>5. IsCounted
        <4>1. ~(chart.pc = "histogram" /\ chart'.pc = "drawn") => IsCounted
          BY DEF IsCounted
        <4> QED
          BY <3>3, <3>4, <4>1
      <3> QED
        BY <1>2, <3>1, <3>2, <3>5
    <2>2. CASE ListStep \/ Grow \/ Pass \/ UNCHANGED vars
      <3>1. UNCHANGED chart
        BY <2>2 DEF ListStep, Grow, Pass, vars
      <3>2. ~(chart.pc = "histogram" /\ chart'.pc = "drawn")
        BY <3>1
      <3>3. IsCounted
        BY <3>2 DEF IsCounted
      <3>4. IsFiniteSet(index') /\ now' \in Nat
        BY <1>2, <2>2, FS_AddElement DEF ListStep, Grow, Arrive, Pass, Tick, vars
      <3>5. ChartInv'
        BY <1>2, <3>1 DEF ChartInv, ChartOK
      <3> QED
        BY <3>3, <3>4, <3>5
    <2> QED
      BY <1>2, <2>1, <2>2 DEF Next
  <1> HIDE DEF Inv
  <1>3. Inv /\ [Next]_vars => Inv' /\ [IsCounted]_vars
    BY <1>2
  <1> QED
    BY <1>1, <1>3, PTL DEF Spec, ChartCountsEach
=============================================================================
