----------------------------- MODULE Induction -----------------------------
(* Induction over the natural numbers, stated of sets, and what it gives   *)
(* of the sums that FoldSet goes through, for sets of any size.            *)
EXTENDS Integers, FiniteSets, TLAPS, WellFoundedInduction, FiniteSetTheorems

\* Every set of natural numbers has a least one.
LEMMA Least == ASSUME NEW T, T \subseteq Nat, T # {} PROVE \E n \in T : \A m \in T : n <= m
  <1>1. PICK R : R = OpToRel(<, Nat)
    OBVIOUS
  <1>2. IsWellFoundedOn(R, Nat)
    BY <1>1, NatLessThanWellFounded
  <1>3. \E n \in T : \A m \in T : <<m, n>> \notin R
    BY <1>2, WFMin, Zenon
  <1>4. \A m, n \in Nat : m < n => <<m, n>> \in R
    BY <1>1 DEF OpToRel
  <1>5. PICK n \in T : \A m \in T : <<m, n>> \notin R
    BY <1>3
  <1>6. ASSUME NEW m \in T PROVE n <= m
    <2>1. <<m, n>> \notin R /\ m \in Nat /\ n \in Nat
      BY <1>5
    <2>2. ~(m < n)
      BY <1>4, <2>1, Zenon
    <2> QED
      BY <2>1, <2>2
  <1> QED
    BY <1>5, <1>6

\* A set with zero and every successor has every natural number.
LEMMA Induct == ASSUME NEW T, 0 \in T, \A n \in Nat : n \in T => n + 1 \in T PROVE \A n \in Nat : n \in T
  <1> SUFFICES ASSUME NEW k \in Nat, k \notin T PROVE FALSE
    OBVIOUS
  <1>1. PICK n \in Nat \ T : \A m \in Nat \ T : n <= m
    BY Least
  <1>2. n # 0 /\ n - 1 \in Nat
    BY <1>1
  <1>3. n - 1 \in T
    BY <1>1, <1>2
  <1> QED
    BY <1>1, <1>2, <1>3

\* Numbers that are bounded have a greatest one.
LEMMA Greatest ==
  ASSUME NEW T, T \subseteq Nat, T # {}, NEW b \in Nat, \A t \in T : t <= b
  PROVE  \E n \in T : \A m \in T : m <= n
  <1>1. PICK n \in {m \in Nat : \A t \in T : t <= m} : \A m \in {k \in Nat : \A t \in T : t <= k} : n <= m
    BY Least
  <1>2. CASE n \in T
    BY <1>1, <1>2
  <1>3. CASE n \notin T
    <2>1. \A t \in T : t <= n - 1 /\ t \in Nat
      BY <1>1, <1>3
    <2>2. n - 1 \in Nat
      <3>1. PICK t \in T : t <= n - 1 /\ t \in Nat
        BY <2>1
      <3> QED
        BY <1>1, <3>1
    <2> QED
      BY <1>1, <2>1, <2>2
  <1> QED
    BY <1>2, <1>3

-----------------------------------------------------------------------------
(* Sums. *)

Some(s) == CHOOSE x \in s : TRUE

\* What FoldSet goes through: the sum of a set is one of its members and the rest.
Adds(f, w, D) == f = [s \in D |-> IF s = {} THEN 0 ELSE w[Some(s)] + f[s \ {Some(s)}]]

UpTo(S, n) == {s \in SUBSET S : Cardinality(s) <= n}

\* One of the members.
LEMMA SomeIn == ASSUME NEW s, s # {} PROVE Some(s) \in s
  BY DEF Some

\* A subset with one member less.
LEMMA OneLess ==
  ASSUME NEW S, IsFiniteSet(S), NEW s \in SUBSET S, s # {}
  PROVE  /\ IsFiniteSet(s) /\ Cardinality(s) \in Nat /\ Some(s) \in s
         /\ s \ {Some(s)} \in SUBSET S /\ Cardinality(s \ {Some(s)}) = Cardinality(s) - 1
  <1>1. Some(s) \in s
    BY SomeIn
  <1>2. IsFiniteSet(s)
    BY FS_Subset
  <1> QED
    BY <1>1, <1>2, FS_RemoveElement, FS_CardinalityType

\* There is such a function for the subsets of a finite set.
LEMMA AddsExists == ASSUME NEW S, IsFiniteSet(S), NEW w PROVE \E f : Adds(f, w, SUBSET S)
  <1> DEFINE T == {n \in Nat : \E f : Adds(f, w, UpTo(S, n))}
  <1>1. 0 \in T
    <2>1. UpTo(S, 0) = {{}}
      <3>1. \A s \in SUBSET S : IsFiniteSet(s) /\ Cardinality(s) \in Nat
        BY FS_Subset, FS_CardinalityType
      <3>2. \A s \in SUBSET S : Cardinality(s) <= 0 => s = {}
        BY <3>1, FS_EmptySet
      <3> QED
        BY <3>2, FS_EmptySet DEF UpTo
    <2>2. PICK f : f = [s \in {{}} |-> 0]
      OBVIOUS
    <2>3. f = [s \in {{}} |-> IF s = {} THEN 0 ELSE w[Some(s)] + f[s \ {Some(s)}]]
      BY <2>2
    <2>4. Adds(f, w, UpTo(S, 0))
      BY <2>1, <2>3 DEF Adds
    <2> QED
      BY <2>4
  <1>2. ASSUME NEW n \in Nat, n \in T PROVE n + 1 \in T
    <2>1. PICK f : Adds(f, w, UpTo(S, n))
      BY <1>2
    <2>2. PICK D, E : D = UpTo(S, n) /\ E = UpTo(S, n + 1)
      OBVIOUS
    <2>3. PICK g : g = [s \in E |-> IF s = {} THEN 0 ELSE w[Some(s)] + f[s \ {Some(s)}]]
      OBVIOUS
    <2>4. ASSUME NEW s \in E, s # {} PROVE s \ {Some(s)} \in D
      <3>1. s \in SUBSET S /\ Cardinality(s) <= n + 1
        BY <2>2 DEF UpTo
      <3> QED
        BY <2>2, <2>4, <3>1, OneLess DEF UpTo
    <2>5. ASSUME NEW t \in D PROVE f[t] = g[t]
      <3>1. t \in E
        <4>1. t \in SUBSET S /\ Cardinality(t) <= n
          BY <2>2 DEF UpTo
        <4>2. Cardinality(t) \in Nat
          BY <4>1, FS_Subset, FS_CardinalityType
        <4> QED
          BY <2>2, <4>1, <4>2 DEF UpTo
      <3>2. f = [s \in D |-> IF s = {} THEN 0 ELSE w[Some(s)] + f[s \ {Some(s)}]]
        BY <2>1, <2>2 DEF Adds
      <3>3. f[t] = IF t = {} THEN 0 ELSE w[Some(t)] + f[t \ {Some(t)}]
        BY <3>2
      <3> QED
        BY <2>3, <3>1, <3>3
    <2>6. \A s \in E : s # {} => f[s \ {Some(s)}] = g[s \ {Some(s)}]
      BY <2>4, <2>5
    <2>7. g = [s \in E |-> IF s = {} THEN 0 ELSE w[Some(s)] + g[s \ {Some(s)}]]
      BY <2>3, <2>6
    <2> QED
      BY <2>2, <2>7 DEF Adds
  <1>3. \A n \in Nat : n \in T
    <2> HIDE DEF T
    <2> QED
      BY <1>1, <1>2, Induct
  <1>4. Cardinality(S) \in T
    BY <1>3, FS_CardinalityType
  <1>5. UpTo(S, Cardinality(S)) = SUBSET S
    BY FS_Subset DEF UpTo
  <1> QED
    BY <1>4, <1>5

\* Finite sets that have nothing in common, their sizes, and all of them together.
Parts(S, w, part, all) ==
    /\ \A x \in S : IsFiniteSet(part[x]) /\ w[x] = Cardinality(part[x])
    /\ \A x, y \in S : \A e : e \in part[x] /\ e \in part[y] => x = y
    /\ \A e : e \in all <=> \E x \in S : e \in part[x]

\* The sum of the sizes is the size of all of them.
LEMMA AddsParts ==
  ASSUME NEW S, IsFiniteSet(S), NEW w, NEW f, Adds(f, w, SUBSET S), NEW part, NEW all, Parts(S, w, part, all)
  PROVE  IsFiniteSet(all) /\ f[S] = Cardinality(all)
  <1> DEFINE All(s) == UNION {part[x] : x \in s}
             T == {n \in Nat : \A s \in SUBSET S : Cardinality(s) = n => IsFiniteSet(All(s)) /\ f[s] = Cardinality(All(s))}
  <1>1. \A s \in SUBSET S : f[s] = IF s = {} THEN 0 ELSE w[Some(s)] + f[s \ {Some(s)}]
    BY DEF Adds
  <1>parts. /\ \A x \in S : IsFiniteSet(part[x]) /\ w[x] = Cardinality(part[x])
            /\ \A x, y \in S : \A e : e \in part[x] /\ e \in part[y] => x = y
            /\ \A e : e \in all <=> \E x \in S : e \in part[x]
    BY DEF Parts
  <1>2. 0 \in T
    <2>1. SUFFICES ASSUME NEW s \in SUBSET S, Cardinality(s) = 0 PROVE IsFiniteSet(All(s)) /\ f[s] = Cardinality(All(s))
      OBVIOUS
    <2>2. s = {}
      BY <2>1, FS_Subset, FS_EmptySet
    <2>3. All(s) = {} /\ f[s] = 0
      BY <1>1, <2>2
    <2> QED
      BY <2>3, FS_EmptySet
  <1>3. ASSUME NEW n \in Nat, n \in T PROVE n + 1 \in T
    <2>1. SUFFICES ASSUME NEW s \in SUBSET S, Cardinality(s) = n + 1 PROVE IsFiniteSet(All(s)) /\ f[s] = Cardinality(All(s))
      OBVIOUS
    <2>2. s # {}
      <3>1. Cardinality({}) = 0 /\ n + 1 # 0
        BY FS_EmptySet
      <3> QED
        BY <2>1, <3>1
    <2>3. PICK x, r : x = Some(s) /\ r = s \ {x}
      OBVIOUS
    <2>4. x \in s /\ r \in SUBSET S /\ Cardinality(r) = n
      <3>1. x \in s /\ r \in SUBSET S /\ Cardinality(r) = Cardinality(s) - 1
        BY <2>2, <2>3, OneLess
      <3> QED
        BY <2>1, <3>1
    <2>5. IsFiniteSet(All(r)) /\ f[r] = Cardinality(All(r))
      BY <1>3, <2>4
    <2>6. PICK p, q : p = part[x] /\ q = All(r)
      OBVIOUS
    <2>7. p \cap q = {}
      BY <1>parts, <2>3, <2>4, <2>6
    <2>8. All(s) = p \cup q
      BY <2>3, <2>4, <2>6
    <2>9. IsFiniteSet(p \cup q) /\ Cardinality(p \cup q) = Cardinality(p) + Cardinality(q) - Cardinality({})
      <3>1. IsFiniteSet(p) /\ IsFiniteSet(q)
        BY <1>parts, <2>4, <2>5, <2>6
      <3> HIDE DEF All
      <3> QED
        BY <2>7, <3>1, FS_Union
    <2>10. Cardinality(p) \in Nat /\ Cardinality(q) \in Nat /\ Cardinality({}) = 0
      BY <1>parts, <2>4, <2>5, <2>6, FS_CardinalityType, FS_EmptySet
    <2>11. f[s] = w[x] + f[r]
      BY <1>1, <2>2, <2>3
    <2>12. w[x] = Cardinality(p) /\ f[r] = Cardinality(q)
      BY <1>parts, <2>4, <2>5, <2>6
    <2> HIDE DEF All
    <2> QED
      BY <2>8, <2>9, <2>10, <2>11, <2>12
  <1>4. \A n \in Nat : n \in T
    <2> HIDE DEF T
    <2> QED
      BY <1>2, <1>3, Induct
  <1>5. Cardinality(S) \in T
    BY <1>4, FS_CardinalityType
  <1>6. all = All(S)
    BY <1>parts
  <1> QED
    BY <1>5, <1>6

\* Some k members have the greatest weights.
HasTop(S, w, k) == \E top \in SUBSET S : Cardinality(top) = k /\ \A x \in top, y \in S \ top : w[x] >= w[y]

\* As many members as are wanted have the greatest weights.
LEMMA TopExists ==
  ASSUME NEW S, IsFiniteSet(S), NEW w, NEW bound \in Nat, \A x \in S : w[x] \in Nat /\ w[x] <= bound,
         NEW k \in Nat, k <= Cardinality(S)
  PROVE  HasTop(S, w, k)
  <1> DEFINE IsTop(top, n) == Cardinality(top) = n /\ \A x \in top, y \in S \ top : w[x] >= w[y]
             T == {n \in Nat : n <= Cardinality(S) => \E top \in SUBSET S : IsTop(top, n)}
  <1>1. 0 \in T
    <2>1. IsTop({}, 0)
      BY FS_EmptySet
    <2> QED
      BY <2>1
  <1>2. ASSUME NEW n \in Nat, n \in T PROVE n + 1 \in T
    <2> SUFFICES ASSUME n + 1 <= Cardinality(S) PROVE \E top \in SUBSET S : IsTop(top, n + 1)
      OBVIOUS
    <2>1. Cardinality(S) \in Nat
      BY FS_CardinalityType
    <2>2. PICK top \in SUBSET S : IsTop(top, n)
      BY <1>2, <2>1
    <2>3. IsFiniteSet(top) /\ top # S
      BY <2>1, <2>2, FS_Subset
    <2>4. PICK W : W = {w[y] : y \in S \ top}
      OBVIOUS
    <2>5. W \subseteq Nat /\ W # {} /\ \A v \in W : v <= bound
      BY <2>2, <2>3, <2>4
    <2>6. PICK g \in W : \A v \in W : v <= g
      BY <2>5, Greatest
    <2>7. PICK y \in S \ top : w[y] = g
      BY <2>4, <2>6
    <2>8. \A z \in S \ top : w[y] >= w[z]
      BY <2>4, <2>5, <2>6, <2>7
    <2>9. Cardinality(top \cup {y}) = n + 1
      BY <2>2, <2>3, <2>7, FS_AddElement
    <2>10. \A x \in top \cup {y}, z \in S \ (top \cup {y}) : w[x] >= w[z]
      BY <2>2, <2>7, <2>8
    <2>11. IsTop(top \cup {y}, n + 1)
      BY <2>9, <2>10
    <2> QED
      BY <2>7, <2>11
  <1>3. \A n \in Nat : n \in T
    <2> HIDE DEF T
    <2> QED
      BY <1>1, <1>2, Induct
  <1>4. k \in T
    BY <1>3
  <1> QED
    BY <1>4 DEF HasTop

-----------------------------------------------------------------------------
(* Folds. *)

\* What a fold goes through: the members that pick names come last.
Folds(f, base, step, pick, D) ==
    f = [s \in D |-> IF s = {} THEN base ELSE step[<<f[s \ {pick[s]}], pick[s]>>]]

\* There is such a function for the subsets of a finite set.
LEMMA FoldsExist ==
  ASSUME NEW S, IsFiniteSet(S), NEW pick, \A s \in SUBSET S : s # {} => pick[s] \in s, NEW base, NEW step
  PROVE  \E f : Folds(f, base, step, pick, SUBSET S)
  <1> DEFINE T == {n \in Nat : \E f : Folds(f, base, step, pick, UpTo(S, n))}
  <1>1. \A s \in SUBSET S : IsFiniteSet(s) /\ Cardinality(s) \in Nat
    BY FS_Subset, FS_CardinalityType
  <1>2. 0 \in T
    <2>1. \A s \in SUBSET S : Cardinality(s) <= 0 => s = {}
      BY <1>1, FS_EmptySet
    <2>2. UpTo(S, 0) = {{}}
      BY <2>1, FS_EmptySet DEF UpTo
    <2>3. PICK f : f = [s \in {{}} |-> base]
      OBVIOUS
    <2>4. f = [s \in {{}} |-> IF s = {} THEN base ELSE step[<<f[s \ {pick[s]}], pick[s]>>]]
      BY <2>3
    <2> QED
      BY <2>2, <2>4 DEF Folds
  <1>3. ASSUME NEW n \in Nat, n \in T PROVE n + 1 \in T
    <2>1. PICK f : Folds(f, base, step, pick, UpTo(S, n))
      BY <1>3
    <2>2. PICK D, E : D = UpTo(S, n) /\ E = UpTo(S, n + 1)
      OBVIOUS
    <2>3. PICK g : g = [s \in E |-> IF s = {} THEN base ELSE step[<<f[s \ {pick[s]}], pick[s]>>]]
      OBVIOUS
    <2>4. ASSUME NEW s \in E, s # {} PROVE s \ {pick[s]} \in D
      <3>1. s \in SUBSET S /\ Cardinality(s) <= n + 1 /\ pick[s] \in s /\ IsFiniteSet(s) /\ Cardinality(s) \in Nat
        BY <1>1, <2>2, <2>4 DEF UpTo
      <3>2. PICK x : x = pick[s]
        OBVIOUS
      <3>3. Cardinality(s \ {x}) = Cardinality(s) - 1
        BY <3>1, <3>2, FS_RemoveElement
      <3> QED
        BY <2>2, <3>1, <3>2, <3>3 DEF UpTo
    <2>5. ASSUME NEW t \in D PROVE f[t] = g[t]
      <3>1. t \in E
        BY <1>1, <2>2 DEF UpTo
      <3>2. f = [s \in D |-> IF s = {} THEN base ELSE step[<<f[s \ {pick[s]}], pick[s]>>]]
        BY <2>1, <2>2 DEF Folds
      <3>3. f[t] = IF t = {} THEN base ELSE step[<<f[t \ {pick[t]}], pick[t]>>]
        BY <3>2
      <3> QED
        BY <2>3, <3>1, <3>3
    <2>6. \A s \in E : s # {} => f[s \ {pick[s]}] = g[s \ {pick[s]}]
      BY <2>4, <2>5
    <2>7. g = [s \in E |-> IF s = {} THEN base ELSE step[<<g[s \ {pick[s]}], pick[s]>>]]
      BY <2>3, <2>6
    <2> QED
      BY <2>2, <2>7 DEF Folds
  <1>4. \A n \in Nat : n \in T
    <2> HIDE DEF T
    <2> QED
      BY <1>2, <1>3, Induct
  <1>5. Cardinality(S) \in T
    BY <1>4, FS_CardinalityType
  <1>6. UpTo(S, Cardinality(S)) = SUBSET S
    BY FS_Subset DEF UpTo
  <1>7. PICK f : Folds(f, base, step, pick, UpTo(S, Cardinality(S)))
    BY <1>5
  <1>8. Folds(f, base, step, pick, SUBSET S)
    BY <1>6, <1>7, Zenon
  <1> QED
    BY <1>8

\* The greatest of the first numbers.
LEMMA TopOf ==
  ASSUME NEW n \in Nat, NEW s \in SUBSET (1 .. n), s # {}, NEW x, x = CHOOSE m \in s : \A k \in s : m >= k
  PROVE  x \in s /\ \A k \in s : k <= x
  <1>1. \E m \in s : \A k \in s : k <= m
    <2>1. s \subseteq Nat /\ \A k \in s : k <= n
      OBVIOUS
    <2> QED
      BY <2>1, Greatest
  <1>2. \A k \in s : k \in Int
    OBVIOUS
  <1>3. \E m \in s : \A k \in s : m >= k
    BY <1>1, <1>2
  <1> QED
    BY <1>2, <1>3

\* The same, as long as it stays in a set.
FoldsIn(f, base, step, pick, D, St) ==
    /\ f[{}] = base
    /\ \A s \in D : s # {} /\ f[s \ {pick[s]}] \in St => f[s] = step[<<f[s \ {pick[s]}], pick[s]>>]

\* A fold over the first numbers goes through them one by one, in a set that it stays in.
LEMMA FoldRuns ==
  ASSUME NEW n \in Nat, NEW St, NEW base \in St, NEW step, \A x \in St, i \in 1 .. n : step[<<x, i>>] \in St,
         NEW pick, pick = [s \in SUBSET (1 .. n) |-> CHOOSE m \in s : \A k \in s : m >= k],
         NEW f, FoldsIn(f, base, step, pick, SUBSET (1 .. n), St)
  PROVE  /\ f[{}] = base /\ \A k \in 1 .. n : f[1 .. k] = step[<<f[1 .. (k - 1)], k>>]
         /\ \A s \in SUBSET (1 .. n) : f[s] \in St
  <1>1. \A s \in SUBSET (1 .. n) : s # {} => pick[s] \in s /\ \A k \in s : k <= pick[s]
    BY TopOf
  <1>2. \A s \in SUBSET (1 .. n) : s # {} /\ f[s \ {pick[s]}] \in St => f[s] = step[<<f[s \ {pick[s]}], pick[s]>>]
    BY DEF FoldsIn
  <1>3. f[{}] = base
    BY DEF FoldsIn
  <1> DEFINE T == {m \in Nat : \A s \in SUBSET (1 .. n) : (\A k \in s : k <= m) => f[s] \in St}
  <1>4. 0 \in T
    <2>1. \A s \in SUBSET (1 .. n) : (\A k \in s : k <= 0) => s = {}
      OBVIOUS
    <2> QED
      BY <1>3, <2>1
  <1>5. ASSUME NEW m \in Nat, m \in T PROVE m + 1 \in T
    <2> SUFFICES ASSUME NEW s \in SUBSET (1 .. n), \A k \in s : k <= m + 1 PROVE f[s] \in St
      OBVIOUS
    <2>1. CASE s = {}
      BY <1>3, <2>1
    <2>2. CASE s # {}
      <3>1. PICK x, r : x = pick[s] /\ r = s \ {x}
        OBVIOUS
      <3>2. x \in s /\ (\A k \in s : k <= x) /\ x \in 1 .. n /\ r \in SUBSET (1 .. n)
        BY <1>1, <2>2, <3>1
      <3>3. \A k \in r : k <= m
        BY <3>1, <3>2
      <3>4. f[r] \in St
        BY <1>5, <3>2, <3>3
      <3>5. f[s \ {pick[s]}] \in St
        BY <3>1, <3>4
      <3>6. f[s] = step[<<f[s \ {pick[s]}], pick[s]>>]
        BY <1>2, <2>2, <3>5
      <3>7. f[s] = step[<<f[r], x>>]
        BY <3>1, <3>6
      <3> QED
        BY <3>2, <3>4, <3>7
    <2> QED
      BY <2>1, <2>2
  <1>6. \A m \in Nat : m \in T
    <2> HIDE DEF T
    <2> QED
      BY <1>4, <1>5, Induct
  <1>7. \A s \in SUBSET (1 .. n) : f[s] \in St
    <2>1. n \in T
      BY <1>6
    <2> QED
      BY <2>1
  <1>8. ASSUME NEW k \in 1 .. n PROVE f[1 .. k] = step[<<f[1 .. (k - 1)], k>>]
    <2>1. PICK s : s = 1 .. k
      OBVIOUS
    <2>2. s \in SUBSET (1 .. n) /\ k \in s
      BY <2>1
    <2>3. pick[s] = k
      BY <1>1, <2>1, <2>2
    <2>4. s \ {k} = 1 .. (k - 1)
      BY <2>1
    <2>5. f[s \ {k}] \in St
      BY <1>7, <2>2
    <2>6. s # {} /\ f[s] = step[<<f[s \ {k}], k>>]
      BY <1>2, <2>2, <2>3, <2>5
    <2> QED
      BY <2>1, <2>4, <2>6, Zenon
  <1> QED
    BY <1>3, <1>7, <1>8

\* What starts with a value and takes one step after another.
Runs(d, base, step, n, St) ==
    d[0] = base /\ (\A k \in 1 .. n : d[k] = step[<<d[k - 1], k>>]) /\ \A k \in 0 .. n : d[k] \in St

\* There is such a thing.
LEMMA RunExists ==
  ASSUME NEW n \in Nat, NEW St, NEW base \in St, NEW step, \A x \in St, i \in 1 .. n : step[<<x, i>>] \in St
  PROVE  \E d : Runs(d, base, step, n, St)
  <1>1. PICK pick : pick = [s \in SUBSET (1 .. n) |-> CHOOSE m \in s : \A k \in s : m >= k]
    OBVIOUS
  <1>2. \A s \in SUBSET (1 .. n) : s # {} => pick[s] \in s
    BY <1>1, TopOf
  <1>3. IsFiniteSet(1 .. n)
    BY FS_Interval
  <1>4. PICK f : Folds(f, base, step, pick, SUBSET (1 .. n))
    BY <1>2, <1>3, FoldsExist
  <1>5. FoldsIn(f, base, step, pick, SUBSET (1 .. n), St)
    BY <1>4 DEF Folds, FoldsIn
  <1>6. /\ f[{}] = base /\ \A k \in 1 .. n : f[1 .. k] = step[<<f[1 .. (k - 1)], k>>]
        /\ \A s \in SUBSET (1 .. n) : f[s] \in St
    BY <1>1, <1>5, FoldRuns
  <1>7. PICK d : d = [k \in 0 .. n |-> f[1 .. k]]
    OBVIOUS
  <1>8. \A k \in 0 .. n : 1 .. k \in SUBSET (1 .. n) /\ d[k] = f[1 .. k]
    BY <1>7
  <1>9. d[0] = base
    <2>1. 1 .. 0 = {} /\ 0 \in 0 .. n
      OBVIOUS
    <2> QED
      BY <1>6, <1>8, <2>1
  <1>10. ASSUME NEW k \in 1 .. n PROVE d[k] = step[<<d[k - 1], k>>]
    <2>1. k \in 0 .. n /\ k - 1 \in 0 .. n
      OBVIOUS
    <2> QED
      BY <1>6, <1>8, <2>1
  <1> QED
    BY <1>6, <1>8, <1>9, <1>10 DEF Runs
=============================================================================
