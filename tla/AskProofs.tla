------------------------------ MODULE AskProofs ------------------------------
(***************************************************************************)
(* Proofs about the answers, for every finite store, every command and     *)
(* every row another process may write. What an answer shows is a function *)
(* of the store when nobody writes; when somebody does, what stays in the  *)
(* store is still found, and what is cited is still shown.                 *)
(***************************************************************************)
EXTENDS Ask, FiniteSetTheorems, SequenceTheorems, WellFoundedInduction, TLAPS

-----------------------------------------------------------------------------
(* First elements.                                                          *)

\* Among subsets of a finite set one includes no other.
LEMMA LeastSet ==
  ASSUME NEW S, IsFiniteSet(S), NEW C \in SUBSET (SUBSET S), C # {}
  PROVE  \E T \in C : \A U \in C : U \subseteq T => U = T
<1>1. C \subseteq FiniteSubsetsOf(S)
  BY FS_Subset DEF FiniteSubsetsOf
<1>2. PICK T \in C : \A U \in C : ~(<<U, T>> \in StrictSubsetOrdering(S))
  BY <1>1, FS_StrictSubsetOrderingWellFounded, WFMin
<1>3. ASSUME NEW U \in C, U \subseteq T, U # T
      PROVE  <<U, T>> \in StrictSubsetOrdering(S)
  BY <1>3 DEF StrictSubsetOrdering
<1>4. ASSUME NEW U \in C, U \subseteq T
      PROVE  U = T
  BY <1>2, <1>3, <1>4
<1> QED
  BY <1>4

\* Whatever a finite set is ordered by, some element has none before it.
LEMMA FirstOf ==
  ASSUME NEW S, IsFiniteSet(S), S # {}, NEW R,
         \A x \in S : <<x, x>> \notin R,
         \A x, y, z \in S : <<x, y>> \in R /\ <<y, z>> \in R => <<x, z>> \in R
  PROVE  \E x \in S : \A y \in S : <<y, x>> \notin R
<1> DEFINE Before(x) == {y \in S : <<y, x>> \in R}
           C == {Before(x) : x \in S}
<1>1. PICK T \in C : \A U \in C : U \subseteq T => U = T
  <2>0. PICK x \in S : TRUE
    OBVIOUS
  <2>1. Before(x) \in C
    BY <2>0
  <2>2. C \subseteq SUBSET S
    <3>1. \A v \in S : Before(v) \in SUBSET S
      OBVIOUS
    <3> HIDE DEF Before
    <3> QED
      BY ONLY <3>1 DEF C
  <2> HIDE DEF C
  <2> QED
    BY <2>1, <2>2, LeastSet
<1>2. PICK x \in S : T = Before(x)
  BY <1>1
<1>3. ASSUME NEW y \in S, <<y, x>> \in R
      PROVE  FALSE
  <2>1. Before(y) \subseteq Before(x)
    BY <1>3
  <2>2. Before(y) \in C
    OBVIOUS
  <2>3. Before(y) = Before(x)
    BY <1>1, <1>2, <2>1, <2>2
  <2>4. y \in Before(x)
    BY <1>3
  <2>5. y \notin Before(y)
    OBVIOUS
  <2> QED
    BY <2>3, <2>4, <2>5
<1> QED
  BY <1>3

LEMMA MinOf ==
  ASSUME NEW S \in SUBSET Int, IsFiniteSet(S), S # {}
  PROVE  Min(S) \in S /\ \A y \in S : Min(S) <= y
<1> DEFINE R == {p \in S \X S : p[1] < p[2]}
<1>1. PICK x \in S : \A y \in S : <<y, x>> \notin R
  <2>1. \A x \in S : <<x, x>> \notin R
    OBVIOUS
  <2>2. \A x, y, z \in S : <<x, y>> \in R /\ <<y, z>> \in R => <<x, z>> \in R
    OBVIOUS
  <2> HIDE DEF R
  <2> QED
    BY <2>1, <2>2, FirstOf
<1>2. \A y \in S : x <= y
  <2>1. \A y \in S : y < x => <<y, x>> \in R
    BY Zenon
  <2>2. \A y \in S : ~(y < x)
    BY Zenon, <1>1, <2>1
  <2> QED
    BY <2>2
<1> QED
  BY <1>2 DEF Min

\* Rows with a time, in a table of their own.
Dated(S) == Table(S) /\ \A r \in S : r.at \in Nat /\ r.id \in Int

LEMMA TableSubset ==
  ASSUME NEW S, Table(S), NEW T \in SUBSET S
  PROVE  Table(T)
BY FS_Subset DEF Table

\* The newest row is one of them, and none is newer.
LEMMA NewestOf ==
  ASSUME NEW S, Dated(S), S # {}
  PROVE  Newest(S) \in S /\ \A d \in S : Newest(S).at >= d.at
<1> DEFINE R == {p \in S \X S : p[1].at > p[2].at \/ (p[1].at = p[2].at /\ p[1].id < p[2].id)}
<1>0. \A r \in S : r.at \in Nat /\ r.id \in Int
  BY DEF Dated
<1>1. PICK x \in S : \A y \in S : <<y, x>> \notin R
  <2>1. \A x \in S : <<x, x>> \notin R
    BY <1>0
  <2>2. \A x, y, z \in S : <<x, y>> \in R /\ <<y, z>> \in R => <<x, z>> \in R
    BY <1>0
  <2>3. IsFiniteSet(S)
    BY DEF Dated, Table
  <2> HIDE DEF R
  <2> QED
    BY <2>1, <2>2, <2>3, FirstOf
<1>2. \A d \in S : x.at > d.at \/ (x.at = d.at /\ x.id <= d.id)
  <2>1. ASSUME NEW y \in S, y.at > x.at \/ (y.at = x.at /\ y.id < x.id)
        PROVE  <<y, x>> \in R
    BY Zenon, <2>1
  <2>2. \A d \in S : ~(d.at > x.at \/ (d.at = x.at /\ d.id < x.id))
    BY Zenon, <1>1, <2>1
  <2> QED
    BY <1>0, <2>2
<1>3. /\ Newest(S) \in S
      /\ \A d \in S : Newest(S).at > d.at \/ (Newest(S).at = d.at /\ Newest(S).id <= d.id)
  BY <1>2 DEF Newest
<1> QED
  BY <1>0, <1>3

\* One alert is before all others in the order of the list.
LEMMA FirstAlert ==
  ASSUME NEW S, Dated(S), S # {}
  PROVE  \E a \in S : \A b \in S : b = a \/ alertSortLess(a, b)
<1> DEFINE R == {p \in S \X S : alertSortLess(p[1], p[2])}
<1>0. \A r \in S : r.at \in Nat /\ r.id \in Int /\ alertStatusRank(r) \in Nat
  BY DEF Dated, alertStatusRank
<1>1. PICK x \in S : \A y \in S : <<y, x>> \notin R
  <2>1. \A x \in S : <<x, x>> \notin R
    BY <1>0 DEF alertSortLess
  <2>2. \A x, y, z \in S : <<x, y>> \in R /\ <<y, z>> \in R => <<x, z>> \in R
    BY <1>0 DEF alertSortLess
  <2>3. IsFiniteSet(S)
    BY DEF Dated, Table
  <2> HIDE DEF R
  <2> QED
    BY <2>1, <2>2, <2>3, FirstOf
<1>2. \A b \in S : b # x => b.id # x.id
  BY DEF Dated, Table
<1>3. \A b \in S : ~alertSortLess(b, x)
  BY <1>1
<1>4. \A b \in S : b # x => alertSortLess(x, b)
  BY <1>0, <1>2, <1>3 DEF alertSortLess
<1> QED
  BY <1>4

\* The ranking's first row, when a service's agent mark depends on its id only.
LEMMA HottestOf ==
  ASSUME NEW S, IsFiniteSet(S), S # {}, NEW M,
         \A r \in S : /\ r = [id |-> r.id, agent |-> r.agent, score |-> r.score]
                      /\ r.id \in Int /\ r.score \in Nat /\ r.agent = (r.id \in M)
  PROVE  /\ hottest(S) \in S
         /\ \A r \in S : ~r.agent => ~hottest(S).agent /\ hottest(S).score >= r.score
<1> DEFINE apps == {r \in S : ~r.agent}
           ranked == IF apps # {} THEN apps ELSE S
           R == {p \in ranked \X ranked : Hotter(p[1], p[2])}
<1>0. \A r \in ranked : r.id \in Int /\ r.score \in Nat
  OBVIOUS
<1>1. ranked # {} /\ IsFiniteSet(ranked)
  <2>1. IsFiniteSet(apps)
    BY FS_Subset
  <2> QED
    BY <2>1
<1>2. PICK x \in ranked : \A y \in ranked : <<y, x>> \notin R
  <2>0. SUFFICES \E x \in ranked : \A y \in ranked : <<y, x>> \notin R
    OBVIOUS
  <2> HIDE DEF ranked
  <2>1. \A x \in ranked : <<x, x>> \notin R
    BY <1>0 DEF Hotter
  <2>2. \A x, y, z \in ranked : <<x, y>> \in R /\ <<y, z>> \in R => <<x, z>> \in R
    BY <1>0 DEF Hotter
  <2> HIDE DEF R
  <2> QED
    BY <1>1, <2>1, <2>2, FirstOf
<1>3. \A y \in ranked : y = x \/ Hotter(x, y)
  <2> SUFFICES ASSUME NEW y \in ranked, y # x
               PROVE  Hotter(x, y)
    OBVIOUS
  <2>1. ~Hotter(y, x)
    BY <1>2
  <2>2. y.id = x.id => y.agent = x.agent
    OBVIOUS
  <2>3. y.id = x.id /\ y.score = x.score => y = x
    BY <2>2
  <2> QED
    BY <1>0, <2>1, <2>3 DEF Hotter
<1>4. hottest(S) \in ranked /\ \A y \in ranked : y = hottest(S) \/ Hotter(hottest(S), y)
  <2> DEFINE h == CHOOSE r \in ranked : \A q \in ranked : q = r \/ Hotter(r, q)
  <2>1. h \in ranked /\ \A q \in ranked : q = h \/ Hotter(h, q)
    <3> HIDE DEF ranked
    <3> QED
      BY <1>3
  <2>2. hottest(S) = h
    BY DEF hottest
  <2> QED
    BY <2>1, <2>2
<1>5. hottest(S) \in S
  BY <1>4
<1>6. ASSUME NEW r \in S, ~r.agent
      PROVE  ~hottest(S).agent /\ hottest(S).score >= r.score
  <2>1. ranked = apps
    BY <1>6
  <2>2. r \in ranked
    BY <1>6, <2>1
  <2>3. hottest(S).score >= r.score
    <3>1. r = hottest(S) \/ Hotter(hottest(S), r)
      BY <1>4, <2>2
    <3>2. hottest(S).score \in Nat /\ r.score \in Nat
      BY <1>5
    <3> HIDE DEF ranked
    <3> QED
      BY <3>1, <3>2 DEF Hotter
  <2>4. hottest(S) \in apps
    BY <1>4, <2>1
  <2> QED
    BY <2>3, <2>4
<1> QED
  BY <1>5, <1>6

-----------------------------------------------------------------------------
(* Lists and sums.                                                          *)

\* q lists S, smallest first.
Ordered(S, q) ==
  /\ q \in [1..Cardinality(S) -> S]
  /\ \A i, j \in 1..Cardinality(S) : i < j => q[i] < q[j]

AreIds(S) == S \subseteq Int

LEMMA OrderedExists ==
  ASSUME NEW S, IsFiniteSet(S), AreIds(S)
  PROVE  \E q : Ordered(S, q)
<1> DEFINE C == {T \in SUBSET S : ~(\E q : Ordered(T, q))}
<1> SUFFICES ASSUME C # {} PROVE FALSE
  OBVIOUS
<1>1. PICK T \in C : \A U \in C : U \subseteq T => U = T
  <2>1. C \in SUBSET (SUBSET S)
    OBVIOUS
  <2> HIDE DEF C
  <2> QED
    BY <2>1, LeastSet
<1>2. T \in SUBSET S /\ IsFiniteSet(T) /\ T \subseteq Int /\ ~(\E q : Ordered(T, q))
  BY FS_Subset DEF AreIds
<1>3. T # {}
  <2> SUFFICES ASSUME T = {} PROVE FALSE
    OBVIOUS
  <2>1. Cardinality(T) = 0
    BY FS_EmptySet
  <2>2. Ordered(T, [i \in 1..0 |-> i])
    BY <2>1 DEF Ordered
  <2> QED
    BY <1>2, <2>2
<1>4. PICK m \in T : \A y \in T : y <= m
  <2> DEFINE R == {p \in T \X T : p[1] > p[2]}
  <2>1. \A x \in T : <<x, x>> \notin R
    BY <1>2
  <2>2. \A x, y, z \in T : <<x, y>> \in R /\ <<y, z>> \in R => <<x, z>> \in R
    BY <1>2
  <2>3. \A x, y \in T : x > y => <<x, y>> \in R
    BY Zenon
  <2> HIDE DEF R
  <2>4. PICK m \in T : \A y \in T : <<y, m>> \notin R
    BY <1>2, <1>3, <2>1, <2>2, FirstOf
  <2>5. \A y \in T : ~(y > m)
    BY <2>3, <2>4
  <2> QED
    BY <1>2, <2>5
<1> DEFINE U == T \ {m}
           n == Cardinality(U)
<1>5. PICK q : Ordered(U, q)
  <2>1. U \in SUBSET S /\ U \subseteq T /\ U # T
    BY <1>2
  <2>2. U \notin C
    BY <1>1, <2>1
  <2> QED
    BY <2>1, <2>2
<1>6. n \in Nat /\ Cardinality(T) = n + 1
  <2>1. IsFiniteSet(U) /\ Cardinality(U) = Cardinality(T) - 1
    BY <1>2, FS_RemoveElement
  <2> QED
    BY <1>2, <2>1, FS_CardinalityType
<1> DEFINE r == [i \in 1..(n + 1) |-> IF i = n + 1 THEN m ELSE q[i]]
<1>7. \A i \in 1..n : q[i] \in U
  BY <1>5 DEF Ordered
<1> HIDE DEF n
<1>8. r \in [1..(n + 1) -> T]
  <2>1. \A i \in 1..(n + 1) : i # n + 1 => i \in 1..n
    BY <1>6
  <2> QED
    BY <1>7, <2>1
<1>9. ASSUME NEW i \in 1..(n + 1), NEW j \in 1..(n + 1), i < j
      PROVE  r[i] < r[j]
  <2>1. i \in 1..n
    BY <1>6, <1>9
  <2>2. CASE j = n + 1
    <3>1. q[i] \in U /\ r[i] = q[i] /\ r[j] = m
      BY <1>6, <1>7, <2>1, <2>2
    <3>2. q[i] <= m /\ q[i] # m /\ q[i] \in Int /\ m \in Int
      BY <1>2, <1>4, <3>1
    <3> QED
      BY <3>1, <3>2
  <2>3. CASE j # n + 1
    <3>1. j \in 1..n
      BY <1>6, <2>3
    <3>2. q[i] < q[j]
      BY <1>5, <1>9, <2>1, <3>1 DEF Ordered, n
    <3> QED
      BY <1>6, <1>9, <2>1, <2>3, <3>1, <3>2
  <2> QED
    BY <2>2, <2>3
<1>10. Ordered(T, r)
  <2> HIDE DEF r
  <2> QED
    BY <1>6, <1>8, <1>9 DEF Ordered
<1> QED
  BY <1>2, <1>10

\* The list has every member once, and is in order.
LEMMA InOrderOf ==
  ASSUME NEW S \in SUBSET Int, IsFiniteSet(S)
  PROVE  /\ InOrder(S) \in Seq(S) /\ Len(InOrder(S)) = Cardinality(S)
         /\ \A x \in S : \E i \in 1..Len(InOrder(S)) : InOrder(S)[i] = x
<1> DEFINE n == Cardinality(S)
           q == InOrder(S)
<1>1. n \in Nat
  BY FS_CardinalityType
<1>2. q \in [1..n -> S] /\ \A i, j \in 1..n : i < j => q[i] < q[j]
  <2>1. PICK r : Ordered(S, r)
    BY OrderedExists DEF AreIds
  <2> QED
    BY <2>1 DEF InOrder, Ordered
<1> HIDE DEF q
<1>3. q \in Seq(S) /\ Len(q) = n
  BY <1>1, <1>2
<1>4. \A i, j \in 1..n : q[i] = q[j] => i = j
  <2> SUFFICES ASSUME NEW i \in 1..n, NEW j \in 1..n, q[i] = q[j], i # j
               PROVE  FALSE
    OBVIOUS
  <2>1. q[i] \in Int /\ q[j] \in Int
    BY <1>2
  <2>2. i < j \/ j < i
    BY <1>1
  <2> QED
    BY <1>2, <2>1, <2>2
<1>5. q \in Injection(1..n, S)
  BY <1>2, <1>4 DEF Injection, IsInjective
<1>6. q \in Surjection(1..n, S)
  <2>1. Cardinality(1..n) = n
    BY <1>1, FS_Interval
  <2> QED
    BY <1>5, <2>1, FS_Injection
<1>7. \A x \in S : \E i \in 1..n : q[i] = x
  BY <1>6 DEF Surjection
<1> QED
  BY <1>3, <1>7 DEF q

LEMMA PointsNat == \A a : alertPoints(a) \in 10..25
<1> SUFFICES ASSUME NEW a PROVE alertPoints(a) \in 10..25
  OBVIOUS
<1> DEFINE pts == IF a.sev = "critical" THEN 25 ELSE IF a.sev = "warning" THEN 18 ELSE 15
<1>1. pts \in {15, 18, 25}
  OBVIOUS
<1>2. \A p \in {15, 18, 25} : (p * 2) \div 3 \in 10..25 /\ p \in 10..25
  OBVIOUS
<1>3. alertPoints(a) = IF a.status = "pending" THEN (pts * 2) \div 3 ELSE pts
  BY DEF alertPoints
<1> QED
  BY <1>1, <1>2, <1>3

\* The points of a set add up to a natural number, not less than any of them.
LEMMA SumOf ==
  ASSUME NEW S, IsFiniteSet(S)
  PROVE  /\ MapThenSumSet(alertPoints, S) \in Nat
         /\ \A a \in S : MapThenSumSet(alertPoints, S) >= alertPoints(a)
<1> DEFINE one(s) == CHOOSE x \in s : TRUE
           next(f, s) == IF s = {} THEN 0 ELSE alertPoints(one(s)) + f[s \ {one(s)}]
           Low(n) == {s \in SUBSET S : Cardinality(s) <= n}
           Sums(n, f) == f \in [Low(n) -> Nat] /\ \A s \in Low(n) : f[s] = next(f, s)
<1>1. Cardinality(S) \in Nat
  BY FS_CardinalityType
<1>2. \A s \in SUBSET S : s # {} => one(s) \in s
  OBVIOUS
<1>3. \A n \in Nat : \A s \in Low(n + 1) : s # {} => s \ {one(s)} \in Low(n)
  <2> SUFFICES ASSUME NEW n \in Nat, NEW s \in Low(n + 1), s # {}
               PROVE  s \ {one(s)} \in Low(n)
    OBVIOUS
  <2>1. IsFiniteSet(s) /\ one(s) \in s
    BY <1>2, FS_Subset
  <2> HIDE DEF one
  <2>2. Cardinality(s \ {one(s)}) = Cardinality(s) - 1 /\ Cardinality(s) \in Nat
    BY <2>1, FS_RemoveElement, FS_CardinalityType
  <2> QED
    BY <2>2
<1> HIDE DEF one
<1>4. \A n \in 0..Cardinality(S) : \E f : Sums(n, f)
  <2> DEFINE C == {n \in 0..Cardinality(S) : ~(\E f : Sums(n, f))}
  <2> SUFFICES ASSUME C # {} PROVE FALSE
    OBVIOUS
  <2>1. PICK n \in C : \A k \in C : n <= k
    <3>1. IsFiniteSet(C) /\ C \in SUBSET Int
      <4>1. IsFiniteSet(0..Cardinality(S))
        BY <1>1, FS_Interval
      <4>2. C \in SUBSET (0..Cardinality(S))
        BY Zenon
      <4> HIDE DEF C
      <4>3. IsFiniteSet(C)
        BY Zenon, <4>1, <4>2, FS_Subset
      <4> QED
        BY <1>1, <4>2, <4>3
    <3> HIDE DEF C
    <3> QED
      BY <3>1, MinOf
  <2>2. n \in 0..Cardinality(S) /\ ~(\E f : Sums(n, f))
    OBVIOUS
  <2>3. CASE n = 0
    <3>1. \A s \in Low(0) : s = {}
      <4> SUFFICES ASSUME NEW s \in Low(0) PROVE s = {}
        OBVIOUS
      <4>1. IsFiniteSet(s) /\ Cardinality(s) <= 0
        BY FS_Subset
      <4> QED
        BY <4>1, FS_EmptySet, FS_CardinalityType
    <3> DEFINE f == [s \in Low(0) |-> 0]
    <3>2. f \in [Low(0) -> Nat] /\ \A s \in Low(0) : f[s] = 0
      OBVIOUS
    <3> HIDE DEF f, Low
    <3>3. Sums(0, f)
      BY <3>1, <3>2
    <3> QED
      BY <2>2, <2>3, <3>3
  <2>4. CASE n # 0
    <3> DEFINE m == n - 1
    <3>1. m \in 0..Cardinality(S) /\ m < n /\ n = m + 1 /\ m \in Nat
      BY <1>1, <2>2, <2>4
    <3> HIDE DEF C, m
    <3>2. m \notin C
      <4>1. ~(n <= m)
        BY <1>1, <2>2, <3>1
      <4> QED
        BY <2>1, <4>1
    <3> HIDE DEF Sums
    <3>3. PICK f : Sums(m, f)
      BY Zenon, <3>1, <3>2 DEF C
    <3> USE DEF Sums
    <3> DEFINE g == [s \in Low(n) |-> next(f, s)]
    <3>4. \A s \in Low(n) : s # {} => s \ {one(s)} \in Low(m)
      BY <1>3, <3>1
    <3>5. Low(m) \subseteq Low(n)
      <4> SUFFICES ASSUME NEW s \in Low(m) PROVE s \in Low(n)
        OBVIOUS
      <4>1. IsFiniteSet(s)
        BY FS_Subset
      <4>2. Cardinality(s) \in Nat /\ Cardinality(s) <= m
        BY <4>1, FS_CardinalityType
      <4> QED
        BY <3>1, <4>2
    <3> HIDE DEF Low
    <3>6. g \in [Low(n) -> Nat]
      <4> SUFFICES ASSUME NEW s \in Low(n) PROVE next(f, s) \in Nat
        OBVIOUS
      <4>1. CASE s = {}
        BY <4>1
      <4>2. CASE s # {}
        <5>1. f[s \ {one(s)}] \in Nat
          BY <3>3, <3>4, <4>2
        <5> QED
          BY <4>2, <5>1, PointsNat
      <4> QED
        BY <4>1, <4>2
    <3>7. ASSUME NEW s \in Low(n)
          PROVE  g[s] = next(g, s)
      <4>1. CASE s = {}
        BY <4>1
      <4>2. CASE s # {}
        <5> DEFINE t == s \ {one(s)}
        <5>1. t \in Low(m) /\ t \in Low(n)
          BY <3>4, <3>5, <4>2
        <5>2. g[t] = next(f, t) /\ f[t] = next(f, t)
          BY <3>3, <5>1
        <5>3. g[s] = alertPoints(one(s)) + f[t] /\ next(g, s) = alertPoints(one(s)) + g[t]
          BY <4>2
        <5> QED
          BY <5>2, <5>3
      <4> QED
        BY <4>1, <4>2
    <3>8. Sums(n, g)
      <4> HIDE DEF g, next
      <4> QED
        BY <3>6, <3>7
    <3> QED
      BY <2>2, <3>8
  <2> QED
    BY <2>3, <2>4
<1>5. Low(Cardinality(S)) = SUBSET S
  BY FS_Subset
<1>6. PICK f : f \in [SUBSET S -> Nat] /\ \A s \in SUBSET S : f[s] = next(f, s)
  <2>0. Cardinality(S) \in 0..Cardinality(S)
    BY <1>1
  <2>1. PICK f : Sums(Cardinality(S), f)
    BY Zenon, <1>4, <2>0
  <2> HIDE DEF Low, next
  <2> QED
    BY <1>5, <2>1
<1> DEFINE F == CHOOSE iter : iter = [s \in SUBSET S |-> next(iter, s)]
<1>7. F = [s \in SUBSET S |-> next(F, s)]
  <2>1. f = [s \in SUBSET S |-> next(f, s)]
    <3> HIDE DEF next
    <3> QED
      BY <1>6
  <2> HIDE DEF next
  <2> QED
    BY <2>1
<1>8. MapThenSumSet(alertPoints, S) = F[S]
  BY DEF MapThenSumSet, MapThenFoldSet, one
<1>9. \A s \in SUBSET S : F[s] = next(F, s)
  <2> HIDE DEF F, next
  <2> QED
    BY <1>7
<1> HIDE DEF F
<1> DEFINE Good(s) == F[s] \in Nat /\ \A a \in s : F[s] >= alertPoints(a)
           C == {s \in SUBSET S : ~Good(s)}
<1>10. C = {}
  <2> SUFFICES ASSUME C # {} PROVE FALSE
    OBVIOUS
  <2>1. PICK s \in C : \A t \in C : t \subseteq s => t = s
    <3>1. C \subseteq SUBSET S
      OBVIOUS
    <3> HIDE DEF C
    <3> QED
      BY <3>1, LeastSet
  <2>2. s \in SUBSET S /\ ~Good(s)
    OBVIOUS
  <2>3. s # {}
    <3> SUFFICES ASSUME s = {} PROVE FALSE
      OBVIOUS
    <3>1. F[s] = 0
      BY <1>9
    <3> QED
      BY <2>2, <3>1
  <2> DEFINE x == one(s)
             t == s \ {x}
  <2>4. x \in s /\ t \subseteq s /\ t # s
    BY <1>2, <2>3
  <2>5. Good(t)
    BY <2>1, <2>2, <2>4
  <2>6. F[s] = alertPoints(x) + F[t]
    BY <1>9, <2>2, <2>3
  <2>7. alertPoints(x) \in Nat /\ \A a : alertPoints(a) \in Nat
    BY PointsNat
  <2> HIDE DEF t, x, C
  <2>8. F[s] \in Nat /\ F[s] >= alertPoints(x) /\ F[s] >= F[t]
    BY <2>5, <2>6, <2>7
  <2>9. ASSUME NEW a \in s
        PROVE  F[s] >= alertPoints(a)
    <3>1. CASE a = x
      BY <2>8, <3>1
    <3>2. CASE a # x
      <4>1. a \in t
        BY <3>2 DEF t
      <4>2. F[t] >= alertPoints(a) /\ F[t] \in Nat
        BY <2>5, <4>1
      <4> QED
        BY <2>7, <2>8, <4>2
    <3> QED
      BY <3>1, <3>2
  <2> QED
    BY <2>2, <2>8, <2>9
<1>11. Good(S)
  <2>1. S \notin C
    BY <1>10
  <2> QED
    BY <2>1
<1> QED
  BY <1>8, <1>11

\* What the runbook adds to a score, and all the rest.
BookPoints(r) == IF r.runbook = "fail" THEN 10 ELSE IF r.runbook = "stale" THEN 5 ELSE 0
WithoutBook(r) ==
    serviceHealthPoints(r.service)
  + firingPoints(r)
  + (IF recentChange(r) # {} THEN 15 ELSE 0)
  + (IF correlate(r) # {} THEN 10 ELSE 0)
  + AtMost(10 * Cardinality({u \in r.up : Bad(u)}), 20)
  + downstreamPoints(r)

\* A score is at most 100, and not less than what the service's health or an
\* alert that counts would score alone.
LEMMA ScoreOf ==
  ASSUME NEW r, IsFiniteSet(r.alerts), IsFiniteSet(r.up), IsFiniteSet(r.down)
  PROVE  /\ Compute(r) \in 0..100
         /\ Compute(r) >= serviceHealthPoints(r.service)
         /\ \A a \in scoredAlerts(r) : Compute(r) >= alertPoints(a)
         /\ Compute(r) = AtMost(WithoutBook(r) + BookPoints(r), 100)
         /\ WithoutBook(r) \in Nat /\ BookPoints(r) \in 0..10
<1> DEFINE health == serviceHealthPoints(r.service)
           firing == firingPoints(r)
           change == IF recentChange(r) # {} THEN 15 ELSE 0
           link == IF correlate(r) # {} THEN 10 ELSE 0
           up == AtMost(10 * Cardinality({u \in r.up : Bad(u)}), 20)
           down == downstreamPoints(r)
           book == IF r.runbook = "fail" THEN 10 ELSE IF r.runbook = "stale" THEN 5 ELSE 0
<1>1. health \in 0..40
  BY DEF serviceHealthPoints
<1>2. firing \in 0..35 /\ \A a \in scoredAlerts(r) : firing >= alertPoints(a)
  <2> DEFINE S == scoredAlerts(r)
             sum == MapThenSumSet(alertPoints, S)
  <2>1. IsFiniteSet(S)
    <3>1. S \in SUBSET r.alerts
      BY DEF scoredAlerts, ActiveAlerts
    <3> QED
      BY <3>1, FS_Subset
  <2>2. sum \in Nat /\ \A a \in S : sum >= alertPoints(a)
    <3> HIDE DEF S
    <3> QED
      BY <2>1, SumOf
  <2>3. firing = AtMost(sum, 35)
    BY DEF firingPoints
  <2> HIDE DEF sum, S
  <2> QED
    BY <2>2, <2>3, PointsNat DEF AtMost, S
<1>3. change \in 0..15 /\ link \in 0..10 /\ book \in 0..10
  OBVIOUS
<1>4. up \in 0..20
  <2> DEFINE n == Cardinality({u \in r.up : Bad(u)})
  <2>1. n \in Nat
    <3>1. IsFiniteSet({u \in r.up : Bad(u)})
      BY FS_Subset
    <3> QED
      BY <3>1, FS_CardinalityType
  <2> HIDE DEF n
  <2>2. AtMost(10 * n, 20) \in 0..20
    BY <2>1 DEF AtMost
  <2> QED
    BY <2>2 DEF n
<1>5. down \in 0..15
  <2> DEFINE bad == Cardinality({d \in r.down : Bad(d)})
             n == Cardinality(r.down)
  <2>1. bad \in Nat /\ n \in Nat
    <3>1. IsFiniteSet({d \in r.down : Bad(d)})
      BY FS_Subset
    <3> QED
      BY <3>1, FS_CardinalityType
  <2>2. down = IF bad > 0 THEN AtMost(bad * 5, 15) ELSE IF n >= 3 THEN AtMost(n, 10) ELSE 0
    BY DEF downstreamPoints
  <2> HIDE DEF bad, n
  <2> QED
    BY <2>1, <2>2 DEF AtMost
<1>6. Compute(r) = AtMost(health + firing + change + link + up + down + book, 100)
  BY DEF Compute
<1> HIDE DEF health, firing, change, link, up, down, book
<1>7. Compute(r) \in 0..100 /\ Compute(r) >= health /\ Compute(r) >= AtMost(firing, 100)
  BY <1>1, <1>2, <1>3, <1>4, <1>5, <1>6 DEF AtMost
<1>8. AtMost(firing, 100) = firing
  BY <1>2 DEF AtMost
<1>9. WithoutBook(r) = health + firing + change + link + up + down /\ BookPoints(r) = book
  BY DEF WithoutBook, BookPoints, health, firing, change, link, up, down, book
<1>10. /\ Compute(r) = AtMost(WithoutBook(r) + BookPoints(r), 100)
       /\ WithoutBook(r) \in Nat /\ BookPoints(r) \in 0..10
  BY <1>1, <1>2, <1>3, <1>4, <1>5, <1>6, <1>9
<1> QED
  BY <1>2, <1>7, <1>8, <1>10, PointsNat DEF health

-----------------------------------------------------------------------------
(* Type correctness. The types hold because a table is finite and its rows *)
(* have keys: then a least neighbour, a first alert and a hottest service  *)
(* exist, and sums and counts are numbers.                                 *)

\* An answer is being made, or is made.
Asking == {"owner", "changes", "alerts", "dependencies", "resolve", "runbook",
           "verify", "extra", "evidence", "tip", "answered"}

StoreInv == store \in versions /\ \A v \in versions : v \in Stores

ControlInv ==
  /\ req \in Requests /\ budget \in Nat /\ skipped \in Nat
  /\ pc \in Asking \cup {"start", "find", "rank", "output", "done"}
  /\ phase \in {"fleet", "answer"} /\ tip \in BOOLEAN
  /\ outcome \in {"none", "ok", "error"} /\ listed \subseteq ServiceRows
  /\ pc = "start" => phase = "answer"

TodoInv ==
  /\ todo \in Seq(Names) /\ (phase = "fleet" => todo \in Seq(Services))
  /\ pc \in Asking \cup {"find"} => todo # <<>>

\* A row of the ranking is told apart by its id and score.
Entries == {r \in [id : Services, agent : BOOLEAN, score : 0..100] : r.agent = (r.id \in Agents)}

RankInv ==
  /\ rows \subseteq Entries /\ IsFiniteSet(rows)
  /\ answers \in Seq([id : Services, score : 0..100])

AnswerInv ==
  /\ res \in AskResults /\ pend \in Pending
  /\ Table(res.changes) /\ Table(res.alerts)
  /\ IsFiniteSet(res.up) /\ IsFiniteSet(res.down)
  /\ IsFiniteSet(pend.up) /\ IsFiniteSet(pend.down)
  /\ pc \in Asking => res.service \in ServiceRows

TypeInv == StoreInv /\ ControlInv /\ TodoInv /\ RankInv /\ AnswerInv

\* The steps of one answer that do not lose it.
Query ==
  \/ Find \/ GetOwner \/ GetChanges \/ GetAlerts \/ GetDependencies \/ ResolveUp
  \/ ResolveDown \/ ResolveEnd \/ GetRunbookNone \/ GetRunbook \/ VerifyStep \/ VerifyEnd
  \/ ListEvidenceForService \/ CollectEvidence \/ TransitiveImpactTip \/ TipFails

LEMMA QueryFrame ==
  ASSUME Query
  PROVE  /\ KeepRest /\ pc' \in Asking /\ pc \in Asking \cup {"find"}
         /\ tip' \in BOOLEAN \/ tip' = tip
<1> USE DEF Step, KeepRest, Asking
<1>1. CASE Find
  BY <1>1 DEF Find
<1>2. CASE GetOwner \/ GetChanges \/ GetAlerts
  BY <1>2 DEF GetOwner, GetChanges, GetAlerts
<1>3. CASE GetDependencies \/ ResolveUp \/ ResolveDown \/ ResolveEnd
  BY <1>3 DEF GetDependencies, ResolveUp, ResolveDown, ResolveEnd
<1>4. CASE GetRunbookNone \/ GetRunbook \/ VerifyStep \/ VerifyEnd
  BY <1>4 DEF GetRunbookNone, GetRunbook, VerifyStep, VerifyEnd
<1>5. CASE ListEvidenceForService \/ CollectEvidence
  BY <1>5 DEF ListEvidenceForService, CollectEvidence
<1>6. CASE TransitiveImpactTip
  BY <1>6 DEF TransitiveImpactTip
<1>7. CASE TipFails
  BY <1>7 DEF TipFails
<1> QED
  BY <1>1, <1>2, <1>3, <1>4, <1>5, <1>6, <1>7 DEF Query

\* What can happen.
LEMMA NextCases ==
  ASSUME [Next]_vars
  PROVE  \/ UNCHANGED vars
         \/ Query
         \/ OtherWrites
         \/ Lost /\ pc \in (Asking \cup {"start", "find"}) \ {"tip", "answered"}
         \/ StartNamed \/ StartFleet \/ RankAnswer \/ PickHottest \/ Top \/ Answer \/ Output
<1>1. FindMiss \/ QueryFails \/ ListServicesFails =>
        Lost /\ pc \in (Asking \cup {"start", "find"}) \ {"tip", "answered"}
  BY DEF FindMiss, QueryFails, ListServicesFails, Asking
<1>2. Ask => FindMiss \/ QueryFails \/ Query
  BY DEF Ask, Query
<1> QED
  BY <1>1, <1>2 DEF Next, Fleet

\* Rows put into a table or taken out of it leave a store.
LEMMA WriteStore ==
  ASSUME store \in Stores, OtherWrites
  PROVE  store' \in Stores
<1>1. PICK w \in Writes :
        store' = IF w.delete
                   THEN [store EXCEPT ![w.table] = {r \in @ : r.id # w.row.id}]
                   ELSE Upsert(store, w.table, w.row)
  BY DEF OtherWrites
<1>2. w.table \in Tables /\ (w.delete \/ w.row \in RowsIn[w.table])
  BY AskAssumption
<1>3. \A t \in Tables : store[t] \in SUBSET RowsIn[t]
  <2> SUFFICES ASSUME NEW t \in Tables
               PROVE  store[t] \in SUBSET RowsIn[t]
    OBVIOUS
  <2>1. store \in Columns
    BY DEF Stores
  <2>2. CASE t = "services"
    BY <2>1, <2>2 DEF Columns, RowsIn
  <2>3. CASE t = "owners"
    BY <2>1, <2>3 DEF Columns, RowsIn
  <2>4. CASE t = "changes"
    BY <2>1, <2>4 DEF Columns, RowsIn
  <2>5. CASE t = "dependencies"
    BY <2>1, <2>5 DEF Columns, RowsIn
  <2>6. CASE t = "alerts"
    BY <2>1, <2>6 DEF Columns, RowsIn
  <2>7. CASE t = "runbooks"
    BY <2>1, <2>7 DEF Columns, RowsIn
  <2>8. CASE t = "evidence"
    BY <2>1, <2>8 DEF Columns, RowsIn
  <2> QED
    BY <2>2, <2>3, <2>4, <2>5, <2>6, <2>7, <2>8 DEF Tables
<1>4. Table(store[w.table])
  BY <1>2 DEF Stores
<1> DEFINE kept(x) == {r \in store[w.table] : r.id # x}
<1>5. \A x : Table(kept(x))
  BY <1>4, TableSubset
<1>6. \A row : Table(kept(row.id) \cup {row})
  <2> SUFFICES ASSUME NEW row PROVE Table(kept(row.id) \cup {row})
    OBVIOUS
  <2>1. IsFiniteSet(kept(row.id) \cup {row})
    BY <1>5, FS_AddElement DEF Table
  <2>2. \A r, s \in kept(row.id) \cup {row} : r.id = s.id => r = s
    BY <1>5 DEF Table
  <2> QED
    BY <2>1, <2>2 DEF Table
<1>7. PICK S \in SUBSET RowsIn[w.table] : store' = [store EXCEPT ![w.table] = S] /\ Table(S)
  <2>1. CASE w.delete
    <3>1. store' = [store EXCEPT ![w.table] = kept(w.row.id)]
      BY <1>1, <2>1
    <3>2. kept(w.row.id) \in SUBSET RowsIn[w.table]
      BY <1>2, <1>3
    <3> QED
      BY <1>5, <3>1, <3>2
  <2>2. CASE ~w.delete
    <3>1. store' = [store EXCEPT ![w.table] = kept(w.row.id) \cup {w.row}]
      BY <1>1, <2>2 DEF Upsert
    <3>2. kept(w.row.id) \cup {w.row} \in SUBSET RowsIn[w.table]
      BY <1>2, <1>3, <2>2
    <3> HIDE DEF kept
    <3> QED
      BY <1>6, <3>1, <3>2
  <2> QED
    BY <2>1, <2>2
<1>8. store' \in Columns
  <2>1. store \in Columns
    BY DEF Stores
  <2>2. CASE w.table = "services"
    BY <1>7, <2>1, <2>2 DEF Columns, RowsIn
  <2>3. CASE w.table = "owners"
    BY <1>7, <2>1, <2>3 DEF Columns, RowsIn
  <2>4. CASE w.table = "changes"
    BY <1>7, <2>1, <2>4 DEF Columns, RowsIn
  <2>5. CASE w.table = "dependencies"
    BY <1>7, <2>1, <2>5 DEF Columns, RowsIn
  <2>6. CASE w.table = "alerts"
    BY <1>7, <2>1, <2>6 DEF Columns, RowsIn
  <2>7. CASE w.table = "runbooks"
    BY <1>7, <2>1, <2>7 DEF Columns, RowsIn
  <2>8. CASE w.table = "evidence"
    BY <1>7, <2>1, <2>8 DEF Columns, RowsIn
  <2> QED
    BY <1>2, <2>2, <2>3, <2>4, <2>5, <2>6, <2>7, <2>8 DEF Tables
<1>9. DOMAIN store = Tables
  BY DEF Stores, Columns, Tables
<1>10. \A t \in Tables : Table(store'[t])
  BY <1>2, <1>7, <1>9 DEF Stores
<1> QED
  BY <1>8, <1>10 DEF Stores

LEMMA TimesNat == Times \subseteq Nat
BY SignalsAssumption DEF Times

\* What a table of a store is.
LEMMA StoreTables ==
  ASSUME NEW st \in Stores
  PROVE  /\ st.services \subseteq ServiceRows /\ Table(st.services)
         /\ st.owners \subseteq [id : {"team"}]
         /\ st.changes \subseteq Changes /\ Table(st.changes) /\ Dated(st.changes)
         /\ st.dependencies \subseteq Dependencies /\ Table(st.dependencies)
         /\ st.alerts \subseteq Alerts /\ Table(st.alerts) /\ Dated(st.alerts)
         /\ st.runbooks \subseteq Runbooks /\ Table(st.runbooks)
         /\ st.evidence \subseteq Evidence /\ Table(st.evidence)
<1>1. st \in Columns /\ \A t \in Tables : Table(st[t])
  BY DEF Stores
<1>2. /\ Table(st.services) /\ Table(st.changes) /\ Table(st.dependencies)
      /\ Table(st.alerts) /\ Table(st.runbooks) /\ Table(st.evidence)
  BY <1>1 DEF Tables
<1>3. /\ st.services \subseteq ServiceRows /\ st.owners \subseteq [id : {"team"}]
      /\ st.changes \subseteq Changes /\ st.dependencies \subseteq Dependencies
      /\ st.alerts \subseteq Alerts /\ st.runbooks \subseteq Runbooks
      /\ st.evidence \subseteq Evidence
  BY <1>1 DEF Columns
<1>4. Dated(st.changes)
  BY <1>2, <1>3, TimesNat DEF Dated, Changes
<1>5. Dated(st.alerts)
  BY <1>2, <1>3, TimesNat DEF Dated, Alerts
<1> QED
  BY <1>2, <1>3, <1>4, <1>5

LEMMA SubsetDated ==
  ASSUME NEW S, Dated(S), NEW T \in SUBSET S
  PROVE  Dated(T)
BY TableSubset DEF Dated

\* The last deploy or rollout is one, and none is newer.
LEMMA LatestOf ==
  ASSUME NEW st \in Stores, NEW svc, NEW asOf,
         NEW found, found = {c \in st.changes :
           c.svc = svc /\ c.type \in {"deploy", "rollout"} /\ c.at <= asOf}
  PROVE  /\ found = {} => LatestDeployOrRollout(st, svc, asOf) = {}
         /\ found # {} => \E c \in found : /\ LatestDeployOrRollout(st, svc, asOf) = {c}
                                           /\ \A d \in found : c.at >= d.at
<1>1. LatestDeployOrRollout(st, svc, asOf) = IF found = {} THEN {} ELSE {Newest(found)}
  BY DEF LatestDeployOrRollout
<1>2. Dated(found)
  <2>1. Dated(st.changes)
    BY StoreTables
  <2>2. \A S : S \subseteq st.changes => Dated(S)
    BY <2>1, SubsetDated
  <2> QED
    BY <2>2
<1>3. CASE found = {}
  BY <1>1, <1>3
<1>4. CASE found # {}
  <2>1. Newest(found) \in found /\ \A d \in found : Newest(found).at >= d.at
    BY <1>2, <1>4, NewestOf
  <2> QED
    BY <1>1, <1>4, <2>1
<1> QED
  BY <1>3, <1>4

\* The firing alert that a check finds is one that is active, if there is any.
LEMMA FiringOf ==
  ASSUME NEW st \in Stores, NEW svc, NEW name,
         NEW found, found = {a \in st.alerts : AlertActive(a.status) /\ a.svc = svc /\ a.name = name}
  PROVE  /\ FindFiringAlert(st, svc, name) \subseteq found
         /\ FindFiringAlert(st, svc, name) = {} <=> found = {}
<1>1. FindFiringAlert(st, svc, name) = {a \in found : \A b \in found : b = a \/ alertSortLess(a, b)}
  BY DEF FindFiringAlert
<1>2. Dated(found)
  <2>1. Dated(st.alerts)
    BY StoreTables
  <2>2. \A S : S \subseteq st.alerts => Dated(S)
    BY <2>1, SubsetDated
  <2> QED
    BY <2>2
<1>3. found # {} => \E a \in found : \A b \in found : b = a \/ alertSortLess(a, b)
  BY <1>2, FirstAlert
<1>4. FindFiringAlert(st, svc, name) \subseteq found
  BY <1>1
<1>5. found # {} => FindFiringAlert(st, svc, name) # {}
  BY <1>1, <1>3
<1> QED
  BY <1>4, <1>5

Verdicts == [check : Checks, status : Statuses, ev : Citations]

LEMMA VerifyType ==
  ASSUME NEW st \in Stores, NEW svc, NEW check \in Checks
  PROVE  verifyStep(st, svc, check) \in Verdicts /\ verifyStep(st, svc, check).check = check
<1> USE DEF Verdict, Verdicts, Statuses, Citations
<1>1. /\ \A c \in st.changes : c.ev \in Citations
      /\ \A a \in st.alerts : a.ev \in Citations
      /\ \A e \in st.evidence : e.id \in EvidenceIds
  BY StoreTables DEF Changes, Alerts, Evidence
<1>2. checkDeployAge(st, svc, check) \in Verdicts /\ checkDeployAge(st, svc, check).check = check
  <2> DEFINE last == LatestDeployOrRollout(st, svc, Now)
             found == {c \in st.changes :
               c.svc = svc /\ c.type \in {"deploy", "rollout"} /\ c.at <= Now}
             c == CHOOSE c \in last : TRUE
             age == Now - c.at
             pass == IF check.name = "deploy_age_lt" THEN age < check.dur ELSE age > check.dur
  <2>1. last = {} \/ \E d \in found : last = {d}
    <3>1. PICK S : S = found
      OBVIOUS
    <3> HIDE DEF last
    <3>2. last = {} \/ \E d \in S : last = {d}
      BY <3>1, LatestOf DEF last
    <3> QED
      BY <3>1, <3>2
  <2>2. last # {} => c.ev \in Citations
    BY <1>1, <2>1
  <2>3. checkDeployAge(st, svc, check) =
          IF check.dur <= 0 THEN Verdict(check, "error", "")
          ELSE IF last = {} THEN Verdict(check, "stale", "")
          ELSE Verdict(check, IF pass THEN "pass" ELSE "stale", c.ev)
    BY DEF checkDeployAge
  <2>4. \A status \in Statuses : \A ev \in Citations :
          Verdict(check, status, ev) \in Verdicts /\ Verdict(check, status, ev).check = check
    OBVIOUS
  <2>5. "error" \in Statuses /\ "stale" \in Statuses /\ "pass" \in Statuses /\ "" \in Citations
    OBVIOUS
  <2> HIDE DEF last, c, pass, Verdict, Verdicts, Statuses, Citations
  <2> QED
    BY <2>2, <2>3, <2>4, <2>5
<1>3. checkDeploymentExists(st, check) \in Verdicts /\ checkDeploymentExists(st, check).check = check
  <2> DEFINE found == FindRolloutEvidence(st, check.arg)
  <2>1. found \subseteq st.evidence
    BY DEF FindRolloutEvidence
  <2>2. found # {} => (CHOOSE e \in found : TRUE).id \in Citations
    BY <1>1, <2>1
  <2> QED
    BY <2>2 DEF checkDeploymentExists
<1>4. checkServiceHealth(st, check) \in Verdicts /\ checkServiceHealth(st, check).check = check
  BY DEF checkServiceHealth
<1>5. checkAlertFiring(st, svc, check) \in Verdicts /\ checkAlertFiring(st, svc, check).check = check
  <2> DEFINE found == FindFiringAlert(st, svc, check.alert)
  <2>1. found \subseteq st.alerts
    BY FiringOf
  <2>2. found # {} => (CHOOSE a \in found : TRUE).ev \in Citations
    BY <1>1, <2>1
  <2> QED
    BY <2>2 DEF checkAlertFiring
<1>6. Verdict(check, "manual", "") \in Verdicts /\ Verdict(check, "error", "") \in Verdicts
  OBVIOUS
<1>7. Verdict(check, "manual", "").check = check /\ Verdict(check, "error", "").check = check
  OBVIOUS
<1> HIDE DEF Verdict, Verdicts, Statuses, Citations
<1> QED
  BY <1>2, <1>3, <1>4, <1>5, <1>6, <1>7 DEF verifyStep

\* The ends of a finite set of edges are finitely many.
LEMMA NeighboursFinite ==
  ASSUME NEW st \in Stores, NEW id,
         NEW touching, touching = {d.id : d \in ListDependencies(st, id)}
  PROVE  /\ IsFiniteSet({d[2] : d \in {e \in touching : e[1] = id}})
         /\ IsFiniteSet({d[1] : d \in {e \in touching : e[2] = id}})
<1> DEFINE D == ListDependencies(st, id)
           E1 == {e \in touching : e[1] = id}
           E2 == {e \in touching : e[2] = id}
<1>1. IsFiniteSet(D)
  <2>1. IsFiniteSet(st.dependencies) /\ D \in SUBSET st.dependencies
    BY StoreTables DEF Table, ListDependencies
  <2> HIDE DEF D
  <2> QED
    BY <2>1, FS_Subset
<1>2. IsFiniteSet(touching)
  <2>1. [d \in D |-> d.id] \in Surjection(D, touching)
    BY DEF Surjection
  <2> HIDE DEF D
  <2> QED
    BY <1>1, <2>1, FS_Surjection
<1>3. IsFiniteSet(E1) /\ IsFiniteSet(E2)
  <2>1. E1 \in SUBSET touching /\ E2 \in SUBSET touching
    OBVIOUS
  <2> HIDE DEF E1, E2
  <2> QED
    BY <1>2, <2>1, FS_Subset
<1> HIDE DEF E1, E2
<1>4. [d \in E1 |-> d[2]] \in Surjection(E1, {d[2] : d \in E1})
  BY DEF Surjection
<1>5. [d \in E2 |-> d[1]] \in Surjection(E2, {d[1] : d \in E2})
  BY DEF Surjection
<1>6. IsFiniteSet({d[2] : d \in E1}) /\ IsFiniteSet({d[1] : d \in E2})
  BY <1>3, <1>4, <1>5, FS_Surjection
<1> QED
  BY <1>6 DEF E1, E2

\* A neighbour is the row with its id, or a stub.
LEMMA ResolvedType ==
  ASSUME store \in Stores, NEW id \in Services
  PROVE  Resolved(id) \in ServiceRows /\ Resolved(id).id = id
<1>1. CASE GetService(store, id) = {}
  <2>1. Resolved(id) = Stub(id)
    BY <1>1 DEF Resolved
  <2>2. Stub(id) \in ServiceRows /\ Stub(id).id = id
    BY AskAssumption DEF Stub, NoService, ServiceRows, Healths
  <2> QED
    BY <2>1, <2>2
<1>2. CASE GetService(store, id) # {}
  <2>1. Resolved(id) \in GetService(store, id)
    BY <1>2 DEF Resolved
  <2> QED
    BY <2>1, StoreTables DEF GetService
<1> QED
  BY <1>1, <1>2

LEMMA InitType == Init => TypeInv
<1> SUFFICES ASSUME Init PROVE TypeInv
  OBVIOUS
<1>1. store \in Stores /\ req \in Requests /\ budget \in Nat
  BY AskAssumption DEF Init
<1>2. StoreInv
  BY <1>1 DEF Init, StoreInv
<1>3. ControlInv
  BY <1>1 DEF Init, ControlInv
<1>4. TodoInv
  BY DEF Init, TodoInv, Asking
<1>5. RankInv
  BY FS_EmptySet DEF Init, RankInv
<1>6. AnswerInv
  <2>1. NoAnswer \in AskResults /\ NothingPending \in Pending
    BY DEF NoAnswer, AskResults, NothingPending, Pending
  <2>2. Table({})
    BY FS_EmptySet DEF Table
  <2> QED
    BY <2>1, <2>2, FS_EmptySet DEF Init, AnswerInv, NoAnswer, NothingPending, Asking
<1> QED
  BY <1>2, <1>3, <1>4, <1>5, <1>6 DEF TypeInv

\* What a query adds to the answer has the type of the answer.
LEMMA QueryType ==
  ASSUME TypeInv, Query
  PROVE  AnswerInv'
<1> USE DEF KeepRest, Step
<1>1. store \in Stores
  BY DEF TypeInv, StoreInv
<1>2. AnswerInv
  BY DEF TypeInv
<1>3. pc' \in Asking /\ (pc # "find" => res.service \in ServiceRows)
  BY <1>2, QueryFrame DEF AnswerInv
<1>4. CASE Find
  <2>1. PICK s \in store.services : res' = [NoAnswer EXCEPT !.service = s]
    <3> DEFINE found == GetServiceByNameOrAlias(store, Head(todo))
    <3>1. Cardinality(found) = 1 /\ res' = [NoAnswer EXCEPT !.service = CHOOSE s \in found : TRUE]
      BY <1>4 DEF Find
    <3>2. found # {}
      <4> HIDE DEF found
      <4> QED
        BY <3>1, FS_EmptySet
    <3>3. found \subseteq store.services
      BY DEF GetServiceByNameOrAlias
    <3> HIDE DEF found
    <3> QED
      BY <3>1, <3>2, <3>3
  <2>2. s \in ServiceRows
    BY <1>1, StoreTables
  <2>3. res' \in AskResults /\ res'.service = s
    <3>1. NoAnswer \in AskResults
      BY DEF NoAnswer, AskResults
    <3> QED
      BY <2>1, <2>2, <3>1 DEF AskResults
  <2>4. /\ res'.changes = {} /\ res'.alerts = {} /\ res'.up = {} /\ res'.down = {}
        /\ pend' = pend
    BY <1>4, <2>1 DEF NoAnswer, Find
  <2>5. Table({}) /\ IsFiniteSet({})
    BY FS_EmptySet DEF Table
  <2> QED
    BY <1>2, <2>2, <2>3, <2>4, <2>5 DEF AnswerInv
<1>5. CASE GetOwner
  <2>1. res.service.owner \in {"", "team"}
    BY <1>3, <1>5 DEF GetOwner, ServiceRows
  <2>2. PICK o \in {"", "team"} : res' = [res EXCEPT !.owner = o] /\ pend' = pend
    BY <1>5, <2>1 DEF GetOwner
  <2> QED
    BY <1>2, <1>3, <1>5, <2>2 DEF AnswerInv, AskResults, GetOwner
<1>6. CASE GetChanges
  <2>1. PICK S : res' = [res EXCEPT !.changes = S] /\ S \subseteq store.changes /\ pend' = pend
    BY <1>6 DEF GetChanges, filterNotFutureChanges, ListChanges
  <2>2. Table(S) /\ S \subseteq Changes
    BY <1>1, <2>1, StoreTables, TableSubset
  <2> QED
    BY <1>2, <1>3, <1>6, <2>1, <2>2 DEF AnswerInv, AskResults, GetChanges
<1>7. CASE GetAlerts
  <2>1. PICK S : res' = [res EXCEPT !.alerts = S] /\ S \subseteq store.alerts /\ pend' = pend
    BY <1>7 DEF GetAlerts, filterNotFutureAlerts, ListAlerts
  <2>2. Table(S) /\ S \subseteq Alerts
    BY <1>1, <2>1, StoreTables, TableSubset
  <2> QED
    BY <1>2, <1>3, <1>7, <2>1, <2>2 DEF AnswerInv, AskResults, GetAlerts
<1>8. CASE GetDependencies
  <2> DEFINE id == res.service.id
             touching == {d.id : d \in ListDependencies(store, id)}
             up == {d[2] : d \in {e \in touching : e[1] = id}}
             down == {d[1] : d \in {e \in touching : e[2] = id}}
  <2>1. pend' = [pend EXCEPT !.up = up, !.down = down] /\ res' = res
    BY <1>8 DEF GetDependencies
  <2>2. touching \subseteq Services \X Services
    BY <1>1, StoreTables DEF ListDependencies, Dependencies
  <2>3. up \subseteq Services /\ down \subseteq Services
    <3> HIDE DEF touching
    <3> QED
      BY <2>2
  <2>4. IsFiniteSet(up) /\ IsFiniteSet(down)
    BY <1>1, NeighboursFinite
  <2> HIDE DEF up, down
  <2>5. pend' \in Pending /\ pend'.up = up /\ pend'.down = down
    BY <1>2, <2>1, <2>3 DEF AnswerInv, Pending
  <2> QED
    BY <1>2, <1>3, <1>8, <2>1, <2>4, <2>5 DEF AnswerInv, GetDependencies
<1>9. CASE ResolveUp
  <2>1. PICK id \in pend.up : /\ res' = [res EXCEPT !.up = @ \cup {Resolved(id)}]
                              /\ pend' = [pend EXCEPT !.up = @ \ {id}]
    <3>1. pend.up \subseteq Int /\ IsFiniteSet(pend.up) /\ pend.up # {}
      BY <1>2, <1>9, AskAssumption DEF AnswerInv, Pending, ResolveUp
    <3>2. Min(pend.up) \in pend.up
      BY <3>1, MinOf
    <3> QED
      BY <1>9, <3>2 DEF ResolveUp
  <2>2. Resolved(id) \in ServiceRows
    BY <1>1, <1>2, ResolvedType DEF AnswerInv, Pending
  <2>3. IsFiniteSet(res.up \cup {Resolved(id)}) /\ IsFiniteSet(pend.up \ {id})
    BY <1>2, FS_AddElement, FS_RemoveElement DEF AnswerInv
  <2> DEFINE S == res.up \cup {Resolved(id)}
             T == pend.up \ {id}
  <2>4. /\ res' = [res EXCEPT !.up = S] /\ pend' = [pend EXCEPT !.up = T]
        /\ S \subseteq ServiceRows /\ T \subseteq Services
    BY <1>2, <2>1, <2>2 DEF AnswerInv, AskResults, Pending
  <2> HIDE DEF S, T
  <2> QED
    BY <1>2, <1>3, <1>9, <2>3, <2>4 DEF AnswerInv, AskResults, Pending, ResolveUp, S, T
<1>10. CASE ResolveDown
  <2>1. PICK id \in pend.down : /\ res' = [res EXCEPT !.down = @ \cup {Resolved(id)}]
                                /\ pend' = [pend EXCEPT !.down = @ \ {id}]
    <3>1. pend.down \subseteq Int /\ IsFiniteSet(pend.down) /\ pend.down # {}
      BY <1>2, <1>10, AskAssumption DEF AnswerInv, Pending, ResolveDown
    <3>2. Min(pend.down) \in pend.down
      BY <3>1, MinOf
    <3> QED
      BY <1>10, <3>2 DEF ResolveDown
  <2>2. Resolved(id) \in ServiceRows
    BY <1>1, <1>2, ResolvedType DEF AnswerInv, Pending
  <2>3. IsFiniteSet(res.down \cup {Resolved(id)}) /\ IsFiniteSet(pend.down \ {id})
    BY <1>2, FS_AddElement, FS_RemoveElement DEF AnswerInv
  <2> DEFINE S == res.down \cup {Resolved(id)}
             T == pend.down \ {id}
  <2>4. /\ res' = [res EXCEPT !.down = S] /\ pend' = [pend EXCEPT !.down = T]
        /\ S \subseteq ServiceRows /\ T \subseteq Services
    BY <1>2, <2>1, <2>2 DEF AnswerInv, AskResults, Pending
  <2> HIDE DEF S, T
  <2> QED
    BY <1>2, <1>3, <1>10, <2>3, <2>4 DEF AnswerInv, AskResults, Pending, ResolveDown, S, T
<1>11. CASE ResolveEnd \/ GetRunbookNone
  <2>1. UNCHANGED <<res, pend>> /\ pc \in Asking
    BY <1>11 DEF ResolveEnd, GetRunbookNone, Asking
  <2> QED
    BY <1>2, <2>1 DEF AnswerInv
<1>12. CASE GetRunbook
  <2>1. PICK r \in store.runbooks : pend' = [pend EXCEPT !.checks = r.steps] /\ res' = res
    BY <1>12 DEF GetRunbook, MyRunbook
  <2>2. r.steps \in Seq(Checks)
    BY <1>1, StoreTables DEF Runbooks
  <2> QED
    BY <1>2, <1>3, <1>12, <2>1, <2>2 DEF AnswerInv, Pending, GetRunbook
<1>13. CASE VerifyStep
  <2> DEFINE v == verifyStep(store, res.service.id, Head(pend.checks))
  <2>1. pend.checks \in Seq(Checks) /\ pend.checks # <<>>
    BY <1>2, <1>13 DEF AnswerInv, Pending, VerifyStep
  <2>2. Head(pend.checks) \in Checks /\ Tail(pend.checks) \in Seq(Checks)
    BY <2>1, HeadTailProperties
  <2>3. v \in Verdicts
    BY <1>1, <2>2, VerifyType
  <2>4. res' = [res EXCEPT !.steps = Append(@, v)] /\ pend' = [pend EXCEPT !.checks = Tail(@)]
    BY <1>13 DEF VerifyStep
  <2> HIDE DEF v
  <2>5. res.steps \in Seq(Verdicts)
    BY <1>2 DEF AnswerInv, AskResults, Verdicts
  <2>6. Append(res.steps, v) \in Seq(Verdicts)
    BY <2>3, <2>5, AppendProperties
  <2>7. PICK q, t : /\ res' = [res EXCEPT !.steps = q] /\ pend' = [pend EXCEPT !.checks = t]
                    /\ q \in Seq(Verdicts) /\ t \in Seq(Checks)
    BY <1>2, <2>2, <2>4, <2>6 DEF AnswerInv, AskResults, Pending
  <2> QED
    BY <1>2, <1>3, <1>13, <2>7 DEF AnswerInv, AskResults, Pending, Verdicts, VerifyStep
<1>14. CASE VerifyEnd
  <2>1. rollup(res.steps) \in Statuses
    BY DEF rollup, Statuses
  <2>2. PICK b \in Statuses : res' = [res EXCEPT !.runbook = b] /\ pend' = pend
    BY <1>14, <2>1 DEF VerifyEnd
  <2> QED
    BY <1>2, <1>3, <1>14, <2>2 DEF AnswerInv, AskResults, VerifyEnd
<1>15. CASE ListEvidenceForService
  <2> DEFINE ids == Cited \cup {e.id : e \in {f \in store.evidence : f.svc = res.service.id}}
  <2>1. pend' = [pend EXCEPT !.ids = ids] /\ res' = res
    BY <1>15 DEF ListEvidenceForService
  <2>2. Cited \subseteq EvidenceIds
    <3>1. \A i \in DOMAIN res.steps : res.steps[i].ev \in Citations
      <4>1. res.steps \in Seq(Verdicts)
        BY <1>2 DEF AnswerInv, AskResults, Verdicts
      <4>2. \A i \in DOMAIN res.steps : res.steps[i] \in Verdicts
        BY <4>1
      <4> QED
        BY <4>2 DEF Verdicts
    <3>2. (\A c \in res.changes : c.ev \in Citations) /\ (\A a \in res.alerts : a.ev \in Citations)
      BY <1>2 DEF AnswerInv, AskResults, Changes, Alerts
    <3> QED
      BY <3>1, <3>2 DEF Cited, Citations
  <2>3. \A e \in store.evidence : e.id \in EvidenceIds
    BY <1>1, StoreTables DEF Evidence
  <2>4. ids \subseteq EvidenceIds
    BY <2>2, <2>3
  <2> HIDE DEF ids
  <2> QED
    BY <1>2, <1>3, <1>15, <2>1, <2>4 DEF AnswerInv, Pending, ListEvidenceForService
<1>16. CASE CollectEvidence
  <2> DEFINE found == ListEvidence(store, pend.ids)
             shown == found \cup {Missing(id) : id \in pend.ids \ {e.id : e \in found}}
             Ghosts == [id : EvidenceIds, svc : Services, at : Times, kind : {"missing"}, ref : Names]
  <2>1. res' = [res EXCEPT !.evidence = shown] /\ pend' = NothingPending
    BY <1>16 DEF CollectEvidence
  <2>2. found \subseteq Evidence
    BY <1>1, StoreTables DEF ListEvidence
  <2>3. \A id \in pend.ids : Missing(id) \in Ghosts
    <3>1. res.service.id \in Services
      BY <1>3, <1>16 DEF ServiceRows, CollectEvidence
    <3>2. Now \in Times
      BY SignalsAssumption DEF Times
    <3>3. pend.ids \subseteq EvidenceIds
      BY <1>2 DEF AnswerInv, Pending
    <3> QED
      BY <3>1, <3>2, <3>3, AskAssumption DEF Missing
  <2>4. shown \subseteq Evidence \cup Ghosts
    <3> HIDE DEF found, Ghosts
    <3> QED
      BY <2>2, <2>3
  <2> HIDE DEF shown
  <2>5. res' \in AskResults
    BY <1>2, <2>1, <2>4 DEF AnswerInv, AskResults
  <2>6. /\ res'.service = res.service /\ res'.changes = res.changes /\ res'.alerts = res.alerts
        /\ res'.up = res.up /\ res'.down = res.down
    BY <1>2, <2>1 DEF AnswerInv, AskResults
  <2>7. NothingPending \in Pending /\ NothingPending.up = {} /\ NothingPending.down = {}
    BY DEF NothingPending, Pending
  <2> QED
    BY <1>2, <1>3, <1>16, <2>1, <2>5, <2>6, <2>7, FS_EmptySet DEF AnswerInv, CollectEvidence
<1>17. CASE TransitiveImpactTip \/ TipFails
  <2>1. UNCHANGED <<res, pend>> /\ pc \in Asking
    BY <1>17 DEF TransitiveImpactTip, TipFails, Asking
  <2> QED
    BY <1>2, <2>1 DEF AnswerInv
<1> QED
  BY <1>4, <1>5, <1>6, <1>7, <1>8, <1>9, <1>10, <1>11, <1>12, <1>13, <1>14, <1>15, <1>16,
     <1>17 DEF Query

LEMMA TailOf ==
  ASSUME NEW S, NEW q \in Seq(S), q # <<>>
  PROVE  /\ Head(q) \in S /\ Tail(q) \in Seq(S)
         /\ Len(q) # 1 <=> Tail(q) # <<>>
         /\ \A i \in 1..Len(q) : q[i] = Head(q) \/ \E j \in 1..Len(Tail(q)) : Tail(q)[j] = q[i]
<1>1. Head(q) \in S /\ Tail(q) \in Seq(S) /\ Len(Tail(q)) = Len(q) - 1 /\ Len(q) \in Nat
  BY HeadTailProperties
<1>2. Len(q) # 1 <=> Tail(q) # <<>>
  <2>1. \A r \in Seq(S) : r = <<>> <=> Len(r) = 0
    BY EmptySeq
  <2>2. Tail(q) \in Seq(S) /\ (Len(Tail(q)) = 0 <=> Len(q) = 1)
    BY <1>1
  <2> QED
    BY <2>1, <2>2
<1>3. ASSUME NEW i \in 1..Len(q), q[i] # Head(q)
      PROVE  \E j \in 1..Len(Tail(q)) : Tail(q)[j] = q[i]
  <2>1. i # 1
    BY <1>3
  <2>2. i - 1 \in 1..Len(Tail(q)) /\ Tail(q)[i - 1] = q[i]
    BY <1>1, <2>1
  <2> QED
    BY <2>2
<1> QED
  BY <1>1, <1>2, <1>3

\* A step that leaves the answer alone keeps its types.
LEMMA SameAnswer ==
  ASSUME AnswerInv, UNCHANGED <<res, pend>>, pc' \in Asking => pc \in Asking
  PROVE  AnswerInv'
BY DEF AnswerInv

LEMMA LostType ==
  ASSUME TypeInv, Lost, pc \in Asking \cup {"start", "find"}
  PROVE  TypeInv'
<1> USE DEF TypeInv
<1>1. pc' \in {"rank", "find", "done"} /\ UNCHANGED <<store, versions, res, pend, rows, answers>>
  BY DEF Lost
<1>2. StoreInv' /\ RankInv'
  BY <1>1 DEF StoreInv, RankInv
<1>3. AnswerInv'
  BY <1>1, SameAnswer DEF Asking
<1>4. ControlInv'
  BY <1>1 DEF Lost, request, ControlInv
<1>5. TodoInv'
  <2>1. phase = "fleet" => todo # <<>>
    BY DEF TodoInv, ControlInv
  <2>2. CASE phase = "fleet"
    <3>1. /\ todo' = Tail(todo) /\ UNCHANGED phase
          /\ pc' = IF Len(todo) = 1 THEN "rank" ELSE "find"
      BY <2>2 DEF Lost, request
    <3>2. Tail(todo) \in Seq(Services) /\ Tail(todo) \in Seq(Names)
      BY <2>1, <2>2, TailOf DEF TodoInv
    <3>3. Len(todo) # 1 => Tail(todo) # <<>>
      BY <2>1, <2>2, TailOf DEF TodoInv
    <3> QED
      BY <3>1, <3>2, <3>3 DEF TodoInv, Asking
  <2>3. CASE phase # "fleet"
    BY <2>3 DEF Lost, request, TodoInv, Asking
  <2> QED
    BY <2>2, <2>3
<1> QED
  BY <1>2, <1>3, <1>4, <1>5

LEMMA WriteType ==
  ASSUME TypeInv, OtherWrites
  PROVE  TypeInv'
<1> USE DEF TypeInv
<1>1. store' \in Stores
  BY WriteStore DEF StoreInv
<1>2. /\ versions' = versions \cup {store'} /\ budget' = budget - 1 /\ budget > 0
      /\ UNCHANGED <<request, pc, fleet, res, pend, tip>>
  BY DEF OtherWrites
<1>3. StoreInv'
  BY <1>1, <1>2 DEF StoreInv
<1>4. ControlInv'
  BY <1>2 DEF ControlInv, request, fleet
<1>5. TodoInv' /\ RankInv' /\ AnswerInv'
  BY <1>2 DEF TodoInv, RankInv, AnswerInv, request, fleet
<1> QED
  BY <1>3, <1>4, <1>5

LEMMA StartType ==
  ASSUME TypeInv, StartNamed \/ StartFleet
  PROVE  TypeInv'
<1> USE DEF TypeInv
<1>1. /\ UNCHANGED <<store, req, budget, skipped, rows, res, pend, tip, answers, outcome, versions>>
      /\ pc' \in {"find", "rank"}
  BY DEF StartNamed, StartFleet, request
<1>2. StoreInv' /\ RankInv'
  BY <1>1 DEF StoreInv, RankInv
<1>3. AnswerInv'
  BY <1>1, SameAnswer DEF Asking
<1>4. CASE StartNamed
  <2>1. UNCHANGED <<phase, listed>> /\ todo' = req.names /\ req.cmd \in {"ask", "compare"}
    BY <1>4 DEF StartNamed, request
  <2>2. phase # "fleet" \/ phase = "fleet"
    OBVIOUS
  <2>3. req.names \in Seq(Names) /\ req.names # <<>>
    <3>1. req.names \in Seq(Names) /\ Len(req.names) = Arity(req.cmd)
      BY DEF ControlInv, Requests
    <3>2. Arity(req.cmd) # 0
      BY <2>1 DEF Arity
    <3> QED
      BY <3>1, <3>2, EmptySeq
  <2> QED
    <3>1. phase # "fleet"
      BY <1>4 DEF ControlInv, StartNamed
    <3> QED
      BY <1>1, <1>2, <1>3, <2>1, <2>3, <3>1 DEF ControlInv, TodoInv
<1>5. CASE StartFleet
  <2> DEFINE ranked == {s \in store.services : ~IsNoiseForPaging(s)}
             ids == {s.id : s \in ranked}
  <2>1. /\ listed' = ranked /\ todo' = InOrder(ids) /\ phase' = "fleet"
        /\ pc' = IF ranked = {} THEN "rank" ELSE "find"
    BY <1>5 DEF StartFleet
  <2>2. ranked \subseteq ServiceRows /\ IsFiniteSet(ranked)
    <3>1. ranked \in SUBSET store.services
      OBVIOUS
    <3>2. store.services \subseteq ServiceRows /\ IsFiniteSet(store.services)
      BY StoreTables DEF StoreInv, Table
    <3> HIDE DEF ranked
    <3> QED
      BY <3>1, <3>2, FS_Subset
  <2>3. ids \subseteq Services /\ IsFiniteSet(ids)
    <3>1. [s \in ranked |-> s.id] \in Surjection(ranked, ids)
      BY DEF Surjection
    <3> HIDE DEF ranked
    <3>2. IsFiniteSet(ids)
      BY <2>2, <3>1, FS_Surjection
    <3>3. \A s \in ranked : s.id \in Services
      BY <2>2 DEF ServiceRows
    <3> QED
      BY <3>2, <3>3
  <2>4. ranked # {} => ids # {}
    OBVIOUS
  <2> HIDE DEF ids, ranked
  <2>5. InOrder(ids) \in Seq(ids) /\ (ids # {} => InOrder(ids) # <<>>)
    <3>1. ids \in SUBSET Int
      BY <2>3, AskAssumption
    <3>2. InOrder(ids) \in Seq(ids) /\ \A x \in ids : \E i \in 1..Len(InOrder(ids)) : InOrder(ids)[i] = x
      BY <2>3, <3>1, InOrderOf
    <3> QED
      BY <3>2
  <2>6. InOrder(ids) \in Seq(Services) /\ InOrder(ids) \in Seq(Names)
    <3>1. \A S, T : \A q \in Seq(S) : S \subseteq T => q \in Seq(T)
      OBVIOUS
    <3> QED
      BY <2>3, <2>5, <3>1, AskAssumption
  <2>7. ControlInv'
    BY <1>1, <2>1, <2>2 DEF ControlInv
  <2>8. TodoInv'
    BY <2>1, <2>4, <2>5, <2>6 DEF TodoInv, Asking
  <2> QED
    BY <1>2, <1>3, <2>7, <2>8
<1> QED
  BY <1>4, <1>5

\* The hottest row is one of the ranking.
LEMMA HottestType ==
  ASSUME RankInv, rows # {}
  PROVE  /\ hottest(rows) \in rows
         /\ \A r \in rows : ~r.agent => ~hottest(rows).agent /\ hottest(rows).score >= r.score
<1>1. \A r \in rows : /\ r = [id |-> r.id, agent |-> r.agent, score |-> r.score]
                      /\ r.id \in Int /\ r.score \in Nat /\ r.agent = (r.id \in Agents)
  <2> SUFFICES ASSUME NEW r \in rows
               PROVE  /\ r = [id |-> r.id, agent |-> r.agent, score |-> r.score]
                      /\ r.id \in Int /\ r.score \in Nat /\ r.agent = (r.id \in Agents)
    OBVIOUS
  <2>1. r \in [id : Services, agent : BOOLEAN, score : 0..100] /\ r.agent = (r.id \in Agents)
    BY DEF RankInv, Entries
  <2>2. r = [id |-> r.id, agent |-> r.agent, score |-> r.score]
    BY <2>1
  <2>3. r.id \in Int /\ r.score \in Nat
    <3>1. r.id \in Services /\ r.score \in 0..100
      BY <2>1
    <3>2. Services \subseteq Int
      BY AskAssumption
    <3>3. r.id \in Int
      BY Zenon, <3>1, <3>2
    <3>4. r.score \in Nat
      BY <3>1
    <3> QED
      BY <3>3, <3>4
  <2> QED
    BY <2>1, <2>2, <2>3
<1> QED
  BY <1>1, HottestOf DEF RankInv

LEMMA ScoreType ==
  ASSUME AnswerInv
  PROVE  Compute(res) \in 0..100
BY ScoreOf DEF AnswerInv, Table

LEMMA RankType ==
  ASSUME TypeInv, RankAnswer
  PROVE  TypeInv'
<1> USE DEF TypeInv
<1>1. /\ UNCHANGED <<store, req, phase, listed, budget, skipped, res, pend, tip, answers, outcome, versions>>
      /\ pc = "answered" /\ phase = "fleet" /\ pc' = IF Len(todo) = 1 THEN "rank" ELSE "find"
      /\ rows' = rows \cup Ranked(Head(todo)) /\ todo' = Tail(todo)
  BY DEF RankAnswer, request
<1>2. StoreInv' /\ ControlInv'
  BY <1>1 DEF StoreInv, ControlInv
<1>3. AnswerInv'
  BY <1>1, SameAnswer DEF Asking
<1>4. todo \in Seq(Services) /\ todo \in Seq(Names) /\ todo # <<>>
  BY <1>1 DEF TodoInv, Asking
<1>5. TodoInv'
  <2>1. Tail(todo) \in Seq(Services) /\ Tail(todo) \in Seq(Names) /\ (Len(todo) # 1 => Tail(todo) # <<>>)
    BY <1>4, TailOf
  <2> QED
    BY <1>1, <2>1 DEF TodoInv, Asking
<1>6. RankInv'
  <2> DEFINE id == Head(todo)
             entry == [id |-> id, agent |-> id \in Agents, score |-> Compute(res)]
  <2>1. id \in Services
    BY <1>4, TailOf
  <2>2. Ranked(id) = {} \/ Ranked(id) = {entry}
    BY DEF Ranked
  <2>3. entry \in Entries
    <3>1. (id \in Agents) \in BOOLEAN
      OBVIOUS
    <3> HIDE DEF id
    <3> QED
      BY <2>1, <3>1, ScoreType DEF Entries
  <2>4. IsFiniteSet(rows \cup {entry})
    BY FS_AddElement DEF RankInv
  <2> HIDE DEF entry
  <2> QED
    BY <1>1, <2>2, <2>3, <2>4 DEF RankInv
<1> QED
  BY <1>2, <1>3, <1>5, <1>6

LEMMA EndType ==
  ASSUME TypeInv, PickHottest \/ Top \/ Answer \/ Output
  PROVE  TypeInv'
<1> USE DEF TypeInv
<1>1. UNCHANGED <<store, versions, req, budget, listed, skipped, rows, res, pend, tip>>
  BY DEF PickHottest, Top, Answer, Output, request
<1>2. StoreInv'
  BY <1>1 DEF StoreInv
<1>3. CASE PickHottest
  <2>1. /\ pc' \in {"done", "find"} /\ answers' = answers
        /\ (outcome' = "error" \/ outcome' = outcome)
        /\ \/ pc' = "done" /\ UNCHANGED <<todo, phase>>
           \/ rows # {} /\ todo' = <<hottest(rows).id>> /\ phase' = "answer"
    BY <1>3 DEF PickHottest
  <2>2. ControlInv'
    BY <1>1, <2>1 DEF ControlInv
  <2>3. RankInv'
    BY <1>1, <2>1 DEF RankInv
  <2>4. AnswerInv'
    BY <1>1, <2>1, SameAnswer DEF Asking
  <2>5. rows # {} => hottest(rows).id \in Names
    BY HottestType, AskAssumption DEF RankInv, Entries
  <2>6. TodoInv'
    BY <2>1, <2>5 DEF TodoInv, Asking
  <2> QED
    BY <1>2, <2>2, <2>3, <2>4, <2>6
<1>4. CASE Top \/ Output
  <2>1. /\ pc' = "done" /\ outcome' \in {"error", "ok"} /\ UNCHANGED <<todo, phase, answers>>
    BY <1>4 DEF Top, Output, request
  <2>2. ControlInv' /\ RankInv' /\ TodoInv'
    BY <1>1, <2>1 DEF ControlInv, RankInv, TodoInv, Asking
  <2>3. AnswerInv'
    BY <1>1, <2>1, SameAnswer DEF Asking
  <2> QED
    BY <1>2, <2>2, <2>3
<1>5. CASE Answer
  <2>1. /\ pc = "answered" /\ phase = "answer" /\ UNCHANGED <<outcome, phase>>
        /\ answers' = Append(answers, [id |-> res.service.id, score |-> Compute(res)])
        /\ todo' = Tail(todo) /\ pc' = IF Len(todo) = 1 THEN "output" ELSE "find"
    BY <1>5 DEF Answer, request
  <2>2. ControlInv'
    BY <1>1, <2>1 DEF ControlInv
  <2>3. AnswerInv'
    BY <1>1, <2>1, SameAnswer DEF Asking
  <2>4. todo \in Seq(Names) /\ todo # <<>>
    BY <2>1 DEF TodoInv, Asking
  <2>5. Tail(todo) \in Seq(Names) /\ (Len(todo) # 1 => Tail(todo) # <<>>)
    BY <2>4, TailOf
  <2>6. TodoInv'
    BY <2>1, <2>5 DEF TodoInv, Asking
  <2>7. RankInv'
    <3>1. res.service.id \in Services
      BY <2>1 DEF AnswerInv, ServiceRows, Asking
    <3>2. [id |-> res.service.id, score |-> Compute(res)] \in [id : Services, score : 0..100]
      BY <3>1, ScoreType
    <3>3. answers' \in Seq([id : Services, score : 0..100])
      BY <2>1, <3>2, AppendProperties DEF RankInv
    <3> QED
      BY <1>1, <3>3 DEF RankInv
  <2> QED
    BY <1>2, <2>2, <2>3, <2>6, <2>7
<1> QED
  BY <1>3, <1>4, <1>5

LEMMA TypeStep ==
  ASSUME TypeInv, [Next]_vars
  PROVE  TypeInv'
<1>1. CASE UNCHANGED vars
  BY <1>1 DEF vars, request, TypeInv, StoreInv, ControlInv, TodoInv, RankInv, AnswerInv
<1>2. CASE Query
  <2>1. KeepRest /\ pc' \in Asking /\ pc \in Asking \cup {"find"} /\ tip' \in BOOLEAN
    BY <1>2, QueryFrame DEF TypeInv, ControlInv
  <2>2. StoreInv' /\ ControlInv' /\ TodoInv' /\ RankInv'
    BY <2>1 DEF TypeInv, StoreInv, ControlInv, TodoInv, RankInv, KeepRest, request, fleet,
                Asking
  <2> QED
    BY <1>2, <2>2, QueryType DEF TypeInv
<1> QED
  BY <1>1, <1>2, NextCases, LostType, WriteType, StartType, RankType, EndType

LEMMA TypesInvariant == Spec => []TypeInv
<1>1. Init => TypeInv
  BY InitType
<1>2. TypeInv /\ [Next]_vars => TypeInv'
  BY TypeStep
<1> QED
  BY <1>1, <1>2, PTL DEF Spec

\* The answers have their types: every score lies in 0..100 (score.go:115) and
\* the service that is asked about last is one of those that were ranked.
THEOREM AnswersTyped == Spec => []TypeOK
<1>1. TypeInv => TypeOK
  <2>1. TypeInv => /\ pc \in {"start", "find", "owner", "changes", "alerts", "dependencies", "resolve",
                              "runbook", "verify", "extra", "evidence", "tip", "answered", "rank",
                              "output", "done"}
                   /\ rows \subseteq [id : Services, agent : BOOLEAN, score : 0..100]
    BY DEF TypeInv, ControlInv, RankInv, Entries, Asking
  <2> QED
    BY <2>1 DEF TypeInv, TypeOK, StoreInv, ControlInv, TodoInv, RankInv, AnswerInv
<1> QED
  BY <1>1, TypesInvariant, PTL

-----------------------------------------------------------------------------
(* All that an answer cites is shown, whatever is written meanwhile.        *)

\* The parts of an answer and of what is pending.
Record ==
  /\ res = [service |-> res.service, owner |-> res.owner, changes |-> res.changes,
            alerts |-> res.alerts, up |-> res.up, down |-> res.down,
            runbook |-> res.runbook, steps |-> res.steps, evidence |-> res.evidence]
  /\ pend = [up |-> pend.up, down |-> pend.down, checks |-> pend.checks, ids |-> pend.ids]

\* What is shown has a time that has come.
Timed ==
  /\ \A c \in res.changes : c.at \in Nat /\ ~Skewed(c)
  /\ \A a \in res.alerts : a.at \in Nat /\ (AlertLive(a.status) \/ ~Skewed(a))
  /\ \A e \in res.evidence : e.at \in Nat

\* A cited row that is not shown was not there.
Shown ==
  /\ Cited \subseteq {e.id : e \in res.evidence}
  /\ \A e \in res.evidence : e.kind = "missing" =>
       \E v \in versions : e.id \notin {f.id : f \in v.evidence}

CitedInv ==
  /\ store \in Stores /\ store \in versions /\ Record /\ Timed
  /\ pc = "evidence" => Cited \subseteq pend.ids
  /\ pc \in {"tip", "answered"} => Shown

LEMMA InitCited == Init => CitedInv
<1> SUFFICES ASSUME Init PROVE CitedInv
  OBVIOUS
<1>1. store \in Stores /\ store \in versions
  BY AskAssumption DEF Init
<1> QED
  BY <1>1 DEF Init, CitedInv, Record, Timed, NoAnswer, NothingPending

LEMMA OtherWritesCited ==
  ASSUME CitedInv, OtherWrites
  PROVE  CitedInv'
<1>1. store' \in Stores
  BY WriteStore DEF CitedInv
<1>2. versions' = versions \cup {store'} /\ UNCHANGED <<pc, res, pend>>
  BY DEF OtherWrites
<1> QED
  BY ZenonT(60), <1>1, <1>2 DEF CitedInv, Record, Timed, Cited, Shown

\* Steps that leave the answer alone, and do not go where it must be complete.
LEMMA IdleStep ==
  ASSUME CitedInv, UNCHANGED <<store, versions, res, pend>>,
         pc' \notin {"evidence", "tip", "answered"}
  PROVE  CitedInv'
BY DEF CitedInv, Record, Timed

LEMMA LostCited ==
  ASSUME CitedInv, Lost
  PROVE  CitedInv'
<1>1. pc' \in {"rank", "find", "done"} /\ UNCHANGED <<store, versions, res, pend>>
  BY DEF Lost
<1> QED
  BY <1>1, IdleStep

\* Rows that are read keep their times.
LEMMA ReadTimed ==
  ASSUME CitedInv
  PROVE  /\ \A c \in store.changes : c.at \in Nat
         /\ \A a \in store.alerts : a.at \in Nat
         /\ \A e \in store.evidence : e.at \in Nat /\ e.kind # "missing"
<1>1. store \in Stores
  BY DEF CitedInv
<1> QED
  BY <1>1, StoreTables, TimesNat DEF Changes, Alerts, Evidence

LEMMA QueryCited ==
  ASSUME CitedInv,
         \/ Find \/ GetOwner \/ GetChanges \/ GetAlerts \/ GetDependencies \/ ResolveUp
         \/ ResolveDown \/ ResolveEnd \/ GetRunbookNone \/ GetRunbook \/ VerifyStep \/ VerifyEnd
  PROVE  CitedInv'
<1> USE DEF Step, KeepRest
<1>0. Record /\ Timed /\ store \in Stores /\ store \in versions
  BY DEF CitedInv
<1>1. ASSUME UNCHANGED <<store, versions>>, Record', Timed',
             pc' \notin {"evidence", "tip", "answered"}
      PROVE  CitedInv'
  BY <1>0, <1>1 DEF CitedInv
<1>2. CASE Find
  BY <1>0, <1>1, <1>2 DEF Find, Record, Timed, NoAnswer
<1>3. CASE GetOwner
  BY <1>0, <1>1, <1>3 DEF GetOwner, Record, Timed
<1>4. CASE GetChanges
  <2>1. \A c \in res'.changes : c \in store.changes /\ ~Skewed(c)
    BY <1>0, <1>4 DEF GetChanges, Record, filterNotFutureChanges, ListChanges
  <2>2. Record' /\ res'.alerts = res.alerts /\ res'.evidence = res.evidence
    BY <1>0, <1>4 DEF GetChanges, Record
  <2>3. Timed'
    BY <1>0, <2>1, <2>2, ReadTimed DEF Timed
  <2> QED
    BY <1>1, <1>4, <2>2, <2>3 DEF GetChanges
<1>5. CASE GetAlerts
  <2>1. \A a \in res'.alerts : a \in store.alerts /\ (AlertLive(a.status) \/ ~Skewed(a))
    BY <1>0, <1>5 DEF GetAlerts, Record, filterNotFutureAlerts, ListAlerts
  <2>2. Record' /\ res'.changes = res.changes /\ res'.evidence = res.evidence
    BY <1>0, <1>5 DEF GetAlerts, Record
  <2>3. Timed'
    BY <1>0, <2>1, <2>2, ReadTimed DEF Timed
  <2> QED
    BY <1>1, <1>5, <2>2, <2>3 DEF GetAlerts
<1>6. CASE GetDependencies
  BY <1>0, <1>1, <1>6 DEF GetDependencies, Record, Timed
<1>7. CASE ResolveUp
  BY <1>0, <1>1, <1>7 DEF ResolveUp, Record, Timed
<1>8. CASE ResolveDown
  BY <1>0, <1>1, <1>8 DEF ResolveDown, Record, Timed
<1>9. CASE ResolveEnd
  BY <1>0, <1>1, <1>9 DEF ResolveEnd, Record, Timed
<1>10. CASE GetRunbookNone
  BY <1>0, <1>1, <1>10 DEF GetRunbookNone, Record, Timed
<1>11. CASE GetRunbook
  BY <1>0, <1>1, <1>11 DEF GetRunbook, Record, Timed
<1>12. CASE VerifyStep
  BY <1>0, <1>1, <1>12 DEF VerifyStep, Record, Timed
<1>13. CASE VerifyEnd
  BY <1>0, <1>1, <1>13 DEF VerifyEnd, Record, Timed
<1> QED
  BY <1>2, <1>3, <1>4, <1>5, <1>6, <1>7, <1>8, <1>9, <1>10, <1>11, <1>12, <1>13

LEMMA ListEvidenceCited ==
  ASSUME CitedInv, ListEvidenceForService
  PROVE  CitedInv'
<1>1. /\ pc' = "evidence" /\ UNCHANGED <<store, versions, res>>
      /\ pend' = [pend EXCEPT !.ids =
           Cited \cup {e.id : e \in {f \in store.evidence : f.svc = res.service.id}}]
  BY DEF ListEvidenceForService, Step, KeepRest
<1>2. Record' /\ Cited \subseteq pend'.ids
  BY <1>1 DEF CitedInv, Record
<1>3. Cited' = Cited
  BY <1>1 DEF Cited
<1> QED
  BY <1>1, <1>2, <1>3 DEF CitedInv, Timed

LEMMA CollectEvidenceCited ==
  ASSUME CitedInv, CollectEvidence
  PROVE  CitedInv'
<1> DEFINE found == ListEvidence(store, pend.ids)
           lacking == pend.ids \ {e.id : e \in found}
<1>1. /\ pc = "evidence" /\ pc' = "tip" /\ UNCHANGED <<store, versions>>
      /\ res' = [res EXCEPT !.evidence = found \cup {Missing(id) : id \in lacking}]
      /\ pend' = NothingPending
  BY DEF CollectEvidence, Step, KeepRest
<1>2. /\ found \subseteq store.evidence
      /\ \A id \in lacking : id \notin {f.id : f \in store.evidence}
  BY DEF ListEvidence
<1> HIDE DEF found, lacking
<1>3. /\ res'.evidence = found \cup {Missing(id) : id \in lacking} /\ Record'
      /\ res'.changes = res.changes /\ res'.alerts = res.alerts /\ res'.steps = res.steps
  BY <1>1 DEF CitedInv, Record, NothingPending
<1>4. \A id : Missing(id).id = id /\ Missing(id).at = Now /\ Missing(id).kind = "missing"
  BY DEF Missing
<1>5. Timed'
  <2>1. \A e \in res'.evidence : e.at \in Nat
    BY <1>2, <1>3, <1>4, ReadTimed, SignalsAssumption
  <2> QED
    BY <1>3, <2>1 DEF CitedInv, Timed
<1>6. pend.ids \subseteq {e.id : e \in res'.evidence}
  BY <1>3, <1>4 DEF lacking
<1>7. Cited' \subseteq pend.ids
  BY <1>1, <1>3 DEF CitedInv, Cited
<1>8. \A e \in res'.evidence : e.kind = "missing" => e.id \notin {f.id : f \in store.evidence}
  BY <1>2, <1>3, <1>4, ReadTimed
<1>9. Shown'
  BY <1>1, <1>6, <1>7, <1>8 DEF Shown, CitedInv
<1> QED
  BY <1>1, <1>3, <1>5, <1>9 DEF CitedInv

LEMMA TipCited ==
  ASSUME CitedInv, TransitiveImpactTip \/ TipFails
  PROVE  CitedInv'
<1>1. pc = "tip" /\ pc' = "answered" /\ UNCHANGED <<store, versions, res, pend>>
  BY DEF TransitiveImpactTip, TipFails, Step, KeepRest
<1> QED
  BY <1>1 DEF CitedInv, Record, Timed, Shown, Cited

LEMMA FleetCited ==
  ASSUME CitedInv, Fleet
  PROVE  CitedInv'
<1>1. CASE StartNamed
  BY <1>1, IdleStep DEF StartNamed
<1>2. CASE StartFleet
  BY <1>2, IdleStep DEF StartFleet
<1>3. CASE RankAnswer
  BY <1>3, IdleStep DEF RankAnswer
<1>4. CASE PickHottest
  BY <1>4, IdleStep DEF PickHottest
<1>5. CASE Top
  BY <1>5, IdleStep DEF Top
<1>6. CASE Answer
  BY <1>6, IdleStep DEF Answer
<1>7. CASE Output
  BY <1>7, IdleStep DEF Output
<1>8. CASE ListServicesFails
  BY <1>8, LostCited DEF ListServicesFails
<1> QED
  BY <1>1, <1>2, <1>3, <1>4, <1>5, <1>6, <1>7, <1>8 DEF Fleet

LEMMA NextCited ==
  ASSUME CitedInv, [Next]_vars
  PROVE  CitedInv'
<1>1. CASE UNCHANGED vars
  BY ZenonT(60), <1>1 DEF vars, CitedInv, Record, Timed, Shown, Cited
<1>2. CASE FindMiss \/ QueryFails
  BY <1>2, LostCited DEF FindMiss, QueryFails
<1> QED
  BY <1>1, <1>2, OtherWritesCited, QueryCited, ListEvidenceCited, CollectEvidenceCited, TipCited,
     FleetCited DEF Next, Ask

\* The timeline has what is shown, at a time that has come.
LEMMA Timeline ==
  ASSUME Timed
  PROVE  /\ \A r \in res.changes \cup res.alerts :
              \E e \in buildTimeline(res) :
                e.kind \in {"change", "alert"} /\ e.of = r.id /\ e.ev = r.ev
         /\ \A e \in buildTimeline(res) : e.at \in 1..Now
<1> DEFINE shown == changeEvents(res) \cup alertEvents(res)
<1>1. shown \subseteq buildTimeline(res)
  BY DEF buildTimeline
<1>2. \A c \in res.changes : Event(c.at, "change", c.id, c.ev) \in shown
  BY DEF changeEvents, Timed
<1>3. \A a \in res.alerts : Event(AlertAt(a), "alert", a.id, a.ev) \in shown
  BY DEF alertEvents, Timed
<1>4. \A r : r.at \in Nat /\ ~Skewed(r) => r.at \in 1..Now
  BY SignalsAssumption DEF Skewed
<1>5. Now \in 1..Now
  BY SignalsAssumption
<1>6. \A a \in res.alerts : AlertAt(a) \in 1..Now
  BY <1>4, <1>5 DEF AlertAt, Timed
<1>7. \A at, k, of, ev : Event(at, k, of, ev).at = at /\ Event(at, k, of, ev).kind = k
                         /\ Event(at, k, of, ev).of = of /\ Event(at, k, of, ev).ev = ev
  BY DEF Event
<1>8. \A r \in res.changes \cup res.alerts :
        \E e \in buildTimeline(res) :
          e.kind \in {"change", "alert"} /\ e.of = r.id /\ e.ev = r.ev
  <2> HIDE DEF shown
  <2> QED
    BY <1>1, <1>2, <1>3, <1>7
<1>9. \A e \in shown : e.at \in 1..Now
  BY <1>4, <1>6, <1>7 DEF changeEvents, alertEvents, Timed
<1>10. \A e \in buildTimeline(res) :
         \/ e \in shown
         \/ \E f \in res.evidence : ~Skewed(f) /\ e = Event(f.at, "k8s-event", 0, f.id)
         \/ \E k, of : e = Event(Now, k, of, "")
  BY DEF buildTimeline
<1>11. \A e \in buildTimeline(res) : e.at \in 1..Now
  <2> HIDE DEF shown
  <2> SUFFICES ASSUME NEW e \in buildTimeline(res)
               PROVE  e.at \in 1..Now
    OBVIOUS
  <2>1. CASE e \in shown
    BY <1>9, <2>1
  <2>2. CASE \E f \in res.evidence : ~Skewed(f) /\ e = Event(f.at, "k8s-event", 0, f.id)
    <3>1. PICK f \in res.evidence : ~Skewed(f) /\ e = Event(f.at, "k8s-event", 0, f.id)
      BY <2>2
    <3>2. f.at \in Nat
      BY DEF Timed
    <3>3. f.at \in 1..Now
      BY <1>4, <3>1, <3>2
    <3>4. e.at = f.at
      BY <3>1 DEF Event
    <3> QED
      BY <3>3, <3>4
  <2>3. CASE \E k, of : e = Event(Now, k, of, "")
    <3>1. PICK k, of : e = Event(Now, k, of, "")
      BY <2>3
    <3>2. e.at = Now
      BY <3>1 DEF Event
    <3> QED
      BY <1>5, <3>2
  <2> QED
    BY <1>10, <2>1, <2>2, <2>3
<1> QED
  BY <1>8, <1>11

\* Whatever is written meanwhile, all that an answer cites is shown, and what is
\* shown has come (ask.go:276-330).
THEOREM AllCitedIsShown == Spec => []CitedShown
<1>1. Init => CitedInv
  BY InitCited
<1>2. CitedInv /\ [Next]_vars => CitedInv'
  BY NextCited
<1>3. CitedInv => CitedShown
  BY Timeline DEF CitedInv, Shown, CitedShown
<1> QED
  BY <1>1, <1>2, <1>3, PTL DEF Spec

-----------------------------------------------------------------------------
(* What stays in the store is found, whatever else is written meanwhile.    *)

AfterChanges == Asking \ {"owner", "changes"}
AfterAlerts == AfterChanges \ {"alerts"}
AfterNeighbours == AfterAlerts \ {"dependencies", "resolve"}

\* A query changes its own part of the answer only.
LEMMA FieldFrame ==
  ASSUME AnswerInv, Query, ~Find
  PROVE  /\ res'.service = res.service
         /\ GetChanges \/ res'.changes = res.changes
         /\ GetAlerts \/ res'.alerts = res.alerts
         /\ ResolveUp \/ res'.up = res.up
         /\ ResolveDown \/ res'.down = res.down
         /\ VerifyEnd \/ res'.runbook = res.runbook
         /\ VerifyStep \/ res'.steps = res.steps
         /\ CollectEvidence \/ res'.evidence = res.evidence
<1> USE DEF Step, KeepRest
<1>0. res \in AskResults
  BY DEF AnswerInv
<1>1. CASE GetOwner
  BY <1>0, <1>1 DEF GetOwner, AskResults
<1>2. CASE GetChanges
  BY <1>0, <1>2 DEF GetChanges, AskResults
<1>3. CASE GetAlerts
  BY <1>0, <1>3 DEF GetAlerts, AskResults
<1>4. CASE ResolveUp
  BY <1>0, <1>4 DEF ResolveUp, AskResults
<1>5. CASE ResolveDown
  BY <1>0, <1>5 DEF ResolveDown, AskResults
<1>6. CASE VerifyStep
  BY <1>0, <1>6 DEF VerifyStep, AskResults
<1>7. CASE VerifyEnd
  BY <1>0, <1>7 DEF VerifyEnd, AskResults
<1>8. CASE CollectEvidence
  BY <1>0, <1>8 DEF CollectEvidence, AskResults
<1>9. CASE \/ GetDependencies \/ ResolveEnd \/ GetRunbookNone \/ GetRunbook
           \/ ListEvidenceForService \/ TransitiveImpactTip \/ TipFails
  <2>1. res' = res
    BY <1>9 DEF GetDependencies, ResolveEnd, GetRunbookNone, GetRunbook,
                ListEvidenceForService, TransitiveImpactTip, TipFails
  <2> QED
    BY <2>1
<1> QED
  BY <1>1, <1>2, <1>3, <1>4, <1>5, <1>6, <1>7, <1>8, <1>9 DEF Query

\* One query comes after the other.
LEMMA StageFrame ==
  ASSUME Query
  PROVE  /\ pc' \in AfterChanges => ~Find /\ (pc \in AfterChanges \/ GetChanges)
         /\ pc' \in AfterAlerts => ~Find /\ (pc \in AfterAlerts \/ GetAlerts)
         /\ pc' \in AfterNeighbours => ~Find /\ (pc \in AfterNeighbours \/ ResolveEnd)
<1> USE DEF Step, AfterChanges, AfterAlerts, AfterNeighbours, Asking
<1>1. CASE Find
  BY <1>1 DEF Find
<1>2. CASE GetOwner
  BY <1>2 DEF GetOwner, Find
<1>3. CASE GetChanges
  BY <1>3 DEF GetChanges, Find
<1>4. CASE GetAlerts
  BY <1>4 DEF GetAlerts, Find
<1>5. CASE GetDependencies \/ ResolveUp \/ ResolveDown
  BY <1>5 DEF GetDependencies, ResolveUp, ResolveDown, Find
<1>6. CASE ResolveEnd
  BY <1>6 DEF ResolveEnd, Find
<1>7. CASE GetRunbookNone \/ GetRunbook \/ VerifyStep \/ VerifyEnd
  BY <1>7 DEF GetRunbookNone, GetRunbook, VerifyStep, VerifyEnd, Find
<1>8. CASE ListEvidenceForService \/ CollectEvidence \/ TransitiveImpactTip \/ TipFails
  BY <1>8 DEF ListEvidenceForService, CollectEvidence, TransitiveImpactTip, TipFails, Find
<1> QED
  BY <1>1, <1>2, <1>3, <1>4, <1>5, <1>6, <1>7, <1>8 DEF Query

\* A row that was there all the time is in the answer.
StaysInv ==
  /\ pc \in AfterChanges =>
       \A c \in store.changes :
         /\ \A v \in versions : c \in v.changes
         /\ c.svc = res.service.id /\ ~Skewed(c) /\ c.at >= Now - ChangeLookback(req.since)
         => c \in res.changes
  /\ pc \in AfterAlerts =>
       \A a \in store.alerts :
         /\ \A v \in versions : a \in v.alerts
         /\ a.svc = res.service.id /\ AlertActive(a.status)
         => a \in res.alerts

LEMMA SameStays ==
  ASSUME StaysInv, UNCHANGED <<store, versions, res, req>>,
         pc' \in AfterChanges => pc \in AfterChanges, pc' \in AfterAlerts => pc \in AfterAlerts
  PROVE  StaysInv'
BY DEF StaysInv

LEMMA WriteStays ==
  ASSUME StoreInv, StaysInv, OtherWrites
  PROVE  StaysInv'
<1>1. versions' = versions \cup {store'} /\ UNCHANGED <<pc, res, req>> /\ store \in versions
  BY DEF OtherWrites, request, StoreInv
<1>2. ASSUME NEW c, c \in store'.changes, \A v \in versions' : c \in v.changes
      PROVE  c \in store.changes /\ \A v \in versions : c \in v.changes
  BY <1>1, <1>2
<1>3. ASSUME NEW a, a \in store'.alerts, \A v \in versions' : a \in v.alerts
      PROVE  a \in store.alerts /\ \A v \in versions : a \in v.alerts
  BY <1>1, <1>3
<1>4. ASSUME pc' \in AfterChanges, NEW c \in store'.changes, \A v \in versions' : c \in v.changes,
             c.svc = res'.service.id, ~Skewed(c), c.at >= Now - ChangeLookback(req'.since)
      PROVE  c \in res'.changes
  BY <1>1, <1>2, <1>4 DEF StaysInv
<1>5. ASSUME pc' \in AfterAlerts, NEW a \in store'.alerts, \A v \in versions' : a \in v.alerts,
             a.svc = res'.service.id, AlertActive(a.status)
      PROVE  a \in res'.alerts
  BY <1>1, <1>3, <1>5 DEF StaysInv
<1> QED
  BY <1>4, <1>5 DEF StaysInv

LEMMA QueryStays ==
  ASSUME AnswerInv, StaysInv, Query
  PROVE  StaysInv'
<1>1. UNCHANGED <<store, versions, req>>
  BY QueryFrame DEF KeepRest, request
<1>2. ASSUME pc' \in AfterChanges, NEW c \in store.changes, \A v \in versions : c \in v.changes,
             c.svc = res'.service.id, ~Skewed(c), c.at >= Now - ChangeLookback(req.since)
      PROVE  c \in res'.changes
  <2>1. res'.service = res.service /\ (pc \in AfterChanges \/ GetChanges)
    BY <1>2, FieldFrame, StageFrame
  <2>2. CASE GetChanges
    <3>1. res'.changes = filterNotFutureChanges(
            ListChanges(store, res.service.id, Now - ChangeLookback(req.since)))
      BY <2>2 DEF GetChanges, AnswerInv, AskResults
    <3> QED
      BY <1>2, <2>1, <3>1 DEF filterNotFutureChanges, ListChanges
  <2>3. CASE ~GetChanges
    BY <1>2, <2>1, <2>3, FieldFrame, StageFrame DEF StaysInv
  <2> QED
    BY <2>2, <2>3
<1>3. ASSUME pc' \in AfterAlerts, NEW a \in store.alerts, \A v \in versions : a \in v.alerts,
             a.svc = res'.service.id, AlertActive(a.status)
      PROVE  a \in res'.alerts
  <2>1. res'.service = res.service /\ (pc \in AfterAlerts \/ GetAlerts)
    BY <1>3, FieldFrame, StageFrame
  <2>2. CASE GetAlerts
    <3>1. res'.alerts = filterNotFutureAlerts(ListAlerts(store, res.service.id, Now - req.since))
      BY <2>2 DEF GetAlerts, AnswerInv, AskResults
    <3> QED
      BY <1>3, <2>1, <3>1 DEF filterNotFutureAlerts, ListAlerts, AlertLive
  <2>3. CASE ~GetAlerts
    BY <1>3, <2>1, <2>3, FieldFrame, StageFrame DEF StaysInv
  <2> QED
    BY <2>2, <2>3
<1> QED
  BY <1>1, <1>2, <1>3 DEF StaysInv

LEMMA StaysStep ==
  ASSUME TypeInv, StaysInv, [Next]_vars
  PROVE  StaysInv'
<1>1. CASE UNCHANGED vars
  BY <1>1, SameStays DEF vars, request
<1>2. CASE Lost
  <2>1. UNCHANGED <<store, versions, res, req>> /\ pc' \in {"rank", "find", "done"}
    BY <1>2 DEF Lost, request
  <2> QED
    BY <2>1, SameStays DEF AfterChanges, AfterAlerts, Asking
<1>3. CASE StartNamed \/ StartFleet \/ RankAnswer \/ PickHottest \/ Top \/ Answer \/ Output
  <2>1. UNCHANGED <<store, versions, res, req>> /\ pc' \in {"find", "rank", "output", "done"}
    BY <1>3 DEF StartNamed, StartFleet, RankAnswer, PickHottest, Top, Answer, Output, request
  <2> QED
    BY <2>1, SameStays DEF AfterChanges, AfterAlerts, Asking
<1> QED
  BY <1>1, <1>2, <1>3, NextCases, QueryStays, WriteStays DEF TypeInv

\* Of the changes that precede an alert, one that is a deploy comes first.
LEMMA PrecedingDeploy ==
  ASSUME NEW S, Dated(S), NEW at \in Nat, NEW c \in S, changeRank(c) = 0,
         c.at # 0, c.at <= at, at - c.at <= correlateWindow
  PROVE  \E d \in precedingChange(S, at) : d \in S /\ changeRank(d) = 0 /\ d.at >= c.at
<1> DEFINE near == {d \in S : d.at # 0 /\ d.at <= at /\ at - d.at <= correlateWindow}
           best == {d \in near : \A e \in near : changeRank(d) <= changeRank(e)}
<1>1. c \in near
  OBVIOUS
<1>2. \A d : changeRank(d) \in 0..2
  BY DEF changeRank
<1>3. c \in best
  BY <1>1, <1>2
<1>4. best \subseteq S
  OBVIOUS
<1>5. Newest(best) \in best /\ Newest(best).at >= c.at
  <2> HIDE DEF best
  <2>1. Dated(best)
    BY <1>4, SubsetDated
  <2> QED
    BY <1>3, <2>1, NewestOf
<1>6. changeRank(Newest(best)) = 0
  <2>1. changeRank(Newest(best)) <= changeRank(c)
    BY <1>1, <1>5
  <2> QED
    BY <1>2, <2>1
<1>7. precedingChange(S, at) = {Newest(best)}
  BY <1>1 DEF precedingChange
<1> HIDE DEF best
<1> QED
  BY <1>4, <1>5, <1>6, <1>7

\* An active alert that stays, and that a deploy of the last hour or of the window
\* precedes which stays too, is linked to a deploy that is not older
\* (correlate.go:15).
THEOREM CausesAreFound == Spec => []CausesFound
<1>1. Init => StaysInv
  BY DEF Init, StaysInv, AfterChanges, AfterAlerts, Asking
<1>2. TypeInv /\ StaysInv /\ [Next]_vars => StaysInv'
  BY StaysStep
<1>3. TypeInv /\ StaysInv => CausesFound
  <2> SUFFICES ASSUME TypeInv, StaysInv, pc = "answered",
                      NEW a \in store.alerts, NEW c \in Causes(store, a),
                      AlertActive(a.status), a.svc = res.service.id,
                      Now - c.at <= correlateWindow \/ Now - c.at <= req.since,
                      \A v \in versions : a \in v.alerts /\ c \in v.changes
               PROVE  \E l \in correlate(res) : l[2] = a /\ changeRank(l[1]) = 0 /\ l[1].at >= c.at
    BY DEF CausesFound
  <2>1. store \in Stores
    BY DEF TypeInv, StoreInv
  <2>2. /\ c \in store.changes /\ c.svc = a.svc /\ changeRank(c) = 0 /\ c.at # 0
        /\ c.at <= AlertAt(a) /\ AlertAt(a) - c.at <= correlateWindow
    BY DEF Causes
  <2>3. c.at \in Nat /\ a.at \in Nat
    BY <2>1, <2>2, StoreTables DEF Dated
  <2>4. AlertAt(a) \in Nat /\ AlertAt(a) <= Now
    BY <2>3, SignalsAssumption DEF AlertAt, Skewed
  <2>5. ~Skewed(c)
    BY <2>2, <2>3, <2>4, SignalsAssumption DEF Skewed
  <2>10. c.at >= Now - ChangeLookback(req.since)
    <3>1. req.since \in Nat
      BY DEF TypeInv, ControlInv, Requests
    <3> QED
      BY <2>3, <3>1, SignalsAssumption DEF ChangeLookback
  <2>6. c \in res.changes /\ a \in ActiveAlerts(res)
    BY <2>2, <2>5, <2>10 DEF StaysInv, AfterChanges, AfterAlerts, Asking, ActiveAlerts
  <2>7. Dated(res.changes)
    <3>1. Table(res.changes) /\ res.changes \subseteq Changes
      BY DEF TypeInv, AnswerInv, AskResults
    <3> QED
      BY <3>1, TimesNat DEF Dated, Changes
  <2>8. PICK d \in precedingChange(res.changes, AlertAt(a)) : changeRank(d) = 0 /\ d.at >= c.at
    BY <2>2, <2>4, <2>6, <2>7, PrecedingDeploy
  <2>9. <<d, a>> \in correlate(res)
    BY <2>6, <2>8 DEF correlate
  <2> QED
    BY <2>8, <2>9
<1> QED
  BY <1>1, <1>2, <1>3, TypesInvariant, PTL DEF Spec

-----------------------------------------------------------------------------
(* When nobody else writes, an answer is a function of the store.           *)

ChangesOf(st, id, since) == filterNotFutureChanges(ListChanges(st, id, Now - ChangeLookback(since)))
AlertsOf(st, id, since) == filterNotFutureAlerts(ListAlerts(st, id, Now - since))
EdgesOf(st, id) == {d.id : d \in ListDependencies(st, id)}
UpOf(st, id) == {d[2] : d \in {e \in EdgesOf(st, id) : e[1] = id}}
DownOf(st, id) == {d[1] : d \in {e \in EdgesOf(st, id) : e[2] = id}}
ResolvedIn(st, id) ==
  IF GetService(st, id) = {} THEN Stub(id) ELSE CHOOSE s \in GetService(st, id) : TRUE
RowsOf(st, ids) == {ResolvedIn(st, id) : id \in ids}
BooksOf(st, id) == {r \in st.runbooks : r.id = id}
StepsOf(st, id) == (CHOOSE r \in BooksOf(st, id) : TRUE).steps
RunbookOf(st, id, with) ==
  IF with /\ BooksOf(st, id) # {}
  THEN rollup([i \in 1..Len(StepsOf(st, id)) |-> verifyStep(st, id, StepsOf(st, id)[i])])
  ELSE "none"

BeforeBook == {"owner", "changes", "alerts", "dependencies", "resolve", "runbook"}
AfterBook == {"extra", "evidence", "tip", "answered"}

\* The service and the rows that were listed for it.
ListedQuiet ==
  /\ pc \in Asking => res.service \in store.services
  /\ pc \in AfterChanges => res.changes = ChangesOf(store, res.service.id, req.since)
  /\ pc \in AfterAlerts => res.alerts = AlertsOf(store, res.service.id, req.since)

\* The neighbours, some of which may wait to be resolved.
NeighboursQuiet ==
  /\ pc \in Asking \ AfterNeighbours /\ pc # "resolve" => res.up = {} /\ res.down = {}
  /\ pc = "resolve" =>
       /\ pend.up \subseteq UpOf(store, res.service.id)
       /\ res.up = RowsOf(store, UpOf(store, res.service.id) \ pend.up)
       /\ pend.down \subseteq DownOf(store, res.service.id)
       /\ res.down = RowsOf(store, DownOf(store, res.service.id) \ pend.down)
  /\ pc \in AfterNeighbours =>
       /\ res.up = RowsOf(store, UpOf(store, res.service.id))
       /\ res.down = RowsOf(store, DownOf(store, res.service.id))

\* checks are what is left of the runbook r after steps.
Midway(st, id, r, steps, checks) ==
  /\ Len(r) = Len(steps) + Len(checks)
  /\ \A i \in 1..Len(steps) : steps[i] = verifyStep(st, id, r[i])
  /\ \A i \in 1..Len(checks) : checks[i] = r[Len(steps) + i]

\* The runbook, some steps of which may wait to be verified.
RunbookQuiet ==
  /\ pc \in BeforeBook => res.steps = <<>>
  /\ pc \in BeforeBook \cup {"verify"} => res.runbook = "none"
  /\ pc \in {"runbook", "verify"} => WithRunbook
  /\ pc = "verify" =>
       /\ BooksOf(store, res.service.id) # {}
       /\ Midway(store, res.service.id, StepsOf(store, res.service.id), res.steps, pend.checks)
  /\ pc \in AfterBook => res.runbook = RunbookOf(store, res.service.id, WithRunbook)

\* A verdict is that of its check.
VerdictsQuiet ==
  pc \in Asking => \A i \in DOMAIN res.steps :
                     res.steps[i] = verifyStep(store, res.service.id, res.steps[i].check)

\* What is called missing is cited and has no row; the tip counts.
EndQuiet ==
  /\ pc = "evidence" => pend.ids \subseteq Cited \cup {e.id : e \in store.evidence}
  /\ pc \in {"tip", "answered"} =>
       \A e \in res.evidence : e.kind = "missing" =>
         e.id \in Cited /\ e.id \notin {f.id : f \in store.evidence}
  /\ pc \in Asking /\ tip =>
       /\ pc = "answered"
       /\ Cardinality(Affected(store.dependencies, res.service.id)) > Cardinality(res.down)

QuietInv ==
  Quiet => ListedQuiet /\ NeighboursQuiet /\ RunbookQuiet /\ VerdictsQuiet /\ EndQuiet

LEMMA QueryListed ==
  ASSUME AnswerInv, ListedQuiet, Query
  PROVE  ListedQuiet'
<1>1. UNCHANGED <<store, req>>
  BY QueryFrame DEF KeepRest, request
<1>2. CASE Find
  <2>1. pc' = "owner" /\ res'.service \in store.services
    <3> DEFINE found == GetServiceByNameOrAlias(store, Head(todo))
    <3>1. /\ Cardinality(found) = 1 /\ pc' = "owner"
          /\ res' = [NoAnswer EXCEPT !.service = CHOOSE s \in found : TRUE]
      BY <1>2 DEF Find
    <3>2. found # {}
      <4> HIDE DEF found
      <4> QED
        BY <3>1, FS_EmptySet
    <3>3. found \subseteq store.services
      BY DEF GetServiceByNameOrAlias
    <3>4. (CHOOSE s \in found : TRUE) \in found
      <4> HIDE DEF found
      <4> QED
        BY <3>2
    <3>5. res'.service = CHOOSE s \in found : TRUE
      BY <3>1 DEF NoAnswer
    <3> QED
      BY <3>1, <3>3, <3>4, <3>5
  <2> QED
    BY <1>1, <2>1 DEF ListedQuiet, AfterChanges, AfterAlerts
<1>3. CASE ~Find
  <2>1. res'.service = res.service /\ pc \in Asking
    <3>1. pc \in Asking
      BY <1>3 DEF Query, Step, Asking, GetOwner, GetChanges, GetAlerts, GetDependencies,
         ResolveUp, ResolveDown, ResolveEnd, GetRunbookNone, GetRunbook, VerifyStep, VerifyEnd,
         ListEvidenceForService, CollectEvidence, TransitiveImpactTip, TipFails
    <3> QED
      BY <1>3, <3>1, FieldFrame
  <2>2. GetChanges => res'.changes = ChangesOf(store, res.service.id, req.since)
    BY DEF GetChanges, AnswerInv, AskResults, ChangesOf
  <2>3. GetAlerts => res'.alerts = AlertsOf(store, res.service.id, req.since)
    BY DEF GetAlerts, AnswerInv, AskResults, AlertsOf
  <2>4. pc' \in AfterChanges => res'.changes = ChangesOf(store, res.service.id, req.since)
    BY <1>3, <2>2, FieldFrame, StageFrame DEF ListedQuiet
  <2>5. pc' \in AfterAlerts => res'.alerts = AlertsOf(store, res.service.id, req.since)
    BY <1>3, <2>3, FieldFrame, StageFrame DEF ListedQuiet
  <2> QED
    BY <1>1, <2>1, <2>4, <2>5 DEF ListedQuiet
<1> QED
  BY <1>2, <1>3

LEMMA QueryNeighbours ==
  ASSUME AnswerInv, NeighboursQuiet, Query
  PROVE  NeighboursQuiet'
<1> USE DEF Step, KeepRest
<1>0. store' = store
  BY QueryFrame
<1>1. \A id : Resolved(id) = ResolvedIn(store, id)
  BY DEF Resolved, ResolvedIn
<1>2. \A ids, p : \A id \in p : p \subseteq ids =>
        /\ RowsOf(store, ids \ p) \cup {ResolvedIn(store, id)} = RowsOf(store, ids \ (p \ {id}))
        /\ p \ {id} \subseteq ids
  BY DEF RowsOf
<1> DEFINE up == UpOf(store, res.service.id)
           down == DownOf(store, res.service.id)
<1>3. CASE Find
  <2>1. pc' = "owner" /\ res'.up = {} /\ res'.down = {}
    BY <1>3 DEF Find, NoAnswer
  <2> QED
    BY <2>1 DEF NeighboursQuiet, AfterNeighbours, AfterAlerts, AfterChanges
<1>4. CASE GetOwner \/ GetChanges \/ GetAlerts
  <2>1. res'.up = res.up /\ res'.down = res.down
    BY <1>4, FieldFrame DEF Query, GetOwner, GetChanges, GetAlerts, Find, ResolveUp, ResolveDown
  <2>2. pc \in {"owner", "changes", "alerts"} /\ pc' \in {"changes", "alerts", "dependencies"}
    BY <1>4 DEF GetOwner, GetChanges, GetAlerts
  <2> QED
    BY <2>1, <2>2 DEF NeighboursQuiet, AfterNeighbours, AfterAlerts, AfterChanges, Asking
<1>5. CASE GetDependencies
  <2>1. pc = "dependencies" /\ pc' = "resolve" /\ res' = res /\ pend'.up = up /\ pend'.down = down
    BY <1>5 DEF GetDependencies, AnswerInv, Pending, UpOf, DownOf, EdgesOf
  <2>2. res.up = {} /\ res.down = {}
    BY <2>1 DEF NeighboursQuiet, AfterNeighbours, AfterAlerts, AfterChanges, Asking
  <2>3. \A ids : RowsOf(store, ids \ ids) = {}
    BY DEF RowsOf
  <2> QED
    BY <1>0, <2>1, <2>2, <2>3 DEF NeighboursQuiet, AfterNeighbours, AfterAlerts, AfterChanges
<1>6. CASE ResolveUp
  <2>1. PICK id \in pend.up :
          /\ pc = "resolve" /\ pc' = "resolve" /\ res'.up = res.up \cup {Resolved(id)}
          /\ pend'.up = pend.up \ {id} /\ pend'.down = pend.down /\ res'.down = res.down
          /\ res'.service = res.service
    <3>1. pend.up \subseteq Int /\ IsFiniteSet(pend.up) /\ pend.up # {}
      BY <1>6, AskAssumption DEF AnswerInv, Pending, ResolveUp
    <3>2. Min(pend.up) \in pend.up
      BY <3>1, MinOf
    <3> QED
      BY <1>6, <3>2 DEF ResolveUp, AnswerInv, AskResults, Pending
  <2>2. pend.up \subseteq up /\ res.up = RowsOf(store, up \ pend.up)
    BY <2>1 DEF NeighboursQuiet
  <2>3. pend'.up \subseteq up /\ res'.up = RowsOf(store, up \ pend'.up)
    <3> DEFINE p == pend.up
    <3> HIDE DEF up, p
    <3>1. /\ RowsOf(store, up \ p) \cup {ResolvedIn(store, id)} = RowsOf(store, up \ (p \ {id}))
          /\ p \ {id} \subseteq up
      <4>1. id \in p /\ p \subseteq up
        BY <2>1, <2>2 DEF p
      <4> QED
        BY <1>2, <4>1
    <3>2. res'.up = RowsOf(store, up \ p) \cup {ResolvedIn(store, id)} /\ pend'.up = p \ {id}
      BY <1>1, <2>1, <2>2 DEF p
    <3> QED
      BY <3>1, <3>2
  <2> QED
    BY <1>0, <2>1, <2>3 DEF NeighboursQuiet, AfterNeighbours, AfterAlerts, AfterChanges
<1>7. CASE ResolveDown
  <2>1. PICK id \in pend.down :
          /\ pc = "resolve" /\ pc' = "resolve" /\ res'.down = res.down \cup {Resolved(id)}
          /\ pend'.down = pend.down \ {id} /\ pend'.up = pend.up /\ res'.up = res.up
          /\ res'.service = res.service
    <3>1. pend.down \subseteq Int /\ IsFiniteSet(pend.down) /\ pend.down # {}
      BY <1>7, AskAssumption DEF AnswerInv, Pending, ResolveDown
    <3>2. Min(pend.down) \in pend.down
      BY <3>1, MinOf
    <3> QED
      BY <1>7, <3>2 DEF ResolveDown, AnswerInv, AskResults, Pending
  <2>2. pend.down \subseteq down /\ res.down = RowsOf(store, down \ pend.down)
    BY <2>1 DEF NeighboursQuiet
  <2>3. pend'.down \subseteq down /\ res'.down = RowsOf(store, down \ pend'.down)
    <3> DEFINE p == pend.down
    <3> HIDE DEF down, p
    <3>1. /\ RowsOf(store, down \ p) \cup {ResolvedIn(store, id)} = RowsOf(store, down \ (p \ {id}))
          /\ p \ {id} \subseteq down
      <4>1. id \in p /\ p \subseteq down
        BY <2>1, <2>2 DEF p
      <4> QED
        BY <1>2, <4>1
    <3>2. res'.down = RowsOf(store, down \ p) \cup {ResolvedIn(store, id)} /\ pend'.down = p \ {id}
      BY <1>1, <2>1, <2>2 DEF p
    <3> QED
      BY <3>1, <3>2
  <2> QED
    BY <1>0, <2>1, <2>3 DEF NeighboursQuiet, AfterNeighbours, AfterAlerts, AfterChanges
<1>8. CASE ResolveEnd
  <2>1. /\ pc = "resolve" /\ pc' \in AfterNeighbours /\ res' = res
        /\ pend.up = {} /\ pend.down = {}
    BY <1>8 DEF ResolveEnd, AfterNeighbours, AfterAlerts, AfterChanges, Asking
  <2>2. \A ids : ids \ {} = ids
    OBVIOUS
  <2> HIDE DEF up, down
  <2>3. res.up = RowsOf(store, up) /\ res.down = RowsOf(store, down)
    BY <2>1, <2>2 DEF NeighboursQuiet, up, down
  <2> QED
    BY <1>0, <2>1, <2>3 DEF NeighboursQuiet, AfterNeighbours, AfterAlerts, AfterChanges, up, down
<1>9. CASE \/ GetRunbookNone \/ GetRunbook \/ VerifyStep \/ VerifyEnd
           \/ ListEvidenceForService \/ CollectEvidence \/ TransitiveImpactTip \/ TipFails
  <2>1. /\ pc \in {"runbook", "verify", "extra", "evidence", "tip"} /\ pc' \in AfterNeighbours
    BY <1>9 DEF GetRunbookNone, GetRunbook, VerifyStep, VerifyEnd, ListEvidenceForService,
       CollectEvidence, TransitiveImpactTip, TipFails, AfterNeighbours, AfterAlerts, AfterChanges, Asking
  <2>2. ~Find /\ ~ResolveUp /\ ~ResolveDown
    BY <2>1 DEF Find, ResolveUp, ResolveDown
  <2>3. res'.service = res.service /\ res'.up = res.up /\ res'.down = res.down
    BY <2>2, FieldFrame
  <2>4. pc \in AfterNeighbours
    BY <2>1 DEF AfterNeighbours, AfterAlerts, AfterChanges, Asking
  <2> QED
    BY <1>0, <2>1, <2>3, <2>4 DEF NeighboursQuiet, AfterNeighbours, AfterAlerts, AfterChanges
<1> QED
  BY <1>3, <1>4, <1>5, <1>6, <1>7, <1>8, <1>9 DEF Query

\* One check more is verified.
LEMMA MidwayNext ==
  ASSUME NEW st, NEW id, NEW R, NEW S, NEW r \in Seq(R), NEW steps \in Seq(S),
         NEW checks \in Seq(R), checks # <<>>, Midway(st, id, r, steps, checks)
  PROVE  Midway(st, id, r, Append(steps, verifyStep(st, id, Head(checks))), Tail(checks))
<1> DEFINE v == verifyStep(st, id, Head(checks))
           more == Append(steps, v)
<1>1. /\ Len(r) = Len(steps) + Len(checks)
      /\ \A i \in 1..Len(steps) : steps[i] = verifyStep(st, id, r[i])
      /\ \A i \in 1..Len(checks) : checks[i] = r[Len(steps) + i]
  BY DEF Midway
<1>2. Len(checks) \in Nat /\ Len(checks) > 0 /\ Len(steps) \in Nat
  OBVIOUS
<1>3. Len(more) = Len(steps) + 1 /\ Len(Tail(checks)) = Len(checks) - 1
  BY <1>2
<1>4. Head(checks) = r[Len(steps) + 1]
  BY <1>1, <1>2
<1>5. \A i \in 1..Len(more) : more[i] = verifyStep(st, id, r[i])
  <2> SUFFICES ASSUME NEW i \in 1..Len(more)
               PROVE  more[i] = verifyStep(st, id, r[i])
    OBVIOUS
  <2>1. CASE i = Len(steps) + 1
    <3>1. more[i] = v
      <4> HIDE DEF v
      <4> QED
        BY <1>2, <2>1
    <3> QED
      BY <1>4, <2>1, <3>1
  <2>2. CASE i # Len(steps) + 1
    <3>1. i \in 1..Len(steps)
      BY <1>2, <1>3, <2>2
    <3>2. more[i] = steps[i]
      <4> HIDE DEF v
      <4> QED
        BY <3>1
    <3> QED
      BY <1>1, <3>1, <3>2
  <2> QED
    BY <2>1, <2>2
<1>6. \A i \in 1..Len(Tail(checks)) : Tail(checks)[i] = r[Len(more) + i]
  <2> SUFFICES ASSUME NEW i \in 1..Len(Tail(checks))
               PROVE  Tail(checks)[i] = r[Len(more) + i]
    OBVIOUS
  <2>1. Tail(checks)[i] = checks[i + 1] /\ i + 1 \in 1..Len(checks)
    BY <1>2, <1>3
  <2>2. Len(more) + i = Len(steps) + (i + 1)
    BY <1>2, <1>3
  <2> HIDE DEF more
  <2> QED
    BY <1>1, <2>1, <2>2
<1>7. Len(r) = Len(more) + Len(Tail(checks))
  BY <1>1, <1>2, <1>3
<1> HIDE DEF more
<1>8. Midway(st, id, r, more, Tail(checks))
  BY <1>5, <1>6, <1>7 DEF Midway
<1> QED
  BY <1>8 DEF more

LEMMA QueryRunbook ==
  ASSUME StoreInv, ControlInv, AnswerInv, RunbookQuiet, Query
  PROVE  RunbookQuiet'
<1> USE DEF Step, KeepRest
<1>0. store' = store /\ WithRunbook' = WithRunbook
  BY QueryFrame DEF request, WithRunbook
<1> DEFINE id == res.service.id
<1>1. WithRunbook \in BOOLEAN
  BY DEF ControlInv, Requests, WithRunbook
<1>2. MyRunbook = BooksOf(store, id)
  BY DEF MyRunbook, BooksOf
<1>3. BooksOf(store, id) # {} => StepsOf(store, id) \in Seq(Checks)
  <2>1. BooksOf(store, id) \subseteq Runbooks
    BY StoreTables DEF StoreInv, BooksOf
  <2>2. BooksOf(store, id) # {} => (CHOOSE r \in BooksOf(store, id) : TRUE) \in Runbooks
    BY <2>1
  <2> QED
    BY <2>2 DEF StepsOf, Runbooks
<1>4. CASE Find
  <2>1. pc' = "owner" /\ res'.steps = <<>> /\ res'.runbook = "none"
    BY <1>4 DEF Find, NoAnswer
  <2> QED
    BY <2>1 DEF RunbookQuiet, BeforeBook, AfterBook
<1>5. CASE GetOwner \/ GetChanges \/ GetAlerts \/ GetDependencies \/ ResolveUp \/ ResolveDown
  <2>1. pc \in BeforeBook \ {"runbook"} /\ pc' \in BeforeBook \ {"runbook"}
    BY <1>5 DEF GetOwner, GetChanges, GetAlerts, GetDependencies, ResolveUp, ResolveDown, BeforeBook
  <2>2. ~Find /\ ~VerifyStep /\ ~VerifyEnd
    BY <2>1 DEF Find, VerifyStep, VerifyEnd, BeforeBook
  <2>3. res'.steps = res.steps /\ res'.runbook = res.runbook
    BY <2>2, FieldFrame
  <2> QED
    BY <2>1, <2>3 DEF RunbookQuiet, BeforeBook, AfterBook
<1>6. CASE ResolveEnd
  <2>1. pc = "resolve" /\ pc' = (IF WithRunbook THEN "runbook" ELSE "extra") /\ res' = res
    BY <1>6 DEF ResolveEnd
  <2>2. res.steps = <<>> /\ res.runbook = "none"
    BY <2>1 DEF RunbookQuiet, BeforeBook
  <2>3. CASE WithRunbook
    BY <1>0, <2>1, <2>2, <2>3 DEF RunbookQuiet, BeforeBook, AfterBook
  <2>4. CASE ~WithRunbook
    <3>1. RunbookOf(store, id, WithRunbook) = "none"
      BY <2>4 DEF RunbookOf
    <3> QED
      BY <1>0, <2>1, <2>2, <2>4, <3>1 DEF RunbookQuiet, BeforeBook, AfterBook
  <2> QED
    BY <2>3, <2>4
<1>7. CASE GetRunbookNone
  <2>1. pc = "runbook" /\ pc' = "extra" /\ res' = res /\ BooksOf(store, id) = {}
    BY <1>2, <1>7 DEF GetRunbookNone
  <2>2. res.runbook = "none" /\ RunbookOf(store, id, WithRunbook) = "none"
    BY <2>1 DEF RunbookQuiet, RunbookOf, BeforeBook
  <2> QED
    BY <1>0, <2>1, <2>2 DEF RunbookQuiet, BeforeBook, AfterBook
<1>8. CASE GetRunbook
  <2>1. /\ pc = "runbook" /\ pc' = "verify" /\ res' = res /\ BooksOf(store, id) # {}
        /\ pend'.checks = StepsOf(store, id)
    BY <1>2, <1>8 DEF GetRunbook, AnswerInv, Pending, StepsOf
  <2>2. res.steps = <<>> /\ res.runbook = "none" /\ WithRunbook
    BY <2>1 DEF RunbookQuiet, BeforeBook
  <2>3. \A r \in Seq(Checks) : Midway(store, id, r, <<>>, r)
    BY DEF Midway
  <2>4. Midway(store, id, StepsOf(store, id), <<>>, StepsOf(store, id))
    BY <1>3, <2>1, <2>3
  <2> QED
    BY <1>0, <2>1, <2>2, <2>4 DEF RunbookQuiet, BeforeBook, AfterBook
<1>9. CASE VerifyStep
  <2>1. /\ pc = "verify" /\ pc' = "verify" /\ pend.checks # <<>>
        /\ res'.steps = Append(res.steps, verifyStep(store, id, Head(pend.checks)))
        /\ pend'.checks = Tail(pend.checks)
        /\ res'.service = res.service /\ res'.runbook = res.runbook
    BY <1>9 DEF VerifyStep, AnswerInv, Pending, AskResults
  <2>2. BooksOf(store, id) # {} /\ Midway(store, id, StepsOf(store, id), res.steps, pend.checks)
    BY <2>1 DEF RunbookQuiet
  <2>3. /\ res.steps \in Seq([check : Checks, status : Statuses, ev : Citations])
        /\ pend.checks \in Seq(Checks)
    BY DEF AnswerInv, AskResults, Pending
  <2>4. Midway(store, id, StepsOf(store, id), res'.steps, pend'.checks)
    BY <1>3, <2>1, <2>2, <2>3, MidwayNext
  <2> QED
    BY <1>0, <2>1, <2>2, <2>4 DEF RunbookQuiet, BeforeBook, AfterBook
<1>10. CASE VerifyEnd
  <2>1. /\ pc = "verify" /\ pc' = "extra" /\ pend.checks = <<>> /\ res'.service = res.service
        /\ res'.runbook = rollup(res.steps)
    BY <1>10 DEF VerifyEnd, AnswerInv, AskResults
  <2>2. /\ BooksOf(store, id) # {} /\ WithRunbook
        /\ Midway(store, id, StepsOf(store, id), res.steps, pend.checks)
    BY <2>1 DEF RunbookQuiet
  <2>3. res.steps \in Seq([check : Checks, status : Statuses, ev : Citations])
    BY DEF AnswerInv, AskResults
  <2> DEFINE r == StepsOf(store, id)
  <2>4. res.steps = [i \in 1..Len(r) |-> verifyStep(store, id, r[i])]
    <3>1. r \in Seq(Checks)
      BY <1>3, <2>2
    <3>2. /\ Len(r) = Len(res.steps) + Len(pend.checks)
          /\ \A i \in 1..Len(res.steps) : res.steps[i] = verifyStep(store, id, r[i])
      BY <2>2 DEF Midway
    <3> HIDE DEF r
    <3>3. Len(r) = Len(res.steps)
      BY <2>1, <2>3, <3>1, <3>2
    <3>4. DOMAIN res.steps = 1..Len(r) /\ res.steps = [i \in DOMAIN res.steps |-> res.steps[i]]
      BY <2>3, <3>3
    <3> QED
      BY <3>2, <3>3, <3>4
  <2>5. res'.runbook = RunbookOf(store, id, WithRunbook)
    BY <2>1, <2>2, <2>4 DEF RunbookOf
  <2> QED
    BY <1>0, <2>1, <2>5 DEF RunbookQuiet, BeforeBook, AfterBook
<1>11. CASE ListEvidenceForService \/ CollectEvidence \/ TransitiveImpactTip \/ TipFails
  <2>1. pc \in AfterBook /\ pc' \in AfterBook
    BY <1>11 DEF ListEvidenceForService, CollectEvidence, TransitiveImpactTip, TipFails, AfterBook
  <2>2. ~Find /\ ~VerifyStep /\ ~VerifyEnd
    BY <2>1 DEF Find, VerifyStep, VerifyEnd, AfterBook
  <2>3. res'.service = res.service /\ res'.runbook = res.runbook
    BY <2>2, FieldFrame
  <2> QED
    BY <1>0, <2>1, <2>3 DEF RunbookQuiet, BeforeBook, AfterBook
<1> QED
  BY <1>4, <1>5, <1>6, <1>7, <1>8, <1>9, <1>10, <1>11 DEF Query

LEMMA QueryVerdicts ==
  ASSUME StoreInv, AnswerInv, VerdictsQuiet, Query
  PROVE  VerdictsQuiet'
<1> DEFINE T == [check : Checks, status : Statuses, ev : Citations]
<1>0. store' = store
  BY QueryFrame DEF KeepRest
<1>1. CASE Find
  <2>1. res'.steps = <<>>
    BY <1>1 DEF Find, NoAnswer
  <2> QED
    BY <2>1 DEF VerdictsQuiet
<1>2. CASE VerifyStep
  <2> DEFINE v == verifyStep(store, res.service.id, Head(pend.checks))
  <2>1. /\ pc \in Asking /\ pend.checks # <<>> /\ res'.service = res.service
        /\ res'.steps = Append(res.steps, v)
    BY <1>2 DEF VerifyStep, AnswerInv, AskResults, Asking
  <2>2. v.check = Head(pend.checks)
    <3>1. Head(pend.checks) \in Checks
      BY <2>1 DEF AnswerInv, Pending
    <3> QED
      BY <3>1, VerifyType DEF StoreInv
  <2>3. v = verifyStep(store, res.service.id, v.check)
    BY <2>2
  <2>4. res.steps \in Seq(T)
    BY DEF AnswerInv, AskResults
  <2>5. \A i \in DOMAIN res.steps : res.steps[i] = verifyStep(store, res.service.id, res.steps[i].check)
    BY <2>1 DEF VerdictsQuiet
  <2> HIDE DEF v, T
  <2>6. \A i \in DOMAIN res'.steps : res'.steps[i] = v \/ (i \in DOMAIN res.steps /\ res'.steps[i] = res.steps[i])
    BY <2>1, <2>4
  <2>7. ASSUME NEW i \in DOMAIN res'.steps
        PROVE  res'.steps[i] = verifyStep(store, res.service.id, res'.steps[i].check)
    <3>1. CASE res'.steps[i] = v
      BY <2>3, <3>1
    <3>2. CASE i \in DOMAIN res.steps /\ res'.steps[i] = res.steps[i]
      BY <2>5, <3>2
    <3> QED
      BY <2>6, <3>1, <3>2
  <2> QED
    BY <1>0, <2>1, <2>7 DEF VerdictsQuiet
<1>3. CASE ~Find /\ ~VerifyStep
  <2>1. pc \in Asking
    BY <1>3 DEF Query, Step, Asking, GetOwner, GetChanges, GetAlerts, GetDependencies,
       ResolveUp, ResolveDown, ResolveEnd, GetRunbookNone, GetRunbook, VerifyEnd,
       ListEvidenceForService, CollectEvidence, TransitiveImpactTip, TipFails
  <2> QED
    BY <1>0, <1>3, <2>1, FieldFrame DEF VerdictsQuiet
<1> QED
  BY <1>1, <1>2, <1>3

LEMMA QueryEnd ==
  ASSUME StoreInv, ControlInv, AnswerInv, EndQuiet, Query
  PROVE  EndQuiet'
<1> USE DEF Step, KeepRest
<1>0. store' = store
  BY QueryFrame
<1>1. CASE Find
  <2>1. pc' = "owner" /\ tip' = FALSE
    BY <1>1 DEF Find
  <2> QED
    BY <2>1 DEF EndQuiet
<1>2. CASE \/ GetOwner \/ GetChanges \/ GetAlerts \/ GetDependencies \/ ResolveUp \/ ResolveDown
           \/ ResolveEnd \/ GetRunbookNone \/ GetRunbook \/ VerifyStep \/ VerifyEnd
  <2>1. /\ pc \in Asking \ {"answered"} /\ pc' \notin {"evidence", "tip", "answered"} /\ tip' = tip
    BY <1>2 DEF Asking, GetOwner, GetChanges, GetAlerts, GetDependencies, ResolveUp, ResolveDown,
       ResolveEnd, GetRunbookNone, GetRunbook, VerifyStep, VerifyEnd
  <2>2. ~tip
    BY <2>1 DEF EndQuiet
  <2> QED
    BY <2>1, <2>2 DEF EndQuiet
<1>3. CASE ListEvidenceForService
  <2>1. /\ pc = "extra" /\ pc' = "evidence" /\ res' = res /\ tip' = tip
        /\ pend'.ids = Cited \cup {e.id : e \in {f \in store.evidence : f.svc = res.service.id}}
    BY <1>3 DEF ListEvidenceForService, AnswerInv, Pending
  <2>2. Cited' = Cited
    BY <2>1 DEF Cited
  <2>3. ~tip
    BY <2>1 DEF EndQuiet, Asking
  <2>4. pend'.ids \subseteq Cited' \cup {e.id : e \in store'.evidence}
    BY <1>0, <2>1, <2>2
  <2> QED
    BY <2>1, <2>3, <2>4 DEF EndQuiet
<1>4. CASE CollectEvidence
  <2> DEFINE found == ListEvidence(store, pend.ids)
             gone == pend.ids \ {e.id : e \in found}
  <2>1. /\ pc = "evidence" /\ pc' = "tip" /\ tip' = tip
        /\ res'.evidence = found \cup {Missing(x) : x \in gone}
        /\ res'.changes = res.changes /\ res'.alerts = res.alerts /\ res'.steps = res.steps
    BY <1>4 DEF CollectEvidence, AnswerInv, AskResults
  <2>2. Cited' = Cited
    BY <2>1 DEF Cited
  <2>3. ~tip
    BY <2>1 DEF EndQuiet, Asking
  <2>4. \A e \in found : e.kind # "missing"
    <3>1. store.evidence \subseteq Evidence
      BY StoreTables DEF StoreInv
    <3> QED
      BY <3>1 DEF ListEvidence, Evidence
  <2>5. \A x \in gone : x \notin {e.id : e \in store.evidence}
    BY DEF ListEvidence
  <2>6. gone \subseteq Cited
    BY <2>1, <2>5 DEF EndQuiet
  <2>7. ASSUME NEW e \in res'.evidence, e.kind = "missing"
        PROVE  e.id \in Cited /\ e.id \notin {f.id : f \in store.evidence}
    <3>1. PICK x \in gone : e = Missing(x)
      BY <2>1, <2>4, <2>7
    <3>2. e.id = x
      BY <3>1 DEF Missing
    <3> QED
      BY <2>5, <2>6, <3>2
  <2> QED
    BY <1>0, <2>1, <2>2, <2>3, <2>7 DEF EndQuiet
<1>5. CASE TransitiveImpactTip \/ TipFails
  <2>1. pc = "tip" /\ pc' = "answered" /\ res' = res
    BY <1>5 DEF TransitiveImpactTip, TipFails
  <2>2. Cited' = Cited
    BY <2>1 DEF Cited
  <2>3. \A e \in res.evidence : e.kind = "missing" =>
          e.id \in Cited /\ e.id \notin {f.id : f \in store.evidence}
    BY <2>1 DEF EndQuiet
  <2>4. tip' => Cardinality(Affected(store.dependencies, res.service.id)) > Cardinality(res.down)
    <3>1. CASE TransitiveImpactTip
      BY <3>1 DEF TransitiveImpactTip
    <3>2. CASE TipFails
      <4>1. tip' = tip /\ ~tip
        BY <2>1, <3>2 DEF TipFails, EndQuiet, Asking
      <4> QED
        BY <4>1
    <3> QED
      BY <1>5, <3>1, <3>2
  <2> QED
    BY <1>0, <2>1, <2>2, <2>3, <2>4 DEF EndQuiet
<1> QED
  BY <1>1, <1>2, <1>3, <1>4, <1>5 DEF Query

\* Nothing changes what the answer is compared with.
LEMMA SameQuiet ==
  ASSUME ListedQuiet, NeighboursQuiet, RunbookQuiet, VerdictsQuiet, EndQuiet,
         UNCHANGED <<store, req, res>>,
         pc' \notin Asking \/ UNCHANGED <<pc, phase, pend, tip>>
  PROVE  ListedQuiet' /\ NeighboursQuiet' /\ RunbookQuiet' /\ VerdictsQuiet' /\ EndQuiet'
<1>1. CASE pc' \notin Asking
  <2>1. ListedQuiet' /\ VerdictsQuiet' /\ EndQuiet'
    BY <1>1 DEF ListedQuiet, VerdictsQuiet, EndQuiet, AfterChanges, AfterAlerts, Asking
  <2>2. NeighboursQuiet' /\ RunbookQuiet'
    BY <1>1 DEF NeighboursQuiet, RunbookQuiet, AfterNeighbours, AfterChanges, AfterAlerts, Asking,
       BeforeBook, AfterBook
  <2> QED
    BY <2>1, <2>2
<1>2. CASE UNCHANGED <<pc, phase, pend, tip>>
  <2>1. ListedQuiet' /\ VerdictsQuiet'
    BY <1>2 DEF ListedQuiet, VerdictsQuiet
  <2>2. NeighboursQuiet'
    BY <1>2 DEF NeighboursQuiet
  <2>3. RunbookQuiet'
    BY <1>2 DEF RunbookQuiet, WithRunbook
  <2>4. Cited' = Cited
    BY DEF Cited
  <2>5. EndQuiet'
    BY <1>2, <2>4 DEF EndQuiet
  <2> QED
    BY <2>1, <2>2, <2>3, <2>5
<1> QED
  BY <1>1, <1>2

LEMMA QuietStep ==
  ASSUME TypeInv, QuietInv, [Next]_vars
  PROVE  QuietInv'
<1> SUFFICES ASSUME Quiet'
             PROVE  ListedQuiet' /\ NeighboursQuiet' /\ RunbookQuiet' /\ VerdictsQuiet' /\ EndQuiet'
  BY DEF QuietInv
<1> DEFINE Now0 == ListedQuiet /\ NeighboursQuiet /\ RunbookQuiet /\ VerdictsQuiet /\ EndQuiet
<1>1. CASE UNCHANGED vars
  <2>1. UNCHANGED <<store, versions, req, res, pc, phase, pend, tip>>
    BY <1>1 DEF vars, request
  <2>2. Now0
    BY <2>1 DEF Quiet, QuietInv
  <2> QED
    BY <2>1, <2>2, SameQuiet
<1>2. CASE Query
  <2>1. UNCHANGED <<store, versions>>
    BY <1>2, QueryFrame DEF KeepRest
  <2>2. Now0
    BY <2>1 DEF Quiet, QuietInv
  <2> QED
    BY <1>2, <2>2, QueryListed, QueryNeighbours, QueryRunbook, QueryVerdicts, QueryEnd DEF TypeInv
<1>3. CASE OtherWrites
  <2>1. /\ versions' = versions \cup {store'} /\ store \in versions
        /\ UNCHANGED <<req, res, pc, phase, pend, tip>>
    BY <1>3 DEF OtherWrites, request, TypeInv, StoreInv
  <2>2. versions' = {store'}
    BY DEF Quiet
  <2>3. store' = store /\ versions = {store}
    BY <2>1, <2>2
  <2>4. Now0
    BY <2>3 DEF Quiet, QuietInv
  <2> QED
    BY <2>1, <2>3, <2>4, SameQuiet
<1>4. CASE Lost \/ StartNamed \/ StartFleet \/ RankAnswer \/ PickHottest \/ Top \/ Answer \/ Output
  <2>1. UNCHANGED <<store, versions, req, res>> /\ pc' \in {"find", "rank", "output", "done"}
    BY <1>4 DEF Lost, StartNamed, StartFleet, RankAnswer, PickHottest, Top, Answer, Output, request
  <2>2. Now0 /\ pc' \notin Asking
    BY <2>1 DEF Quiet, QuietInv, Asking
  <2> QED
    BY <2>1, <2>2, SameQuiet
<1> QED
  BY <1>1, <1>2, <1>3, <1>4, NextCases

LEMMA QuietInvariant == Spec => []QuietInv
<1>1. Init => QuietInv
  BY DEF Init, QuietInv, ListedQuiet, NeighboursQuiet, RunbookQuiet, VerdictsQuiet, EndQuiet,
         AfterChanges, AfterAlerts, AfterNeighbours, Asking, BeforeBook, AfterBook
<1>2. TypeInv /\ QuietInv /\ [Next]_vars => QuietInv'
  BY QuietStep
<1> QED
  BY <1>1, <1>2, TypesInvariant, PTL DEF Spec

-----------------------------------------------------------------------------
(* What a verdict means.                                                    *)

\* A check of the last deploy passes for the newest deploy or rollout.
LEMMA DeployVerdict ==
  ASSUME NEW st \in Stores, NEW svc, NEW check \in Checks,
         check.name \in {"deploy_age_lt", "deploy_age_gt"},
         verifyStep(st, svc, check).status = "pass"
  PROVE  \E c \in st.changes :
           /\ c.svc = svc /\ changeRank(c) = 0 /\ c.at <= Now
           /\ \A d \in st.changes :
                d.svc = svc /\ changeRank(d) = 0 /\ d.at <= Now => c.at >= d.at
           /\ IF check.name = "deploy_age_lt" THEN Now - c.at < check.dur
                                              ELSE Now - c.at > check.dur
<1> DEFINE last == LatestDeployOrRollout(st, svc, Now)
           found == {c \in st.changes :
             c.svc = svc /\ c.type \in {"deploy", "rollout"} /\ c.at <= Now}
           c0 == CHOOSE c \in last : TRUE
           pass == IF check.name = "deploy_age_lt" THEN Now - c0.at < check.dur
                                                   ELSE Now - c0.at > check.dur
<1>1. verifyStep(st, svc, check) = checkDeployAge(st, svc, check)
  BY DEF verifyStep
<1>2. checkDeployAge(st, svc, check) =
        IF check.dur <= 0 THEN Verdict(check, "error", "")
        ELSE IF last = {} THEN Verdict(check, "stale", "")
        ELSE Verdict(check, IF pass THEN "pass" ELSE "stale", c0.ev)
  BY DEF checkDeployAge
<1>3. \A status, ev : Verdict(check, status, ev).status = status
  BY DEF Verdict
<1>4. last # {} /\ pass
  <2> DEFINE none == check.dur <= 0
             status == verifyStep(st, svc, check).status
  <2>1. /\ none => status = "error"
        /\ ~none /\ last = {} => status = "stale"
        /\ ~none /\ last # {} /\ ~pass => status = "stale"
    <3> HIDE DEF last, c0, pass, none
    <3>1. CASE none
      BY <1>1, <1>2, <1>3, <3>1 DEF none
    <3>2. CASE ~none /\ last = {}
      BY <1>1, <1>2, <1>3, <3>2 DEF none
    <3>3. CASE ~none /\ last # {} /\ ~pass
      BY <1>1, <1>2, <1>3, <3>3 DEF none
    <3> QED
      BY <3>1, <3>2, <3>3
  <2>2. status = "pass"
    OBVIOUS
  <2> HIDE DEF status, none, last, pass
  <2> QED
    BY <2>1, <2>2
<1>5. PICK c \in found : last = {c} /\ \A d \in found : c.at >= d.at
  <2>1. PICK S : S = found
    OBVIOUS
  <2> HIDE DEF last
  <2>2. \E c \in S : last = {c} /\ \A d \in S : c.at >= d.at
    BY <1>4, <2>1, LatestOf DEF last
  <2> QED
    BY <2>1, <2>2
<1>6. c0 = c
  BY <1>5
<1>7. \A d : changeRank(d) = 0 <=> d.type \in {"deploy", "rollout"}
  BY DEF changeRank
<1> QED
  BY <1>4, <1>5, <1>6, <1>7

\* A check of a service's health passes when the name it gives is that of one
\* service.
LEMMA HealthVerdict ==
  ASSUME NEW st \in Stores, NEW svc, NEW check \in Checks,
         check.name \in {"service_healthy", "service_unhealthy"},
         verifyStep(st, svc, check).status = "pass",
         NEW s \in st.services, check.arg \in s.names
  PROVE  IF check.name = "service_healthy" THEN s.health = "healthy" ELSE Bad(s)
<1> DEFINE found == GetServiceByNameOrAlias(st, check.arg)
           s0 == CHOOSE x \in found : TRUE
           ok == IF check.name = "service_healthy" THEN s0.health = "healthy" ELSE Bad(s0)
<1>1. verifyStep(st, svc, check) = checkServiceHealth(st, check)
  BY DEF verifyStep
<1>2. checkServiceHealth(st, check) =
        IF found = {} THEN Verdict(check, "stale", "")
        ELSE IF Cardinality(found) > 1 THEN Verdict(check, "error", "")
        ELSE Verdict(check, IF ok THEN "pass" ELSE "stale", "")
  BY DEF checkServiceHealth
<1>3. \A status, ev : Verdict(check, status, ev).status = status
  BY DEF Verdict
<1>4. found # {} /\ ~(Cardinality(found) > 1) /\ ok
  <2> DEFINE many == Cardinality(found) > 1
             status == verifyStep(st, svc, check).status
  <2>1. /\ found = {} => status = "stale"
        /\ found # {} /\ many => status = "error"
        /\ found # {} /\ ~many /\ ~ok => status = "stale"
    <3> HIDE DEF found, s0, ok, many
    <3>1. CASE found = {}
      BY <1>1, <1>2, <1>3, <3>1 DEF many
    <3>2. CASE found # {} /\ many
      BY <1>1, <1>2, <1>3, <3>2 DEF many
    <3>3. CASE found # {} /\ ~many /\ ~ok
      BY <1>1, <1>2, <1>3, <3>3 DEF many
    <3> QED
      BY <3>1, <3>2, <3>3
  <2>2. status = "pass"
    OBVIOUS
  <2> HIDE DEF status, found, ok
  <2> QED
    BY <2>1, <2>2
<1>5. s \in found
  BY DEF GetServiceByNameOrAlias
<1>6. \A x, y \in found : x = y
  <2>1. IsFiniteSet(found)
    <3>1. IsFiniteSet(st.services)
      BY StoreTables DEF Table
    <3>2. found \in SUBSET st.services
      BY DEF GetServiceByNameOrAlias
    <3> QED
      BY <3>1, <3>2, FS_Subset
  <2> HIDE DEF found
  <2>2. Cardinality(found) \in Nat /\ Cardinality(found) # 0
    BY <1>4, <2>1, FS_CardinalityType, FS_EmptySet
  <2>3. Cardinality(found) = 1
    BY <1>4, <2>2
  <2> QED
    BY <2>1, <2>3, FS_Singleton
<1>7. s0 = s
  <2> HIDE DEF found
  <2>1. s0 \in found
    BY <1>4
  <2> QED
    BY <1>5, <1>6, <2>1
<1> QED
  BY <1>4, <1>7

LEMMA AlertVerdict ==
  ASSUME NEW st \in Stores, NEW svc, NEW check \in Checks, check.name = "alert_firing"
  PROVE  verifyStep(st, svc, check).status = "pass"
         <=> \E a \in st.alerts : AlertActive(a.status) /\ a.svc = svc /\ a.name = check.alert
<1> DEFINE first == FindFiringAlert(st, svc, check.alert)
           found == {a \in st.alerts : AlertActive(a.status) /\ a.svc = svc /\ a.name = check.alert}
<1>1. verifyStep(st, svc, check) = checkAlertFiring(st, svc, check)
  BY DEF verifyStep
<1>2. checkAlertFiring(st, svc, check) =
        IF first = {} THEN Verdict(check, "stale", "")
        ELSE Verdict(check, "pass", (CHOOSE a \in first : TRUE).ev)
  BY DEF checkAlertFiring
<1>3. \A status, ev : Verdict(check, status, ev).status = status
  BY DEF Verdict
<1>4. first = {} <=> found = {}
  <2>1. PICK S : S = found
    OBVIOUS
  <2>2. first = {} <=> S = {}
    <3> HIDE DEF first
    <3> QED
      BY <2>1, FiringOf DEF first
  <2> QED
    BY <2>1, <2>2
<1>5. verifyStep(st, svc, check).status = "pass" <=> first # {}
  <2> HIDE DEF first
  <2> QED
    BY ZenonT(60), <1>1, <1>2, <1>3
<1> QED
  BY <1>4, <1>5

\* A verdict cites a row of evidence, or what a change or an alert cites.
LEMMA VerdictCites ==
  ASSUME NEW st \in Stores, NEW svc, NEW check \in Checks
  PROVE  verifyStep(st, svc, check).ev \in
           {""} \cup {e.id : e \in st.evidence} \cup {r.ev : r \in st.changes \cup st.alerts}
<1> DEFINE shown == {""} \cup {e.id : e \in st.evidence} \cup {r.ev : r \in st.changes \cup st.alerts}
<1>1. \A status, ev : Verdict(check, status, ev).ev = ev
  BY DEF Verdict
<1>2. "" \in shown
  OBVIOUS
<1>3. checkDeployAge(st, svc, check).ev \in shown
  <2> DEFINE last == LatestDeployOrRollout(st, svc, Now)
             found == {c \in st.changes :
               c.svc = svc /\ c.type \in {"deploy", "rollout"} /\ c.at <= Now}
             c == CHOOSE c \in last : TRUE
             age == Now - c.at
             pass == IF check.name = "deploy_age_lt" THEN age < check.dur ELSE age > check.dur
  <2>1. last = {} \/ \E d \in found : last = {d}
    <3>1. PICK S : S = found
      OBVIOUS
    <3> HIDE DEF last
    <3>2. last = {} \/ \E d \in S : last = {d}
      BY <3>1, LatestOf DEF last
    <3> QED
      BY <3>1, <3>2
  <2>2. last # {} => c.ev \in shown
    BY <2>1
  <2>3. checkDeployAge(st, svc, check) =
          IF check.dur <= 0 THEN Verdict(check, "error", "")
          ELSE IF last = {} THEN Verdict(check, "stale", "")
          ELSE Verdict(check, IF pass THEN "pass" ELSE "stale", c.ev)
    BY DEF checkDeployAge
  <2> HIDE DEF last, c, pass, shown
  <2> QED
    BY <1>1, <1>2, <2>2, <2>3
<1>4. checkDeploymentExists(st, check).ev \in shown
  <2> DEFINE found == FindRolloutEvidence(st, check.arg)
  <2>1. found \subseteq st.evidence
    BY DEF FindRolloutEvidence
  <2>2. found # {} => (CHOOSE e \in found : TRUE).id \in shown
    BY <2>1
  <2> QED
    BY <1>1, <1>2, <2>2 DEF checkDeploymentExists
<1>5. checkServiceHealth(st, check).ev \in shown
  BY <1>1, <1>2 DEF checkServiceHealth
<1>6. checkAlertFiring(st, svc, check).ev \in shown
  <2> DEFINE found == FindFiringAlert(st, svc, check.alert)
  <2>1. found \subseteq st.alerts
    <3>1. PICK S : S = {a \in st.alerts : AlertActive(a.status) /\ a.svc = svc /\ a.name = check.alert}
      OBVIOUS
    <3>2. found \subseteq S
      BY <3>1, FiringOf
    <3> QED
      BY <3>1, <3>2
  <2>2. found # {} => (CHOOSE a \in found : TRUE).ev \in shown
    BY <2>1
  <2> QED
    BY <1>1, <1>2, <2>2 DEF checkAlertFiring
<1> HIDE DEF shown
<1>7. verifyStep(st, svc, check).ev \in shown
  BY <1>1, <1>2, <1>3, <1>4, <1>5, <1>6 DEF verifyStep
<1> QED
  BY <1>7 DEF shown

\* The ids of the neighbours.
LEMMA RowIds ==
  ASSUME store \in Stores, NEW ids \in SUBSET Services
  PROVE  {s.id : s \in RowsOf(store, ids)} = ids
<1>1. \A id \in ids : ResolvedIn(store, id).id = id
  BY ResolvedType DEF Resolved, ResolvedIn
<1> QED
  BY <1>1 DEF RowsOf

\* One of the neighbours that depend on a service is affected by it.
LEMMA DownAffected ==
  ASSUME NEW st \in Stores, NEW id \in Services, [id |-> <<id, id>>] \notin st.dependencies
  PROVE  DownOf(st, id) \subseteq Affected(st.dependencies, id)
<1> SUFFICES ASSUME NEW x \in DownOf(st, id)
             PROVE  x \in Affected(st.dependencies, id)
  OBVIOUS
<1>1. PICK d \in st.dependencies : d.id[1] = x /\ d.id[2] = id
  BY DEF DownOf, EdgesOf, ListDependencies
<1>2. d \in Dependencies
  BY StoreTables
<1>3. d = [id |-> <<x, id>>] /\ x \in Services
  BY <1>1, <1>2 DEF Dependencies
<1>4. x # id
  BY <1>3
<1>5. ASSUME NEW S \in SUBSET Services, id \in S,
             \A e \in st.dependencies : e.id[2] \in S => e.id[1] \in S
      PROVE  x \in S
  BY <1>1, <1>5
<1> QED
  BY <1>3, <1>4, <1>5 DEF Affected

-----------------------------------------------------------------------------
(* What an answer says, when nobody else writes.                            *)

QuietAnswer == TypeInv /\ QuietInv /\ Quiet /\ pc = "answered"

LEMMA AnsweredQuiet ==
  ASSUME QuietAnswer
  PROVE  /\ store \in Stores /\ req.since \in Nat
         /\ res.service \in store.services /\ res.service \in ServiceRows
         /\ res.service.id \in Services
         /\ res.changes = ChangesOf(store, res.service.id, req.since)
         /\ res.alerts = AlertsOf(store, res.service.id, req.since)
         /\ res.up = RowsOf(store, UpOf(store, res.service.id))
         /\ res.down = RowsOf(store, DownOf(store, res.service.id))
         /\ UpOf(store, res.service.id) \subseteq Services
         /\ DownOf(store, res.service.id) \subseteq Services
         /\ \A i \in DOMAIN res.steps :
              /\ res.steps[i].check \in Checks
              /\ res.steps[i] = verifyStep(store, res.service.id, res.steps[i].check)
<1>1. pc \in Asking /\ pc \in AfterChanges /\ pc \in AfterAlerts /\ pc \in AfterNeighbours
  BY DEF QuietAnswer, AfterNeighbours, AfterAlerts, AfterChanges, Asking
<1>2. ListedQuiet /\ NeighboursQuiet /\ VerdictsQuiet
  BY DEF QuietAnswer, QuietInv
<1>3. store \in Stores /\ req \in Requests /\ res \in AskResults
  BY DEF QuietAnswer, TypeInv, StoreInv, ControlInv, AnswerInv
<1>4. /\ res.service \in store.services
      /\ res.changes = ChangesOf(store, res.service.id, req.since)
      /\ res.alerts = AlertsOf(store, res.service.id, req.since)
  BY <1>1, <1>2 DEF ListedQuiet
<1>5. /\ res.up = RowsOf(store, UpOf(store, res.service.id))
      /\ res.down = RowsOf(store, DownOf(store, res.service.id))
  BY <1>1, <1>2 DEF NeighboursQuiet
<1>6. res.service \in ServiceRows /\ res.service.id \in Services
  BY <1>3, <1>4, StoreTables DEF ServiceRows
<1>7. \A e \in EdgesOf(store, res.service.id) : e \in Services \X Services
  <2>1. store.dependencies \subseteq Dependencies
    BY <1>3, StoreTables
  <2> QED
    BY <2>1 DEF EdgesOf, ListDependencies, Dependencies
<1>8. UpOf(store, res.service.id) \subseteq Services /\ DownOf(store, res.service.id) \subseteq Services
  BY <1>7 DEF UpOf, DownOf
<1>9. \A i \in DOMAIN res.steps : res.steps[i].check \in Checks
  <2>1. res.steps \in Seq(Verdicts)
    BY <1>3 DEF AskResults, Verdicts
  <2>2. \A i \in DOMAIN res.steps : res.steps[i] \in Verdicts
    BY <2>1
  <2> QED
    BY <2>2 DEF Verdicts
<1>10. \A i \in DOMAIN res.steps :
         res.steps[i] = verifyStep(store, res.service.id, res.steps[i].check)
  BY <1>1, <1>2 DEF VerdictsQuiet
<1>11. req.since \in Nat
  BY <1>3 DEF Requests
<1> QED
  BY <1>3, <1>4, <1>5, <1>6, <1>8, <1>9, <1>10, <1>11

\* The recent changes of an answer are those of the store.
LEMMA RecentQuiet ==
  ASSUME QuietAnswer
  PROVE  RecentChanges(res) = {c \in store.changes : /\ c.svc = res.service.id /\ ~Skewed(c)
                                                     /\ c.at >= Now - SuspectChangeWindow}
<1>1. \A c \in store.changes : c.at \in Nat
  BY AnsweredQuiet, StoreTables DEF Dated
<1>2. Now - ChangeLookback(req.since) \in Int
      /\ Now - ChangeLookback(req.since) <= Now - SuspectChangeWindow
  BY AnsweredQuiet, SignalsAssumption DEF ChangeLookback
<1>3. \A c \in store.changes :
        /\ c.at >= Now - SuspectChangeWindow <=> Now - c.at <= SuspectChangeWindow
        /\ c.at >= Now - SuspectChangeWindow => c.at >= Now - ChangeLookback(req.since)
  <2> SUFFICES ASSUME NEW c \in store.changes
               PROVE  /\ c.at >= Now - SuspectChangeWindow <=> Now - c.at <= SuspectChangeWindow
                      /\ c.at >= Now - SuspectChangeWindow => c.at >= Now - ChangeLookback(req.since)
    OBVIOUS
  <2> DEFINE at == c.at
             low == Now - ChangeLookback(req.since)
  <2>1. at \in Nat /\ low \in Int /\ low <= Now - SuspectChangeWindow
    BY <1>1, <1>2
  <2> HIDE DEF at, low
  <2>2. /\ at >= Now - SuspectChangeWindow <=> Now - at <= SuspectChangeWindow
        /\ at >= Now - SuspectChangeWindow => at >= low
    BY <2>1, SignalsAssumption
  <2> QED
    BY <2>2 DEF at, low
<1>4. res.changes = {c \in store.changes : /\ c.svc = res.service.id /\ ~Skewed(c)
                                           /\ c.at >= Now - ChangeLookback(req.since)}
  BY AnsweredQuiet DEF ChangesOf, filterNotFutureChanges, ListChanges
<1> QED
  BY <1>3, <1>4 DEF RecentChanges

\* The active alerts of an answer are those of the store.
LEMMA ActiveQuiet ==
  ASSUME QuietAnswer
  PROVE  ActiveAlerts(res) = {a \in store.alerts : a.svc = res.service.id /\ AlertActive(a.status)}
<1>1. res.alerts = AlertsOf(store, res.service.id, req.since)
  BY AnsweredQuiet
<1> QED
  BY <1>1 DEF ActiveAlerts, AlertsOf, filterNotFutureAlerts, ListAlerts, AlertLive

\* When nobody writes the parts of an answer do not contradict one another, and
\* impact is tipped exactly when it reaches further than the neighbours shown
\* (ask.go:69).
THEOREM AnswersAgree == Spec => []PartsAgree
<1>1. TypeInv /\ QuietInv => PartsAgree
  <2> SUFFICES ASSUME QuietAnswer
               PROVE  PartsAgree
    BY DEF PartsAgree, QuietAnswer
  <2> DEFINE id == res.service.id
             downs == {s.id : s \in res.down}
             reach == Affected(store.dependencies, id)
  <2>1. ASSUME NEW i \in DOMAIN res.steps
        PROVE
         LET check == res.steps[i].check
             pass == res.steps[i].status = "pass"
             mine == check.arg \in res.service.names
         IN /\ check.name = "service_healthy" /\ pass /\ mine => res.service.health = "healthy"
            /\ check.name = "service_unhealthy" /\ pass =>
                 \A s \in ({res.service} \cup res.up \cup res.down) \cap store.services :
                   check.arg \in s.names => Bad(s)
            /\ check.name = "alert_firing" =>
                 (pass <=> \E a \in ActiveAlerts(res) : a.name = check.alert)
            /\ check.name = "deploy_age_lt" /\ check.dur <= SuspectChangeWindow /\ pass =>
                 recentChange(res) # {}
            /\ check.name = "deploy_age_gt" /\ check.dur >= SuspectChangeWindow /\ pass =>
                 \A c \in RecentChanges(res) : changeRank(c) # 0
    <3> DEFINE check == res.steps[i].check
               status == res.steps[i].status
               mine == check.arg \in res.service.names
    <3>1. check \in Checks /\ status = verifyStep(store, id, check).status
      BY AnsweredQuiet
    <3>2. store \in Stores /\ res.service \in store.services
      BY AnsweredQuiet
    <3>3. \A c \in store.changes : c.at \in Nat
      BY <3>2, StoreTables DEF Dated
    <3>4. check.dur \in Int
      BY <3>1 DEF Checks
    <3> HIDE DEF check, status
    <3>5. check.name = "service_healthy" /\ status = "pass" /\ mine => res.service.health = "healthy"
      BY <3>1, <3>2, HealthVerdict
    <3>6. ASSUME check.name = "service_unhealthy", status = "pass",
                 NEW s \in store.services, check.arg \in s.names
          PROVE  Bad(s)
      BY <3>1, <3>2, <3>6, HealthVerdict
    <3>7. check.name = "alert_firing" =>
            (status = "pass" <=> \E a \in ActiveAlerts(res) : a.name = check.alert)
      <4> SUFFICES ASSUME check.name = "alert_firing"
                   PROVE  status = "pass" <=> \E a \in ActiveAlerts(res) : a.name = check.alert
        OBVIOUS
      <4>1. status = "pass"
              <=> \E a \in store.alerts : AlertActive(a.status) /\ a.svc = id /\ a.name = check.alert
        BY <3>1, <3>2, AlertVerdict
      <4> QED
        BY <4>1, ActiveQuiet
    <3>8. ASSUME check.name = "deploy_age_lt", check.dur <= SuspectChangeWindow, status = "pass"
          PROVE  recentChange(res) # {}
      <4>0. \E c \in store.changes :
              /\ c.svc = id /\ changeRank(c) = 0 /\ c.at <= Now
              /\ \A d \in store.changes :
                   d.svc = id /\ changeRank(d) = 0 /\ d.at <= Now => c.at >= d.at
              /\ IF check.name = "deploy_age_lt" THEN Now - c.at < check.dur
                                                 ELSE Now - c.at > check.dur
        <5>1. check.name \in {"deploy_age_lt", "deploy_age_gt"}
              /\ verifyStep(store, id, check).status = "pass"
          BY <3>1, <3>8
        <5> HIDE DEF id
        <5> QED
          BY <3>1, <3>2, <5>1, DeployVerdict
      <4>1. PICK c \in store.changes : c.svc = id /\ c.at <= Now /\ Now - c.at < check.dur
        BY <3>8, <4>0
      <4> DEFINE at == c.at
                 dur == check.dur
      <4>2. at \in Nat /\ at <= Now /\ Now - at < dur /\ dur \in Int /\ dur <= SuspectChangeWindow
        BY <3>3, <3>4, <3>8, <4>1
      <4> HIDE DEF at, dur
      <4>3. at # 0 /\ at <= Now /\ at >= Now - SuspectChangeWindow /\ ~(at > Now)
        BY <4>2, SignalsAssumption
      <4>4. c \in RecentChanges(res)
        BY <4>1, <4>3, RecentQuiet DEF Skewed, at
      <4> QED
        BY <4>4 DEF recentChange
    <3>9. ASSUME check.name = "deploy_age_gt", check.dur >= SuspectChangeWindow, status = "pass",
                 NEW c \in RecentChanges(res)
          PROVE  changeRank(c) # 0
      <4>1. SUFFICES ASSUME changeRank(c) = 0
                     PROVE  FALSE
        OBVIOUS
      <4>0. \E d \in store.changes :
              /\ d.svc = id /\ changeRank(d) = 0 /\ d.at <= Now
              /\ \A e \in store.changes :
                   e.svc = id /\ changeRank(e) = 0 /\ e.at <= Now => d.at >= e.at
              /\ IF check.name = "deploy_age_lt" THEN Now - d.at < check.dur
                                                 ELSE Now - d.at > check.dur
        <5>1. check.name \in {"deploy_age_lt", "deploy_age_gt"}
              /\ verifyStep(store, id, check).status = "pass"
          BY <3>1, <3>9
        <5> HIDE DEF id
        <5> QED
          BY <3>1, <3>2, <5>1, DeployVerdict
      <4>2. /\ c \in store.changes /\ c.svc = id /\ ~Skewed(c) /\ Now - c.at <= SuspectChangeWindow
        BY RecentQuiet DEF RecentChanges
      <4>3. PICK d \in store.changes :
              /\ \A e \in store.changes : e.svc = id /\ changeRank(e) = 0 /\ e.at <= Now => d.at >= e.at
              /\ Now - d.at > check.dur
        BY <3>9, <4>0
      <4>4. c.at \in Nat /\ d.at \in Nat /\ c.at <= Now
        BY <3>3, <4>2, SignalsAssumption DEF Skewed
      <4>5. d.at >= c.at
        BY <4>1, <4>2, <4>3, <4>4
      <4> DEFINE dt == d.at
                 ct == c.at
                 dur == check.dur
      <4>6. /\ dt \in Nat /\ ct \in Nat /\ dur \in Int /\ dt >= ct
            /\ dur >= SuspectChangeWindow /\ Now - dt > dur /\ Now - ct <= SuspectChangeWindow
        BY <3>4, <3>9, <4>2, <4>3, <4>4, <4>5
      <4> HIDE DEF dt, ct, dur
      <4> QED
        BY <4>6, SignalsAssumption
    <3> QED
      BY <3>5, <3>6, <3>7, <3>8, <3>9 DEF check, status
  <2>2. downs = DownOf(store, id) /\ IsFiniteSet(res.down)
    <3>1. store \in Stores /\ DownOf(store, id) \in SUBSET Services
          /\ res.down = RowsOf(store, DownOf(store, id))
      BY AnsweredQuiet
    <3>2. IsFiniteSet(res.down)
      BY DEF QuietAnswer, TypeInv, AnswerInv
    <3> QED
      BY <3>1, <3>2, RowIds
  <2>3. ASSUME tip, reach \subseteq downs
        PROVE  FALSE
    <3>1. Cardinality(reach) > Cardinality(res.down)
      BY <2>3 DEF QuietAnswer, QuietInv, EndQuiet, Asking
    <3>2. IsFiniteSet(downs) /\ Cardinality(downs) <= Cardinality(res.down)
      <4> DEFINE S == res.down
                 f == [s \in S |-> s.id]
      <4>1. f \in Surjection(S, {s.id : s \in S})
        BY DEF Surjection
      <4> HIDE DEF f
      <4> QED
        BY <2>2, <4>1, FS_Surjection
    <3>3. Cardinality(reach) <= Cardinality(downs) /\ IsFiniteSet(reach)
      <4> HIDE DEF reach, downs
      <4> QED
        BY <2>3, <3>2, FS_Subset
    <3>4. Cardinality(reach) \in Nat /\ Cardinality(downs) \in Nat /\ Cardinality(res.down) \in Nat
      BY <2>2, <3>2, <3>3, FS_CardinalityType
    <3> HIDE DEF reach, downs
    <3> QED
      BY <3>1, <3>2, <3>3, <3>4
  <2>4. [id |-> <<id, id>>] \notin store.dependencies => downs \subseteq reach
    <3>1. store \in Stores /\ id \in Services
      BY AnsweredQuiet
    <3> QED
      BY <2>2, <3>1, DownAffected
  <2> QED
    BY <2>1, <2>3, <2>4 DEF PartsAgree
<1> QED
  BY <1>1, TypesInvariant, QuietInvariant, PTL

\* Of the active alerts of one name and severity, the first in the list counts,
\* and none of the others would count for more.
LEMMA FirstCounts ==
  ASSUME NEW r, Dated(r.alerts), NEW a \in ActiveAlerts(r)
  PROVE  \E b \in scoredAlerts(r) :
           b.name = a.name /\ b.sev = a.sev /\ alertPoints(b) >= alertPoints(a)
<1> DEFINE group == {b \in ActiveAlerts(r) : b.name = a.name /\ b.sev = a.sev}
<1>1. group \in SUBSET r.alerts /\ a \in group
  BY DEF ActiveAlerts
<1>2. PICK b \in group : \A c \in group : c = b \/ alertSortLess(b, c)
  <2>1. Dated(group)
    BY <1>1, SubsetDated
  <2> HIDE DEF group
  <2> QED
    BY <1>1, <2>1, FirstAlert
<1>3. b \in scoredAlerts(r)
  BY <1>2 DEF scoredAlerts
<1>4. alertPoints(b) >= alertPoints(a)
  <2>1. CASE b = a
    BY <2>1, PointsNat
  <2>2. CASE alertSortLess(b, a)
    <3>1. a.status \in {"firing", "pending"} /\ b.status \in {"firing", "pending"} /\ b.sev = a.sev
      BY <1>1, <1>2 DEF ActiveAlerts, AlertActive
    <3>2. alertStatusRank(b) <= alertStatusRank(a)
      BY <2>2, <3>1 DEF alertSortLess, alertStatusRank
    <3>3. b.status = "pending" => a.status = "pending"
      BY <3>1, <3>2 DEF alertStatusRank
    <3> DEFINE pts == IF a.sev = "critical" THEN 25 ELSE IF a.sev = "warning" THEN 18 ELSE 15
    <3>4. /\ alertPoints(a) = IF a.status = "pending" THEN (pts * 2) \div 3 ELSE pts
          /\ alertPoints(b) = IF b.status = "pending" THEN (pts * 2) \div 3 ELSE pts
      BY <3>1 DEF alertPoints
    <3>5. pts \in {25, 18, 15}
      OBVIOUS
    <3>6. (pts * 2) \div 3 <= pts
      <4> HIDE DEF pts
      <4> QED
        BY <3>5
    <3>7. CASE a.status = "pending"
      BY <3>4, <3>6, <3>7, <3>5
    <3>8. CASE a.status # "pending"
      BY <3>3, <3>4, <3>5, <3>8
    <3> HIDE DEF pts
    <3> QED
      BY <3>7, <3>8
  <2> QED
    BY <1>1, <1>2, <2>1, <2>2
<1> QED
  BY <1>2, <1>3, <1>4

\* The parts of a fingerprint that stand for alerts and changes.
LEMMA PartsOf ==
  ASSUME NEW r
  PROVE  /\ \A a \in ActiveAlerts(r) : \E p \in Of(r) : p[1] = "alert" /\ p[2] = a.name /\ p[3] = a.sev
         /\ {p[3] : p \in {q \in Of(r) : q[1] = "change"}} = {c.id : c \in recentChange(r)}
<1> DEFINE alerts == {<<"alert", a.name, a.sev,
                        Cardinality({b \in ActiveAlerts(r) : b.name = a.name /\ b.sev = a.sev})>> :
                          a \in ActiveAlerts(r)}
           heads == {<<"service", r.service.id>>, <<"health", r.service.health>>, <<"runbook", r.runbook>>}
           changes == {<<"change", c.type, c.id>> : c \in recentChange(r)}
           ups == {<<"up", u.id, u.health>> : u \in {v \in r.up : Bad(v)}}
           downs == {<<"down", d.id, d.health>> : d \in {v \in r.down : Bad(v)}}
<1>1. Of(r) = heads \cup alerts \cup changes \cup ups \cup downs
  BY DEF Of
<1>2. ASSUME NEW a \in ActiveAlerts(r)
      PROVE  \E p \in Of(r) : p[1] = "alert" /\ p[2] = a.name /\ p[3] = a.sev
  <2> DEFINE n == Cardinality({b \in ActiveAlerts(r) : b.name = a.name /\ b.sev = a.sev})
  <2>1. <<"alert", a.name, a.sev, n>> \in alerts
    OBVIOUS
  <2> HIDE DEF n
  <2>2. \A m : /\ <<"alert", a.name, a.sev, m>>[1] = "alert"
               /\ <<"alert", a.name, a.sev, m>>[2] = a.name
               /\ <<"alert", a.name, a.sev, m>>[3] = a.sev
    OBVIOUS
  <2> HIDE DEF alerts
  <2> QED
    BY <1>1, <2>1, <2>2
<1>3. \A p \in heads \cup alerts \cup ups \cup downs : p[1] # "change"
  <2>1. \A p \in heads : p[1] # "change"
    OBVIOUS
  <2>2. \A p \in alerts : p[1] # "change"
    <3>1. \A x, y, z : <<"alert", x, y, z>>[1] # "change"
      OBVIOUS
    <3> QED
      BY <3>1
  <2>3. \A p \in ups \cup downs : p[1] # "change"
    OBVIOUS
  <2> QED
    BY <2>1, <2>2, <2>3
<1>4. \A p \in changes : p[1] = "change"
  OBVIOUS
<1>5. {q \in Of(r) : q[1] = "change"} = changes
  <2> HIDE DEF heads, alerts, ups, downs, changes
  <2> QED
    BY <1>1, <1>3, <1>4
<1>6. {p[3] : p \in changes} = {c.id : c \in recentChange(r)}
  <2>1. \A x, y : <<"change", x, y>>[3] = y
    OBVIOUS
  <2>2. \A p \in changes : \E c \in recentChange(r) : p[3] = c.id
    BY <2>1
  <2>3. \A c \in recentChange(r) : \E p \in changes : p[3] = c.id
    BY <2>1
  <2> HIDE DEF changes
  <2> QED
    BY <2>2, <2>3
<1> QED
  BY <1>2, <1>5, <1>6

\* However the window is set, an incident has one score for its alerts and one
\* fingerprint (score.go:44, recommend.go:13-15).
THEOREM IncidentsAreKept == Spec => []IncidentKept
<1>1. TypeInv /\ QuietInv => IncidentKept
  <2> SUFFICES ASSUME QuietAnswer
               PROVE  IncidentKept
    BY DEF IncidentKept, QuietAnswer
  <2> DEFINE id == res.service.id
             live == {a \in store.alerts : a.svc = id /\ AlertActive(a.status)}
             recent == {c \in store.changes : c.svc = id /\ ~Skewed(c)
                                              /\ c.at >= Now - SuspectChangeWindow}
  <2>1. ActiveAlerts(res) = live
    BY ActiveQuiet
  <2>2. Dated(res.alerts)
    <3>1. Table(res.alerts) /\ res.alerts \subseteq Alerts
      BY DEF QuietAnswer, TypeInv, AnswerInv, AskResults
    <3> QED
      BY <3>1, TimesNat DEF Dated, Alerts
  <2>3. \A a \in live : \E b \in scoredAlerts(res) :
          b.name = a.name /\ b.sev = a.sev /\ alertPoints(b) >= alertPoints(a)
    BY <2>1, <2>2, FirstCounts
  <2>4. \A a \in live : \E p \in Of(res) : p[1] = "alert" /\ p[2] = a.name /\ p[3] = a.sev
    BY <2>1, PartsOf
  <2>5. recentChange(res) = IF recent = {} THEN {} ELSE {Newest(recent)}
    BY RecentQuiet DEF recentChange
  <2>6. {p[3] : p \in {q \in Of(res) : q[1] = "change"}}
          = IF recent = {} THEN {} ELSE {Newest(recent).id}
    <3>1. {p[3] : p \in {q \in Of(res) : q[1] = "change"}} = {c.id : c \in recentChange(res)}
      BY PartsOf
    <3> HIDE DEF recent
    <3> QED
      BY <2>5, <3>1
  <2> QED
    BY <2>3, <2>4, <2>6 DEF IncidentKept
<1> QED
  BY <1>1, TypesInvariant, QuietInvariant, PTL

\* A name stands for one service of a validated pack.
LEMMA NameOfOne ==
  ASSUME NEW st \in Stores, Validated(st), NEW name
  PROVE  Cardinality(GetServiceByNameOrAlias(st, name)) <= 1
<1> DEFINE found == GetServiceByNameOrAlias(st, name)
<1>1. \A s, t \in found : s = t
  <2>1. Table(st.services)
    BY StoreTables
  <2> QED
    BY <2>1 DEF GetServiceByNameOrAlias, Validated, Table
<1> HIDE DEF found
<1>2. CASE found = {}
  <2>1. Cardinality(found) = 0
    BY <1>2, FS_EmptySet
  <2> QED
    BY <2>1 DEF found
<1>3. CASE found # {}
  <2>1. PICK s : found = {s}
    BY <1>1, <1>3
  <2>2. Cardinality(found) = 1
    BY <2>1, FS_Singleton
  <2> QED
    BY <2>2 DEF found
<1> QED
  BY <1>2, <1>3

\* While nobody writes, a ranking asks about services of the store only.
WaitingListed ==
  phase = "fleet" =>
    /\ listed \subseteq store.services
    /\ \A i \in 1..Len(todo) : \E s \in listed : s.id = todo[i]
ListedInv == Quiet => WaitingListed

\* The ids that are ranked are finitely many numbers.
LEMMA FleetIds ==
  ASSUME TypeInv
  PROVE  LET ids == {s.id : s \in {t \in store.services : ~IsNoiseForPaging(t)}}
         IN ids \in SUBSET Int /\ IsFiniteSet(ids)
<1> DEFINE ranked == {s \in store.services : ~IsNoiseForPaging(s)}
           ids == {s.id : s \in ranked}
<1>1. ranked \in SUBSET store.services
  OBVIOUS
<1>2. store.services \subseteq ServiceRows /\ IsFiniteSet(store.services)
  BY StoreTables DEF TypeInv, StoreInv, Table
<1>3. \A s \in ranked : s.id \in Services
  BY <1>1, <1>2 DEF ServiceRows
<1>4. [s \in ranked |-> s.id] \in Surjection(ranked, ids)
  BY DEF Surjection
<1> HIDE DEF ranked
<1>5. IsFiniteSet(ranked)
  BY <1>1, <1>2, FS_Subset
<1>6. IsFiniteSet(ids)
  BY <1>4, <1>5, FS_Surjection
<1>7. ids \in SUBSET Int
  BY <1>3, AskAssumption
<1> QED
  BY <1>6, <1>7 DEF ranked

LEMMA StartListed ==
  ASSUME TypeInv, StartFleet
  PROVE  WaitingListed'
<1> DEFINE ranked == {s \in store.services : ~IsNoiseForPaging(s)}
           ids == {s.id : s \in ranked}
<1>1. store' = store /\ listed' = ranked /\ todo' = InOrder(ids)
  BY DEF StartFleet
<1>2. ids \in SUBSET Int /\ IsFiniteSet(ids)
  BY FleetIds
<1>3. InOrder(ids) \in Seq(ids)
  <2> HIDE DEF ids
  <2> QED
    BY <1>2, InOrderOf
<1>4. \A i \in 1..Len(todo') : \E s \in listed' : s.id = todo'[i]
  <2>1. \A S : \A q \in Seq(S) : \A i \in 1..Len(q) : q[i] \in S
    OBVIOUS
  <2>2. \A i \in 1..Len(todo') : todo'[i] \in ids
    <3> HIDE DEF ids
    <3> QED
      BY <1>1, <1>3, <2>1
  <2> QED
    BY <1>1, <2>2
<1>5. listed' \subseteq store'.services
  BY <1>1
<1> QED
  BY <1>4, <1>5 DEF WaitingListed

LEMMA TailListed ==
  ASSUME NEW S, NEW q \in Seq(S), q # <<>>, NEW L, \A i \in 1..Len(q) : \E s \in L : s.id = q[i]
  PROVE  \A i \in 1..Len(Tail(q)) : \E s \in L : s.id = Tail(q)[i]
<1> SUFFICES ASSUME NEW i \in 1..Len(Tail(q))
             PROVE  \E s \in L : s.id = Tail(q)[i]
  OBVIOUS
<1>1. i + 1 \in 1..Len(q) /\ Tail(q)[i] = q[i + 1]
  OBVIOUS
<1> QED
  BY <1>1

LEMMA SameListed ==
  ASSUME WaitingListed, UNCHANGED <<store, phase, listed, todo>>
  PROVE  WaitingListed'
BY DEF WaitingListed

LEMMA ListedStep ==
  ASSUME TypeInv, ListedInv, [Next]_vars
  PROVE  ListedInv'
<1> SUFFICES ASSUME Quiet'
             PROVE  WaitingListed'
  BY DEF ListedInv
<1>1. CASE UNCHANGED vars \/ Query \/ StartNamed \/ Top \/ Answer \/ Output
  <2>1. UNCHANGED <<store, versions, phase, listed>>
    BY <1>1, QueryFrame DEF vars, request, KeepRest, StartNamed, Top, Answer, Output
  <2>2. UNCHANGED todo \/ phase = "answer"
    BY <1>1, QueryFrame DEF vars, fleet, KeepRest, StartNamed, Top, Answer, Output, TypeInv,
       ControlInv
  <2>3. WaitingListed
    BY <2>1 DEF Quiet, ListedInv
  <2> QED
    BY <2>1, <2>2, <2>3, SameListed DEF WaitingListed
<1>2. CASE OtherWrites
  <2>1. /\ versions' = versions \cup {store'} /\ store \in versions
        /\ UNCHANGED <<phase, listed, todo>>
    BY <1>2 DEF OtherWrites, request, fleet, TypeInv, StoreInv
  <2>2. versions' = {store'}
    BY DEF Quiet
  <2>3. store' = store /\ versions = {store}
    BY <2>1, <2>2
  <2> QED
    BY <2>1, <2>3, SameListed DEF ListedInv, Quiet
<1>3. CASE StartFleet
  BY <1>3, StartListed
<1>4. CASE (Lost /\ pc \in (Asking \cup {"start", "find"}) \ {"tip", "answered"}) \/ RankAnswer
  <2>1. UNCHANGED <<store, versions, phase, listed>> /\ (todo' = todo \/ todo' = Tail(todo))
    BY <1>4 DEF Lost, RankAnswer, request
  <2>2. WaitingListed
    BY <2>1 DEF Quiet, ListedInv
  <2>3. CASE phase = "fleet" /\ todo' = Tail(todo)
    <3>1. todo \in Seq(Services) /\ todo # <<>>
      BY <1>4, <2>3 DEF TypeInv, TodoInv, ControlInv, RankAnswer, Asking
    <3>2. \A i \in 1..Len(todo) : \E s \in listed : s.id = todo[i]
      BY <2>2, <2>3 DEF WaitingListed
    <3>3. \A i \in 1..Len(Tail(todo)) : \E s \in listed : s.id = Tail(todo)[i]
      BY <3>1, <3>2, TailListed
    <3> QED
      BY <2>1, <2>2, <2>3, <3>3 DEF WaitingListed
  <2>4. CASE phase # "fleet"
    BY <2>1, <2>4 DEF WaitingListed
  <2> QED
    BY <2>1, <2>2, <2>3, <2>4, SameListed
<1>5. CASE PickHottest
  <2>1. UNCHANGED <<store, versions, listed>> /\ (UNCHANGED <<phase, todo>> \/ phase' = "answer")
    BY <1>5 DEF PickHottest
  <2>2. WaitingListed
    BY <2>1 DEF Quiet, ListedInv
  <2> QED
    BY <2>1, <2>2, SameListed DEF WaitingListed
<1> QED
  BY <1>1, <1>2, <1>3, <1>4, <1>5, NextCases

LEMMA ListedInvariant == Spec => []ListedInv
<1>1. Init => ListedInv
  BY DEF Init, ListedInv, WaitingListed
<1>2. TypeInv /\ ListedInv /\ [Next]_vars => ListedInv'
  BY ListedStep
<1> QED
  BY <1>1, <1>2, TypesInvariant, PTL DEF Spec

\* A pack that was validated answers about every service in it, by any of its
\* names, with all the evidence and without an invented neighbour
\* (validate.go:106-166).
THEOREM ValidPacksAnswer == Spec => []ValidGraphAnswers
<1>1. TypeInv /\ QuietInv /\ ListedInv => ValidGraphAnswers
  <2> SUFFICES ASSUME TypeInv, QuietInv, ListedInv, Validated(store)
               PROVE  /\ pc = "answered" /\ Quiet =>
                           /\ \A e \in res.evidence : e.kind # "missing"
                           /\ res.up \cup res.down \subseteq store.services
                           /\ \A i \in DOMAIN res.steps :
                                LET c == res.steps[i].check
                                IN c.name = "service_healthy" => res.steps[i].status # "error"
                      /\ pc = "find" =>
                           /\ Cardinality(GetServiceByNameOrAlias(store, Head(todo))) <= 1
                           /\ phase = "fleet" /\ Quiet =>
                                GetServiceByNameOrAlias(store, Head(todo)) # {}
    BY DEF ValidGraphAnswers
  <2>1. store \in Stores
    BY DEF TypeInv, StoreInv
  <2>9. ASSUME pc = "find", phase = "fleet", Quiet
        PROVE  GetServiceByNameOrAlias(store, Head(todo)) # {}
    <3>1. todo \in Seq(Services) /\ todo # <<>>
      BY <2>9 DEF TypeInv, TodoInv
    <3>2. 1 \in 1..Len(todo) /\ todo[1] = Head(todo)
      BY <3>1
    <3>3. PICK s \in listed : s.id = Head(todo)
      BY <2>9, <3>2 DEF ListedInv, WaitingListed
    <3>4. s \in store.services
      BY <2>9 DEF ListedInv, WaitingListed
    <3>5. s.id \in s.names
      BY <2>1, <3>4, StoreTables DEF ServiceRows
    <3> QED
      BY <3>3, <3>4, <3>5 DEF GetServiceByNameOrAlias
  <2> SUFFICES ASSUME QuietAnswer
               PROVE  /\ \A e \in res.evidence : e.kind # "missing"
                      /\ res.up \cup res.down \subseteq store.services
                      /\ \A i \in DOMAIN res.steps :
                           LET c == res.steps[i].check
                           IN c.name = "service_healthy" => res.steps[i].status # "error"
    BY <2>1, <2>9, NameOfOne DEF QuietAnswer
  <2> DEFINE id == res.service.id
  <2>2. \A r \in store.changes \cup store.alerts :
          r.ev \in {e.id : e \in store.evidence} \cup {""}
    BY DEF Validated
  <2>3. Cited \subseteq {e.id : e \in store.evidence}
    <3>1. res.changes \subseteq store.changes /\ res.alerts \subseteq store.alerts
      BY AnsweredQuiet DEF ChangesOf, AlertsOf, filterNotFutureChanges, filterNotFutureAlerts,
         ListChanges, ListAlerts
    <3>2. \A i \in DOMAIN res.steps : res.steps[i].ev \in {e.id : e \in store.evidence} \cup {""}
      <4> SUFFICES ASSUME NEW i \in DOMAIN res.steps
                   PROVE  res.steps[i].ev \in {e.id : e \in store.evidence} \cup {""}
        OBVIOUS
      <4>1. /\ res.steps[i].check \in Checks
            /\ res.steps[i] = verifyStep(store, id, res.steps[i].check)
        BY AnsweredQuiet
      <4>2. res.steps[i].ev \in
              {""} \cup {e.id : e \in store.evidence} \cup {r.ev : r \in store.changes \cup store.alerts}
        BY <2>1, <4>1, VerdictCites
      <4> QED
        BY <2>2, <4>2
    <3> QED
      BY <2>2, <3>1, <3>2 DEF Cited
  <2>4. \A e \in res.evidence : e.kind # "missing"
    BY <2>3 DEF QuietAnswer, QuietInv, EndQuiet
  <2>5. \A x \in UpOf(store, id) \cup DownOf(store, id) : \E s \in store.services : s.id = x
    <3>1. \A d \in store.dependencies :
            /\ \E s \in store.services : s.id = d.id[1]
            /\ \E s \in store.services : s.id = d.id[2]
      BY DEF Validated
    <3>2. \A x \in UpOf(store, id) : \E d \in store.dependencies : x = d.id[2]
      BY DEF UpOf, EdgesOf, ListDependencies
    <3>3. \A x \in DownOf(store, id) : \E d \in store.dependencies : x = d.id[1]
      BY DEF DownOf, EdgesOf, ListDependencies
    <3> QED
      BY <3>1, <3>2, <3>3
  <2>6. \A x \in UpOf(store, id) \cup DownOf(store, id) : ResolvedIn(store, x) \in store.services
    <3> SUFFICES ASSUME NEW x \in UpOf(store, id) \cup DownOf(store, id)
                 PROVE  ResolvedIn(store, x) \in store.services
      OBVIOUS
    <3>1. GetService(store, x) # {} /\ GetService(store, x) \subseteq store.services
      BY <2>5 DEF GetService
    <3> QED
      BY <3>1 DEF ResolvedIn
  <2>7. res.up \cup res.down \subseteq store.services
    <3>1. res.up = RowsOf(store, UpOf(store, id)) /\ res.down = RowsOf(store, DownOf(store, id))
      BY AnsweredQuiet
    <3> QED
      BY <2>6, <3>1 DEF RowsOf
  <2>8. ASSUME NEW i \in DOMAIN res.steps, res.steps[i].check.name = "service_healthy"
        PROVE  res.steps[i].status # "error"
    <3> DEFINE check == res.steps[i].check
               found == GetServiceByNameOrAlias(store, check.arg)
    <3>1. res.steps[i] = checkServiceHealth(store, check)
      BY <2>8, AnsweredQuiet DEF verifyStep
    <3>2. ~(Cardinality(found) > 1)
      <4>1. Cardinality(found) <= 1
        BY <2>1, NameOfOne
      <4>2. Cardinality(found) \in Nat
        <5>1. IsFiniteSet(found)
          <6>1. IsFiniteSet(store.services) /\ found \in SUBSET store.services
            BY <2>1, StoreTables DEF Table, GetServiceByNameOrAlias
          <6> QED
            BY <6>1, FS_Subset
        <5> QED
          BY <5>1, FS_CardinalityType
      <4> HIDE DEF found
      <4> QED
        BY <4>1, <4>2
    <3>3. \A status, ev : Verdict(check, status, ev).status = status
      BY DEF Verdict
    <3> DEFINE ok == IF check.name = "service_healthy"
                       THEN (CHOOSE s \in found : TRUE).health = "healthy"
                       ELSE Bad(CHOOSE s \in found : TRUE)
    <3>4. checkServiceHealth(store, check) =
            IF found = {} THEN Verdict(check, "stale", "")
            ELSE IF Cardinality(found) > 1 THEN Verdict(check, "error", "")
            ELSE Verdict(check, IF ok THEN "pass" ELSE "stale", "")
      BY DEF checkServiceHealth
    <3>5. checkServiceHealth(store, check).status \in {"stale", "pass"}
      <4> HIDE DEF check, found, ok
      <4> QED
        BY <3>2, <3>3, <3>4
    <3> QED
      BY <3>1, <3>5
  <2> QED
    BY <2>4, <2>7, <2>8
<1> QED
  BY <1>1, TypesInvariant, QuietInvariant, ListedInvariant, PTL

-----------------------------------------------------------------------------
(* The hottest service.                                                     *)

\* What an answer about s shows, as far as it is scored, with its runbook
\* verified or without.
AnswerOf(st, since, with, s) ==
  [service |-> s, changes |-> ChangesOf(st, s.id, since), alerts |-> AlertsOf(st, s.id, since),
   up |-> RowsOf(st, UpOf(st, s.id)), down |-> RowsOf(st, DownOf(st, s.id)),
   runbook |-> RunbookOf(st, s.id, with)]

\* Its row in the ranking, where the runbook is always verified.
RowOf(st, since, s) ==
  [id |-> s.id, agent |-> s.id \in Agents, score |-> Compute(AnswerOf(st, since, TRUE, s))]
RankedIn(st, since, s) ==
  IF hottestHasSignal(s, AnswerOf(st, since, TRUE, s)) THEN {RowOf(st, since, s)} ELSE {}

Waiting(s) == \E i \in 1..Len(todo) : todo[i] = s.id
Settled(s) == RankedIn(store, req.since, s) \subseteq rows

\* The command is opsgraph ask, nobody writes, and nothing fails.
Hot == Quiet /\ req.cmd = "auto" /\ skipped = 0 /\ outcome # "error"

BeginHot ==
  /\ pc = "start" => rows = {}
  /\ pc \notin {"output", "done"} => answers = <<>>

ListHot ==
  pc # "start" =>
    /\ listed = {s \in store.services : ~IsNoiseForPaging(s)}
    /\ \A r \in rows : \E s \in listed : r \in RankedIn(store, req.since, s)

\* While services are ranked each of them waits or has its row.
FleetHot ==
  phase = "fleet" =>
    /\ pc \in Asking \cup {"find", "rank"}
    /\ \A i \in 1..Len(todo) : \E s \in listed : s.id = todo[i]
    /\ \A s \in listed : Waiting(s) \/ Settled(s)

RankHot == pc = "rank" => phase = "fleet" /\ todo = <<>>

\* Then the hottest is asked about.
PickedHot ==
  /\ pc # "start" /\ phase = "answer" => rows # {} /\ \A s \in listed : Settled(s)
  /\ pc \in Asking \cup {"find"} /\ phase = "answer" => todo = <<hottest(rows).id>>
  /\ pc \in {"output", "done"} =>
       /\ phase = "answer"
       /\ \E s \in store.services :
            /\ hottest(rows) \in RankedIn(store, req.since, s)
            /\ answers = <<[id |-> s.id,
                            score |-> Compute(AnswerOf(store, req.since, req.withRunbook, s))]>>

FoundHot == pc \in Asking => res.service.id = Head(todo)

HotInv == Hot => BeginHot /\ ListHot /\ FleetHot /\ RankHot /\ PickedHot /\ FoundHot

OutcomeInv == pc # "done" => outcome = "none"

LEMMA OutcomeStep ==
  ASSUME OutcomeInv, [Next]_vars
  PROVE  OutcomeInv'
<1>1. CASE UNCHANGED vars
  BY <1>1 DEF vars, fleet, OutcomeInv
<1>2. CASE Query
  BY <1>2, QueryFrame DEF KeepRest, fleet, OutcomeInv, Asking
<1>3. CASE OtherWrites
  BY <1>3 DEF OtherWrites, fleet, OutcomeInv
<1>4. CASE Lost /\ pc \in (Asking \cup {"start", "find"}) \ {"tip", "answered"}
  BY <1>4 DEF Lost, OutcomeInv, Asking
<1>5. CASE StartNamed \/ StartFleet \/ RankAnswer \/ PickHottest \/ Top \/ Answer \/ Output
  BY <1>5 DEF StartNamed, StartFleet, RankAnswer, PickHottest, Top, Answer, Output, OutcomeInv
<1> QED
  BY <1>1, <1>2, <1>3, <1>4, <1>5, NextCases

\* The score depends on no more than this.
LEMMA SameScore ==
  ASSUME NEW r, NEW q, r.service = q.service, r.changes = q.changes, r.alerts = q.alerts,
         r.up = q.up, r.down = q.down, r.runbook = q.runbook, NEW s
  PROVE  /\ Compute(r) = Compute(q)
         /\ hottestHasSignal(s, r) <=> hottestHasSignal(s, q)
<1>1. ActiveAlerts(r) = ActiveAlerts(q)
  BY DEF ActiveAlerts
<1>2. recentChange(r) = recentChange(q)
  BY DEF recentChange, RecentChanges
<1>3. correlate(r) = correlate(q)
  BY <1>1 DEF correlate
<1>4. firingPoints(r) = firingPoints(q)
  <2>1. scoredAlerts(r) = scoredAlerts(q)
    BY <1>1 DEF scoredAlerts
  <2> QED
    BY <2>1 DEF firingPoints
<1>5. downstreamPoints(r) = downstreamPoints(q)
  BY DEF downstreamPoints
<1> QED
  BY <1>1, <1>2, <1>3, <1>4, <1>5 DEF Compute, hottestHasSignal

LEMMA QuietScore ==
  ASSUME QuietAnswer
  PROVE  /\ Compute(res) = Compute(AnswerOf(store, req.since, WithRunbook, res.service))
         /\ \A s : hottestHasSignal(s, res)
                     <=> hottestHasSignal(s, AnswerOf(store, req.since, WithRunbook, res.service))
<1> DEFINE q == AnswerOf(store, req.since, WithRunbook, res.service)
<1>1. /\ res.service = q.service /\ res.changes = q.changes /\ res.alerts = q.alerts
      /\ res.up = q.up /\ res.down = q.down
  BY AnsweredQuiet DEF AnswerOf
<1>2. res.runbook = q.runbook
  BY DEF QuietAnswer, QuietInv, RunbookQuiet, AnswerOf, AfterBook
<1> HIDE DEF q
<1>3. \A s : /\ Compute(res) = Compute(q)
             /\ hottestHasSignal(s, res) <=> hottestHasSignal(s, q)
  BY <1>1, <1>2, SameScore
<1> QED
  BY <1>3 DEF q

\* A service of the ranking is found by its id.
LEMMA FindById ==
  ASSUME NEW st \in Stores, NEW s \in st.services,
         Cardinality(GetServiceByNameOrAlias(st, s.id)) = 1
  PROVE  (CHOOSE x \in GetServiceByNameOrAlias(st, s.id) : TRUE) = s
<1> DEFINE found == GetServiceByNameOrAlias(st, s.id)
<1>1. s \in found
  BY StoreTables DEF GetServiceByNameOrAlias, ServiceRows
<1>2. IsFiniteSet(found)
  <2>1. IsFiniteSet(st.services) /\ found \in SUBSET st.services
    BY StoreTables DEF Table, GetServiceByNameOrAlias
  <2> QED
    BY <2>1, FS_Subset
<1>3. Cardinality(found) = 1
  OBVIOUS
<1> HIDE DEF found
<1>4. found = {s}
  BY <1>1, <1>2, <1>3, FS_Singleton
<1>5. (CHOOSE x \in found : TRUE) = s
  BY <1>4
<1> QED
  BY <1>5 DEF found

HotBody == BeginHot /\ ListHot /\ FleetHot /\ RankHot /\ PickedHot /\ FoundHot

\* A row of the ranking has its service's id, and one service only.
LEMMA RowIs ==
  ASSUME NEW s, NEW row \in RankedIn(store, req.since, s)
  PROVE  row.id = s.id /\ row.score = Compute(AnswerOf(store, req.since, TRUE, s))
<1>1. row = RowOf(store, req.since, s)
  BY DEF RankedIn
<1> QED
  BY <1>1 DEF RowOf

LEMMA HottestService ==
  ASSUME TypeInv, ListHot, pc # "start", rows # {}
  PROVE  \E s \in store.services : /\ s \in listed /\ ~IsNoiseForPaging(s)
                                   /\ hottest(rows) \in RankedIn(store, req.since, s)
<1>1. hottest(rows) \in rows
  BY HottestType DEF TypeInv
<1>2. PICK s \in listed : hottest(rows) \in RankedIn(store, req.since, s)
  BY <1>1 DEF ListHot
<1> QED
  BY <1>2 DEF ListHot

LEMMA StartHot ==
  ASSUME TypeInv, HotBody, StartFleet
  PROVE  HotBody'
<1> DEFINE ranked == {s \in store.services : ~IsNoiseForPaging(s)}
           ids == {s.id : s \in ranked}
<1>1. /\ UNCHANGED <<store, req, rows, answers>> /\ pc = "start"
      /\ listed' = ranked /\ todo' = InOrder(ids) /\ phase' = "fleet"
      /\ pc' = IF ranked = {} THEN "rank" ELSE "find"
  BY DEF StartFleet
<1>2. rows = {} /\ answers = <<>>
  BY <1>1 DEF HotBody, BeginHot
<1>3. ids \in SUBSET Int /\ IsFiniteSet(ids)
  BY FleetIds
<1>4. /\ InOrder(ids) \in Seq(ids) /\ Len(InOrder(ids)) = Cardinality(ids)
      /\ \A x \in ids : \E i \in 1..Len(InOrder(ids)) : InOrder(ids)[i] = x
  <2> HIDE DEF ids
  <2> QED
    BY <1>3, InOrderOf
<1>5. ranked = {} => todo' = <<>>
  <2>1. ranked = {} => ids = {}
    OBVIOUS
  <2> HIDE DEF ids
  <2>2. ids = {} => InOrder(ids) = <<>>
    BY <1>4, EmptySeq
  <2> QED
    BY <1>1, <2>1, <2>2
<1>6. \A i \in 1..Len(todo') : \E s \in listed' : s.id = todo'[i]
  BY <1>1, StartListed DEF WaitingListed
<1>7. \A s \in listed' : Waiting(s)'
  <2>1. \A s \in ranked : s.id \in ids
    OBVIOUS
  <2>2. \A x \in ids : \E i \in 1..Len(todo') : todo'[i] = x
    BY <1>1, <1>4
  <2> HIDE DEF ids, ranked
  <2> QED
    BY <1>1, <2>1, <2>2 DEF Waiting
<1>8. pc' \in {"find", "rank"} /\ (pc' = "rank" => ranked = {})
  BY <1>1
<1>9. BeginHot' /\ ListHot' /\ RankHot' /\ PickedHot' /\ FoundHot'
  BY <1>1, <1>2, <1>5, <1>8 DEF BeginHot, ListHot, RankHot, PickedHot, FoundHot, Asking
<1>10. FleetHot'
  BY <1>6, <1>7, <1>8 DEF FleetHot
<1> QED
  BY <1>9, <1>10 DEF HotBody

\* Nothing changes that the ranking depends on.
LEMMA SameHot ==
  ASSUME HotBody, UNCHANGED <<store, req, phase, todo, listed, rows, answers>>,
         pc' = pc \/ (pc \in Asking \cup {"find"} /\ pc' \in Asking),
         pc' \in Asking => res'.service.id = Head(todo)
  PROVE  HotBody'
<1>1. FoundHot' /\ BeginHot' /\ ListHot' /\ RankHot'
  BY DEF HotBody, FoundHot, BeginHot, ListHot, RankHot, Asking
<1>2. \A s : (Waiting(s)' <=> Waiting(s)) /\ (Settled(s)' <=> Settled(s))
  BY DEF Waiting, Settled
<1>3. FleetHot'
  BY <1>2 DEF HotBody, FleetHot
<1>4. PickedHot'
  <2>1. \A s \in listed : Settled(s) => Settled(s)'
    BY <1>2
  <2> QED
    BY <2>1 DEF HotBody, PickedHot, Asking
<1> QED
  BY <1>1, <1>3, <1>4 DEF HotBody

LEMMA QueryHot ==
  ASSUME TypeInv, HotBody, Query
  PROVE  HotBody'
<1>1. /\ UNCHANGED <<store, req, phase, todo, listed, rows, answers>>
      /\ pc' \in Asking /\ pc \in Asking \cup {"find"}
  BY QueryFrame DEF KeepRest, request, fleet
<1>2. CASE Find
  <2>1. /\ pc = "find" /\ Cardinality(GetServiceByNameOrAlias(store, Head(todo))) = 1
        /\ res' = [NoAnswer EXCEPT
             !.service = CHOOSE s \in GetServiceByNameOrAlias(store, Head(todo)) : TRUE]
    BY <1>2 DEF Find
  <2>2. PICK s \in store.services : s.id = Head(todo)
    <3>1. CASE phase = "fleet"
      <4>1. todo \in Seq(Names) /\ todo # <<>>
        BY <2>1 DEF TypeInv, TodoInv
      <4>2. 1 \in 1..Len(todo) /\ todo[1] = Head(todo)
        BY <4>1
      <4>3. PICK s \in listed : s.id = Head(todo)
        BY <3>1, <4>2 DEF HotBody, FleetHot
      <4>4. s \in store.services
        BY <2>1 DEF HotBody, ListHot
      <4> QED
        BY <4>3, <4>4
    <3>2. CASE phase = "answer"
      <4>1. todo = <<hottest(rows).id>> /\ rows # {}
        BY <2>1, <3>2 DEF HotBody, PickedHot
      <4>2. PICK s \in store.services : hottest(rows) \in RankedIn(store, req.since, s)
        BY <2>1, <4>1, HottestService DEF HotBody
      <4>3. hottest(rows).id = s.id
        BY <4>2, RowIs
      <4> QED
        BY <4>1, <4>3
    <3> QED
      BY <3>1, <3>2 DEF TypeInv, ControlInv
  <2>3. store \in Stores
    BY DEF TypeInv, StoreInv
  <2>4. (CHOOSE x \in GetServiceByNameOrAlias(store, Head(todo)) : TRUE) = s
    <3>1. Cardinality(GetServiceByNameOrAlias(store, s.id)) = 1
      BY <2>1, <2>2
    <3>2. (CHOOSE x \in GetServiceByNameOrAlias(store, s.id) : TRUE) = s
      BY <2>3, <3>1, FindById
    <3> QED
      BY <2>2, <3>2
  <2>5. res'.service.id = Head(todo)
    BY <2>1, <2>2, <2>4 DEF NoAnswer
  <2> QED
    BY <1>1, <2>5, SameHot
<1>3. CASE ~Find
  <2>1. res'.service = res.service
    BY <1>3, FieldFrame DEF TypeInv
  <2>2. pc \in Asking
    BY <1>3 DEF Query, Step, Asking, GetOwner, GetChanges, GetAlerts, GetDependencies,
       ResolveUp, ResolveDown, ResolveEnd, GetRunbookNone, GetRunbook, VerifyStep, VerifyEnd,
       ListEvidenceForService, CollectEvidence, TransitiveImpactTip, TipFails
  <2>3. res'.service.id = Head(todo)
    BY <2>1, <2>2 DEF HotBody, FoundHot
  <2> QED
    BY <1>1, <2>3, SameHot
<1> QED
  BY <1>2, <1>3

LEMMA RankAnswerHot ==
  ASSUME QuietAnswer, req.cmd = "auto", HotBody, RankAnswer
  PROVE  HotBody'
<1>1. /\ UNCHANGED <<store, req, phase, listed, res, answers>> /\ pc = "answered" /\ phase = "fleet"
      /\ rows' = rows \cup Ranked(Head(todo)) /\ todo' = Tail(todo)
      /\ pc' = IF Len(todo) = 1 THEN "rank" ELSE "find"
  BY DEF RankAnswer, request
<1> DEFINE s0 == res.service
<1>2. listed = {s \in store.services : ~IsNoiseForPaging(s)}
  BY <1>1 DEF HotBody, ListHot
<1>3. todo \in Seq(Services) /\ todo # <<>>
  BY <1>1 DEF QuietAnswer, TypeInv, TodoInv, Asking
<1>4. s0.id = Head(todo) /\ s0 \in store.services /\ store \in Stores
  BY <1>1, AnsweredQuiet DEF HotBody, FoundHot, Asking
<1>5. \A s \in store.services : s.id = s0.id => s = s0
  BY <1>4, StoreTables DEF Table
<1>6. s0 \in listed
  <2>1. 1 \in 1..Len(todo) /\ todo[1] = Head(todo)
    BY <1>3
  <2>2. PICK s \in listed : s.id = Head(todo)
    BY <1>1, <2>1 DEF HotBody, FleetHot
  <2> QED
    BY <1>2, <1>4, <1>5, <2>2
<1>7. Ranked(Head(todo)) = RankedIn(store, req.since, s0)
  <2> DEFINE s1 == CHOOSE x \in listed : x.id = Head(todo)
             signal == hottestHasSignal(s1, res)
  <2>1. s1 \in listed /\ s1.id = Head(todo)
    BY <1>4, <1>6
  <2>2. s1 = s0
    BY <1>2, <1>4, <1>5, <2>1
  <2>3. Ranked(Head(todo)) =
          IF ~signal THEN {}
          ELSE {[id |-> s0.id, agent |-> s0.id \in Agents, score |-> Compute(res)]}
    BY <1>4 DEF Ranked
  <2>6. WithRunbook = TRUE
    BY <1>1 DEF WithRunbook
  <2>4. signal <=> hottestHasSignal(s0, AnswerOf(store, req.since, TRUE, s0))
    BY <2>2, <2>6, QuietScore
  <2>5. [id |-> s0.id, agent |-> s0.id \in Agents, score |-> Compute(res)] = RowOf(store, req.since, s0)
    BY <2>6, QuietScore DEF RowOf
  <2> HIDE DEF signal, s0
  <2> QED
    BY <2>3, <2>4, <2>5 DEF RankedIn
<1> HIDE DEF s0
<1>8. \A s : Settled(s) => Settled(s)'
  BY <1>1 DEF Settled
<1>9. Settled(s0)'
  <2>1. RankedIn(store, req.since, s0) \subseteq rows'
    BY <1>1, <1>7
  <2>2. RankedIn(store', req'.since, s0) = RankedIn(store, req.since, s0)
    BY <1>1
  <2>3. s0' = s0
    BY <1>1 DEF s0
  <2> QED
    BY <2>1, <2>2, <2>3 DEF Settled
<1>10. \A s \in listed : Waiting(s)' \/ Settled(s)'
  <2> SUFFICES ASSUME NEW s \in listed
               PROVE  Waiting(s)' \/ Settled(s)'
    OBVIOUS
  <2>1. CASE Settled(s)
    BY <1>8, <2>1
  <2>2. CASE Waiting(s)
    <3>1. PICK i \in 1..Len(todo) : todo[i] = s.id
      BY <2>2 DEF Waiting
    <3>2. CASE todo[i] = Head(todo)
      <4>1. s = s0
        BY <1>2, <1>4, <1>5, <3>1, <3>2
      <4>2. RankedIn(store, req.since, s) \subseteq rows'
        BY <1>1, <1>7, <4>1
      <4> QED
        BY <1>1, <4>2 DEF Settled
    <3>3. CASE \E j \in 1..Len(Tail(todo)) : Tail(todo)[j] = todo[i]
      BY <1>1, <3>1, <3>3 DEF Waiting
    <3> QED
      BY <1>3, <3>2, <3>3, TailOf
  <2> QED
    BY <1>1, <2>1, <2>2 DEF HotBody, FleetHot
<1>11. \A i \in 1..Len(todo') : \E s \in listed : s.id = todo'[i]
  <2>1. \A i \in 1..Len(todo) : \E s \in listed : s.id = todo[i]
    BY <1>1 DEF HotBody, FleetHot
  <2>2. \A i \in 1..Len(Tail(todo)) : \E s \in listed : s.id = Tail(todo)[i]
    BY <1>3, <2>1, TailListed
  <2> QED
    BY <1>1, <2>2
<1>12. pc' = "rank" => todo' = <<>>
  BY <1>1, <1>3, TailOf
<1>13. pc' \in {"find", "rank"}
  BY <1>1
<1>14. FleetHot'
  BY <1>1, <1>10, <1>11, <1>13 DEF FleetHot
<1>15. ListHot'
  <2>1. \A r \in rows' : r \in rows \/ r \in RankedIn(store, req.since, s0)
    BY <1>1, <1>7
  <2>2. \A r \in rows : \E s \in listed : r \in RankedIn(store, req.since, s)
    BY <1>1 DEF HotBody, ListHot
  <2>3. \A r \in rows' : \E s \in listed : r \in RankedIn(store, req.since, s)
    BY <1>6, <2>1, <2>2
  <2> QED
    BY <1>1, <1>2, <2>3 DEF ListHot
<1>16. BeginHot' /\ RankHot' /\ PickedHot' /\ FoundHot'
  BY <1>1, <1>12, <1>13 DEF HotBody, BeginHot, RankHot, PickedHot, FoundHot, Asking
<1> QED
  BY <1>14, <1>15, <1>16 DEF HotBody

LEMMA PickHot ==
  ASSUME TypeInv, HotBody, PickHottest, outcome' # "error"
  PROVE  HotBody'
<1>1. /\ UNCHANGED <<store, req, listed, rows, answers>> /\ pc = "rank" /\ rows # {}
      /\ todo' = <<hottest(rows).id>> /\ phase' = "answer" /\ pc' = "find"
  BY DEF PickHottest
<1>2. \A s \in listed : Settled(s)
  <2>1. todo = <<>> /\ phase = "fleet"
    BY <1>1 DEF HotBody, RankHot
  <2>2. \A s : ~Waiting(s)
    BY <2>1 DEF Waiting
  <2> QED
    BY <2>1, <2>2 DEF HotBody, FleetHot
<1>3. \A s \in listed : Settled(s)'
  BY <1>1, <1>2 DEF Settled
<1>4. PickedHot'
  BY <1>1, <1>3 DEF PickedHot
<1>5. BeginHot' /\ ListHot' /\ FleetHot' /\ RankHot' /\ FoundHot'
  BY <1>1 DEF HotBody, BeginHot, ListHot, FleetHot, RankHot, FoundHot, Asking
<1> QED
  BY <1>4, <1>5 DEF HotBody

LEMMA AnswerHot ==
  ASSUME QuietAnswer, HotBody, Answer
  PROVE  HotBody'
<1>1. /\ UNCHANGED <<store, req, phase, listed, rows>> /\ pc = "answered" /\ phase = "answer"
      /\ answers' = Append(answers, [id |-> res.service.id, score |-> Compute(res)])
      /\ todo' = Tail(todo) /\ pc' = IF Len(todo) = 1 THEN "output" ELSE "find"
  BY DEF Answer, request
<1>2. /\ answers = <<>> /\ rows # {} /\ todo = <<hottest(rows).id>> /\ res.service.id = Head(todo)
      /\ \A s \in listed : Settled(s)
  BY <1>1 DEF HotBody, BeginHot, PickedHot, FoundHot, Asking
<1>3. pc' = "output"
  BY <1>1, <1>2
<1>4. PICK s \in store.services : hottest(rows) \in RankedIn(store, req.since, s)
  BY <1>1, <1>2, HottestService DEF HotBody, QuietAnswer
<1>5. hottest(rows).id = s.id
  BY <1>4, RowIs
<1>6. res.service.id = hottest(rows).id
  BY <1>2
<1>7. res.service = s
  <2>1. Table(store.services) /\ res.service \in store.services
    BY AnsweredQuiet, StoreTables
  <2> QED
    BY <1>5, <1>6, <2>1 DEF Table
<1>8. answers' = <<[id |-> s.id, score |-> Compute(AnswerOf(store, req.since, req.withRunbook, s))]>>
  <2>1. WithRunbook = req.withRunbook
    BY <1>1 DEF WithRunbook, QuietAnswer, TypeInv, ControlInv, Requests
  <2>2. Compute(res) = Compute(AnswerOf(store, req.since, req.withRunbook, s))
    BY <1>7, <2>1, QuietScore
  <2>3. \A x : Append(<<>>, x) = <<x>>
    OBVIOUS
  <2> QED
    BY <1>1, <1>2, <1>7, <2>2, <2>3
<1>9. \A t \in listed : Settled(t)'
  BY <1>1, <1>2 DEF Settled
<1>10. PickedHot'
  BY <1>1, <1>2, <1>3, <1>4, <1>8, <1>9 DEF PickedHot, Asking
<1>11. BeginHot' /\ ListHot' /\ FleetHot' /\ RankHot' /\ FoundHot'
  BY <1>1, <1>3 DEF HotBody, BeginHot, ListHot, FleetHot, RankHot, FoundHot, Asking
<1> QED
  BY <1>10, <1>11 DEF HotBody

LEMMA OutputHot ==
  ASSUME HotBody, Output
  PROVE  HotBody'
<1>1. UNCHANGED <<store, req, phase, todo, listed, rows, answers>> /\ pc = "output" /\ pc' = "done"
  BY DEF Output, request
<1>2. phase = "answer"
  BY <1>1 DEF HotBody, PickedHot
<1>3. \A s \in listed : Settled(s) => Settled(s)'
  BY <1>1 DEF Settled
<1>4. PickedHot'
  BY <1>1, <1>3 DEF HotBody, PickedHot, Asking
<1>5. BeginHot' /\ ListHot' /\ FleetHot' /\ RankHot' /\ FoundHot'
  BY <1>1, <1>2 DEF HotBody, BeginHot, ListHot, FleetHot, RankHot, FoundHot, Asking
<1> QED
  BY <1>4, <1>5 DEF HotBody

LEMMA HotStep ==
  ASSUME TypeInv, QuietInv, OutcomeInv, HotInv, [Next]_vars
  PROVE  HotInv'
<1> SUFFICES ASSUME Hot'
             PROVE  HotBody'
  BY DEF HotInv, HotBody
<1>1. CASE UNCHANGED vars
  <2>1. UNCHANGED <<store, versions, req, phase, todo, listed, skipped, rows, res, answers, outcome, pc>>
    BY <1>1 DEF vars, request, fleet
  <2>2. HotBody
    BY <2>1 DEF Hot, Quiet, HotInv, HotBody
  <2>3. pc' \in Asking => res'.service.id = Head(todo)
    BY <2>1, <2>2 DEF HotBody, FoundHot
  <2> QED
    BY <2>1, <2>2, <2>3, SameHot
<1>2. CASE Query
  <2>1. UNCHANGED <<store, versions, req, skipped, outcome>>
    BY <1>2, QueryFrame DEF KeepRest, request, fleet
  <2>2. HotBody
    BY <2>1 DEF Hot, Quiet, HotInv, HotBody
  <2> QED
    BY <1>2, <2>2, QueryHot
<1>3. CASE OtherWrites
  <2>1. /\ versions' = versions \cup {store'} /\ store \in versions
        /\ UNCHANGED <<req, phase, listed, todo, skipped, rows, answers, outcome, res, pc>>
    BY <1>3 DEF OtherWrites, request, fleet, TypeInv, StoreInv
  <2>2. versions' = {store'}
    BY DEF Hot, Quiet
  <2>3. store' = store /\ versions = {store}
    BY <2>1, <2>2
  <2>4. HotBody
    BY <2>1, <2>3 DEF Hot, Quiet, HotInv, HotBody
  <2>5. pc' \in Asking => res'.service.id = Head(todo)
    BY <2>1, <2>4 DEF HotBody, FoundHot
  <2> QED
    BY <2>1, <2>3, <2>4, <2>5, SameHot
<1>4. CASE Lost
  <2>1. outcome' = "error" \/ skipped' = skipped + 1
    BY <1>4 DEF Lost
  <2>2. skipped \in Nat /\ skipped' = 0 /\ outcome' # "error"
    BY DEF Hot, TypeInv, ControlInv
  <2> QED
    BY <2>1, <2>2
<1>5. CASE StartNamed \/ Top
  <2>1. req' = req /\ req.cmd # "auto"
    BY <1>5 DEF StartNamed, Top, request
  <2> QED
    BY <2>1 DEF Hot
<1>6. CASE StartFleet \/ RankAnswer \/ PickHottest \/ Answer \/ Output
  <2>1. UNCHANGED <<store, versions, req, skipped>> /\ pc # "done"
    BY <1>6 DEF StartFleet, RankAnswer, PickHottest, Answer, Output, request
  <2>2. outcome # "error"
    BY <2>1 DEF OutcomeInv
  <2>3. HotBody /\ Quiet /\ req.cmd = "auto"
    BY <2>1, <2>2 DEF Hot, Quiet, HotInv, HotBody
  <2>4. pc = "answered" => QuietAnswer
    BY <2>3 DEF QuietAnswer
  <2>5. CASE StartFleet
    BY <2>3, <2>5, StartHot
  <2>6. CASE RankAnswer
    BY <2>3, <2>4, <2>6, RankAnswerHot DEF RankAnswer
  <2>7. CASE PickHottest
    BY <2>3, <2>7, PickHot DEF Hot
  <2>8. CASE Answer
    BY <2>3, <2>4, <2>8, AnswerHot DEF Answer
  <2>9. CASE Output
    BY <2>3, <2>9, OutputHot
  <2> QED
    BY <1>6, <2>5, <2>6, <2>7, <2>8, <2>9
<1> QED
  BY <1>1, <1>2, <1>3, <1>4, <1>5, <1>6, NextCases

LEMMA HotInvariant == Spec => []HotInv
<1>1. Init => OutcomeInv /\ HotInv
  <2> SUFFICES ASSUME Init
               PROVE  OutcomeInv /\ HotInv
    OBVIOUS
  <2>1. /\ pc = "start" /\ phase = "answer" /\ rows = {} /\ answers = <<>> /\ outcome = "none"
    BY DEF Init
  <2> QED
    BY <2>1 DEF OutcomeInv, HotInv, BeginHot, ListHot, FleetHot, RankHot, PickedHot, FoundHot, Asking
<1>2. TypeInv /\ QuietInv /\ OutcomeInv /\ HotInv /\ [Next]_vars => OutcomeInv' /\ HotInv'
  BY HotStep, OutcomeStep
<1> QED
  BY <1>1, <1>2, TypesInvariant, QuietInvariant, PTL DEF Spec

\* What an answer shows is finite.
LEMMA AnswerFinite ==
  ASSUME NEW st \in Stores, NEW since, NEW with, NEW s
  PROVE  LET q == AnswerOf(st, since, with, s)
         IN /\ Dated(q.alerts) /\ IsFiniteSet(q.alerts)
            /\ IsFiniteSet(q.up) /\ IsFiniteSet(q.down)
<1> DEFINE q == AnswerOf(st, since, with, s)
<1>1. /\ q.service = s /\ q.alerts = AlertsOf(st, s.id, since)
      /\ q.up = RowsOf(st, UpOf(st, s.id)) /\ q.down = RowsOf(st, DownOf(st, s.id))
  BY DEF AnswerOf
<1>2. Dated(q.alerts) /\ IsFiniteSet(q.alerts)
  <2>1. Dated(st.alerts) /\ q.alerts \in SUBSET st.alerts
    BY <1>1, StoreTables DEF AlertsOf, filterNotFutureAlerts, ListAlerts
  <2>2. Dated(q.alerts)
    <3> HIDE DEF q
    <3> QED
      BY <2>1, SubsetDated
  <2> QED
    BY <2>2 DEF Dated, Table
<1>3. \A ids : IsFiniteSet(ids) => IsFiniteSet(RowsOf(st, ids))
  <2> SUFFICES ASSUME NEW ids, IsFiniteSet(ids)
               PROVE  IsFiniteSet(RowsOf(st, ids))
    OBVIOUS
  <2>1. [id \in ids |-> ResolvedIn(st, id)] \in Surjection(ids, RowsOf(st, ids))
    BY DEF Surjection, RowsOf
  <2> QED
    BY <2>1, FS_Surjection
<1>4. IsFiniteSet(UpOf(st, s.id)) /\ IsFiniteSet(DownOf(st, s.id))
  <2>1. PICK touching : touching = {d.id : d \in ListDependencies(st, s.id)}
    OBVIOUS
  <2>2. /\ IsFiniteSet({d[2] : d \in {e \in touching : e[1] = s.id}})
        /\ IsFiniteSet({d[1] : d \in {e \in touching : e[2] = s.id}})
    BY <2>1, NeighboursFinite
  <2> QED
    BY <2>1, <2>2 DEF UpOf, DownOf, EdgesOf
<1>5. IsFiniteSet(q.up) /\ IsFiniteSet(q.down)
  BY <1>1, <1>3, <1>4
<1> HIDE DEF q
<1>6. Dated(q.alerts) /\ IsFiniteSet(q.alerts) /\ IsFiniteSet(q.up) /\ IsFiniteSet(q.down)
  BY <1>2, <1>5
<1> QED
  BY <1>6 DEF q

\* The score of a service counts its health and each of its active alerts.
LEMMA ScoreCounts ==
  ASSUME NEW st \in Stores, NEW since, NEW with, NEW s
  PROVE  /\ Compute(AnswerOf(st, since, with, s)) \in 0..100
         /\ Compute(AnswerOf(st, since, with, s)) >= serviceHealthPoints(s)
         /\ \A a \in st.alerts : a.svc = s.id /\ AlertActive(a.status) =>
              /\ a \in ActiveAlerts(AnswerOf(st, since, with, s))
              /\ Compute(AnswerOf(st, since, with, s)) >= alertPoints(a)
<1> DEFINE q == AnswerOf(st, since, with, s)
<1>1. /\ q.service = s /\ q.alerts = AlertsOf(st, s.id, since)
      /\ Dated(q.alerts) /\ IsFiniteSet(q.alerts) /\ IsFiniteSet(q.up) /\ IsFiniteSet(q.down)
  BY AnswerFinite DEF AnswerOf
<1>6. \A a \in st.alerts : a.svc = s.id /\ AlertActive(a.status) => a \in ActiveAlerts(q)
  BY <1>1 DEF ActiveAlerts, AlertsOf, filterNotFutureAlerts, ListAlerts, AlertLive
<1> HIDE DEF q
<1>7. /\ Compute(q) \in 0..100 /\ Compute(q) >= serviceHealthPoints(s)
      /\ \A b \in scoredAlerts(q) : Compute(q) >= alertPoints(b)
  BY <1>1, ScoreOf
<1>8. ASSUME NEW a \in ActiveAlerts(q)
      PROVE  Compute(q) >= alertPoints(a)
  <2>1. PICK b \in scoredAlerts(q) : alertPoints(b) >= alertPoints(a)
    BY <1>1, FirstCounts
  <2>2. Compute(q) >= alertPoints(b)
    BY <1>7, <2>1
  <2> QED
    BY <1>7, <2>1, <2>2, PointsNat
<1> QED
  BY <1>6, <1>7, <1>8 DEF q

\* The runbook counts for no more than ten points.
LEMMA BookCounts ==
  ASSUME NEW st \in Stores, NEW since, NEW s, NEW with
  PROVE  /\ Compute(AnswerOf(st, since, with, s)) \in 0..100
         /\ Compute(AnswerOf(st, since, TRUE, s)) <= Compute(AnswerOf(st, since, with, s)) + 10
<1> DEFINE q == AnswerOf(st, since, TRUE, s)
           r == AnswerOf(st, since, with, s)
<1>1. /\ q.service = r.service /\ q.changes = r.changes /\ q.alerts = r.alerts
      /\ q.up = r.up /\ q.down = r.down
  BY DEF AnswerOf
<1>2. /\ IsFiniteSet(q.alerts) /\ IsFiniteSet(q.up) /\ IsFiniteSet(q.down)
  BY AnswerFinite
<1> HIDE DEF q, r
<1>3. WithoutBook(q) = WithoutBook(r)
  <2>1. ActiveAlerts(r) = ActiveAlerts(q)
    BY <1>1 DEF ActiveAlerts
  <2>2. recentChange(r) = recentChange(q)
    BY <1>1 DEF recentChange, RecentChanges
  <2>3. correlate(r) = correlate(q)
    BY <1>1, <2>1 DEF correlate
  <2>4. firingPoints(r) = firingPoints(q)
    <3>1. scoredAlerts(r) = scoredAlerts(q)
      BY <2>1 DEF scoredAlerts
    <3> QED
      BY <3>1 DEF firingPoints
  <2>5. downstreamPoints(r) = downstreamPoints(q)
    BY <1>1 DEF downstreamPoints
  <2> QED
    BY <1>1, <2>2, <2>3, <2>4, <2>5 DEF WithoutBook
<1>4. /\ Compute(q) = AtMost(WithoutBook(q) + BookPoints(q), 100)
      /\ WithoutBook(q) \in Nat /\ BookPoints(q) \in 0..10
  BY <1>2, ScoreOf
<1>5. /\ Compute(r) = AtMost(WithoutBook(r) + BookPoints(r), 100)
      /\ BookPoints(r) \in 0..10 /\ Compute(r) \in 0..100
  BY <1>1, <1>2, ScoreOf
<1>6. Compute(q) <= Compute(r) + 10
  BY <1>3, <1>4, <1>5 DEF AtMost
<1> QED
  BY <1>5, <1>6 DEF q, r

\* The service that is picked is a real one, and none that is not a node agent
\* is worse off, but for what a failed runbook counts when the answer goes
\* without it (hottest.go:30-47).
THEOREM NoFireIsHidden == Spec => []NoFireHidden
<1>1. TypeInv /\ HotInv => NoFireHidden
  <2> DEFINE most == answers[1].score + (IF req.withRunbook THEN 0 ELSE 10)
  <2> SUFFICES ASSUME TypeInv, HotInv, pc = "done", req.cmd = "auto", Undisturbed
               PROVE  /\ \E s \in store.services : s.id = answers[1].id /\ ~IsNoiseForPaging(s)
                      /\ \A s \in store.services :
                           ~IsNoiseForPaging(s) /\ s.id \notin Agents =>
                             /\ s.health # "unknown" => most >= serviceHealthPoints(s)
                             /\ \A a \in store.alerts : a.svc = s.id /\ AlertActive(a.status) =>
                                  most >= alertPoints(a)
    BY DEF NoFireHidden
  <2>1. HotBody
    BY DEF HotInv, HotBody, Hot, Undisturbed
  <2> DEFINE h == hottest(rows)
  <2>2. PICK t \in store.services :
          /\ h \in RankedIn(store, req.since, t)
          /\ answers = <<[id |-> t.id,
                          score |-> Compute(AnswerOf(store, req.since, req.withRunbook, t))]>>
    BY <2>1 DEF HotBody, PickedHot
  <2>3. rows # {}
    BY <2>1 DEF HotBody, PickedHot
  <2>4. t.id = answers[1].id /\ ~IsNoiseForPaging(t)
    <3>1. PICK u \in store.services : ~IsNoiseForPaging(u) /\ h \in RankedIn(store, req.since, u)
      BY <2>1, <2>3, HottestService DEF HotBody
    <3>2. u.id = t.id
      <4>1. h.id = u.id
        BY <3>1, RowIs
      <4>2. h.id = t.id
        BY <2>2, RowIs
      <4> QED
        BY <4>1, <4>2
    <3>3. Table(store.services)
      BY StoreTables DEF TypeInv, StoreInv
    <3>4. u = t
      BY <3>2, <3>3 DEF Table
    <3> QED
      BY <2>2, <3>1, <3>4
  <2>8. h.score \in 0..100 /\ most \in Nat /\ most >= h.score
    <3>1. h.score = Compute(AnswerOf(store, req.since, TRUE, t))
      BY <2>2, RowIs
    <3>2. store \in Stores /\ req.withRunbook \in BOOLEAN
      BY DEF TypeInv, StoreInv, ControlInv, Requests
    <3>3. answers[1].score = Compute(AnswerOf(store, req.since, req.withRunbook, t))
      BY <2>2
    <3> DEFINE ranked == Compute(AnswerOf(store, req.since, TRUE, t))
               said == Compute(AnswerOf(store, req.since, req.withRunbook, t))
    <3>4. ranked \in 0..100 /\ said \in 0..100 /\ ranked <= said + 10
      BY <3>2, BookCounts
    <3>5. req.withRunbook => said = ranked
      BY <3>2
    <3> HIDE DEF ranked, said
    <3>6. most = said + (IF req.withRunbook THEN 0 ELSE 10)
      BY <3>3 DEF said
    <3>7. most \in Nat /\ most >= ranked
      BY <3>4, <3>5, <3>6
    <3> QED
      BY <3>1, <3>4, <3>7 DEF ranked
  <2> HIDE DEF most
  <2>5. ASSUME NEW s \in store.services, ~IsNoiseForPaging(s), s.id \notin Agents,
               hottestHasSignal(s, AnswerOf(store, req.since, TRUE, s))
        PROVE  h.score >= Compute(AnswerOf(store, req.since, TRUE, s))
    <3>1. s \in listed
      BY <2>1, <2>5 DEF HotBody, ListHot
    <3>2. Settled(s)
      BY <2>1, <3>1 DEF HotBody, PickedHot
    <3>3. RowOf(store, req.since, s) \in rows
      BY <2>5, <3>2 DEF Settled, RankedIn
    <3>4. ~RowOf(store, req.since, s).agent
          /\ RowOf(store, req.since, s).score = Compute(AnswerOf(store, req.since, TRUE, s))
      BY <2>5 DEF RowOf
    <3>5. h.score >= RowOf(store, req.since, s).score
      BY <2>3, <3>3, <3>4, HottestType DEF TypeInv
    <3> QED
      BY <3>4, <3>5
  <2>7. ASSUME NEW s \in store.services, ~IsNoiseForPaging(s), s.id \notin Agents
        PROVE  /\ s.health # "unknown" => most >= serviceHealthPoints(s)
               /\ \A a \in store.alerts : a.svc = s.id /\ AlertActive(a.status) =>
                    most >= alertPoints(a)
    <3> DEFINE q == AnswerOf(store, req.since, TRUE, s)
    <3>1. store \in Stores
      BY DEF TypeInv, StoreInv
    <3>2. /\ Compute(q) \in 0..100 /\ Compute(q) >= serviceHealthPoints(s)
          /\ \A a \in store.alerts : a.svc = s.id /\ AlertActive(a.status) =>
               a \in ActiveAlerts(q) /\ Compute(q) >= alertPoints(a)
      BY <3>1, ScoreCounts
    <3>3. hottestHasSignal(s, q) => h.score >= Compute(q)
      BY <2>5, <2>7
    <3>4. s.health # "unknown" => hottestHasSignal(s, q)
      BY DEF hottestHasSignal
    <3>5. \A a : a \in ActiveAlerts(q) => hottestHasSignal(s, q)
      BY DEF hottestHasSignal
    <3>6. serviceHealthPoints(s) \in Nat
      BY DEF serviceHealthPoints
    <3> HIDE DEF q, h
    <3>7. s.health # "unknown" => most >= serviceHealthPoints(s)
      BY <2>8, <3>2, <3>3, <3>4, <3>6
    <3>8. ASSUME NEW a \in store.alerts, a.svc = s.id, AlertActive(a.status)
          PROVE  most >= alertPoints(a)
      <4>1. h.score >= Compute(q) /\ Compute(q) >= alertPoints(a)
        BY <3>2, <3>3, <3>5, <3>8
      <4> QED
        BY <2>8, <3>2, <4>1, PointsNat
    <3> QED
      BY <3>7, <3>8
  <2> QED
    BY <2>4, <2>7
<1> QED
  BY <1>1, TypesInvariant, HotInvariant, PTL

-----------------------------------------------------------------------------
(* What is asked twice is answered twice alike.                             *)

\* The fingerprint depends on no more than what is scored.
LEMMA SameParts ==
  ASSUME NEW r, NEW q, r.service = q.service, r.changes = q.changes, r.alerts = q.alerts,
         r.up = q.up, r.down = q.down, r.runbook = q.runbook
  PROVE  Of(r) = Of(q)
<1>1. ActiveAlerts(r) = ActiveAlerts(q)
  BY DEF ActiveAlerts
<1>2. recentChange(r) = recentChange(q)
  BY DEF recentChange, RecentChanges
<1> QED
  BY <1>1, <1>2 DEF Of

\* An answer that nobody wrote into has the score and the fingerprint that the
\* rows of the store give its service, in whatever order the rows came in
\* (score.go:20, fingerprint.go:24): when the store and the window are the same, so
\* are they, in a ranking, in top and in compare. ask gives the same with its
\* runbook, and those of a service that has none with --runbook=false (ask.go:82).
Repeatable ==
  pc = "answered" /\ Quiet =>
    /\ res.service \in store.services
    /\ Compute(res) = Compute(AnswerOf(store, req.since, WithRunbook, res.service))
    /\ Of(res) = Of(AnswerOf(store, req.since, WithRunbook, res.service))

\* The score and the fingerprint of a quiet answer are functions of the store, the
\* service, the window and whether the runbook counts (ask.go:41-101, load.go:73-78).
THEOREM AnswersAreRepeatable == Spec => []Repeatable
<1>1. TypeInv /\ QuietInv => Repeatable
  <2> SUFFICES ASSUME QuietAnswer
               PROVE  /\ res.service \in store.services
                      /\ Compute(res) = Compute(AnswerOf(store, req.since, WithRunbook, res.service))
                      /\ Of(res) = Of(AnswerOf(store, req.since, WithRunbook, res.service))
    BY DEF Repeatable, QuietAnswer
  <2> DEFINE q == AnswerOf(store, req.since, WithRunbook, res.service)
  <2>1. /\ res.service = q.service /\ res.changes = q.changes /\ res.alerts = q.alerts
        /\ res.up = q.up /\ res.down = q.down
    BY AnsweredQuiet DEF AnswerOf
  <2>2. res.runbook = q.runbook
    BY DEF QuietAnswer, QuietInv, RunbookQuiet, AnswerOf, AfterBook
  <2> HIDE DEF q
  <2>3. Of(res) = Of(q)
    BY <2>1, <2>2, SameParts
  <2>4. res.service \in store.services
    BY AnsweredQuiet
  <2> QED
    BY <2>3, <2>4, QuietScore DEF q
<1> QED
  BY <1>1, TypesInvariant, QuietInvariant, PTL
=============================================================================
