------------------------- MODULE GraphSearchProofs -------------------------
(***************************************************************************)
(* Proofs about the graph searches, for every finite set of services and   *)
(* every graph. A search reports what it has seen; what makes that the     *)
(* right answer is that a neighbour of a node that was seen is seen too    *)
(* unless the node still has it to look at, and that only nodes that will  *)
(* be come back to have anything left to look at.                          *)
(***************************************************************************)
EXTENDS GraphSearch, FiniteSetTheorems, SequenceTheorems, WellFoundedInduction,
        TLAPS

-----------------------------------------------------------------------------
(* Least elements.                                                          *)

\* A set of natural numbers that is not empty has a least element.
LEMMA LeastNat ==
  ASSUME NEW S \in SUBSET Nat, S # {}
  PROVE  \E x \in S : \A y \in S : x <= y
<1>1. PICK x \in S : \A y \in S : ~(<<y, x>> \in OpToRel(<, Nat))
  BY NatLessThanWellFounded, WFMin
<1>2. \A y \in S : y < x => <<y, x>> \in OpToRel(<, Nat)
  BY Zenon DEF OpToRel
<1>3. ASSUME NEW y \in S
      PROVE  x <= y
  <2>1. ~(y < x)
    BY <1>1, <1>2
  <2> QED
    BY <2>1
<1> QED
  BY <1>3

\* So does a finite set of integers.
LEMMA LeastInt ==
  ASSUME NEW S, IsFiniteSet(S), S \subseteq Int, S # {}
  PROVE  \E x \in S : \A y \in S : x <= y
<1>1. PICK n \in Nat : \E x \in S : Cardinality({y \in S : y < x}) = n
  <2>1. PICK x \in S : TRUE
    OBVIOUS
  <2>2. IsFiniteSet({y \in S : y < x})
    BY FS_Subset
  <2> QED
    BY <2>1, <2>2, FS_CardinalityType
<1> DEFINE C == {n1 \in Nat : \E x \in S : Cardinality({y \in S : y < x}) = n1}
<1>2. PICK m \in C : \A k \in C : m <= k
  <2>1. C # {} /\ C \in SUBSET Nat
    BY <1>1
  <2> HIDE DEF C
  <2> QED
    BY <2>1, LeastNat
<1>3. PICK x \in S : Cardinality({y \in S : y < x}) = m
  BY <1>2
<1>4. ASSUME NEW z \in S, z < x
      PROVE  FALSE
  <2> DEFINE Z == {y \in S : y < z}
             X == {y \in S : y < x}
  <2>1. Z \in SUBSET X /\ Z # X
    <3>1. \A y \in S : y < z => y < x
      BY <1>4
    <3>3. Z \in SUBSET X
      BY <3>1
    <3>2. z \in X /\ z \notin Z
      BY <1>4
    <3> QED
      BY <3>2, <3>3
  <2>2. IsFiniteSet(Z) /\ IsFiniteSet(X)
    BY FS_Subset
  <2>3. Cardinality(Z) \in Nat /\ Cardinality(X) \in Nat
    BY <2>2, FS_CardinalityType
  <2>4. Cardinality(Z) <= Cardinality(X) /\ Cardinality(Z) # Cardinality(X)
    BY <2>1, <2>2, FS_Subset
  <2>5. Cardinality(Z) \in C
    BY <2>3
  <2> QED
    BY <2>3, <2>4, <2>5, <1>2, <1>3
<1> QED
  BY <1>4

-----------------------------------------------------------------------------
(* Sequences and graphs.                                                    *)

\* The last element, and a sequence without it.
LEMMA PopTop ==
  ASSUME NEW S, NEW s \in Seq(S), s # <<>>
  PROVE  /\ Len(s) \in Nat \ {0} /\ Top(s) \in S
         /\ Pop(s) \in Seq(S) /\ Len(Pop(s)) = Len(s) - 1
         /\ \A i \in 1..(Len(s) - 1) : Pop(s)[i] = s[i]
<1>1. Len(s) \in Nat \ {0} /\ \A i \in 1..Len(s) : s[i] \in S
  BY EmptySeq, ElementOfSeq
<1>2. Top(s) \in S
  BY <1>1 DEF Top
<1>3. PICK n \in Nat : n = Len(s) - 1
  BY <1>1
<1>4. \A i \in 1..n : s[i] \in S
  BY <1>1, <1>3
<1>5. /\ SubSeq(s, 1, n) \in Seq(S)
      /\ Len(SubSeq(s, 1, n)) = (IF 1 <= n THEN n - 1 + 1 ELSE 0)
      /\ \A i \in 1..(n - 1 + 1) : SubSeq(s, 1, n)[i] = s[1 + i - 1]
  BY <1>4, SubSeqProperties
<1>6. (IF 1 <= n THEN n - 1 + 1 ELSE 0) = n
  OBVIOUS
<1>7. \A i \in 1..n : SubSeq(s, 1, n)[i] = s[i]
  BY <1>5
<1> QED
  BY <1>1, <1>2, <1>3, <1>5, <1>6, <1>7 DEF Pop

\* A set of services that is not empty has a first one.
LEMMA FirstOf ==
  ASSUME NEW S \in SUBSET Services, S # {}
  PROVE  First(S) \in S /\ \A y \in S : First(S) <= y
<1>1. IsFiniteSet(S) /\ S \subseteq Int
  BY GraphAssumption, FS_Subset
<1>2. \E x \in S : \A y \in S : x <= y
  BY <1>1, LeastInt
<1> QED
  BY <1>2 DEF First

\* What the adjacency lists hold.
LEMMA Adjacency ==
  ASSUME NEW A \in SUBSET Edges, NEW x \in Services
  PROVE  /\ uniqSorted(A, x) \subseteq Services
         /\ Entered(A, x) \in [Services -> SUBSET Services]
         /\ Reversed(A) \in SUBSET Edges
         /\ Unlooped(A) \in SUBSET Edges
  BY DEF uniqSorted, Entered, Reversed, Unlooped, Edges

\* A node takes one neighbour off its list; the neighbour may be entered.
LEMMA RestTyped ==
  ASSUME TypeOK, NEW x \in Services, NEW y \in Services
  PROVE  /\ [rest EXCEPT ![x] = @ \ {y}] \in [Services -> SUBSET Services]
         /\ [rest EXCEPT ![x] = @ \ {y}, ![y] = uniqSorted(arcs, y)]
               \in [Services -> SUBSET Services]
         /\ [rest EXCEPT ![y] = uniqSorted(arcs, y)] \in [Services -> SUBSET Services]
         /\ Append(stack, y) \in Seq(Services)
<1>1. uniqSorted(arcs, y) \in SUBSET Services
  BY DEF uniqSorted
<1>2. rest \in [Services -> SUBSET Services] /\ stack \in Seq(Services)
  BY DEF TypeOK
<1> QED
  BY <1>1, <1>2, AppendProperties

\* Where on the stack the k-th node of a reported circle is, when the circle
\* begins at from, has n nodes, and the best-th of them is the least.
At(from, n, best, k) ==
  IF k <= n + 1 - best THEN from + best + k - 2 ELSE from + best + k - 2 - n

Rotation(c, start, from, n, best) ==
  /\ stack[from] = start /\ n = Len(stack) - from + 1 /\ best <= n
  /\ \A j \in 1..n : stack[from + best - 1] <= stack[from + j - 1]
  /\ c = [k \in 1..(n + 1) |-> stack[At(from, n, best, k)]]

\* The places are those from the gray node to the top, each once, in the order
\* of the stack but for the closing edge.
LEMMA Places ==
  ASSUME NEW len \in Nat, NEW from \in 1..len, NEW n \in Nat \ {0},
         NEW best \in Nat \ {0}, n = len - from + 1, best <= n
  PROVE  /\ \A k \in 1..(n + 1) : At(from, n, best, k) \in from..len
         /\ At(from, n, best, n + 1) = At(from, n, best, 1)
         /\ At(from, n, best, 1) = from + best - 1
         /\ \A i, j \in 1..n : i # j => At(from, n, best, i) # At(from, n, best, j)
         /\ \A k \in 1..n :
              At(from, n, best, k + 1) =
                IF At(from, n, best, k) = len THEN from ELSE At(from, n, best, k) + 1
  BY DEF At

\* The stack from the gray node on, rotated and closed.
LEMMA CycleShape ==
  ASSUME TypeOK, NEW start, OnStack(start)
  PROVE  \E from \in 1..Len(stack), n \in Nat \ {0}, best \in Nat \ {0} :
           Rotation(cycleFromStack(start), start, from, n, best)
<1> DEFINE from == CHOOSE i \in 1..Len(stack) : stack[i] = start
           body == SubSeq(stack, from, Len(stack))
           n == Len(body)
           best == CHOOSE i \in 1..n : \A j \in 1..n : body[i] <= body[j]
           at(k) == IF k <= n + 1 - best THEN best + k - 1 ELSE best + k - 1 - n
<1>1. stack \in Seq(Services) /\ Len(stack) \in Nat
  BY DEF TypeOK
<1>2. from \in 1..Len(stack) /\ stack[from] = start
  BY DEF OnStack
<1>3. /\ n \in Nat \ {0} /\ n = Len(stack) - from + 1
      /\ \A i \in 1..n : body[i] = stack[from + i - 1] /\ body[i] \in Services
  <2>1. \A i \in from..Len(stack) : stack[i] \in Services
    BY <1>1, <1>2, ElementOfSeq
  <2> HIDE DEF from
  <2> QED
    BY <1>1, <1>2, <2>1, SubSeqProperties
<1>4. best \in 1..n /\ \A j \in 1..n : body[best] <= body[j]
  <2> DEFINE S == {body[i] : i \in 1..n}
  <2> HIDE DEF body, n
  <2>0. \A i \in 1..n : body[i] \in Services
    BY <1>3
  <2>1. S \in SUBSET Services /\ S # {}
    <3>1. n \in Nat \ {0}
      BY <1>3
    <3>2. 1 \in 1..n
      BY <3>1
    <3> QED
      BY <2>0, <3>2
  <2>2. PICK x \in S : \A y \in S : x <= y
    BY <2>1, FirstOf
  <2>3. \E i \in 1..n : \A j \in 1..n : body[i] <= body[j]
    BY <2>2
  <2> QED
    BY <2>3
<1>5. cycleFromStack(start) = [k \in 1..(n + 1) |-> body[at(k)]]
  BY DEF cycleFromStack
<1> HIDE DEF from, body, n, best
<1>6. ASSUME NEW k \in 1..(n + 1)
      PROVE  body[at(k)] = stack[At(from, n, best, k)]
  <2>1. at(k) \in 1..n
    BY <1>3, <1>4
  <2> QED
    BY <1>2, <1>3, <1>4, <2>1 DEF At
<1>7. cycleFromStack(start) = [k \in 1..(n + 1) |-> stack[At(from, n, best, k)]]
  BY <1>5, <1>6
<1>8. \A j \in 1..n : stack[from + best - 1] <= stack[from + j - 1]
  BY <1>3, <1>4
<1>9. n \in Nat \ {0} /\ best \in Nat \ {0} /\ best <= n
  BY <1>3, <1>4
<1> QED
  <2>1. Rotation(cycleFromStack(start), start, from, n, best)
    BY <1>2, <1>3, <1>7, <1>8, <1>9 DEF Rotation
  <2> QED
    BY <1>2, <1>9, <2>1

\* It is a list of services.
LEMMA CycleTyped ==
  ASSUME TypeOK, NEW start, OnStack(start)
  PROVE  cycleFromStack(start) \in Seq(Services)
<1>1. PICK from \in 1..Len(stack), n \in Nat \ {0}, best \in Nat \ {0} :
        Rotation(cycleFromStack(start), start, from, n, best)
  BY CycleShape
<1>2. Len(stack) \in Nat /\ \A i \in 1..Len(stack) : stack[i] \in Services
  BY DEF TypeOK
<1>3. n = Len(stack) - from + 1 /\ best <= n
  BY <1>1 DEF Rotation
<1>4. ASSUME NEW k \in 1..(n + 1)
      PROVE  stack[At(from, n, best, k)] \in Services
  <2>1. At(from, n, best, k) \in from..Len(stack)
    BY <1>2, <1>3, Places
  <2> QED
    BY <1>2, <2>1
<1>5. cycleFromStack(start) = [k \in 1..(n + 1) |-> stack[At(from, n, best, k)]]
  BY <1>1 DEF Rotation
<1> QED
  BY <1>4, <1>5

-----------------------------------------------------------------------------
(* The variables keep their types.                                          *)

LEMMA InitTypeOK == Init => TypeOK
  BY GraphAssumption DEF Init, TypeOK, Calls

LEMMA DownstreamTypeOK ==
  ASSUME TypeOK, Downstream
  PROVE  TypeOK'
<1> USE DEF TypeOK, input, tree
<1>1. CASE StartImpact
  <2>1. call.from \in Services
    BY DEF Calls
  <2>2. <<call.from>> \in Seq(Services)
    BY <2>1
  <2>3. arcs' \in SUBSET Edges /\ rest' \in [Services -> SUBSET Services]
    BY <1>1, <2>1, Adjacency DEF StartImpact
  <2> QED
    BY <1>1, <2>1, <2>2, <2>3 DEF StartImpact
<1>2. CASE WalkLeaf
  BY <1>2, PopTop, FirstOf DEF WalkLeaf, Edges
<1>3. CASE WalkChild
  <2>1. Top(stack) \in Services /\ First(rest[Top(stack)]) \in Services
    BY <1>3, PopTop, FirstOf DEF WalkChild
  <2>2. rest' \in [Services -> SUBSET Services] /\ stack' \in Seq(Services)
    BY <1>3, <2>1, RestTyped DEF WalkChild
  <2>3. Len(stack) \in Nat
    OBVIOUS
  <2> QED
    BY <1>3, <2>1, <2>2, <2>3 DEF WalkChild, Edges
<1>4. CASE WalkReturn
  <2>1. stack' \in Seq(Services)
    BY <1>4, PopTop DEF WalkReturn
  <2> QED
    BY <1>4, <2>1 DEF WalkReturn
<1> QED
  BY <1>1, <1>2, <1>3, <1>4 DEF Downstream

LEMMA CyclesTypeOK ==
  ASSUME TypeOK, Cycles
  PROVE  TypeOK'
<1> USE DEF TypeOK, input, tree
<1>1. CASE StartCycles
  BY <1>1, Adjacency DEF StartCycles, Unlooped
<1>2. CASE VisitRoot
  <2>1. First(White) \in Services
    BY <1>2, FirstOf DEF VisitRoot, White
  <2>2. <<First(White)>> \in Seq(Services)
    BY <2>1
  <2>3. rest' \in [Services -> SUBSET Services]
    BY <1>2, <2>1, RestTyped DEF VisitRoot
  <2> QED
    BY <1>2, <2>1, <2>2, <2>3 DEF VisitRoot
<1>3. CASE VisitWhite
  <2>1. Top(stack) \in Services /\ First(rest[Top(stack)]) \in Services
    BY <1>3, PopTop, FirstOf DEF VisitWhite
  <2>2. rest' \in [Services -> SUBSET Services] /\ stack' \in Seq(Services)
    BY <1>3, <2>1, RestTyped DEF VisitWhite
  <2> QED
    BY <1>3, <2>1, <2>2 DEF VisitWhite
<1>4. CASE VisitGray
  <2>1. Top(stack) \in Services
    BY <1>4, PopTop DEF VisitGray
  <2>2. \A c \in cycles' : c \in Seq(Services)
    BY <1>4, CycleTyped DEF VisitGray
  <2> QED
    BY <1>4, <2>1, <2>2 DEF VisitGray
<1>5. CASE VisitBlack
  BY <1>5, PopTop DEF VisitBlack
<1>6. CASE VisitReturn
  BY <1>6, PopTop DEF VisitReturn
<1>7. CASE CyclesEnd
  BY <1>7 DEF CyclesEnd
<1> QED
  BY <1>1, <1>2, <1>3, <1>4, <1>5, <1>6, <1>7 DEF Cycles

\* The path in progress.
LEMMA HeadTyped ==
  ASSUME TypeOK, queue # <<>>
  PROVE  /\ Head(queue) \in Paths /\ Head(queue) \in Seq(Services)
         /\ Top(Head(queue)) \in Services
         /\ Tail(queue) \in Seq(Paths)
<1>1. Head(queue) \in Paths /\ Tail(queue) \in Seq(Paths)
  BY HeadTailProperties DEF TypeOK
<1> QED
  BY <1>1, PopTop DEF Paths

LEMMA ShortestTypeOK ==
  ASSUME TypeOK, Shortest
  PROVE  TypeOK'
<1> USE DEF TypeOK, input, tree
<1>1. CASE RefusePath
  BY <1>1 DEF RefusePath
<1>2. CASE StartPath
  <2>1. call.from \in Services
    BY DEF Calls
  <2>2. <<<<call.from>>>> \in Seq(Paths)
    BY <2>1 DEF Paths
  <2>3. rest' \in [Services -> SUBSET Services]
    BY <1>2, <2>1, Adjacency DEF StartPath
  <2> QED
    BY <1>2, <2>1, <2>2, <2>3 DEF StartPath
<1>3. CASE SearchSeen
  BY <1>3, HeadTyped DEF SearchSeen
<1>4. CASE SearchNew
  <2> DEFINE id == Top(Head(queue))
             next == First(rest[id])
  <2>1. id \in Services /\ next \in Services /\ Head(queue) \in Seq(Services)
    BY <1>4, HeadTyped, FirstOf DEF SearchNew
  <2>2. Append(Head(queue), next) \in Paths
    <3> HIDE DEF id, next
    <3>1. /\ Append(Head(queue), next) \in Seq(Services)
          /\ Append(Head(queue), next) # <<>>
      BY <2>1, AppendProperties
    <3> QED
      BY <3>1 DEF Paths
  <2>3. queue' \in Seq(Paths)
    BY <1>4, <2>2, AppendProperties DEF SearchNew
  <2>4. rest' \in [Services -> SUBSET Services]
    BY <1>4, <2>1, RestTyped DEF SearchNew
  <2> QED
    BY <1>4, <2>1, <2>3, <2>4 DEF SearchNew
<1>5. CASE SearchFound
  BY <1>5, HeadTyped DEF SearchFound, Calls
<1>6. CASE SearchDequeue
  BY <1>6, HeadTyped DEF SearchDequeue
<1>7. CASE ShortestAny
  <2>1. call.from \in Services
    BY DEF Calls
  <2>2. <<<<call.from>>>> \in Seq(Paths)
    BY <2>1 DEF Paths
  <2>3. rest' \in [Services -> SUBSET Services] /\ arcs' \in SUBSET Edges
    BY <1>7, <2>1, Adjacency DEF ShortestAny
  <2> QED
    BY <1>7, <2>1, <2>2, <2>3 DEF ShortestAny
<1>8. CASE NoPath
  BY <1>8 DEF NoPath
<1> QED
  BY <1>1, <1>2, <1>3, <1>4, <1>5, <1>6, <1>7, <1>8 DEF Shortest

LEMMA NextTypeOK == TypeOK /\ [Next]_vars => TypeOK'
<1> SUFFICES ASSUME TypeOK, [Next]_vars PROVE TypeOK'
  OBVIOUS
<1>1. CASE UNCHANGED vars
  BY <1>1 DEF TypeOK, vars
<1> QED
  BY <1>1, DownstreamTypeOK, CyclesTypeOK, ShortestTypeOK DEF Next

\* The search keeps to its types, whatever the graph.
THEOREM GraphTyped == Spec => []TypeOK
  BY InitTypeOK, NextTypeOK, PTL DEF Spec

-----------------------------------------------------------------------------
(* What a search has seen.                                                  *)

\* A neighbour of a node that was seen is seen, unless it is yet to be looked at.
Looked == \A x \in seen : uniqSorted(arcs, x) \subseteq seen \cup rest[x]

\* Only neighbours are looked at.
Listed == \A x \in Services : rest[x] \subseteq uniqSorted(arcs, x)

\* Nothing is seen that a closed set around the first service does not hold.
Least ==
  \A S \in SUBSET Services : call.from \in S /\ Closed(arcs, S) => seen \subseteq S

SeenInv == call.from \in seen /\ Looked /\ Listed /\ Least

\* The neighbour y of a node x that was seen is looked at, and it was seen.
LEMMA LookAtSeen ==
  ASSUME TypeOK, SeenInv, NEW x \in Services, NEW y \in seen,
         rest' = [rest EXCEPT ![x] = @ \ {y}],
         UNCHANGED <<arcs, seen, call>>
  PROVE  SeenInv'
  BY DEF TypeOK, SeenInv, Looked, Listed, Least

\* The neighbour y of a node x that was seen is looked at and entered.
LEMMA LookAtNew ==
  ASSUME TypeOK, SeenInv, NEW x \in seen, NEW y \in rest[x], y \notin seen,
         rest' = [rest EXCEPT ![x] = @ \ {y}, ![y] = uniqSorted(arcs, y)],
         seen' = seen \cup {y},
         UNCHANGED <<arcs, call>>
  PROVE  SeenInv'
<1>1. x \in Services /\ y \in Services /\ x # y
  BY DEF TypeOK
<1>2. /\ rest'[y] = uniqSorted(arcs, y)
      /\ \A z \in Services : z # y => rest[z] \subseteq rest'[z] \cup {y}
      /\ \A z \in Services : z # y => rest'[z] \subseteq rest[z]
  BY <1>1 DEF TypeOK
<1>3. <<x, y>> \in arcs
  BY <1>1 DEF SeenInv, Listed, uniqSorted
<1>4. Least'
  BY <1>3 DEF SeenInv, Least, Closed
<1>5. Looked'
  <2> SUFFICES ASSUME NEW z \in seen'
               PROVE  uniqSorted(arcs, z) \subseteq seen' \cup rest'[z]
    BY DEF Looked
  <2>1. z \in Services
    BY <1>1 DEF TypeOK
  <2> QED
    BY <1>2, <2>1 DEF SeenInv, Looked
<1> QED
  BY <1>1, <1>2, <1>4, <1>5 DEF SeenInv, Listed

\* A search starts.
LEMMA StartSeen ==
  ASSUME TypeOK, call.from \in Services, UNCHANGED call,
         seen' = {call.from}, rest' = Entered(arcs', call.from)
  PROVE  SeenInv'
  BY DEF TypeOK, SeenInv, Looked, Listed, Least, Entered, uniqSorted

\* When nothing is left to look at, what was seen is what can be reached.
LEMMA SeenIsReach ==
  ASSUME TypeOK, SeenInv, \A x \in Services : rest[x] = {}
  PROVE  seen = Reach(arcs, call.from) /\ Closed(arcs, seen)
<1>1. Closed(arcs, seen)
  BY DEF TypeOK, SeenInv, Looked, Closed, uniqSorted, Edges
<1> QED
  BY <1>1 DEF TypeOK, SeenInv, Least, Reach

-----------------------------------------------------------------------------
(* impact.Downstream.                                                       *)

\* The command decides which search runs.
CallOfPc ==
  /\ pc = "walk" => call.cmd = "impact"
  /\ pc = "visit" => call.cmd = "cycles"
  /\ pc = "search" => call.cmd = "path" /\ call.from # call.to

LEMMA CallNext == CallOfPc /\ [Next]_vars => CallOfPc'
  BY DEF CallOfPc, Next, Downstream, StartImpact, WalkLeaf, WalkChild,
         WalkReturn, Cycles, StartCycles, VisitRoot, VisitWhite, VisitGray,
         VisitBlack, VisitReturn, CyclesEnd, Shortest, RefusePath, StartPath,
         SearchSeen, SearchNew, SearchFound, SearchDequeue, ShortestAny, NoPath,
         input, vars

\* Every edge of a node that was seen is drawn once it has been looked at.
TreeInv ==
  \A x, y \in Services :
    <<x, y>> \in drawn <=> <<x, y>> \in arcs /\ x \in seen /\ y \notin rest[x]

ImpactInv ==
  /\ pc = "start" \/ call.cmd # "impact" => affected = {} /\ count = 0
  /\ pc = "start" => drawn = {}
  /\ pc # "start" /\ call.cmd = "impact" =>
       /\ arcs = Reversed(Unlooped(edges))
       /\ SeenInv /\ TreeInv
       /\ affected = seen \ {call.from} /\ count = Cardinality(affected)
       /\ \A i \in 1..Len(stack) : stack[i] \in seen
       /\ \A x \in Services : rest[x] # {} => OnStack(x)
       /\ pc = "done" => stack = <<>>

DownInv == TypeOK /\ CallOfPc /\ ImpactInv

LEMMA DownInit == Init => DownInv
  BY InitTypeOK DEF Init, DownInv, CallOfPc, ImpactInv

LEMMA StartImpactInv ==
  ASSUME DownInv, StartImpact
  PROVE  CallOfPc' /\ ImpactInv'
<1>1. TypeOK /\ call.from \in Services
  BY DEF DownInv, TypeOK, Calls
<1>2. SeenInv'
  BY <1>1, StartSeen DEF StartImpact, input
<1>3. stack' = <<call.from>> /\ Len(stack') = 1 /\ stack'[1] = call.from
  BY DEF StartImpact
<1>4. /\ \A i \in 1..Len(stack') : stack'[i] \in seen'
      /\ \A x \in Services : rest'[x] # {} => OnStack(x)'
  BY <1>1, <1>3 DEF StartImpact, Entered, OnStack
<1>5. affected' = {} /\ count' = 0 /\ seen' = {call.from} /\ drawn' = {}
  BY DEF DownInv, ImpactInv, StartImpact, tree
<1>6. count' = Cardinality(affected') /\ affected' = seen' \ {call.from}
  BY <1>5, FS_EmptySet
<1>7. TreeInv'
  BY <1>1, <1>5 DEF StartImpact, TreeInv, Entered, uniqSorted, TypeOK, Edges, Reversed, Unlooped
<1> QED
  BY <1>2, <1>3, <1>4, <1>6, <1>7 DEF CallOfPc, ImpactInv, StartImpact, input

LEMMA WalkLeafInv ==
  ASSUME DownInv, WalkLeaf
  PROVE  CallOfPc' /\ ImpactInv'
<1> DEFINE id == Top(stack)
           child == First(rest[id])
<1>1. TypeOK /\ call.cmd = "impact" /\ pc = "walk"
  BY DEF DownInv, WalkLeaf, CallOfPc
<1>2. id \in Services /\ id \in seen /\ child \in rest[id] /\ child \in Services
  BY <1>1, PopTop, FirstOf DEF DownInv, ImpactInv, WalkLeaf, TypeOK, Top
<1>3. SeenInv'
  BY <1>1, <1>2, LookAtSeen DEF DownInv, ImpactInv, WalkLeaf, input
<1>4. <<id, child>> \in arcs
  BY <1>1, <1>2 DEF DownInv, ImpactInv, SeenInv, Listed, uniqSorted
<1>5. TreeInv'
  <2> HIDE DEF id, child
  <2>1. /\ drawn' = drawn \cup {<<id, child>>} /\ UNCHANGED <<arcs, seen>>
        /\ rest' = [rest EXCEPT ![id] = @ \ {child}]
    BY DEF WalkLeaf, id, child
  <2>2. TreeInv
    BY <1>1 DEF DownInv, ImpactInv
  <2> QED
    BY <1>1, <1>2, <1>4, <2>1, <2>2 DEF TreeInv, TypeOK, Edges
<1>6. \A x \in Services : rest'[x] # {} => OnStack(x)'
  BY <1>1, <1>2 DEF DownInv, ImpactInv, WalkLeaf, OnStack, TypeOK
<1> QED
  BY <1>1, <1>3, <1>5, <1>6 DEF DownInv, CallOfPc, ImpactInv, WalkLeaf, input

LEMMA WalkChildInv ==
  ASSUME DownInv, WalkChild
  PROVE  CallOfPc' /\ ImpactInv'
<1> DEFINE id == Top(stack)
           child == First(rest[id])
<1>1. TypeOK /\ call.cmd = "impact" /\ pc = "walk"
  BY DEF DownInv, WalkChild, CallOfPc
<1>2. id \in Services /\ id \in seen /\ child \in rest[id] /\ child \in Services
  <2>1. /\ stack \in Seq(Services) /\ stack # <<>> /\ rest[id] # {}
        /\ rest \in [Services -> SUBSET Services]
    BY <1>1 DEF WalkChild, TypeOK
  <2>2. id \in Services /\ Len(stack) \in Nat \ {0}
    BY <2>1, PopTop
  <2>3. id \in seen
    BY <1>1, <2>2 DEF DownInv, ImpactInv, Top
  <2> QED
    BY <2>1, <2>2, <2>3, FirstOf
<1> HIDE DEF id, child
<1>a. /\ child \notin seen /\ seen' = seen \cup {child}
      /\ rest' = [rest EXCEPT ![id] = @ \ {child}, ![child] = uniqSorted(arcs, child)]
      /\ drawn' = drawn \cup {<<id, child>>}
      /\ affected' = affected \cup {child} /\ count' = count + 1
      /\ stack' = Append(stack, child)
      /\ UNCHANGED <<edges, call, arcs, pc>>
  BY DEF WalkChild, id, child, input
<1>3. SeenInv'
  BY <1>1, <1>2, <1>a, LookAtNew DEF DownInv, ImpactInv
<1>4. /\ <<id, child>> \in arcs
      /\ \A y \in Services : <<child, y>> \in arcs => y \in uniqSorted(arcs, child)
  BY <1>1, <1>2 DEF DownInv, ImpactInv, SeenInv, Listed, uniqSorted, TypeOK, Edges
<1>5. TreeInv'
  <2>2. TreeInv
    BY <1>1 DEF DownInv, ImpactInv
  <2>3. id # child
    BY <1>2, <1>a
  <2> QED
    BY <1>1, <1>2, <1>4, <1>a, <2>2, <2>3 DEF TreeInv, TypeOK, Edges
<1>6. /\ stack \in Seq(Services) /\ Len(stack') = Len(stack) + 1
      /\ Len(stack) \in Nat /\ stack'[Len(stack) + 1] = child
      /\ \A i \in 1..Len(stack) : stack'[i] = stack[i]
  BY <1>1, <1>2, <1>a, AppendProperties DEF TypeOK
<1>7. \A i \in 1..Len(stack') : stack'[i] \in seen'
  BY <1>1, <1>6, <1>a DEF DownInv, ImpactInv
<1>8. \A x \in Services : rest'[x] # {} => OnStack(x)'
  <2> SUFFICES ASSUME NEW x \in Services, rest'[x] # {} PROVE OnStack(x)'
    OBVIOUS
  <2>1. CASE x = child
    BY <1>6, <2>1 DEF OnStack
  <2>2. CASE x # child
    <3>1. rest[x] # {}
      BY <1>1, <1>2, <1>a, <2>2 DEF TypeOK
    <3> QED
      BY <1>1, <1>6, <3>1 DEF DownInv, ImpactInv, OnStack
  <2> QED
    BY <2>1, <2>2
<1>9. affected' = seen' \ {call.from} /\ count' = Cardinality(affected')
  <2>1. affected = seen \ {call.from} /\ count = Cardinality(affected) /\ call.from \in seen
    BY <1>1 DEF DownInv, ImpactInv, SeenInv
  <2>2. IsFiniteSet(affected)
    BY <1>1, FS_Subset, GraphAssumption DEF TypeOK
  <2>3. Cardinality(affected \cup {child}) = Cardinality(affected) + 1
    BY <1>a, <2>1, <2>2, FS_AddElement
  <2> QED
    BY <1>a, <2>1, <2>3
<1> QED
  BY <1>1, <1>3, <1>5, <1>7, <1>8, <1>9, <1>a DEF DownInv, CallOfPc, ImpactInv

LEMMA WalkReturnInv ==
  ASSUME DownInv, WalkReturn
  PROVE  CallOfPc' /\ ImpactInv'
<1>1. TypeOK /\ call.cmd = "impact" /\ pc = "walk" /\ stack # <<>> /\ rest[Top(stack)] = {}
  BY DEF DownInv, WalkReturn, CallOfPc
<1>2. /\ Len(stack) \in Nat \ {0} /\ Len(stack') = Len(stack) - 1
      /\ \A i \in 1..(Len(stack) - 1) : stack'[i] = stack[i]
      /\ stack' \in Seq(Services)
  BY <1>1, PopTop DEF WalkReturn, TypeOK
<1>3. \A i \in 1..Len(stack') : stack'[i] \in seen'
  BY <1>1, <1>2 DEF DownInv, ImpactInv, WalkReturn
<1>4. \A x \in Services : rest'[x] # {} => OnStack(x)'
  <2> SUFFICES ASSUME NEW x \in Services, rest[x] # {} PROVE OnStack(x)'
    BY DEF WalkReturn
  <2>1. PICK i \in 1..Len(stack) : stack[i] = x
    BY <1>1 DEF DownInv, ImpactInv, OnStack
  <2>2. i # Len(stack)
    BY <1>1, <2>1 DEF Top
  <2> QED
    BY <1>2, <2>1, <2>2 DEF OnStack
<1>5. pc' = "done" => stack' = <<>>
  BY <1>1, <1>2, EmptySeq DEF WalkReturn
<1>6. SeenInv' /\ TreeInv'
  BY <1>1 DEF DownInv, ImpactInv, WalkReturn, SeenInv, Looked, Listed, Least, TreeInv, input, tree
<1> QED
  BY <1>1, <1>3, <1>4, <1>5, <1>6 DEF DownInv, CallOfPc, ImpactInv, WalkReturn, input, tree

LEMMA DownNext == DownInv /\ [Next]_vars => DownInv'
<1> SUFFICES ASSUME DownInv, [Next]_vars PROVE CallOfPc' /\ ImpactInv'
  BY NextTypeOK DEF DownInv
<1>1. CASE Downstream
  BY <1>1, StartImpactInv, WalkLeafInv, WalkChildInv, WalkReturnInv DEF Downstream
<1>2. CASE Cycles
  BY <1>2 DEF Cycles, StartCycles, VisitRoot, VisitWhite, VisitGray, VisitBlack,
              VisitReturn, CyclesEnd, DownInv, CallOfPc, ImpactInv, input, tree
<1>3. CASE Shortest
  BY <1>3 DEF Shortest, RefusePath, StartPath, SearchSeen, SearchNew, SearchFound,
              SearchDequeue, ShortestAny, NoPath, DownInv, CallOfPc, ImpactInv, input, tree
<1>4. CASE UNCHANGED vars
  BY <1>4 DEF vars, DownInv, CallOfPc, ImpactInv, SeenInv, Looked, Listed, Least,
              TreeInv, OnStack
<1> QED
  BY <1>1, <1>2, <1>3, <1>4 DEF Next

LEMMA DownAlways == Spec => []DownInv
  BY DownInit, DownNext, PTL DEF Spec

\* What loops an edge set has does not matter to what can be reached.
LEMMA LoopsReachNothing ==
  ASSUME NEW A \in SUBSET Edges, NEW S
  PROVE  Closed(Reversed(Unlooped(A)), S) <=> Closed(Reversed(A), S)
  BY DEF Closed, Reversed, Unlooped, Edges

\* When the walk is over nothing is left to look at.
LEMMA NothingLeft ==
  ASSUME DownInv, call.cmd = "impact", pc = "done"
  PROVE  \A x \in Services : rest[x] = {}
  BY DEF DownInv, ImpactInv, OnStack

LEMMA DownAffected == DownInv => AffectedIsReach
<1> SUFFICES ASSUME DownInv, call.cmd = "impact", pc = "done"
             PROVE  affected = Reach(Reversed(edges), call.from) \ {call.from}
  BY DEF AffectedIsReach
<1>1. seen = Reach(Reversed(Unlooped(edges)), call.from)
  BY NothingLeft, SeenIsReach DEF DownInv, ImpactInv
<1>2. Reach(Reversed(Unlooped(edges)), call.from) = Reach(Reversed(edges), call.from)
  BY LoopsReachNothing DEF Reach, DownInv, TypeOK
<1> QED
  BY <1>1, <1>2 DEF DownInv, ImpactInv

LEMMA DownCounted == DownInv => CountedOnce
<1> SUFFICES ASSUME DownInv PROVE CountedOnce
  OBVIOUS
<1>1. CASE pc = "start" \/ call.cmd # "impact"
  BY <1>1, FS_EmptySet DEF DownInv, ImpactInv, CountedOnce
<1>2. CASE pc # "start" /\ call.cmd = "impact"
  BY <1>2 DEF DownInv, ImpactInv, CountedOnce
<1> QED
  BY <1>1, <1>2

LEMMA DownDrawn == DownInv => TreeIsTheGraph
<1> SUFFICES ASSUME DownInv, call.cmd = "impact", pc = "done"
             PROVE  drawn = {a \in Reversed(Unlooped(edges)) :
                               a[1] \in affected \cup {call.from}}
  BY DEF TreeIsTheGraph
<1>1. \A x \in Services : rest[x] = {}
  BY NothingLeft
<1>2. affected \cup {call.from} = seen
  BY DEF DownInv, ImpactInv, SeenInv
<1> QED
  BY <1>1, <1>2 DEF DownInv, ImpactInv, TreeInv, TypeOK, Edges

\* What `opsgraph impact` reports is what depends on the failed service, over
\* any number of steps and on any graph.
THEOREM ImpactIsRight == Spec => []AffectedIsReach
  BY DownAlways, DownAffected, PTL

\* No service is counted twice, and the failed one is not counted.
THEOREM CountedOnceHolds == Spec => []CountedOnce
  BY DownAlways, DownCounted, PTL

\* The tree has every edge among the services hit.
THEOREM TreeIsComplete == Spec => []TreeIsTheGraph
  BY DownAlways, DownDrawn, PTL

-----------------------------------------------------------------------------
(* pathfind.ShortestAny.                                                    *)

\* The edges of the direction being tried.
Direction == IF dir = "depends_on" THEN edges ELSE Reversed(edges)

\* A queued path leads from the first service along the edges.
Leads(w) == w[1] = call.from /\ IsWalk(Direction, w)

SearchInv ==
  /\ pc = "start" => dir = "depends_on" /\ answer = <<>>
  /\ dir = "dependents" => call.to \notin Reach(edges, call.from)
  /\ pc = "search" =>
       /\ arcs = Direction /\ SeenInv /\ call.to \notin seen /\ answer = <<>>
       /\ \A i \in 1..Len(queue) : Leads(queue[i])
       /\ \A x \in Services :
            rest[x] # {} => x \in seen /\ \E i \in 1..Len(queue) : Top(queue[i]) = x

\* The answer is a path, and the other direction was tried for a reason.
PathIsReal ==
  answer # <<>> =>
    /\ Leads(answer) /\ Top(answer) = call.to
    /\ dir = "dependents" => call.to \notin Reach(edges, call.from)

PathInv == TypeOK /\ CallOfPc /\ SearchInv /\ PathIsReal /\ NoPathIsNone

LEMMA PathInit == Init => PathInv
  BY InitTypeOK DEF Init, PathInv, CallOfPc, SearchInv, PathIsReal, NoPathIsNone, Leads

\* A path with one more edge.
LEMMA LongerPath ==
  ASSUME NEW w \in Paths, NEW y \in Services, Leads(w), <<Top(w), y>> \in Direction
  PROVE  /\ Append(w, y) \in Paths /\ Top(Append(w, y)) = y
         /\ Append(w, y)[1] = call.from /\ IsWalk(Direction, Append(w, y))
<1>1. w \in Seq(Services) /\ Len(w) \in Nat \ {0}
  BY EmptySeq DEF Paths
<1>2. /\ Append(w, y) \in Seq(Services) /\ Append(w, y) # <<>>
      /\ Len(Append(w, y)) = Len(w) + 1
      /\ \A i \in 1..Len(w) : Append(w, y)[i] = w[i]
      /\ Append(w, y)[Len(w) + 1] = y
  BY <1>1, AppendProperties
<1>3. IsWalk(Direction, Append(w, y))
  <2> SUFFICES ASSUME NEW i \in 1..Len(w)
               PROVE  <<Append(w, y)[i], Append(w, y)[i + 1]>> \in Direction
    BY <1>1, <1>2 DEF IsWalk
  <2>1. CASE i = Len(w)
    BY <1>1, <1>2, <2>1 DEF Top
  <2>2. CASE i # Len(w)
    <3>1. i \in 1..(Len(w) - 1) /\ i + 1 \in 1..Len(w)
      BY <1>1, <2>2
    <3> QED
      BY <1>2, <3>1 DEF Leads, IsWalk
  <2> QED
    BY <2>1, <2>2
<1> QED
  BY <1>1, <1>2, <1>3 DEF Paths, Leads, Top

\* A search starts with the path of one node.
LEMMA FirstPath ==
  ASSUME call.from \in Services, queue' = <<<<call.from>>>>, UNCHANGED call,
         rest' = Entered(arcs', call.from)
  PROVE  /\ \A i \in 1..Len(queue') : Leads(queue[i])'
         /\ \A x \in Services :
              rest'[x] # {} => x = call.from /\ \E i \in 1..Len(queue') : Top(queue'[i]) = x
<1>1. Len(queue') = 1 /\ queue'[1] = <<call.from>> /\ Top(queue'[1]) = call.from
  BY DEF Top
<1>2. Leads(queue[1])'
  BY <1>1 DEF Leads, IsWalk
<1>3. \A x \in Services : rest'[x] # {} => x = call.from
  BY DEF Entered
<1> QED
  BY <1>1, <1>2, <1>3

\* What can be reached in one direction can reach in the other.
LEMMA ReachBack ==
  ASSUME NEW A \in SUBSET Edges, NEW x \in Services, NEW y \in Services,
         y \notin Reach(Reversed(A), x)
  PROVE  x \notin Reach(A, y)
<1>1. PICK S \in SUBSET Services : x \in S /\ Closed(Reversed(A), S) /\ y \notin S
  BY DEF Reach
<1>2. Closed(A, Services \ S)
  <2> SUFFICES ASSUME NEW a \in A, a[1] \in Services \ S PROVE a[2] \in Services \ S
    BY DEF Closed
  <2>1. <<a[2], a[1]>> \in Reversed(A) /\ a[2] \in Services
    BY DEF Reversed, Edges
  <2>2. a[2] \in S => a[1] \in S
    BY <1>1, <2>1 DEF Closed
  <2> QED
    BY <2>1, <2>2
<1> QED
  BY <1>1, <1>2 DEF Reach

\* A search whose queue is empty has seen all that can be reached.
LEMMA QueueEmpty ==
  ASSUME PathInv, pc = "search", queue = <<>>
  PROVE  call.to \notin Reach(Direction, call.from)
<1>1. \A x \in Services : rest[x] = {}
  BY DEF PathInv, SearchInv
<1> QED
  BY <1>1, SeenIsReach DEF PathInv, SearchInv

LEMMA StartPathInv ==
  ASSUME PathInv, StartPath
  PROVE  SearchInv' /\ PathIsReal' /\ NoPathIsNone'
<1>1. TypeOK /\ call.from \in Services /\ dir = "depends_on" /\ answer = <<>>
  BY DEF PathInv, StartPath, TypeOK, Calls, SearchInv
<1>2. SeenInv'
  BY <1>1, StartSeen DEF StartPath, input
<1>3. /\ \A i \in 1..Len(queue') : Leads(queue[i])'
      /\ \A x \in Services :
            rest'[x] # {} => x \in seen' /\ \E i \in 1..Len(queue') : Top(queue'[i]) = x
  BY <1>1, FirstPath DEF StartPath, input
<1> QED
  BY <1>1, <1>2, <1>3 DEF StartPath, SearchInv, PathIsReal, NoPathIsNone, Direction, input

LEMMA ShortestAnyInv ==
  ASSUME PathInv, ShortestAny
  PROVE  SearchInv' /\ PathIsReal' /\ NoPathIsNone'
<1>1. TypeOK /\ call.from \in Services /\ answer = <<>> /\ call.from # call.to
  BY DEF PathInv, ShortestAny, TypeOK, Calls, SearchInv, CallOfPc
<1>2. SeenInv'
  BY <1>1, StartSeen DEF ShortestAny, input
<1>3. /\ \A i \in 1..Len(queue') : Leads(queue[i])'
      /\ \A x \in Services :
            rest'[x] # {} => x \in seen' /\ \E i \in 1..Len(queue') : Top(queue'[i]) = x
  BY <1>1, FirstPath DEF ShortestAny, input
<1>4. call.to \notin Reach(edges, call.from)
  BY QueueEmpty DEF ShortestAny, Direction
<1> QED
  BY <1>1, <1>2, <1>3, <1>4
     DEF ShortestAny, SearchInv, PathIsReal, NoPathIsNone, Direction, input

LEMMA SearchSeenInv ==
  ASSUME PathInv, SearchSeen
  PROVE  SearchInv' /\ PathIsReal' /\ NoPathIsNone'
<1> DEFINE id == Top(Head(queue))
           next == First(rest[id])
<1>1. TypeOK /\ pc = "search" /\ queue # <<>> /\ rest[id] # {} /\ next \in seen
  BY DEF PathInv, SearchSeen
<1>2. id \in Services
  BY <1>1, HeadTyped
<1>3. SeenInv'
  BY <1>1, <1>2, LookAtSeen DEF PathInv, SearchInv, SearchSeen, input
<1>4. \A x \in Services : rest'[x] # {} => rest[x] # {}
  BY <1>1, <1>2 DEF SearchSeen, TypeOK
<1> QED
  BY <1>1, <1>3, <1>4
     DEF PathInv, SearchSeen, SearchInv, PathIsReal, NoPathIsNone, Direction, Leads, input

LEMMA SearchNewInv ==
  ASSUME PathInv, SearchNew
  PROVE  SearchInv' /\ PathIsReal' /\ NoPathIsNone'
<1> DEFINE id == Top(Head(queue))
           next == First(rest[id])
<1>1. TypeOK /\ pc = "search" /\ queue # <<>> /\ rest[id] # {}
  BY DEF PathInv, SearchNew
<1>2. id \in Services /\ next \in rest[id] /\ next \in Services /\ Head(queue) \in Paths
  BY <1>1, HeadTyped, FirstOf DEF TypeOK
<1>3. id \in seen
  BY <1>1, <1>2 DEF PathInv, SearchInv, SeenInv, Looked, Listed
<1>4. Leads(Head(queue)) /\ queue \in Seq(Paths) /\ Len(queue) \in Nat \ {0}
  BY <1>1, EmptySeq DEF PathInv, SearchInv, TypeOK
<1>5. <<id, next>> \in Direction /\ arcs = Direction
  BY <1>1, <1>2 DEF PathInv, SearchInv, SeenInv, Listed, uniqSorted
<1> DEFINE new == Append(Head(queue), next)
<1>6. new \in Paths /\ Top(new) = next /\ Leads(new)
  BY <1>2, <1>4, <1>5, LongerPath DEF Leads
<1>7. /\ next \notin seen /\ next # call.to /\ seen' = seen \cup {next}
      /\ rest' = [rest EXCEPT ![id] = @ \ {next}, ![next] = uniqSorted(arcs, next)]
      /\ queue' = Append(queue, new)
      /\ UNCHANGED <<edges, call, arcs, pc, dir, answer>>
  BY DEF SearchNew, input
<1> HIDE DEF id, next, new
<1>8. SeenInv'
  BY <1>1, <1>2, <1>3, <1>7, LookAtNew DEF PathInv, SearchInv
<1>9. /\ Len(queue') = Len(queue) + 1 /\ queue'[Len(queue) + 1] = new
      /\ \A i \in 1..Len(queue) : queue'[i] = queue[i]
  BY <1>4, <1>6, <1>7, AppendProperties
<1>10. \A i \in 1..Len(queue') : Leads(queue[i])'
  BY <1>1, <1>4, <1>6, <1>7, <1>9 DEF PathInv, SearchInv, Leads, Direction
<1>11. \A x \in Services :
         rest'[x] # {} => x \in seen' /\ \E i \in 1..Len(queue') : Top(queue'[i]) = x
  <2> SUFFICES ASSUME NEW x \in Services, rest'[x] # {}
               PROVE  x \in seen' /\ \E i \in 1..Len(queue') : Top(queue'[i]) = x
    OBVIOUS
  <2>1. CASE x = next
    BY <1>4, <1>6, <1>7, <1>9, <2>1
  <2>2. CASE x # next
    <3>1. rest[x] # {}
      BY <1>1, <1>2, <1>7, <2>2 DEF TypeOK
    <3>2. x \in seen /\ \E i \in 1..Len(queue) : Top(queue[i]) = x
      BY <1>1, <3>1 DEF PathInv, SearchInv
    <3> QED
      BY <1>4, <1>7, <1>9, <3>2
  <2> QED
    BY <2>1, <2>2
<1> QED
  BY <1>1, <1>7, <1>8, <1>10, <1>11
     DEF PathInv, SearchInv, PathIsReal, NoPathIsNone, Direction, Leads

LEMMA SearchFoundInv ==
  ASSUME PathInv, SearchFound
  PROVE  SearchInv' /\ PathIsReal' /\ NoPathIsNone'
<1> DEFINE id == Top(Head(queue))
<1>1. TypeOK /\ pc = "search" /\ queue # <<>> /\ rest[id] # {} /\ First(rest[id]) = call.to
  BY DEF PathInv, SearchFound
<1>2. queue \in Seq(Paths) /\ call.to \in Services /\ rest \in [Services -> SUBSET Services]
  BY <1>1 DEF TypeOK, Calls
<1>3. id \in Services /\ Head(queue) \in Paths
  BY <1>1, <1>2, HeadTyped
<1>4. call.to \in rest[id]
  BY <1>1, <1>2, <1>3, FirstOf
<1>5. Leads(Head(queue))
  BY <1>1, EmptySeq DEF PathInv, SearchInv, TypeOK
<1>6. <<id, call.to>> \in Direction
  BY <1>1, <1>3, <1>4 DEF PathInv, SearchInv, SeenInv, Listed, uniqSorted
<1>7. /\ answer' \in Paths /\ Top(answer') = call.to
      /\ answer'[1] = call.from /\ IsWalk(Direction, answer')
  BY <1>2, <1>3, <1>5, <1>6, LongerPath DEF SearchFound
<1> QED
  BY <1>1, <1>7
     DEF PathInv, SearchFound, SearchInv, PathIsReal, NoPathIsNone, Direction, Leads,
         input, Paths

LEMMA SearchDequeueInv ==
  ASSUME PathInv, SearchDequeue
  PROVE  SearchInv' /\ PathIsReal' /\ NoPathIsNone'
<1>1. /\ TypeOK /\ pc = "search" /\ queue # <<>> /\ rest[Top(Head(queue))] = {}
      /\ queue \in Seq(Paths) /\ queue' = Tail(queue)
  BY DEF PathInv, SearchDequeue, TypeOK
<1>2. /\ Len(queue) \in Nat \ {0} /\ Len(queue') = Len(queue) - 1
      /\ \A i \in 1..Len(queue') : queue'[i] = queue[i + 1]
  BY <1>1, EmptySeq, HeadTailProperties
<1>3. \A i \in 1..Len(queue') : Leads(queue[i])'
  BY <1>1, <1>2 DEF PathInv, SearchDequeue, SearchInv, Leads, Direction, input
<1>4. \A x \in Services :
        rest[x] # {} => \E i \in 1..Len(queue') : Top(queue'[i]) = x
  <2> SUFFICES ASSUME NEW x \in Services, rest[x] # {}
               PROVE  \E i \in 1..Len(queue') : Top(queue'[i]) = x
    OBVIOUS
  <2>1. PICK i \in 1..Len(queue) : Top(queue[i]) = x
    BY <1>1 DEF PathInv, SearchInv
  <2>2. i # 1
    BY <1>1, <2>1
  <2>3. i - 1 \in 1..Len(queue') /\ queue'[i - 1] = queue[i]
    BY <1>2, <2>1, <2>2
  <2> QED
    BY <2>1, <2>3
<1>5. SeenInv'
  BY <1>1 DEF PathInv, SearchDequeue, SearchInv, SeenInv, Looked, Listed, Least, input
<1> QED
  BY <1>1, <1>3, <1>4, <1>5
     DEF PathInv, SearchDequeue, SearchInv, PathIsReal, NoPathIsNone, Direction, Leads,
         input

LEMMA NoPathInv ==
  ASSUME PathInv, NoPath
  PROVE  SearchInv' /\ PathIsReal' /\ NoPathIsNone'
<1>1. /\ TypeOK /\ call.from \in Services /\ call.to \in Services
      /\ dir = "dependents" /\ pc = "search" /\ answer = <<>>
  BY DEF PathInv, NoPath, TypeOK, Calls, SearchInv
<1>2. call.to \notin Reach(Reversed(edges), call.from)
  BY <1>1, QueueEmpty DEF NoPath, Direction
<1>3. call.from \notin Reach(edges, call.to)
  BY <1>1, <1>2, ReachBack DEF TypeOK
<1>4. call.to \notin Reach(edges, call.from)
  BY <1>1 DEF PathInv, SearchInv
<1> QED
  BY <1>1, <1>3, <1>4 DEF NoPath, SearchInv, PathIsReal, NoPathIsNone, input

LEMMA PathNext == PathInv /\ [Next]_vars => PathInv'
<1> SUFFICES ASSUME PathInv, [Next]_vars
             PROVE  SearchInv' /\ PathIsReal' /\ NoPathIsNone' /\ CallOfPc'
  BY NextTypeOK DEF PathInv
<1>1. CallOfPc'
  BY CallNext DEF PathInv
<1>2. CASE Downstream
  BY <1>1, <1>2 DEF Downstream, StartImpact, WalkLeaf, WalkChild, WalkReturn, PathInv,
              CallOfPc, SearchInv, PathIsReal, NoPathIsNone, Direction, Leads, input
<1>3. CASE Cycles
  BY <1>1, <1>3 DEF Cycles, StartCycles, VisitRoot, VisitWhite, VisitGray, VisitBlack,
              VisitReturn, CyclesEnd, PathInv, CallOfPc, SearchInv, PathIsReal,
              NoPathIsNone, Direction, Leads, input
<1>4. CASE RefusePath
  BY <1>1, <1>4 DEF RefusePath, PathInv, SearchInv, PathIsReal, NoPathIsNone, Direction,
              Leads, input
<1>5. CASE Shortest
  BY <1>1, <1>4, <1>5, StartPathInv, SearchSeenInv, SearchNewInv, SearchFoundInv,
     SearchDequeueInv, ShortestAnyInv, NoPathInv DEF Shortest
<1>6. CASE UNCHANGED vars
  BY <1>1, <1>6 DEF vars, PathInv, SearchInv, PathIsReal, NoPathIsNone, Direction, Leads,
              SeenInv, Looked, Listed, Least
<1> QED
  BY <1>1, <1>2, <1>3, <1>5, <1>6 DEF Next

LEMMA PathAlways == Spec => []PathInv
  BY PathInit, PathNext, PTL DEF Spec

\* A path that is reported is one of the graph between the two services, and
\* the reverse direction is used only when there is none in the first.
THEOREM PathIsRealHolds == Spec => []PathIsReal
<1>1. PathInv => PathIsReal
  BY DEF PathInv
<1> QED
  BY <1>1, PathAlways, PTL

\* That there is no path is said only when there is none, either way.
THEOREM NoPathIsRight == Spec => []NoPathIsNone
<1>1. PathInv => NoPathIsNone
  BY DEF PathInv
<1> QED
  BY <1>1, PathAlways, PTL

-----------------------------------------------------------------------------
(* The path is a shortest one. Every node that was seen has a level, one   *)
(* less than the nodes of the path it was queued with; the queue holds two *)
(* levels at most, the lower one first; and a neighbour that was looked at *)
(* is at most one level up. A walk then meets no node above the level of   *)
(* its length, and the target is not seen before the levels below are done.*)

Levels(lev) ==
  /\ lev \in [Services -> Nat] /\ lev[call.from] = 0
  /\ \A i \in 1..Len(queue) : Top(queue[i]) \in seen /\ lev[Top(queue[i])] = Len(queue[i]) - 1
  /\ \A i, j \in 1..Len(queue) :
       /\ i <= j => Len(queue[i]) <= Len(queue[j])
       /\ Len(queue[j]) <= Len(queue[1]) + 1
  /\ queue # <<>> => \A x \in seen : lev[x] <= Len(queue[1])
  /\ \A x, y \in Services : x \in seen /\ <<x, y>> \in arcs /\ y \notin rest[x] =>
       y \in seen /\ lev[y] <= lev[x] + 1

NoneShorter ==
  answer # <<>> =>
    \A n \in 1..(Len(answer) - 1) : Walks(Direction, call.from, call.to, n) = {}

LevelInv ==
  /\ PathInv /\ NoneShorter
  /\ pc = "search" => \E lev : Levels(lev)

LEMMA LevelInit == Init => LevelInv
  BY PathInit DEF Init, LevelInv, NoneShorter

\* The paths in the queue.
LEMMA QueueTyped ==
  ASSUME TypeOK
  PROVE  /\ Len(queue) \in Nat /\ queue \in Seq(Paths)
         /\ \A i \in 1..Len(queue) : queue[i] \in Paths /\ Len(queue[i]) \in Nat \ {0}
         /\ queue # <<>> => Len(queue) \in Nat \ {0} /\ queue[1] = Head(queue)
<1>1. queue \in Seq(Paths) /\ Len(queue) \in Nat
  BY DEF TypeOK
<1>2. \A i \in 1..Len(queue) : queue[i] \in Paths
  BY <1>1, ElementOfSeq
<1>3. \A w \in Paths : Len(w) \in Nat \ {0}
  BY EmptySeq DEF Paths
<1>4. queue # <<>> => Len(queue) \in Nat \ {0} /\ queue[1] = Head(queue)
  BY <1>1, EmptySeq
<1> QED
  BY <1>1, <1>2, <1>3, <1>4

\* A node with a neighbour yet to be looked at is of the level of the path in
\* progress or above.
LEMMA OpenLevel ==
  ASSUME PathInv, pc = "search", NEW lev, Levels(lev), NEW x \in Services, rest[x] # {}
  PROVE  queue # <<>> /\ lev[x] >= Len(queue[1]) - 1
<1>1. PICK i \in 1..Len(queue) : Top(queue[i]) = x
  BY DEF PathInv, SearchInv
<1>2. /\ Len(queue) \in Nat /\ \A k \in 1..Len(queue) : Len(queue[k]) \in Nat \ {0}
      /\ queue \in Seq(Paths)
  BY QueueTyped DEF PathInv
<1>3. 1 \in 1..Len(queue) /\ 1 <= i
  BY <1>2
<1>4. Len(queue[1]) <= Len(queue[i]) /\ lev[x] = Len(queue[i]) - 1
  BY <1>1, <1>3 DEF Levels
<1>5. Len(queue[1]) \in Nat /\ Len(queue[i]) \in Nat
  BY <1>2, <1>3
<1>6. queue # <<>>
  BY <1>2, <1>3, EmptySeq
<1> QED
  BY <1>4, <1>5, <1>6

\* No walk from the first service is shorter than the path in progress and its
\* next edge.
LEMMA NoShorterWalk ==
  ASSUME PathInv, pc = "search", queue # <<>>, NEW lev, Levels(lev),
         NEW n \in 1..Len(queue[1])
  PROVE  Walks(Direction, call.from, call.to, n) = {}
<1> SUFFICES ASSUME NEW w \in Walks(Direction, call.from, call.to, n)
             PROVE  FALSE
  OBVIOUS
<1>1. PICK k \in Nat \ {0} : k = Len(queue[1])
  BY QueueTyped DEF PathInv
<1>2. n \in Nat /\ 1 <= n /\ n <= k
  BY <1>1
<1>3. /\ w \in [1..n -> Services] /\ w[1] = call.from /\ w[n] = call.to
      /\ \A i \in 1..(n - 1) : <<w[i], w[i + 1]>> \in arcs
  <2>1. w \in [1..n -> Services] /\ w[1] = call.from /\ w[n] = call.to /\ IsWalk(Direction, w)
    BY DEF Walks
  <2>2. w \in Seq(Services) /\ Len(w) = n
    <3>1. w \in Seq(Services)
      BY <1>2, <2>1
    <3>2. DOMAIN w = 1..n /\ Len(w) \in Nat
      BY <2>1, <3>1
    <3> QED
      BY <1>2, <3>1, <3>2, LenProperties
  <2> QED
    BY <2>1, <2>2 DEF IsWalk, PathInv, SearchInv
<1> DEFINE Bad == {i \in 1..n : ~(w[i] \in seen /\ lev[w[i]] <= i - 1)}
<1>4. Bad = {}
  <2> SUFFICES ASSUME Bad # {} PROVE FALSE
    OBVIOUS
  <2>1. PICK i \in Bad : \A j \in Bad : i <= j
    <3>1. Bad \in SUBSET Nat
      BY <1>2
    <3> HIDE DEF Bad
    <3> QED
      BY <3>1, LeastNat
  <2>2. i \in 1..n /\ ~(w[i] \in seen /\ lev[w[i]] <= i - 1)
    OBVIOUS
  <2>3. i # 1
    BY <1>3, <2>2 DEF PathInv, SearchInv, SeenInv, Levels
  <2>4. i - 1 \in 1..n /\ i - 1 \in 1..(n - 1) /\ i - 1 < i /\ (i - 1) + 1 = i
    BY <1>2, <2>2, <2>3
  <2>5. i - 1 \notin Bad
    BY <2>1, <2>4
  <2>6. w[i - 1] \in seen /\ lev[w[i - 1]] <= (i - 1) - 1
    BY <2>4, <2>5
  <2>7. w[i - 1] \in Services /\ w[i] \in Services /\ <<w[i - 1], w[i]>> \in arcs
    BY <1>3, <2>2, <2>4
  <2>8. lev[w[i - 1]] \in Nat /\ lev[w[i]] \in Nat
    BY <2>7 DEF Levels
  <2>9. rest[w[i - 1]] = {}
    <3>1. ~(lev[w[i - 1]] >= k - 1)
      BY <1>1, <1>2, <2>2, <2>6, <2>8
    <3> QED
      BY <1>1, <2>7, <3>1, OpenLevel
  <2>10. w[i] \in seen /\ lev[w[i]] <= lev[w[i - 1]] + 1
    BY <2>6, <2>7, <2>9 DEF Levels
  <2> QED
    BY <2>2, <2>6, <2>8, <2>10
<1>5. w[n] \in seen
  BY <1>2, <1>4
<1> QED
  BY <1>3, <1>5 DEF PathInv, SearchInv

\* A search starts with one node, of level 0.
LEMMA StartLevels ==
  ASSUME call.from \in Services, UNCHANGED call, queue' = <<<<call.from>>>>,
         seen' = {call.from}, rest' = Entered(arcs', call.from)
  PROVE  \E lev : Levels(lev)'
<1>1. PICK lev : lev = [x \in Services |-> 0]
  OBVIOUS
<1>2. /\ Len(queue') = 1 /\ queue'[1] = <<call.from>> /\ Len(queue'[1]) = 1
      /\ Top(queue'[1]) = call.from
  BY DEF Top
<1>3. \A x, y \in Services : x \in seen' /\ <<x, y>> \in arcs' => y \in rest'[x]
  BY DEF Entered, uniqSorted
<1>4. lev \in [Services -> Nat] /\ \A x \in Services : lev[x] = 0
  BY <1>1
<1>5. \A i \in 1..Len(queue') : i = 1
  BY <1>2
<1>6. /\ \A i \in 1..Len(queue') :
           Top(queue'[i]) \in seen' /\ lev[Top(queue'[i])] = Len(queue'[i]) - 1
      /\ \A i, j \in 1..Len(queue') :
           /\ i <= j => Len(queue'[i]) <= Len(queue'[j])
           /\ Len(queue'[j]) <= Len(queue'[1]) + 1
  <2>1. Top(queue'[1]) \in seen' /\ lev[Top(queue'[1])] = Len(queue'[1]) - 1
    BY <1>2, <1>4
  <2>2. Len(queue'[1]) <= Len(queue'[1]) /\ Len(queue'[1]) <= Len(queue'[1]) + 1
    BY <1>2
  <2> QED
    BY <1>5, <2>1, <2>2
<1>7. /\ \A x \in seen' : lev[x] <= Len(queue'[1])
      /\ lev[call'.from] = 0
      /\ \A x, y \in Services : x \in seen' /\ <<x, y>> \in arcs' /\ y \notin rest'[x] =>
           y \in seen' /\ lev[y] <= lev[x] + 1
  BY <1>2, <1>3, <1>4
<1>8. Levels(lev)'
  BY <1>4, <1>6, <1>7 DEF Levels
<1> QED
  BY <1>8

LEMMA SeenLevels ==
  ASSUME LevelInv, SearchSeen
  PROVE  \E lev : Levels(lev)'
<1>1. PICK lev : Levels(lev)
  BY DEF LevelInv, SearchSeen
<1>2. PICK id, next : id = Top(Head(queue)) /\ next = First(rest[id])
  OBVIOUS
<1>3. /\ TypeOK /\ queue # <<>> /\ rest[id] # {} /\ next \in seen
      /\ rest' = [rest EXCEPT ![id] = @ \ {next}]
      /\ UNCHANGED <<call, arcs, seen, queue>>
  BY <1>2 DEF SearchSeen, LevelInv, PathInv, input
<1>4. /\ queue[1] = Head(queue) /\ 1 \in 1..Len(queue) /\ Len(queue[1]) \in Nat \ {0}
      /\ id \in Services
  <2>1. queue[1] = Head(queue) /\ 1 \in 1..Len(queue)
    BY <1>3, QueueTyped
  <2> QED
    BY <1>2, <1>3, <2>1, QueueTyped, HeadTyped
<1>5. lev[id] = Len(queue[1]) - 1 /\ lev[next] <= Len(queue[1])
  BY <1>1, <1>2, <1>3, <1>4 DEF Levels
<1>6. lev[next] <= lev[id] + 1
  BY <1>4, <1>5
<1>7. \A x, y \in Services : x \in seen /\ <<x, y>> \in arcs /\ y \notin rest'[x] =>
        y \in seen /\ lev[y] <= lev[x] + 1
  <2> SUFFICES ASSUME NEW x \in Services, NEW y \in Services, x \in seen,
                      <<x, y>> \in arcs, y \notin rest'[x]
               PROVE  y \in seen /\ lev[y] <= lev[x] + 1
    OBVIOUS
  <2>1. y \notin rest[x] \/ (x = id /\ y = next)
    BY <1>3, <1>4 DEF TypeOK
  <2>2. CASE y \notin rest[x]
    BY <1>1, <2>2 DEF Levels
  <2>3. CASE x = id /\ y = next
    BY <1>3, <1>6, <2>3
  <2> QED
    BY <2>1, <2>2, <2>3
<1>8. Levels(lev)'
  BY <1>1, <1>3, <1>7 DEF Levels
<1> QED
  BY <1>8

LEMMA NewLevels ==
  ASSUME LevelInv, SearchNew
  PROVE  \E lev : Levels(lev)'
<1>1. PICK old : Levels(old)
  BY DEF LevelInv, SearchNew
<1>2. PICK id, next : id = Top(Head(queue)) /\ next = First(rest[id])
  OBVIOUS
<1>3. PICK new : new = Append(Head(queue), next)
  OBVIOUS
<1>4. /\ TypeOK /\ PathInv /\ pc = "search" /\ queue # <<>> /\ rest[id] # {}
      /\ next \notin seen /\ seen' = seen \cup {next}
      /\ rest' = [rest EXCEPT ![id] = @ \ {next}, ![next] = uniqSorted(arcs, next)]
      /\ queue' = Append(queue, new)
      /\ UNCHANGED <<call, arcs>>
  BY <1>2, <1>3 DEF SearchNew, LevelInv, PathInv, input
<1>5. /\ queue[1] = Head(queue) /\ Len(queue) \in Nat \ {0} /\ queue \in Seq(Paths)
      /\ \A i \in 1..Len(queue) : queue[i] \in Paths /\ Len(queue[i]) \in Nat \ {0}
  BY <1>4, QueueTyped
<1>6. id \in Services /\ Head(queue) \in Seq(Services) /\ Head(queue) \in Paths
  BY <1>2, <1>4, HeadTyped
<1>7. next \in Services /\ next \in rest[id]
  BY <1>2, <1>4, <1>6, FirstOf DEF TypeOK
<1>8. PICK k \in Nat \ {0} : k = Len(queue[1])
  BY <1>5
<1>9. new \in Seq(Services) /\ Len(new) = k + 1 /\ Top(new) = next /\ new \in Paths
  <2>1. /\ new \in Seq(Services) /\ Len(new) = Len(Head(queue)) + 1
        /\ new[Len(Head(queue)) + 1] = next /\ new # <<>>
    BY <1>3, <1>6, <1>7, AppendProperties
  <2> QED
    BY <1>5, <1>8, <2>1 DEF Top, Paths
<1>10. /\ Len(queue') = Len(queue) + 1 /\ queue'[Len(queue) + 1] = new
       /\ \A i \in 1..Len(queue) : queue'[i] = queue[i]
  BY <1>4, <1>5, <1>9, AppendProperties
<1>11. PICK lev : lev = [old EXCEPT ![next] = k]
  OBVIOUS
<1>12. /\ lev \in [Services -> Nat] /\ lev[next] = k /\ old \in [Services -> Nat]
       /\ \A x \in Services : x # next => lev[x] = old[x]
       /\ \A x \in seen : x \in Services /\ lev[x] = old[x]
  BY <1>1, <1>4, <1>7, <1>11 DEF Levels, TypeOK
<1>13. id \in seen /\ old[id] = k - 1 /\ call.from \in seen
  BY <1>1, <1>2, <1>4, <1>5, <1>8 DEF Levels, PathInv, SearchInv, SeenInv
<1>14. \A i \in 1..Len(queue') : i \in 1..Len(queue) \/ i = Len(queue) + 1
  BY <1>5, <1>10
<1>15. \A i \in 1..Len(queue') :
         Top(queue'[i]) \in seen' /\ lev[Top(queue'[i])] = Len(queue'[i]) - 1
  <2> SUFFICES ASSUME NEW i \in 1..Len(queue')
               PROVE  Top(queue'[i]) \in seen' /\ lev[Top(queue'[i])] = Len(queue'[i]) - 1
    OBVIOUS
  <2>1. CASE i \in 1..Len(queue)
    BY <1>1, <1>4, <1>10, <1>12, <2>1 DEF Levels
  <2>2. CASE i = Len(queue) + 1
    BY <1>4, <1>8, <1>9, <1>10, <1>12, <2>2
  <2> QED
    BY <1>14, <2>1, <2>2
<1>16. \A i, j \in 1..Len(queue') :
         /\ i <= j => Len(queue'[i]) <= Len(queue'[j])
         /\ Len(queue'[j]) <= Len(queue'[1]) + 1
  <2>1. \A i \in 1..Len(queue) : Len(queue[i]) <= k + 1
    BY <1>1, <1>5, <1>8 DEF Levels
  <2>2. Len(queue'[1]) = k /\ 1 \in 1..Len(queue)
    BY <1>5, <1>8, <1>10
  <2>3. \A j \in 1..Len(queue') : Len(queue'[j]) <= k + 1
    BY <1>8, <1>9, <1>10, <1>14, <2>1
  <2>4. ASSUME NEW i \in 1..Len(queue'), NEW j \in 1..Len(queue'), i <= j
        PROVE  Len(queue'[i]) <= Len(queue'[j])
    <3>1. CASE j = Len(queue) + 1
      BY <1>9, <1>10, <2>3, <3>1
    <3>2. CASE j \in 1..Len(queue)
      <4>1. i \in 1..Len(queue)
        BY <1>5, <2>4, <3>2
      <4> QED
        BY <1>1, <1>10, <2>4, <3>2, <4>1 DEF Levels
    <3> QED
      BY <1>14, <3>1, <3>2
  <2> QED
    BY <2>2, <2>3, <2>4
<1>17. \A x \in seen' : lev[x] <= Len(queue'[1])
  <2>1. Len(queue'[1]) = k
    BY <1>5, <1>8, <1>10
  <2>2. \A x \in seen : old[x] <= k
    BY <1>1, <1>4, <1>8 DEF Levels
  <2> QED
    BY <1>4, <1>8, <1>12, <2>1, <2>2
<1>18. \A x, y \in Services : x \in seen' /\ <<x, y>> \in arcs /\ y \notin rest'[x] =>
         y \in seen' /\ lev[y] <= lev[x] + 1
  <2> SUFFICES ASSUME NEW x \in Services, NEW y \in Services, x \in seen',
                      <<x, y>> \in arcs, y \notin rest'[x]
               PROVE  y \in seen' /\ lev[y] <= lev[x] + 1
    OBVIOUS
  <2>1. x # next
    BY <1>4, <1>6, <1>7 DEF TypeOK, uniqSorted
  <2>2. x \in seen
    BY <1>4, <2>1
  <2>3. y \notin rest[x] \/ (x = id /\ y = next)
    BY <1>4, <1>6, <1>7, <2>1 DEF TypeOK
  <2>4. CASE y \notin rest[x]
    <3>1. y \in seen /\ old[y] <= old[x] + 1
      BY <1>1, <2>2, <2>4 DEF Levels
    <3> QED
      BY <1>4, <1>12, <2>2, <3>1
  <2>5. CASE x = id /\ y = next
    BY <1>4, <1>8, <1>12, <1>13, <2>5
  <2> QED
    BY <2>3, <2>4, <2>5
<1>19. lev[call.from] = 0
  BY <1>1, <1>12, <1>13 DEF Levels
<1>20. Levels(lev)'
  BY <1>4, <1>12, <1>15, <1>16, <1>17, <1>18, <1>19 DEF Levels
<1> QED
  BY <1>20

LEMMA DequeueLevels ==
  ASSUME LevelInv, SearchDequeue
  PROVE  \E lev : Levels(lev)'
<1>1. PICK lev : Levels(lev)
  BY DEF LevelInv, SearchDequeue
<1>2. /\ TypeOK /\ queue # <<>> /\ queue' = Tail(queue)
      /\ UNCHANGED <<call, arcs, rest, seen>>
  BY DEF LevelInv, PathInv, SearchDequeue, input
<1>3. /\ queue \in Seq(Paths) /\ Len(queue) \in Nat \ {0} /\ Len(queue') = Len(queue) - 1
      /\ \A i \in 1..Len(queue') : queue'[i] = queue[i + 1]
      /\ \A i \in 1..Len(queue) : Len(queue[i]) \in Nat \ {0}
      /\ queue' \in Seq(Paths)
  BY <1>2, QueueTyped, HeadTailProperties
<1>4. \A i \in 1..Len(queue') : i + 1 \in 1..Len(queue)
  BY <1>3
<1>5. \A i \in 1..Len(queue') :
        Top(queue'[i]) \in seen /\ lev[Top(queue'[i])] = Len(queue'[i]) - 1
  BY ZenonT(60), <1>1, <1>3, <1>4 DEF Levels
<1>6. /\ \A i, j \in 1..Len(queue) : i <= j => Len(queue[i]) <= Len(queue[j])
      /\ \A j \in 1..Len(queue) : Len(queue[j]) <= Len(queue[1]) + 1
      /\ \A x \in seen : lev[x] <= Len(queue[1]) /\ lev[x] \in Nat
  BY <1>1, <1>2 DEF Levels, TypeOK
<1>7. \A i, j \in 1..Len(queue') :
        /\ i <= j => Len(queue'[i]) <= Len(queue'[j])
        /\ Len(queue'[j]) <= Len(queue'[1]) + 1
  <2> SUFFICES ASSUME NEW i \in 1..Len(queue'), NEW j \in 1..Len(queue')
               PROVE  /\ i <= j => Len(queue'[i]) <= Len(queue'[j])
                      /\ Len(queue'[j]) <= Len(queue'[1]) + 1
    OBVIOUS
  <2>1. /\ i + 1 \in 1..Len(queue) /\ j + 1 \in 1..Len(queue) /\ 2 \in 1..Len(queue)
        /\ 1 \in 1..Len(queue) /\ 1 \in 1..Len(queue')
    BY <1>3
  <2>2. /\ queue'[i] = queue[i + 1] /\ queue'[j] = queue[j + 1] /\ queue'[1] = queue[2]
    BY <1>3, <2>1
  <2>3. i <= j => Len(queue'[i]) <= Len(queue'[j])
    BY <1>6, <2>1, <2>2
  <2>4. /\ Len(queue[1]) <= Len(queue[2]) /\ Len(queue[j + 1]) <= Len(queue[1]) + 1
    BY <1>6, <2>1
  <2>5. Len(queue[1]) \in Nat /\ Len(queue[2]) \in Nat /\ Len(queue[j + 1]) \in Nat
    BY <1>3, <2>1
  <2> QED
    BY SMTT(30), <2>2, <2>3, <2>4, <2>5
<1>8. queue' # <<>> => \A x \in seen : lev[x] <= Len(queue'[1])
  <2> SUFFICES ASSUME queue' # <<>>, NEW x \in seen PROVE lev[x] <= Len(queue'[1])
    OBVIOUS
  <2>1. 1 \in 1..Len(queue') /\ 1 \in 1..Len(queue) /\ 2 \in 1..Len(queue)
    BY <1>3, EmptySeq
  <2>2. queue'[1] = queue[2] /\ Len(queue[1]) <= Len(queue[2])
    BY <1>3, <1>6, <2>1
  <2>3. Len(queue[1]) \in Nat /\ Len(queue[2]) \in Nat
    BY <1>3, <2>1
  <2> QED
    BY <1>6, <2>2, <2>3
<1>9. Levels(lev)'
  BY <1>1, <1>2, <1>5, <1>7, <1>8 DEF Levels
<1> QED
  BY <1>9

LEMMA LevelNext == LevelInv /\ [Next]_vars => LevelInv'
<1> SUFFICES ASSUME LevelInv, [Next]_vars PROVE LevelInv'
  OBVIOUS
<1>1. PathInv /\ PathInv' /\ CallOfPc /\ TypeOK
  BY PathNext DEF LevelInv, PathInv
<1>2. CASE SearchFound
  <2>1. /\ pc = "search" /\ queue # <<>> /\ answer' = Append(Head(queue), call.to)
        /\ pc' = "done" /\ UNCHANGED <<edges, call, dir>>
    BY <1>2 DEF SearchFound, input
  <2>2. PICK lev : Levels(lev)
    BY <2>1 DEF LevelInv
  <2>3. Head(queue) \in Seq(Services) /\ queue[1] = Head(queue) /\ call.to \in Services
    BY <1>1, <2>1, HeadTyped, QueueTyped DEF TypeOK, Calls
  <2>4. Len(answer') = Len(queue[1]) + 1 /\ Len(queue[1]) \in Nat
    BY <2>1, <2>3, AppendProperties
  <2>5. \A n \in 1..(Len(answer') - 1) : Walks(Direction, call.from, call.to, n) = {}
    BY <1>1, <2>1, <2>2, <2>4, NoShorterWalk
  <2>6. NoneShorter'
    BY <2>1, <2>5 DEF NoneShorter, Direction, Walks, IsWalk
  <2> QED
    BY <1>1, <2>1, <2>6 DEF LevelInv
<1>3. CASE StartPath \/ ShortestAny
  <2>1. /\ call.from \in Services /\ UNCHANGED <<call, answer>> /\ queue' = <<<<call.from>>>>
        /\ seen' = {call.from} /\ rest' = Entered(arcs', call.from) /\ answer = <<>>
    BY <1>1, <1>3 DEF StartPath, ShortestAny, TypeOK, Calls, PathInv, SearchInv, input
  <2>2. \E lev : Levels(lev)'
    BY <2>1, StartLevels
  <2> QED
    BY <1>1, <2>1, <2>2 DEF LevelInv, NoneShorter
<1>4. CASE SearchSeen \/ SearchNew \/ SearchDequeue
  <2>1. answer' = <<>>
    BY <1>1, <1>4 DEF SearchSeen, SearchNew, SearchDequeue, PathInv, SearchInv
  <2>2. \E lev : Levels(lev)'
    BY <1>4, SeenLevels, NewLevels, DequeueLevels
  <2> QED
    BY <1>1, <2>1, <2>2 DEF LevelInv, NoneShorter
<1>5. CASE Downstream \/ Cycles \/ RefusePath \/ NoPath
  <2>1. pc' # "search" /\ UNCHANGED <<edges, call, dir, answer>>
    BY <1>5 DEF Downstream, StartImpact, WalkLeaf, WalkChild, WalkReturn, Cycles,
       StartCycles, VisitRoot, VisitWhite, VisitGray, VisitBlack, VisitReturn, CyclesEnd,
       RefusePath, NoPath, input, tree
  <2>2. NoneShorter'
    BY <2>1 DEF LevelInv, NoneShorter, Direction, Walks, IsWalk
  <2> QED
    BY <1>1, <2>1, <2>2 DEF LevelInv
<1>6. CASE UNCHANGED vars
  <2>1. UNCHANGED <<edges, call, arcs, pc, rest, seen, queue, dir, answer>>
    BY <1>6 DEF vars
  <2>2. NoneShorter'
    BY <2>1 DEF LevelInv, NoneShorter, Direction, Walks, IsWalk
  <2>3. ASSUME pc = "search" PROVE \E lev : Levels(lev)'
    <3>1. PICK lev : Levels(lev)
      BY <2>3 DEF LevelInv
    <3>2. Levels(lev)'
      BY <2>1, <3>1 DEF Levels
    <3> QED
      BY <3>2
  <2> QED
    BY <1>1, <2>1, <2>2, <2>3 DEF LevelInv
<1> QED
  BY <1>2, <1>3, <1>4, <1>5, <1>6 DEF Next, Shortest

\* The path that is reported leads from the one service to the other, no walk
\* of the graph is shorter, and the reverse direction is used only when there
\* is no path in the first.
THEOREM PathShortestHolds == Spec => []PathShortest
<1>1. LevelInv => PathShortest
  BY DEF LevelInv, NoneShorter, PathInv, PathIsReal, Leads, PathShortest, Direction
<1> QED
  BY <1>1, LevelInit, LevelNext, PTL DEF Spec

-----------------------------------------------------------------------------
(* impact.Cycles.                                                           *)

\* The stack is a path of the graph without a node twice, and every node still
\* to be looked at is a neighbour.
StackInv ==
  /\ pc = "start" => stack = <<>> /\ \A x \in Services : rest[x] = {}
  /\ call.cmd = "cycles" /\ pc # "start" => arcs = Unlooped(edges)
  /\ call.cmd = "cycles" =>
       /\ Listed
       /\ IsWalk(arcs, stack)
       /\ \A i \in 1..Len(stack) : stack[i] \in seen
       /\ \A i, j \in 1..Len(stack) : i # j => stack[i] # stack[j]
  /\ call.cmd # "cycles" => cycles = {}

CircleInv == TypeOK /\ CallOfPc /\ StackInv /\ CyclesReal

LEMMA CircleInit == Init => CircleInv
  BY InitTypeOK DEF Init, CircleInv, CallOfPc, StackInv, CyclesReal, IsWalk, Listed

\* A new circle is a real one.
LEMMA NewCircle ==
  ASSUME TypeOK, StackInv, call.cmd = "cycles", pc = "visit", stack # <<>>,
         NEW start \in rest[Top(stack)], OnStack(start),
         NEW c, c = cycleFromStack(start)
  PROVE  LET n == Len(c) - 1
         IN /\ n > 1 /\ c[n + 1] = c[1] /\ IsWalk(edges, c)
            /\ \A i, j \in 1..n : i # j => c[i] # c[j]
            /\ \A i \in 1..n : c[1] <= c[i]
<1>1. PICK from \in 1..Len(stack), n \in Nat \ {0}, best \in Nat \ {0} :
        Rotation(c, start, from, n, best)
  BY CycleShape
<1>2. /\ stack[from] = start /\ n = Len(stack) - from + 1 /\ best <= n
      /\ \A j \in 1..n : stack[from + best - 1] <= stack[from + j - 1]
      /\ c = [k \in 1..(n + 1) |-> stack[At(from, n, best, k)]]
  BY <1>1 DEF Rotation
<1>3. /\ Len(stack) \in Nat \ {0} /\ Top(stack) = stack[Len(stack)]
      /\ Top(stack) \in Services
  BY PopTop DEF TypeOK, Top
<1>4. /\ <<Top(stack), start>> \in arcs /\ arcs = Unlooped(edges)
      /\ start # Top(stack)
  BY <1>3 DEF StackInv, Listed, uniqSorted, Unlooped
<1>5. n > 1
  BY <1>2, <1>3, <1>4
<1> DEFINE at(k) == At(from, n, best, k)
<1>6. /\ \A k \in 1..(n + 1) : at(k) \in from..Len(stack)
      /\ at(n + 1) = at(1) /\ at(1) = from + best - 1
      /\ \A i, j \in 1..n : i # j => at(i) # at(j)
      /\ \A k \in 1..n : at(k + 1) = IF at(k) = Len(stack) THEN from ELSE at(k) + 1
  <2>1. /\ Len(stack) \in Nat /\ n = Len(stack) - from + 1 /\ best <= n
        /\ from \in 1..Len(stack) /\ n \in Nat \ {0} /\ best \in Nat \ {0}
    BY <1>1, <1>2, <1>3
  <2>2. \A k \in 1..(n + 1) : at(k) \in from..Len(stack)
    BY <2>1, Places
  <2>3. at(n + 1) = at(1) /\ at(1) = from + best - 1
    BY <2>1 DEF At
  <2>4. \A i, j \in 1..n : i # j => at(i) # at(j)
    BY <2>1, Places
  <2>5. \A k \in 1..n : at(k + 1) = IF at(k) = Len(stack) THEN from ELSE at(k) + 1
    BY <2>1 DEF At
  <2> QED
    BY <2>2, <2>3, <2>4, <2>5
<1> HIDE DEF at
<1>7. \A k \in 1..(n + 1) : c[k] = stack[at(k)] /\ at(k) \in 1..Len(stack)
  BY <1>2, <1>6 DEF at
<1>8. \A i \in 1..n : c[1] <= c[i]
  <2> SUFFICES ASSUME NEW i \in 1..n PROVE c[1] <= c[i]
    OBVIOUS
  <2>1. PICK j \in 1..n : at(i) = from + j - 1
    <3>1. at(i) \in from..Len(stack)
      BY <1>6
    <3>2. PICK p \in from..Len(stack) : p = at(i)
      BY <3>1
    <3>3. PICK len \in Nat : len = Len(stack) /\ n = len - from + 1 /\ p \in from..len
      BY <1>2, <1>3
    <3>4. p - from + 1 \in 1..n /\ p = from + (p - from + 1) - 1
      BY <3>3
    <3> QED
      BY <3>2, <3>4
  <2>2. stack[from + best - 1] <= stack[from + j - 1]
    BY <1>2
  <2>3. at(1) = from + best - 1
    BY <1>6
  <2>4. 1 \in 1..(n + 1) /\ i \in 1..(n + 1)
    BY <1>5
  <2>5. c[1] = stack[at(1)] /\ c[i] = stack[at(i)]
    BY <1>7, <2>4
  <2> QED
    BY <2>1, <2>2, <2>3, <2>5
<1>9. \A i, j \in 1..n : i # j => c[i] # c[j]
  <2> SUFFICES ASSUME NEW i \in 1..n, NEW j \in 1..n, i # j PROVE c[i] # c[j]
    OBVIOUS
  <2>1. at(i) # at(j) /\ at(i) \in 1..Len(stack) /\ at(j) \in 1..Len(stack)
    BY <1>6, <1>7
  <2>2. c[i] = stack[at(i)] /\ c[j] = stack[at(j)]
    BY <1>7
  <2> QED
    BY <2>1, <2>2 DEF StackInv
<1>10. Len(c) = n + 1
  <2>1. c \in Seq(Services) /\ DOMAIN c = 1..(n + 1)
    BY <1>2, CycleTyped
  <2> QED
    BY <2>1, LenProperties
<1>11. IsWalk(edges, c)
  <2> SUFFICES ASSUME NEW i \in 1..n PROVE <<c[i], c[i + 1]>> \in arcs
    BY <1>10, <1>4 DEF IsWalk, Unlooped
  <2>1. c[i] = stack[at(i)] /\ c[i + 1] = stack[at(i + 1)] /\ at(i) \in 1..Len(stack)
    BY <1>7
  <2>2. CASE at(i) = Len(stack)
    <3>1. at(i + 1) = from
      BY <1>6, <2>2
    <3> QED
      BY <1>2, <1>3, <1>4, <2>1, <2>2, <3>1
  <2>3. CASE at(i) # Len(stack)
    <3>1. at(i + 1) = at(i) + 1
      BY <1>6, <2>3
    <3>2. at(i) \in 1..(Len(stack) - 1)
      BY <1>3, <2>1, <2>3
    <3> QED
      BY <2>1, <3>1, <3>2 DEF StackInv, IsWalk
  <2> QED
    BY <2>2, <2>3
<1>12. c[n + 1] = c[1]
  BY <1>6, <1>7
<1> QED
  BY <1>5, <1>8, <1>9, <1>10, <1>11, <1>12

LEMMA CyclesRealNext ==
  ASSUME CircleInv, [Next]_vars
  PROVE  CyclesReal'
<1>1. CASE VisitGray
  <2> DEFINE start == First(rest[Top(stack)])
             c == cycleFromStack(start)
  <2>1. /\ TypeOK /\ StackInv /\ call.cmd = "cycles" /\ pc = "visit" /\ stack # <<>>
        /\ OnStack(start) /\ rest[Top(stack)] # {}
    BY <1>1 DEF CircleInv, CallOfPc, VisitGray
  <2>2. start \in rest[Top(stack)]
    BY <2>1, PopTop, FirstOf DEF TypeOK
  <2>3. /\ Len(c) - 1 > 1 /\ c[Len(c) - 1 + 1] = c[1] /\ IsWalk(edges, c)
        /\ \A i, j \in 1..(Len(c) - 1) : i # j => c[i] # c[j]
        /\ \A i \in 1..(Len(c) - 1) : c[1] <= c[i]
    BY <2>1, <2>2, NewCircle
  <2>4. cycles' = cycles \cup {c} /\ UNCHANGED edges
    BY <1>1 DEF VisitGray, input
  <2> HIDE DEF c
  <2> QED
    BY <2>3, <2>4 DEF CircleInv, CyclesReal, IsWalk
<1>2. CASE ~VisitGray
  <2>1. UNCHANGED <<edges, cycles>>
    BY <1>2 DEF Next, Downstream, StartImpact, WalkLeaf, WalkChild, WalkReturn, Cycles,
         StartCycles, VisitRoot, VisitWhite, VisitBlack, VisitReturn, CyclesEnd,
         Shortest, RefusePath, StartPath, SearchSeen, SearchNew, SearchFound,
         SearchDequeue, ShortestAny, NoPath, input, vars
  <2> QED
    BY <2>1 DEF CircleInv, CyclesReal, IsWalk
<1> QED
  BY <1>1, <1>2

\* A node pushed on the stack of a walk along the edges.
LEMMA PushWalk ==
  ASSUME TypeOK, StackInv, call.cmd = "cycles", NEW y \in Services, y \notin seen,
         stack = <<>> \/ <<Top(stack), y>> \in arcs,
         stack' = Append(stack, y), seen' = seen \cup {y}, UNCHANGED arcs
  PROVE  /\ IsWalk(arcs, stack)'
         /\ \A i \in 1..Len(stack') : stack'[i] \in seen'
         /\ \A i, j \in 1..Len(stack') : i # j => stack'[i] # stack'[j]
<1>1. /\ stack \in Seq(Services) /\ Len(stack) \in Nat /\ Len(stack') = Len(stack) + 1
      /\ stack'[Len(stack) + 1] = y /\ \A i \in 1..Len(stack) : stack'[i] = stack[i]
  BY AppendProperties DEF TypeOK
<1>2. /\ \A i \in 1..(Len(stack) - 1) : <<stack[i], stack[i + 1]>> \in arcs
      /\ \A i \in 1..Len(stack) : stack[i] \in seen
      /\ \A i, j \in 1..Len(stack) : i # j => stack[i] # stack[j]
  BY DEF StackInv, IsWalk
<1>3. IsWalk(arcs, stack)'
  <2> SUFFICES ASSUME NEW i \in 1..Len(stack)
               PROVE  <<stack'[i], stack'[i + 1]>> \in arcs
    BY <1>1 DEF IsWalk
  <2>1. CASE i = Len(stack)
    BY SMTT(30), <1>1, <2>1, EmptySeq DEF Top
  <2>2. CASE i # Len(stack)
    <3>1. i \in 1..(Len(stack) - 1) /\ i + 1 \in 1..Len(stack)
      BY <1>1, <2>2
    <3> QED
      BY <1>1, <1>2, <3>1
  <2> QED
    BY <2>1, <2>2
<1>4. \A i \in 1..Len(stack') : i \in 1..Len(stack) \/ i = Len(stack) + 1
  BY <1>1
<1>5. seen' = seen \cup {y} /\ y \notin seen
  OBVIOUS
<1>6. \A i \in 1..Len(stack') : stack'[i] \in seen'
  BY <1>1, <1>2, <1>4, <1>5
<1>7. \A i, j \in 1..Len(stack') : i # j => stack'[i] # stack'[j]
  <2> SUFFICES ASSUME NEW i \in 1..Len(stack'), NEW j \in 1..Len(stack'), i # j
               PROVE  stack'[i] # stack'[j]
    OBVIOUS
  <2> QED
    BY <1>1, <1>2, <1>4, <1>5
<1> QED
  BY <1>3, <1>6, <1>7

LEMMA StackNext ==
  ASSUME CircleInv, [Next]_vars
  PROVE  StackInv'
<1>0. TypeOK /\ CallOfPc /\ StackInv
  BY DEF CircleInv
<1>1. CASE Downstream
  BY <1>0, <1>1 DEF Downstream, StartImpact, WalkLeaf, WalkChild, WalkReturn, CallOfPc,
     StackInv, input, tree
<1>2. CASE Shortest
  BY <1>0, <1>2 DEF Shortest, RefusePath, StartPath, SearchSeen, SearchNew, SearchFound,
     SearchDequeue, ShortestAny, NoPath, CallOfPc, StackInv, input, tree
<1>3. CASE StartCycles
  BY <1>0, <1>3 DEF StartCycles, StackInv, Listed, IsWalk, input
<1>4. CASE VisitRoot
  <2>1. First(White) \in Services /\ First(White) \notin seen
    BY <1>4, FirstOf DEF VisitRoot, White
  <2>2. stack' = Append(stack, First(White))
    BY <1>4 DEF VisitRoot
  <2>3. Listed'
    BY <1>0, <1>4, <2>1 DEF VisitRoot, StackInv, CallOfPc, Listed, TypeOK
  <2> QED
    BY <1>0, <1>4, <2>1, <2>2, <2>3, PushWalk DEF VisitRoot, StackInv, CallOfPc, input
<1>5. CASE VisitWhite
  <2> DEFINE id == Top(stack)
             next == First(rest[id])
  <2>1. /\ id \in Services /\ next \in rest[id] /\ next \in Services
        /\ call.cmd = "cycles" /\ pc = "visit" /\ next \notin seen
    BY <1>0, <1>5, PopTop, FirstOf DEF VisitWhite, TypeOK, CallOfPc
  <2>2. <<id, next>> \in arcs
    BY <1>0, <2>1 DEF StackInv, Listed, uniqSorted
  <2>3. /\ stack' = Append(stack, next) /\ seen' = seen \cup {next}
        /\ rest' = [rest EXCEPT ![id] = @ \ {next}, ![next] = uniqSorted(arcs, next)]
        /\ UNCHANGED <<edges, call, arcs, pc, cycles>>
    BY <1>5 DEF VisitWhite, input
  <2> HIDE DEF next
  <2>4. Listed'
    BY <1>0, <2>1, <2>3 DEF StackInv, Listed, TypeOK
  <2>5. /\ IsWalk(arcs, stack)'
        /\ \A i \in 1..Len(stack') : stack'[i] \in seen'
        /\ \A i, j \in 1..Len(stack') : i # j => stack'[i] # stack'[j]
    BY <1>0, <2>1, <2>2, <2>3, PushWalk
  <2> QED
    BY <1>0, <2>1, <2>3, <2>4, <2>5 DEF StackInv
<1>6. CASE VisitGray \/ VisitBlack
  <2>1. Listed'
    BY <1>0, <1>6 DEF VisitGray, VisitBlack, StackInv, CallOfPc, Listed, TypeOK
  <2> QED
    BY <1>0, <1>6, <2>1 DEF VisitGray, VisitBlack, StackInv, CallOfPc, IsWalk, input, tree
<1>7. CASE VisitReturn
  <2>1. /\ Len(stack) \in Nat \ {0} /\ Len(stack') = Len(stack) - 1
        /\ \A i \in 1..(Len(stack) - 1) : stack'[i] = stack[i]
    BY <1>0, <1>7, PopTop DEF VisitReturn, TypeOK
  <2>2. \A i \in 1..(Len(stack') - 1) : i \in 1..(Len(stack) - 1) /\ i + 1 \in 1..(Len(stack) - 1)
    BY <2>1
  <2>3. IsWalk(arcs, stack)'
    BY <1>0, <1>7, <2>1, <2>2 DEF VisitReturn, StackInv, CallOfPc, IsWalk
  <2> QED
    BY <1>0, <1>7, <2>1, <2>3 DEF VisitReturn, StackInv, CallOfPc, Listed, input
<1>8. CASE CyclesEnd
  BY <1>0, <1>8 DEF CyclesEnd, StackInv, CallOfPc, Listed, IsWalk, input, tree
<1>9. CASE UNCHANGED vars
  BY <1>0, <1>9 DEF vars, StackInv, Listed, IsWalk
<1> QED
  BY <1>1, <1>2, <1>3, <1>4, <1>5, <1>6, <1>7, <1>8, <1>9 DEF Next, Cycles

LEMMA CircleNext == CircleInv /\ [Next]_vars => CircleInv'
  BY CallNext, NextTypeOK, StackNext, CyclesRealNext DEF CircleInv

\* Whatever is reported as a circle is one.
THEOREM CyclesAreReal == Spec => []CyclesReal
<1>1. CircleInv => CyclesReal
  BY DEF CircleInv
<1> QED
  BY <1>1, CircleInit, CircleNext, PTL DEF Spec

-----------------------------------------------------------------------------
(* Every circle has an edge in common with a reported one. A node that has *)
(* been left gets a rank above all given before: its edges that are not    *)
(* reported lead to nodes left earlier, of lower ranks, so that no circle  *)
(* is made of them alone.                                                   *)

\* A node that has been left, black in the code.
Settled(x) == x \in seen /\ ~OnStack(x)

EdgeReported(x, y) ==
  \E c \in cycles : \E i \in 1..(Len(c) - 1) : c[i] = x /\ c[i + 1] = y

\* y was entered from x, and neither has been left.
Below(x, y) == \E i \in 1..(Len(stack) - 1) : stack[i] = x /\ stack[i + 1] = y

Ranks(rank, n) ==
  /\ rank \in [Services -> Nat] /\ n \in Nat
  /\ \A x \in Services : Settled(x) => rank[x] <= n
  /\ \A x, y \in Services : <<x, y>> \in arcs /\ Settled(x) =>
       EdgeReported(x, y) \/ (Settled(y) /\ rank[y] < rank[x])
  /\ \A x, y \in Services : <<x, y>> \in arcs /\ OnStack(x) /\ y \notin rest[x] =>
       EdgeReported(x, y) \/ Settled(y) \/ Below(x, y)

BreakInv ==
  /\ CircleInv
  /\ pc = "start" => seen = {}
  /\ call.cmd = "cycles" /\ pc # "start" => \E rank, n : Ranks(rank, n)
  /\ call.cmd = "cycles" /\ pc = "done" => stack = <<>> /\ White = {}

LEMMA BreakInit == Init => BreakInv
  BY CircleInit DEF Init, BreakInv

\* A circle that is found has the edge that closes it.
LEMMA ClosingEdge ==
  ASSUME TypeOK, stack # <<>>, NEW start, OnStack(start),
         NEW c, c = cycleFromStack(start)
  PROVE  \E i \in 1..(Len(c) - 1) : c[i] = Top(stack) /\ c[i + 1] = start
<1>1. PICK from \in 1..Len(stack), n \in Nat \ {0}, best \in Nat \ {0} :
        Rotation(c, start, from, n, best)
  BY CycleShape
<1>2. /\ stack[from] = start /\ n = Len(stack) - from + 1 /\ best <= n
      /\ c = [k \in 1..(n + 1) |-> stack[At(from, n, best, k)]]
  BY <1>1 DEF Rotation
<1>3. Len(stack) \in Nat \ {0}
  BY PopTop DEF TypeOK
<1>4. Len(c) = n + 1
  <2>1. c \in Seq(Services) /\ DOMAIN c = 1..(n + 1)
    BY <1>2, CycleTyped
  <2> QED
    BY <2>1, LenProperties
<1> DEFINE k == n + 1 - best
<1>5. k \in 1..n /\ k + 1 \in 1..(n + 1) /\ k \in 1..(n + 1)
  BY <1>2
<1>6. At(from, n, best, k) = Len(stack) /\ At(from, n, best, k + 1) = from
  BY <1>2, <1>3 DEF At
<1> HIDE DEF k
<1>7. c[k] = stack[Len(stack)] /\ c[k + 1] = stack[from]
  BY <1>2, <1>5, <1>6
<1> QED
  BY <1>2, <1>4, <1>5, <1>7 DEF Top

\* A node y that is not on the stack is pushed on it.
LEMMA Pushed ==
  ASSUME TypeOK, NEW y \in Services, stack' = Append(stack, y)
  PROVE  /\ \A x : OnStack(x)' <=> OnStack(x) \/ x = y
         /\ \A x, z : Below(x, z) => Below(x, z)'
         /\ stack # <<>> => \A t : t = Top(stack) => Below(t, y)'
<1>1. /\ stack \in Seq(Services) /\ Len(stack) \in Nat /\ Len(stack') = Len(stack) + 1
      /\ stack'[Len(stack) + 1] = y /\ \A i \in 1..Len(stack) : stack'[i] = stack[i]
  BY AppendProperties DEF TypeOK
<1>2. ASSUME NEW x
      PROVE  OnStack(x)' <=> OnStack(x) \/ x = y
  BY <1>1 DEF OnStack
<1>3. ASSUME NEW x, NEW z, Below(x, z)
      PROVE  Below(x, z)'
  <2>1. PICK i \in 1..(Len(stack) - 1) : stack[i] = x /\ stack[i + 1] = z
    BY <1>3 DEF Below
  <2>2. i \in 1..Len(stack) /\ i + 1 \in 1..Len(stack) /\ i \in 1..(Len(stack') - 1)
    BY <1>1
  <2> QED
    BY <1>1, <2>1, <2>2 DEF Below
<1>4. ASSUME stack # <<>>, NEW t, t = Top(stack)
      PROVE  Below(t, y)'
  <2>1. Len(stack) \in 1..Len(stack) /\ Len(stack) \in 1..(Len(stack') - 1)
    BY <1>1, <1>4, EmptySeq
  <2>2. stack'[Len(stack)] = t
    BY <1>1, <1>4, <2>1 DEF Top
  <2>3. stack'[Len(stack) + 1] = y
    BY <1>1
  <2> QED
    BY <2>1, <2>2, <2>3 DEF Below
<1> QED
  BY <1>2, <1>3, <1>4

\* A node y is entered, from the top of the stack or as a root.
LEMMA EnterRanks ==
  ASSUME BreakInv, call.cmd = "cycles", pc = "visit", NEW y \in Services, y \notin seen,
         stack' = Append(stack, y), seen' = seen \cup {y},
         rest' \in [Services -> SUBSET Services], rest'[y] = uniqSorted(arcs, y),
         \A x, z \in Services : x # y /\ z \notin rest'[x] =>
            z \notin rest[x] \/ (stack # <<>> /\ x = Top(stack) /\ z = y),
         UNCHANGED <<arcs, cycles>>
  PROVE  \E rank, n : Ranks(rank, n)'
<1>1. TypeOK
  BY DEF BreakInv, CircleInv
<1>2. PICK rank, n : Ranks(rank, n)
  BY DEF BreakInv
<1>3. /\ \A x : OnStack(x)' <=> OnStack(x) \/ x = y
      /\ \A x, z : Below(x, z) => Below(x, z)'
      /\ stack # <<>> => \A t : t = Top(stack) => Below(t, y)'
  BY <1>1, Pushed
<1>4. \A x : Settled(x)' <=> Settled(x)
  BY <1>3 DEF Settled, BreakInv, CircleInv, StackInv, OnStack
<1>5. \A x, z : EdgeReported(x, z)' <=> EdgeReported(x, z)
  BY DEF EdgeReported
<1>6. \A x, z \in Services : <<x, z>> \in arcs /\ OnStack(x)' /\ z \notin rest'[x] =>
        EdgeReported(x, z) \/ Settled(z) \/ Below(x, z)'
  <2> SUFFICES ASSUME NEW x \in Services, NEW z \in Services, <<x, z>> \in arcs,
                      OnStack(x)', z \notin rest'[x]
               PROVE  EdgeReported(x, z) \/ Settled(z) \/ Below(x, z)'
    OBVIOUS
  <2>1. x # y
    BY DEF uniqSorted
  <2>2. OnStack(x)
    BY <1>3, <2>1
  <2>3. CASE z \notin rest[x]
    BY <1>2, <1>3, <2>2, <2>3 DEF Ranks
  <2>4. CASE stack # <<>> /\ x = Top(stack) /\ z = y
    BY <1>3, <2>4
  <2>5. z \notin rest[x] \/ (stack # <<>> /\ x = Top(stack) /\ z = y)
    BY <2>1
  <2> QED
    BY <2>3, <2>4, <2>5
<1>7. Ranks(rank, n)'
  <2>1. rank \in [Services -> Nat] /\ n \in Nat
    BY <1>2 DEF Ranks
  <2>2. \A x \in Services : Settled(x)' => rank[x] <= n
    BY <1>2, <1>4 DEF Ranks
  <2>3. \A x, z \in Services : <<x, z>> \in arcs /\ Settled(x)' =>
          EdgeReported(x, z)' \/ (Settled(z)' /\ rank[z] < rank[x])
    BY <1>2, <1>4, <1>5 DEF Ranks
  <2> QED
    BY <1>4, <1>5, <1>6, <2>1, <2>2, <2>3 DEF Ranks
<1> QED
  BY <1>7

\* The top of the stack takes the neighbour y off its list, and the edge to it
\* is reported or leads to a node that was left.
LEMMA PassRanks ==
  ASSUME BreakInv, call.cmd = "cycles", pc = "visit",
         NEW y \in Services, Top(stack) \in Services,
         rest' = [rest EXCEPT ![Top(stack)] = @ \ {y}],
         cycles \subseteq cycles', EdgeReported(Top(stack), y)' \/ Settled(y),
         UNCHANGED <<arcs, stack, seen>>
  PROVE  \E rank, n : Ranks(rank, n)'
<1>1. TypeOK
  BY DEF BreakInv, CircleInv
<1>2. PICK rank, n : Ranks(rank, n)
  BY DEF BreakInv
<1>3. \A x, z : EdgeReported(x, z) => EdgeReported(x, z)'
  BY DEF EdgeReported
<1>4. \A x, z : /\ Settled(x)' <=> Settled(x)
                /\ OnStack(x)' <=> OnStack(x)
                /\ Below(x, z)' <=> Below(x, z)
  BY DEF Settled, OnStack, Below
<1>5. \A x, z \in Services : z \notin rest'[x] =>
        z \notin rest[x] \/ (x = Top(stack) /\ z = y)
  BY <1>1 DEF TypeOK
<1>6. Ranks(rank, n)'
  <2>1. rank \in [Services -> Nat] /\ n \in Nat
    BY <1>2 DEF Ranks
  <2>2. \A x \in Services : Settled(x)' => rank[x] <= n
    BY <1>2, <1>4 DEF Ranks
  <2>3. \A x, z \in Services : <<x, z>> \in arcs /\ Settled(x)' =>
          EdgeReported(x, z)' \/ (Settled(z)' /\ rank[z] < rank[x])
    BY <1>2, <1>3, <1>4 DEF Ranks
  <2>4. \A x, z \in Services : <<x, z>> \in arcs /\ OnStack(x)' /\ z \notin rest'[x] =>
          EdgeReported(x, z)' \/ Settled(z)' \/ Below(x, z)'
    BY <1>2, <1>3, <1>4, <1>5 DEF Ranks
  <2> QED
    BY <2>1, <2>2, <2>3, <2>4 DEF Ranks
<1> QED
  BY <1>6

\* The top of the stack is left: it gets the next rank.
LEMMA LeaveRanks ==
  ASSUME BreakInv, call.cmd = "cycles", VisitReturn
  PROVE  \E rank, n : Ranks(rank, n)'
<1>0. PICK t : t = Top(stack)
  OBVIOUS
<1>1. /\ TypeOK /\ StackInv /\ stack # <<>> /\ rest[t] = {} /\ pc = "visit"
      /\ stack' = Pop(stack)
      /\ UNCHANGED <<arcs, seen, rest, cycles>>
  BY <1>0 DEF BreakInv, CircleInv, VisitReturn
<1>2. /\ Len(stack) \in Nat \ {0} /\ t \in Services /\ Len(stack') = Len(stack) - 1
      /\ \A i \in 1..(Len(stack) - 1) : stack'[i] = stack[i]
  BY <1>0, <1>1, PopTop DEF TypeOK
<1>3. stack[Len(stack)] = t /\ OnStack(t) /\ t \in seen
  BY <1>0, <1>1, <1>2 DEF StackInv, OnStack, Top
<1>4. PICK rank, n : Ranks(rank, n)
  BY <1>1 DEF BreakInv
<1>5. \A x : OnStack(x)' <=> OnStack(x) /\ x # t
  <2> SUFFICES ASSUME NEW x PROVE OnStack(x)' <=> OnStack(x) /\ x # t
    OBVIOUS
  <2>1. ASSUME OnStack(x)' PROVE OnStack(x) /\ x # t
    <3>1. PICK i \in 1..(Len(stack) - 1) : stack[i] = x
      BY <1>2, <2>1 DEF OnStack
    <3>2. i \in 1..Len(stack) /\ Len(stack) \in 1..Len(stack) /\ i # Len(stack)
      BY <1>2
    <3>3. stack[i] # stack[Len(stack)]
      BY <1>1, <3>2 DEF StackInv
    <3> QED
      BY <1>3, <3>1, <3>2, <3>3 DEF OnStack
  <2>2. ASSUME OnStack(x), x # t PROVE OnStack(x)'
    <3>1. PICK i \in 1..Len(stack) : stack[i] = x
      BY <2>2 DEF OnStack
    <3>2. i # Len(stack)
      BY <1>3, <2>2, <3>1
    <3>3. i \in 1..(Len(stack) - 1)
      BY <1>2, <3>2
    <3> QED
      BY <1>2, <3>1, <3>3 DEF OnStack
  <2> QED
    BY <2>1, <2>2
<1>6. \A x : Settled(x)' <=> Settled(x) \/ x = t
  BY <1>1, <1>3, <1>5 DEF Settled
<1>7. ~Settled(t)
  BY <1>3 DEF Settled
<1>8. \A x, z : EdgeReported(x, z)' <=> EdgeReported(x, z)
  BY <1>1 DEF EdgeReported
<1>9. \A x, z : Below(x, z) => x # t /\ (z = t \/ Below(x, z)')
  <2> SUFFICES ASSUME NEW x, NEW z, Below(x, z)
               PROVE  x # t /\ (z = t \/ Below(x, z)')
    OBVIOUS
  <2>1. PICK i \in 1..(Len(stack) - 1) : stack[i] = x /\ stack[i + 1] = z
    BY DEF Below
  <2>2. i \in 1..Len(stack) /\ Len(stack) \in 1..Len(stack) /\ i # Len(stack)
    BY <1>2
  <2>3. x # t
    BY <1>1, <1>3, <2>1, <2>2 DEF StackInv
  <2>4. CASE i + 1 = Len(stack)
    BY <1>3, <2>1, <2>3, <2>4
  <2>5. CASE i + 1 # Len(stack)
    <3>1. i \in 1..(Len(stack') - 1) /\ i + 1 \in 1..(Len(stack) - 1)
      BY <1>2, <2>5
    <3> QED
      BY <1>2, <2>1, <2>3, <3>1 DEF Below
  <2> QED
    BY <2>4, <2>5
<1>r. PICK r : r = [rank EXCEPT ![t] = n + 1]
  OBVIOUS
<1>m. PICK m : m = n + 1
  OBVIOUS
<1>10. /\ r \in [Services -> Nat] /\ m \in Nat /\ r[t] = m /\ m = n + 1
       /\ \A x \in Services : x # t => r[x] = rank[x]
       /\ rank \in [Services -> Nat] /\ n \in Nat
  BY <1>2, <1>4, <1>r, <1>m DEF Ranks
<1>11. \A x \in Services : Settled(x)' => r[x] <= m
  <2> SUFFICES ASSUME NEW x \in Services, Settled(x)' PROVE r[x] <= m
    OBVIOUS
  <2>1. CASE x = t
    BY <1>10, <2>1
  <2>2. CASE x # t
    <3>1. rank[x] <= n /\ rank[x] \in Nat /\ r[x] = rank[x]
      BY <1>4, <1>6, <1>10, <2>2 DEF Ranks
    <3> QED
      BY <1>10, <3>1
  <2> QED
    BY <2>1, <2>2
<1>12. \A x, z \in Services : <<x, z>> \in arcs /\ Settled(x)' =>
         EdgeReported(x, z) \/ (Settled(z)' /\ r[z] < r[x])
  <2> SUFFICES ASSUME NEW x \in Services, NEW z \in Services, <<x, z>> \in arcs,
                      Settled(x)', ~EdgeReported(x, z)
               PROVE  Settled(z)' /\ r[z] < r[x]
    OBVIOUS
  <2>1. CASE x = t
    <3>1. Settled(z)
      BY <1>1, <1>3, <1>4, <1>9, <2>1 DEF Ranks
    <3>2. z # t /\ rank[z] <= n
      BY <1>4, <1>7, <3>1 DEF Ranks
    <3>3. r[z] = rank[z] /\ rank[z] \in Nat
      BY <1>10, <3>2
    <3>4. r[z] < r[x]
      BY <1>10, <2>1, <3>2, <3>3
    <3> QED
      BY <1>6, <3>1, <3>4
  <2>2. CASE x # t
    <3>1. Settled(z) /\ rank[z] < rank[x]
      BY <1>4, <1>6, <2>2 DEF Ranks
    <3>2. z # t
      BY <1>7, <3>1
    <3>3. r[z] < r[x]
      BY <1>10, <2>2, <3>1, <3>2
    <3> QED
      BY <1>6, <3>1, <3>3
  <2> QED
    BY <2>1, <2>2
<1>13. \A x, z \in Services : <<x, z>> \in arcs /\ OnStack(x)' /\ z \notin rest[x] =>
         EdgeReported(x, z) \/ Settled(z)' \/ Below(x, z)'
  <2> SUFFICES ASSUME NEW x \in Services, NEW z \in Services, <<x, z>> \in arcs,
                      OnStack(x), z \notin rest[x]
               PROVE  EdgeReported(x, z) \/ Settled(z)' \/ Below(x, z)'
    BY <1>5
  <2>1. EdgeReported(x, z) \/ Settled(z) \/ Below(x, z)
    BY <1>4 DEF Ranks
  <2> QED
    BY <1>6, <1>9, <2>1
<1>14. Ranks(r, m)'
  <2>1. arcs' = arcs /\ rest' = rest
    BY <1>1
  <2>2. \A x, z \in Services : <<x, z>> \in arcs /\ Settled(x)' =>
          EdgeReported(x, z)' \/ (Settled(z)' /\ r[z] < r[x])
    BY <1>8, <1>12
  <2>3. \A x, z \in Services : <<x, z>> \in arcs /\ OnStack(x)' /\ z \notin rest'[x] =>
          EdgeReported(x, z)' \/ Settled(z)' \/ Below(x, z)'
    BY <1>8, <1>13, <2>1
  <2> QED
    BY <1>10, <1>11, <2>1, <2>2, <2>3 DEF Ranks
<1> QED
  BY <1>14

LEMMA StartRanks ==
  ASSUME BreakInv, StartCycles
  PROVE  \E rank, n : Ranks(rank, n)'
<1>1. seen' = {} /\ stack' = <<>>
  BY DEF BreakInv, CircleInv, StackInv, StartCycles
<1>2. \A x : ~Settled(x)' /\ ~OnStack(x)'
  BY <1>1 DEF Settled, OnStack
<1>3. PICK r : r = [x \in Services |-> 0]
  OBVIOUS
<1>4. Ranks(r, 0)'
  BY <1>2, <1>3 DEF Ranks
<1> QED
  BY <1>4

LEMMA BreakStep ==
  ASSUME BreakInv, Cycles
  PROVE  \E rank, n : Ranks(rank, n)'
<1>1. /\ TypeOK /\ CallOfPc /\ StackInv /\ stack \in Seq(Services)
      /\ rest \in [Services -> SUBSET Services] /\ TypeOK'
  BY CyclesTypeOK DEF BreakInv, CircleInv, TypeOK
<1>2. CASE StartCycles
  BY <1>2, StartRanks
<1>3. CASE VisitRoot
  <2>1. PICK y : y = First(White)
    OBVIOUS
  <2>2. y \in Services /\ y \notin seen
    BY <1>3, <2>1, FirstOf DEF VisitRoot, White
  <2>3. /\ call.cmd = "cycles" /\ pc = "visit" /\ stack = <<>>
        /\ stack' = Append(stack, y) /\ seen' = seen \cup {y}
        /\ rest' = [rest EXCEPT ![y] = uniqSorted(arcs, y)]
        /\ UNCHANGED <<arcs, cycles>>
    BY <1>1, <1>3, <2>1 DEF VisitRoot, CallOfPc
  <2>4. /\ rest' \in [Services -> SUBSET Services] /\ rest'[y] = uniqSorted(arcs, y)
        /\ \A x, z \in Services : x # y /\ z \notin rest'[x] =>
            z \notin rest[x] \/ (stack # <<>> /\ x = Top(stack) /\ z = y)
    BY <1>1, <2>2, <2>3 DEF TypeOK
  <2> QED
    BY <2>2, <2>3, <2>4, EnterRanks
<1>4. CASE VisitWhite
  <2>1. PICK t, y : t = Top(stack) /\ y = First(rest[t])
    OBVIOUS
  <2>2. /\ call.cmd = "cycles" /\ pc = "visit" /\ stack # <<>> /\ rest[t] # {}
        /\ y \notin seen /\ stack' = Append(stack, y) /\ seen' = seen \cup {y}
        /\ rest' = [rest EXCEPT ![t] = @ \ {y}, ![y] = uniqSorted(arcs, y)]
        /\ UNCHANGED <<arcs, cycles>>
    BY <1>1, <1>4, <2>1 DEF VisitWhite, CallOfPc
  <2>3. t \in Services /\ y \in Services
    BY <1>1, <2>1, <2>2, PopTop, FirstOf
  <2>4. /\ rest' \in [Services -> SUBSET Services] /\ rest'[y] = uniqSorted(arcs, y)
        /\ \A x, z \in Services : x # y /\ z \notin rest'[x] =>
            z \notin rest[x] \/ (x = t /\ z = y)
    BY <1>1, <2>2, <2>3 DEF TypeOK
  <2>5. \A x, z \in Services : x # y /\ z \notin rest'[x] =>
            z \notin rest[x] \/ (stack # <<>> /\ x = Top(stack) /\ z = y)
    BY <2>1, <2>2, <2>4
  <2> QED
    BY <2>2, <2>3, <2>4, <2>5, EnterRanks
<1>5. CASE VisitGray \/ VisitBlack
  <2>1. PICK y : y = First(rest[Top(stack)])
    OBVIOUS
  <2>2. /\ call.cmd = "cycles" /\ pc = "visit" /\ stack # <<>> /\ rest[Top(stack)] # {}
        /\ rest' = [rest EXCEPT ![Top(stack)] = @ \ {y}]
        /\ UNCHANGED <<arcs, stack, seen>>
    BY <1>1, <1>5, <2>1 DEF VisitGray, VisitBlack, CallOfPc
  <2>3. Top(stack) \in Services /\ y \in Services
    BY <1>1, <2>1, <2>2, PopTop, FirstOf
  <2>4. cycles \subseteq cycles'
    BY <1>5 DEF VisitGray, VisitBlack
  <2>5. EdgeReported(Top(stack), y)' \/ Settled(y)
    <3>1. CASE VisitGray
      <4>1. PICK c : c = cycleFromStack(y)
        OBVIOUS
      <4>2. OnStack(y) /\ c \in cycles'
        BY <2>1, <3>1, <4>1 DEF VisitGray
      <4>3. \E i \in 1..(Len(c) - 1) : c[i] = Top(stack) /\ c[i + 1] = y
        BY <1>1, <2>2, <4>1, <4>2, ClosingEdge
      <4> QED
        BY <2>2, <4>2, <4>3 DEF EdgeReported
    <3>2. CASE VisitBlack
      BY <2>1, <3>2 DEF VisitBlack, Settled
    <3> QED
      BY <1>5, <3>1, <3>2
  <2> QED
    BY <2>2, <2>3, <2>4, <2>5, PassRanks
<1>6. CASE VisitReturn
  <2>1. call.cmd = "cycles"
    BY <1>1, <1>6 DEF VisitReturn, CallOfPc
  <2> QED
    BY <1>6, <2>1, LeaveRanks
<1>7. CASE CyclesEnd
  <2>1. call.cmd = "cycles" /\ pc = "visit"
    BY <1>1, <1>7 DEF CyclesEnd, CallOfPc
  <2>2. PICK rank, n : Ranks(rank, n)
    BY <2>1 DEF BreakInv
  <2>3. UNCHANGED <<arcs, stack, rest, seen, cycles>>
    BY <1>7 DEF CyclesEnd
  <2>4. Ranks(rank, n)'
    BY <2>2, <2>3 DEF Ranks, Settled, OnStack, EdgeReported, Below
  <2> QED
    BY <2>4
<1> QED
  BY <1>2, <1>3, <1>4, <1>5, <1>6, <1>7 DEF Cycles

LEMMA BreakNext == BreakInv /\ [Next]_vars => BreakInv'
<1> SUFFICES ASSUME BreakInv, [Next]_vars PROVE BreakInv'
  OBVIOUS
<1>1. CircleInv' /\ CallOfPc /\ StackInv
  BY CircleNext DEF BreakInv, CircleInv
<1>2. CASE Downstream
  <2>1. call.cmd = "impact" /\ call' = call /\ pc' # "start"
    BY <1>1, <1>2 DEF Downstream, StartImpact, WalkLeaf, WalkChild, WalkReturn, CallOfPc, input
  <2> QED
    BY <1>1, <2>1 DEF BreakInv
<1>3. CASE Shortest
  <2>1. call.cmd = "path" /\ call' = call /\ pc' # "start"
    BY <1>1, <1>3 DEF Shortest, RefusePath, StartPath, SearchSeen, SearchNew, SearchFound,
       SearchDequeue, ShortestAny, NoPath, CallOfPc, input
  <2> QED
    BY <1>1, <2>1 DEF BreakInv
<1>4. CASE Cycles
  <2>1. \E rank, n : Ranks(rank, n)'
    BY <1>4, BreakStep
  <2>2. pc' # "start" /\ (pc' = "done" => CyclesEnd)
    BY <1>4 DEF Cycles, StartCycles, VisitRoot, VisitWhite, VisitGray, VisitBlack,
       VisitReturn, CyclesEnd
  <2>3. CyclesEnd => stack' = <<>> /\ White' = {}
    BY DEF CyclesEnd, White
  <2> QED
    BY <1>1, <2>1, <2>2, <2>3 DEF BreakInv
<1>5. CASE UNCHANGED vars
  <2>1. UNCHANGED <<call, arcs, pc, stack, rest, seen, cycles>>
    BY <1>5 DEF vars
  <2>2. White' = White
    BY <2>1 DEF White
  <2>3. ASSUME call.cmd = "cycles", pc # "start"
        PROVE  \E rank, n : Ranks(rank, n)'
    <3>1. PICK rank, n : Ranks(rank, n)
      BY <2>3 DEF BreakInv
    <3>2. Ranks(rank, n)'
      BY <2>1, <3>1 DEF Ranks, Settled, OnStack, EdgeReported, Below
    <3> QED
      BY <3>2
  <2> QED
    BY <1>1, <2>1, <2>2, <2>3 DEF BreakInv
<1> QED
  BY <1>2, <1>3, <1>4, <1>5 DEF Next

LEMMA BreakAll == BreakInv => CyclesBreakAll
<1> SUFFICES ASSUME BreakInv, call.cmd = "cycles", pc = "done"
             PROVE  CyclesBreakAll
  BY DEF CyclesBreakAll
<1> DEFINE reported == UNION {{<<c[i], c[i + 1]>> : i \in 1..(Len(c) - 1)} : c \in cycles}
           left == Unlooped(edges) \ reported
<1>1. /\ arcs = Unlooped(edges) /\ stack = <<>> /\ White = {}
      /\ arcs \subseteq Edges /\ seen \subseteq Services
  BY DEF BreakInv, CircleInv, StackInv, TypeOK
<1>2. PICK rank, n : Ranks(rank, n)
  BY DEF BreakInv
<1>3. \A a \in arcs : a[1] \in seen
  BY <1>1 DEF White, Edges
<1>4. \A x, y : EdgeReported(x, y) => <<x, y>> \in reported
  BY DEF EdgeReported
<1>5. \A x : Settled(x) <=> x \in seen
  BY <1>1 DEF Settled, OnStack
<1>6. \A a \in left : a[1] \in Services /\ a[2] \in Services /\ rank[a[2]] < rank[a[1]]
  <2> SUFFICES ASSUME NEW a \in left
               PROVE  a[1] \in Services /\ a[2] \in Services /\ rank[a[2]] < rank[a[1]]
    OBVIOUS
  <2>1. a \in arcs /\ a \notin reported
    BY <1>1
  <2> HIDE DEF reported, left
  <2>2. a[1] \in Services /\ a[2] \in Services /\ a = <<a[1], a[2]>>
    BY <1>1, <2>1 DEF Edges
  <2>3. ~EdgeReported(a[1], a[2]) /\ Settled(a[1])
    BY <1>3, <1>4, <1>5, <2>1, <2>2
  <2> QED
    BY <1>2, <2>1, <2>2, <2>3 DEF Ranks
<1> HIDE DEF reported, left
<1>7. ASSUME NEW a \in left
      PROVE  a[1] \notin Reach(left, a[2])
  <2> DEFINE S == {z \in Services : rank[z] <= rank[a[2]]}
  <2>1. \A z \in Services : rank[z] \in Nat
    BY <1>2 DEF Ranks
  <2>2. a[2] \in S /\ a[1] \notin S
    BY <1>6, <2>1
  <2>3. Closed(left, S)
    BY <1>6, <2>1 DEF Closed
  <2> QED
    BY <2>2, <2>3 DEF Reach
<1> QED
  BY <1>7 DEF CyclesBreakAll, reported, left

\* A graph for which no circle is reported has none: whatever is left when the
\* edges of the reported circles are taken away has no circle.
THEOREM CyclesBreakAllHolds == Spec => []CyclesBreakAll
  BY BreakInit, BreakNext, BreakAll, PTL DEF Spec

-----------------------------------------------------------------------------
(* No search goes on for ever: each step lowers a number.                   *)

\* The pairs that are still to be looked at: every neighbour of a node that was
\* not seen may be.
Left(s, r) == {e \in Edges : e[1] \in s => e[2] \in r[e[1]]}

\* What a search that has seen s, with the neighbours r to look at, can still do.
Ahead(s, r) == Cardinality(Left(s, r)) + Cardinality(Services \ s)

\* What a search has ahead of it at most.
Whole == Cardinality(Edges) + Cardinality(Services)

\* Looking and entering lower what is ahead by one or more, and entering puts one
\* node on the stack or one path into the queue, which a return takes off again.
Measure ==
  2 * Ahead(seen, rest) + Len(stack) + Len(queue)
    + (IF pc = "start" THEN 3 ELSE IF pc = "done" THEN 0 ELSE 1)
    + (IF dir = "depends_on" THEN 2 * Whole + 2 ELSE 0)

LEMMA AheadTyped ==
  ASSUME NEW s \in SUBSET Services, NEW r
  PROVE  /\ IsFiniteSet(Left(s, r)) /\ IsFiniteSet(Services \ s)
         /\ Cardinality(Left(s, r)) \in Nat /\ Cardinality(Services \ s) \in Nat
         /\ Whole \in Nat /\ Ahead(s, r) \in Nat /\ Ahead(s, r) <= Whole
<1>1. IsFiniteSet(Services) /\ IsFiniteSet(Edges)
  BY GraphAssumption, FS_Product DEF Edges
<1>2. Left(s, r) \in SUBSET Edges /\ Services \ s \in SUBSET Services
  BY DEF Left
<1>3. /\ IsFiniteSet(Left(s, r)) /\ Cardinality(Left(s, r)) <= Cardinality(Edges)
      /\ IsFiniteSet(Services \ s) /\ Cardinality(Services \ s) <= Cardinality(Services)
  BY <1>1, <1>2, FS_Subset
<1>4. /\ Cardinality(Left(s, r)) \in Nat /\ Cardinality(Services \ s) \in Nat
      /\ Cardinality(Edges) \in Nat /\ Cardinality(Services) \in Nat
  BY <1>1, <1>3, FS_CardinalityType
<1> QED
  BY <1>3, <1>4 DEF Ahead, Whole

\* Fewer pairs or fewer nodes, and no more of the other.
LEMMA AheadLess ==
  ASSUME NEW s \in SUBSET Services, NEW r, NEW s2 \in SUBSET Services, NEW r2,
         s \subseteq s2, Left(s2, r2) \subseteq Left(s, r),
         s # s2 \/ Left(s2, r2) # Left(s, r)
  PROVE  Ahead(s2, r2) < Ahead(s, r)
<1> DEFINE u  == Services \ s
           u2 == Services \ s2
           l  == Left(s, r)
           l2 == Left(s2, r2)
<1>1. /\ IsFiniteSet(l) /\ IsFiniteSet(u)
      /\ Cardinality(l) \in Nat /\ Cardinality(u) \in Nat
      /\ Cardinality(l2) \in Nat /\ Cardinality(u2) \in Nat
  BY AheadTyped
<1>2. l2 \in SUBSET l /\ u2 \in SUBSET u /\ (u2 # u \/ l2 # l)
  OBVIOUS
<1>3. Ahead(s, r) = Cardinality(l) + Cardinality(u)
      /\ Ahead(s2, r2) = Cardinality(l2) + Cardinality(u2)
  BY DEF Ahead
<1> HIDE DEF u, u2, l, l2
<1>4. /\ Cardinality(l2) <= Cardinality(l) /\ (Cardinality(l2) = Cardinality(l) => l2 = l)
      /\ Cardinality(u2) <= Cardinality(u) /\ (Cardinality(u2) = Cardinality(u) => u2 = u)
  BY <1>1, <1>2, FS_Subset
<1>5. Cardinality(l2) # Cardinality(l) \/ Cardinality(u2) # Cardinality(u)
  BY <1>2, <1>4
<1> QED
  BY <1>1, <1>3, <1>4, <1>5

\* The neighbour y of a node x that was seen is looked at.
LEMMA AheadLook ==
  ASSUME TypeOK, NEW x \in seen, NEW y \in rest[x]
  PROVE  Ahead(seen, [rest EXCEPT ![x] = @ \ {y}]) < Ahead(seen, rest)
<1> DEFINE r2 == [rest EXCEPT ![x] = @ \ {y}]
<1>1. /\ rest \in [Services -> SUBSET Services] /\ seen \in SUBSET Services
      /\ x \in Services /\ y \in Services
  BY DEF TypeOK
<1>2. r2[x] = rest[x] \ {y} /\ \A z \in Services : r2[z] \subseteq rest[z]
  BY <1>1
<1> HIDE DEF r2
<1>3. Left(seen, r2) \subseteq Left(seen, rest)
  BY <1>2 DEF Left, Edges
<1>4. <<x, y>> \in Left(seen, rest) /\ <<x, y>> \notin Left(seen, r2)
  BY <1>1, <1>2 DEF Left, Edges
<1>5. Ahead(seen, r2) < Ahead(seen, rest)
  BY <1>1, <1>3, <1>4, AheadLess
<1> QED
  BY <1>5 DEF r2

\* A node y that was not seen is entered; the lists of the others do not grow.
LEMMA AheadEnter ==
  ASSUME TypeOK, NEW y \in Services, y \notin seen, NEW r2,
         \A z \in seen : r2[z] \subseteq rest[z]
  PROVE  Ahead(seen \cup {y}, r2) < Ahead(seen, rest)
<1>1. seen \in SUBSET Services /\ seen \cup {y} \in SUBSET Services
  BY DEF TypeOK
<1>2. Left(seen \cup {y}, r2) \subseteq Left(seen, rest)
  BY DEF Left
<1>3. seen # seen \cup {y}
  OBVIOUS
<1> QED
  BY <1>1, <1>2, <1>3, AheadLess

\* Nothing is done before the start.
StartInv == pc = "start" => seen = {} /\ stack = <<>> /\ queue = <<>> /\ dir = "depends_on"

LEMMA StartNext == StartInv /\ [Next]_vars => StartInv'
  BY DEF StartInv, Next, Downstream, StartImpact, WalkLeaf, WalkChild,
         WalkReturn, Cycles, StartCycles, VisitRoot, VisitWhite, VisitGray,
         VisitBlack, VisitReturn, CyclesEnd, Shortest, RefusePath, StartPath,
         SearchSeen, SearchNew, SearchFound, SearchDequeue, ShortestAny, NoPath,
         input, vars

\* What stands to be looked at belongs to nodes that were seen.
ProgressInv == TypeOK /\ CallOfPc /\ ImpactInv /\ SearchInv /\ StackInv /\ StartInv

\* A node on the stack, and the last node of the first path, were seen.
LEMMA ActiveSeen ==
  ASSUME ProgressInv
  PROVE  /\ pc \in {"walk", "visit"} /\ stack # <<>> => Top(stack) \in seen
         /\ pc = "search" /\ queue # <<>> =>
              /\ Top(Head(queue)) \in Services
              /\ rest[Top(Head(queue))] # {} => Top(Head(queue)) \in seen
<1>1. TypeOK
  BY DEF ProgressInv
<1>2. ASSUME stack # <<>>, pc \in {"walk", "visit"}
      PROVE  Top(stack) \in seen
  <2>1. Len(stack) \in 1..Len(stack)
    BY <1>1, <1>2, PopTop DEF TypeOK
  <2>2. \A i \in 1..Len(stack) : stack[i] \in seen
    BY <1>2 DEF ProgressInv, CallOfPc, ImpactInv, StackInv
  <2> QED
    BY <2>1, <2>2 DEF Top
<1>3. ASSUME pc = "search", queue # <<>>
      PROVE  /\ Top(Head(queue)) \in Services
             /\ rest[Top(Head(queue))] # {} => Top(Head(queue)) \in seen
  <2>1. Head(queue) \in Paths
    <3>1. Len(queue) \in Nat \ {0} /\ queue[1] = Head(queue)
          /\ \A i \in 1..Len(queue) : queue[i] \in Paths
      BY <1>1, <1>3, QueueTyped
    <3> QED
      BY <3>1
  <2>2. Top(Head(queue)) \in Services
    BY <2>1, PopTop DEF Paths
  <2> QED
    BY <1>3, <2>2 DEF ProgressInv, SearchInv
<1> QED
  BY <1>2, <1>3

\* The first of the neighbours that a node has to look at.
LEMMA NextOf ==
  ASSUME TypeOK, NEW x \in Services, rest[x] # {}
  PROVE  First(rest[x]) \in rest[x] /\ First(rest[x]) \in Services
  BY FirstOf DEF TypeOK

\* Every loop step looks at a neighbour, enters a node or leaves one.
LEMMA LookLess ==
  ASSUME ProgressInv, WalkLeaf \/ VisitGray \/ VisitBlack \/ SearchSeen
  PROVE  /\ Ahead(seen', rest') < Ahead(seen, rest)
         /\ UNCHANGED <<pc, stack, queue, dir>>
<1>1. PICK x \in seen : /\ rest[x] # {}
                        /\ rest' = [rest EXCEPT ![x] = @ \ {First(rest[x])}]
  <2>1. CASE WalkLeaf \/ VisitGray \/ VisitBlack
    <3>1. Top(stack) \in seen
      BY <2>1, ActiveSeen DEF WalkLeaf, VisitGray, VisitBlack
    <3> QED
      BY <2>1, <3>1 DEF WalkLeaf, VisitGray, VisitBlack
  <2>2. CASE SearchSeen
    <3>1. Top(Head(queue)) \in seen
      BY <2>2, ActiveSeen DEF SearchSeen
    <3> QED
      BY <2>2, <3>1 DEF SearchSeen
  <2> QED
    BY <2>1, <2>2
<1>2. UNCHANGED <<seen, pc, stack, queue, dir>>
  BY DEF WalkLeaf, VisitGray, VisitBlack, SearchSeen
<1>3. TypeOK /\ x \in Services
  BY DEF ProgressInv, TypeOK
<1>4. First(rest[x]) \in rest[x]
  BY <1>1, <1>3, NextOf
<1>5. Ahead(seen, [rest EXCEPT ![x] = @ \ {First(rest[x])}]) < Ahead(seen, rest)
  BY <1>3, <1>4, AheadLook
<1> QED
  BY <1>1, <1>2, <1>5

LEMMA EnterLess ==
  ASSUME ProgressInv, WalkChild \/ VisitRoot \/ VisitWhite \/ SearchNew
  PROVE  /\ Ahead(seen', rest') < Ahead(seen, rest)
         /\ Len(stack') + Len(queue') = Len(stack) + Len(queue) + 1
         /\ UNCHANGED <<pc, dir>>
<1>1. /\ TypeOK /\ stack \in Seq(Services) /\ queue \in Seq(Paths)
      /\ Len(stack) \in Nat /\ Len(queue) \in Nat
  BY DEF ProgressInv, TypeOK
<1>2. UNCHANGED <<pc, dir>>
  BY DEF WalkChild, VisitRoot, VisitWhite, SearchNew
<1>3. \A x \in seen : \A y, z \in Services : \A S :
        /\ z # x => [rest EXCEPT ![y] = S][x] = (IF x = y THEN S ELSE rest[x])
        /\ x # z => [rest EXCEPT ![y] = @ \ {z}, ![z] = S][x] \subseteq rest[x]
  BY <1>1 DEF TypeOK
<1>4. PICK y \in Services : /\ y \notin seen /\ seen' = seen \cup {y}
                            /\ \A z \in seen : rest'[z] \subseteq rest[z]
  <2>1. CASE WalkChild \/ VisitWhite
    <3> DEFINE id == Top(stack)
               next == First(rest[id])
    <3>1. id \in seen /\ id \in Services
      BY <1>1, <2>1, ActiveSeen DEF WalkChild, VisitWhite, TypeOK
    <3>2. next \in Services
      BY <1>1, <2>1, <3>1, NextOf DEF WalkChild, VisitWhite
    <3>3. /\ next \notin seen /\ seen' = seen \cup {next}
          /\ rest' = [rest EXCEPT ![id] = @ \ {next}, ![next] = uniqSorted(arcs, next)]
      BY <2>1 DEF WalkChild, VisitWhite
    <3> HIDE DEF id, next
    <3> QED
      BY <1>3, <3>1, <3>2, <3>3
  <2>2. CASE VisitRoot
    <3> DEFINE id == First(White)
    <3>1. id \in White
      BY <2>2, FirstOf DEF VisitRoot, White
    <3>2. id \in Services /\ id \notin seen
      BY <3>1 DEF White
    <3>3. seen' = seen \cup {id} /\ rest' = [rest EXCEPT ![id] = uniqSorted(arcs, id)]
      BY <2>2 DEF VisitRoot
    <3> HIDE DEF id
    <3> QED
      BY <1>1, <3>2, <3>3 DEF TypeOK
  <2>3. CASE SearchNew
    <3> DEFINE id == Top(Head(queue))
               next == First(rest[id])
    <3>1. id \in seen /\ id \in Services
      BY <1>1, <2>3, ActiveSeen DEF SearchNew, TypeOK
    <3>2. next \in Services
      BY <1>1, <2>3, <3>1, NextOf DEF SearchNew
    <3>3. /\ next \notin seen /\ seen' = seen \cup {next}
          /\ rest' = [rest EXCEPT ![id] = @ \ {next}, ![next] = uniqSorted(arcs, next)]
      BY <2>3 DEF SearchNew
    <3> HIDE DEF id, next
    <3> QED
      BY <1>3, <3>1, <3>2, <3>3
  <2> QED
    BY <2>1, <2>2, <2>3
<1>5. Len(stack') + Len(queue') = Len(stack) + Len(queue) + 1
  <2>1. CASE WalkChild \/ VisitWhite \/ VisitRoot
    <3>1. queue' = queue
      BY <2>1 DEF WalkChild, VisitWhite, VisitRoot
    <3>2. CASE WalkChild \/ VisitWhite
      <4>1. stack' = Append(stack, First(rest[Top(stack)]))
        BY <3>2 DEF WalkChild, VisitWhite
      <4> QED
        BY <1>1, <3>1, <4>1
    <3>3. CASE VisitRoot
      <4>1. stack = <<>> /\ stack' = <<First(White)>>
        BY <3>3 DEF VisitRoot
      <4> QED
        BY <1>1, <3>1, <4>1
    <3> QED
      BY <2>1, <3>2, <3>3
  <2>2. CASE SearchNew
    <3>1. stack' = stack
      BY <2>2 DEF SearchNew
    <3>2. Len(queue') = Len(queue) + 1
      BY <1>1, <2>2 DEF SearchNew
    <3> QED
      BY <1>1, <3>1, <3>2
  <2> QED
    BY <2>1, <2>2
<1>6. Ahead(seen \cup {y}, rest') < Ahead(seen, rest)
  BY <1>1, <1>4, AheadEnter
<1> QED
  BY <1>2, <1>4, <1>5, <1>6

LEMMA LeaveLess ==
  ASSUME ProgressInv, WalkReturn \/ VisitReturn \/ SearchDequeue
  PROVE  /\ Len(stack') + Len(queue') = Len(stack) + Len(queue) - 1
         /\ pc \notin {"start", "done"} /\ pc' # "start"
         /\ UNCHANGED <<seen, rest, dir>>
<1>1. /\ TypeOK /\ stack \in Seq(Services) /\ queue \in Seq(Paths)
      /\ Len(stack) \in Nat /\ Len(queue) \in Nat
  BY DEF ProgressInv, TypeOK
<1>2. CASE WalkReturn \/ VisitReturn
  <2>1. stack # <<>> /\ stack' = Pop(stack) /\ queue' = queue
    BY <1>2 DEF WalkReturn, VisitReturn
  <2>2. Len(stack') = Len(stack) - 1
    BY <1>1, <2>1, PopTop
  <2>3. Len(stack') + Len(queue') = Len(stack) + Len(queue) - 1
    BY <1>1, <2>1, <2>2
  <2> QED
    BY <1>2, <2>3 DEF WalkReturn, VisitReturn
<1>3. CASE SearchDequeue
  <2>1. queue # <<>> /\ queue' = Tail(queue) /\ stack' = stack
    BY <1>3 DEF SearchDequeue
  <2>2. Len(queue') = Len(queue) - 1
    BY <1>1, <2>1
  <2>3. Len(stack') + Len(queue') = Len(stack) + Len(queue) - 1
    BY <1>1, <2>1, <2>2
  <2> QED
    BY <1>3, <2>3 DEF SearchDequeue
<1> QED
  BY <1>2, <1>3

LEMMA StartLess ==
  ASSUME ProgressInv, StartImpact \/ StartCycles \/ StartPath \/ RefusePath
  PROVE  /\ Ahead(seen', rest') <= Ahead(seen, rest)
         /\ Len(stack') + Len(queue') <= Len(stack) + Len(queue) + 1
         /\ pc = "start" /\ pc' # "start"
         /\ UNCHANGED dir
<1>1. /\ TypeOK /\ call.from \in Services
      /\ pc = "start" /\ seen = {} /\ stack = <<>> /\ queue = <<>>
  BY DEF ProgressInv, StartInv, TypeOK, Calls,
         StartImpact, StartCycles, StartPath, RefusePath
<1>2. Ahead(seen', rest') <= Ahead(seen, rest)
  <2>1. CASE StartCycles \/ RefusePath
    <3>1. seen' = seen /\ rest' = rest
      BY <2>1 DEF StartCycles, RefusePath
    <3>2. Ahead(seen, rest) \in Nat
      BY <1>1, AheadTyped DEF TypeOK
    <3> QED
      BY <3>1, <3>2
  <2>2. CASE StartImpact \/ StartPath
    <3>1. seen' = seen \cup {call.from}
      BY <1>1, <2>2 DEF StartImpact, StartPath
    <3>2. \A z \in seen : rest'[z] \subseteq rest[z]
      BY <1>1
    <3>3. call.from \notin seen
      BY <1>1
    <3>4. Ahead(seen \cup {call.from}, rest') < Ahead(seen, rest)
      BY <1>1, <3>2, <3>3, AheadEnter
    <3>5. Ahead(seen, rest) \in Nat /\ Ahead(seen', rest') \in Nat
      BY <1>1, <3>1, AheadTyped DEF TypeOK
    <3> QED
      BY <3>1, <3>4, <3>5
  <2> QED
    BY <2>1, <2>2
<1>3. Len(stack') + Len(queue') <= Len(stack) + Len(queue) + 1
  <2>1. Len(stack) = 0 /\ Len(queue) = 0
    BY <1>1
  <2>2. CASE StartCycles \/ RefusePath
    BY <1>1, <2>2 DEF StartCycles, RefusePath
  <2>3. CASE StartImpact
    BY <1>1, <2>3 DEF StartImpact
  <2>4. CASE StartPath
    BY <1>1, <2>4 DEF StartPath
  <2> QED
    BY <2>2, <2>3, <2>4
<1> QED
  BY <1>1, <1>2, <1>3 DEF StartImpact, StartCycles, StartPath, RefusePath

LEMMA MeasureNat ==
  ASSUME TypeOK
  PROVE  Measure \in Nat
<1>1. Ahead(seen, rest) \in Nat /\ Whole \in Nat
  BY AheadTyped DEF TypeOK
<1>2. Len(stack) \in Nat /\ Len(queue) \in Nat
  BY DEF TypeOK
<1> QED
  BY <1>1, <1>2 DEF Measure

LEMMA MeasureLess ==
  ASSUME ProgressInv, Next, TypeOK'
  PROVE  Measure' < Measure
<1> DEFINE a  == Ahead(seen, rest)
           a2 == Ahead(seen', rest')
           k  == Len(stack) + Len(queue)
           k2 == Len(stack') + Len(queue')
           p  == IF pc = "start" THEN 3 ELSE IF pc = "done" THEN 0 ELSE 1
           p2 == IF pc' = "start" THEN 3 ELSE IF pc' = "done" THEN 0 ELSE 1
           d  == IF dir = "depends_on" THEN 2 * Whole + 2 ELSE 0
           d2 == IF dir' = "depends_on" THEN 2 * Whole + 2 ELSE 0
<1>1. /\ a \in Nat /\ a2 \in Nat /\ Whole \in Nat /\ a <= Whole /\ a2 <= Whole
      /\ Len(stack) \in Nat /\ Len(queue) \in Nat
      /\ Len(stack') \in Nat /\ Len(queue') \in Nat
  <2>1. seen \in SUBSET Services /\ seen' \in SUBSET Services
    BY DEF ProgressInv, TypeOK
  <2>2. stack \in Seq(Services) /\ queue \in Seq(Paths)
    BY DEF ProgressInv, TypeOK
  <2>3. stack' \in Seq(Services) /\ queue' \in Seq(Paths)
    BY DEF TypeOK
  <2>4. a \in Nat /\ a <= Whole /\ Whole \in Nat
    BY <2>1, AheadTyped
  <2>5. a2 \in Nat /\ a2 <= Whole
    BY <2>1, AheadTyped
  <2> QED
    BY <2>2, <2>3, <2>4, <2>5
<1>2. /\ Measure = 2 * a + k + p + d /\ Measure' = 2 * a2 + k2 + p2 + d2
      /\ k \in Nat /\ k2 \in Nat
  BY SMTT(30), <1>1 DEF Measure
<1>3. p \in Nat /\ p2 \in Nat /\ d \in Nat /\ d2 \in Nat
  BY <1>1
<1>4. CASE WalkLeaf \/ VisitGray \/ VisitBlack \/ SearchSeen
  <2>1. a2 < a /\ k2 = k /\ p2 = p /\ d2 = d
    BY <1>4, LookLess
  <2> HIDE DEF a, a2, k, k2, p, p2, d, d2
  <2> QED
    BY <1>1, <1>2, <1>3, <2>1
<1>5. CASE WalkChild \/ VisitRoot \/ VisitWhite \/ SearchNew
  <2>1. a2 < a /\ k2 = k + 1 /\ p2 = p /\ d2 = d
    BY <1>5, EnterLess
  <2> HIDE DEF a, a2, k, k2, p, p2, d, d2
  <2> QED
    BY <1>1, <1>2, <1>3, <2>1
<1>6. CASE WalkReturn \/ VisitReturn \/ SearchDequeue
  <2>1. a2 = a /\ k2 = k - 1 /\ p2 <= p /\ d2 = d
    BY <1>1, <1>6, LeaveLess
  <2> HIDE DEF a, a2, k, k2, p, p2, d, d2
  <2> QED
    BY <1>1, <1>2, <1>3, <2>1
<1>7. CASE StartImpact \/ StartCycles \/ StartPath \/ RefusePath
  <2>1. a2 <= a /\ k2 <= k + 1 /\ p2 + 2 <= p /\ d2 = d
    BY <1>7, StartLess
  <2> HIDE DEF a, a2, k, k2, p, p2, d, d2
  <2> QED
    BY <1>1, <1>2, <1>3, <2>1
<1>8. CASE CyclesEnd \/ SearchFound \/ NoPath
  <2>1. UNCHANGED <<seen, rest, stack, queue, dir>>
    BY <1>8 DEF CyclesEnd, SearchFound, NoPath
  <2>2. pc' = "done" /\ pc \notin {"start", "done"}
    BY <1>8 DEF CyclesEnd, SearchFound, NoPath
  <2>3. a2 = a /\ k2 = k /\ p2 < p /\ d2 = d
    BY <1>1, <2>1, <2>2
  <2> HIDE DEF a, a2, k, k2, p, p2, d, d2
  <2> QED
    BY <1>1, <1>2, <1>3, <2>3
<1>9. CASE ShortestAny
  <2>1. p2 = p
    BY <1>9 DEF ShortestAny
  <2>2. d = 2 * Whole + 2 /\ d2 = 0
    BY <1>1, <1>9 DEF ShortestAny
  <2>3. k2 <= k + 1
    <3>1. stack' = stack /\ queue = <<>> /\ queue' = <<<<call.from>>>>
      BY <1>9 DEF ShortestAny
    <3>2. Len(queue) = 0 /\ Len(queue') = 1
      BY <3>1
    <3> QED
      BY <1>1, <3>1, <3>2
  <2> HIDE DEF a, a2, k, k2, p, p2, d, d2
  <2> QED
    BY <1>1, <1>2, <1>3, <2>1, <2>2, <2>3
<1> QED
  BY <1>4, <1>5, <1>6, <1>7, <1>8, <1>9 DEF Next, Downstream, Cycles, Shortest

LEMMA MeasureFirst ==
  ASSUME Init
  PROVE  StartInv /\ Measure = 4 * Whole + 5
<1>1. StartInv /\ pc = "start"
  BY DEF Init, StartInv
<1>2. Left(seen, rest) = Edges /\ Services \ seen = Services
  BY <1>1 DEF StartInv, Left
<1>3. Ahead(seen, rest) = Whole
  BY <1>2 DEF Ahead, Whole
<1>4. Whole \in Nat
  BY <1>1, AheadTyped DEF StartInv
<1>5. Len(stack) = 0 /\ Len(queue) = 0
  BY <1>1 DEF StartInv
<1> QED
  BY <1>1, <1>3, <1>4, <1>5 DEF Measure, StartInv

\* impact.go:62, 119, pathfind.go:52. On every graph, with circles and loops too,
\* each step of a search lowers a natural number, which is 4(n * n + n) + 5 at
\* first for n services: no search makes more steps than that.
THEOREM EachStepIsProgress ==
  Spec => /\ Measure = 4 * (Cardinality(Services) * Cardinality(Services)
                             + Cardinality(Services)) + 5
          /\ [](Measure \in Nat)
          /\ [][Measure' < Measure]_vars
<1>1. Whole = Cardinality(Services) * Cardinality(Services) + Cardinality(Services)
  BY GraphAssumption, FS_Product DEF Whole, Edges
<1>2. Init => Measure = 4 * (Cardinality(Services) * Cardinality(Services)
                             + Cardinality(Services)) + 5
  BY <1>1, MeasureFirst
<1>3. Init => StartInv
  BY MeasureFirst
<1>4. DownInv /\ PathInv /\ CircleInv /\ StartInv => ProgressInv
  BY DEF DownInv, PathInv, CircleInv, ProgressInv
<1>5. ProgressInv /\ [Next]_vars => [Measure' < Measure]_vars
  <2> SUFFICES ASSUME ProgressInv, [Next]_vars
               PROVE  [Measure' < Measure]_vars
    OBVIOUS
  <2>1. CASE Next
    <3>1. TypeOK'
      BY NextTypeOK DEF ProgressInv
    <3> QED
      BY <2>1, <3>1, MeasureLess
  <2>2. CASE UNCHANGED vars
    BY <2>2
  <2> QED
    BY <2>1, <2>2
<1>6. ProgressInv => Measure \in Nat
  BY MeasureNat DEF ProgressInv
<1>7. Spec => []StartInv
  BY <1>3, StartNext, PTL DEF Spec
<1>8. Spec => []CircleInv
  BY CircleInit, CircleNext, PTL DEF Spec
<1>9. Spec => []ProgressInv
  BY <1>4, <1>7, <1>8, DownAlways, PathAlways, PTL
<1> QED
  BY <1>5, <1>6, <1>9, <1>2, PTL DEF Spec
=============================================================================
