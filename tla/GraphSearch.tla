---------------------------- MODULE GraphSearch ----------------------------
(***************************************************************************)
(* The searches over the dependency graph: who is hit when a service       *)
(* fails (impact.Downstream), which services call one another in a circle  *)
(* (impact.Cycles), and how one service reaches another                    *)
(* (pathfind.ShortestAny). The graph is whatever the store holds: it may   *)
(* be cyclic, and an edge may lead from a service to itself.               *)
(*                                                                         *)
(* One action is one step of a loop: a neighbour looked at, a node         *)
(* entered or left. What a frame of a search has yet to look at is kept by  *)
(* its node (rest), filled when the node is entered.                       *)
(***************************************************************************)
EXTENDS Integers, Sequences, FiniteSets

CONSTANTS
  Services,    \* ids; the order of strings is the order of numbers
  TestEdges,   \* bound: the dependency sets that are searched
  TestCalls    \* bound: the commands

\* An edge <<f, t>> says that f depends on t.
Edges == Services \X Services

Calls == [cmd : {"impact", "cycles", "path"}, from : Services, to : Services]

ASSUME GraphAssumption ==
  /\ Services \subseteq Int /\ IsFiniteSet(Services)
  /\ TestEdges \subseteq SUBSET Edges /\ TestCalls \subseteq Calls

VARIABLES
  edges,     \* the dependencies table
  call,      \* the command and its services
  arcs,      \* the map children or adj the search builds from the edges
  pc,
  stack,     \* nodes being visited, the innermost last
  rest,      \* the neighbours a node that was entered has not looked at yet
  seen,      \* impact, path: map seen; cycles: the nodes that are not white
  affected, count,  \* impact: Affected as a set, and its length
  drawn,     \* impact: parent and child of every node of the tree
  maxDepth,
  cycles,    \* cycles: the list out
  queue,     \* path: paths to extend, the first one in progress
  dir,       \* path: the direction being tried
  answer     \* path: the path found, <<>> when there is none

input == <<edges, call>>
tree == <<affected, count, drawn, maxDepth>>
vars == <<edges, call, arcs, pc, stack, rest, seen, affected, count, drawn,
          maxDepth, cycles, queue, dir, answer>>

First(S) == CHOOSE x \in S : \A y \in S : x <= y
Top(s) == s[Len(s)]
Pop(s) == SubSeq(s, 1, Len(s) - 1)
OnStack(x) == \E i \in 1..Len(stack) : stack[i] = x

Unlooped(E) == {e \in E : e[1] # e[2]}
Reversed(E) == {<<e[2], e[1]>> : e \in E}
uniqSorted(A, x) == {y \in Services : <<x, y>> \in A}
Entered(A, x) == [y \in Services |-> IF y = x THEN uniqSorted(A, x) ELSE {}]

Init ==
  /\ edges \in TestEdges /\ call \in TestCalls
  /\ arcs = {} /\ pc = "start"
  /\ stack = <<>> /\ rest = [x \in Services |-> {}] /\ seen = {}
  /\ affected = {} /\ count = 0 /\ drawn = {} /\ maxDepth = 0
  /\ cycles = {} /\ queue = <<>> /\ dir = "depends_on" /\ answer = <<>>
-----------------------------------------------------------------------------
(* impact.Downstream: walk(id, depth), with depth = Len(stack) - 1.        *)

\* Mutant: the tree is walked along the edges instead of against them.
StartImpactForward ==
  /\ pc = "start" /\ call.cmd = "impact"
  /\ arcs' = Unlooped(edges)
  /\ rest' = Entered(Unlooped(edges), call.from)
  /\ stack' = <<call.from>> /\ seen' = {call.from}
  /\ pc' = "walk"
  /\ UNCHANGED <<input, tree, cycles, queue, dir, answer>>

\* Mutant: the failed service is not marked as seen.
StartImpactUnmarked ==
  /\ pc = "start" /\ call.cmd = "impact"
  /\ arcs' = Reversed(Unlooped(edges))
  /\ rest' = Entered(Reversed(Unlooped(edges)), call.from)
  /\ stack' = <<call.from>> /\ seen' = {}
  /\ pc' = "walk"
  /\ UNCHANGED <<input, tree, cycles, queue, dir, answer>>

StartImpact ==
  /\ pc = "start" /\ call.cmd = "impact"
  /\ arcs' = Reversed(Unlooped(edges))
  /\ rest' = Entered(Reversed(Unlooped(edges)), call.from)
  /\ stack' = <<call.from>> /\ seen' = {call.from}
  /\ pc' = "walk"
  /\ UNCHANGED <<input, tree, cycles, queue, dir, answer>>

\* Mutant: a service is drawn only where it is first met.
WalkLeafUndrawn ==
  /\ pc = "walk" /\ stack # <<>> /\ rest[Top(stack)] # {}
  /\ LET id == Top(stack)
         child == First(rest[id])
     IN /\ child \in seen
        /\ rest' = [rest EXCEPT ![id] = @ \ {child}]
  /\ UNCHANGED <<input, arcs, pc, stack, seen, tree, cycles, queue, dir, answer>>

\* A node that was seen before becomes a leaf: another parent of a diamond, or
\* the closing edge of a circle.
WalkLeaf ==
  /\ pc = "walk" /\ stack # <<>> /\ rest[Top(stack)] # {}
  /\ LET id == Top(stack)
         child == First(rest[id])
     IN /\ child \in seen
        /\ rest' = [rest EXCEPT ![id] = @ \ {child}]
        /\ drawn' = drawn \cup {<<id, child>>}
  /\ UNCHANGED <<input, arcs, pc, stack, seen, affected, count, maxDepth,
                 cycles, queue, dir, answer>>

WalkChild ==
  /\ pc = "walk" /\ stack # <<>> /\ rest[Top(stack)] # {}
  /\ LET id == Top(stack)
         child == First(rest[id])
     IN /\ child \notin seen
        /\ rest' = [rest EXCEPT ![id] = @ \ {child}, ![child] = uniqSorted(arcs, child)]
        /\ drawn' = drawn \cup {<<id, child>>}
        /\ seen' = seen \cup {child}
        /\ affected' = affected \cup {child} /\ count' = count + 1
        /\ stack' = Append(stack, child)
        /\ maxDepth' = IF Len(stack) > maxDepth THEN Len(stack) ELSE maxDepth
  /\ UNCHANGED <<input, arcs, pc, cycles, queue, dir, answer>>

WalkReturn ==
  /\ pc = "walk" /\ stack # <<>> /\ rest[Top(stack)] = {}
  /\ stack' = Pop(stack)
  /\ pc' = IF Len(stack) = 1 THEN "done" ELSE "walk"
  /\ UNCHANGED <<input, arcs, rest, seen, tree, cycles, queue, dir, answer>>
-----------------------------------------------------------------------------
(* impact.Cycles: a node is white until seen, gray while on the stack, and *)
(* black after.                                                            *)

StartCycles ==
  /\ pc = "start" /\ call.cmd = "cycles"
  /\ arcs' = Unlooped(edges)
  /\ pc' = "visit"
  /\ UNCHANGED <<input, stack, rest, seen, tree, cycles, queue, dir, answer>>

\* Mutant: only the part of the graph around the first node is searched.
WhiteFirst ==
  IF seen = {} THEN {x \in Services : \E a \in arcs : x \in {a[1], a[2]}} ELSE {}

\* The nodes of the graph: services with an edge to or from another one.
White == {x \in Services : \E a \in arcs : x \in {a[1], a[2]}} \ seen

VisitRoot ==
  /\ pc = "visit" /\ stack = <<>> /\ White # {}
  /\ LET id == First(White)
     IN /\ stack' = <<id>> /\ seen' = seen \cup {id}
        /\ rest' = [rest EXCEPT ![id] = uniqSorted(arcs, id)]
  /\ UNCHANGED <<input, arcs, pc, tree, cycles, queue, dir, answer>>

VisitWhite ==
  /\ pc = "visit" /\ stack # <<>> /\ rest[Top(stack)] # {}
  /\ LET id == Top(stack)
         next == First(rest[id])
     IN /\ next \notin seen
        /\ rest' = [rest EXCEPT ![id] = @ \ {next}, ![next] = uniqSorted(arcs, next)]
        /\ stack' = Append(stack, next) /\ seen' = seen \cup {next}
  /\ UNCHANGED <<input, arcs, pc, tree, cycles, queue, dir, answer>>

\* Mutant: the circle is not rotated.
cycleUnrotated(start) ==
  LET from == CHOOSE i \in 1..Len(stack) : stack[i] = start
  IN Append(SubSeq(stack, from, Len(stack)), start)

\* The stack from start on, rotated to begin with its least node, and closed.
cycleFromStack(start) ==
  LET from == CHOOSE i \in 1..Len(stack) : stack[i] = start
      body == SubSeq(stack, from, Len(stack))
      n == Len(body)
      best == CHOOSE i \in 1..n : \A j \in 1..n : body[i] <= body[j]
  IN [k \in 1..(n + 1) |-> body[IF k <= n + 1 - best THEN best + k - 1
                                                    ELSE best + k - 1 - n]]

VisitGray ==
  /\ pc = "visit" /\ stack # <<>> /\ rest[Top(stack)] # {}
  /\ LET id == Top(stack)
         next == First(rest[id])
     IN /\ OnStack(next)
        /\ rest' = [rest EXCEPT ![id] = @ \ {next}]
        /\ cycles' = cycles \cup {cycleFromStack(next)}
  /\ UNCHANGED <<input, arcs, pc, stack, seen, tree, queue, dir, answer>>

VisitBlack ==
  /\ pc = "visit" /\ stack # <<>> /\ rest[Top(stack)] # {}
  /\ LET id == Top(stack)
         next == First(rest[id])
     IN /\ next \in seen /\ ~OnStack(next)
        /\ rest' = [rest EXCEPT ![id] = @ \ {next}]
  /\ UNCHANGED <<input, arcs, pc, stack, seen, tree, cycles, queue, dir, answer>>

\* Mutant: a node that is left turns white.
VisitReturnWhite ==
  /\ pc = "visit" /\ stack # <<>> /\ rest[Top(stack)] = {}
  /\ stack' = Pop(stack) /\ seen' = seen \ {Top(stack)}
  /\ UNCHANGED <<input, arcs, pc, rest, tree, cycles, queue, dir, answer>>

VisitReturn ==
  /\ pc = "visit" /\ stack # <<>> /\ rest[Top(stack)] = {}
  /\ stack' = Pop(stack)
  /\ UNCHANGED <<input, arcs, pc, rest, seen, tree, cycles, queue, dir, answer>>

CyclesEnd ==
  /\ pc = "visit" /\ stack = <<>> /\ White = {}
  /\ pc' = "done"
  /\ UNCHANGED <<input, arcs, stack, rest, seen, tree, cycles, queue, dir, answer>>
-----------------------------------------------------------------------------
(* pathfind.Shortest, which ShortestAny calls for the edges and, when that *)
(* fails, for the edges reversed.                                          *)

\* `opsgraph path` wants two services.
RefusePath ==
  /\ pc = "start" /\ call.cmd = "path" /\ call.from = call.to
  /\ pc' = "done"
  /\ UNCHANGED <<input, arcs, stack, rest, seen, tree, cycles, queue, dir, answer>>

StartPath ==
  /\ pc = "start" /\ call.cmd = "path" /\ call.from # call.to
  /\ arcs' = edges /\ rest' = Entered(edges, call.from)
  /\ queue' = <<<<call.from>>>> /\ seen' = {call.from}
  /\ pc' = "search"
  /\ UNCHANGED <<input, stack, tree, cycles, dir, answer>>

SearchSeen ==
  /\ pc = "search" /\ queue # <<>> /\ rest[Top(Head(queue))] # {}
  /\ LET id == Top(Head(queue))
         next == First(rest[id])
     IN /\ next \in seen
        /\ rest' = [rest EXCEPT ![id] = @ \ {next}]
  /\ UNCHANGED <<input, arcs, pc, stack, seen, tree, cycles, queue, dir, answer>>

\* Mutant: the newest path is extended first.
SearchNewFirst ==
  /\ pc = "search" /\ queue # <<>> /\ rest[Top(Head(queue))] # {}
  /\ LET id == Top(Head(queue))
         next == First(rest[id])
     IN /\ next \notin seen /\ next # call.to
        /\ rest' = [rest EXCEPT ![id] = @ \ {next}, ![next] = uniqSorted(arcs, next)]
        /\ seen' = seen \cup {next}
        /\ queue' = <<Append(Head(queue), next)>> \o queue
  /\ UNCHANGED <<input, arcs, pc, stack, tree, cycles, dir, answer>>

SearchNew ==
  /\ pc = "search" /\ queue # <<>> /\ rest[Top(Head(queue))] # {}
  /\ LET id == Top(Head(queue))
         next == First(rest[id])
     IN /\ next \notin seen /\ next # call.to
        /\ rest' = [rest EXCEPT ![id] = @ \ {next}, ![next] = uniqSorted(arcs, next)]
        /\ seen' = seen \cup {next}
        /\ queue' = Append(queue, Append(Head(queue), next))
  /\ UNCHANGED <<input, arcs, pc, stack, tree, cycles, dir, answer>>

SearchFound ==
  /\ pc = "search" /\ queue # <<>> /\ rest[Top(Head(queue))] # {}
  /\ First(rest[Top(Head(queue))]) = call.to
  /\ answer' = Append(Head(queue), call.to)
  /\ pc' = "done"
  /\ UNCHANGED <<input, arcs, stack, rest, seen, tree, cycles, queue, dir>>

SearchDequeue ==
  /\ pc = "search" /\ queue # <<>> /\ rest[Top(Head(queue))] = {}
  /\ queue' = Tail(queue)
  /\ UNCHANGED <<input, arcs, pc, stack, rest, seen, tree, cycles, dir, answer>>

\* Mutant: the second search goes on with what the first has seen.
ShortestAnySeen ==
  /\ pc = "search" /\ queue = <<>> /\ dir = "depends_on"
  /\ dir' = "dependents"
  /\ arcs' = Reversed(edges) /\ rest' = Entered(Reversed(edges), call.from)
  /\ queue' = <<<<call.from>>>>
  /\ UNCHANGED <<input, pc, stack, seen, tree, cycles, answer>>

ShortestAny ==
  /\ pc = "search" /\ queue = <<>> /\ dir = "depends_on"
  /\ dir' = "dependents"
  /\ arcs' = Reversed(edges) /\ rest' = Entered(Reversed(edges), call.from)
  /\ queue' = <<<<call.from>>>> /\ seen' = {call.from}
  /\ UNCHANGED <<input, pc, stack, tree, cycles, answer>>

NoPath ==
  /\ pc = "search" /\ queue = <<>> /\ dir = "dependents"
  /\ pc' = "done"
  /\ UNCHANGED <<input, arcs, stack, rest, seen, tree, cycles, queue, dir, answer>>

Downstream == StartImpact \/ WalkLeaf \/ WalkChild \/ WalkReturn

Cycles ==
  \/ StartCycles \/ VisitRoot \/ VisitWhite \/ VisitGray \/ VisitBlack
  \/ VisitReturn \/ CyclesEnd

Shortest ==
  \/ RefusePath \/ StartPath \/ SearchSeen \/ SearchNew \/ SearchFound
  \/ SearchDequeue \/ ShortestAny \/ NoPath

Next == Downstream \/ Cycles \/ Shortest

\* A search runs in one goroutine that nothing blocks.
Spec == Init /\ [][Next]_vars /\ WF_vars(Next)
-----------------------------------------------------------------------------
Paths == Seq(Services) \ {<<>>}

TypeOK ==
  /\ edges \subseteq Edges /\ call \in Calls /\ arcs \subseteq Edges
  /\ pc \in {"start", "walk", "visit", "search", "done"}
  /\ stack \in Seq(Services)
  /\ rest \in [Services -> SUBSET Services] /\ seen \subseteq Services
  /\ affected \subseteq Services /\ count \in Nat /\ maxDepth \in Nat
  /\ drawn \subseteq Edges
  /\ \A c \in cycles : c \in Seq(Services)
  /\ queue \in Seq(Paths)
  /\ dir \in {"depends_on", "dependents"} /\ answer \in Seq(Services)

Closed(A, S) == \A a \in A : a[1] \in S => a[2] \in S

\* What can be reached from x, in any number of steps.
Reach(A, x) ==
  {y \in Services : \A S \in SUBSET Services : x \in S /\ Closed(A, S) => y \in S}

\* impact.go:80-81. What impact reports is exactly the services from which a
\* chain of dependencies leads to the failed one, on a cyclic graph too.
AffectedIsReach ==
  call.cmd = "impact" /\ pc = "done" =>
    affected = Reach(Reversed(edges), call.from) \ {call.from}

\* impact.go:69-70. However many ways lead to a service it is listed once, and
\* the failed service, which a circle leads back to, is not listed.
CountedOnce == count = Cardinality(affected) /\ call.from \notin affected

\* impact.go:62-67, "show the extra edge as a leaf so the tree matches the
\* DAG": the tree has every edge among what is hit, those closing a circle too.
TreeIsTheGraph ==
  call.cmd = "impact" /\ pc = "done" =>
    drawn = {a \in Reversed(Unlooped(edges)) : a[1] \in affected \cup {call.from}}

\* A walk along A from its first node to its last.
IsWalk(A, w) == \A i \in 1..(Len(w) - 1) : <<w[i], w[i + 1]>> \in A

\* impact.go:123, 154: what is reported is a circle of the graph, no node of it
\* comes twice, and it is written from its least node on, so that one circle
\* has one form.
CyclesReal ==
  \A c \in cycles :
    LET n == Len(c) - 1
    IN /\ n > 1 /\ c[n + 1] = c[1] /\ IsWalk(edges, c)
       /\ \A i, j \in 1..n : i # j => c[i] # c[j]
       /\ \A i \in 1..n : c[1] <= c[i]

\* validate.go:167 calls a graph with no reported circle good. Every circle
\* has an edge in common with a reported one: when those are broken up, no
\* circle is left.
CyclesBreakAll ==
  call.cmd = "cycles" /\ pc = "done" =>
    LET reported == UNION {{<<c[i], c[i + 1]>> : i \in 1..(Len(c) - 1)} : c \in cycles}
        left == Unlooped(edges) \ reported
    IN \A a \in left : a[1] \notin Reach(left, a[2])

\* The walks along A that visit n nodes, from x to y.
Walks(A, x, y, n) ==
  {w \in [1..n -> Services] : w[1] = x /\ w[n] = y /\ IsWalk(A, w)}

\* pathfind.go:21, 66. The path is one of the graph from the one service to the
\* other, none is shorter, and the reverse direction is used only when the
\* service does not depend on the other one at all.
PathShortest ==
  answer # <<>> =>
    LET A == IF dir = "depends_on" THEN edges ELSE Reversed(edges)
    IN /\ answer[1] = call.from /\ Top(answer) = call.to /\ IsWalk(A, answer)
       /\ \A n \in 1..(Len(answer) - 1) : Walks(A, call.from, call.to, n) = {}
       /\ dir = "dependents" => call.to \notin Reach(edges, call.from)

\* pathfind.go:63, 80. "no dependency path" is said only when there is none in
\* either direction.
NoPathIsNone ==
  call.cmd = "path" /\ call.from # call.to /\ pc = "done" /\ answer = <<>> =>
    /\ call.to \notin Reach(edges, call.from)
    /\ call.from \notin Reach(edges, call.to)

\* impact.go:62, 119, pathfind.go:52. No circle keeps a search going for ever.
Termination == <>(pc = "done")
=============================================================================
