---------------------------- MODULE RollupProofs ----------------------------
(***************************************************************************)
(* Proofs about the roll-up, for every set of services, every dump, filter *)
(* and table of rows, and any number of packs. What is read off one object *)
(* is a lemma on operators; the loops need one invariant for each of the   *)
(* three facts that the results combine: the worst workload speaks for its *)
(* service, a row is the merge of what it was with that word, and a        *)
(* replayed workload stands for the row or for a rollout it was made of.   *)
(***************************************************************************)
EXTENDS Rollup, TLAPS

-----------------------------------------------------------------------------
(* One workload.                                                            *)

\* What the rank of a workload says about its health.
LEMMA RankHealth ==
  ASSUME NEW d \in Entries
  PROVE  /\ health(d) \in Healths
         /\ workloadSignalRank(d) \in 0..4
         /\ workloadSignalRank(d) = 4 <=> health(d) = "unhealthy"
         /\ workloadSignalRank(d) = 3 <=> health(d) = "degraded"
         /\ workloadSignalRank(d) = 2 <=> d.forceUnknown
         /\ workloadSignalRank(d) = 1 <=> health(d) = "healthy"
         /\ d.forceUnknown => health(d) = "unknown"
  BY DEF Entries, Healths, health, workloadSignalRank, deploymentHealth

\* A workload of the highest rank has the worst health.
LEMMA HighestIsWorst ==
  ASSUME NEW list \in SUBSET Entries, NEW w \in list,
         \A d \in list : workloadSignalRank(d) <= workloadSignalRank(w)
  PROVE  WorstOf(list) = health(w)
<1>1. w \in Entries
  OBVIOUS
<1>2. \A d \in list :
        /\ health(d) \in Healths
        /\ workloadSignalRank(d) \in 0..4
        /\ workloadSignalRank(d) = 4 <=> health(d) = "unhealthy"
        /\ workloadSignalRank(d) = 3 <=> health(d) = "degraded"
        /\ workloadSignalRank(d) = 2 <=> d.forceUnknown
        /\ workloadSignalRank(d) = 1 <=> health(d) = "healthy"
        /\ d.forceUnknown => health(d) = "unknown"
  BY RankHealth
<1> QED
  BY <1>1, <1>2 DEF WorstOf, Healths

\* The workload that wins a comparison has at least the rank of the other.
LEMMA BetterIsHigher ==
  ASSUME NEW d \in Entries, NEW w \in Entries
  PROVE  /\ betterWorkload(d, w) => workloadSignalRank(w) <= workloadSignalRank(d)
         /\ ~betterWorkload(d, w) => workloadSignalRank(d) <= workloadSignalRank(w)
  BY RankHealth DEF betterWorkload

\* The counters are numbers.
LEMMA CountsTyped ==
  ASSUME NEW o \in Objects
  PROVE  Desired(o) \in Nat /\ Ready(o) \in Nat
<1>1. Desired(o) \in Nat
  BY AbsentAssumption DEF Objects, Maybe, Desired, OrOne
<1> QED
  BY <1>1 DEF Objects, Ready, JobReady

\* The object of a workload makes an entry with counts, marks and notes.
LEMMA EntryTyped ==
  ASSUME NEW o \in Objects
  PROVE  nativeToWorkload(o) \in Entries
<1>1. Desired(o) \in Nat /\ Ready(o) \in Nat
  BY CountsTyped
<1>3. FullCount(o) \in BOOLEAN
  BY DEF FullCount
<1>4. rolloutDegraded(o) \subseteq Phrases
  BY DEF rolloutDegraded, Failures, Phrases
<1>5. /\ assessWorkload(o).forceDegraded \in BOOLEAN
      /\ assessWorkload(o).forceUnknown \in BOOLEAN
      /\ assessWorkload(o).note \in SUBSET Phrases
  BY <1>3, <1>4 DEF assessWorkload, Assessed, Phrases, Failures
<1>6. o.svc \in Services /\ o.at \in Nat
  BY DEF Objects
<1> QED
  BY <1>1, <1>5, <1>6 DEF nativeToWorkload, Entries

-----------------------------------------------------------------------------
(* Objects and their health.                                                *)

\* An entry shows the counters and the assessment of its object.
LEMMA EntryShows ==
  ASSUME NEW o \in Objects
  PROVE  /\ FullCount(o) <=> Desired(o) > 0 /\ Ready(o) >= Desired(o)
         /\ health(nativeToWorkload(o)) = "healthy" <=>
              FullCount(o) /\ ~assessWorkload(o).forceUnknown /\ ~assessWorkload(o).forceDegraded
         /\ workloadSignalRank(nativeToWorkload(o)) = 0 <=>
              Desired(o) = 0 /\ ~assessWorkload(o).forceUnknown
         /\ nativeToWorkload(o).note = assessWorkload(o).note
<1>1. Desired(o) \in Nat /\ Ready(o) \in Nat
  BY CountsTyped
<1>2. FullCount(o) <=> Desired(o) > 0 /\ Ready(o) >= Desired(o)
  BY <1>1 DEF FullCount, deploymentHealth
<1>3. /\ nativeToWorkload(o).desired = Desired(o)
      /\ nativeToWorkload(o).ready = Ready(o)
      /\ nativeToWorkload(o).forceUnknown = assessWorkload(o).forceUnknown
      /\ nativeToWorkload(o).forceDegraded = assessWorkload(o).forceDegraded
      /\ nativeToWorkload(o).note = assessWorkload(o).note
  BY DEF nativeToWorkload
<1>4. deploymentHealth(Desired(o), Ready(o)) = "unknown" <=> Desired(o) = 0
  BY <1>1 DEF deploymentHealth
<1>5. deploymentHealth(Desired(o), Ready(o)) \in Healths
  BY DEF deploymentHealth, Healths
<1>6. health(nativeToWorkload(o)) = "healthy" <=>
        FullCount(o) /\ ~assessWorkload(o).forceUnknown /\ ~assessWorkload(o).forceDegraded
  BY <1>3 DEF health, FullCount
<1>7. workloadSignalRank(nativeToWorkload(o)) = 0 <=>
        Desired(o) = 0 /\ ~assessWorkload(o).forceUnknown
  BY <1>3, <1>4, <1>5 DEF health, workloadSignalRank, Healths
<1> QED
  BY <1>2, <1>3, <1>6, <1>7

\* A full count that nothing overrules is Kubernetes' own word; a workload without
\* health wants nothing, unless its status is stale.
LEMMA HealthyServes ==
  ASSUME NEW o \in Objects, o.kind # "event"
  PROVE  /\ health(nativeToWorkload(o)) = "healthy" => Desired(o) > 0 /\ Serves(o)
         /\ workloadSignalRank(nativeToWorkload(o)) = 0 => Desired(o) = 0
<1>1. Desired(o) \in Nat /\ Ready(o) \in Nat
  BY CountsTyped
<1>2. ASSUME health(nativeToWorkload(o)) = "healthy"
      PROVE  Desired(o) > 0 /\ Serves(o)
  <2>1. /\ Desired(o) > 0 /\ Ready(o) >= Desired(o) /\ FullCount(o)
        /\ ~assessWorkload(o).forceUnknown /\ ~assessWorkload(o).forceDegraded
    BY <1>2, EntryShows
  <2>2. o.kind \in Replicated \cup {"job"}
    BY <2>1, <1>1 DEF Objects, Desired, Workloads, Parents, Replicated
  <2>3. ~statusStale(o)
    BY <2>1 DEF assessWorkload, Assessed
  <2>4. o.generation = Absent \/ o.observed = Absent \/ o.observed >= o.generation
    BY <2>2, <2>3, AbsentAssumption DEF statusStale, Objects, Maybe
  <2>5. CASE o.kind = "job"
    <3>1. ~jobStillRetrying(o)
      BY <2>1, <2>3, <2>5 DEF assessWorkload, Assessed
    <3>2. o.succeeded >= Desired(o) \/ ~jobTerminalFailure(o)
      BY <2>1, <2>5, <1>1 DEF Ready, JobReady, Objects
    <3>3. o.succeeded >= Desired(o) \/ ("failed" \notin o.conds /\ o.failed = 0)
      BY <3>1, <3>2, <1>1 DEF jobStillRetrying, jobTerminalFailure, Objects
    <3> QED
      BY <2>1, <2>4, <2>5, <3>3 DEF Serves
  <2>6. CASE o.kind \in Replicated
    <3>1. o.kind # "job" /\ o.kind # "cronjob"
      BY <2>6 DEF Replicated, Parents
    <3>2. rolloutDegraded(o) = {}
      BY <2>1, <2>3, <2>6, <3>1 DEF assessWorkload, Assessed
    <3>3. ~capacityShort(o)
      BY <2>1, <2>3, <2>6, <3>1, <3>2 DEF assessWorkload, Assessed
    <3>4. o.ready >= Desired(o)
      BY <2>1, <3>1 DEF Ready
    <3>5. o.conds \cap Failures = {} /\ "availableFalse" \notin o.conds
      BY <3>2 DEF rolloutDegraded, Failures
    <3>6. \/ "availableTrue" \in o.conds
          \/ /\ o.avail = Absent \/ o.avail >= Desired(o)
             /\ o.unavail = Absent \/ o.unavail = 0
      BY <3>3, <3>5, <2>1, <1>1 DEF capacityShort, availableConditionKnown, Objects, Maybe
    <3> QED
      BY <2>1, <2>4, <3>1, <3>4, <3>5, <3>6 DEF Serves
  <2> QED
    BY <2>2, <2>5, <2>6
<1> QED
  BY <1>2, EntryShows

\* A workload that serves is healthy, and there is nothing to explain.
LEMMA ServesHealthy ==
  ASSUME NEW o \in Objects, o.kind # "event", Desired(o) > 0, Serves(o)
  PROVE  /\ health(nativeToWorkload(o)) = "healthy"
         /\ nativeToWorkload(o).note = {}
<1>1. Desired(o) \in Nat /\ Ready(o) \in Nat
  BY CountsTyped
<1>2. o.kind \in Replicated \cup {"job"}
  BY <1>1 DEF Objects, Desired, Workloads, Parents, Replicated
<1>3. o.kind # "cronjob" /\ (o.kind = "job" => o.kind \notin Replicated)
  BY <1>2 DEF Replicated, Parents
<1>4. ~statusStale(o)
  BY <1>3, AbsentAssumption DEF Serves, statusStale, Objects, Maybe
<1>5. CASE o.kind = "job"
  <2>1. o.succeeded >= Desired(o) \/ ("failed" \notin o.conds /\ o.failed = 0)
    BY <1>5 DEF Serves
  <2>2. Ready(o) = Desired(o)
    BY <2>1, <1>1, <1>5 DEF Ready, JobReady, jobTerminalFailure, Objects
  <2>3. ~jobStillRetrying(o)
    BY <2>1, <1>1 DEF jobStillRetrying, Objects
  <2>4. assessWorkload(o) = Assessed(FALSE, FALSE, {})
    BY <2>3, <1>3, <1>4, <1>5 DEF assessWorkload
  <2> QED
    BY <2>2, <2>4, <1>1, EntryShows DEF Assessed
<1>6. CASE o.kind \in Replicated
  <2>1. o.kind # "job"
    BY <1>6, <1>3
  <2>2. /\ o.ready >= Desired(o) /\ o.conds \cap Failures = {}
        /\ \/ "availableTrue" \in o.conds
           \/ /\ o.avail = Absent \/ o.avail >= Desired(o)
              /\ o.unavail = Absent \/ o.unavail = 0
    BY <2>1 DEF Serves
  <2>3. Ready(o) >= Desired(o)
    BY <2>1, <2>2, <1>3 DEF Ready
  <2>4. rolloutDegraded(o) = {}
    BY <2>2 DEF rolloutDegraded
  <2>5. ~capacityShort(o)
    BY <2>2, <1>1, AbsentAssumption
    DEF capacityShort, availableConditionKnown, Objects, Maybe
  <2>6. assessWorkload(o) = Assessed(FALSE, FALSE, {})
    BY <2>1, <2>4, <2>5, <1>4 DEF assessWorkload
  <2> QED
    BY <2>3, <2>6, EntryShows DEF Assessed
<1> QED
  BY <1>2, <1>5, <1>6
-----------------------------------------------------------------------------
(* Types and loops.                                                         *)

\* What a row becomes is a row.
LEMMA AppliedTyped ==
  ASSUME TypeOK, NEW s \in Services, worst[s] \in Entries
  PROVE  Applied(s) \in Rows
<1>1. health(worst[s]) \in Healths
  BY RankHealth
<1>2. \A h \in Healths, b \in BOOLEAN : mergeHealth(h, health(worst[s]), b) \in Healths
  BY <1>1 DEF mergeHealth
<1>3. rows[s] # Absent => rows[s].health \in Healths /\ rows[s].k8s \in BOOLEAN
  BY DEF TypeOK, Rows
<1>4. joinRolloutNotes(s) \subseteq Phrases
  BY DEF joinRolloutNotes, Of, TypeOK, Entries
<1> QED
  BY <1>1, <1>2, <1>3, <1>4 DEF Applied, Rows

\* Where the loops stand: a loop visits what it was started on, and rows are only
\* written once all workloads are weighed.
LoopInv ==
  /\ pc = "load" => deps = {} /\ packs = 0
  /\ pc = "weigh" => todo \subseteq deps
  /\ pc = "apply" => todo \subseteq {d.svc : d \in deps}
  /\ pc \in {"load", "weigh"} => rows = prior

\* What has been weighed for s, and that w speaks for it.
Seen(s) == IF pc = "weigh" THEN Of(s) \ todo ELSE Of(s)

Speaks(w, seen) ==
  IF w = Absent THEN seen = {}
  ELSE w \in seen /\ \A d \in seen : workloadSignalRank(d) <= workloadSignalRank(w)

WorstInv == \A s \in Services : Speaks(worst[s], Seen(s))

IInv == TypeOK /\ LoopInv /\ WorstInv

LEMMA InitIInv == Init => IInv
<1> SUFFICES ASSUME Init PROVE IInv
  OBVIOUS
<1>1. TypeOK
  BY RollupAssumption DEF Init, TypeOK, Nobody
<1>2. LoopInv
  BY DEF Init, LoopInv
<1>3. WorstInv
  BY DEF Init, WorstInv, Speaks, Seen, Of, Nobody
<1> QED
  BY <1>1, <1>2, <1>3 DEF IInv

LEMMA LoadKeeps == IInv /\ Load => IInv'
<1> SUFFICES ASSUME IInv, Load PROVE IInv'
  OBVIOUS
<1> USE DEF IInv
<1>1. deps' \in SUBSET Entries
  BY EntryTyped DEF Load, loadK8sSnapshot, TypeOK
<1>2. events' \subseteq Services
  BY DEF Load, TypeOK, Objects
<1>3. TypeOK'
  BY <1>1, <1>2 DEF Load, TypeOK
<1>4. LoopInv'
  BY DEF Load, LoopInv
<1>5. \A s \in Services : worst[s] = Absent
  BY RollupAssumption DEF WorstInv, Speaks, Seen, Of, Load, LoopInv
<1>6. WorstInv'
  BY <1>5 DEF Load, WorstInv, Speaks, Seen, Of
<1> QED
  BY <1>3, <1>4, <1>6

LEMMA WeighKeeps == ASSUME IInv, NEW d \in deps, Weigh(d) PROVE IInv'
<1> USE DEF IInv
<1>1. d \in Entries /\ d.svc \in Services
  BY DEF TypeOK, Entries
<1>2. \A s \in Services : worst[s] = Absent \/ worst[s] \in Entries
  BY DEF TypeOK
<1>3. worst' \in [Services -> Entries \cup {Absent}]
  BY <1>1, <1>2 DEF Weigh, TypeOK
<1>4. TypeOK'
  BY <1>3 DEF Weigh, TypeOK
<1>5. LoopInv'
  BY DEF Weigh, LoopInv
<1>6. ASSUME NEW s \in Services PROVE Speaks(worst[s], Seen(s))'
  <2> DEFINE seen == Of(s) \ todo
  <2>1. Speaks(worst[s], seen) /\ pc = "weigh" /\ pc' = "weigh" /\ deps' = deps
    BY DEF WorstInv, Seen, Weigh
  <2>2. CASE s # d.svc
    <3>1. worst'[s] = worst[s] /\ Seen(s)' = seen
      BY <2>1, <2>2 DEF Weigh, TypeOK, Seen, Of
    <3> QED
      BY <2>1, <3>1 DEF Speaks
  <2>3. CASE s = d.svc
    <3>1. Seen(s)' = seen \cup {d}
      BY <2>1, <2>3 DEF Weigh, Seen, Of
    <3>2. \A e \in seen \cup {d} : workloadSignalRank(e) \in 0..4
      BY RankHealth DEF Of, TypeOK
    <3>3. CASE worst[s] = Absent
      <4>1. worst'[s] = d /\ d # Absent
        BY <2>3, <3>3, <1>1, RollupAssumption DEF Weigh, TypeOK
      <4>2. seen = {}
        BY <2>1, <3>3 DEF Speaks
      <4> QED
        BY <4>1, <4>2, <3>1, <3>2 DEF Speaks
    <3>4. CASE worst[s] # Absent
      <4>1. worst[s] \in seen /\ \A e \in seen : workloadSignalRank(e) <= workloadSignalRank(worst[s])
        BY <2>1, <3>4 DEF Speaks
      <4>2. worst'[s] = IF betterWorkload(d, worst[s]) THEN d ELSE worst[s]
        BY <2>3, <3>4, <1>1 DEF Weigh, TypeOK
      <4>3. worst[s] \in Entries /\ d # Absent
        BY <1>1, <1>2, <3>4, RollupAssumption
      <4>4. CASE betterWorkload(d, worst[s])
        <5>1. workloadSignalRank(worst[s]) <= workloadSignalRank(d)
          BY <4>3, <4>4, <1>1, BetterIsHigher
        <5>2. \A e \in seen \cup {d} : workloadSignalRank(e) <= workloadSignalRank(d)
          BY <4>1, <5>1, <3>2
        <5> QED
          BY <4>2, <4>3, <4>4, <5>2, <3>1 DEF Speaks
      <4>5. CASE ~betterWorkload(d, worst[s])
        <5>1. workloadSignalRank(d) <= workloadSignalRank(worst[s])
          BY <4>3, <4>5, <1>1, BetterIsHigher
        <5> QED
          BY <4>1, <4>2, <4>5, <5>1, <3>1, <3>4 DEF Speaks
      <4> QED
        BY <4>4, <4>5
    <3> QED
      BY <3>3, <3>4
  <2> QED
    BY <2>2, <2>3
<1>7. WorstInv'
  BY <1>6 DEF WorstInv
<1> QED
  BY <1>4, <1>5, <1>7

\* A service that has workloads has one that speaks for it, once all are weighed.
LEMMA SomeoneSpeaks ==
  ASSUME IInv, pc # "weigh", NEW s \in Services, Of(s) # {}
  PROVE  /\ worst[s] \in Of(s) /\ worst[s] \in Entries
         /\ health(worst[s]) = WorstOf(Of(s))
<1>1. worst[s] # Absent
  BY DEF IInv, WorstInv, Speaks, Seen
<1>2. worst[s] \in Of(s) /\ \A d \in Of(s) : workloadSignalRank(d) <= workloadSignalRank(worst[s])
  BY <1>1 DEF IInv, WorstInv, Speaks, Seen
<1>3. Of(s) \in SUBSET Entries
  BY DEF Of, IInv, TypeOK
<1> QED
  BY <1>2, <1>3, HighestIsWorst

LEMMA ApplyKeeps == ASSUME IInv, NEW s \in Services, applyDeploymentHealth(s) PROVE IInv'
<1> USE DEF IInv
<1>1. Of(s) # {}
  BY DEF applyDeploymentHealth, LoopInv, Of
<1>2. worst[s] \in Entries
  BY <1>1, SomeoneSpeaks DEF applyDeploymentHealth
<1>3. rows' \in [Services -> Rows \cup {Absent}]
  BY <1>2, AppliedTyped DEF applyDeploymentHealth, TypeOK
<1>4. Rollouts(s) \subseteq Counts
  BY DEF Rollouts, Counts, Of, TypeOK, Entries
<1>5. TypeOK'
  BY <1>3, <1>4 DEF applyDeploymentHealth, TypeOK
<1>6. LoopInv'
  BY DEF applyDeploymentHealth, LoopInv
<1>7. WorstInv'
  BY DEF applyDeploymentHealth, WorstInv, Speaks, Seen, Of
<1> QED
  BY <1>5, <1>6, <1>7

LEMMA EventKeeps == ASSUME IInv, NEW s \in Services, ensureEventService(s) PROVE IInv'
<1> USE DEF IInv
<1>1. EventRow(s) \in Rows
  BY DEF EventRow, Rows, TypeOK, Healths
<1>2. TypeOK'
  BY <1>1 DEF ensureEventService, TypeOK
<1>3. LoopInv'
  BY DEF ensureEventService, LoopInv
<1>4. WorstInv'
  BY DEF ensureEventService, WorstInv, Speaks, Seen, Of
<1> QED
  BY <1>2, <1>3, <1>4

\* Where one loop ends and the next begins.
LEMMA TurnKeeps == ASSUME IInv, Weighed \/ RowsApplied \/ Finish PROVE IInv'
<1> USE DEF IInv
<1>1. {d.svc : d \in deps} \subseteq Services
  BY DEF TypeOK, Entries
<1>2. TypeOK'
  BY <1>1 DEF Weighed, RowsApplied, Finish, TypeOK
<1>3. LoopInv'
  BY DEF Weighed, RowsApplied, Finish, LoopInv
<1>4. WorstInv'
  BY DEF Weighed, RowsApplied, Finish, WorstInv, Speaks, Seen, Of
<1> QED
  BY <1>2, <1>3, <1>4

\* What a pack stores for a service is a count of that service.
LEMMA PackCountsTyped ==
  ASSUME TypeOK, NEW s \in PackedServices, NEW c \in PackCounts(s)
  PROVE  c \in Counts /\ c.svc = s
<1>1. s \in Services
  BY DEF PackedServices
<1>2. Synthesized(rows[s].health).desired \in Nat /\ Synthesized(rows[s].health).ready \in Nat
  BY DEF Synthesized
<1>3. CASE RolloutsOf(s) = {}
  BY <1>1, <1>2, <1>3 DEF PackCounts, Counts
<1>4. CASE RolloutsOf(s) # {}
  BY <1>4 DEF PackCounts, RolloutsOf, TypeOK
<1> QED
  BY <1>3, <1>4

LEMMA WriteKeeps == ASSUME IInv, WritePack PROVE IInv'
<1> USE DEF IInv
<1>1. \A s \in PackedServices : \A c \in PackCounts(s) : Packed(c) \in Entries
  BY PackCountsTyped DEF Packed, Entries, Counts
<1>2. deps' \in SUBSET Entries
  BY <1>1 DEF WritePack
<1>3. TypeOK'
  BY <1>2, RollupAssumption DEF WritePack, TypeOK, Nobody
<1>4. LoopInv'
  BY DEF WritePack, LoopInv
<1>5. WorstInv'
  BY DEF WritePack, WorstInv, Speaks, Seen, Of, Nobody
<1> QED
  BY <1>3, <1>4, <1>5

LEMMA StepIInv == IInv /\ [Next]_vars => IInv'
<1>1. ASSUME IInv, UNCHANGED vars PROVE IInv'
  BY <1>1 DEF vars, IInv, TypeOK, LoopInv, WorstInv, Speaks, Seen, Of
<1> QED
  BY <1>1, LoadKeeps, WeighKeeps, ApplyKeeps, EventKeeps, TurnKeeps, WriteKeeps DEF Next

\* The invariant of the three loops holds in every state, for every value of the constants.
THEOREM Invariance == Spec => []IInv
  BY InitIInv, StepIInv, PTL DEF Spec

\* Type correctness: health, notes, counts and loops stay within their domains.
THEOREM TypeCorrect == Spec => []TypeOK
<1>1. IInv => TypeOK
  BY DEF IInv
<1> QED
  BY <1>1, Invariance, PTL

-----------------------------------------------------------------------------
(* The worst workload wins.                                                 *)

\* What a scrape makes of the health of s.
Merged(s) ==
  IF prior[s] = Absent THEN WorstOf(Of(s))
  ELSE mergeHealth(prior[s].health, WorstOf(Of(s)), prior[s].k8s)

\* The row of s once the loop over the services has visited it.
RowDone(s) ==
  IF Of(s) # {}
  THEN rows[s] # Absent /\ rows[s].health = Merged(s) /\ rows[s].note = joinRolloutNotes(s)
  ELSE prior[s] # Absent => rows[s] # Absent /\ rows[s].health = prior[s].health

RowsInv ==
  pc \in {"apply", "events", "done"} => \A s \in Services :
    IF pc = "apply" /\ s \in todo THEN rows[s] = prior[s] ELSE RowDone(s)

LEMMA RowsKept == IInv /\ IInv' /\ RowsInv /\ [Next]_vars => RowsInv'
<1> SUFFICES ASSUME IInv, IInv', RowsInv, [Next]_vars PROVE RowsInv'
  OBVIOUS
<1>1. ASSUME pc' \in {"load", "weigh"} PROVE RowsInv'
  BY <1>1 DEF RowsInv
<1>2. CASE UNCHANGED vars
  BY <1>2 DEF vars, RowsInv, RowDone, Merged, Of, joinRolloutNotes
<1>3. CASE Load \/ WritePack \/ \E d \in deps : Weigh(d)
  BY <1>3, <1>1 DEF Load, WritePack, Weigh
<1>4. CASE Weighed
  <2>1. rows' = prior'
    BY <1>4 DEF Weighed, IInv, LoopInv
  <2>2. \A s \in Services : s \notin todo' => Of(s)' = {}
    BY <1>4 DEF Weighed, Of
  <2> QED
    BY <2>1, <2>2, <1>4 DEF Weighed, RowsInv, RowDone
<1>5. ASSUME NEW s \in Services, applyDeploymentHealth(s) PROVE RowsInv'
  <2>1. ASSUME NEW r \in Services, r # s
        PROVE  IF r \in todo' THEN rows'[r] = prior'[r] ELSE RowDone(r)'
    <3>1. rows'[r] = rows[r] /\ (r \in todo' <=> r \in todo)
      BY <1>5, <2>1 DEF applyDeploymentHealth, IInv, TypeOK
    <3> QED
      BY ZenonT(60), <3>1, <1>5
      DEF applyDeploymentHealth, RowsInv, RowDone, Merged, Of, joinRolloutNotes
  <2>2. s \notin todo' /\ Of(s) # {} /\ rows[s] = prior[s] /\ rows'[s] = Applied(s)
    BY <1>5 DEF applyDeploymentHealth, IInv, TypeOK, LoopInv, Of, RowsInv
  <2>3. health(worst[s]) = WorstOf(Of(s)) /\ worst[s] \in Entries
    BY <1>5, <2>2, SomeoneSpeaks DEF applyDeploymentHealth
  <2>4. Applied(s) \in Rows
    BY <2>3, AppliedTyped DEF IInv
  <2>5. Applied(s) # Absent
    BY <2>4, RollupAssumption
  <2>6. Applied(s).health = Merged(s) /\ Applied(s).note = joinRolloutNotes(s)
    BY <2>2, <2>3 DEF Applied, Merged
  <2>7. RowDone(s)'
    BY <2>2, <2>5, <2>6, <1>5
    DEF applyDeploymentHealth, RowDone, Merged, Of, joinRolloutNotes
  <2> QED
    BY <2>1, <2>2, <2>7, <1>5 DEF applyDeploymentHealth, RowsInv
<1>6. CASE RowsApplied \/ Finish
  BY <1>6 DEF RowsApplied, Finish, RowsInv, RowDone, Merged, Of, joinRolloutNotes
<1>7. ASSUME NEW s \in Services, ensureEventService(s) PROVE RowsInv'
  <2>1. ASSUME NEW r \in Services
        PROVE  /\ rows[r] # Absent => /\ rows'[r] # Absent
                                      /\ rows'[r].health = rows[r].health
                                      /\ rows'[r].note = rows[r].note
    <3>1. CASE r # s
      BY <3>1, <1>7 DEF ensureEventService, IInv, TypeOK
    <3>2. CASE r = s
      <4>1. rows'[s] = EventRow(s)
        BY <1>7 DEF ensureEventService, IInv, TypeOK
      <4>2. EventRow(s) \in Rows
        BY DEF EventRow, Rows, IInv, TypeOK, Healths
      <4>3. rows[s] # Absent => EventRow(s).health = rows[s].health /\ EventRow(s).note = rows[s].note
        BY DEF EventRow, Rows, IInv, TypeOK
      <4> QED
        BY <3>2, <4>1, <4>2, <4>3, RollupAssumption
    <3> QED
      BY <3>1, <3>2
  <2>2. ASSUME NEW r \in Services PROVE RowDone(r)'
    <3>1. RowDone(r)
      BY <1>7 DEF ensureEventService, RowsInv
    <3>2. Of(r)' = Of(r) /\ Merged(r)' = Merged(r) /\ joinRolloutNotes(r)' = joinRolloutNotes(r)
      BY <1>7 DEF ensureEventService, Of, Merged, joinRolloutNotes
    <3>3. prior' = prior
      BY <1>7 DEF ensureEventService
    <3> QED
      BY <2>1, <3>1, <3>2, <3>3 DEF RowDone
  <2> QED
    BY <2>2, <1>7 DEF ensureEventService, RowsInv
<1> QED
  BY <1>2, <1>3, <1>4, <1>5, <1>6, <1>7 DEF Next

\* At the end every row is the merge of what it was with the worst of its workloads.
LEMMA RowsRight == Spec => []RowsInv
<1>1. Init => RowsInv
  BY DEF Init, RowsInv
<1> QED
  BY <1>1, RowsKept, Invariance, PTL DEF Spec

\* The pairwise merge of two healths is the worst of what is said, as a set.
LEMMA MergedIsWorst ==
  ASSUME TypeOK, NEW s \in Services, Of(s) # {}
  PROVE  Merged(s) = IF "unhealthy" \in Said(s) THEN "unhealthy"
                     ELSE IF "degraded" \in Said(s) THEN "degraded"
                     ELSE IF "healthy" \in Said(s) THEN "healthy"
                     ELSE "unknown"
<1> DEFINE w == WorstOf(Of(s))
           p == prior[s].health
<1>1. w \in {"unhealthy", "degraded", "healthy", "unknown"}
  BY DEF WorstOf
<1>2. CASE prior[s] = Absent \/ prior[s].k8s
  <2>1. Said(s) = {w}
    BY <1>2 DEF Said
  <2>2. Merged(s) = w
    BY <1>2 DEF Merged, mergeHealth
  <2> HIDE DEF w
  <2> QED
    BY <2>1, <2>2, <1>1
<1>3. CASE prior[s] # Absent /\ ~prior[s].k8s
  <2>1. Said(s) = {w, p}
    BY <1>3 DEF Said
  <2>2. Merged(s) = mergeHealth(p, w, FALSE)
    BY <1>3 DEF Merged, mergeHealth
  <2>3. p \in {"unhealthy", "degraded", "healthy", "unknown"}
    BY <1>3 DEF TypeOK, Rows, Healths
  <2> HIDE DEF w, p
  <2> QED
    BY <2>1, <2>2, <2>3, <1>1 DEF mergeHealth, healthRank
<1> QED
  BY <1>2, <1>3

\* A healthy workload never hides a sick one, whatever the order of the dump; no
\* scrape improves what somebody else said, and a service without workloads keeps
\* its health.
THEOREM WorstWinsAlways == Spec => []WorstWins
<1>1. IInv /\ RowsInv => WorstWins
  <2> SUFFICES ASSUME IInv, RowsInv, pc = "done", NEW s \in Services
      PROVE  /\ Of(s) # {} =>
                  rows[s].health = IF "unhealthy" \in Said(s) THEN "unhealthy"
                                   ELSE IF "degraded" \in Said(s) THEN "degraded"
                                   ELSE IF "healthy" \in Said(s) THEN "healthy"
                                   ELSE "unknown"
             /\ Of(s) = {} /\ prior[s] # Absent => rows[s].health = prior[s].health
    BY DEF WorstWins
  <2>1. RowDone(s)
    BY DEF RowsInv
  <2>2. CASE Of(s) # {}
    BY <2>1, <2>2, MergedIsWorst DEF RowDone, IInv
  <2>3. CASE Of(s) = {}
    BY <2>1, <2>3 DEF RowDone
  <2> QED
    BY <2>2, <2>3
<1> QED
  BY <1>1, Invariance, RowsRight, PTL

-----------------------------------------------------------------------------
(* Replica counts are no all-clear.                                         *)

\* Until a pack is made the workloads are those of the dump.
LoadedInv ==
  packs = 0 /\ pc # "load" =>
    deps = {nativeToWorkload(o) : o \in {w \in loadK8sSnapshot(dump) : k8sAllowed(w)}}

LEMMA LoadedRight == Spec => []LoadedInv
<1>1. Init => LoadedInv
  BY DEF Init, LoadedInv
<1>2. IInv /\ LoadedInv /\ [Next]_vars => LoadedInv'
  <2> SUFFICES ASSUME IInv, LoadedInv, [Next]_vars PROVE LoadedInv'
    OBVIOUS
  <2>1. CASE UNCHANGED vars
    BY <2>1 DEF vars, LoadedInv, k8sAllowed
  <2>2. CASE Load
    BY <2>2 DEF Load, LoadedInv, k8sAllowed
  <2>3. ASSUME NEW d \in deps, Weigh(d) PROVE LoadedInv'
    BY <2>3 DEF Weigh, LoadedInv, k8sAllowed
  <2>4. CASE Weighed \/ RowsApplied \/ Finish
    BY <2>4 DEF Weighed, RowsApplied, Finish, LoadedInv, k8sAllowed
  <2>5. ASSUME NEW s \in Services, applyDeploymentHealth(s) \/ ensureEventService(s)
        PROVE  LoadedInv'
    BY <2>5 DEF applyDeploymentHealth, ensureEventService, LoadedInv, k8sAllowed
  <2>6. CASE WritePack
    BY <2>6, RollupAssumption DEF WritePack, LoadedInv, IInv, TypeOK
  <2> QED
    BY <2>1, <2>2, <2>3, <2>4, <2>5, <2>6 DEF Next
<1> QED
  BY <1>1, <1>2, Invariance, PTL DEF Spec

\* The workloads of s are those of the objects that count for s.
LEMMA CountedIsLoaded ==
  ASSUME IInv, LoadedInv, packs = 0, pc # "load", NEW s \in Services
  PROVE  /\ Of(s) = {nativeToWorkload(o) : o \in Counted(s)}
         /\ \A o \in Counted(s) : o \in Objects /\ o.kind # "event"
<1>1. \A o : nativeToWorkload(o).svc = o.svc
  BY DEF nativeToWorkload
<1>2. Counted(s) = {o \in loadK8sSnapshot(dump) : k8sAllowed(o) /\ o.svc = s}
  BY DEF Counted, loadK8sSnapshot, replicaSetCovered, Workloads
<1>3. Of(s) = {nativeToWorkload(o) : o \in Counted(s)}
  BY <1>1, <1>2 DEF LoadedInv, Of
<1>4. \A o \in Counted(s) : o \in Objects /\ o.kind # "event"
  BY DEF Counted, IInv, TypeOK, Workloads
<1> QED
  BY <1>3, <1>4

\* A scrape makes a service healthy only on Kubernetes' own word about each of its
\* workloads that wants anything.
THEOREM AllClearIsEarned == Spec => []HealthyIsEarned
<1>1. IInv /\ RowsInv /\ LoadedInv => HealthyIsEarned
  <2> SUFFICES ASSUME IInv, RowsInv, LoadedInv, pc = "done", packs = 0, NEW s \in Services,
                      Of(s) # {}, rows[s].health = "healthy",
                      ~(prior[s] # Absent /\ ~prior[s].k8s /\ prior[s].health = "healthy")
               PROVE  /\ \A o \in Counted(s) : Desired(o) = 0 \/ Serves(o)
                      /\ \E o \in Counted(s) : Desired(o) > 0 /\ Serves(o)
    BY DEF HealthyIsEarned
  <2>1. Merged(s) = "healthy"
    BY DEF RowsInv, RowDone
  <2>2. WorstOf(Of(s)) = "healthy"
    BY <2>1 DEF Merged, mergeHealth
  <2>3. worst[s] \in Of(s) /\ worst[s] \in Entries /\ health(worst[s]) = "healthy"
    BY <2>2, SomeoneSpeaks
  <2>4. \A d \in Of(s) : d \in Entries /\ workloadSignalRank(d) <= 1
    <3>1. workloadSignalRank(worst[s]) = 1
      BY <2>3, RankHealth
    <3>2. \A d \in Of(s) : workloadSignalRank(d) <= workloadSignalRank(worst[s])
      BY <2>3, RollupAssumption DEF IInv, WorstInv, Speaks, Seen
    <3> QED
      BY <3>1, <3>2 DEF Of, IInv, TypeOK
  <2>5. \A d \in Of(s) : health(d) = "healthy" \/ workloadSignalRank(d) = 0
    <3> TAKE d \in Of(s)
    <3>1. d \in Entries /\ workloadSignalRank(d) <= 1
      BY <2>4
    <3>2. workloadSignalRank(d) \in 0..4
      BY <3>1, RankHealth
    <3>3. workloadSignalRank(d) = 0 \/ workloadSignalRank(d) = 1
      BY <3>1, <3>2
    <3>4. workloadSignalRank(d) = 1 => health(d) = "healthy"
      BY <3>1, RankHealth
    <3> QED
      BY <3>3, <3>4
  <2>6. /\ Of(s) = {nativeToWorkload(o) : o \in Counted(s)}
        /\ \A o \in Counted(s) : o \in Objects /\ o.kind # "event"
    BY CountedIsLoaded
  <2>7. \A o \in Counted(s) : Desired(o) = 0 \/ Serves(o)
    BY <2>5, <2>6, HealthyServes
  <2>8. PICK o \in Counted(s) : nativeToWorkload(o) = worst[s]
    BY <2>3, <2>6
  <2>9. Desired(o) > 0 /\ Serves(o)
    BY <2>3, <2>6, <2>8, HealthyServes
  <2> QED
    BY <2>7, <2>9
<1> QED
  BY <1>1, Invariance, RowsRight, LoadedRight, PTL

\* When all workloads of a service serve, it is healthy and nothing is left to explain.
THEOREM RecoveryIsVisible == Spec => []RecoveryShows
<1>1. IInv /\ RowsInv /\ LoadedInv => RecoveryShows
  <2> SUFFICES ASSUME IInv, RowsInv, LoadedInv, pc = "done", packs = 0, NEW s \in Services,
                      Counted(s) # {}, \A o \in Counted(s) : Desired(o) > 0 /\ Serves(o),
                      prior[s] = Absent \/ prior[s].k8s \/ prior[s].health = "unknown"
               PROVE  rows[s].health = "healthy" /\ rows[s].note = {}
    BY DEF RecoveryShows
  <2>1. /\ Of(s) = {nativeToWorkload(o) : o \in Counted(s)}
        /\ \A o \in Counted(s) : o \in Objects /\ o.kind # "event"
    BY CountedIsLoaded
  <2>2. Of(s) # {}
    BY <2>1
  <2>3. \A d \in Of(s) : health(d) = "healthy" /\ d.note = {}
    BY <2>1, ServesHealthy
  <2>4. WorstOf(Of(s)) = "healthy"
    BY <2>2, <2>3, SomeoneSpeaks
  <2>5. joinRolloutNotes(s) = {}
    BY <2>3 DEF joinRolloutNotes
  <2>6. Merged(s) = "healthy"
    BY <2>4 DEF Merged, mergeHealth
  <2>7. RowDone(s)
    BY DEF RowsInv
  <2> QED
    BY <2>2, <2>5, <2>6, <2>7 DEF RowDone
<1> QED
  BY <1>1, Invariance, RowsRight, LoadedRight, PTL

-----------------------------------------------------------------------------
(* Packs.                                                                   *)

\* A packed workload stands for its row, or for a rollout that it was made of.
StandsFor(d) ==
  /\ ~d.forceDegraded /\ ~d.forceUnknown /\ prior[d.svc] # Absent
  /\ \/ d.at = 0 /\ deploymentHealth(d.desired, d.ready) = prior[d.svc].health
     \/ [svc |-> d.svc, at |-> d.at, desired |-> d.desired, ready |-> d.ready] \in changes

PackInv == packs > 0 => pc # "load" /\ \A d \in deps : StandsFor(d)

LEMMA PackRight == Spec => []PackInv
<1>1. Init => PackInv
  BY DEF Init, PackInv
<1>2. IInv /\ PackInv /\ [Next]_vars => PackInv'
  <2> SUFFICES ASSUME IInv, PackInv, [Next]_vars PROVE PackInv'
    OBVIOUS
  <2>1. CASE UNCHANGED vars
    BY <2>1 DEF vars, PackInv, StandsFor
  <2>2. CASE Load
    BY <2>2 DEF Load, PackInv, IInv, LoopInv
  <2>3. ASSUME NEW d \in deps, Weigh(d) PROVE PackInv'
    BY <2>3 DEF Weigh, PackInv, StandsFor
  <2>4. CASE Weighed \/ RowsApplied \/ Finish
    BY <2>4 DEF Weighed, RowsApplied, Finish, PackInv, StandsFor
  <2>5. ASSUME NEW s \in Services, applyDeploymentHealth(s) PROVE PackInv'
    BY <2>5 DEF applyDeploymentHealth, PackInv, StandsFor
  <2>6. ASSUME NEW s \in Services, ensureEventService(s) PROVE PackInv'
    BY <2>6 DEF ensureEventService, PackInv, StandsFor
  <2>7. CASE WritePack
    <3>1. ASSUME NEW s \in PackedServices, NEW c \in PackCounts(s) PROVE StandsFor(Packed(c))'
      <4>1. c \in Counts /\ c.svc = s /\ rows[s] # Absent /\ s \in Services
        BY <3>1, PackCountsTyped DEF IInv, PackedServices
      <4>2. /\ Packed(c).svc = s /\ Packed(c).at = c.at
            /\ Packed(c).desired = c.desired /\ Packed(c).ready = c.ready
            /\ ~Packed(c).forceDegraded /\ ~Packed(c).forceUnknown
        BY <4>1 DEF Packed
      <4>3. c = [svc |-> s, at |-> c.at, desired |-> c.desired, ready |-> c.ready]
        BY <4>1 DEF Counts
      <4>4. rows[s].health \in Healths
        BY <4>1 DEF IInv, TypeOK, Rows
      <4>5. CASE RolloutsOf(s) = {}
        <5>1. c.at = 0 /\ deploymentHealth(c.desired, c.ready) = rows[s].health
          BY <3>1, <4>4, <4>5 DEF PackCounts, Synthesized, deploymentHealth, Healths
        <5> QED
          BY <5>1, <4>1, <4>2, <2>7 DEF WritePack, StandsFor
      <4>6. CASE RolloutsOf(s) # {}
        <5>1. c \in changes
          BY <3>1, <4>6 DEF PackCounts, RolloutsOf
        <5> QED
          BY <5>1, <4>1, <4>2, <4>3, <2>7 DEF WritePack, StandsFor
      <4> QED
        BY <4>5, <4>6
    <3>2. \A d \in deps' : \E s \in PackedServices : \E c \in PackCounts(s) : d = Packed(c)
      BY <2>7 DEF WritePack
    <3> QED
      BY <3>1, <3>2, <2>7 DEF WritePack, PackInv
  <2> QED
    BY <2>1, <2>2, <2>3, <2>4, <2>5, <2>6, <2>7 DEF Next
<1> QED
  BY <1>1, <1>2, Invariance, PTL DEF Spec

\* A replayed pack shows a service as the packed store did, when its dated rollouts
\* agree with its health or it has none: any number of packs one after another.
THEOREM ReplayAgrees == Spec => []PackReplays
<1>1. IInv /\ RowsInv /\ PackInv => PackReplays
  <2> SUFFICES ASSUME IInv, RowsInv, PackInv, pc = "done", packs > 0, NEW s \in Services,
                      prior[s] # Absent,
                      \A c \in RolloutsOf(s) : deploymentHealth(c.desired, c.ready) = prior[s].health
               PROVE  rows[s] # Absent /\ rows[s].health = prior[s].health
    BY DEF PackReplays
  <2>1. RowDone(s)
    BY DEF RowsInv
  <2>2. CASE Of(s) = {}
    BY <2>1, <2>2 DEF RowDone
  <2>3. CASE Of(s) # {}
    <3> DEFINE w == worst[s]
    <3>1. w \in Of(s) /\ w \in Entries /\ health(w) = WorstOf(Of(s))
      BY <2>3, SomeoneSpeaks
    <3>2. StandsFor(w) /\ w.svc = s
      BY <3>1 DEF PackInv, Of
    <3>3. deploymentHealth(w.desired, w.ready) = prior[s].health
      <4>1. CASE w.at = 0 /\ deploymentHealth(w.desired, w.ready) = prior[w.svc].health
        BY <4>1, <3>2
      <4>2. CASE [svc |-> w.svc, at |-> w.at, desired |-> w.desired, ready |-> w.ready] \in changes
        <5>1. [svc |-> s, at |-> w.at, desired |-> w.desired, ready |-> w.ready] \in RolloutsOf(s)
          BY <4>2, <3>2 DEF RolloutsOf
        <5> QED
          BY <5>1
      <4> QED
        BY <4>1, <4>2, <3>2 DEF StandsFor
    <3>4. WorstOf(Of(s)) = prior[s].health
      BY <3>1, <3>2, <3>3 DEF StandsFor, health
    <3>5. Merged(s) = prior[s].health
      BY <3>4 DEF Merged, mergeHealth
    <3> QED
      BY <2>1, <2>3, <3>5 DEF RowDone
  <2> QED
    BY <2>2, <2>3
<1> QED
  BY <1>1, Invariance, RowsRight, PackRight, PTL
=============================================================================
