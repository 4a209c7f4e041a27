----------------------------- MODULE Workloads -----------------------------
(***************************************************************************)
(* What OpsGraph reads off one object of a Kubernetes dump                 *)
(* (internal/ingest/native_k8s.go) and how it ranks the workloads of a     *)
(* service (internal/ingest/kubernetes.go).                                *)
(*                                                                         *)
(* An object carries the counters its kind reports under common names:     *)
(* want is spec.replicas, spec.completions or desiredNumberScheduled,      *)
(* avail and unavail are the available counts. Absent fields matter, the   *)
(* code reads them through pointers. conds are the conditions the code     *)
(* tells apart, svc is what inferServiceID makes of labels and name, stem  *)
(* the name without a controller hash, at the update time (0: none).       *)
(***************************************************************************)
EXTENDS Integers

CONSTANTS
  Services, Names, Namespaces,
  Absent        \* a field the object does not have; also no name

ASSUME AbsentAssumption == Absent \notin Int \cup Names

Healths    == {"unknown", "healthy", "degraded", "unhealthy"}
Workloads  == {"deployment", "statefulset", "daemonset", "job", "cronjob"}
Parents    == {"deployment", "statefulset", "daemonset"}
Replicated == Parents \cup {"replicaset"}
Failures   == {"deadline", "replicaFailure", "availableFalse"}
Conditions == Failures \cup {"availableTrue", "failed"}
Phrases    == Failures \cup {"retrying", "stale"}
Maybe      == Nat \cup {Absent}

Objects ==
  [kind : Workloads \cup {"replicaset", "event"}, name : Names, ns : Namespaces,
   svc : Services, stem : Names \cup {Absent}, owners : SUBSET (Parents \X Names),
   generation : Maybe, observed : Maybe, want : Maybe, ready : Nat, avail : Maybe,
   unavail : Maybe, succeeded : Nat, failed : Nat, active : Nat,
   conds : SUBSET Conditions, at : Nat]

\* k8sDeployment, once the filter has looked at name and namespace
Entries ==
  [svc : Services, desired : Nat, ready : Nat,
   forceDegraded : BOOLEAN, forceUnknown : BOOLEAN, note : SUBSET Phrases, at : Nat]
-----------------------------------------------------------------------------
(* Counters and conditions.                                                 *)

deploymentHealth(desired, ready) ==
  IF desired <= 0 THEN "unknown"
  ELSE IF ready >= desired THEN "healthy"
  ELSE IF ready = 0 THEN "unhealthy"
  ELSE "degraded"

\* A Failed condition counts even when status.failed was left out.
jobTerminalFailure(o) == "failed" \in o.conds \/ (o.failed > 0 /\ o.active = 0)

OrOne(n) == IF n = Absent THEN 1 ELSE n

Desired(o) ==
  IF o.kind = "cronjob" THEN 0
  ELSE IF o.kind = "daemonset" THEN (IF o.want = Absent THEN 0 ELSE o.want)
  ELSE IF o.kind = "job" /\ OrOne(o.want) = 0 THEN 1
  ELSE OrOne(o.want)

\* A job without successes looks ready; the retry marks it degraded instead.
JobReady(o) ==
  IF o.succeeded >= Desired(o) THEN Desired(o)
  ELSE IF jobTerminalFailure(o) THEN 0
  ELSE IF o.failed > 0 /\ o.active > 0 /\ o.succeeded > 0 THEN o.succeeded
  ELSE Desired(o)

Ready(o) ==
  IF o.kind = "cronjob" THEN 0
  ELSE IF o.kind = "job" THEN JobReady(o)
  ELSE o.ready

jobStillRetrying(o) ==
  /\ o.succeeded < Desired(o) /\ ~jobTerminalFailure(o)
  /\ o.failed > 0 /\ o.active > 0

\* statusStaleNote
statusStale(o) ==
  /\ o.kind \in Replicated \cup {"job"}
  /\ o.generation # Absent /\ o.observed # Absent
  /\ o.generation > 0 /\ o.observed < o.generation

\* Mutant: only a missed deadline is looked at.
DeadlineOnly(o) == o.conds \cap {"deadline"}

\* rolloutDegradedNote
rolloutDegraded(o) == o.conds \cap Failures

availableConditionKnown(o) == o.conds \cap {"availableTrue", "availableFalse"} # {}

capacityShort(o) ==
  /\ Desired(o) > 0 /\ ~availableConditionKnown(o)
  /\ \/ o.avail # Absent /\ o.avail < Desired(o)
     \/ o.unavail # Absent /\ o.unavail > 0
-----------------------------------------------------------------------------
(* From an object to a k8sDeployment.                                       *)

FullCount(o) == deploymentHealth(Desired(o), Ready(o)) = "healthy"

Assessed(forceDegraded, forceUnknown, note) ==
  [forceDegraded |-> forceDegraded, forceUnknown |-> forceUnknown, note |-> note]

\* A full ready count can be a false all-clear.
assessWorkload(o) ==
  IF statusStale(o) THEN Assessed(FALSE, TRUE, {"stale"})
  ELSE IF o.kind = "job" /\ jobStillRetrying(o)
  THEN Assessed(FullCount(o), FALSE, {"retrying"})
  ELSE IF o.kind \in Replicated /\ rolloutDegraded(o) # {}
  THEN Assessed(FullCount(o), FALSE, rolloutDegraded(o))
  ELSE IF o.kind \in Replicated /\ FullCount(o) /\ capacityShort(o)
  THEN Assessed(TRUE, FALSE, {"availableFalse"})
  ELSE Assessed(FALSE, FALSE, {})

nativeToWorkload(o) ==
  LET a == assessWorkload(o)
  IN  [svc |-> o.svc, desired |-> Desired(o), ready |-> Ready(o), forceDegraded |-> a.forceDegraded,
       forceUnknown |-> a.forceUnknown, note |-> a.note, at |-> o.at]

\* A ReplicaSet belongs to a parent in the dump, by owner reference or by name.
replicaSetCovered(rs, dump) ==
  \E w \in dump :
    /\ w.kind \in Parents /\ w.ns = rs.ns
    /\ <<w.kind, w.name>> \in rs.owners \/ w.name = rs.stem

\* loadK8sSnapshot: all workloads, and the ReplicaSets that have no parent.
loadK8sSnapshot(dump) ==
  {o \in dump : \/ o.kind \in Workloads
                \/ o.kind = "replicaset" /\ ~replicaSetCovered(o, dump)}
-----------------------------------------------------------------------------
(* Rolling up.                                                              *)

health(d) ==
  IF d.forceUnknown THEN "unknown"
  ELSE IF d.forceDegraded /\ deploymentHealth(d.desired, d.ready) = "healthy"
  THEN "degraded"
  ELSE deploymentHealth(d.desired, d.ready)

\* Mutant: a stale status ranks with the workloads that want no replicas.
StaleRankZero(d) ==
  IF health(d) = "unhealthy" THEN 4
  ELSE IF health(d) = "degraded" THEN 3
  ELSE IF health(d) = "healthy" THEN 1
  ELSE 0

\* A stale status beats a full ready count and loses to a real failure.
workloadSignalRank(d) ==
  IF health(d) = "unhealthy" THEN 4
  ELSE IF health(d) = "degraded" THEN 3
  ELSE IF d.forceUnknown THEN 2
  ELSE IF health(d) = "healthy" THEN 1
  ELSE 0

betterWorkload(d, worst) ==
  \/ workloadSignalRank(d) > workloadSignalRank(worst)
  \/ /\ workloadSignalRank(d) = workloadSignalRank(worst)
     /\ worst.note = {} /\ d.note # {}

healthRank(h) ==
  IF h = "unhealthy" THEN 3
  ELSE IF h = "degraded" THEN 2
  ELSE IF h = "healthy" THEN 1
  ELSE 0

\* Mutant: the scrape has the last word, whoever spoke before.
mergeHealthLatest(current, incoming, k8s) == incoming

\* What a scrape makes of the health a row has: what Kubernetes said before gives
\* way, what somebody else said is only ever made worse.
mergeHealth(current, incoming, k8s) ==
  IF \/ current = "unknown" \/ k8s
     \/ healthRank(incoming) > healthRank(current)
  THEN incoming
  ELSE current
=============================================================================
