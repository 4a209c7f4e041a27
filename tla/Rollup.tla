------------------------------- MODULE Rollup -------------------------------
(***************************************************************************)
(* A Kubernetes snapshot becomes service rows (ingestK8sFiles,             *)
(* internal/ingest/kubernetes.go), and rows become a snapshot again:       *)
(* `opsgraph pack` writes a dump that its replay ingests (packK8s,         *)
(* internal/ingest/pack.go, through IngestFixtureFS).                      *)
(*                                                                         *)
(* The workloads are weighed one by one in any order, which is the order   *)
(* of the dump; the code goes service by service, and services do not      *)
(* affect one another.                                                     *)
(***************************************************************************)
EXTENDS Workloads

CONSTANTS
  TestDumps,    \* bound: the dumps that are ingested
  TestAllows,   \* the k8s filters of the config
  TestRows,     \* the service rows that are there already
  MaxPacks      \* bound: packs made of the outcome and replayed

Rows == [health : Healths, k8s : BOOLEAN, note : SUBSET Phrases]
Filters == [names : SUBSET Names, namespaces : SUBSET Namespaces]

ASSUME RollupAssumption ==
  /\ TestDumps \subseteq SUBSET Objects
  /\ TestAllows \subseteq [Services -> Filters]
  /\ TestRows \subseteq [Services -> Rows \cup {Absent}]
  /\ MaxPacks \in Nat
  /\ Absent \notin Rows \cup Entries

VARIABLES
  dump,     \* the objects in the snapshot files
  allow,    \* svcK8sAllow of each service; an empty set does not filter
  rows,     \* the services table: health, source kubernetes, label opsgraph_rollout
  prior,    \* history: rows when this snapshot was read
  deps,     \* the workloads of this snapshot
  worst,    \* the workload that speaks for each service so far
  events,   \* services with an event in the evidence
  changes,  \* rollout changes
  todo,     \* what the running loop has not visited
  pc, packs

vars == <<dump, allow, rows, prior, deps, worst, events, changes, todo, pc, packs>>

Nobody == [s \in Services |-> Absent]

Of(s) == {d \in deps : d.svc = s}

Init ==
  /\ dump \in TestDumps /\ allow \in TestAllows
  /\ rows \in TestRows /\ prior = rows
  /\ deps = {} /\ worst = Nobody /\ events = {} /\ changes = {}
  /\ todo = {} /\ pc = "load" /\ packs = 0
-----------------------------------------------------------------------------
k8sAllowed(o) ==
  /\ allow[o.svc].names = {} \/ o.name \in allow[o.svc].names
  /\ allow[o.svc].namespaces = {} \/ o.ns \in allow[o.svc].namespaces

\* Events are filtered by namespace only; those without a time are dropped.
k8sEventAllowed(e) ==
  /\ e.kind = "event" /\ e.at > 0
  /\ allow[e.svc].namespaces = {} \/ e.ns \in allow[e.svc].namespaces

Load ==
  /\ pc = "load" /\ pc' = "weigh"
  /\ deps' = {nativeToWorkload(o) : o \in {w \in loadK8sSnapshot(dump) : k8sAllowed(w)}}
  /\ events' = {e.svc : e \in {o \in dump : k8sEventAllowed(o)}}
  /\ todo' = deps'
  /\ UNCHANGED <<dump, allow, rows, prior, worst, changes, packs>>

Weigh(d) ==
  /\ pc = "weigh" /\ d \in todo
  /\ todo' = todo \ {d}
  /\ worst' = [worst EXCEPT ![d.svc] =
                 IF @ = Absent THEN d ELSE IF betterWorkload(d, @) THEN d ELSE @]
  /\ UNCHANGED <<dump, allow, rows, prior, deps, events, changes, pc, packs>>

Weighed ==
  /\ pc = "weigh" /\ todo = {}
  /\ pc' = "apply" /\ todo' = {d.svc : d \in deps}
  /\ UNCHANGED <<dump, allow, rows, prior, deps, worst, events, changes, packs>>

\* A stale status explains nothing unless it speaks for the service.
joinRolloutNotes(s) ==
  UNION {d.note : d \in {x \in Of(s) : x.forceUnknown => worst[s].forceUnknown}}

\* Mutant: yesterday's note stays when there is none today.
AppliedKeepsNote(s) ==
  [health |-> IF rows[s] = Absent THEN health(worst[s])
              ELSE mergeHealth(rows[s].health, health(worst[s]), rows[s].k8s),
   k8s    |-> TRUE,
   note   |-> IF joinRolloutNotes(s) = {} /\ rows[s] # Absent
              THEN rows[s].note ELSE joinRolloutNotes(s)]

Applied(s) ==
  [health |-> IF rows[s] = Absent THEN health(worst[s])
              ELSE mergeHealth(rows[s].health, health(worst[s]), rows[s].k8s),
   k8s    |-> TRUE,
   note   |-> joinRolloutNotes(s)]

\* emitRollout: a change for every workload that says when it was updated
Rollouts(s) ==
  {[svc |-> s, at |-> d.at, desired |-> d.desired, ready |-> d.ready] :
     d \in {x \in Of(s) : x.at > 0}}

applyDeploymentHealth(s) ==
  /\ pc = "apply" /\ s \in todo
  /\ todo' = todo \ {s}
  /\ rows' = [rows EXCEPT ![s] = Applied(s)]
  /\ changes' = changes \cup Rollouts(s)
  /\ UNCHANGED <<dump, allow, prior, deps, worst, events, pc, packs>>

RowsApplied ==
  /\ pc = "apply" /\ todo = {}
  /\ pc' = "events" /\ todo' = events
  /\ UNCHANGED <<dump, allow, rows, prior, deps, worst, events, changes, packs>>

\* A service that only events speak of is unknown; others keep their health.
EventRow(s) ==
  IF rows[s] = Absent THEN [health |-> "unknown", k8s |-> TRUE, note |-> {}]
  ELSE [rows[s] EXCEPT !.k8s = TRUE]

ensureEventService(s) ==
  /\ pc = "events" /\ s \in todo
  /\ todo' = todo \ {s}
  /\ rows' = [rows EXCEPT ![s] = EventRow(s)]
  /\ UNCHANGED <<dump, allow, prior, deps, worst, events, changes, pc, packs>>

Finish ==
  /\ pc = "events" /\ todo = {}
  /\ pc' = "done"
  /\ UNCHANGED <<dump, allow, rows, prior, deps, worst, events, changes, todo, packs>>
-----------------------------------------------------------------------------
(* Packing and replaying.                                                   *)

\* The counts that stand for a health.
Synthesized(h) ==
  IF h = "healthy" THEN [desired |-> 1, ready |-> 1]
  ELSE IF h = "degraded" THEN [desired |-> 2, ready |-> 1]
  ELSE IF h = "unhealthy" THEN [desired |-> 1, ready |-> 0]
  ELSE [desired |-> 0, ready |-> 0]

RolloutsOf(s) == {c \in changes : c.svc = s}

Counts == [svc : Services, at : Nat, desired : Nat, ready : Nat]

\* The newest rollouts of s, one of which is packed; without any, the synthesized counts.
PackCounts(s) ==
  IF RolloutsOf(s) = {}
  THEN {[svc |-> s, at |-> 0, desired |-> Synthesized(rows[s].health).desired,
         ready |-> Synthesized(rows[s].health).ready]}
  ELSE {c \in RolloutsOf(s) : \A d \in RolloutsOf(s) : d.at <= c.at}

\* Mutant: "(ready/desired ready)" is read back the wrong way round.
PackedSwapped(c) ==
  [svc |-> c.svc, desired |-> c.ready, ready |-> c.desired,
   forceDegraded |-> FALSE, forceUnknown |-> FALSE, note |-> {}, at |-> c.at]

\* The conditions and the stale mark of a workload are not packed.
Packed(c) ==
  [svc |-> c.svc, desired |-> c.desired, ready |-> c.ready,
   forceDegraded |-> FALSE, forceUnknown |-> FALSE, note |-> {}, at |-> c.at]

PackedServices ==
  {s \in Services : rows[s] # Absent /\ (rows[s].k8s \/ RolloutsOf(s) # {})}

\* `opsgraph pack`, and the replay up to the snapshot: the rows and changes come
\* back as they were from the other files of the pack. There is no filter.
WritePack ==
  /\ pc = "done" /\ packs < MaxPacks
  /\ packs' = packs + 1
  /\ prior' = rows
  /\ \E pick \in [PackedServices -> UNION {PackCounts(s) : s \in PackedServices}] :
       /\ \A s \in PackedServices : pick[s] \in PackCounts(s)
       /\ deps' = {Packed(pick[s]) : s \in PackedServices}
  /\ todo' = deps' /\ worst' = Nobody /\ pc' = "weigh"
  /\ UNCHANGED <<dump, allow, rows, events, changes>>

Next ==
  \/ Load \/ Weighed \/ RowsApplied \/ Finish \/ WritePack
  \/ \E d \in deps : Weigh(d)
  \/ \E s \in Services : applyDeploymentHealth(s) \/ ensureEventService(s)

Spec == Init /\ [][Next]_vars
-----------------------------------------------------------------------------
(* Properties.                                                              *)

TypeOK ==
  /\ dump \in SUBSET Objects /\ allow \in [Services -> Filters]
  /\ rows \in [Services -> Rows \cup {Absent}] /\ prior \in [Services -> Rows \cup {Absent}]
  /\ deps \in SUBSET Entries /\ worst \in [Services -> Entries \cup {Absent}]
  /\ events \subseteq Services /\ changes \in SUBSET Counts
  /\ todo \subseteq Entries \cup Services
  /\ pc \in {"load", "weigh", "apply", "events", "done"} /\ packs \in 0..MaxPacks

WorstOf(list) ==
  IF \E d \in list : health(d) = "unhealthy" THEN "unhealthy"
  ELSE IF \E d \in list : health(d) = "degraded" THEN "degraded"
  ELSE IF \E d \in list : d.forceUnknown THEN "unknown"
  ELSE IF \E d \in list : health(d) = "healthy" THEN "healthy"
  ELSE "unknown"

\* What is said of s: by the worst of its workloads, and by the row it had, unless
\* that was Kubernetes' word of an earlier scrape.
Said(s) ==
  {WorstOf(Of(s))}
    \cup (IF prior[s] = Absent \/ prior[s].k8s THEN {} ELSE {prior[s].health})

\* "Roll up worst replica health so a healthy deploy cannot hide an unhealthy one":
\* in whatever order a dump lists them, a service ends with the health of the worst
\* of its workloads, a stale status being worse than a full count; what somebody
\* other than Kubernetes said of it before is never improved, what Kubernetes said
\* gives way, and a service without workloads keeps its health.
WorstWins ==
  pc = "done" => \A s \in Services :
    /\ Of(s) # {} =>
         rows[s].health = IF "unhealthy" \in Said(s) THEN "unhealthy"
                          ELSE IF "degraded" \in Said(s) THEN "degraded"
                          ELSE IF "healthy" \in Said(s) THEN "healthy"
                          ELSE "unknown"
    /\ Of(s) = {} /\ prior[s] # Absent => rows[s].health = prior[s].health

\* The objects of a dump that speak for s: allowed ones, and no ReplicaSet whose
\* parent is in the dump.
Counted(s) ==
  {o \in dump :
     /\ o.svc = s /\ o.kind \in Workloads \cup {"replicaset"} /\ k8sAllowed(o)
     /\ o.kind = "replicaset" =>
          ~\E p \in dump : /\ p.kind \in Parents /\ p.ns = o.ns
                           /\ <<p.kind, p.name>> \in o.owners \/ p.name = o.stem}

\* Kubernetes' own word that the work o wants is being done as o wants it now.
Serves(o) ==
  /\ o.generation = Absent \/ o.observed = Absent \/ o.kind = "cronjob"
       \/ o.observed >= o.generation
  /\ IF o.kind = "job"
     THEN o.succeeded >= Desired(o) \/ ("failed" \notin o.conds /\ o.failed = 0)
     ELSE /\ o.ready >= Desired(o)
          /\ o.conds \cap Failures = {}
          /\ "availableTrue" \in o.conds \/
               /\ o.avail = Absent \/ o.avail >= Desired(o)
               /\ o.unavail = Absent \/ o.unavail = 0

\* Replica counts are no all-clear by themselves: a scrape makes a service healthy
\* only when each of its workloads that wants anything serves it, and one does
\* (assessWorkload: "A full ready count is also a false all-clear when ...").
HealthyIsEarned ==
  pc = "done" /\ packs = 0 => \A s \in Services :
    Of(s) # {} /\ rows[s].health = "healthy" =>
      \/ prior[s] # Absent /\ ~prior[s].k8s /\ prior[s].health = "healthy"
      \/ /\ \A o \in Counted(s) : Desired(o) = 0 \/ Serves(o)
         /\ \E o \in Counted(s) : Desired(o) > 0 /\ Serves(o)

\* When every workload of a service serves, the service is healthy again and
\* without yesterday's rollout note, whatever Kubernetes said of it before ("the
\* latest scrape rollup wins so recovery is visible").
RecoveryShows ==
  pc = "done" /\ packs = 0 => \A s \in Services :
    /\ Counted(s) # {} /\ \A o \in Counted(s) : Desired(o) > 0 /\ Serves(o)
    /\ prior[s] = Absent \/ prior[s].k8s \/ prior[s].health = "unknown"
    => rows[s].health = "healthy" /\ rows[s].note = {}

\* The counts that a pack stores are enough where nothing but counts made the health:
\* a replayed pack shows a service as the packed store did when every dated rollout
\* of the service agrees with its health, or it has none (packK8s).
PackReplays ==
  pc = "done" /\ packs > 0 => \A s \in Services :
    prior[s] # Absent
    /\ (\A c \in RolloutsOf(s) : deploymentHealth(c.desired, c.ready) = prior[s].health)
    => rows[s] # Absent /\ rows[s].health = prior[s].health

\* "Anyone can replay it with no cluster and get the same JSON" (docs/USAGE.md on
\* `opsgraph pack`): a replayed pack shows each service as the packed store did.
\* The code does not keep this: the replay takes the counts of the newest rollout
\* without the condition that overruled them, and without the worse workloads beside it.
PackKeepsHealth ==
  pc = "done" /\ packs > 0 => \A s \in Services :
    prior[s] # Absent => rows[s] # Absent /\ rows[s].health = prior[s].health
=============================================================================
