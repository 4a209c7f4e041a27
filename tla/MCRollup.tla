------------------------------ MODULE MCRollup ------------------------------
(* Two services, web with a Deployment, a canary, a ReplicaSet and the like, *)
(* and batch with jobs; dumps of one or two objects, and of three of web.    *)
EXTENDS Rollup

CONSTANTS web, batch

Plain ==
  [kind |-> "deployment", name |-> "web", ns |-> "default", svc |-> web, stem |-> Absent,
   owners |-> {}, generation |-> 2, observed |-> 2, want |-> 2, ready |-> 2,
   avail |-> Absent, unavail |-> Absent, succeeded |-> 0, failed |-> 0, active |-> 0,
   conds |-> {}, at |-> 1]

Canary == [Plain EXCEPT !.name = "canary", !.at = 2]

\* Full, partial and no counts; counts that a condition, the available numbers or
\* an older generation overrule; none wanted.
Deployments ==
  {Plain, [Plain EXCEPT !.conds = {"deadline"}], [Plain EXCEPT !.observed = 1],
   [Plain EXCEPT !.observed = 1, !.ready = 1],
   [Plain EXCEPT !.ready = 0, !.conds = {"deadline"}],
   [Plain EXCEPT !.avail = 1], [Plain EXCEPT !.avail = 1, !.conds = {"availableTrue"}]}
  \cup
  {Canary, [Canary EXCEPT !.ready = 1], [Canary EXCEPT !.observed = Absent],
   [Canary EXCEPT !.want = 0, !.ready = 0, !.conds = {"deadline"}],
   [Canary EXCEPT !.want = Absent, !.conds = {"availableFalse"}, !.at = 0]}

\* An old revision of web; one of a controller that OpsGraph does not know.
ReplicaSets ==
  {[Plain EXCEPT !.kind = "replicaset", !.name = "web-1", !.ready = 0,
                 !.owners = {<<"deployment", "web">>}, !.at = 0],
   [Plain EXCEPT !.kind = "replicaset", !.name = "web-2", !.stem = "web", !.ready = 1],
   [Plain EXCEPT !.kind = "replicaset", !.name = "web-3", !.ns = "other", !.stem = "web",
                 !.unavail = 1]}

Agent == [Plain EXCEPT !.kind = "daemonset", !.name = "agent", !.want = 1, !.ready = 1,
                       !.unavail = 0]

Job == [Plain EXCEPT !.kind = "job", !.name = "job", !.svc = batch, !.observed = Absent,
                     !.ready = 0, !.conds = {}]

Jobs ==
  {Job, [Job EXCEPT !.succeeded = 2, !.failed = 1],
   [Job EXCEPT !.failed = 1, !.active = 1],
   [Job EXCEPT !.failed = 1, !.active = 1, !.succeeded = 1],
   [Job EXCEPT !.active = 1, !.conds = {"failed"}],
   [Job EXCEPT !.name = "old", !.want = Absent, !.failed = 1]}

Others ==
  {Agent, [Agent EXCEPT !.want = Absent],
   [Job EXCEPT !.kind = "cronjob", !.want = Absent],
   [Job EXCEPT !.kind = "event", !.name = "e1"],
   [Plain EXCEPT !.kind = "event", !.name = "e2", !.at = 0]}

Some == Deployments \cup ReplicaSets
All  == Some \cup Jobs \cup Others

MCDumps ==
  {D \in {{o, p} : o, p \in All} \cup {{o, p, q} : o, p, q \in Some} :
     \A o, p \in D : <<o.kind, o.name>> = <<p.kind, p.name>> => o = p}

NoFilter == [names |-> {}, namespaces |-> {}]

MCAllows ==
  {[s \in Services |-> NoFilter],
   [s \in Services |-> [names |-> {"web", "job"}, namespaces |-> {"default"}]]}

Row(h, k8s, note) == [health |-> h, k8s |-> k8s, note |-> note]

MCRows ==
  {[s \in Services |-> row] : row \in
     {Absent, Row("unknown", FALSE, {}), Row("degraded", FALSE, {}),
      Row("healthy", FALSE, {}), Row("degraded", TRUE, {"deadline"})}}
=============================================================================
