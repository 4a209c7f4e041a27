--------------------------- MODULE MCIngestStore ---------------------------
(* Two services, an edge between them, a Prometheus series on each and one  *)
(* series that only a fixture pack has.                                     *)
EXTENDS IngestStore, TLC

CONSTANTS checkout, payments, p1, p2, f1

MCServices == {checkout, payments}
MCAlerts == {p1, p2, f1}
MCPromAlerts == {p1, p2}
MCAlertService == (p1 :> checkout) @@ (p2 :> payments) @@ (f1 :> checkout)

Edge == <<checkout, payments>>
Pods(c, p) == (checkout :> c) @@ (payments :> p)
World(config, edges, pods, k8sOn, firing, promOn) ==
  [config |-> config, edges |-> edges, pods |-> pods, k8sOn |-> k8sOn,
   firing |-> firing, promOn |-> promOn]

\* The edge is there or was removed from the config; the snapshot has both
\* services, one that no config names, a stale status ("unknown"), nobody, or is
\* not read; Prometheus fires, is quiet or is not asked.
MCWorlds ==
  {World({checkout}, {Edge}, Pods("healthy", "degraded"), TRUE, {p1, p2}, TRUE),
   World({checkout}, {}, Pods("degraded", "healthy"), TRUE, {}, FALSE),
   World({checkout}, {Edge}, Pods("unknown", NoRow), TRUE, {}, TRUE),
   World({checkout}, {}, Pods("healthy", NoRow), TRUE, {p1}, TRUE),
   World({checkout}, {}, Pods(NoRow, NoRow), FALSE, {p2}, TRUE)}

\* services.yaml names one end of the pack's edge, the other one gets a stub.
MCPacks ==
  {[services |-> (payments :> [health |-> "degraded", k8s |-> TRUE]) @@ (checkout :> NoRow),
    deps |-> {<<payments, checkout>>},
    alerts |-> (p1 :> NoRow) @@ (p2 :> "live") @@ (f1 :> "live")]}
=============================================================================
