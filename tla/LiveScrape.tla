---------------------------- MODULE LiveScrape ----------------------------
(***************************************************************************)
(* What ingest.LiveIngest (internal/ingest/live.go) leaves in the          *)
(* temporary store, as a function of the world it scrapes: the config      *)
(* file, the Kubernetes snapshot and Prometheus.                           *)
(*                                                                         *)
(* Of a row's sources only "kubernetes" tells anything apart, so a service *)
(* row is its health and whether Kubernetes reported it. Alertmanager is a *)
(* second Prometheus; git, helm and plugin connectors are left out.        *)
(***************************************************************************)
EXTENDS FiniteSets

CONSTANTS
  Services,     \* service ids
  Alerts,       \* alert series, by the id upsertRemoteAlert gives them
  AlertService, \* the service label of each series
  PromAlerts,   \* the series whose source is Prometheus; others come from packs
  NoRow         \* no such row

Healths == {"unknown", "healthy", "degraded"}
Rows == [health : Healths, k8s : BOOLEAN]

ASSUME ScrapeAssumption ==
  /\ AlertService \in [Alerts -> Services] /\ PromAlerts \subseteq Alerts
  /\ NoRow \notin Rows \cup Healths \cup {"live", "resolved"}

(***************************************************************************)
(* A world: the services .opsgraph.yaml configures, their depends_on       *)
(* edges, the rolled-up health of each service in the Kubernetes snapshot, *)
(* the alert series Prometheus returns as active, and which of the two     *)
(* connectors are enabled.                                                 *)
(***************************************************************************)
Worlds ==
  [config : SUBSET Services,
   edges  : SUBSET (Services \X Services),
   pods   : [Services -> Healths \cup {NoRow}],
   firing : SUBSET PromAlerts,
   k8sOn  : BOOLEAN,
   promOn : BOOLEAN]

\* depends_on edges of the configured services; blank and self edges are skipped.
SeedEdges(w) == {e \in w.edges : e[1] \in w.config /\ e[1] # e[2]}

\* The configured services and a stub for the far end of every edge.
SeedServices(w) == w.config \cup {e[2] : e \in SeedEdges(w)}

\* Services in the snapshot, when there is a connector to read it.
PodServices(w) == IF w.k8sOn THEN {s \in Services : w.pods[s] # NoRow} ELSE {}

\* Active series, when there is a Prometheus to ask.
Firing(w) == IF w.promOn THEN w.firing ELSE {}

\* mergeHealth: a seed row is unknown, so the snapshot's health replaces it.
ScrapedService(w, s) ==
  IF s \in PodServices(w) THEN [health |-> w.pods[s], k8s |-> TRUE]
  ELSE IF s \in SeedServices(w) \cup {AlertService[a] : a \in Firing(w)}
  THEN [health |-> "unknown", k8s |-> FALSE]
  ELSE NoRow

Scrape(w) ==
  [services |-> [s \in Services |-> ScrapedService(w, s)],
   deps     |-> SeedEdges(w),
   alerts   |-> [a \in Alerts |-> IF a \in Firing(w) THEN "live" ELSE NoRow],
   k8sOk    |-> w.k8sOn,          \* meta connector:kubernetes
   promOk   |-> w.promOn]         \* meta connector:prometheus
=============================================================================
