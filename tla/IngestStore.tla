---------------------------- MODULE IngestStore ----------------------------
(***************************************************************************)
(* `opsgraph ingest` (cmd/opsgraph/ingest.go) on a store that lives across *)
(* ingests: --fixture (Reset, then IngestFixtureDir), --replace (the swap  *)
(* of StoreSwap, here one step) and --merge (store.MergeFrom).             *)
(*                                                                         *)
(* Every statement of MergeFrom and of the fixture ingest commits by       *)
(* itself, so each row is a step of its own: an error or a crash can come  *)
(* between any two and leaves what was written.                            *)
(***************************************************************************)
EXTENDS LiveScrape, Naturals

CONSTANTS
  TestWorlds,   \* bound: the worlds a scrape can meet
  Packs,        \* the fixture packs, as stores without a clock
  MaxStops,     \* bound: ingests that an error or a crash cuts short
  ReadErrors    \* TRUE when a read of the destination row can fail

ASSUME IngestAssumption ==
  /\ TestWorlds \subseteq Worlds
  /\ \A pack \in Packs :
       /\ pack.services \in [Services -> Rows \cup {NoRow}]
       /\ pack.deps \subseteq Services \X Services
       /\ pack.alerts \in [Alerts -> {"live", "resolved", NoRow}]
  /\ MaxStops \in Nat /\ ReadErrors \in BOOLEAN

AlertStates == {"live", "resolved", NoRow}   \* live: firing, pending or suppressed

Stores ==
  [services : [Services -> Rows \cup {NoRow}],
   deps     : SUBSET (Services \X Services),
   alerts   : [Alerts -> AlertStates],
   asOf     : BOOLEAN]                       \* meta as_of, the pinned clock

BlankStore ==
  [services |-> [s \in Services |-> NoRow], deps |-> {},
   alerts |-> [a \in Alerts |-> NoRow], asOf |-> FALSE]

VARIABLES
  world,    \* what the next scrape sees
  db,       \* state.db
  mode,     \* "fixture", "replace" or "merge"
  pc,       \* the phase the running ingest is in
  src,      \* the scrape, or the pack, being written
  todo,     \* rows of the phase not yet written
  base,     \* history: the store before the first attempt to merge src
  cut,      \* history: the last ingest was a merge, and it was cut short
  stops

vars == <<world, db, mode, pc, src, todo, base, cut, stops>>

Phases == {"idle", "reset", "fxServices", "fxDeps", "fxAlerts", "setAsOf", "swap",
           "services", "deps", "prune", "alerts", "resolve", "clearAsOf", "done"}

ServicesIn(x) == {s \in Services : x.services[s] # NoRow}
AlertsIn(x)   == {a \in Alerts : x.alerts[a] # NoRow}
LiveIn(x)     == {a \in Alerts : x.alerts[a] = "live"}

Goto(from, to, rows) == pc = from /\ pc' = to /\ todo' = rows

\* One row of the current phase is written; the rows go in any order.
Writes(phase, row) == pc = phase /\ row \in todo /\ todo' = todo \ {row}

Fixed   == <<world, mode, src, base, cut, stops>>

\* No temporary store.
NoSource == [services |-> BlankStore.services, deps |-> {},
             alerts |-> BlankStore.alerts, k8sOk |-> FALSE, promOk |-> FALSE]
-----------------------------------------------------------------------------
Init ==
  /\ world \in TestWorlds
  /\ db = BlankStore /\ base = BlankStore
  /\ mode = "replace" /\ pc = "idle"
  /\ src = NoSource
  /\ todo = {}
  /\ cut = FALSE /\ stops = 0

\* Between ingests configs are edited, pods come and go, alerts fire and clear.
WorldChanges ==
  /\ pc = "idle"
  /\ world' \in TestWorlds
  /\ UNCHANGED <<db, mode, pc, src, todo, base, cut, stops>>

\* LiveIngest into a temporary store; when it fails nothing else happens.
StartLive(m) ==
  /\ pc = "idle"
  /\ mode' = m
  /\ src' = Scrape(world)
  /\ IF m = "replace"
     THEN pc' = "swap" /\ todo' = {}
     ELSE pc' = "services" /\ todo' = ServicesIn(src')
  /\ base' = IF cut /\ m = "merge" /\ src = src' THEN base ELSE db
  /\ cut' = FALSE
  /\ UNCHANGED <<world, db, stops>>

StartFixture(pack) ==
  /\ pc = "idle"
  /\ mode' = "fixture"
  /\ src' = [services |-> pack.services, deps |-> pack.deps, alerts |-> pack.alerts,
             k8sOk |-> FALSE, promOk |-> FALSE]
  /\ pc' = "reset" /\ todo' = {}
  /\ base' = db /\ cut' = FALSE
  /\ UNCHANGED <<world, db, stops>>

\* An error return or a crash: the statements that committed stay.
Stop ==
  /\ pc \notin {"idle", "done"}
  /\ stops < MaxStops
  /\ stops' = stops + 1
  /\ pc' = "idle" /\ todo' = {}
  /\ cut' = (mode = "merge")
  /\ IF cut' THEN UNCHANGED <<src, base>> ELSE src' = NoSource /\ base' = BlankStore
  /\ UNCHANGED <<world, db, mode>>

\* The command returns, the temporary store is gone.
Finish ==
  /\ Goto("done", "idle", {})
  /\ src' = NoSource /\ base' = BlankStore
  /\ UNCHANGED <<world, db, mode, cut, stops>>
-----------------------------------------------------------------------------
(* --fixture                                                                *)

\* Mutant: Reset leaves the meta table as it is.
ResetKeepsMeta ==
  /\ Goto("reset", "fxServices", ServicesIn(src))
  /\ db' = [BlankStore EXCEPT !.asOf = db.asOf]
  /\ UNCHANGED Fixed

\* store.Reset: one transaction over all tables, meta and with it as_of included.
Reset ==
  /\ Goto("reset", "fxServices", ServicesIn(src))
  /\ db' = BlankStore
  /\ UNCHANGED Fixed

FixtureService(s) ==
  /\ Writes("fxServices", s)
  /\ db' = [db EXCEPT !.services[s] = src.services[s]]
  /\ UNCHANGED <<pc, Fixed>>

FixtureServicesDone ==
  /\ todo = {} /\ Goto("fxServices", "fxDeps", src.deps)
  /\ UNCHANGED <<db, Fixed>>

\* ensureServiceStub: an end of the next edge that services.yaml does not name
FixtureStub(e, s) ==
  /\ pc = "fxDeps" /\ e \in todo
  /\ s \in {e[1], e[2]} \ ServicesIn(db)
  /\ db' = [db EXCEPT !.services[s] = [health |-> "unknown", k8s |-> FALSE]]
  /\ UNCHANGED <<pc, todo, Fixed>>

FixtureDep(e) ==
  /\ {e[1], e[2]} \subseteq ServicesIn(db)
  /\ Writes("fxDeps", e)
  /\ db' = [db EXCEPT !.deps = @ \cup {e}]
  /\ UNCHANGED <<pc, Fixed>>

FixtureDepsDone ==
  /\ todo = {} /\ Goto("fxDeps", "fxAlerts", AlertsIn(src))
  /\ UNCHANGED <<db, Fixed>>

FixtureAlert(a) ==
  /\ Writes("fxAlerts", a)
  /\ db' = [db EXCEPT !.alerts[a] = src.alerts[a]]
  /\ UNCHANGED <<pc, Fixed>>

FixtureEnd ==
  /\ todo = {} /\ Goto("fxAlerts", "setAsOf", {})
  /\ UNCHANGED <<db, Fixed>>

SetAsOf ==
  /\ Goto("setAsOf", "done", {})
  /\ db' = [db EXCEPT !.asOf = TRUE]
  /\ UNCHANGED Fixed
-----------------------------------------------------------------------------
(* --replace                                                                *)

Swap ==
  /\ Goto("swap", "clearAsOf", {})
  /\ db' = [services |-> src.services, deps |-> src.deps, alerts |-> src.alerts,
            asOf |-> FALSE]
  /\ UNCHANGED Fixed
-----------------------------------------------------------------------------
(* --merge: store.MergeFrom                                                 *)

\* Mutant: the stored health is kept exactly for rows that are Kubernetes', which
\* a second merge of the same scrape no longer finds.
MergeRowOnce(old, new) ==
  IF old = NoRow THEN new
  ELSE LET leftSnapshot == src.k8sOk /\ old.k8s /\ ~new.k8s
       IN [health |-> IF new.health = "unknown" /\ old.k8s
                      THEN old.health ELSE new.health,
           k8s    |-> new.k8s \/ (old.k8s /\ ~leftSnapshot)]

\* mergeServiceRow: the destination row and the scraped one.
MergeRow(old, new) ==
  IF old = NoRow THEN new
  ELSE LET leftSnapshot == src.k8sOk /\ old.k8s /\ ~new.k8s
       IN [health |-> IF new.health = "unknown" /\ ~leftSnapshot
                      THEN old.health ELSE new.health,
           k8s    |-> new.k8s \/ (old.k8s /\ ~leftSnapshot)]

\* A destination row that cannot be read counts as a missing one.
ReadRow(s) == {db.services[s]} \cup (IF ReadErrors THEN {NoRow} ELSE {})

MergeService(s) ==
  /\ Writes("services", s)
  /\ \E old \in ReadRow(s) :
       db' = [db EXCEPT !.services[s] = MergeRow(old, src.services[s])]
  /\ UNCHANGED <<pc, Fixed>>

\* Mutant: edges are merged while services are still missing.
ServicesMergedEarly ==
  /\ Goto("services", "deps", src.deps)
  /\ UNCHANGED <<db, Fixed>>

ServicesMerged ==
  /\ todo = {} /\ Goto("services", "deps", src.deps)
  /\ UNCHANGED <<db, Fixed>>

MergeDep(e) ==
  /\ Writes("deps", e)
  /\ db' = [db EXCEPT !.deps = @ \cup {e}]
  /\ UNCHANGED <<pc, Fixed>>

\* A live scrape always carries topology:seeded, so edges it lacks are deleted.
DepsMerged ==
  /\ todo = {} /\ Goto("deps", "prune", db.deps \ src.deps)
  /\ UNCHANGED <<db, Fixed>>

PruneDep(e) ==
  /\ Writes("prune", e)
  /\ db' = [db EXCEPT !.deps = @ \ {e}]
  /\ UNCHANGED <<pc, Fixed>>

DepsPruned ==
  /\ todo = {} /\ Goto("prune", "alerts", AlertsIn(src))
  /\ UNCHANGED <<db, Fixed>>

MergeAlert(a) ==
  /\ Writes("alerts", a)
  /\ db' = [db EXCEPT !.alerts[a] = src.alerts[a]]
  /\ UNCHANGED <<pc, Fixed>>

\* Mutant: a quiet answer resolves every alert of the source.
ZombiesQuiet ==
  IF src.promOk THEN (LiveIn(db) \cap PromAlerts) \ AlertsIn(src) ELSE {}

\* ResolveActiveAlertsNotIn, only for a connector that answered with something.
Zombies ==
  IF src.promOk /\ AlertsIn(src) # {}
  THEN (LiveIn(db) \cap PromAlerts) \ AlertsIn(src) ELSE {}

AlertsMerged ==
  /\ todo = {} /\ Goto("alerts", "resolve", Zombies)
  /\ UNCHANGED <<db, Fixed>>

ResolveAlert(a) ==
  /\ Writes("resolve", a)
  /\ db' = [db EXCEPT !.alerts[a] = "resolved"]
  /\ UNCHANGED <<pc, Fixed>>

MergeEnd ==
  /\ todo = {} /\ Goto("resolve", "clearAsOf", {})
  /\ UNCHANGED <<db, Fixed>>

\* After either kind of live ingest the clock is the wall clock again.
ClearAsOf ==
  /\ Goto("clearAsOf", "done", {})
  /\ db' = [db EXCEPT !.asOf = FALSE]
  /\ UNCHANGED Fixed
-----------------------------------------------------------------------------
Fixture ==
  \/ \E pack \in Packs : StartFixture(pack)
  \/ Reset \/ FixtureServicesDone \/ FixtureDepsDone \/ FixtureEnd \/ SetAsOf
  \/ \E s \in Services : FixtureService(s)
  \/ \E e \in Services \X Services : FixtureDep(e) \/ \E s \in Services : FixtureStub(e, s)
  \/ \E a \in Alerts : FixtureAlert(a)

MergeFrom ==
  \/ ServicesMerged \/ DepsMerged \/ DepsPruned \/ AlertsMerged \/ MergeEnd
  \/ \E s \in Services : MergeService(s)
  \/ \E e \in Services \X Services : MergeDep(e) \/ PruneDep(e)
  \/ \E a \in Alerts : MergeAlert(a) \/ ResolveAlert(a)

Next ==
  \/ WorldChanges \/ Stop \/ Finish
  \/ \E m \in {"replace", "merge"} : StartLive(m)
  \/ Fixture \/ Swap \/ MergeFrom \/ ClearAsOf

Spec == Init /\ [][Next]_vars
-----------------------------------------------------------------------------
(* Properties.                                                              *)

TypeOK ==
  /\ world \in TestWorlds
  /\ db \in Stores /\ base \in Stores
  /\ mode \in {"fixture", "replace", "merge"} /\ pc \in Phases
  /\ todo \subseteq Services \cup Alerts \cup (Services \X Services)
  /\ cut \in BOOLEAN /\ stops \in 0..MaxStops

\* What one merge of the scrape x into the store b should leave.
Merged(b, x) ==
  [services |-> [s \in Services |->
                   IF x.services[s] = NoRow THEN b.services[s]
                   ELSE MergeRow(b.services[s], x.services[s])],
   deps     |-> x.deps,
   alerts   |-> [a \in Alerts |->
                   IF x.alerts[a] # NoRow THEN x.alerts[a]
                   ELSE IF /\ b.alerts[a] = "live" /\ a \in PromAlerts
                           /\ x.promOk /\ AlertsIn(x) # {}
                   THEN "resolved" ELSE b.alerts[a]],
   asOf     |-> FALSE]

\* MergeFrom is not a transaction, and still a merge that was cut short anywhere,
\* any number of times, and then run again on the same scrape leaves what one
\* uninterrupted merge into the store from before the first attempt would.
MergeRetrySafe ==
  pc = "done" /\ mode = "merge" => db = Merged(base, src)

\* At every instant, in the middle of an ingest or after one that was cut short,
\* the ends of each edge and the service of each live Prometheus alert have a
\* row: no reader meets an edge or an alert it cannot resolve. (There are no
\* foreign keys; the order of the phases and the stubs are all that keeps this.
\* The alerts of a pack get no stub and are not promised one.)
NoDanglingRows ==
  /\ \A e \in db.deps : {e[1], e[2]} \subseteq ServicesIn(db)
  /\ \A a \in LiveIn(db) \cap PromAlerts : AlertService[a] \in ServicesIn(db)

\* A merge turns an alert into a resolved one only when Prometheus was asked and
\* does not fire it: an unasked or silent connector is no all-clear, and alerts
\* of other sources are left alone.
NoFalseAllClear ==
  [][\A a \in Alerts :
       pc = "resolve" /\ db.alerts[a] = "live" /\ db'.alerts[a] # "live" =>
         /\ a \in PromAlerts /\ world.promOn
         /\ a \notin world.firing /\ world.firing # {}]_vars

\* A pack's rows are all there; but for edges, which a merge may have pruned.
HasRowsOf(pack) ==
  /\ ServicesIn(pack) \subseteq ServicesIn(db) /\ AlertsIn(pack) \subseteq AlertsIn(db)
  /\ \A e \in pack.deps : {e[1], e[2]} \subseteq ServicesIn(db)

\* cmd/opsgraph/ingest.go:79-107, internal/ingest/ingest.go:52. The clock moves
\* last, at every instant and wherever an ingest is cut short: it is pinned only
\* over a store that has all of some pack, so that half a pack, or what Reset left
\* of an earlier one, is never read at a frozen time; and a merge releases a pack's
\* clock only once it is whole, in however many attempts. (A merge that is cut short
\* leaves live rows under the pack's clock until it is run again.)
ClockMovesLast ==
  /\ db.asOf => \E pack \in Packs : HasRowsOf(pack)
  /\ mode = "merge" /\ base.asOf /\ ~db.asOf => db = Merged(base, src)

\* "--merge: upsert; prunes removed config deps + stale k8s health"
\* (docs/USAGE.md): no service is attributed to Kubernetes that the snapshot
\* just read does not have. The code does not keep this for services that are
\* in no config: they are in the scrape only while the snapshot has them.
StaleHealthPruned ==
  pc = "done" /\ mode = "merge" /\ src.k8sOk =>
    \A s \in ServicesIn(db) : db.services[s].k8s => s \in PodServices(world)

=============================================================================
