------------------------- MODULE IngestStoreProofs -------------------------
(***************************************************************************)
(* The properties of IngestStore that hold for any services, alerts,       *)
(* worlds and packs, however often an ingest is cut short.                 *)
(***************************************************************************)
EXTENDS IngestStore, TLAPS

\* What a temporary store can hold.
Scrapings ==
  [services : [Services -> Rows \cup {NoRow}],
   deps     : SUBSET (Services \X Services),
   alerts   : [Alerts -> AlertStates],
   k8sOk    : BOOLEAN,
   promOk   : BOOLEAN]

FixturePhases == {"reset", "fxServices", "fxDeps", "fxAlerts", "setAsOf"}
MergePhases   == {"services", "deps", "prune", "alerts", "resolve"}
LivePhases    == MergePhases \cup {"swap", "clearAsOf"}

TypeInv == TypeOK /\ src \in Scrapings

\* Which ingest a phase belongs to, what it writes and what is left to write.
PhaseInv ==
  /\ pc \in FixturePhases => mode = "fixture"
  /\ pc \in MergePhases => mode = "merge"
  /\ pc = "swap" => mode = "replace"
  /\ pc = "clearAsOf" => mode # "fixture"
  /\ pc \in LivePhases => src = Scrape(world)
  /\ cut => pc = "idle"
  /\ pc \in {"fxServices", "services"} => todo \subseteq ServicesIn(src)
  /\ pc \in {"fxDeps", "deps"} => todo \subseteq src.deps
  /\ pc = "prune" => todo \subseteq db.deps \ src.deps
  /\ pc \in {"fxAlerts", "alerts"} => todo \subseteq AlertsIn(src)
  /\ pc = "resolve" =>
       todo \subseteq {a \in PromAlerts \ AlertsIn(src) : src.promOk /\ AlertsIn(src) # {}}

-----------------------------------------------------------------------------
(* Scrapes.                                                                 *)

LEMMA ScrapeType ==
  ASSUME NEW w \in Worlds
  PROVE  Scrape(w) \in Scrapings
  <1>1. \A s \in Services : ScrapedService(w, s) \in Rows \cup {NoRow}
    BY DEF ScrapedService, Worlds, PodServices, Rows, Healths
  <1>2. SeedEdges(w) \subseteq Services \X Services
    BY DEF SeedEdges, Worlds
  <1>3. w.k8sOn \in BOOLEAN /\ w.promOn \in BOOLEAN
    BY DEF Worlds
  <1>4. QED
    BY <1>1, <1>2, <1>3 DEF Scrape, Scrapings, AlertStates

\* The ends of a configured edge and the service of an active alert have rows.
LEMMA ScrapeClosed ==
  ASSUME NEW w \in Worlds
  PROVE  /\ \A e \in Scrape(w).deps : {e[1], e[2]} \subseteq ServicesIn(Scrape(w))
         /\ \A a \in LiveIn(Scrape(w)) : AlertService[a] \in ServicesIn(Scrape(w))
  <1>1. \A s \in SeedServices(w) \cup {AlertService[a] : a \in Firing(w)} :
          s \in Services => ScrapedService(w, s) # NoRow
    <2>1. \A s \in PodServices(w) : [health |-> w.pods[s], k8s |-> TRUE] \in Rows
      BY DEF PodServices, Worlds, Rows
    <2>2. [health |-> "unknown", k8s |-> FALSE] \in Rows
      BY DEF Rows, Healths
    <2>3. QED
      BY <2>1, <2>2, ScrapeAssumption DEF ScrapedService
  <1>2. \A e \in SeedEdges(w) : {e[1], e[2]} \subseteq SeedServices(w) \cap Services
    BY DEF SeedEdges, SeedServices, Worlds
  <1>3. \A a \in LiveIn(Scrape(w)) : a \in Firing(w) /\ AlertService[a] \in Services
    BY ScrapeAssumption DEF LiveIn, Scrape
  <1>4. \A s \in Services :
          s \in ServicesIn(Scrape(w)) <=> ScrapedService(w, s) # NoRow
    BY DEF Scrape, ServicesIn
  <1>5. Scrape(w).deps = SeedEdges(w)
    BY DEF Scrape
  <1>6. \A e \in SeedEdges(w) : {e[1], e[2]} \subseteq ServicesIn(Scrape(w))
    BY <1>1, <1>2, <1>4
  <1>7. \A a \in LiveIn(Scrape(w)) : AlertService[a] \in ServicesIn(Scrape(w))
    BY <1>1, <1>3, <1>4
  <1>8. QED
    BY <1>5, <1>6, <1>7

\* The alerts of a scrape are those Prometheus was asked for and fires.
LEMMA ScrapeAlerts ==
  ASSUME NEW w \in Worlds
  PROVE  AlertsIn(Scrape(w)) = Firing(w) /\ Scrape(w).promOk = w.promOn
  BY ScrapeAssumption DEF AlertsIn, Scrape, Firing, Worlds

-----------------------------------------------------------------------------
(* Types.                                                                   *)

LEMMA BlankType == BlankStore \in Stores
  BY DEF BlankStore, Stores, AlertStates

LEMMA NoSourceType == NoSource \in Scrapings
  BY DEF NoSource, BlankStore, Scrapings, AlertStates

\* One row of a store is written.
LEMMA WriteType ==
  ASSUME db \in Stores
  PROVE  /\ \A s \in Services : \A r \in Rows \cup {NoRow} :
              [db EXCEPT !.services[s] = r] \in Stores
         /\ \A a \in Alerts : \A r \in AlertStates : [db EXCEPT !.alerts[a] = r] \in Stores
         /\ \A d \in SUBSET (Services \X Services) : [db EXCEPT !.deps = d] \in Stores
         /\ \A b \in BOOLEAN : [db EXCEPT !.asOf = b] \in Stores
  BY DEF Stores

LEMMA MergeRowType ==
  ASSUME NEW old \in Rows \cup {NoRow}, NEW new \in Rows
  PROVE  MergeRow(old, new) \in Rows
  BY DEF MergeRow, Rows, Healths

LEMMA StartType ==
  TypeInv /\ PhaseInv /\ (\E m \in {"replace", "merge"} : StartLive(m)) => TypeInv'
  <1> SUFFICES ASSUME TypeInv, NEW m \in {"replace", "merge"}, StartLive(m)
               PROVE  TypeInv'
    OBVIOUS
  <1>1. src' \in Scrapings
    BY ScrapeType, IngestAssumption DEF StartLive, TypeInv, TypeOK
  <1>2. base' \in Stores /\ db' \in Stores /\ cut' \in BOOLEAN
    BY DEF StartLive, TypeInv, TypeOK
  <1>3. pc' \in Phases /\ mode' \in {"fixture", "replace", "merge"}
    BY DEF StartLive, Phases
  <1>4. todo' \subseteq Services
    BY DEF StartLive, ServicesIn
  <1>5. QED
    BY <1>1, <1>2, <1>3, <1>4 DEF StartLive, TypeInv, TypeOK

LEMMA TypeStep == TypeInv /\ PhaseInv /\ [Next]_vars => TypeInv'
  <1> SUFFICES ASSUME TypeInv, PhaseInv, [Next]_vars PROVE TypeInv'
    OBVIOUS
  <1> USE IngestAssumption DEF TypeInv, TypeOK, Phases, Fixed, Goto, Writes
  <1>1. CASE WorldChanges
    BY <1>1 DEF WorldChanges
  <1>2. ASSUME NEW m \in {"replace", "merge"}, StartLive(m) PROVE TypeInv'
    BY <1>2, StartType
  <1>3. ASSUME NEW pack \in Packs, StartFixture(pack) PROVE TypeInv'
    <2>1. src' \in Scrapings
      BY <1>3 DEF StartFixture, Scrapings, AlertStates
    <2>2. QED
      BY <1>3, <2>1 DEF StartFixture
  <1>4. CASE Stop \/ Finish
    <2>1. src' \in Scrapings /\ base' \in Stores
      BY <1>4, BlankType, NoSourceType DEF Stop, Finish
    <2>2. cut' \in BOOLEAN
      BY <1>4 DEF Stop, Finish
    <2>3. stops' \in 0..MaxStops
      BY <1>4 DEF Stop, Finish
    <2>4. UNCHANGED <<world, db, mode>> /\ pc' = "idle" /\ todo' = {}
      BY <1>4 DEF Stop, Finish
    <2>5. QED
      BY <2>1, <2>2, <2>3, <2>4
  <1>5. CASE Reset
    BY <1>5, BlankType DEF Reset, ServicesIn
  <1>6. ASSUME NEW s \in Services, FixtureService(s) PROVE TypeInv'
    BY <1>6, WriteType DEF FixtureService, Scrapings
  <1>7. CASE FixtureServicesDone
    BY <1>7 DEF FixtureServicesDone, Scrapings
  <1>8. ASSUME NEW e \in Services \X Services, NEW s \in Services, FixtureStub(e, s)
        PROVE  TypeInv'
    <2>1. [health |-> "unknown", k8s |-> FALSE] \in Rows
      BY DEF Rows, Healths
    <2>2. QED
      BY <1>8, <2>1, WriteType DEF FixtureStub
  <1>9. ASSUME NEW e \in Services \X Services, FixtureDep(e) \/ MergeDep(e) \/ PruneDep(e)
        PROVE  TypeInv'
    <2>1. /\ db.deps \cup {e} \subseteq Services \X Services
          /\ db.deps \ {e} \subseteq Services \X Services
      BY DEF Stores
    <2>2. QED
      BY <1>9, <2>1, WriteType DEF FixtureDep, MergeDep, PruneDep
  <1>10. CASE FixtureDepsDone \/ DepsPruned
    BY <1>10 DEF FixtureDepsDone, DepsPruned, AlertsIn
  <1>11. ASSUME NEW a \in Alerts, FixtureAlert(a) \/ MergeAlert(a) \/ ResolveAlert(a)
         PROVE  TypeInv'
    <2>1. src.alerts[a] \in AlertStates /\ "resolved" \in AlertStates
      BY DEF Scrapings, AlertStates
    <2>2. db' \in Stores
      BY <1>11, <2>1, WriteType DEF FixtureAlert, MergeAlert, ResolveAlert
    <2>3. QED
      BY <1>11, <2>2 DEF FixtureAlert, MergeAlert, ResolveAlert
  <1>12. CASE FixtureEnd \/ MergeEnd
    BY <1>12 DEF FixtureEnd, MergeEnd
  <1>13. CASE SetAsOf \/ ClearAsOf
    BY <1>13, WriteType DEF SetAsOf, ClearAsOf
  <1>14. CASE Swap
    <2>1. db' \in Stores
      BY <1>14 DEF Swap, Stores, Scrapings
    <2>2. QED
      BY <1>14, <2>1 DEF Swap
  <1>15. ASSUME NEW s \in Services, MergeService(s) PROVE TypeInv'
    <2>1. src.services[s] \in Rows
      BY <1>15 DEF MergeService, PhaseInv, ServicesIn, Scrapings
    <2>2. \A old \in ReadRow(s) : MergeRow(old, src.services[s]) \in Rows
      BY <2>1, MergeRowType DEF ReadRow, Stores
    <2>3. db' \in Stores
      BY <1>15, <2>2, WriteType DEF MergeService
    <2>4. QED
      BY <1>15, <2>3 DEF MergeService
  <1>16. CASE ServicesMerged \/ DepsMerged
    BY <1>16 DEF ServicesMerged, DepsMerged, Scrapings, Stores
  <1>17. CASE AlertsMerged
    BY <1>17, ScrapeAssumption DEF AlertsMerged, Zombies, LiveIn
  <1>18. CASE UNCHANGED vars
    BY <1>18 DEF vars
  <1>19. QED
    BY <1>1, <1>2, <1>3, <1>4, <1>5, <1>6, <1>7, <1>8, <1>9, <1>10, <1>11, <1>12,
       <1>13, <1>14, <1>15, <1>16, <1>17, <1>18 DEF Next, Fixture, MergeFrom

-----------------------------------------------------------------------------
(* Phases.                                                                  *)

LEMMA PhaseStep == TypeInv /\ PhaseInv /\ [Next]_vars => PhaseInv'
  <1> SUFFICES ASSUME TypeInv, PhaseInv, [Next]_vars PROVE PhaseInv'
    OBVIOUS
  <1> USE DEF PhaseInv, FixturePhases, MergePhases, LivePhases, Fixed, Goto, Writes
  <1>1. CASE WorldChanges \/ Stop \/ Finish
    BY <1>1 DEF WorldChanges, Stop, Finish
  <1>2. ASSUME NEW m \in {"replace", "merge"}, StartLive(m) PROVE PhaseInv'
    BY <1>2 DEF StartLive
  <1>3. ASSUME NEW pack \in Packs, StartFixture(pack) PROVE PhaseInv'
    BY <1>3 DEF StartFixture
  <1>4. CASE Reset \/ FixtureEnd \/ SetAsOf \/ Swap \/ MergeEnd \/ ClearAsOf
    BY <1>4 DEF Reset, FixtureEnd, SetAsOf, Swap, MergeEnd, ClearAsOf
  <1>5. CASE FixtureServicesDone \/ FixtureDepsDone \/ ServicesMerged \/ DepsPruned
    BY <1>5 DEF FixtureServicesDone, FixtureDepsDone, ServicesMerged, DepsPruned
  <1>6. ASSUME NEW s \in Services, FixtureService(s) \/ MergeService(s) PROVE PhaseInv'
    BY <1>6 DEF FixtureService, MergeService
  <1>7. ASSUME NEW e \in Services \X Services, NEW s \in Services, FixtureStub(e, s)
        PROVE  PhaseInv'
    BY <1>7 DEF FixtureStub
  <1>8. ASSUME NEW e \in Services \X Services, FixtureDep(e) \/ MergeDep(e) PROVE PhaseInv'
    BY <1>8 DEF FixtureDep, MergeDep
  <1>9. ASSUME NEW e \in Services \X Services, PruneDep(e) PROVE PhaseInv'
    <2>1. db'.deps = db.deps \ {e}
      BY <1>9 DEF PruneDep, TypeInv, TypeOK, Stores
    <2>2. QED
      BY <1>9, <2>1 DEF PruneDep
  <1>10. ASSUME NEW a \in Alerts, FixtureAlert(a) \/ MergeAlert(a) \/ ResolveAlert(a)
         PROVE  PhaseInv'
    BY <1>10 DEF FixtureAlert, MergeAlert, ResolveAlert
  <1>11. CASE DepsMerged
    BY <1>11 DEF DepsMerged
  <1>12. CASE AlertsMerged
    BY <1>12 DEF AlertsMerged, Zombies, LiveIn
  <1>13. CASE UNCHANGED vars
    BY <1>13 DEF vars
  <1>14. QED
    BY <1>1, <1>2, <1>3, <1>4, <1>5, <1>6, <1>7, <1>8, <1>9, <1>10, <1>11, <1>12,
       <1>13 DEF Next, Fixture, MergeFrom

-----------------------------------------------------------------------------
(* References between rows.                                                 *)

\* The Prometheus alerts a pack lists as live belong to services it lists.
PacksNameServices ==
  \A pack \in Packs : \A a \in PromAlerts :
    pack.alerts[a] = "live" => pack.services[AlertService[a]] # NoRow

\* The services of the source are in the store before anything refers to them.
WrittenInv ==
  /\ pc \in FixturePhases =>
       \A a \in LiveIn(src) \cap PromAlerts : AlertService[a] \in ServicesIn(src)
  /\ pc \in {"fxServices", "services"} => ServicesIn(src) \ todo \subseteq ServicesIn(db)
  /\ pc \in {"fxDeps", "fxAlerts", "setAsOf", "deps", "prune", "alerts", "resolve",
             "clearAsOf"} => ServicesIn(src) \subseteq ServicesIn(db)

DanglingInv == NoDanglingRows /\ WrittenInv

\* What writing one row does to the sets of rows.
LEMMA WriteRows ==
  ASSUME NEW d \in Stores
  PROVE  /\ \A s \in Services : \A r \in Rows :
              LET n == [d EXCEPT !.services[s] = r]
              IN  /\ ServicesIn(n) = ServicesIn(d) \cup {s}
                  /\ n.deps = d.deps /\ LiveIn(n) = LiveIn(d)
         /\ \A a \in Alerts : \A r \in AlertStates :
              LET n == [d EXCEPT !.alerts[a] = r]
              IN  /\ ServicesIn(n) = ServicesIn(d) /\ n.deps = d.deps
                  /\ LiveIn(n) \subseteq LiveIn(d) \cup {a}
                  /\ r # "live" => LiveIn(n) \subseteq LiveIn(d)
         /\ \A x \in SUBSET (Services \X Services) :
              LET n == [d EXCEPT !.deps = x]
              IN  ServicesIn(n) = ServicesIn(d) /\ n.deps = x /\ LiveIn(n) = LiveIn(d)
         /\ \A b \in BOOLEAN :
              LET n == [d EXCEPT !.asOf = b]
              IN  ServicesIn(n) = ServicesIn(d) /\ n.deps = d.deps /\ LiveIn(n) = LiveIn(d)
  <1> DEFINE Row(s, r) == [d EXCEPT !.services[s] = r]
             Alert(a, r) == [d EXCEPT !.alerts[a] = r]
  <1>1. ASSUME NEW s \in Services, NEW r \in Rows
        PROVE  /\ ServicesIn(Row(s, r)) = ServicesIn(d) \cup {s}
               /\ Row(s, r).deps = d.deps /\ LiveIn(Row(s, r)) = LiveIn(d)
    <2>1. /\ Row(s, r).services = [d.services EXCEPT ![s] = r]
          /\ Row(s, r).deps = d.deps /\ Row(s, r).alerts = d.alerts
      BY DEF Stores
    <2>2. \A t \in Services : Row(s, r).services[t] = IF t = s THEN r ELSE d.services[t]
      BY <2>1 DEF Stores
    <2>3. r # NoRow
      BY ScrapeAssumption
    <2>4. QED
      BY <2>1, <2>2, <2>3 DEF ServicesIn, LiveIn
  <1>2. ASSUME NEW a \in Alerts, NEW r \in AlertStates
        PROVE  /\ ServicesIn(Alert(a, r)) = ServicesIn(d) /\ Alert(a, r).deps = d.deps
               /\ LiveIn(Alert(a, r)) \subseteq LiveIn(d) \cup {a}
               /\ r # "live" => LiveIn(Alert(a, r)) \subseteq LiveIn(d)
    <2>1. /\ Alert(a, r).alerts = [d.alerts EXCEPT ![a] = r]
          /\ Alert(a, r).deps = d.deps /\ Alert(a, r).services = d.services
      BY DEF Stores
    <2>2. \A b \in Alerts : Alert(a, r).alerts[b] = IF b = a THEN r ELSE d.alerts[b]
      BY <2>1 DEF Stores
    <2>3. QED
      BY <2>1, <2>2 DEF ServicesIn, LiveIn
  <1>3. ASSUME NEW x
        PROVE  LET n == [d EXCEPT !.deps = x]
               IN  ServicesIn(n) = ServicesIn(d) /\ n.deps = x /\ LiveIn(n) = LiveIn(d)
    BY DEF Stores, ServicesIn, LiveIn
  <1>4. ASSUME NEW b
        PROVE  LET n == [d EXCEPT !.asOf = b]
               IN  ServicesIn(n) = ServicesIn(d) /\ n.deps = d.deps /\ LiveIn(n) = LiveIn(d)
    BY DEF Stores, ServicesIn, LiveIn
  <1>5. QED
    BY <1>1, <1>2, <1>3, <1>4

\* The phases only a live ingest goes through write what a scrape closed.
LEMMA SourceClosed ==
  ASSUME TypeInv, PhaseInv, pc \in LivePhases
  PROVE  /\ \A e \in src.deps : {e[1], e[2]} \subseteq ServicesIn(src)
         /\ \A a \in LiveIn(src) : AlertService[a] \in ServicesIn(src)
  <1>1. world \in Worlds /\ src = Scrape(world)
    BY IngestAssumption DEF TypeInv, TypeOK, PhaseInv
  <1>2. QED
    BY <1>1, ScrapeClosed

LEMMA StubRow == [health |-> "unknown", k8s |-> FALSE] \in Rows
  BY DEF Rows, Healths

LEMMA DanglingStep ==
  ASSUME PacksNameServices
  PROVE  TypeInv /\ PhaseInv /\ DanglingInv /\ [Next]_vars => DanglingInv'
  <1> SUFFICES ASSUME TypeInv, PhaseInv, DanglingInv, [Next]_vars PROVE DanglingInv'
    OBVIOUS
  <1> USE DEF DanglingInv, NoDanglingRows, WrittenInv, FixturePhases, Fixed, Goto, Writes
  <1>0. db \in Stores /\ src \in Scrapings
    BY DEF TypeInv, TypeOK
  <1>1. CASE WorldChanges \/ Stop \/ Finish
    BY <1>1 DEF WorldChanges, Stop, Finish
  <1>2. ASSUME NEW m \in {"replace", "merge"}, StartLive(m) PROVE DanglingInv'
    BY <1>2 DEF StartLive
  <1>3. ASSUME NEW pack \in Packs, StartFixture(pack) PROVE DanglingInv'
    <2>1. \A a \in LiveIn(src') \cap PromAlerts : AlertService[a] \in ServicesIn(src')
      BY <1>3, PacksNameServices, ScrapeAssumption
      DEF PacksNameServices, StartFixture, LiveIn, ServicesIn
    <2>2. pc' = "reset" /\ db' = db
      BY <1>3 DEF StartFixture
    <2>3. QED
      BY <2>1, <2>2
  <1>4. CASE Reset
    <2>1. db'.deps = {} /\ LiveIn(db') = {}
      BY <1>4, ScrapeAssumption DEF Reset, BlankStore, LiveIn
    <2>2. pc' = "fxServices" /\ todo' = ServicesIn(src) /\ src' = src
      BY <1>4 DEF Reset
    <2>3. QED
      BY <1>4, <2>1, <2>2 DEF Reset
  <1>5. CASE \/ FixtureServicesDone \/ FixtureDepsDone \/ FixtureEnd \/ ServicesMerged
             \/ DepsMerged \/ DepsPruned \/ AlertsMerged \/ MergeEnd
    BY <1>5 DEF FixtureServicesDone, FixtureDepsDone, FixtureEnd, ServicesMerged,
       DepsMerged, DepsPruned, AlertsMerged, MergeEnd
  <1>6. ASSUME NEW s \in Services, FixtureService(s) \/ MergeService(s) PROVE DanglingInv'
    <2>1. src.services[s] \in Rows
      BY <1>6 DEF FixtureService, MergeService, PhaseInv, ServicesIn, TypeInv, Scrapings
    <2>2. \A old \in ReadRow(s) : MergeRow(old, src.services[s]) \in Rows
      BY <1>0, <2>1, MergeRowType DEF ReadRow, Stores
    <2>3. PICK r \in Rows : db' = [db EXCEPT !.services[s] = r]
      BY <1>6, <2>1, <2>2 DEF FixtureService, MergeService
    <2>4. /\ ServicesIn(db') = ServicesIn(db) \cup {s}
          /\ db'.deps = db.deps /\ LiveIn(db') = LiveIn(db)
      BY <1>0, <2>3, WriteRows
    <2>5. pc' = pc /\ pc \in {"fxServices", "services"} /\ src' = src /\ todo' = todo \ {s}
      BY <1>6 DEF FixtureService, MergeService
    <2>6. QED
      BY <2>4, <2>5
  <1>7. ASSUME NEW e \in Services \X Services, NEW s \in Services, FixtureStub(e, s)
        PROVE  DanglingInv'
    <2>1. /\ ServicesIn(db') = ServicesIn(db) \cup {s}
          /\ db'.deps = db.deps /\ LiveIn(db') = LiveIn(db)
      <3>1. PICK r \in Rows : db' = [db EXCEPT !.services[s] = r]
        BY <1>7, StubRow DEF FixtureStub
      <3>2. QED
        BY <1>0, <3>1, WriteRows
    <2>2. pc = "fxDeps" /\ pc' = pc /\ src' = src
      BY <1>7 DEF FixtureStub
    <2>3. QED
      BY <2>1, <2>2
  <1>8. ASSUME NEW e \in Services \X Services, FixtureDep(e) \/ MergeDep(e)
        PROVE  DanglingInv'
    <2>1. db.deps \cup {e} \in SUBSET (Services \X Services)
      BY <1>0 DEF Stores
    <2>2. db' = [db EXCEPT !.deps = db.deps \cup {e}]
      BY <1>8 DEF FixtureDep, MergeDep
    <2>3. /\ ServicesIn(db') = ServicesIn(db) /\ db'.deps = db.deps \cup {e}
          /\ LiveIn(db') = LiveIn(db)
      BY <1>0, <2>1, <2>2, WriteRows
    <2>4. pc \in {"fxDeps", "deps"} /\ pc' = pc /\ src' = src
      BY <1>8 DEF FixtureDep, MergeDep
    <2>5. {e[1], e[2]} \subseteq ServicesIn(db)
      <3>1. CASE FixtureDep(e)
        BY <3>1 DEF FixtureDep
      <3>2. CASE MergeDep(e)
        BY <3>2, SourceClosed DEF MergeDep, PhaseInv, LivePhases, MergePhases
      <3>3. QED
        BY <1>8, <3>1, <3>2
    <2>6. QED
      BY <2>3, <2>4, <2>5
  <1>9. ASSUME NEW e \in Services \X Services, PruneDep(e) PROVE DanglingInv'
    <2>1. db.deps \ {e} \in SUBSET (Services \X Services)
      BY <1>0 DEF Stores
    <2>2. /\ ServicesIn(db') = ServicesIn(db) /\ db'.deps = db.deps \ {e}
          /\ LiveIn(db') = LiveIn(db)
      BY SMTT(30), <1>0, <1>9, <2>1, WriteRows DEF PruneDep
    <2>3. pc = "prune" /\ pc' = pc /\ src' = src
      BY <1>9 DEF PruneDep
    <2>4. QED
      BY <2>2, <2>3
  <1>10. ASSUME NEW a \in Alerts, FixtureAlert(a) \/ MergeAlert(a) PROVE DanglingInv'
    <2>1. src.alerts[a] \in AlertStates /\ db' = [db EXCEPT !.alerts[a] = src.alerts[a]]
      BY <1>0, <1>10 DEF FixtureAlert, MergeAlert, Scrapings
    <2>2. /\ ServicesIn(db') = ServicesIn(db) /\ db'.deps = db.deps
          /\ LiveIn(db') \subseteq LiveIn(db) \cup {a}
          /\ src.alerts[a] # "live" => LiveIn(db') \subseteq LiveIn(db)
      BY <1>0, <2>1, WriteRows
    <2>3. pc \in {"fxAlerts", "alerts"} /\ pc' = pc /\ src' = src
      BY <1>10 DEF FixtureAlert, MergeAlert
    <2>4. a \in LiveIn(src) \cap PromAlerts => AlertService[a] \in ServicesIn(db)
      BY <2>3, SourceClosed DEF LivePhases, MergePhases
    <2>5. QED
      BY <2>2, <2>3, <2>4 DEF LiveIn
  <1>11. ASSUME NEW a \in Alerts, ResolveAlert(a) PROVE DanglingInv'
    <2>1. /\ ServicesIn(db') = ServicesIn(db) /\ db'.deps = db.deps
          /\ LiveIn(db') \subseteq LiveIn(db)
      BY <1>0, <1>11, WriteRows DEF ResolveAlert, AlertStates
    <2>2. pc = "resolve" /\ pc' = pc /\ src' = src
      BY <1>11 DEF ResolveAlert
    <2>3. QED
      BY <2>1, <2>2
  <1>12. CASE SetAsOf \/ ClearAsOf
    <2>1. ServicesIn(db') = ServicesIn(db) /\ db'.deps = db.deps /\ LiveIn(db') = LiveIn(db)
      BY <1>0, <1>12, WriteRows DEF SetAsOf, ClearAsOf
    <2>2. pc' = "done"
      BY <1>12 DEF SetAsOf, ClearAsOf
    <2>3. QED
      BY <2>1, <2>2
  <1>13. CASE Swap
    <2>1. ServicesIn(db') = ServicesIn(src) /\ db'.deps = src.deps /\ LiveIn(db') = LiveIn(src)
      BY <1>13 DEF Swap, ServicesIn, LiveIn
    <2>2. pc = "swap" /\ pc' = "clearAsOf" /\ src' = src
      BY <1>13 DEF Swap
    <2>3. QED
      BY <2>1, <2>2, SourceClosed DEF LivePhases
  <1>14. CASE UNCHANGED vars
    BY <1>14 DEF vars
  <1>15. QED
    BY <1>1, <1>2, <1>3, <1>4, <1>5, <1>6, <1>7, <1>8, <1>9, <1>10, <1>11, <1>12,
       <1>13, <1>14 DEF Next, Fixture, MergeFrom
-----------------------------------------------------------------------------
(* Theorems.                                                                *)

LEMMA InitInv == Init => TypeInv /\ PhaseInv /\ DanglingInv
  <1> SUFFICES ASSUME Init PROVE TypeInv /\ PhaseInv /\ DanglingInv
    OBVIOUS
  <1>1. TypeInv
    <2>1. 0 \in 0..MaxStops
      BY IngestAssumption
    <2>2. pc \in Phases /\ mode \in {"fixture", "replace", "merge"}
      BY DEF Init, Phases
    <2>3. QED
      BY <2>1, <2>2, BlankType, NoSourceType DEF Init, TypeInv, TypeOK
  <1>2. PhaseInv
    BY DEF Init, PhaseInv, FixturePhases, MergePhases, LivePhases
  <1>4. db.deps = {} /\ LiveIn(db) = {}
    BY ScrapeAssumption DEF Init, BlankStore, LiveIn
  <1>5. DanglingInv
    BY <1>4 DEF Init, DanglingInv, NoDanglingRows, WrittenInv, FixturePhases
  <1>6. QED
    BY <1>1, <1>2, <1>5

\* Types and phases hold together: neither is inductive without the other.
THEOREM Phased == Spec => [](TypeInv /\ PhaseInv)
  <1>1. TypeInv /\ PhaseInv /\ [Next]_vars => (TypeInv /\ PhaseInv)'
    BY TypeStep, PhaseStep
  <1>2. QED
    BY <1>1, InitInv, PTL DEF Spec

\* Every variable keeps its type, through every ingest and every interruption.
THEOREM TypeCorrect == Spec => []TypeOK
  <1>1. TypeInv => TypeOK
    BY DEF TypeInv
  <1>2. QED
    BY <1>1, Phased, PTL

\* No reader ever meets an edge or a live Prometheus alert without its service,
\* for packs that list the services of the Prometheus alerts they list as live.
THEOREM RowsResolve ==
  ASSUME PacksNameServices
  PROVE  Spec => []NoDanglingRows
  <1>1. TypeInv /\ PhaseInv /\ DanglingInv /\ [Next]_vars => DanglingInv'
    BY PacksNameServices, DanglingStep
  <1>2. DanglingInv => NoDanglingRows
    BY DEF DanglingInv
  <1>3. QED
    BY <1>1, <1>2, InitInv, Phased, PTL DEF Spec

\* A merge resolves an alert only when Prometheus was asked and does not fire it.
LEMMA ResolveStep ==
  ASSUME TypeInv, PhaseInv, [Next]_vars, NEW a \in Alerts,
         pc = "resolve", db.alerts[a] = "live", db'.alerts[a] # "live"
  PROVE  a \in PromAlerts /\ world.promOn /\ a \notin world.firing /\ world.firing # {}
  <1>1. a \in todo
    <2>1. \/ \E b \in Alerts : ResolveAlert(b)
          \/ db' = db
      BY DEF Next, WorldChanges, Stop, Finish, StartLive, Fixture, StartFixture, Reset,
         FixtureService, FixtureServicesDone, FixtureStub, FixtureDep, FixtureDepsDone,
         FixtureAlert, FixtureEnd, SetAsOf, Swap, MergeFrom, MergeService, ServicesMerged,
         MergeDep, DepsMerged, PruneDep, DepsPruned, MergeAlert, AlertsMerged, MergeEnd,
         ClearAsOf, Goto, Writes, Fixed, vars
    <2>2. PICK b \in Alerts : ResolveAlert(b)
      BY <2>1
    <2>3. b = a
      BY <2>2 DEF ResolveAlert, TypeInv, TypeOK, Stores
    <2>4. QED
      BY <2>2, <2>3 DEF ResolveAlert, Writes
  <1>2. a \in PromAlerts \ AlertsIn(src) /\ src.promOk /\ AlertsIn(src) # {}
    BY <1>1 DEF PhaseInv
  <1>3. world \in Worlds /\ src = Scrape(world)
    BY IngestAssumption DEF TypeInv, TypeOK, PhaseInv, LivePhases, MergePhases
  <1>4. AlertsIn(src) = Firing(world) /\ src.promOk = world.promOn
    BY <1>3, ScrapeAlerts
  <1>5. QED
    BY <1>2, <1>4 DEF Firing

\* A connector that was not asked, or that answered with nothing, is no all-clear.
THEOREM NoAllClear == Spec => NoFalseAllClear
  <1>1. TypeInv /\ PhaseInv /\ [Next]_vars
          => [\A a \in Alerts :
                pc = "resolve" /\ db.alerts[a] = "live" /\ db'.alerts[a] # "live" =>
                  /\ a \in PromAlerts /\ world.promOn
                  /\ a \notin world.firing /\ world.firing # {}]_vars
    BY ResolveStep
  <1>2. QED
    BY <1>1, Phased, PTL DEF Spec, NoFalseAllClear
-----------------------------------------------------------------------------
(* Merging again after an interruption.                                     *)

Target  == Merged(base, src)
Merging == mode = "merge" /\ (pc \in MergePhases \cup {"clearAsOf", "done"} \/ cut)

\* Every row is the old one or the merged one, and it is the merged one as soon
\* as the present attempt is past it.
RetryInv ==
  /\ cut => mode = "merge"
  /\ Merging =>
       /\ \A s \in Services : db.services[s] \in {base.services[s], Target.services[s]}
       /\ \A a \in Alerts : db.alerts[a] \in {base.alerts[a], Target.alerts[a]}
       /\ pc = "services" =>
            \A s \in Services \ todo : db.services[s] = Target.services[s]
       /\ pc \in {"deps", "prune", "alerts", "resolve", "clearAsOf", "done"} =>
            \A s \in Services : db.services[s] = Target.services[s]
       /\ pc = "deps" => src.deps \ todo \subseteq db.deps
       /\ pc = "prune" => src.deps \subseteq db.deps /\ db.deps \ src.deps \subseteq todo
       /\ pc \in {"alerts", "resolve", "clearAsOf", "done"} => db.deps = src.deps
       /\ pc = "alerts" => \A a \in AlertsIn(src) \ todo : db.alerts[a] = src.alerts[a]
       /\ pc = "resolve" =>
            /\ \A a \in Alerts \ todo : db.alerts[a] = Target.alerts[a]
            /\ \A a \in todo : Target.alerts[a] = "resolved"
       /\ pc \in {"clearAsOf", "done"} => \A a \in Alerts : db.alerts[a] = Target.alerts[a]
       /\ pc = "done" => db.asOf = FALSE

\* Merging a row into what the same row was merged into changes nothing.
LEMMA MergeAgain ==
  ASSUME src \in Scrapings, NEW old \in Rows \cup {NoRow}, NEW new \in Rows
  PROVE  MergeRow(MergeRow(old, new), new) = MergeRow(old, new)
  <1>0. NoRow \notin Rows /\ src.k8sOk \in BOOLEAN /\ new.k8s \in BOOLEAN
    BY ScrapeAssumption DEF Scrapings, Rows
  <1>1. CASE old = NoRow
    <2>1. MergeRow(old, new) = new
      BY <1>1 DEF MergeRow
    <2>2. new = [health |-> new.health, k8s |-> new.k8s]
      BY DEF Rows
    <2>3. MergeRow(new, new) = new
      BY <1>0, <2>2 DEF MergeRow
    <2>4. QED
      BY <2>1, <2>3
  <1>2. CASE old # NoRow
    <2> DEFINE r == MergeRow(old, new)
    <2>0. r # NoRow /\ r \in Rows /\ old.k8s \in BOOLEAN
      BY <1>0, <1>2, MergeRowType DEF Rows
    <2>1. r.k8s /\ ~new.k8s => ~src.k8sOk /\ old.k8s
      BY <1>0, <1>2, <2>0 DEF MergeRow
    <2>2. MergeRow(r, new) =
            [health |-> IF new.health = "unknown" THEN r.health ELSE new.health,
             k8s |-> new.k8s \/ r.k8s]
      BY <1>0, <2>0, <2>1 DEF MergeRow
    <2>3. new.health # "unknown" => r.health = new.health
      BY <1>2 DEF MergeRow
    <2>4. new.k8s => r.k8s
      BY <1>2 DEF MergeRow
    <2>5. r = [health |-> r.health, k8s |-> r.k8s] /\ r.k8s \in BOOLEAN
      BY <2>0 DEF Rows
    <2>6. (new.k8s \/ r.k8s) = r.k8s
      BY <1>0, <2>4, <2>5
    <2> HIDE DEF r
    <2>7. MergeRow(r, new) = r
      BY <2>2, <2>3, <2>5, <2>6
    <2>8. QED
      BY <2>7 DEF r
  <1>3. QED
    BY <1>1, <1>2

LEMMA TargetIs ==
  ASSUME TypeInv
  PROVE  /\ Target \in Stores
         /\ \A s \in Services :
              Target.services[s] = IF src.services[s] = NoRow THEN base.services[s]
                                   ELSE MergeRow(base.services[s], src.services[s])
         /\ Target.deps = src.deps /\ Target.asOf = FALSE
         /\ \A a \in Alerts :
              Target.alerts[a] =
                IF src.alerts[a] # NoRow THEN src.alerts[a]
                ELSE IF /\ base.alerts[a] = "live" /\ a \in PromAlerts
                        /\ src.promOk /\ AlertsIn(src) # {}
                THEN "resolved" ELSE base.alerts[a]
  <1>1. base \in Stores /\ src \in Scrapings
    BY DEF TypeInv, TypeOK
  <1>2. \A s \in Services : src.services[s] # NoRow =>
          MergeRow(base.services[s], src.services[s]) \in Rows
    BY <1>1, MergeRowType DEF Stores, Scrapings
  <1>3. Target.services \in [Services -> Rows \cup {NoRow}]
    BY <1>1, <1>2 DEF Target, Merged, Stores
  <1>4. Target.alerts \in [Alerts -> AlertStates]
    BY <1>1 DEF Target, Merged, Stores, Scrapings, AlertStates
  <1>5. Target.deps \in SUBSET (Services \X Services) /\ Target.asOf \in BOOLEAN
    BY <1>1 DEF Target, Merged, Scrapings
  <1>6. Target \in Stores
    BY <1>3, <1>4, <1>5 DEF Target, Merged, Stores
  <1>7. QED
    BY <1>6 DEF Target, Merged

LEMMA TargetKept ==
  ASSUME UNCHANGED <<base, src>>
  PROVE  Target' = Target
  BY DEF Target, Merged, MergeRow, AlertsIn

\* A merge that starts over keeps the target, any other one has a new target.
LEMMA StartRetry ==
  ASSUME TypeInv, PhaseInv, RetryInv, TypeInv', NEW m \in {"replace", "merge"}, StartLive(m)
  PROVE  RetryInv'
  <1>1. ~cut' /\ mode' = m /\ db' = db
    BY DEF StartLive
  <1>2. CASE m = "replace"
    BY <1>1, <1>2 DEF RetryInv, Merging
  <1>3. CASE m = "merge"
    <2>1. pc' = "services" /\ todo' = ServicesIn(src')
      BY <1>3 DEF StartLive
    <2>2. /\ \A s \in Services : db'.services[s] \in {base'.services[s], Target'.services[s]}
          /\ \A a \in Alerts : db'.alerts[a] \in {base'.alerts[a], Target'.alerts[a]}
      <3>1. CASE cut /\ src = src'
        <4>1. base' = base
          BY <1>3, <3>1 DEF StartLive
        <4>2. Target' = Target
          BY <3>1, <4>1, TargetKept
        <4>3. QED
          BY <1>1, <3>1, <4>1, <4>2 DEF RetryInv, Merging
      <3>2. CASE ~(cut /\ src = src')
        BY <1>1, <3>2 DEF StartLive
      <3>3. QED
        BY <3>1, <3>2
    <2>3. \A s \in Services \ todo' : Target'.services[s] = base'.services[s]
      BY <2>1 DEF Target, Merged, ServicesIn
    <2>4. \A s \in Services \ todo' : db'.services[s] = Target'.services[s]
      BY <2>2, <2>3
    <2>5. QED
      BY <1>1, <2>1, <2>2, <2>4 DEF RetryInv, Merging
  <1>4. QED
    BY <1>2, <1>3

LEMMA RetryStep ==
  ASSUME ~ReadErrors
  PROVE  TypeInv /\ PhaseInv /\ RetryInv /\ [Next]_vars => RetryInv'
  <1> SUFFICES ASSUME TypeInv, PhaseInv, RetryInv, [Next]_vars PROVE RetryInv'
    OBVIOUS
  <1>0. db \in Stores /\ src \in Scrapings /\ base \in Stores /\ TypeInv'
    BY TypeStep DEF TypeInv, TypeOK
  <1> USE DEF RetryInv, Merging, MergePhases, Fixed, Goto, Writes
  <1>1. CASE WorldChanges \/ Stop
    <2>1. UNCHANGED <<db, mode>> /\ pc' = "idle"
      BY <1>1 DEF WorldChanges, Stop
    <2>2. cut' => Merging /\ UNCHANGED <<base, src>>
      BY <1>1 DEF WorldChanges, Stop, PhaseInv, FixturePhases, LivePhases, TypeInv, TypeOK,
         Phases
    <2>3. QED
      BY <2>1, <2>2, TargetKept
  <1>2. ASSUME NEW m \in {"replace", "merge"}, StartLive(m) PROVE RetryInv'
    BY <1>0, <1>2, StartRetry
  <1>3. CASE Finish \/ Fixture \/ Swap
    <2>1. ~cut'
      BY <1>3 DEF Finish, Fixture, Swap, StartFixture, Reset, FixtureService,
         FixtureServicesDone, FixtureStub, FixtureDep, FixtureDepsDone, FixtureAlert,
         FixtureEnd, SetAsOf, PhaseInv
    <2>2. mode' # "merge" \/ pc' = "idle"
      BY <1>3 DEF Finish, Fixture, Swap, StartFixture, Reset, FixtureService,
         FixtureServicesDone, FixtureStub, FixtureDep, FixtureDepsDone, FixtureAlert,
         FixtureEnd, SetAsOf, PhaseInv, FixturePhases
    <2>3. QED
      BY <2>1, <2>2
  <1>4. ASSUME NEW s \in Services, MergeService(s) PROVE RetryInv'
    <2>1. pc = "services" /\ pc' = pc /\ UNCHANGED <<mode, src, base, cut>> /\ ~cut
      BY <1>4 DEF MergeService, PhaseInv
    <2>2. Merging /\ Target' = Target
      BY <2>1, TargetKept DEF PhaseInv
    <2>3. src.services[s] \in Rows /\ db.services[s] \in {base.services[s], Target.services[s]}
      BY <1>0, <1>4, <2>1, <2>2 DEF MergeService, PhaseInv, ServicesIn, Scrapings
    <2>4. Target.services[s] = MergeRow(base.services[s], src.services[s])
      BY <2>3, TargetIs, ScrapeAssumption
    <2>5. MergeRow(db.services[s], src.services[s]) = Target.services[s]
      <3>1. base.services[s] \in Rows \cup {NoRow}
        BY <1>0 DEF Stores
      <3>2. QED
        BY <1>0, <2>3, <2>4, <3>1, MergeAgain
    <2>6. db' = [db EXCEPT !.services[s] = Target.services[s]] /\ todo' = todo \ {s}
      BY <1>4, <2>5 DEF MergeService, ReadRow
    <2>7. /\ \A t \in Services :
               db'.services[t] = IF t = s THEN Target.services[s] ELSE db.services[t]
          /\ db'.alerts = db.alerts
      BY <1>0, <2>6 DEF Stores
    <2>8. QED
      BY <2>1, <2>2, <2>6, <2>7
  <1>5. CASE ServicesMerged
    BY <1>5, TargetKept DEF ServicesMerged, PhaseInv
  <1>6. ASSUME NEW e \in Services \X Services, MergeDep(e) \/ PruneDep(e) PROVE RetryInv'
    <2>1. pc \in {"deps", "prune"} /\ pc' = pc /\ UNCHANGED <<mode, src, base, cut>>
      BY <1>6 DEF MergeDep, PruneDep
    <2>2. Merging /\ Target' = Target
      BY <2>1, TargetKept DEF PhaseInv
    <2>3. /\ db'.services = db.services /\ db'.alerts = db.alerts /\ todo' = todo \ {e}
          /\ db'.deps = IF pc = "deps" THEN db.deps \cup {e} ELSE db.deps \ {e}
      BY <1>0, <1>6 DEF MergeDep, PruneDep, Stores
    <2>4. e \in todo /\ (pc = "prune" => e \notin src.deps)
      BY <1>6 DEF MergeDep, PruneDep, PhaseInv
    <2>5. QED
      BY <2>1, <2>2, <2>3, <2>4
  <1>7. CASE DepsMerged \/ DepsPruned
    <2>1. Merging /\ UNCHANGED <<db, mode, src, base, cut>> /\ todo = {}
      BY <1>7 DEF DepsMerged, DepsPruned, PhaseInv
    <2>2. Target' = Target
      BY <2>1, TargetKept
    <2>3. \/ pc = "deps" /\ pc' = "prune" /\ todo' = db.deps \ src.deps
          \/ pc = "prune" /\ pc' = "alerts" /\ todo' = AlertsIn(src)
      BY <1>7 DEF DepsMerged, DepsPruned
    <2>4. AlertsIn(src') = AlertsIn(src)
      BY <2>1
    <2>5. ~cut'
      BY <1>7, <2>1, <2>3 DEF PhaseInv
    <2>6. CASE pc = "deps"
      BY <2>1, <2>2, <2>3, <2>6
    <2>7. CASE pc = "prune"
      BY <2>1, <2>2, <2>3, <2>4, <2>7
    <2>8. QED
      BY <2>3, <2>6, <2>7
  <1>8. ASSUME NEW a \in Alerts, MergeAlert(a) \/ ResolveAlert(a) PROVE RetryInv'
    <2>1. pc \in {"alerts", "resolve"} /\ pc' = pc /\ UNCHANGED <<mode, src, base, cut>>
      BY <1>8 DEF MergeAlert, ResolveAlert
    <2>2. Merging /\ Target' = Target
      BY <2>1, TargetKept DEF PhaseInv
    <2>3. Target.alerts[a] = IF pc = "alerts" THEN src.alerts[a] ELSE "resolved"
      BY <1>8, <2>1, <2>2, TargetIs DEF MergeAlert, ResolveAlert, PhaseInv, AlertsIn
    <2>4. db' = [db EXCEPT !.alerts[a] = Target.alerts[a]] /\ todo' = todo \ {a}
      BY <1>8, <2>3 DEF MergeAlert, ResolveAlert
    <2>5. /\ \A b \in Alerts :
               db'.alerts[b] = IF b = a THEN Target.alerts[a] ELSE db.alerts[b]
          /\ db'.services = db.services /\ db'.deps = db.deps
      BY <1>0, <2>4 DEF Stores
    <2>6. AlertsIn(src)' = AlertsIn(src) /\ AlertsIn(src) \subseteq Alerts
      BY <2>1 DEF AlertsIn
    <2>7. QED
      BY <2>1, <2>2, <2>3, <2>4, <2>5, <2>6
  <1>9. CASE AlertsMerged
    <2>1. /\ pc = "alerts" /\ todo = {} /\ pc' = "resolve"
          /\ UNCHANGED <<db, mode, src, base, cut>>
      BY <1>9 DEF AlertsMerged
    <2>2. Merging /\ Target' = Target
      BY <2>1, TargetKept DEF PhaseInv
    <2>3. todo' = IF src.promOk /\ AlertsIn(src) # {}
                  THEN (LiveIn(db) \cap PromAlerts) \ AlertsIn(src) ELSE {}
      BY <1>9 DEF AlertsMerged, Zombies
    <2>4. \A a \in Alerts : IF a \in todo' THEN Target.alerts[a] = "resolved"
                            ELSE db.alerts[a] = Target.alerts[a]
      <3> SUFFICES ASSUME NEW a \in Alerts
                   PROVE  IF a \in todo' THEN Target.alerts[a] = "resolved"
                          ELSE db.alerts[a] = Target.alerts[a]
        OBVIOUS
      <3>1. CASE a \in AlertsIn(src)
        BY <2>1, <2>2, <2>3, <3>1, TargetIs DEF AlertsIn
      <3>2. CASE a \notin AlertsIn(src)
        BY <2>1, <2>2, <2>3, <3>2, TargetIs DEF AlertsIn, LiveIn
      <3>3. QED
        BY <3>1, <3>2
    <2>5. todo' \subseteq Alerts
      BY <2>3 DEF LiveIn
    <2>6. QED
      BY <2>1, <2>2, <2>4, <2>5
  <1>10. CASE MergeEnd
    BY <1>10, TargetKept DEF MergeEnd, PhaseInv
  <1>11. CASE ClearAsOf
    <2>1. db'.services = db.services /\ db'.alerts = db.alerts /\ db'.deps = db.deps
      BY <1>0, <1>11 DEF ClearAsOf, Stores
    <2>2. db'.asOf = FALSE
      BY <1>0, <1>11 DEF ClearAsOf, Stores
    <2>3. QED
      BY <1>11, <2>1, <2>2, TargetKept DEF ClearAsOf, PhaseInv
  <1>12. CASE UNCHANGED vars
    BY <1>12, TargetKept DEF vars, AlertsIn
  <1>13. QED
    BY <1>1, <1>2, <1>3, <1>4, <1>5, <1>6, <1>7, <1>8, <1>9, <1>10, <1>11, <1>12
    DEF Next, MergeFrom

LEMMA RetryDone == TypeInv /\ RetryInv => MergeRetrySafe
  <1> SUFFICES ASSUME TypeInv, RetryInv, pc = "done", mode = "merge" PROVE db = Target
    BY DEF MergeRetrySafe, Target
  <1>1. db \in Stores /\ Target \in Stores
    BY TargetIs DEF TypeInv, TypeOK
  <1>2. /\ \A s \in Services : db.services[s] = Target.services[s]
        /\ \A a \in Alerts : db.alerts[a] = Target.alerts[a]
        /\ db.deps = Target.deps /\ db.asOf = Target.asOf
    BY TargetIs DEF RetryInv, Merging
  <1>3. db.services = Target.services /\ db.alerts = Target.alerts
    BY <1>1, <1>2 DEF Stores
  <1>4. QED
    BY <1>1, <1>2, <1>3 DEF Stores

\* When the destination can be read, a merge cut short anywhere, any number of
\* times, and run again on the same scrape leaves what one whole merge leaves.
THEOREM RetryIsSafe ==
  ASSUME ~ReadErrors
  PROVE  Spec => []MergeRetrySafe
  <1>1. Init => RetryInv
    BY DEF Init, RetryInv, Merging
  <1>2. TypeInv /\ PhaseInv /\ RetryInv /\ [Next]_vars => RetryInv'
    BY RetryStep
  <1>3. QED
    BY <1>1, <1>2, RetryDone, Phased, PTL DEF Spec

-----------------------------------------------------------------------------
(* The clock.                                                               *)

\* What a fixture ingest has written so far, and where it comes from.
PackInv ==
  /\ db.asOf => \E pack \in Packs : HasRowsOf(pack)
  /\ pc \in FixturePhases =>
       \E pack \in Packs : /\ src.services = pack.services
                           /\ src.deps = pack.deps /\ src.alerts = pack.alerts
  /\ pc = "fxServices" => ServicesIn(src) \ todo \subseteq ServicesIn(db)
  /\ pc \in {"fxDeps", "fxAlerts", "setAsOf"} => ServicesIn(src) \subseteq ServicesIn(db)
  /\ pc = "fxDeps" => \A e \in src.deps \ todo : {e[1], e[2]} \subseteq ServicesIn(db)
  /\ pc \in {"fxAlerts", "setAsOf"} => \A e \in src.deps : {e[1], e[2]} \subseteq ServicesIn(db)
  /\ pc = "fxAlerts" => AlertsIn(src) \ todo \subseteq AlertsIn(db)
  /\ pc = "setAsOf" => AlertsIn(src) \subseteq AlertsIn(db)

\* A merge keeps the clock it found until it is done.
KeptInv ==
  /\ cut => mode = "merge"
  /\ mode = "merge" /\ base.asOf /\ pc # "done" => db.asOf

\* Only Reset and the swap take services or alerts away, and only a fixture
\* ingest that ends pins the clock.
LEMMA RowsStay ==
  ASSUME TypeInv, PhaseInv, [Next]_vars, ~Reset, ~Swap
  PROVE  /\ ServicesIn(db) \subseteq ServicesIn(db') /\ AlertsIn(db) \subseteq AlertsIn(db')
         /\ db'.asOf => db.asOf \/ SetAsOf
  <1>0. db \in Stores /\ src \in Scrapings /\ NoRow \notin Rows
    BY ScrapeAssumption DEF TypeInv, TypeOK
  <1>1. CASE db' = db
    BY <1>1
  <1>2. ASSUME NEW s \in Services, NEW r \in Rows, db' = [db EXCEPT !.services[s] = r]
        PROVE  /\ ServicesIn(db) \subseteq ServicesIn(db') /\ AlertsIn(db) \subseteq AlertsIn(db')
               /\ db'.asOf = db.asOf
    <2>1. /\ \A t \in Services : db'.services[t] = IF t = s THEN r ELSE db.services[t]
          /\ db'.alerts = db.alerts /\ db'.asOf = db.asOf
      BY <1>0, <1>2 DEF Stores
    <2>2. QED
      BY <1>0, <2>1 DEF ServicesIn, AlertsIn
  <1>3. ASSUME NEW a \in Alerts, NEW r \in AlertStates, r # NoRow, db' = [db EXCEPT !.alerts[a] = r]
        PROVE  /\ ServicesIn(db) \subseteq ServicesIn(db') /\ AlertsIn(db) \subseteq AlertsIn(db')
               /\ db'.asOf = db.asOf
    <2>1. /\ \A b \in Alerts : db'.alerts[b] = IF b = a THEN r ELSE db.alerts[b]
          /\ db'.services = db.services /\ db'.asOf = db.asOf
      BY <1>0, <1>3 DEF Stores
    <2>2. QED
      BY <1>3, <2>1 DEF ServicesIn, AlertsIn
  <1>4. ASSUME NEW s \in Services, FixtureService(s) \/ MergeService(s)
        PROVE  \E r \in Rows : db' = [db EXCEPT !.services[s] = r]
    <2>1. src.services[s] \in Rows
      BY <1>0, <1>4 DEF FixtureService, MergeService, Writes, PhaseInv, ServicesIn, Scrapings
    <2>2. \A old \in ReadRow(s) : MergeRow(old, src.services[s]) \in Rows
      BY <1>0, <2>1, MergeRowType DEF ReadRow, Stores
    <2>3. QED
      BY <1>4, <2>1, <2>2 DEF FixtureService, MergeService
  <1>5. ASSUME NEW e \in Services \X Services, NEW s \in Services, FixtureStub(e, s)
        PROVE  \E r \in Rows : db' = [db EXCEPT !.services[s] = r]
    BY <1>5, StubRow DEF FixtureStub
  <1>6. ASSUME NEW a \in Alerts, FixtureAlert(a) \/ MergeAlert(a) \/ ResolveAlert(a)
        PROVE  \E r \in AlertStates : r # NoRow /\ db' = [db EXCEPT !.alerts[a] = r]
    <2>1. "resolved" \in AlertStates /\ "resolved" # NoRow
      BY ScrapeAssumption DEF AlertStates
    <2>2. FixtureAlert(a) \/ MergeAlert(a) => src.alerts[a] \in AlertStates /\ src.alerts[a] # NoRow
      BY <1>0 DEF FixtureAlert, MergeAlert, Writes, PhaseInv, AlertsIn, Scrapings
    <2>3. QED
      BY <1>6, <2>1, <2>2 DEF FixtureAlert, MergeAlert, ResolveAlert
  <1>7. ASSUME NEW e \in Services \X Services, FixtureDep(e) \/ MergeDep(e) \/ PruneDep(e)
        PROVE  ServicesIn(db') = ServicesIn(db) /\ AlertsIn(db') = AlertsIn(db) /\ db'.asOf = db.asOf
    <2>1. db'.services = db.services /\ db'.alerts = db.alerts /\ db'.asOf = db.asOf
      BY <1>0, <1>7 DEF FixtureDep, MergeDep, PruneDep, Stores
    <2>2. QED
      BY <2>1 DEF ServicesIn, AlertsIn
  <1>8. CASE SetAsOf \/ ClearAsOf
    <2>1. /\ db'.services = db.services /\ db'.alerts = db.alerts
          /\ SetAsOf \/ db'.asOf = FALSE
      BY <1>0, <1>8 DEF SetAsOf, ClearAsOf, Stores
    <2>2. QED
      BY <2>1 DEF ServicesIn, AlertsIn
  <1>9. \/ db' = db \/ SetAsOf \/ ClearAsOf
        \/ \E s \in Services : FixtureService(s) \/ MergeService(s)
        \/ \E e \in Services \X Services, s \in Services : FixtureStub(e, s)
        \/ \E a \in Alerts : FixtureAlert(a) \/ MergeAlert(a) \/ ResolveAlert(a)
        \/ \E e \in Services \X Services : FixtureDep(e) \/ MergeDep(e) \/ PruneDep(e)
    BY DEF Next, Fixture, MergeFrom, vars, WorldChanges, Stop, Finish, StartLive, StartFixture,
       FixtureServicesDone, FixtureDepsDone, FixtureEnd, ServicesMerged, DepsMerged, DepsPruned,
       AlertsMerged, MergeEnd
  <1>10. QED
    BY <1>1, <1>2, <1>3, <1>4, <1>5, <1>6, <1>7, <1>8, <1>9

\* A pack that is all there stays there.
LEMMA PackStays ==
  ASSUME ServicesIn(db) \subseteq ServicesIn(db'), AlertsIn(db) \subseteq AlertsIn(db'),
         NEW pack \in Packs, HasRowsOf(pack)
  PROVE  HasRowsOf(pack)'
  BY DEF HasRowsOf

LEMMA PackStep == TypeInv /\ PhaseInv /\ PackInv /\ [Next]_vars => PackInv'
  <1> SUFFICES ASSUME TypeInv, PhaseInv, PackInv, [Next]_vars PROVE PackInv'
    OBVIOUS
  <1>0. db \in Stores
    BY DEF TypeInv, TypeOK
  <1> USE DEF FixturePhases, Fixed, Goto, Writes
  <1>1. CASE Reset
    <2>1. db'.asOf = FALSE
      BY <1>1 DEF Reset, BlankStore
    <2>2. ServicesIn(src') \ todo' = {}
      BY <1>1 DEF Reset
    <2>3. QED
      BY <1>1, <2>1, <2>2 DEF Reset, PackInv
  <1>2. CASE Swap
    <2>1. db'.asOf = FALSE /\ pc' = "clearAsOf"
      BY <1>2 DEF Swap
    <2>2. QED
      BY <2>1 DEF PackInv
  <1>3. CASE ~Reset /\ ~Swap
    <2>1. /\ ServicesIn(db) \subseteq ServicesIn(db') /\ AlertsIn(db) \subseteq AlertsIn(db')
          /\ db'.asOf => db.asOf \/ SetAsOf
      BY <1>3, RowsStay
    <2>2. SetAsOf => \E pack \in Packs : HasRowsOf(pack)
      BY DEF SetAsOf, PackInv, HasRowsOf, ServicesIn, AlertsIn
    <2>3. db'.asOf => (\E pack \in Packs : HasRowsOf(pack))'
      BY <2>1, <2>2, PackStays DEF PackInv
    <2>4. CASE pc' \notin FixturePhases
      BY <2>3, <2>4 DEF PackInv
    <2>5. CASE pc' = "reset"
      <3>1. \/ \E pack \in Packs : StartFixture(pack)
            \/ UNCHANGED vars
        BY <2>5 DEF Next, Fixture, MergeFrom, WorldChanges, Stop, Finish, StartLive, Reset,
           FixtureService, FixtureServicesDone, FixtureStub, FixtureDep, FixtureDepsDone,
           FixtureAlert, FixtureEnd, SetAsOf, Swap, MergeService, ServicesMerged, MergeDep,
           DepsMerged, PruneDep, DepsPruned, MergeAlert, AlertsMerged, ResolveAlert, MergeEnd,
           ClearAsOf
      <3>2. \E pack \in Packs : /\ src'.services = pack.services
                                /\ src'.deps = pack.deps /\ src'.alerts = pack.alerts
        BY <2>5, <3>1 DEF StartFixture, vars, PackInv
      <3>3. QED
        BY <2>3, <2>5, <3>2 DEF PackInv
    <2>6. CASE pc' \in {"fxServices", "fxDeps", "fxAlerts", "setAsOf"}
      <3>1. /\ src' = src /\ pc \in FixturePhases
            /\ \/ pc' = pc /\ (todo' = todo \/ \E row \in todo : todo' = todo \ {row})
               \/ pc = "fxServices" /\ pc' = "fxDeps" /\ todo = {} /\ todo' = src.deps
               \/ pc = "fxDeps" /\ pc' = "fxAlerts" /\ todo = {} /\ todo' = AlertsIn(src)
               \/ pc = "fxAlerts" /\ pc' = "setAsOf" /\ todo = {}
        BY <1>3, <2>6 DEF Next, Fixture, MergeFrom, vars, WorldChanges, Stop, Finish, StartLive,
           StartFixture, Reset, FixtureService, FixtureServicesDone, FixtureStub, FixtureDep,
           FixtureDepsDone, FixtureAlert, FixtureEnd, SetAsOf, Swap, MergeService,
           ServicesMerged, MergeDep, DepsMerged, PruneDep, DepsPruned, MergeAlert, AlertsMerged,
           ResolveAlert, MergeEnd, ClearAsOf
      <3>2. \E pack \in Packs : /\ src'.services = pack.services
                                /\ src'.deps = pack.deps /\ src'.alerts = pack.alerts
        BY <3>1 DEF PackInv
      <3>3. AlertsIn(src') = AlertsIn(src) /\ ServicesIn(src') = ServicesIn(src)
        BY <3>1
      <3>4. pc' = "fxServices" => ServicesIn(src') \ todo' \subseteq ServicesIn(db')
        <4> SUFFICES ASSUME pc' = "fxServices", NEW s \in ServicesIn(src), s \notin todo',
                            s \in todo
                     PROVE  s \in ServicesIn(db')
          BY <2>1, <3>1, <3>3 DEF PackInv
        <4>1. FixtureService(s)
          BY <1>3 DEF Next, Fixture, MergeFrom, vars, WorldChanges, Stop, Finish, StartLive,
             StartFixture, Reset, FixtureService, FixtureServicesDone, FixtureStub, FixtureDep,
             FixtureDepsDone, FixtureAlert, FixtureEnd, SetAsOf, Swap, MergeService,
             ServicesMerged, MergeDep, DepsMerged, PruneDep, DepsPruned, MergeAlert,
             AlertsMerged, ResolveAlert, MergeEnd, ClearAsOf
        <4>2. s \in Services /\ db'.services[s] = src.services[s] /\ src.services[s] # NoRow
          BY <1>0, <4>1 DEF FixtureService, ServicesIn, Stores
        <4>3. QED
          BY <4>2 DEF ServicesIn
      <3>5. pc' \in {"fxDeps", "fxAlerts", "setAsOf"} => ServicesIn(src') \subseteq ServicesIn(db')
        BY <2>1, <3>1, <3>3 DEF PackInv
      <3>6. pc' = "fxDeps" => \A e \in src'.deps \ todo' : {e[1], e[2]} \subseteq ServicesIn(db')
        <4> SUFFICES ASSUME pc' = "fxDeps", NEW e \in src.deps, e \notin todo', e \in todo
                     PROVE  {e[1], e[2]} \subseteq ServicesIn(db')
          BY <2>1, <3>1 DEF PackInv
        <4>1. FixtureDep(e)
          BY <1>3, <3>1 DEF Next, Fixture, MergeFrom, vars, WorldChanges, Stop, Finish, StartLive,
             StartFixture, Reset, FixtureService, FixtureServicesDone, FixtureStub, FixtureDep,
             FixtureDepsDone, FixtureAlert, FixtureEnd, SetAsOf, Swap, MergeService,
             ServicesMerged, MergeDep, DepsMerged, PruneDep, DepsPruned, MergeAlert,
             AlertsMerged, ResolveAlert, MergeEnd, ClearAsOf
        <4>2. QED
          BY <2>1, <4>1 DEF FixtureDep
      <3>7. pc' \in {"fxAlerts", "setAsOf"} =>
              \A e \in src'.deps : {e[1], e[2]} \subseteq ServicesIn(db')
        BY <2>1, <3>1 DEF PackInv
      <3>8. pc' = "fxAlerts" => AlertsIn(src') \ todo' \subseteq AlertsIn(db')
        <4> SUFFICES ASSUME pc' = "fxAlerts", NEW a \in AlertsIn(src), a \notin todo', a \in todo
                     PROVE  a \in AlertsIn(db')
          BY <2>1, <3>1, <3>3 DEF PackInv
        <4>1. FixtureAlert(a)
          BY <1>3, <3>1 DEF Next, Fixture, MergeFrom, vars, WorldChanges, Stop, Finish, StartLive,
             StartFixture, Reset, FixtureService, FixtureServicesDone, FixtureStub, FixtureDep,
             FixtureDepsDone, FixtureAlert, FixtureEnd, SetAsOf, Swap, MergeService,
             ServicesMerged, MergeDep, DepsMerged, PruneDep, DepsPruned, MergeAlert,
             AlertsMerged, ResolveAlert, MergeEnd, ClearAsOf
        <4>2. a \in Alerts /\ db'.alerts[a] = src.alerts[a] /\ src.alerts[a] # NoRow
          BY <1>0, <4>1 DEF FixtureAlert, AlertsIn, Stores
        <4>3. QED
          BY <4>2 DEF AlertsIn
      <3>9. pc' = "setAsOf" => AlertsIn(src') \subseteq AlertsIn(db')
        BY <2>1, <3>1, <3>3 DEF PackInv
      <3>10. QED
        BY <2>3, <2>6, <3>2, <3>4, <3>5, <3>6, <3>7, <3>8, <3>9 DEF PackInv
    <2>7. QED
      BY <2>4, <2>5, <2>6
  <1>4. QED
    BY <1>1, <1>2, <1>3

LEMMA KeptStep == TypeInv /\ PhaseInv /\ KeptInv /\ [Next]_vars => KeptInv'
  <1> SUFFICES ASSUME TypeInv, PhaseInv, KeptInv, [Next]_vars PROVE KeptInv'
    OBVIOUS
  <1>0. db \in Stores
    BY DEF TypeInv, TypeOK
  <1> USE DEF KeptInv, Fixed, Goto, Writes
  <1>1. CASE WorldChanges \/ Stop \/ Finish
    <2>1. UNCHANGED <<db, mode>> /\ ~BlankStore.asOf
      BY <1>1 DEF WorldChanges, Stop, Finish, BlankStore
    <2>2. base' = BlankStore \/ (base' = base /\ pc # "done")
      BY <1>1 DEF WorldChanges, Stop, Finish
    <2>3. cut' => cut \/ mode = "merge"
      BY <1>1 DEF WorldChanges, Stop, Finish
    <2>4. QED
      BY <2>1, <2>2, <2>3
  <1>2. ASSUME NEW m \in {"replace", "merge"}, StartLive(m) PROVE KeptInv'
    <2>1. db' = db /\ ~cut' /\ mode' = m /\ pc = "idle"
      BY <1>2 DEF StartLive
    <2>2. base' = db \/ (base' = base /\ cut)
      BY <1>2 DEF StartLive
    <2>3. QED
      BY <2>1, <2>2
  <1>3. CASE Fixture \/ Swap
    <2>1. cut' = FALSE /\ mode' # "merge"
      BY <1>3 DEF Fixture, Swap, StartFixture, Reset, FixtureService, FixtureServicesDone,
         FixtureStub, FixtureDep, FixtureDepsDone, FixtureAlert, FixtureEnd, SetAsOf, PhaseInv,
         FixturePhases, TypeInv, TypeOK
    <2>2. QED
      BY <2>1
  <1>4. CASE MergeFrom
    <2>1. db'.asOf = db.asOf
      BY <1>0, <1>4 DEF MergeFrom, MergeService, ServicesMerged, MergeDep, DepsMerged, PruneDep,
         DepsPruned, MergeAlert, AlertsMerged, ResolveAlert, MergeEnd, Stores
    <2>2. UNCHANGED <<mode, base, cut>> /\ pc # "done"
      BY <1>4 DEF MergeFrom, MergeService, ServicesMerged, MergeDep, DepsMerged, PruneDep,
         DepsPruned, MergeAlert, AlertsMerged, ResolveAlert, MergeEnd
    <2>3. QED
      BY <2>1, <2>2
  <1>5. CASE ClearAsOf
    BY <1>5 DEF ClearAsOf
  <1>6. CASE UNCHANGED vars
    BY <1>6 DEF vars
  <1>7. QED
    BY <1>1, <1>2, <1>3, <1>4, <1>5, <1>6 DEF Next

\* The clock is pinned only over a whole pack, and released only by a merge that
\* is whole, however often ingests are cut short, when the destination can be read
\* (internal/ingest/ingest.go:52, cmd/opsgraph/ingest.go:100-107).
THEOREM ClockIsLast ==
  ASSUME ~ReadErrors
  PROVE  Spec => []ClockMovesLast
  <1>1. Init => RetryInv /\ PackInv /\ KeptInv
    BY DEF Init, RetryInv, Merging, PackInv, KeptInv, FixturePhases, BlankStore
  <1>2. /\ TypeInv /\ PhaseInv /\ RetryInv /\ [Next]_vars => RetryInv'
        /\ TypeInv /\ PhaseInv /\ PackInv /\ [Next]_vars => PackInv'
        /\ TypeInv /\ PhaseInv /\ KeptInv /\ [Next]_vars => KeptInv'
    BY RetryStep, PackStep, KeptStep
  <1>3. TypeInv /\ RetryInv /\ PackInv /\ KeptInv => ClockMovesLast
    <2> SUFFICES ASSUME TypeInv, RetryInv, PackInv, KeptInv PROVE ClockMovesLast
      OBVIOUS
    <2>1. mode = "merge" /\ base.asOf /\ ~db.asOf => pc = "done"
      BY DEF KeptInv
    <2>2. MergeRetrySafe
      BY RetryDone
    <2>3. QED
      BY <2>1, <2>2 DEF ClockMovesLast, PackInv, MergeRetrySafe
  <1>4. QED
    BY <1>1, <1>2, <1>3, Phased, PTL DEF Spec
=============================================================================
