--------------------------------- MODULE Ask ---------------------------------
(***************************************************************************)
(* The commands that answer from a store: ask about a service, ask about   *)
(* the hottest one, top, and compare. An answer is put together from many  *)
(* queries and no transaction, and a process that ingests into the same    *)
(* store may write a row between any two of them. (A process that replaces *)
(* the store's file does not: the open handle stays on the old file.)      *)
(*                                                                         *)
(* One action is one query with the code up to the next one.               *)
(***************************************************************************)
EXTENDS Signals

CONSTANTS
  Services,    \* ids, in lower case; the order of strings is the order of numbers
  Agents,      \* the ids model.IsSystemAgent knows
  Names,       \* ids, names and aliases, in lower case
  EvidenceIds,
  LegacyIds,   \* pairs of an id that was once given to a rollout, and its name
  Tests,       \* bound: stores, commands, and how many writes may come between
  Writes       \* bound: the rows another process may put or delete

Times == 0..(Now + 1)

\* A row is known in its table by its id: a dependency by its two ends, a
\* runbook by its service. "" is an empty column. A service's id is a name of it.
ServiceRows ==
  {s \in [id : Services, names : SUBSET Names, owner : {"", "team"},
          health : Healths, note : BOOLEAN,
          sources : SUBSET {"fixture", "kubernetes", "git", "dependency"}] : s.id \in s.names}
Citations == EvidenceIds \cup {""}
Changes == [id : Int, svc : Services, at : Times,
            type : {"deploy", "rollout", "commit", "config"}, ev : Citations]
Alerts == [id : Int, svc : Services, at : Times, sev : {"critical", "warning", "info"},
           name : STRING, status : {"firing", "pending", "suppressed", "resolved"},
           ev : Citations]
Dependencies == [id : Services \X Services]
Checks == [name : {"manual", "unknown", "deploy_age_lt", "deploy_age_gt",
                   "k8s_deployment_exists", "service_healthy", "service_unhealthy",
                   "alert_firing"},
           arg : Names, dur : Int, alert : STRING]
Runbooks == [id : Services, steps : Seq(Checks)]
Evidence == [id : EvidenceIds, svc : Services, at : Times,
             kind : {"k8s-event", "rollout", "note"}, ref : Names]

Tables == {"services", "owners", "changes", "dependencies", "alerts", "runbooks", "evidence"}
Columns == [services : SUBSET ServiceRows, owners : SUBSET [id : {"team"}],
            changes : SUBSET Changes, dependencies : SUBSET Dependencies,
            alerts : SUBSET Alerts, runbooks : SUBSET Runbooks,
            evidence : SUBSET Evidence]

\* A table has a primary key.
Table(S) == IsFiniteSet(S) /\ \A r, s \in S : r.id = s.id => r = s
Stores == {st \in Columns : \A t \in Tables : Table(st[t])}

\* How many names a command takes. Only ask has the flag --runbook.
Arity(cmd) == IF cmd = "ask" THEN 1 ELSE IF cmd = "compare" THEN 2 ELSE 0
Requests ==
  {r \in [cmd : {"ask", "auto", "top", "compare"}, names : Seq(Names),
          since : Nat \ {0}, withRunbook : BOOLEAN] :
     /\ Len(r.names) = Arity(r.cmd)
     /\ r.cmd \in {"top", "compare"} => r.withRunbook}

RowsIn == [services |-> ServiceRows, owners |-> [id : {"team"}], changes |-> Changes,
           dependencies |-> Dependencies, alerts |-> Alerts, runbooks |-> Runbooks,
           evidence |-> Evidence]

ASSUME AskAssumption ==
  /\ Services \subseteq Int /\ Services \subseteq Names
  /\ LegacyIds \subseteq EvidenceIds \X Names
  /\ \A t \in Tests : t.store \in Stores /\ t.req \in Requests /\ t.writes \in Nat
  /\ \A w \in Writes : /\ w.table \in Tables /\ w.delete \in BOOLEAN
                       /\ w.delete \/ w.row \in RowsIn[w.table]

VARIABLES
  store,
  req,       \* the command
  budget,    \* how many writes of another process may still come
  pc,
  phase,     \* "fleet" while services are ranked, "answer" after
  todo,      \* names still to be asked about
  listed,    \* the services that are ranked, as they were listed
  skipped,   \* services whose answer failed
  rows,      \* the ranking so far
  res,       \* the answer in the making
  pend,      \* neighbours to resolve, checks to verify, evidence ids to load
  tip,       \* the answer has the tip on transitive impact
  answers,   \* services answered, with their scores
  outcome,
  versions   \* history: what the store held since the command was begun

request == <<req, phase, listed>>
fleet == <<todo, skipped, rows, answers, outcome>>
vars == <<store, req, budget, pc, phase, todo, listed, skipped, rows, res, pend,
          tip, answers, outcome, versions>>

NoService == [id |-> 0, names |-> {}, owner |-> "", health |-> "unknown",
              note |-> FALSE, sources |-> {}]
NoAnswer == [service |-> NoService, owner |-> "", changes |-> {}, alerts |-> {},
             up |-> {}, down |-> {}, runbook |-> "none", steps |-> <<>>, evidence |-> {}]
NothingPending == [up |-> {}, down |-> {}, checks |-> <<>>, ids |-> {}]

Statuses == {"pass", "stale", "fail", "error", "manual"}

\* An answer, and what is pending for it.
AskResults ==
  [service : ServiceRows \cup {NoService}, owner : {"", "team"},
   changes : SUBSET Changes, alerts : SUBSET Alerts,
   up : SUBSET ServiceRows, down : SUBSET ServiceRows,
   runbook : Statuses \cup {"none"},
   steps : Seq([check : Checks, status : Statuses, ev : Citations]),
   evidence : SUBSET (Evidence \cup [id : EvidenceIds, svc : Services, at : Times,
                                     kind : {"missing"}, ref : Names])]
Pending == [up : SUBSET Services, down : SUBSET Services, checks : Seq(Checks),
            ids : SUBSET EvidenceIds]

Init ==
  /\ \E t \in Tests : store = t.store /\ req = t.req /\ budget = t.writes
  /\ pc = "start" /\ phase = "answer" /\ todo = <<>> /\ listed = {} /\ skipped = 0
  /\ rows = {} /\ res = NoAnswer /\ pend = NothingPending /\ tip = FALSE
  /\ answers = <<>> /\ outcome = "none" /\ versions = {store}
-----------------------------------------------------------------------------
(* The queries of the store.                                               *)

GetServiceByNameOrAlias(st, name) == {s \in st.services : name \in s.names}
GetService(st, id) == {s \in st.services : s.id = id}
ListChanges(st, svc, since) == {c \in st.changes : c.svc = svc /\ c.at >= since}
ListAlerts(st, svc, since) ==
  {a \in st.alerts : a.svc = svc /\ (AlertLive(a.status) \/ a.at >= since)}
ListDependencies(st, svc) == {d \in st.dependencies : svc \in {d.id[1], d.id[2]}}
ListEvidence(st, ids) == {e \in st.evidence : e.id \in ids}

\* Mutant: a deploy that is yet to come hides the last one.
LatestDeployAnyTime(st, svc, asOf) ==
  LET found == {c \in st.changes : c.svc = svc /\ c.type \in {"deploy", "rollout"}}
  IN IF found = {} THEN {} ELSE {Newest(found)}

LatestDeployOrRollout(st, svc, asOf) ==
  LET found == {c \in st.changes :
                  c.svc = svc /\ c.type \in {"deploy", "rollout"} /\ c.at <= asOf}
  IN IF found = {} THEN {} ELSE {Newest(found)}

FindFiringAlert(st, svc, name) ==
  LET found == {a \in st.alerts : AlertActive(a.status) /\ a.svc = svc /\ a.name = name}
  IN {a \in found : \A b \in found : b = a \/ alertSortLess(a, b)}

FindRolloutEvidence(st, name) ==
  {e \in st.evidence : e.kind = "rollout" /\ (e.ref = name \/ <<e.id, name>> \in LegacyIds)}

\* Mutant: changes are asked for no further back than alerts.
ChangeLookbackUnfloored(since) == since

ChangeLookback(since) == IF since < correlateWindow THEN correlateWindow ELSE since

filterNotFutureChanges(S) == {c \in S : ~Skewed(c)}
filterNotFutureAlerts(S) == {a \in S : AlertLive(a.status) \/ ~Skewed(a)}
-----------------------------------------------------------------------------
(* Runbook checks: a step's verdict and the evidence it cites.             *)

Verdict(check, status, ev) == [check |-> check, status |-> status, ev |-> ev]

checkDeployAge(st, svc, check) ==
  LET last == LatestDeployOrRollout(st, svc, Now)
      c == CHOOSE c \in last : TRUE
      age == Now - c.at
      pass == IF check.name = "deploy_age_lt" THEN age < check.dur ELSE age > check.dur
  IN IF check.dur <= 0 THEN Verdict(check, "error", "")
     ELSE IF last = {} THEN Verdict(check, "stale", "")
     ELSE Verdict(check, IF pass THEN "pass" ELSE "stale", c.ev)

checkDeploymentExists(st, check) ==
  LET found == FindRolloutEvidence(st, check.arg)
  IN IF found = {} THEN Verdict(check, "stale", "")
     ELSE IF Cardinality(found) > 1 THEN Verdict(check, "error", "")
     ELSE Verdict(check, "pass", (CHOOSE e \in found : TRUE).id)

checkServiceHealth(st, check) ==
  LET found == GetServiceByNameOrAlias(st, check.arg)
      s == CHOOSE s \in found : TRUE
      ok == IF check.name = "service_healthy" THEN s.health = "healthy" ELSE Bad(s)
  IN IF found = {} THEN Verdict(check, "stale", "")
     ELSE IF Cardinality(found) > 1 THEN Verdict(check, "error", "")
     ELSE Verdict(check, IF ok THEN "pass" ELSE "stale", "")

checkAlertFiring(st, svc, check) ==
  LET found == FindFiringAlert(st, svc, check.alert)
  IN IF found = {} THEN Verdict(check, "stale", "")
     ELSE Verdict(check, "pass", (CHOOSE a \in found : TRUE).ev)

verifyStep(st, svc, check) ==
  IF check.name = "manual" THEN Verdict(check, "manual", "")
  ELSE IF check.name \in {"deploy_age_lt", "deploy_age_gt"} THEN checkDeployAge(st, svc, check)
  ELSE IF check.name = "k8s_deployment_exists" THEN checkDeploymentExists(st, check)
  ELSE IF check.name \in {"service_healthy", "service_unhealthy"}
    THEN checkServiceHealth(st, check)
  ELSE IF check.name = "alert_firing" THEN checkAlertFiring(st, svc, check)
  ELSE Verdict(check, "error", "")

rollup(steps) ==
  LET has(S) == \E i \in DOMAIN steps : steps[i].status \in S
  IN IF has({"fail", "error"}) THEN "fail"
     ELSE IF has({"stale"}) THEN "stale"
     ELSE IF has({"pass"}) THEN "pass" ELSE "manual"
-----------------------------------------------------------------------------
(* Which services are asked about.                                         *)

Step(from, to) == pc = from /\ pc' = to
KeepRest == UNCHANGED <<store, budget, request, fleet, versions>>

StartNamed ==
  /\ pc = "start" /\ req.cmd \in {"ask", "compare"}
  /\ todo' = req.names /\ pc' = "find"
  /\ UNCHANGED <<store, budget, request, listed, skipped, rows, res, pend, tip,
                 answers, outcome, versions>>

\* The ids of S, smallest first.
InOrder(S) ==
  CHOOSE q \in [1..Cardinality(S) -> S] : \A i, j \in 1..Cardinality(S) : i < j => q[i] < q[j]

StartFleet ==
  /\ pc = "start" /\ req.cmd \in {"auto", "top"}
  /\ LET ranked == {s \in store.services : ~IsNoiseForPaging(s)}
     IN /\ listed' = ranked
        /\ todo' = InOrder({s.id : s \in ranked})
        /\ pc' = IF ranked = {} THEN "rank" ELSE "find"
  /\ phase' = "fleet"
  /\ UNCHANGED <<store, req, budget, skipped, rows, res, pend, tip, answers,
                 outcome, versions>>

\* An answer failed: ask and compare give up, a ranking goes on without it.
Lost ==
  /\ IF phase = "fleet"
       THEN /\ skipped' = skipped + 1 /\ todo' = Tail(todo)
            /\ pc' = IF Len(todo) = 1 THEN "rank" ELSE "find"
            /\ UNCHANGED outcome
       ELSE /\ outcome' = "error" /\ pc' = "done"
            /\ UNCHANGED <<skipped, todo>>
  /\ UNCHANGED <<store, budget, request, rows, res, pend, tip, answers, versions>>

\* Not found, or ambiguous.
FindMiss ==
  /\ pc = "find" /\ Cardinality(GetServiceByNameOrAlias(store, Head(todo))) # 1
  /\ Lost

Find ==
  /\ pc = "find" /\ Cardinality(GetServiceByNameOrAlias(store, Head(todo))) = 1
  /\ res' = [NoAnswer EXCEPT
       !.service = CHOOSE s \in GetServiceByNameOrAlias(store, Head(todo)) : TRUE]
  /\ pc' = "owner" /\ tip' = FALSE
  /\ KeepRest /\ UNCHANGED pend

\* The services of a ranking may fail to be listed.
ListServicesFails ==
  /\ pc = "start" /\ req.cmd \in {"auto", "top"}
  /\ Lost

\* Any query may fail: the file is locked, or a row holds no time.
QueryFails ==
  /\ pc \in {"find", "owner", "changes", "alerts", "dependencies", "resolve",
             "runbook", "verify", "extra", "evidence"}
  /\ Lost
-----------------------------------------------------------------------------
(* Ask, query by query.                                                    *)

GetOwner ==
  /\ Step("owner", "changes")
  /\ res' = [res EXCEPT !.owner =
       IF [id |-> res.service.owner] \in store.owners THEN res.service.owner ELSE ""]
  /\ KeepRest /\ UNCHANGED <<pend, tip>>

GetChanges ==
  /\ Step("changes", "alerts")
  /\ res' = [res EXCEPT !.changes = filterNotFutureChanges(
       ListChanges(store, res.service.id, Now - ChangeLookback(req.since)))]
  /\ KeepRest /\ UNCHANGED <<pend, tip>>

GetAlerts ==
  /\ Step("alerts", "dependencies")
  /\ res' = [res EXCEPT !.alerts = filterNotFutureAlerts(
       ListAlerts(store, res.service.id, Now - req.since))]
  /\ KeepRest /\ UNCHANGED <<pend, tip>>

GetDependencies ==
  /\ Step("dependencies", "resolve")
  /\ LET id == res.service.id
         touching == {d.id : d \in ListDependencies(store, id)}
     IN pend' = [pend EXCEPT !.up = {d[2] : d \in {e \in touching : e[1] = id}},
                             !.down = {d[1] : d \in {e \in touching : e[2] = id}}]
  /\ KeepRest /\ UNCHANGED <<res, tip>>

Stub(id) == [NoService EXCEPT !.id = id, !.names = {id}, !.sources = {"dependency"}]

\* A neighbour without a row is unknown, and shown.
Resolved(id) ==
  IF GetService(store, id) = {} THEN Stub(id)
  ELSE CHOOSE s \in GetService(store, id) : TRUE

ResolveUp ==
  /\ pc = "resolve" /\ pend.up # {}
  /\ LET id == Min(pend.up)
     IN /\ res' = [res EXCEPT !.up = @ \cup {Resolved(id)}]
        /\ pend' = [pend EXCEPT !.up = @ \ {id}]
  /\ KeepRest /\ UNCHANGED <<pc, tip>>

ResolveDown ==
  /\ pc = "resolve" /\ pend.up = {} /\ pend.down # {}
  /\ LET id == Min(pend.down)
     IN /\ res' = [res EXCEPT !.down = @ \cup {Resolved(id)}]
        /\ pend' = [pend EXCEPT !.down = @ \ {id}]
  /\ KeepRest /\ UNCHANGED <<pc, tip>>

\* A ranking, top and compare verify the runbook whatever the flag says; it is
\* the answer ask prints that goes without it.
WithRunbook == phase = "fleet" \/ req.withRunbook

ResolveEnd ==
  /\ pend.up = {} /\ pend.down = {}
  /\ Step("resolve", IF WithRunbook THEN "runbook" ELSE "extra")
  /\ KeepRest /\ UNCHANGED <<res, pend, tip>>

MyRunbook == {r \in store.runbooks : r.id = res.service.id}

GetRunbookNone ==
  /\ Step("runbook", "extra") /\ MyRunbook = {}
  /\ KeepRest /\ UNCHANGED <<res, pend, tip>>

GetRunbook ==
  /\ Step("runbook", "verify") /\ MyRunbook # {}
  /\ pend' = [pend EXCEPT !.checks = (CHOOSE r \in MyRunbook : TRUE).steps]
  /\ KeepRest /\ UNCHANGED <<res, tip>>

VerifyStep ==
  /\ pc = "verify" /\ pend.checks # <<>>
  /\ res' = [res EXCEPT !.steps =
       Append(@, verifyStep(store, res.service.id, Head(pend.checks)))]
  /\ pend' = [pend EXCEPT !.checks = Tail(@)]
  /\ KeepRest /\ UNCHANGED <<pc, tip>>

VerifyEnd ==
  /\ pend.checks = <<>> /\ Step("verify", "extra")
  /\ res' = [res EXCEPT !.runbook = rollup(res.steps)]
  /\ KeepRest /\ UNCHANGED <<pend, tip>>

\* What the answer's rows cite.
Cited ==
  ({c.ev : c \in res.changes} \cup {a.ev : a \in res.alerts}
    \cup {res.steps[i].ev : i \in DOMAIN res.steps}) \ {""}

ListEvidenceForService ==
  /\ Step("extra", "evidence")
  /\ pend' = [pend EXCEPT !.ids =
       Cited \cup {e.id : e \in {f \in store.evidence : f.svc = res.service.id}}]
  /\ KeepRest /\ UNCHANGED <<res, tip>>

Missing(id) ==
  [id |-> id, svc |-> res.service.id, at |-> Now, kind |-> "missing", ref |-> res.service.id]

\* Mutant: cited rows that are gone are not shown.
CollectEvidenceFound ==
  /\ Step("evidence", "tip")
  /\ res' = [res EXCEPT !.evidence = ListEvidence(store, pend.ids)]
  /\ pend' = NothingPending
  /\ KeepRest /\ UNCHANGED tip

\* Mutant: only the service's own evidence is loaded.
CollectEvidenceOwn ==
  /\ Step("evidence", "tip")
  /\ LET found == {e \in ListEvidence(store, pend.ids) : e.svc = res.service.id}
     IN res' = [res EXCEPT !.evidence =
          found \cup {Missing(id) : id \in pend.ids \ {e.id : e \in found}}]
  /\ pend' = NothingPending
  /\ KeepRest /\ UNCHANGED tip

CollectEvidence ==
  /\ Step("evidence", "tip")
  /\ LET found == ListEvidence(store, pend.ids)
     IN res' = [res EXCEPT !.evidence =
          found \cup {Missing(id) : id \in pend.ids \ {e.id : e \in found}}]
  /\ pend' = NothingPending
  /\ KeepRest /\ UNCHANGED tip

\* What impact.Downstream finds: GraphSearch!AffectedIsReach.
Affected(dependencies, root) ==
  {x \in Services \ {root} :
     \A S \in SUBSET Services :
       root \in S /\ (\A d \in dependencies : d.id[2] \in S => d.id[1] \in S) => x \in S}

TransitiveImpactTip ==
  /\ Step("tip", "answered")
  /\ tip' = (Cardinality(Affected(store.dependencies, res.service.id)) > Cardinality(res.down))
  /\ KeepRest /\ UNCHANGED <<res, pend>>

TipFails ==
  /\ Step("tip", "answered")
  /\ KeepRest /\ UNCHANGED <<res, pend, tip>>
-----------------------------------------------------------------------------
(* What becomes of an answer.                                              *)

\* The row of a service in the ranking, in a set that is empty when it has none.
Ranked(id) ==
  LET s == CHOOSE x \in listed : x.id = id
  IN IF req.cmd = "auto" /\ ~hottestHasSignal(s, res) THEN {}
     ELSE {[id |-> id, agent |-> id \in Agents, score |-> Compute(res)]}

RankAnswer ==
  /\ pc = "answered" /\ phase = "fleet"
  /\ rows' = rows \cup Ranked(Head(todo))
  /\ todo' = Tail(todo)
  /\ pc' = IF Len(todo) = 1 THEN "rank" ELSE "find"
  /\ UNCHANGED <<store, budget, request, skipped, res, pend, tip, answers, outcome, versions>>

\* `opsgraph ask` goes on with a second answer about the hottest service.
PickHottest ==
  /\ pc = "rank" /\ req.cmd = "auto"
  /\ IF rows = {} THEN /\ outcome' = "error" /\ pc' = "done"
                       /\ UNCHANGED <<todo, phase>>
     ELSE /\ todo' = <<hottest(rows).id>> /\ phase' = "answer" /\ pc' = "find"
          /\ UNCHANGED outcome
  /\ UNCHANGED <<store, req, budget, listed, skipped, rows, res, pend, tip, answers, versions>>

Top ==
  /\ pc = "rank" /\ req.cmd = "top"
  /\ outcome' = IF rows = {} /\ skipped > 0 THEN "error" ELSE "ok"
  /\ pc' = "done"
  /\ UNCHANGED <<store, budget, request, todo, skipped, rows, res, pend, tip, answers, versions>>

Answer ==
  /\ pc = "answered" /\ phase = "answer"
  /\ answers' = Append(answers, [id |-> res.service.id, score |-> Compute(res)])
  /\ todo' = Tail(todo)
  /\ pc' = IF Len(todo) = 1 THEN "output" ELSE "find"
  /\ UNCHANGED <<store, budget, request, skipped, rows, res, pend, tip, outcome, versions>>

\* compare wants two services, however they are called.
Output ==
  /\ pc = "output" /\ pc' = "done"
  /\ outcome' = IF req.cmd = "compare" /\ answers[1].id = answers[2].id THEN "error" ELSE "ok"
  /\ UNCHANGED <<store, budget, request, todo, skipped, rows, res, pend, tip, answers, versions>>

\* INSERT ... ON CONFLICT (id) DO UPDATE, in whichever table.
Upsert(st, table, row) ==
  [st EXCEPT ![table] = {r \in @ : r.id # row.id} \cup {row}]

\* One statement of an ingest by another process.
OtherWrites ==
  /\ budget > 0 /\ pc # "done"
  /\ \E w \in Writes :
       store' = IF w.delete
                  THEN [store EXCEPT ![w.table] = {r \in @ : r.id # w.row.id}]
                  ELSE Upsert(store, w.table, w.row)
  /\ budget' = budget - 1
  /\ versions' = versions \cup {store'}
  /\ UNCHANGED <<request, pc, fleet, res, pend, tip>>

Ask ==
  \/ FindMiss \/ Find \/ QueryFails \/ GetOwner \/ GetChanges \/ GetAlerts
  \/ GetDependencies \/ ResolveUp \/ ResolveDown \/ ResolveEnd
  \/ GetRunbookNone \/ GetRunbook \/ VerifyStep \/ VerifyEnd
  \/ ListEvidenceForService \/ CollectEvidence \/ TransitiveImpactTip \/ TipFails

Fleet ==
  \/ StartNamed \/ StartFleet \/ ListServicesFails \/ RankAnswer \/ PickHottest \/ Top
  \/ Answer \/ Output

Next == Ask \/ Fleet \/ OtherWrites

Spec == Init /\ [][Next]_vars
-----------------------------------------------------------------------------
TypeOK ==
  /\ store \in Stores /\ req \in Requests /\ budget \in Nat
  /\ pc \in {"start", "find", "owner", "changes", "alerts", "dependencies", "resolve",
             "runbook", "verify", "extra", "evidence", "tip", "answered", "rank",
             "output", "done"}
  /\ phase \in {"fleet", "answer"}
  /\ todo \in Seq(Names) /\ listed \subseteq ServiceRows /\ skipped \in Nat
  /\ rows \subseteq [id : Services, agent : BOOLEAN, score : 0..100]
  /\ res \in AskResults /\ pend \in Pending
  /\ tip \in BOOLEAN
  /\ answers \in Seq([id : Services, score : 0..100])
  /\ outcome \in {"none", "ok", "error"}
  /\ \A v \in versions : v \in Stores

\* Nobody wrote since the command was begun.
Quiet == versions = {store}

\* ask.go:69. The parts of an answer come from different queries and different
\* rules; when nobody writes they do not contradict one another: a check that
\* passes says what the answer shows beside it, and impact is tipped only
\* when it reaches further than the neighbours shown. (A tip whose search fails is
\* left out; a service that depends on itself counts among its own neighbours, and
\* may miss the tip too; a neighbour without a row is looked up by its id, a check's
\* service by any name.)
PartsAgree ==
  pc = "answered" /\ Quiet =>
    /\ \A i \in DOMAIN res.steps :
         LET check == res.steps[i].check
             pass == res.steps[i].status = "pass"
             mine == check.arg \in res.service.names
         IN /\ check.name = "service_healthy" /\ pass /\ mine => res.service.health = "healthy"
            /\ check.name = "service_unhealthy" /\ pass =>
                 \A s \in ({res.service} \cup res.up \cup res.down) \cap store.services :
                   check.arg \in s.names => Bad(s)
            /\ check.name = "alert_firing" =>
                 (pass <=> \E a \in ActiveAlerts(res) : a.name = check.alert)
            /\ check.name = "deploy_age_lt" /\ check.dur <= SuspectChangeWindow /\ pass =>
                 recentChange(res) # {}
            /\ check.name = "deploy_age_gt" /\ check.dur >= SuspectChangeWindow /\ pass =>
                 \A c \in RecentChanges(res) : changeRank(c) # 0
    /\ tip => ~(Affected(store.dependencies, res.service.id) \subseteq {s.id : s \in res.down})
    /\ [id |-> <<res.service.id, res.service.id>>] \notin store.dependencies =>
         {s.id : s \in res.down} \subseteq Affected(store.dependencies, res.service.id)

\* ask.go:323 "Keep cited IDs visible even when the row was deleted". Whatever is
\* written meanwhile, all that an answer cites is among its evidence, and is
\* called missing only if the row was missing at some time. All that is shown
\* is on the timeline, and nothing there is yet to come.
CitedShown ==
  pc \in {"tip", "answered"} =>
    /\ Cited \subseteq {e.id : e \in res.evidence}
    /\ \A e \in res.evidence : e.kind = "missing" =>
         \E v \in versions : e.id \notin {f.id : f \in v.evidence}
    /\ \A r \in res.changes \cup res.alerts :
         \E e \in buildTimeline(res) :
           e.kind \in {"change", "alert"} /\ e.of = r.id /\ e.ev = r.ev
    /\ \A e \in buildTimeline(res) : e.at \in 1..Now

\* What could have caused an active alert: the deploys of its service in the
\* hour before it.
Causes(st, a) ==
  {c \in st.changes : /\ c.svc = a.svc /\ changeRank(c) = 0 /\ c.at # 0
                      /\ c.at <= AlertAt(a) /\ AlertAt(a) - c.at <= correlateWindow}

\* correlate.go:15, recommend.go:20-29. Whatever is written meanwhile, an active alert
\* that stays, and that a deploy precedes which stays too, is linked to a deploy
\* that is not older, never to a commit: one of the last hour however short the
\* command's window is, and an older one when the window reaches it.
CausesFound ==
  pc = "answered" =>
    \A a \in store.alerts : \A c \in Causes(store, a) :
      /\ AlertActive(a.status) /\ a.svc = res.service.id
      /\ Now - c.at <= correlateWindow \/ Now - c.at <= req.since
      /\ \A v \in versions : a \in v.alerts /\ c \in v.changes
      => \E l \in correlate(res) : l[2] = a /\ changeRank(l[1]) = 0 /\ l[1].at >= c.at

\* score.go:44, recommend.go:13-15. However the window is set, an incident has
\* one score for its alerts and one fingerprint: an alert that fires is not
\* discounted for a pending series of the same name, however new, and the parts
\* of the fingerprint are those of the store.
IncidentKept ==
  pc = "answered" /\ Quiet =>
    LET id == res.service.id
        live == {a \in store.alerts : a.svc = id /\ AlertActive(a.status)}
        recent == {c \in store.changes : c.svc = id /\ ~Skewed(c)
                                         /\ c.at >= Now - SuspectChangeWindow}
    IN /\ \A a \in live : \E b \in scoredAlerts(res) :
            b.name = a.name /\ b.sev = a.sev /\ alertPoints(b) >= alertPoints(a)
       /\ \A a \in live : \E p \in Of(res) : p[1] = "alert" /\ p[2] = a.name /\ p[3] = a.sev
       /\ {p[3] : p \in {q \in Of(res) : q[1] = "change"}}
            = IF recent = {} THEN {} ELSE {Newest(recent).id}

\* The command met no failure and no other writer.
Undisturbed == Quiet /\ skipped = 0 /\ outcome # "error"

\* hottest.go:30-47. The service that is picked is a real one, and none that is
\* not a node agent is worse off: neither its health nor any alert of it would
\* alone score more. (With --runbook=false the answer may score less than it was
\* ranked with, but by no more than a failed runbook counts.)
NoFireHidden ==
  pc = "done" /\ req.cmd = "auto" /\ Undisturbed =>
    LET most == answers[1].score + (IF req.withRunbook THEN 0 ELSE 10)
    IN /\ \E s \in store.services : s.id = answers[1].id /\ ~IsNoiseForPaging(s)
       /\ \A s \in store.services :
            ~IsNoiseForPaging(s) /\ s.id \notin Agents =>
              /\ s.health # "unknown" => most >= serviceHealthPoints(s)
              /\ \A a \in store.alerts : a.svc = s.id /\ AlertActive(a.status) =>
                   most >= alertPoints(a)

\* What `opsgraph validate` accepts of a pack that was ingested.
Validated(st) ==
  LET known == {s.id : s \in st.services}
      shown == {e.id : e \in st.evidence} \cup {""}
  IN /\ \A s, t \in st.services : s.names \cap t.names # {} => s.id = t.id
     /\ \A r \in st.changes \cup st.alerts : r.svc \in known /\ r.ev \in shown
     /\ \A d \in st.dependencies : d.id[1] \in known /\ d.id[2] \in known

\* validate.go:106-166. A pack that was validated answers about every service in
\* it: no name stands for two, a ranking finds each that it lists, and an answer
\* shows all the evidence and no invented neighbour.
ValidGraphAnswers ==
  /\ pc = "answered" /\ Quiet /\ Validated(store) =>
       /\ \A e \in res.evidence : e.kind # "missing"
       /\ res.up \cup res.down \subseteq store.services
       /\ \A i \in DOMAIN res.steps :
            LET c == res.steps[i].check
            IN c.name = "service_healthy" => res.steps[i].status # "error"
  /\ pc = "find" /\ Validated(store) =>
       LET found == GetServiceByNameOrAlias(store, Head(todo))
       IN Cardinality(found) <= 1 /\ (phase = "fleet" /\ Quiet => found # {})
=============================================================================
