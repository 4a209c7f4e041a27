-------------------------------- MODULE MCAsk --------------------------------
(* Three services with aliases, a dozen rows, and the stores that differ from *)
(* a base store in a few of them.                                             *)
EXTENDS Ask

mcServices == {1, 2, 3}
mcAgents == {3}
mcNames == {1, 2, 3, 11, 12}
mcLegacyIds == {<<"e4", 12>>}
mcEvidenceIds == {"e1", "e2", "e3", "e4"}

Row(id, names, health, sources) ==
  [id |-> id, names |-> {id} \cup names, owner |-> IF id = 1 THEN "team" ELSE "",
   health |-> health, note |-> id = 1, sources |-> sources]

Change(id, svc, at, type, ev) == [id |-> id, svc |-> svc, at |-> at, type |-> type, ev |-> ev]
Alert(id, svc, at, sev, name, status, ev) ==
  [id |-> id, svc |-> svc, at |-> at, sev |-> sev, name |-> name, status |-> status, ev |-> ev]
Ev(id, svc, at, kind, ref) == [id |-> id, svc |-> svc, at |-> at, kind |-> kind, ref |-> ref]
Check(name, arg, dur, alert) == [name |-> name, arg |-> arg, dur |-> dur, alert |-> alert]

\* Now is 12: the suspect window begins at 10, the hour at 8.
SomeChanges ==
  { Change(1, 1, 10, "deploy", "e1"), Change(2, 1, 11, "commit", "e2"),
    Change(3, 1, 5, "rollout", "e1"), Change(4, 1, 13, "deploy", ""),
    Change(5, 1, 0, "deploy", ""), Change(6, 2, 12, "config", "e2") }

SomeAlerts ==
  { Alert(1, 1, 11, "critical", "down", "firing", "e3"),
    Alert(2, 1, 12, "critical", "down", "pending", ""),
    Alert(3, 1, 8, "warning", "slow", "firing", "e3"),
    Alert(4, 1, 13, "info", "slow", "pending", ""), Alert(7, 1, 7, "info", "mute", "suppressed", ""),
    Alert(5, 1, 0, "info", "slow", "resolved", "e3"),
    Alert(6, 2, 9, "warning", "down", "firing", "e3") }

SomeEvidence ==
  { Ev("e1", 1, 10, "rollout", 1), Ev("e2", 1, 11, "k8s-event", 1),
    Ev("e3", 2, 12, "k8s-event", 2), Ev("e4", 1, 13, "rollout", 1) }

Steps(i) ==
  CASE i = 1 -> << Check("deploy_age_lt", 1, 2, ""), Check("deploy_age_gt", 1, 2, "") >>
    [] i = 2 -> << Check("service_healthy", 11, 0, ""), Check("service_unhealthy", 2, 0, "") >>
    [] i = 3 -> << Check("alert_firing", 1, 0, "down"), Check("manual", 1, 0, "") >>
    [] i = 4 -> << Check("k8s_deployment_exists", 1, 0, ""), Check("k8s_deployment_exists", 12, 0, "") >>
    [] i = 5 -> << Check("unknown", 1, 0, ""), Check("deploy_age_lt", 1, 0, "") >>
    [] OTHER -> << >>

Pairs(S) == {[id |-> d] : d \in S}
Graphs == { {}, Pairs({<<1, 2>>}), Pairs({<<2, 1>>, <<3, 2>>}), Pairs({<<1, 1>>, <<2, 1>>}),
            Pairs({<<1, 2>>, <<2, 1>>, <<3, 1>>}) }

Fleets ==
  { { Row(1, {11}, h1, {"kubernetes"}), Row(2, {12}, h2, {"kubernetes", "git"}) } : h1, h2 \in Healths }

Base(services, changes, alerts, graph, steps, evidence) ==
  [services |-> services, owners |-> {[id |-> "team"]}, changes |-> changes,
   dependencies |-> graph, alerts |-> alerts,
   runbooks |-> {[id |-> 1, steps |-> Steps(steps)]}, evidence |-> evidence]

AtMostTwo(S) == {T \in SUBSET S : Cardinality(T) <= 2}
Plain == { Row(1, {11}, "degraded", {"kubernetes"}), Row(2, {12}, "healthy", {"fixture"}) }

Ask1(since) == [cmd |-> "ask", names |-> <<1>>, since |-> since, withRunbook |-> TRUE]
Test(st, command, writes) == [store |-> st, req |-> command, writes |-> writes]

\* Windows, links and alerts.
Windows ==
  { Test(Base(Plain, c, a, {}, 3, SomeEvidence), Ask1(s), 0) :
      c \in AtMostTwo(SomeChanges), a \in AtMostTwo(SomeAlerts), s \in {1, 4, 8} }

\* Runbooks, neighbours and evidence.
Parts ==
  { Test(Base(f, c, {Alert(1, 1, 11, "critical", "down", "firing", "e3")}, g, k, e), Ask1(4), 0) :
      f \in {Plain, Plain \ {Row(2, {12}, "healthy", {"fixture"})}} \cup
            {{Row(1, {11}, "unhealthy", {"kubernetes"}), Row(2, {12, 11}, "unhealthy", {"fixture"})},
             {Row(1, {11}, "healthy", {"kubernetes"}), Row(2, {12}, "unhealthy", {"fixture"})}},
      c \in { {}, {Change(1, 1, 10, "deploy", "e1")}, {Change(4, 1, 13, "deploy", ""), Change(3, 1, 5, "rollout", "e1")} },
      g \in Graphs, k \in 0..5, e \in { {}, SomeEvidence } }

\* Rankings and comparisons.
Commands ==
  { [cmd |-> "top", names |-> <<>>, since |-> 4, withRunbook |-> TRUE] }
  \cup { [cmd |-> "auto", names |-> <<>>, since |-> 4, withRunbook |-> w] : w \in BOOLEAN }
  \cup { [cmd |-> "compare", names |-> n, since |-> 4, withRunbook |-> TRUE] :
      n \in { <<1, 2>>, <<1, 11>>, <<3, 12>> } }

\* The last of them rank a failed runbook above an alert.
Rankings ==
  { Test(Base(f \cup x, {Change(6, 2, 12, "config", "e2")}, a, {}, k, SomeEvidence), r, 0) :
      f \in Fleets, x \in { {}, {Row(3, {}, "unhealthy", {"kubernetes"})}, {Row(3, {}, "unknown", {"git"})},
                            {Row(3, {}, "unhealthy", {"dependency"})}, {Row(3, {2}, "healthy", {"git"})} },
      a \in { {}, {Alert(1, 1, 11, "critical", "down", "firing", "e3")} },
      k \in {0, 5}, r \in Commands }
  \cup { Test(Base(f, {}, {}, {}, 0, {}), r, 0) :
      f \in { {}, {Row(3, {}, "unknown", {"git"})}, {Row(3, {}, "healthy", {"kubernetes"})} }, r \in Commands }
  \cup { Test(Base(f, {Change(1, 1, 10, "deploy", "e1")},
                   {Alert(6, 2, 9, "critical", "down", "firing", "e3")}, {}, k, SomeEvidence), r, 0) :
      f \in Fleets, k \in {0, 5}, r \in Commands }

\* Another process writes.
Interrupted ==
  { Test(Base(Plain, c, a, g, k, SomeEvidence), r, 2) :
      c \in { {Change(1, 1, 10, "deploy", "e1"), Change(2, 1, 11, "commit", "e2")}, {Change(3, 1, 9, "rollout", "e1")} },
      a \in { {}, {Alert(1, 1, 11, "critical", "down", "firing", "e3")} },
      g \in { Pairs({<<1, 2>>, <<2, 1>>, <<3, 1>>}) }, k \in 1..4, 
      r \in {Ask1(4), [Ask1(4) EXCEPT !.withRunbook = FALSE]} }
  \cup { Test(Base(Plain, {Change(1, 1, 10, "deploy", "e1")}, {}, {}, 0, SomeEvidence), r, 1) :
      r \in Commands }

mcTests == Windows \cup Parts \cup Rankings \cup Interrupted

Put(table, row) == [table |-> table, delete |-> FALSE, row |-> row]
Gone(table, id) == [table |-> table, delete |-> TRUE, row |-> [id |-> id]]

mcWrites ==
  { Put("services", Row(1, {11}, "healthy", {"kubernetes"})), Gone("services", 2),
    Put("services", Row(3, {11}, "unknown", {"dependency"})),
    Gone("changes", 1), Put("changes", Change(2, 1, 12, "rollout", "e1")),
    Put("alerts", Alert(1, 1, 11, "critical", "down", "resolved", "e3")),
    Gone("dependencies", <<2, 1>>), Gone("owners", "team"), Gone("runbooks", 1),
    Gone("evidence", "e1"), Put("evidence", Ev("e3", 1, 12, "k8s-event", 2)) }
=============================================================================
