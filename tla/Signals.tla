------------------------------- MODULE Signals -------------------------------
(***************************************************************************)
(* What an answer says of the rows it was given: which change is suspect,  *)
(* which change is linked to which alert, what to do next, how bad it is.  *)
(* Every command that ranks, scores, fingerprints or prints an answer      *)
(* calls these, so that they agree with one another.                       *)
(*                                                                         *)
(* A list the store returns in a fixed order is the set of its rows here,  *)
(* with the order as an operator. Time goes in ticks; 0 is the zero time.  *)
(***************************************************************************)
EXTENDS Integers, Sequences, FiniteSets, FiniteSetsExt

CONSTANTS
  Now,                  \* the clock of the answer, GeneratedAt
  SuspectChangeWindow,  \* 30 minutes
  correlateWindow       \* 60 minutes

ASSUME SignalsAssumption ==
  /\ Now \in Nat \ {0}
  /\ SuspectChangeWindow \in Nat /\ correlateWindow \in Nat
  /\ SuspectChangeWindow < correlateWindow /\ correlateWindow < Now

Healths == {"healthy", "degraded", "unhealthy", "unknown"}
Bad(service) == service.health \in {"degraded", "unhealthy"}

AlertActive(status) == status \in {"firing", "pending"}
AlertLive(status) == AlertActive(status) \/ status = "suppressed"

\* The row has no time, or one that is yet to come.
Skewed(row) == row.at = 0 \/ row.at > Now

IsDependencyStub(service) == service.sources = {"dependency"}
IsGitOnlyUnknown(service) == service.health = "unknown" /\ service.sources = {"git"}
IsNoiseForPaging(service) == IsDependencyStub(service) \/ IsGitOnlyUnknown(service)
-----------------------------------------------------------------------------
(* The orders of the store's lists.                                        *)

Newest(S) ==
  CHOOSE c \in S : \A d \in S : c.at > d.at \/ (c.at = d.at /\ c.id <= d.id)

alertStatusRank(a) ==
  IF a.status = "firing" THEN 0
  ELSE IF a.status = "pending" THEN 1
  ELSE IF a.status = "suppressed" THEN 2 ELSE 3

\* Mutant: live alerts are listed newest first, whatever their status.
alertSortByTime(a, b) ==
  \/ AlertLive(a.status) /\ ~AlertLive(b.status)
  \/ /\ AlertLive(a.status) = AlertLive(b.status)
     /\ a.at > b.at \/ (a.at = b.at /\ a.id < b.id)

\* A live status is never ranked behind another one.
alertSortLess(a, b) ==
  \/ alertStatusRank(a) < alertStatusRank(b)
  \/ /\ alertStatusRank(a) = alertStatusRank(b)
     /\ a.at > b.at \/ (a.at = b.at /\ a.id < b.id)

ActiveAlerts(res) == {a \in res.alerts : AlertActive(a.status)}
-----------------------------------------------------------------------------
(* Suspects and links.                                                     *)

RecentChanges(res) ==
  {c \in res.changes : ~Skewed(c) /\ Now - c.at <= SuspectChangeWindow}

\* The newest recent change, in a set that is empty when there is none.
recentChange(res) ==
  IF RecentChanges(res) = {} THEN {} ELSE {Newest(RecentChanges(res))}

changeRank(c) ==
  IF c.type \in {"deploy", "rollout"} THEN 0 ELSE IF c.type = "commit" THEN 1 ELSE 2

AlertAt(a) == IF Skewed(a) THEN Now ELSE a.at

\* Mutant: the newest change wins, whatever it is.
precedingNewest(changes, at) ==
  LET near == {c \in changes : c.at # 0 /\ c.at <= at /\ at - c.at <= correlateWindow}
  IN IF near = {} THEN {} ELSE {Newest(near)}

\* The best candidate: a deploy or rollout before a commit, then the newest.
precedingChange(changes, at) ==
  LET near == {c \in changes : c.at # 0 /\ c.at <= at /\ at - c.at <= correlateWindow}
      best == {c \in near : \A d \in near : changeRank(c) <= changeRank(d)}
  IN IF near = {} THEN {} ELSE {Newest(best)}

\* Pairs of a change and the alert it preceded.
correlate(res) ==
  UNION {{<<c, a>> : c \in precedingChange(res.changes, AlertAt(a))} : a \in ActiveAlerts(res)}
-----------------------------------------------------------------------------
(* Recommendations, in order, each by the name the source gives its rule.  *)

Advice(rule, holds) == IF holds THEN <<rule>> ELSE <<>>

\* Without the tip on transitive impact, which the caller puts before the last.
recommend(res) ==
  LET svc == res.service
  IN   Advice("R1", recentChange(res) # {})
    \o Advice("correlate", correlate(res) # {})
    \o Advice("R1b", Bad(svc) \/ (svc.health = "unknown" /\ svc.note))
    \o Advice("R2", \E u \in res.up : Bad(u))
    \o Advice("R3", ActiveAlerts(res) # {})
    \o Advice("R4", res.runbook \in {"stale", "fail"})
    \o <<IF res.owner # "" THEN "R5" ELSE "R5 assign", "R6">>
-----------------------------------------------------------------------------
(* The timeline: k8s events that a change or an alert on it already cites  *)
(* are not repeated.                                                       *)

\* The source's kind of an "upstream" event is "health" too.
Event(at, kind, of, ev) == [at |-> at, kind |-> kind, of |-> of, ev |-> ev]

alertEvents(res) ==
  {Event(AlertAt(a), "alert", a.id, a.ev) :
     a \in {b \in res.alerts : AlertLive(b.status) \/ ~Skewed(b)}}

changeEvents(res) ==
  {Event(c.at, "change", c.id, c.ev) : c \in {d \in res.changes : ~Skewed(d)}}

buildTimeline(res) ==
  LET rows == changeEvents(res) \cup alertEvents(res)
      cited == {e.ev : e \in rows}
  IN rows
     \cup {Event(e.at, "k8s-event", 0, e.id) :
             e \in {f \in res.evidence : f.kind = "k8s-event" /\ f.id \notin cited /\ ~Skewed(f)}}
     \cup {Event(Now, "health", res.service.id, "")}
     \cup {Event(Now, "upstream", u.id, "") : u \in {v \in res.up : Bad(v)}}
     \cup (IF res.runbook = "none" THEN {} ELSE {Event(Now, "runbook", res.service.id, "")})
-----------------------------------------------------------------------------
(* The severity score and the fingerprint.                                 *)

AtMost(n, most) == IF n > most THEN most ELSE n

alertPoints(a) ==
  LET pts == IF a.sev = "critical" THEN 25 ELSE IF a.sev = "warning" THEN 18 ELSE 15
  IN IF a.status = "pending" THEN (pts * 2) \div 3 ELSE pts

\* One alert for each name and severity: the first in the list.
scoredAlerts(res) ==
  {a \in ActiveAlerts(res) :
     \A b \in ActiveAlerts(res) :
       b.name = a.name /\ b.sev = a.sev /\ b # a => alertSortLess(a, b)}

serviceHealthPoints(service) ==
  IF service.health = "unhealthy" THEN 40
  ELSE IF service.health = "degraded" THEN 25
  ELSE IF service.health = "unknown" THEN 10 ELSE 0

downstreamPoints(res) ==
  LET bad == Cardinality({d \in res.down : Bad(d)})
      n == Cardinality(res.down)
  IN IF bad > 0 THEN AtMost(bad * 5, 15) ELSE IF n >= 3 THEN AtMost(n, 10) ELSE 0

firingPoints(res) == AtMost(MapThenSumSet(alertPoints, scoredAlerts(res)), 35)

\* Mutant: the sum has no cap.
ComputeUncapped(res) ==
    serviceHealthPoints(res.service) + firingPoints(res)
  + (IF recentChange(res) # {} THEN 15 ELSE 0) + (IF correlate(res) # {} THEN 10 ELSE 0)
  + AtMost(10 * Cardinality({u \in res.up : Bad(u)}), 20) + downstreamPoints(res)

Compute(res) ==
  AtMost(  serviceHealthPoints(res.service)
         + firingPoints(res)
         + (IF recentChange(res) # {} THEN 15 ELSE 0)
         + (IF correlate(res) # {} THEN 10 ELSE 0)
         + AtMost(10 * Cardinality({u \in res.up : Bad(u)}), 20)
         + downstreamPoints(res)
         + (IF res.runbook = "fail" THEN 10 ELSE IF res.runbook = "stale" THEN 5 ELSE 0),
         100)

\* The parts that are hashed. An alert with n rows gives its part n times.
Of(res) ==
  {<<"service", res.service.id>>, <<"health", res.service.health>>, <<"runbook", res.runbook>>}
  \cup {<<"alert", a.name, a.sev,
           Cardinality({b \in ActiveAlerts(res) : b.name = a.name /\ b.sev = a.sev})>> :
             a \in ActiveAlerts(res)}
  \cup {<<"change", c.type, c.id>> : c \in recentChange(res)}
  \cup {<<"up", u.id, u.health>> : u \in {v \in res.up : Bad(v)}}
  \cup {<<"down", d.id, d.health>> : d \in {v \in res.down : Bad(v)}}
-----------------------------------------------------------------------------
(* The ranking of a fleet, over rows [id, agent, score].                   *)

\* Mutant: what the cluster says of the service counts for nothing.
hottestSignalNow(service, res) == recentChange(res) # {} \/ ActiveAlerts(res) # {}

\* Degraded, unhealthy or healthy, or with a recent change or an active alert.
hottestHasSignal(service, res) ==
  service.health # "unknown" \/ recentChange(res) # {} \/ ActiveAlerts(res) # {}

Hotter(r, q) == r.score > q.score \/ (r.score = q.score /\ r.id < q.id)

\* Node agents count only when there is nothing else.
hottest(rows) ==
  LET apps == {r \in rows : ~r.agent}
      ranked == IF apps # {} THEN apps ELSE rows
  IN CHOOSE r \in ranked : \A q \in ranked : q = r \/ Hotter(r, q)
=============================================================================
