------------------------------- MODULE Watch -------------------------------
(***************************************************************************)
(* `opsgraph watch <service>` (cmd/opsgraph/watch.go): load a store, look  *)
(* at the service's health, sleep, until it is healthy, the deadline has   *)
(* passed, the user interrupts or a load cannot succeed. The source is a   *)
(* live scrape or, with --data-dir, a state.db that other processes ingest *)
(* into while the watch runs.                                              *)
(*                                                                         *)
(* Time is counted in seconds from the start of the command. A load takes  *)
(* at most MaxLoad (the time limits of the connectors) and a timer fires   *)
(* at most MaxLate after its time.                                         *)
(***************************************************************************)
EXTENDS Integers

CONSTANTS
  Interval, Timeout,    \* --interval, --timeout
  MaxLoad, MaxLate,
  MaxErrors,            \* bound: loads that fail and may be tried again
  MaxChanges            \* bound: changes of the service's health, ingests

ASSUME WatchAssumption ==
  /\ Interval \in Nat \ {0} /\ Timeout \in Nat \ {0}
  /\ {MaxLoad, MaxLate, MaxErrors, MaxChanges} \subseteq Nat

Healths == {"unknown", "degraded", "healthy"}

\* state.db as a reader finds it: every service there, just Reset, some services
\* written, or between the two renames of a swap.
Stores == {"full", "blank", "partial", "vacant"}

Codes == {"none", "healthy", "timeout", "cancelled", "fatal"}

VARIABLES
  source,     \* "live" or "dataDir"
  store,      \* state.db
  health,     \* the service's health, in the cluster or in a full state.db
  since,      \* history: when health, or the store it is in, last changed
  now,
  pc, wake,   \* the command, and when its timer is due
  started,    \* when the running load began
  seen,       \* what the load found
  code,       \* how the command ended
  cancelled,  \* the user pressed Ctrl-C
  loads, errors, changes

vars == <<source, store, health, since, now, pc, wake, started, seen, code,
          cancelled, loads, errors, changes>>

Env    == <<source, store, health, since, cancelled, changes>>
Exit(c) == pc' = "done" /\ code' = c
-----------------------------------------------------------------------------
Init ==
  /\ source \in {"live", "dataDir"}
  /\ store = "full" /\ health \in Healths /\ since = 0
  /\ now = 0 /\ pc = "check" /\ wake = 0 /\ started = 0
  /\ seen = "transient" /\ code = "none" /\ cancelled = FALSE
  /\ loads = 0 /\ errors = 0 /\ changes = 0

\* The head of the loop.
Check ==
  /\ pc = "check"
  /\ \/ cancelled /\ Exit("cancelled") /\ UNCHANGED <<started, loads>>
     \/ ~cancelled /\ now > Timeout /\ Exit("timeout") /\ UNCHANGED <<started, loads>>
     \/ /\ ~cancelled /\ now <= Timeout
        /\ pc' = "load" /\ UNCHANGED code
        /\ started' = now /\ loads' = loads + 1
  /\ UNCHANGED <<Env, now, wake, seen, errors>>

\* Mutant: the source is loaded once, before the loop.
LoadOnce ==
  /\ pc = "load" /\ pc' = "loading"
  /\ seen' = IF seen \in Healths THEN seen ELSE health
  /\ UNCHANGED <<Env, now, wake, started, code, loads, errors>>

\* watchTick reads the store or the cluster. A store without services is
\* ErrEmptyStore, one without this service ErrServiceNotFound; a missing
\* state.db is created empty by store.Open. A load that fails is tried again, unless
\* watchFatalLoad knows its error (no source, a config or a pack that cannot be
\* read, connectors that return no services) or the service is not found.
Load ==
  /\ pc = "load" /\ pc' = "loading"
  /\ \/ /\ seen' = IF source = "live" \/ store = "full" THEN health
                   ELSE IF store = "partial" THEN "notFound" ELSE "emptyStore"
        /\ UNCHANGED errors
     \/ /\ errors < MaxErrors /\ errors' = errors + 1
        /\ seen' \in {"transient", "notFound", "emptyStore"}
  /\ UNCHANGED <<Env, now, wake, started, code, loads>>

\* The tick is over: watchFatalLoad, or the health that was found.
Judge ==
  /\ pc = "loading"
  /\ \/ seen \in {"notFound", "emptyStore"} /\ Exit("fatal")
     \/ seen = "healthy" /\ Exit("healthy")
     \/ seen \in {"unknown", "degraded", "transient"} /\ pc' = "nap" /\ UNCHANGED code
  /\ UNCHANGED <<Env, now, wake, started, seen, loads, errors>>

\* Mutant: the whole interval, whatever is left of the time.
SleepInterval == Interval

\* The sleep ends with the deadline at the latest.
Sleep == IF Timeout - now < Interval THEN Timeout - now ELSE Interval

\* Mutant: after a load that may be tried again nothing is waited for.
NapSkipped ==
  /\ pc = "nap"
  /\ \/ now >= Timeout /\ Exit("timeout") /\ UNCHANGED wake
     \/ /\ now < Timeout /\ wake' = now + Sleep /\ UNCHANGED code
        /\ pc' = IF seen = "transient" THEN "check" ELSE "sleep"
  /\ UNCHANGED <<Env, now, started, seen, loads, errors>>

Nap ==
  /\ pc = "nap"
  /\ \/ now >= Timeout /\ Exit("timeout") /\ UNCHANGED wake
     \/ now < Timeout /\ pc' = "sleep" /\ wake' = now + Sleep /\ UNCHANGED code
  /\ UNCHANGED <<Env, now, started, seen, loads, errors>>

\* Mutant: the select waits for the user alone.
WakeNever ==
  /\ pc = "sleep" /\ cancelled /\ Exit("cancelled")
  /\ UNCHANGED <<Env, now, wake, started, seen, loads, errors>>

\* select { ctx.Done, time.After }
Wake ==
  /\ pc = "sleep"
  /\ \/ cancelled /\ Exit("cancelled")
     \/ now >= wake /\ pc' = "check" /\ UNCHANGED code
  /\ UNCHANGED <<Env, now, wake, started, seen, loads, errors>>

\* A second passes; the timer and the load keep their limits.
Pass ==
  /\ pc \in {"sleep", "loading"}
  /\ pc = "sleep" => now < wake + MaxLate
  /\ pc = "loading" => now < started + MaxLoad
  /\ now' = now + 1
  /\ UNCHANGED <<Env, pc, wake, started, seen, code, loads, errors>>
-----------------------------------------------------------------------------
(* Around the command.                                                      *)

Cancel ==
  /\ ~cancelled /\ cancelled' = TRUE
  /\ pc # "done"
  /\ UNCHANGED <<source, store, health, since, now, pc, wake, started, seen, code,
                 loads, errors, changes>>

Elsewhere == <<source, now, pc, wake, started, seen, code, cancelled, loads, errors>>

\* The cluster changes, or `opsgraph ingest` has put another row in state.db.
HealthChanges ==
  /\ pc # "done" /\ store = "full"
  /\ changes < MaxChanges /\ changes' = changes + 1
  /\ health' \in Healths \ {health} /\ since' = now
  /\ UNCHANGED <<store, Elsewhere>>

\* The next step of an ingest that will succeed: --fixture resets the store and
\* writes it anew, --replace renames it away and the new one into its place.
IngestSteps == [full |-> {"blank", "vacant"}, blank |-> {"partial"},
                partial |-> {"full"}, vacant |-> {"full"}]

IngestMoves ==
  /\ pc # "done" /\ source = "dataDir"
  /\ store = "full" => changes < MaxChanges
  /\ changes' = IF store = "full" THEN changes + 1 ELSE changes
  /\ store' \in IngestSteps[store]
  /\ IF store' = "full" THEN health' \in Healths ELSE UNCHANGED health
  /\ since' = now
  /\ UNCHANGED Elsewhere

watch == Check \/ Load \/ Judge \/ Nap \/ Wake

Next == watch \/ Pass \/ Cancel \/ HealthChanges \/ IngestMoves

\* The command runs and the clock goes on. Nothing makes the service recover.
Fairness == WF_vars(watch) /\ WF_vars(Pass)

Spec == Init /\ [][Next]_vars /\ Fairness
-----------------------------------------------------------------------------
(* Properties.                                                              *)

TypeOK ==
  /\ source \in {"live", "dataDir"} /\ store \in Stores /\ health \in Healths
  /\ pc \in {"check", "load", "loading", "nap", "sleep", "done"}
  /\ seen \in Healths \cup {"transient", "notFound", "emptyStore"}
  /\ {now, wake, started, since, loads} \subseteq Nat
  /\ wake <= Timeout /\ code \in Codes /\ cancelled \in BOOLEAN
  /\ errors \in 0..MaxErrors /\ changes \in 0..MaxChanges

Larger(a, b) == IF a > b THEN a ELSE b

\* "Do not busy-spin": whatever the loads return, and however the interval
\* divides the timeout, there is one load per interval and one at the deadline.
NoBusySpin == loads <= (Timeout + Interval - 1) \div Interval + 1

\* The command never outlives its timeout by more than one late timer or one load
\* that was begun in time.
EndsInTime == now <= Timeout + Larger(MaxLoad, MaxLate)

\* A service that became healthy an interval, a load and a late timer before the
\* deadline and stayed healthy, in a store that stayed whole, is not reported as a
\* timeout unless a load failed. (Nothing tighter holds: after a sleep that ends
\* past the deadline, and a timer never fires early, there is no last load.)
RecoveryNotMissed ==
  code = "timeout" /\ errors = 0 /\ health = "healthy" /\ store = "full" =>
    since + Interval + MaxLoad + MaxLate > Timeout

\* Every watch ends, whether or not the service recovers.
Terminates == <>(pc = "done")

=============================================================================
