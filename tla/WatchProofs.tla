---------------------------- MODULE WatchProofs ----------------------------
(***************************************************************************)
(* The watch keeps its deadline, waits between its looks, and does not     *)
(* miss a lasting recovery: for every interval, timeout and limit of loads *)
(* and timers, and any number of failing loads, changes and ingests.       *)
(* Terminates is a property under fairness and is left to TLC.             *)
(***************************************************************************)
EXTENDS Watch, TLAPS

\* Where the time stands at each statement: a load begins in time and ends
\* within its limit, a timer is due by the deadline and fires within its limit.
TimeInv ==
  /\ started <= now
  /\ pc = "check" => now <= Timeout + MaxLate
  /\ pc = "load" => started = now
  /\ pc \in {"load", "loading", "nap"} => started <= Timeout
  /\ pc \in {"loading", "nap"} => now <= started + MaxLoad
  /\ pc = "sleep" => now <= wake + MaxLate
  /\ pc = "done" => EndsInTime

\* The next look comes soon after the last one.
SoonInv ==
  /\ pc = "sleep" => wake <= started + MaxLoad + Interval
  /\ pc = "check" => now <= started + MaxLoad + Interval + MaxLate

\* What the last look did not find has happened since.
LookInv ==
  /\ pc \in {"check", "load", "nap", "sleep"} => seen # "healthy"
  /\ /\ errors = 0 /\ health = "healthy" /\ store = "full"
     /\ seen # "healthy" /\ pc # "load"
     => started <= since

EndInv ==
  /\ code # "none" => pc = "done"
  /\ RecoveryNotMissed

\* The n-th look is not before n - 1 intervals, unless it is the one at the
\* deadline.
LoadsInv ==
  /\ pc = "check" => \/ loads * Interval <= now /\ loads * Interval <= Timeout
                     \/ now >= Timeout /\ (loads - 1) * Interval < Timeout
  /\ pc \in {"load", "loading", "nap"} =>
       \/ (loads - 1) * Interval <= started
       \/ started >= Timeout /\ (loads - 2) * Interval < Timeout
  /\ pc = "sleep" => \/ loads * Interval <= wake
                     \/ wake = Timeout /\ (loads - 1) * Interval < Timeout
  /\ pc = "done" => (loads - 2) * Interval < Timeout
-----------------------------------------------------------------------------
USE WatchAssumption

\* A sleep is not longer than the interval nor than what is left of the time.
LEMMA SleepBounds ==
  ASSUME now \in Nat, now < Timeout
  PROVE  /\ Sleep \in Nat \ {0}
         /\ Sleep <= Interval /\ now + Sleep <= Timeout
         /\ Sleep = Interval \/ now + Sleep = Timeout
BY SMT DEF Sleep

LEMMA InitTyped == Init => TypeOK
<1> SUFFICES ASSUME Init PROVE TypeOK
  OBVIOUS
<1>1. /\ source \in {"live", "dataDir"} /\ store \in Stores /\ health \in Healths
      /\ pc \in {"check", "load", "loading", "nap", "sleep", "done"}
      /\ seen \in Healths \cup {"transient", "notFound", "emptyStore"} /\ code \in Codes
  BY DEF Init, Stores, Codes
<1>2. {now, wake, started, since, loads} \subseteq Nat /\ wake <= Timeout
  BY SMT DEF Init
<1>3. errors \in 0..MaxErrors /\ changes \in 0..MaxChanges
  BY SMT DEF Init
<1>4. cancelled \in BOOLEAN
  BY DEF Init
<1> QED  BY <1>1, <1>2, <1>3, <1>4 DEF TypeOK

\* Every step keeps the types.
LEMMA StepTyped == TypeOK /\ [Next]_vars => TypeOK'
<1> SUFFICES ASSUME TypeOK, [Next]_vars PROVE TypeOK'
  OBVIOUS
<1> USE DEF TypeOK, Stores, Healths, Codes, Exit
<1>1. CASE Check  BY <1>1, SMT DEF Check, Env
<1>2. CASE Load   BY <1>2, SMT DEF Load, Env
<1>3. CASE Judge  BY <1>3, SMT DEF Judge, Env
<1>4. CASE Nap
  <2>1. CASE now >= Timeout  BY <1>4, <2>1, SMT DEF Nap, Env
  <2>2. CASE now < Timeout
    <3>1. Sleep \in Nat /\ now + Sleep <= Timeout  BY <2>2, SleepBounds
    <3> QED  BY <1>4, <2>2, <3>1, SMT DEF Nap, Env
  <2> QED  BY <2>1, <2>2, SMT
<1>5. CASE Wake   BY <1>5, SMT DEF Wake, Env
<1>6. CASE Pass   BY <1>6, SMT DEF Pass, Env
<1>7. CASE Cancel BY <1>7, SMT DEF Cancel
<1>8. CASE HealthChanges  BY <1>8, SMT DEF HealthChanges, Elsewhere
<1>9. CASE IngestMoves  BY <1>9, SMT DEF IngestMoves, IngestSteps, Elsewhere
<1>10. CASE UNCHANGED vars  BY <1>10, SMT DEF vars
<1> QED  BY <1>1, <1>2, <1>3, <1>4, <1>5, <1>6, <1>7, <1>8, <1>9, <1>10 DEF Next, watch

\* The types are right in every reachable state.
THEOREM TypeCorrect == Spec => []TypeOK
<1>1. Init => TypeOK  BY InitTyped
<1>2. TypeOK /\ [Next]_vars => TypeOK'  BY StepTyped
<1> QED  BY <1>1, <1>2, PTL DEF Spec
-----------------------------------------------------------------------------
\* Every step keeps the times.
LEMMA StepTimed == TypeOK /\ TimeInv /\ [Next]_vars => TimeInv'
<1> SUFFICES ASSUME TypeOK, TimeInv, [Next]_vars PROVE TimeInv'
  OBVIOUS
<1> USE DEF TypeOK, TimeInv, Exit, EndsInTime, Larger
<1>1. CASE Check  BY <1>1, SMT DEF Check, Env
<1>2. CASE Load   BY <1>2, SMT DEF Load, Env
<1>3. CASE Judge  BY <1>3, SMT DEF Judge, Env
<1>4. CASE Nap
  <2>1. CASE now >= Timeout  BY <1>4, <2>1, SMT DEF Nap, Env
  <2>2. CASE now < Timeout
    <3>1. Sleep \in Nat /\ now + Sleep <= Timeout  BY <2>2, SleepBounds
    <3> QED  BY <1>4, <2>2, <3>1, SMT DEF Nap, Env
  <2> QED  BY <2>1, <2>2, SMT
<1>5. CASE Wake   BY <1>5, SMT DEF Wake, Env
<1>6. CASE Pass   BY <1>6, SMT DEF Pass, Env
<1>7. CASE Cancel BY <1>7, SMT DEF Cancel
<1>8. CASE HealthChanges  BY <1>8, SMT DEF HealthChanges, Elsewhere
<1>9. CASE IngestMoves  BY <1>9, SMT DEF IngestMoves, Elsewhere
<1>10. CASE UNCHANGED vars  BY <1>10, SMT DEF vars
<1> QED  BY <1>1, <1>2, <1>3, <1>4, <1>5, <1>6, <1>7, <1>8, <1>9, <1>10 DEF Next, watch

LEMMA InitTimed == Init => TimeInv
BY SMT DEF Init, TimeInv

\* Whatever the loads return, the command ends within a load or a late timer of
\* its timeout.
THEOREM DeadlineKept == Spec => []EndsInTime
<1>1. Init => TypeOK /\ TimeInv  BY InitTyped, InitTimed
<1>2. TypeOK /\ TimeInv /\ [Next]_vars => (TypeOK /\ TimeInv)'  BY StepTyped, StepTimed
<1>3. TypeOK /\ TimeInv => EndsInTime
  BY SMT DEF TypeOK, TimeInv, EndsInTime, Larger
<1> QED  BY <1>1, <1>2, <1>3, PTL DEF Spec
-----------------------------------------------------------------------------
\* Every step keeps what is known of the last look.
LEMMA StepLooked ==
  TypeOK /\ TimeInv /\ SoonInv /\ LookInv /\ EndInv /\ [Next]_vars
    => (SoonInv /\ LookInv /\ EndInv)'
<1> SUFFICES ASSUME TypeOK, TimeInv, SoonInv, LookInv, EndInv, [Next]_vars
             PROVE  (SoonInv /\ LookInv /\ EndInv)'
  OBVIOUS
<1> USE DEF TypeOK, TimeInv, SoonInv, LookInv, EndInv, RecoveryNotMissed, Exit
<1>1. CASE Check  BY <1>1, SMT DEF Check, Env
<1>2. CASE Load   BY <1>2, SMT DEF Load, Env
<1>3. CASE Judge  BY <1>3, SMT DEF Judge, Env
<1>4. CASE Nap
  <2>1. CASE now >= Timeout  BY <1>4, <2>1, SMT DEF Nap, Env
  <2>2. CASE now < Timeout
    <3>1. Sleep \in Nat /\ Sleep <= Interval  BY <2>2, SleepBounds
    <3> QED  BY <1>4, <2>2, <3>1, SMT DEF Nap, Env
  <2> QED  BY <2>1, <2>2, SMT
<1>5. CASE Wake   BY <1>5, SMT DEF Wake, Env
<1>6. CASE Pass   BY <1>6, SMT DEF Pass, Env
<1>7. CASE Cancel BY <1>7, SMT DEF Cancel
<1>8. CASE HealthChanges  BY <1>8, SMT DEF HealthChanges, Elsewhere
<1>9. CASE IngestMoves  BY <1>9, SMT DEF IngestMoves, Elsewhere
<1>10. CASE UNCHANGED vars  BY <1>10, SMT DEF vars
<1> QED  BY <1>1, <1>2, <1>3, <1>4, <1>5, <1>6, <1>7, <1>8, <1>9, <1>10 DEF Next, watch

LEMMA InitLooked == Init => SoonInv /\ LookInv /\ EndInv
BY SMT DEF Init, SoonInv, LookInv, EndInv, RecoveryNotMissed

\* A recovery that lasts for an interval, a load and a late timer is not
\* reported as a timeout.
THEOREM RecoverySeen == Spec => []RecoveryNotMissed
<1> DEFINE Inv == TypeOK /\ TimeInv /\ SoonInv /\ LookInv /\ EndInv
<1>1. Init => Inv  BY InitTyped, InitTimed, InitLooked
<1>2. Inv /\ [Next]_vars => Inv'  BY StepTyped, StepTimed, StepLooked
<1>3. Inv => RecoveryNotMissed  BY DEF EndInv
<1> QED  BY <1>1, <1>2, <1>3, PTL DEF Spec
-----------------------------------------------------------------------------
\* So many intervals fit, when all but one are over before the timeout.
LEMMA Fit ==
  ASSUME NEW n \in Int, (n - 2) * Interval < Timeout
  PROVE  n <= (Timeout + Interval - 1) \div Interval + 1
<1> DEFINE q == (Timeout + Interval - 1) \div Interval
<1>1. q \in Int /\ Timeout + Interval - 1 < (q + 1) * Interval
  BY SMT
<1> HIDE DEF q
<1>2. (n - 1) * Interval < (q + 1) * Interval + 1
  <2>1. (n - 1) * Interval = (n - 2) * Interval + Interval  BY SMT
  <2> QED  BY <1>1, <2>1, SMT
<1>3. n - 1 <= q
  BY <1>1, <1>2, SMT
<1> QED  BY <1>3, <1>1, SMT DEF q

\* Every step keeps the number of looks down.
LEMMA StepCounted == TypeOK /\ TimeInv /\ LoadsInv /\ [Next]_vars => LoadsInv'
<1> SUFFICES ASSUME TypeOK, TimeInv, LoadsInv, [Next]_vars PROVE LoadsInv'
  OBVIOUS
<1> USE DEF TypeOK, TimeInv, LoadsInv, Exit
<1>a. /\ loads * Interval = (loads - 1) * Interval + Interval
      /\ (loads - 1) * Interval = (loads - 2) * Interval + Interval
      /\ (loads - 1) * Interval \in Int /\ (loads - 2) * Interval \in Int
  BY SMT
<1>1. CASE Check
  <2>1. CASE loads' = loads + 1 /\ pc' = "load"
    <3>1. /\ (loads' - 1) * Interval = loads * Interval
          /\ (loads' - 2) * Interval = (loads - 1) * Interval
      BY <2>1, SMT
    <3>2. /\ started' = now
          /\ \/ loads * Interval <= now
             \/ now >= Timeout /\ (loads - 1) * Interval < Timeout
      BY <1>1, <2>1, SMT DEF Check
    <3> QED  BY <2>1, <3>1, <3>2, SMT
  <2>2. CASE loads' = loads /\ pc' = "done"
    <3>1. (loads - 2) * Interval < Timeout
      BY <1>1, <1>a, SMT DEF Check
    <3> QED  BY <2>2, <3>1, SMT
  <2> QED  BY <1>1, <2>1, <2>2, SMT DEF Check, Env
<1>2. CASE Load   BY <1>2, SMT DEF Load, Env
<1>3. CASE Judge  BY <1>3, <1>a, SMT DEF Judge, Env
<1>4. CASE Nap
  <2>1. CASE now >= Timeout  BY <1>4, <1>a, <2>1, SMT DEF Nap, Env
  <2>2. CASE now < Timeout
    <3>1. /\ Sleep \in Nat /\ now + Sleep <= Timeout
          /\ Sleep = Interval \/ now + Sleep = Timeout
      BY <2>2, SleepBounds
    <3> QED  BY <1>4, <1>a, <2>2, <3>1, SMT DEF Nap, Env
  <2> QED  BY <2>1, <2>2, SMT
<1>5. CASE Wake   BY <1>5, <1>a, SMT DEF Wake, Env
<1>6. CASE Pass   BY <1>6, SMT DEF Pass, Env
<1>7. CASE Cancel BY <1>7, SMT DEF Cancel
<1>8. CASE HealthChanges  BY <1>8, SMT DEF HealthChanges, Elsewhere
<1>9. CASE IngestMoves  BY <1>9, SMT DEF IngestMoves, Elsewhere
<1>10. CASE UNCHANGED vars  BY <1>10, SMT DEF vars
<1> QED  BY <1>1, <1>2, <1>3, <1>4, <1>5, <1>6, <1>7, <1>8, <1>9, <1>10 DEF Next, watch

\* However the interval divides the timeout, there is one look per interval and
\* one at the deadline.
THEOREM WaitsBetweenLooks == Spec => []NoBusySpin
<1> DEFINE Inv == TypeOK /\ TimeInv /\ LoadsInv
<1>1. Init => Inv
  <2>1. Init => LoadsInv  BY SMT DEF Init, LoadsInv
  <2> QED  BY InitTyped, InitTimed, <2>1
<1>2. Inv /\ [Next]_vars => Inv'  BY StepTyped, StepTimed, StepCounted
<1>3. Inv => NoBusySpin
  <2> SUFFICES ASSUME Inv PROVE NoBusySpin
    OBVIOUS
  <2>1. loads \in Nat /\ (loads - 2) * Interval < Timeout
    <3>1. /\ loads * Interval = (loads - 1) * Interval + Interval
          /\ (loads - 1) * Interval = (loads - 2) * Interval + Interval
          /\ (loads - 1) * Interval \in Int /\ (loads - 2) * Interval \in Int
      BY SMT DEF TypeOK
    <3> QED  BY <3>1, SMT DEF TypeOK, TimeInv, LoadsInv
  <2> QED  BY <2>1, Fit DEF NoBusySpin
<1> QED  BY <1>1, <1>2, <1>3, PTL DEF Spec
=============================================================================
