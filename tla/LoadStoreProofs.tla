-------------------------- MODULE LoadStoreProofs --------------------------
(***************************************************************************)
(* The properties of LoadStore that hold however many steps fail and       *)
(* however often other processes change state.db.                          *)
(***************************************************************************)
EXTENDS LoadStore, TLAPS

\* A quiet scrape that waits for the store to be tried.
Kept == IF why = "quiet" THEN {"temp"} ELSE {}

\* A pack that was unpacked.
Unpacked == IF use = "fixture" THEN {"extra"} ELSE {}

\* What is open at each step.
OpenInv ==
  /\ pc \in {"materialize", "released"} => open = {}
  /\ pc = "openTemp" => open = Unpacked
  /\ pc = "ingest" => open = {"temp"} \cup Unpacked
  /\ pc \in {"countLive", "judge"} => open = {"temp"}
  /\ pc \in {"stat", "peek", "openStore"} => open = Kept
  /\ pc = "peekCount" => open = Kept \cup {"peek"}
  /\ pc = "asOf" => open = Kept \cup {"persisted"}
  /\ pc = "countStore" => open = {"persisted"}
  /\ pc = "answered" => open = Owned(answer)

\* The branches: which steps belong to which use of the temporary store, and which
\* flags exclude a scrape.
BranchInv ==
  /\ use = "fixture" <=> call.flag = "fixture"
  /\ pc \in {"countLive", "judge", "stat", "peek", "peekCount", "openStore", "asOf",
             "countStore"} => use # "fixture"
  /\ pc = "materialize" => use = "fixture"
  /\ pc \in {"materialize", "openTemp", "ingest", "countLive"} => why = "none"
  /\ pc \in {"openTemp", "ingest", "countLive", "judge", "stat", "peek", "peekCount"} =>
       call.flag # "dataDir"
  /\ pc = "judge" => why = "none" /\ use = "connectors"
  /\ call.flag = "dataDir" => why = "none"
  /\ pc = "countStore" => call.flag = "dataDir"
  /\ Answered /\ answer = "live" => use # "fixture"

\* What is known of the scrape where it has been looked at.
ScrapeInv ==
  /\ pc = "judge" \/ why \in {"noSignal", "quiet"} => live.services
  /\ pc \in {"answered", "released"} /\ answer = "live" => live.services

\* What is known of state.db while no other process changes it.
DiskInv ==
  others = 0 =>
    /\ pc \in {"openStore", "asOf"} /\ call.flag # "dataDir" => disk = "populated"
    /\ Answered /\ answer = "persisted" => disk = "populated"

\* While nothing fails either, a populated store is never passed over.
ChoiceInv ==
  others = 0 /\ faults = 0 /\ disk = "populated" /\ call.flag # "fixture" =>
    /\ use = "connectors"
    /\ Answered => answer \in {"live", "persisted"}
    /\ Answered /\ answer = "live" => live.rows \/ (live.meta /\ live.git)

IInv ==
  /\ TypeOK
  /\ OpenInv
  /\ BranchInv
  /\ ScrapeInv
  /\ DiskInv
  /\ ChoiceInv
-----------------------------------------------------------------------------
LEMMA InitInv == Init => IInv
  BY LoadAssumption DEF Init, IInv, TypeOK, OpenInv, Unpacked, Kept, BranchInv, ScrapeInv,
     DiskInv, ChoiceInv, Answered, Calls, Scrapes, Nothing, Disks, Handles, Errors,
     Sources, Uses, Reasons, Steps

\* TypeOK in two parts.
ValueOK ==
  /\ call \in Calls /\ disk \in Disks /\ pc \in Steps /\ use \in Uses
  /\ live \in Scrapes /\ why \in Reasons /\ answer \in Sources \cup Errors
  /\ open \subseteq Handles

CountOK == faults \in 0..MaxFaults /\ others \in 0..MaxOthers

LEMMA ValueStep == IInv /\ [Next]_vars => ValueOK'
  <1> SUFFICES ASSUME IInv, [Next]_vars PROVE ValueOK'
    OBVIOUS
  <1> USE DEF IInv, TypeOK, ValueOK,
        Disks, Handles, Errors, Sources, Uses, Reasons, Steps,
        Works, Fails, Goto, Answer, Acquire, Release, Fixed
  <1>1. CASE Materialize
    BY <1>1 DEF Materialize
  <1>2. CASE OpenTemp
    BY <1>2 DEF OpenTemp, Unscraped
  <1>3. CASE Ingest
    BY <1>3 DEF Ingest, Unscraped
  <1>4. CASE CountLive
    BY <1>4 DEF CountLive
  <1>5. CASE Judge
    BY <1>5 DEF Judge
  <1>6. CASE Stat
    BY <1>6 DEF Stat, Unpeeked, NoStore
  <1>7. CASE Peek
    BY <1>7 DEF Peek, Unpeeked, NoStore, Created
  <1>8. CASE PeekCount
    BY <1>8 DEF PeekCount, Unpeeked, NoStore
  <1>9. CASE OpenStore
    BY <1>9 DEF OpenStore, NoStore, Created
  <1>10. CASE AsOf
    BY <1>10 DEF AsOf, NoStore
  <1>11. CASE CountStore
    BY <1>11 DEF CountStore
  <1>12. CASE Cleanup
    BY <1>12 DEF Cleanup
  <1>13. CASE OtherIngest
    BY <1>13 DEF OtherIngest
  <1>14. CASE UNCHANGED vars
    BY <1>14 DEF vars
  <1>15. QED
    BY <1>1, <1>2, <1>3, <1>4, <1>5, <1>6, <1>7, <1>8, <1>9, <1>10, <1>11, <1>12,
       <1>13, <1>14 DEF Next, loadAskStore

LEMMA CountStep == IInv /\ [Next]_vars => CountOK'
  <1> SUFFICES ASSUME IInv, [Next]_vars PROVE CountOK'
    OBVIOUS
  <1> USE LoadAssumption DEF IInv, TypeOK, CountOK,
        Works, Fails, Goto, Answer, Acquire, Release, Fixed
  <1>1. CASE Materialize
    BY <1>1 DEF Materialize
  <1>2. CASE OpenTemp
    BY <1>2 DEF OpenTemp, Unscraped
  <1>3. CASE Ingest
    BY <1>3 DEF Ingest, Unscraped
  <1>4. CASE CountLive
    BY <1>4 DEF CountLive
  <1>5. CASE Judge
    BY <1>5 DEF Judge
  <1>6. CASE Stat
    BY <1>6 DEF Stat, Unpeeked, NoStore
  <1>7. CASE Peek
    BY <1>7 DEF Peek, Unpeeked, NoStore, Created
  <1>8. CASE PeekCount
    BY <1>8 DEF PeekCount, Unpeeked, NoStore
  <1>9. CASE OpenStore
    BY <1>9 DEF OpenStore, NoStore, Created
  <1>10. CASE AsOf
    BY <1>10 DEF AsOf, NoStore
  <1>11. CASE CountStore
    BY <1>11 DEF CountStore
  <1>12. CASE Cleanup
    BY <1>12 DEF Cleanup
  <1>13. CASE OtherIngest
    BY <1>13 DEF OtherIngest
  <1>14. CASE UNCHANGED vars
    BY <1>14 DEF vars
  <1>15. QED
    BY <1>1, <1>2, <1>3, <1>4, <1>5, <1>6, <1>7, <1>8, <1>9, <1>10, <1>11, <1>12,
       <1>13, <1>14 DEF Next, loadAskStore

LEMMA BranchStep == BranchInv /\ [Next]_vars => BranchInv'
  <1> SUFFICES ASSUME BranchInv, [Next]_vars PROVE BranchInv'
    OBVIOUS
  <1> USE DEF BranchInv, Answered, Works, Fails, Goto, Answer, Acquire, Release, Fixed
  <1>1. CASE Materialize
    BY <1>1 DEF Materialize
  <1>2. CASE OpenTemp
    BY <1>2 DEF OpenTemp, Unscraped
  <1>3. CASE Ingest
    BY <1>3 DEF Ingest, Unscraped
  <1>4. CASE CountLive
    BY <1>4 DEF CountLive
  <1>5. CASE Judge
    BY <1>5 DEF Judge
  <1>6. CASE Stat
    BY <1>6 DEF Stat, Unpeeked, NoStore
  <1>7. CASE Peek
    BY <1>7 DEF Peek, Unpeeked, NoStore, Created
  <1>8. CASE PeekCount
    BY <1>8 DEF PeekCount, Unpeeked, NoStore
  <1>9. CASE OpenStore
    BY <1>9 DEF OpenStore, NoStore, Created
  <1>10. CASE AsOf
    BY <1>10 DEF AsOf, NoStore
  <1>11. CASE CountStore
    BY <1>11 DEF CountStore
  <1>12. CASE Cleanup
    BY <1>12 DEF Cleanup
  <1>13. CASE OtherIngest
    BY <1>13 DEF OtherIngest
  <1>14. CASE UNCHANGED vars
    BY <1>14 DEF vars
  <1>15. QED
    BY <1>1, <1>2, <1>3, <1>4, <1>5, <1>6, <1>7, <1>8, <1>9, <1>10, <1>11, <1>12,
       <1>13, <1>14 DEF Next, loadAskStore

LEMMA OpenStep == IInv /\ [Next]_vars => OpenInv'
  <1> SUFFICES ASSUME IInv, [Next]_vars PROVE OpenInv'
    OBVIOUS
  <1> USE DEF IInv, TypeOK, OpenInv, BranchInv, Unpacked, Kept, Owned, Uses, Reasons,
        Works, Fails, Goto, Answer, Acquire, Release, Fixed
  <1>1. CASE Materialize
    BY <1>1 DEF Materialize
  <1>2. CASE OpenTemp
    BY <1>2 DEF OpenTemp, Unscraped
  <1>3. CASE Ingest
    BY <1>3 DEF Ingest, Unscraped
  <1>4. CASE CountLive
    BY <1>4 DEF CountLive
  <1>5. CASE Judge
    BY <1>5 DEF Judge
  <1>6. CASE Stat
    BY <1>6 DEF Stat, Unpeeked, NoStore
  <1>7. CASE Peek
    BY <1>7 DEF Peek, Unpeeked, NoStore, Created
  <1>8. CASE PeekCount
    BY <1>8 DEF PeekCount, Unpeeked, NoStore
  <1>9. CASE OpenStore
    BY <1>9 DEF OpenStore, NoStore, Created
  <1>10. CASE AsOf
    BY <1>10 DEF AsOf, NoStore
  <1>11. CASE CountStore
    BY <1>11 DEF CountStore
  <1>12. CASE Cleanup
    BY <1>12 DEF Cleanup
  <1>13. CASE OtherIngest
    BY <1>13 DEF OtherIngest
  <1>14. CASE UNCHANGED vars
    BY <1>14 DEF vars
  <1>15. QED
    BY <1>1, <1>2, <1>3, <1>4, <1>5, <1>6, <1>7, <1>8, <1>9, <1>10, <1>11, <1>12,
       <1>13, <1>14 DEF Next, loadAskStore

LEMMA ScrapeStep == IInv /\ [Next]_vars => ScrapeInv'
  <1> SUFFICES ASSUME IInv, [Next]_vars PROVE ScrapeInv'
    OBVIOUS
  <1> USE DEF IInv, BranchInv, ScrapeInv, Answered, Works, Fails, Goto, Answer, Acquire,
      Release, Fixed
  <1>1. CASE Materialize
    BY <1>1 DEF Materialize
  <1>2. CASE OpenTemp
    BY <1>2 DEF OpenTemp, Unscraped
  <1>3. CASE Ingest
    BY <1>3 DEF Ingest, Unscraped
  <1>4. CASE CountLive
    BY <1>4 DEF CountLive
  <1>5. CASE Judge
    BY <1>5 DEF Judge
  <1>6. CASE Stat
    BY <1>6 DEF Stat, Unpeeked, NoStore
  <1>7. CASE Peek
    BY <1>7 DEF Peek, Unpeeked, NoStore, Created
  <1>8. CASE PeekCount
    BY <1>8 DEF PeekCount, Unpeeked, NoStore
  <1>9. CASE OpenStore
    BY <1>9 DEF OpenStore, NoStore, Created
  <1>10. CASE AsOf
    BY <1>10 DEF AsOf, NoStore
  <1>11. CASE CountStore
    BY <1>11 DEF CountStore
  <1>12. CASE Cleanup
    BY <1>12 DEF Cleanup
  <1>13. CASE OtherIngest
    BY <1>13 DEF OtherIngest
  <1>14. CASE UNCHANGED vars
    BY <1>14 DEF vars
  <1>15. QED
    BY <1>1, <1>2, <1>3, <1>4, <1>5, <1>6, <1>7, <1>8, <1>9, <1>10, <1>11, <1>12,
       <1>13, <1>14 DEF Next, loadAskStore

LEMMA DiskStep == IInv /\ [Next]_vars => DiskInv'
  <1> SUFFICES ASSUME IInv, [Next]_vars PROVE DiskInv'
    OBVIOUS
  <1> USE LoadAssumption DEF IInv, TypeOK, BranchInv, DiskInv, Answered, Works, Fails, Goto,
      Answer, Acquire, Release, Fixed
  <1>1. CASE Materialize
    BY <1>1 DEF Materialize
  <1>2. CASE OpenTemp
    BY <1>2 DEF OpenTemp, Unscraped
  <1>3. CASE Ingest
    BY <1>3 DEF Ingest, Unscraped
  <1>4. CASE CountLive
    BY <1>4 DEF CountLive
  <1>5. CASE Judge
    BY <1>5 DEF Judge
  <1>6. CASE Stat
    BY <1>6 DEF Stat, Unpeeked, NoStore
  <1>7. CASE Peek
    BY <1>7 DEF Peek, Unpeeked, NoStore, Created
  <1>8. CASE PeekCount
    BY <1>8 DEF PeekCount, Unpeeked, NoStore
  <1>9. CASE OpenStore
    BY <1>9 DEF OpenStore, NoStore, Created
  <1>10. CASE AsOf
    BY <1>10 DEF AsOf, NoStore
  <1>11. CASE CountStore
    BY <1>11 DEF CountStore
  <1>12. CASE Cleanup
    BY <1>12 DEF Cleanup
  <1>13. CASE OtherIngest
    BY <1>13 DEF OtherIngest
  <1>14. CASE UNCHANGED vars
    BY <1>14 DEF vars
  <1>15. QED
    BY <1>1, <1>2, <1>3, <1>4, <1>5, <1>6, <1>7, <1>8, <1>9, <1>10, <1>11, <1>12,
       <1>13, <1>14 DEF Next, loadAskStore

LEMMA ChoiceStep == IInv /\ [Next]_vars => ChoiceInv'
  <1> SUFFICES ASSUME IInv, [Next]_vars PROVE ChoiceInv'
    OBVIOUS
  <1> USE LoadAssumption
      DEF IInv, TypeOK, BranchInv, DiskInv, ChoiceInv, Answered, Sources, Errors,
        Calls, Works, Fails, Goto, Answer, Acquire, Release, Fixed
  <1>1. CASE Materialize
    BY <1>1 DEF Materialize
  <1>2. CASE OpenTemp
    BY <1>2 DEF OpenTemp, Unscraped
  <1>3. CASE Ingest
    BY <1>3 DEF Ingest, Unscraped
  <1>4. CASE CountLive
    BY <1>4 DEF CountLive
  <1>5. CASE Judge
    BY <1>5 DEF Judge, liveHasIncidentSignal, liveIsQuietConnectorOnly
  <1>6. CASE Stat
    BY <1>6 DEF Stat, Unpeeked, NoStore
  <1>7. CASE Peek
    BY <1>7 DEF Peek, Unpeeked, NoStore, Created
  <1>8. CASE PeekCount
    BY <1>8 DEF PeekCount, Unpeeked, NoStore
  <1>9. CASE OpenStore
    BY <1>9 DEF OpenStore, NoStore, Created
  <1>10. CASE AsOf
    BY <1>10 DEF AsOf, NoStore
  <1>11. CASE CountStore
    BY <1>11 DEF CountStore
  <1>12. CASE Cleanup
    BY <1>12 DEF Cleanup
  <1>13. CASE OtherIngest
    BY <1>13 DEF OtherIngest
  <1>14. CASE UNCHANGED vars
    BY <1>14 DEF vars
  <1>15. QED
    BY <1>1, <1>2, <1>3, <1>4, <1>5, <1>6, <1>7, <1>8, <1>9, <1>10, <1>11, <1>12,
       <1>13, <1>14 DEF Next, loadAskStore

LEMMA StepInv == IInv /\ [Next]_vars => IInv'
<1>1. IInv /\ [Next]_vars => TypeOK'
  BY ValueStep, CountStep DEF TypeOK, ValueOK, CountOK
<1>2. QED
  BY <1>1, BranchStep, OpenStep, ScrapeStep, DiskStep, ChoiceStep DEF IInv

THEOREM Invariance == Spec => []IInv
<1>1. QED
  BY InitInv, StepInv, PTL DEF Spec
-----------------------------------------------------------------------------
(* What the inductive invariant gives.                                      *)

\* The variables keep their types.
THEOREM TypeCorrect == Spec => []TypeOK
<1>1. IInv => TypeOK
  BY DEF IInv
<1>2. QED
  BY <1>1, Invariance, PTL

\* However many steps fail and whatever other processes do to state.db, an answer
\* is the only thing open, an error leaves nothing open, and cleanup releases all.
THEOREM NoLeak == Spec => []OnlyTheAnswerIsOpen
<1>1. IInv => OnlyTheAnswerIsOpen
  BY DEF IInv, OpenInv, OnlyTheAnswerIsOpen
<1>2. QED
  BY <1>1, Invariance, PTL

\* A scrape takes the place of a populated store only with rows of an incident
\* source, or with commits next to a connector that answered.
THEOREM LiveIsEarned == Spec => []LiveEarnsItsPlace
<1>1. IInv => LiveEarnsItsPlace
  BY DEF IInv, ChoiceInv, BranchInv, LiveEarnsItsPlace, Answered
<1>2. QED
  BY <1>1, Invariance, PTL

\* While no other process changes state.db, a returned store has services, and a
\* populated store that can be read always leads to an answer.
THEOREM AnswersHaveServices == Spec => []AnswerHasServices
<1>1. IInv => AnswerHasServices
  BY DEF IInv, ScrapeInv, DiskInv, ChoiceInv, AnswerHasServices, Answered, Sources
<1>2. QED
  BY <1>1, Invariance, PTL
=============================================================================
