-------------------------- MODULE StoreSwapProofs --------------------------
(***************************************************************************)
(* The properties of StoreSwap that hold for every set of snapshots, any   *)
(* number of failed system calls and of crashes, with and without other    *)
(* processes opening the store.                                            *)
(***************************************************************************)
EXTENDS StoreSwap, TLAPS

\* Steps before the first rename: state.db is untouched.
Untouched == {"openSource", "createTmp", "copyTmp", "syncTmp", "closeTmp",
              "dropTmp", "dropBak", "backup"}

\* Steps at which the temporary file is complete.
Sealed == {"closeTmp", "dropBak", "backup", "install"}

\* Steps at which the backup is the only copy of the previous graph, and whoever
\* opened the vacant name made it a blank store.
Vacant == {"install", "dropTmpUndo", "undo"}

\* Steps that lead to an error.
Failed == {"dropTmp", "dropTmpUndo", "undo", "reopenPrev", "restore",
           "reopenRestored"}

InCall == pc \notin {"down", "ready"}

\* NoLoss, and in addition that the graph it speaks of cannot be mistaken for a
\* missing file that the next Open would fill with a blank store.
Kept ==
  \/ disk["db"] \in {prev, target} /\ disk["db"] # Absent
  \/ disk["bak"] = prev

CallInv ==
  /\ pc = "ready" => disk["db"] # Absent
  /\ InCall => prev \in Whole /\ target \in Snapshots
  /\ pc \in Untouched => disk["db"] = prev
  /\ pc \in Sealed => disk["tmp"] = target
  /\ pc \in Vacant => disk["bak"] = prev
  /\ pc \in {"reopen", "restore", "dropOldBak"} => disk["db"] = target
  /\ pc \in {"reopen", "restore"} => disk["bak"] = prev
  /\ pc \in Failed => faults > 0
  /\ pc \in {"reopenPrev", "reopenRestored"} /\ faults = 1 => disk["db"] = prev

IInv ==
  /\ TypeOK
  /\ Kept
  /\ CallInv
  /\ StoreNeverTorn
  /\ ReturnContract
  /\ HandleOnStore

-----------------------------------------------------------------------------
(* What the file operations do to each file.                                *)

LEMMA CreatedFiles ==
  ASSUME disk \in [Files -> Whole \cup {Torn, Absent}]
  PROVE  /\ Created \in [Files -> Whole \cup {Torn, Absent}]
         /\ Created["db"] = IF disk["db"] = Absent THEN Blank ELSE disk["db"]
         /\ Created["tmp"] = disk["tmp"]
         /\ Created["bak"] = disk["bak"]
  BY DEF Created, Files, Whole

LEMMA RenamedFiles ==
  ASSUME disk \in [Files -> Whole \cup {Torn, Absent}],
         NEW from \in Files, NEW to \in Files, from # to,
         disk[from] # Absent
  PROVE  /\ Renamed(from, to) \in [Files -> Whole \cup {Torn, Absent}]
         /\ Renamed(from, to)[to] = disk[from]
         /\ Renamed(from, to)[from] = Absent
         /\ \A f \in Files \ {from, to} : Renamed(from, to)[f] = disk[f]
  BY DEF Renamed

LEMMA RemovedFiles ==
  ASSUME disk \in [Files -> Whole \cup {Torn, Absent}], NEW f \in Files
  PROVE  /\ Removed(f) \in [Files -> Whole \cup {Torn, Absent}]
         /\ Removed(f)[f] = Absent
         /\ \A g \in Files \ {f} : Removed(f)[g] = disk[g]
  BY DEF Removed

-----------------------------------------------------------------------------
(* The inductive invariant.                                                 *)

LEMMA InitInv == Init => IInv
  BY SwapAssumption DEF Init, IInv, TypeOK, Kept, CallInv, StoreNeverTorn,
     ReturnContract, HandleOnStore, InCall, Files, Whole, Steps, Untouched,
     Sealed, Vacant, Failed

LEMMA StepInv == IInv /\ [Next]_vars => IInv'
  <1> SUFFICES ASSUME IInv, [Next]_vars PROVE IInv'
    OBVIOUS
  <1> USE SwapAssumption DEF IInv, TypeOK, Kept, CallInv, StoreNeverTorn,
        ReturnContract, HandleOnStore, InCall, Files, Whole, Steps, Untouched,
        Sealed, Vacant, Failed, Goto, Works, Fails, Call, Local, Return
  <1>1. CASE Open
    BY <1>1, CreatedFiles DEF Open
  <1>2. ASSUME NEW s \in Snapshots, Begin(s) PROVE IInv'
    BY <1>2 DEF Begin
  <1>3. CASE Exit
    BY <1>3 DEF Exit
  <1>4. CASE Crash
    BY <1>4 DEF Crash
  <1>5. CASE OtherOpen
    BY <1>5, CreatedFiles DEF OtherOpen
  <1>6. CASE OpenSource
    BY <1>6 DEF OpenSource
  <1>7. CASE CreateTmp
    BY <1>7 DEF CreateTmp
  <1>8. CASE CopyTmp
    BY <1>8 DEF CopyTmp
  <1>9. CASE SyncTmp
    BY <1>9 DEF SyncTmp
  <1>10. CASE CloseTmp
    BY <1>10 DEF CloseTmp
  <1>11. CASE DropTmp
    BY <1>11, RemovedFiles DEF DropTmp
  <1>12. CASE DropBak
    BY <1>12, RemovedFiles DEF DropBak
  <1>13. CASE Backup
    BY <1>13, RenamedFiles DEF Backup
  <1>14. CASE Install
    BY <1>14, RenamedFiles DEF Install
  <1>15. CASE Undo
    BY <1>15, RenamedFiles DEF Undo
  <1>16. CASE ReopenPrev
    BY <1>16, CreatedFiles DEF ReopenPrev
  <1>17. CASE Reopen
    BY <1>17, CreatedFiles DEF Reopen
  <1>18. CASE Restore
    BY <1>18, RenamedFiles DEF Restore
  <1>19. CASE ReopenRestored
    BY <1>19, CreatedFiles DEF ReopenRestored
  <1>20. CASE DropOldBak
    BY <1>20, RemovedFiles DEF DropOldBak
  <1>21. CASE UNCHANGED vars
    BY <1>21 DEF vars
  <1>22. QED
    BY <1>1, <1>2, <1>3, <1>4, <1>5, <1>6, <1>7, <1>8, <1>9, <1>10, <1>11,
       <1>12, <1>13, <1>14, <1>15, <1>16, <1>17, <1>18, <1>19, <1>20, <1>21
    DEF Next, ReplaceFromFile

THEOREM Invariance == Spec => []IInv
<1>1. QED
  BY InitInv, StepInv, PTL DEF Spec

-----------------------------------------------------------------------------
(* What the inductive invariant gives.                                      *)

\* The variables keep their types.
THEOREM TypeCorrect == Spec => []TypeOK
<1>1. IInv => TypeOK
  BY DEF IInv
<1>2. QED
  BY <1>1, Invariance, PTL

\* However many system calls fail and whenever the process crashes, the disk
\* holds the graph from before the call of ReplaceFromFile or the whole new one.
THEOREM GraphNeverLost == Spec => []NoLoss
<1>1. IInv => NoLoss
  BY DEF IInv, Kept, NoLoss
<1>2. QED
  BY <1>1, Invariance, PTL

\* state.db is never a partly written file, whatever an earlier crash left.
THEOREM NeverTorn == Spec => []StoreNeverTorn
<1>1. IInv => StoreNeverTorn
  BY DEF IInv
<1>2. QED
  BY <1>1, Invariance, PTL

\* What ReplaceFromFile returns tells which graph state.db holds, up to one
\* failed system call per call.
THEOREM AnswerIsTrue == Spec => []ReturnContract
<1>1. IInv => ReturnContract
  BY DEF IInv
<1>2. QED
  BY <1>1, Invariance, PTL

\* A handle that is open once the call is over is on the file named state.db.
THEOREM HandleIsCurrent == Spec => []HandleOnStore
<1>1. IInv => HandleOnStore
  BY DEF IInv
<1>2. QED
  BY <1>1, Invariance, PTL

-----------------------------------------------------------------------------
(* The swap implements AtomicStore where nothing interferes and at most one *)
(* system call of a call fails.                                             *)

Undisturbed == MaxFaults <= 1 /\ MaxCrashes = 0 /\ ~OtherOpens

\* Nobody fills the vacant name, so it stands for the backup; and away from the
\* swap a missing state.db means that there never was one.
VacancyInv ==
  /\ pc \in Vacant => disk["db"] = Absent
  /\ pc \notin Vacant /\ disk["db"] = Absent => pc = "down" /\ disk["bak"] = Absent

LEMMA VacancyInit == Init => VacancyInv
  BY DEF Init, VacancyInv, Vacant

LEMMA VacancyStep ==
  ASSUME Undisturbed
  PROVE  IInv /\ VacancyInv /\ [Next]_vars => VacancyInv'
  <1> SUFFICES ASSUME IInv, VacancyInv, [Next]_vars PROVE VacancyInv'
    OBVIOUS
  <1> USE Undisturbed, SwapAssumption DEF Undisturbed, VacancyInv, IInv, TypeOK,
        CallInv, StoreNeverTorn, InCall, Files, Whole, Untouched, Sealed,
        Vacant, Failed, Goto, Works, Fails, Call, Local, Return
  <1>1. CASE Open \/ OtherOpen \/ ReopenPrev \/ Reopen \/ ReopenRestored
    BY <1>1, CreatedFiles DEF Open, OtherOpen, ReopenPrev, Reopen, ReopenRestored
  <1>2. ASSUME NEW s \in Snapshots, Begin(s) PROVE VacancyInv'
    BY <1>2 DEF Begin
  <1>3. CASE Exit \/ Crash \/ OpenSource \/ CopyTmp \/ CloseTmp
    BY <1>3 DEF Exit, Crash, OpenSource, CopyTmp, CloseTmp
  <1>4. CASE CreateTmp \/ SyncTmp
    BY <1>4 DEF CreateTmp, SyncTmp
  <1>5. CASE DropTmp \/ DropBak \/ DropOldBak
    BY <1>5, RemovedFiles DEF DropTmp, DropBak, DropOldBak
  <1>6. CASE Backup \/ Install
    BY <1>6, RenamedFiles DEF Backup, Install
  <1>7. CASE Undo \/ Restore
    BY <1>7, RenamedFiles DEF Undo, Restore
  <1>8. CASE UNCHANGED vars
    BY <1>8 DEF vars
  <1>9. QED
    BY <1>1, <1>2, <1>3, <1>4, <1>5, <1>6, <1>7, <1>8 DEF Next, ReplaceFromFile

LEMMA InitAtomic == Init => Atomic!Init
  BY SwapAssumption DEF Init, Atomic!Init, Graph, GraphOf, Swapping, Files, Whole

\* Every step is a step of AtomicStore or leaves its variables alone: Install
\* commits, Restore rolls back, the steps that return answer.
LEMMA StepAtomic ==
  ASSUME Undisturbed
  PROVE  IInv /\ VacancyInv /\ [Next]_vars => [Atomic!Next]_(Atomic!absVars)
  <1> SUFFICES ASSUME IInv, VacancyInv, [Next]_vars
               PROVE  [Atomic!Next]_(Atomic!absVars)
    OBVIOUS
  <1> USE Undisturbed, SwapAssumption DEF Undisturbed, VacancyInv, IInv, TypeOK,
        CallInv, StoreNeverTorn, InCall, Files, Whole, Untouched, Sealed, Vacant,
        Failed, Goto, Works, Fails, Call, Local, Return, Graph, GraphOf, Swapping,
        Atomic!absVars
  <1>1. CASE Open
    BY <1>1, CreatedFiles DEF Open, Atomic!Next, Atomic!Fresh
  <1>2. ASSUME NEW s \in Snapshots, Begin(s) PROVE [Atomic!Next]_(Atomic!absVars)
    <2>1. Atomic!Start(s) \/ Atomic!Refuse(s)
      BY <1>2 DEF Begin, Atomic!Start, Atomic!Refuse
    <2>2. QED
      BY <2>1 DEF Atomic!Next
  <1>3. CASE Exit
    BY <1>3 DEF Exit, Atomic!Next, Atomic!Rest
  <1>4. CASE Crash \/ OtherOpen
    BY <1>4 DEF Crash, OtherOpen
  <1>5. CASE OpenSource \/ CopyTmp \/ CloseTmp
    BY <1>5 DEF OpenSource, CopyTmp, CloseTmp
  <1>6. CASE CreateTmp \/ SyncTmp
    BY <1>6 DEF CreateTmp, SyncTmp
  <1>7. CASE DropTmp \/ DropBak
    BY <1>7, RemovedFiles DEF DropTmp, DropBak
  <1>8. CASE Backup \/ Undo
    BY <1>8, RenamedFiles DEF Backup, Undo
  <1>9. CASE Install
    <2>1. CASE pc' = "reopen"
      <3>1. Atomic!Commit
        BY <1>9, <2>1, RenamedFiles DEF Install, Atomic!Commit
      <3>2. QED
        BY <3>1 DEF Atomic!Next
    <2>2. CASE pc' = "dropTmpUndo"
      BY <1>9, <2>2 DEF Install
    <2>3. QED
      BY <1>9, <2>1, <2>2 DEF Install
  <1>10. CASE Reopen
    BY <1>10, CreatedFiles DEF Reopen
  <1>11. CASE Restore
    <2>1. Atomic!Rollback
      BY <1>11, RenamedFiles DEF Restore, Atomic!Rollback
    <2>2. QED
      BY <2>1 DEF Atomic!Next
  <1>12. CASE ReopenPrev \/ ReopenRestored
    <2>1. Atomic!Answer("err")
      BY <1>12, CreatedFiles DEF ReopenPrev, ReopenRestored, Atomic!Answer
    <2>2. QED
      BY <2>1 DEF Atomic!Next
  <1>13. CASE DropOldBak
    <2>1. Atomic!Answer("ok")
      BY <1>13, RemovedFiles DEF DropOldBak, Atomic!Answer
    <2>2. QED
      BY <2>1 DEF Atomic!Next
  <1>14. CASE UNCHANGED vars
    BY <1>14 DEF vars
  <1>15. QED
    BY <1>1, <1>2, <1>3, <1>4, <1>5, <1>6, <1>7, <1>8, <1>9, <1>10, <1>11,
       <1>12, <1>13, <1>14 DEF Next, ReplaceFromFile

\* Undisturbed by other processes and by crashes, and with at most one failed
\* system call per call, ReplaceFromFile is an indivisible replacement that may
\* fail: the refinement StoreSwapRefines checks on two snapshots.
THEOREM SwapIsAtomic ==
  ASSUME Undisturbed
  PROVE  Spec => ImplementsAtomicStore
<1>1. IInv /\ VacancyInv /\ [Next]_vars => VacancyInv'
  BY VacancyStep
<1>2. IInv /\ VacancyInv /\ [Next]_vars => [Atomic!Next]_(Atomic!absVars)
  BY StepAtomic
<1>3. QED
  BY <1>1, <1>2, Invariance, VacancyInit, InitAtomic, PTL
  DEF Spec, ImplementsAtomicStore, Atomic!Spec
=============================================================================
