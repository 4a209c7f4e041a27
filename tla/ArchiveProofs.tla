---------------------------- MODULE ArchiveProofs ----------------------------
(* What a pack is worth, for every fleet, every number of failing calls and *)
(* every number of commands.                                                *)
EXTENDS Archive, TLAPS

-----------------------------------------------------------------------------
(* What the operators on trees and stores return.                          *)

\* Things that WritePack has still to write, or that are to be zipped.
Names == Files \cup {<<"runbooks", s>> : s \in Services}

LEMMA NothingTyped == Nothing \in Stores
BY DEF Nothing, Stores

LEMMA BareTyped ==
  ASSUME NEW st \in Stores
  PROVE  Bare(st) \in Trees
BY ArchiveAssumption DEF Bare, Trees

LEMMA NoPathTyped == NoPath \in Paths /\ NoPath.tree \in Trees
BY NothingTyped, BareTyped DEF NoPath, Paths

LEMMA ReplayTyped ==
  ASSUME NEW t \in Trees
  PROVE  Replay(t) \in Stores
<1>1. RunbooksOf(t) \subseteq Services
  BY DEF RunbooksOf, Trees
<1>2. \A p \in Parts : RowsOf(t, p) \subseteq Services
  BY DEF RowsOf, Trees, Stores
<1> QED
  BY <1>1, <1>2 DEF Replay, Stores

LEMMA SlugTyped ==
  ASSUME NEW s \in Services
  PROVE  slug[s] \in Slugs /\ Runbook(slug[s]) \in Files /\ Golden(s) \in Files
BY DEF Slugs, Files

LEMMA ToWriteTyped ==
  ASSUME NEW st \in Stores
  PROVE  ToWrite(st) \subseteq Names
BY DEF ToWrite, PackedRunbooks, Names, Files, Stores, Parts

\* An entry is a runbook's, or the name of another file.
LEMMA Entry ==
  ASSUME NEW st \in Stores, NEW f \in ToWrite(st)
  PROVE  \/ /\ f[1] = "runbooks" /\ f[2] \in PackedRunbooks(st) /\ f[2] \in Services
            /\ f = <<"runbooks", f[2]>> /\ Target(f) = Runbook(slug[f[2]])
         \/ f[1] # "runbooks" /\ f \in Files /\ Target(f) = f
BY DEF ToWrite, PackedRunbooks, Target, Files, File, Stores, Parts, Entities

LEMMA WrittenTyped ==
  ASSUME NEW st \in Stores, NEW f \in ToWrite(st), NEW t \in Trees
  PROVE  Target(f) \in Files /\ Written(t, f) \in Trees
<1>1. Target(f) \in Files
  BY Entry, SlugTyped
<1>2. f[1] = "runbooks" => f[2] \in Services /\ slug[f[2]] \in Slugs
  BY Entry, SlugTyped
<1>3. \A S : S \in SUBSET Files => S \cup {Target(f)} \in SUBSET Files /\ S \ {Target(f)} \in SUBSET Files
  BY <1>1
<1>4. (IF f[1] = "runbooks" THEN [t.rb EXCEPT ![slug[f[2]]] = f[2]] ELSE t.rb)
        \in [Slugs -> Services \cup {0}]
  BY <1>2 DEF Trees
<1> QED
  BY <1>1, <1>3, <1>4 DEF Written, Trees

\* Directories are all that MakeDirs adds.
LEMMA FurnishedTyped ==
  ASSUME NEW t \in Trees
  PROVE  /\ Furnished(t) \in Trees /\ Furnished(t).of = t.of /\ Furnished(t).files = t.files
         /\ Furnished(t).rb = t.rb /\ Furnished(t).says = t.says /\ Furnished(t).cut = t.cut
BY DEF Furnished, Trees

LEMMA AskTyped ==
  ASSUME NEW st \in Stores, NEW s \in Services
  PROVE  Ask(st, s) \in SUBSET Parts
BY DEF Ask
-----------------------------------------------------------------------------
(* Types, and what the control says of the state.                          *)

Shape ==
  /\ pc \in {"temp", "check", "zip", "zipping", "proveArchive"} => archive
  /\ pc \in {"prepare", "clear"} => ~archive
  /\ pc \in {"clear", "write", "golden"} /\ ~archive => out.kind = "dir"
  /\ pc = "write" => todo \subseteq ToWrite(src)
  /\ pc = "golden" => todo \subseteq {Golden(s) : s \in Services}
  /\ pc = "zipping" => todo \subseteq work.files
  /\ pc = "idle" => todo = {}

TypeInv == TypeOK /\ Shape

LEMMA InitType == Init => TypeInv
<1> SUFFICES ASSUME Init PROVE TypeInv
  OBVIOUS
<1>1. Before \subseteq Paths
  BY ArchiveAssumption
<1>2. cmd \in Commands
  BY DEF Init, Commands
<1>3. Faults \in Nat /\ Runs \in Nat
  BY ArchiveAssumption
<1> QED
  BY <1>1, <1>2, <1>3, NoPathTyped, NothingTyped DEF Init, TypeInv, TypeOK, Shape

\* The tree that WritePack writes to, and how a step changes it.
LEMMA WorkTyped ==
  ASSUME TypeInv
  PROVE  Work \in Trees
BY DEF TypeInv, TypeOK, Work, Paths

LEMMA SetWorkTyped ==
  ASSUME TypeInv, NEW t \in Trees, SetWork(t)
  PROVE  out' \in Paths /\ work' \in Trees /\ out'.kind = out.kind
BY DEF TypeInv, TypeOK, SetWork, Paths

LEMMA QuitTyped ==
  ASSUME NEW a \in {"ok", "error"}, Quit(a)
  PROVE  work' \in Trees /\ todo' = {} /\ pc' = "idle" /\ result' \in {"ok", "error"}
BY NoPathTyped DEF Quit

LEMMA FaultTyped ==
  ASSUME TypeInv, NoFault \/ Fault
  PROVE  faults' \in Nat /\ calm' \in BOOLEAN
<1>1. faults \in Nat /\ calm \in BOOLEAN
  BY DEF TypeInv, TypeOK
<1>2. CASE NoFault
  BY <1>1, <1>2 DEF NoFault
<1>3. CASE Fault
  <2>1. faults' = faults - 1 /\ faults > 0
    BY <1>3 DEF Fault
  <2>2. faults' \in Nat
    BY <1>1, <2>1
  <2> QED
    BY <1>3, <2>2 DEF Fault
<1> QED
  BY <1>2, <1>3

\* The command gives up.
LEMMA FailsTyped ==
  ASSUME TypeInv, Fails, NoFault \/ Fault
  PROVE  TypeInv'
<1>1. faults' \in Nat /\ calm' \in BOOLEAN
  BY FaultTyped
<1>2. work' \in Trees /\ todo' = {} /\ pc' = "idle" /\ result' \in {"ok", "error"}
  BY QuitTyped DEF Fails
<1> QED
  BY <1>1, <1>2 DEF Fails, command, TypeInv, TypeOK, Shape

\* A path with one file more or less in the tree, or with a part of one.
LEMMA CutTyped ==
  ASSUME NEW p \in Paths, NEW f
  PROVE  /\ f \in Files =>
              /\ [p EXCEPT !.tree.files = @ \cup {f}] \in Paths
              /\ [p EXCEPT !.tree.files = @ \cup {f}, !.tree.cut = @ \cup {f}] \in Paths
         /\ [p EXCEPT !.kind = "archive"] \in Paths
         /\ [p EXCEPT !.tree.files = @ \ {f}, !.tree.cut = @ \ {f}] \in Paths
         /\ [p EXCEPT !.tree.files = @ \ {f}, !.tree.cut = @ \ {f}].kind = p.kind
BY DEF Paths, Trees

\* A path with or without directories in the tree.
LEMMA DirsTyped ==
  ASSUME NEW p \in Paths, NEW d \in BOOLEAN
  PROVE  /\ [p EXCEPT !.tree.dirs = d] \in Paths
         /\ [p EXCEPT !.tree.dirs = d].kind = p.kind
BY DEF Paths, Trees

LEMMA PlaceType ==
  ASSUME TypeInv,
         \/ Start \/ Load \/ MkdirTemp \/ CheckArchive \/ CheckBlind
         \/ PrepareNew \/ PrepareOld \/ ClearFile \/ ClearDirs \/ ClearEnd \/ ClearFails
  PROVE  TypeInv'
<1> USE DEF At, Same, command
<1>1. CASE Start
  <2>1. runs' \in Nat
    BY <1>1 DEF Start, TypeInv, TypeOK
  <2> QED
    BY <1>1, <2>1, NothingTyped DEF Start, TypeInv, TypeOK, Shape
<1>2. CASE Load
  <2>1. src' \in Stores
    BY <1>2, ReplayTyped, ArchiveAssumption DEF Load, TypeInv, TypeOK, Paths, Commands
  <2> QED
    BY <1>2, <2>1 DEF Load, NoFault, TypeInv, TypeOK, Shape
<1>3. CASE MkdirTemp
  BY <1>3, BareTyped DEF MkdirTemp, NoFault, TypeInv, TypeOK, Shape
<1>4. CASE CheckArchive
  BY <1>4, NoPathTyped, ToWriteTyped DEF CheckArchive, NoFault, TypeInv, TypeOK, Shape, Names
<1>5. CASE CheckBlind
  BY <1>5, FaultTyped, ToWriteTyped DEF CheckBlind, TypeInv, TypeOK, Shape, Names
<1>6. ASSUME out' = [kind |-> "dir", tree |-> Bare(src)], todo' = ToWrite(src), pc' = "write",
             Same, NoFault, UNCHANGED <<src, work>>
      PROVE  TypeInv'
  <2>1. out' \in Paths
    BY <1>6, BareTyped DEF TypeInv, TypeOK, Paths
  <2> QED
    BY <1>6, <2>1, ToWriteTyped DEF NoFault, TypeInv, TypeOK, Shape, Names
<1>7. CASE PrepareNew
  BY <1>6, <1>7 DEF PrepareNew
<1>8. CASE PrepareOld
  BY <1>8 DEF PrepareOld, MayOverwrite, NoFault, TypeInv, TypeOK, Shape
<1>9. CASE ClearFile
  <2>1. PICK f \in out.tree.files :
          out' = [out EXCEPT !.tree.files = @ \ {f}, !.tree.cut = @ \ {f}]
    BY <1>9 DEF ClearFile
  <2>2. out' \in Paths /\ out'.kind = out.kind
    BY <2>1, CutTyped DEF TypeInv, TypeOK
  <2> QED
    BY <1>9, <2>2 DEF ClearFile, NoFault, TypeInv, TypeOK, Shape
<1>10. CASE ClearEnd
  BY <1>6, <1>10 DEF ClearEnd
<1>11. CASE ClearFails
  <2>1. out' \in Paths
    BY <1>11, NoPathTyped DEF ClearFails, TypeInv, TypeOK
  <2> QED
    BY <1>11, <2>1, FaultTyped, QuitTyped DEF ClearFails, TypeInv, TypeOK, Shape
<1>12. CASE ClearDirs
  <2>1. out' \in Paths /\ out'.kind = out.kind
    BY <1>12, DirsTyped DEF ClearDirs, TypeInv, TypeOK
  <2> QED
    BY <1>12, <2>1 DEF ClearDirs, NoFault, TypeInv, TypeOK, Shape
<1> QED
  BY <1>1, <1>2, <1>3, <1>4, <1>5, <1>7, <1>8, <1>9, <1>10, <1>11, <1>12

LEMMA GoldenTyped ==
  ASSUME NEW t \in Trees, NEW s \in Services, NEW P \in SUBSET Parts
  PROVE  Gilt(t, s, P) \in Trees
<1>1. Golden(s) \in Files
  BY SlugTyped
<1>2. t.files \cup {Golden(s)} \in SUBSET Files
  BY <1>1 DEF Trees
<1>3. [t.says EXCEPT ![s] = P] \in [Services -> SUBSET Parts]
  BY DEF Trees
<1> QED
  BY <1>2, <1>3 DEF Gilt, Trees

LEMMA WriteType ==
  ASSUME TypeInv,
         \/ MakeDirs \/ MakeDirsFails \/ WriteFile \/ WriteFails \/ SkipRunbook \/ ReadBack
         \/ WriteGolden \/ GoldenFails \/ Prove
  PROVE  TypeInv'
<1> USE DEF At, Same, command
<1>0. src \in Stores /\ Work \in Trees
  BY WorkTyped DEF TypeInv, TypeOK
<1>1. CASE WriteFile
  <2>1. PICK f \in todo : todo' = todo \ {f} /\ SetWork(Written(Work, f))
    BY <1>1 DEF WriteFile
  <2>2. f \in ToWrite(src)
    BY <1>1, <2>1 DEF WriteFile, TypeInv, Shape
  <2>3. Written(Work, f) \in Trees
    BY <1>0, <2>2, WrittenTyped
  <2>4. out' \in Paths /\ work' \in Trees /\ out'.kind = out.kind
    BY <2>1, <2>3, SetWorkTyped
  <2> QED
    BY <1>1, <2>1, <2>4 DEF WriteFile, NoFault, TypeInv, TypeOK, Shape
<1>2. CASE WriteFails
  <2>1. PICK f \in todo :
          out' \in IF archive THEN {out}
                   ELSE {out, [out EXCEPT !.tree.files = @ \cup {Target(f)},
                                          !.tree.cut = @ \cup {Target(f)}]}
    BY <1>2 DEF WriteFails
  <2>2. Target(f) \in Files
    BY <1>0, <1>2, WrittenTyped DEF WriteFails, TypeInv, Shape
  <2>3. out' \in {out, [out EXCEPT !.tree.files = @ \cup {Target(f)},
                                  !.tree.cut = @ \cup {Target(f)}]}
    BY <2>1
  <2>4. out \in Paths
    BY DEF TypeInv, TypeOK
  <2>5. out' \in Paths
    BY <2>2, <2>3, <2>4, CutTyped
  <2> QED
    BY <1>2, <2>5, QuitTyped, FaultTyped DEF WriteFails, TypeInv, TypeOK, Shape
<1>3. CASE SkipRunbook
  <2>1. PICK f \in todo : f[1] = "runbooks" /\ todo' = todo \ {f} /\ unread' = unread \cup {f[2]}
    BY <1>3 DEF SkipRunbook
  <2>2. f[2] \in Services
    BY <1>0, <1>3, <2>1, Entry DEF SkipRunbook, TypeInv, Shape
  <2> QED
    BY <1>3, <2>1, <2>2, FaultTyped DEF SkipRunbook, TypeInv, TypeOK, Shape
<1>4. CASE ReadBack
  <2>1. todo' \subseteq {Golden(s) : s \in Services}
    <3> DEFINE back == Replay(Work)
    <3>1. back \in Stores
      BY <1>0, ReplayTyped
    <3> HIDE DEF back
    <3>2. ListServices(back) \subseteq Services /\ SickIn(back) \subseteq Services
      BY <3>1, ArchiveAssumption DEF ListServices, SickIn, Stores, Parts, Entities
    <3>3. PICK hottest \in {{}} \cup {{s} : s \in ListServices(back)} :
            todo' = {Golden(s) : s \in hottest \cup SickIn(back)
                                       \cup (back["runbook"] \cap ListServices(back))}
      BY <1>4 DEF ReadBack, back
    <3>4. hottest \subseteq Services
      BY <3>2, <3>3
    <3> QED
      BY <3>2, <3>3, <3>4
  <2>2. {Golden(s) : s \in Services} \subseteq Names
    BY SlugTyped DEF Names
  <2> QED
    BY <1>4, <2>1, <2>2 DEF ReadBack, NoFault, TypeInv, TypeOK, Shape, Names
<1>5. CASE WriteGolden
  <2>1. PICK f \in todo :
          /\ todo' = todo \ {f}
          /\ SetWork(Gilt(Work, f[2], Ask(Replay(Work), f[2])))
    BY <1>5 DEF WriteGolden
  <2>2. PICK s \in Services : f = Golden(s)
    BY <1>5, <2>1 DEF WriteGolden, TypeInv, Shape
  <2>3. f[2] = s
    BY <2>2 DEF Golden
  <2>4. Gilt(Work, f[2], Ask(Replay(Work), f[2])) \in Trees
    BY <1>0, <2>2, <2>3, GoldenTyped, AskTyped, ReplayTyped
  <2>5. out' \in Paths /\ work' \in Trees /\ out'.kind = out.kind
    BY <2>1, <2>4, SetWorkTyped
  <2> QED
    BY <1>5, <2>1, <2>5 DEF WriteGolden, NoFault, TypeInv, TypeOK, Shape
<1>6. CASE GoldenFails
  <2>0. out \in Paths
    BY DEF TypeInv, TypeOK
  <2>1. out' \in Paths
    <3>1. CASE UNCHANGED out
      BY <2>0, <3>1
    <3>2. CASE \E f \in todo : out' = [out EXCEPT !.tree.files = @ \cup {f},
                                                !.tree.cut = @ \cup {f}]
      <4>1. PICK f \in todo : out' = [out EXCEPT !.tree.files = @ \cup {f},
                                               !.tree.cut = @ \cup {f}]
        BY <3>2
      <4>2. f \in Files
        BY <1>6, SlugTyped DEF GoldenFails, TypeInv, Shape
      <4> QED
        BY <2>0, <4>1, <4>2, CutTyped
    <3> QED
      BY <1>6, <3>1, <3>2 DEF GoldenFails
  <2> QED
    BY <1>6, <2>1, QuitTyped, FaultTyped DEF GoldenFails, TypeInv, TypeOK, Shape
<1>7. CASE Prove
  <2>1. CASE archive
    BY <1>7, <2>1 DEF Prove, NoFault, TypeInv, TypeOK, Shape
  <2>2. CASE ~archive
    BY <1>7, <2>2, QuitTyped DEF Prove, NoFault, TypeInv, TypeOK, Shape
  <2> QED
    BY <2>1, <2>2
<1>8. CASE MakeDirs
  <2>1. out' \in Paths /\ work' \in Trees /\ out'.kind = out.kind
    BY <1>0, <1>8, FurnishedTyped, SetWorkTyped DEF MakeDirs
  <2> QED
    BY <1>8, <2>1 DEF MakeDirs, NoFault, TypeInv, TypeOK, Shape
<1>9. CASE MakeDirsFails
  <2>1. out' \in {out, [out EXCEPT !.tree.dirs = TRUE]}
    BY <1>9 DEF MakeDirsFails
  <2>2. out' \in Paths
    BY <2>1, DirsTyped DEF TypeInv, TypeOK
  <2> QED
    BY <1>9, <2>2, QuitTyped, FaultTyped DEF MakeDirsFails, TypeInv, TypeOK, Shape
<1> QED
  BY <1>1, <1>2, <1>3, <1>4, <1>5, <1>6, <1>7, <1>8, <1>9

LEMMA ZipType ==
  ASSUME TypeInv,
         ZipCreate \/ ZipFile \/ ZipFails \/ ZipClose \/ ProveArchive \/ Crash
  PROVE  TypeInv'
<1> USE DEF At, Same, command
<1>1. CASE ZipCreate
  <2>1. out' \in Paths
    BY <1>1 DEF ZipCreate, TypeInv, TypeOK, Paths, Trees
  <2>2. work.files \subseteq Files
    BY DEF TypeInv, TypeOK, Trees
  <2> QED
    BY <1>1, <2>1, <2>2 DEF ZipCreate, NoFault, TypeInv, TypeOK, Shape
<1>2. CASE ZipFile
  <2>1. PICK f \in todo : todo' = todo \ {f} /\ out' = [out EXCEPT !.tree.files = @ \cup {f}]
    BY <1>2 DEF ZipFile
  <2>2. f \in Files
    BY <1>2, <2>1 DEF ZipFile, TypeInv, TypeOK, Shape, Trees
  <2>3. out' \in Paths
    BY <2>1, <2>2, CutTyped DEF TypeInv, TypeOK
  <2> QED
    BY <1>2, <2>1, <2>3 DEF ZipFile, NoFault, TypeInv, TypeOK, Shape
<1>3. CASE ZipFails
  <2>1. PICK f \in todo :
          out' \in {out, [out EXCEPT !.kind = "archive"],
                    [out EXCEPT !.kind = "archive", !.tree.files = @ \cup {f},
                                !.tree.cut = @ \cup {f}]}
    BY <1>3 DEF ZipFails
  <2>2. f \in Files
    BY <1>3, <2>1 DEF ZipFails, TypeInv, TypeOK, Shape, Trees
  <2>0. out \in Paths
    BY DEF TypeInv, TypeOK
  <2>3. out' \in Paths
    <3>1. CASE out' = out
      BY <2>0, <3>1
    <3>2. CASE out' = [out EXCEPT !.kind = "archive"]
      BY <2>0, <3>2, CutTyped
    <3>3. CASE out' = [out EXCEPT !.kind = "archive", !.tree.files = @ \cup {f},
                                  !.tree.cut = @ \cup {f}]
      <4>1. out.tree.files \cup {f} \subseteq Files /\ out.tree.cut \cup {f} \subseteq Files
        BY <2>0, <2>2 DEF Paths, Trees
      <4>2. out'.tree \in Trees /\ out' = [kind |-> "archive", tree |-> out'.tree]
        BY <2>0, <3>3, <4>1 DEF Paths, Trees
      <4> QED
        BY <4>2 DEF Paths
    <3> QED
      BY <2>1, <3>1, <3>2, <3>3
  <2>4. short' \subseteq Trees
    BY <1>3, <2>3 DEF ZipFails, TypeInv, TypeOK, Paths
  <2> QED
    BY <1>3, <2>3, <2>4, QuitTyped, FaultTyped DEF ZipFails, TypeInv, TypeOK, Shape
<1>4. CASE ZipClose
  <2>1. out' \in Paths
    BY <1>4 DEF ZipClose, TypeInv, TypeOK, Paths
  <2> QED
    BY <1>4, <2>1 DEF ZipClose, NoFault, TypeInv, TypeOK, Shape
<1>5. CASE ProveArchive
  BY <1>5, QuitTyped DEF ProveArchive, NoFault, TypeInv, TypeOK, Shape
<1>6. CASE Crash
  BY <1>6, NoPathTyped, FaultTyped DEF Crash, TypeInv, TypeOK, Shape
<1> QED
  BY <1>1, <1>2, <1>3, <1>4, <1>5, <1>6

\* The steps at which a command gives up and leaves the path as it is.
GivesUp ==
  \/ LoadFails \/ MkdirTempFails \/ CheckFails \/ PrepareFails \/ ReadBackFails \/ ProveFails
  \/ ZipCreateFails \/ ZipCloseFails \/ ProveArchiveFails

LEMMA GivesUpFails == GivesUp => Fails /\ (NoFault \/ Fault) /\ pc # "idle"
<1> SUFFICES ASSUME GivesUp PROVE Fails /\ (NoFault \/ Fault) /\ pc # "idle"
  OBVIOUS
<1>1. CASE LoadFails BY <1>1 DEF LoadFails
<1>2. CASE CheckFails BY <1>2 DEF CheckFails
<1>3. CASE PrepareFails BY <1>3 DEF PrepareFails
<1>4. CASE ReadBackFails BY <1>4 DEF ReadBackFails
<1>5. CASE ProveFails BY <1>5 DEF ProveFails
<1>6. CASE ZipCreateFails BY <1>6 DEF ZipCreateFails
<1>7. CASE ZipCloseFails BY <1>7 DEF ZipCloseFails
<1>8. CASE ProveArchiveFails BY <1>8 DEF ProveArchiveFails
<1>9. CASE MkdirTempFails BY <1>9 DEF MkdirTempFails
<1> QED BY <1>1, <1>2, <1>3, <1>4, <1>5, <1>6, <1>7, <1>8, <1>9 DEF GivesUp

LEMMA NextType ==
  ASSUME TypeInv, [Next]_vars
  PROVE  TypeInv'
<1>1. CASE UNCHANGED vars
  BY <1>1 DEF vars, TypeInv, TypeOK, Shape
<1>2. CASE Next
  BY <1>2, PlaceType, WriteType, ZipType, GivesUpFails, FailsTyped DEF Next, GivesUp
<1> QED
  BY <1>1, <1>2

\* The type invariant: the variables of a `pack` keep their types, however its
\* calls fail (pack.go:43-130).
THEOREM TypeCorrect == Spec => []TypeOK
<1>1. Init => TypeInv
  BY InitType
<1>2. TypeInv /\ [Next]_vars => TypeInv'
  BY NextType
<1>3. TypeInv => TypeOK
  BY DEF TypeInv
<1> QED
  BY <1>1, <1>2, <1>3, PTL DEF Spec
-----------------------------------------------------------------------------
(* Nothing is lost that nobody asked to lose.                              *)

Early == {"load", "temp", "check", "prepare"}

\* What the command was asked to pack, and what it may remove.
Source == IF cmd.from = "store" THEN cmd.store ELSE Replay(before.tree)

Allowed ==
  \/ before.kind = "absent"
  \/ unseen
  \/ /\ cmd.force
     /\ before.kind = "dir" => Empty(before.tree) \/ File("meta") \in before.tree.files

LostInv ==
  /\ pc \in Early => out = before
  /\ pc \notin {"idle", "load"} => src = Source
  /\ pc \notin Early \cup {"idle"} => Allowed
  /\ NothingLostUnasked

\* Once the source is read and the place is free to take, nothing can go wrong.
LEMMA LateStep ==
  ASSUME LostInv, pc \notin Early \cup {"idle"}, pc' \notin Early,
         UNCHANGED <<command, src, unseen>>
  PROVE  LostInv'
BY DEF LostInv, Early, Source, Allowed, NothingLostUnasked, command

LEMMA NextLost ==
  ASSUME TypeInv, LostInv, [Next]_vars
  PROVE  LostInv'
<1> USE DEF At, Same, command
<1>1. CASE UNCHANGED vars
  BY <1>1 DEF vars, LostInv, Source, Allowed, NothingLostUnasked
<1>2. CASE Start
  BY <1>2 DEF Start, LostInv, Early, NothingLostUnasked
<1>3. CASE Load
  BY <1>3 DEF Load, LostInv, Early, Source, NothingLostUnasked, TypeInv, TypeOK
<1>4. CASE MkdirTemp
  BY <1>4 DEF MkdirTemp, LostInv, Early, Source, NothingLostUnasked
<1>5. CASE CheckArchive
  BY <1>5 DEF CheckArchive, LostInv, Early, Source, Allowed, NothingLostUnasked
<1>6. CASE CheckBlind
  BY <1>6 DEF CheckBlind, LostInv, Early, Source, Allowed, NothingLostUnasked
<1>7. CASE PrepareNew
  BY <1>7 DEF PrepareNew, LostInv, Early, Source, Allowed, NothingLostUnasked
<1>8. CASE PrepareOld
  BY <1>8 DEF PrepareOld, MayOverwrite, LostInv, Early, Source, Allowed, NothingLostUnasked
<1>9. CASE GivesUp
  BY <1>9, GivesUpFails DEF Fails, Quit, LostInv, Early, Source, Allowed, NothingLostUnasked
<1>10. CASE Crash
  BY <1>10 DEF Crash, LostInv, Early, Source, Allowed, NothingLostUnasked
<1>11. CASE ClearFile \/ ClearDirs \/ ClearEnd \/ ClearFails
  BY <1>11, LateStep DEF ClearFile, ClearDirs, ClearEnd, ClearFails, Quit, Early
<1>12. CASE MakeDirs \/ MakeDirsFails \/ WriteFile \/ WriteFails \/ SkipRunbook \/ ReadBack
  BY <1>12, LateStep DEF MakeDirs, MakeDirsFails, WriteFile, WriteFails, SkipRunbook, ReadBack, Quit, Early
<1>13. CASE WriteGolden \/ GoldenFails
  BY <1>13, LateStep DEF WriteGolden, GoldenFails, Quit, Early
<1>14. CASE Prove
  <2>1. pc = "golden" /\ pc' \notin Early /\ UNCHANGED <<command, src, unseen>>
    BY <1>14 DEF Prove, Quit, Early
  <2> QED
    BY <2>1, LateStep DEF Early
<1>15. CASE ZipCreate \/ ZipFile \/ ZipFails \/ ZipClose
  BY <1>15, LateStep DEF ZipCreate, ZipFile, ZipFails, ZipClose, Quit, Early
<1>16. CASE ProveArchive
  BY <1>16, LateStep DEF ProveArchive, Quit, Early
<1> QED
  BY <1>1, <1>2, <1>3, <1>4, <1>5, <1>6, <1>7, <1>8, <1>9, <1>10, <1>11, <1>12, <1>13,
     <1>14, <1>15, <1>16 DEF Next, GivesUp

\* Nothing at the path is lost unless --force was given and the source was read
\* (pack.go:66-78, 151-179).
THEOREM NothingLost == Spec => []NothingLostUnasked
<1>1. Init => TypeInv /\ LostInv
  BY InitType DEF Init, LostInv, Early, NothingLostUnasked
<1>2. TypeInv /\ LostInv /\ [Next]_vars => (TypeInv /\ LostInv)'
  BY NextType, NextLost
<1>3. LostInv => NothingLostUnasked
  BY DEF LostInv
<1> QED
  BY <1>1, <1>2, <1>3, PTL DEF Spec
-----------------------------------------------------------------------------
(* What a tree carries of a store, while it is written.                    *)

\* All of st but the files left to write, and runbooks lost on the way.
Carried(t, st, left, lost) ==
  /\ t \in Trees /\ t.of = st /\ t.cut = {}
  /\ \A n \in Entities \cup {"meta"} : File(n) \in t.files \/ File(n) \in left
  /\ \A s \in PackedRunbooks(st) \ (lost \cup Shared(st)) :
       \/ <<"runbooks", s>> \in left
       \/ Runbook(slug[s]) \in t.files /\ t.rb[slug[s]] = s

\* No answer but those of the goldens.
NoSecrets(t) == \A s \in Services : t.says[s] # {} => Golden(s) \in t.files

Wanted(t) == SickIn(Replay(t)) \cup (Replay(t)["runbook"] \cap ListServices(Replay(t)))

\* The goldens are being written.
Gilded(t) ==
  /\ NoSecrets(t) /\ provePackReplay(t)
  /\ todo \subseteq {Golden(s) : s \in ListServices(Replay(t))}
  /\ \A s \in Wanted(t) : s \in Goldens(t) \/ Golden(s) \in todo

\* The names of different files differ.
LEMMA NamesDiffer ==
  /\ \A s, n : Golden(s) # Runbook(n)
  /\ \A s : \A p \in Entities \cup {"meta"} : Golden(s) # File(p) /\ Runbook(s) # File(p)
  /\ \A s, u : Golden(s) = Golden(u) => s = u
  /\ \A s, u : Runbook(s) = Runbook(u) => s = u
BY DEF Golden, Runbook, File, Entities

\* A fresh tree lacks all that is to be written.
LEMMA BareCarried ==
  ASSUME NEW st \in Stores, NEW lost
  PROVE  /\ Carried(Bare(st), st, ToWrite(st), lost)
         /\ Goldens(Bare(st)) = {} /\ NoSecrets(Bare(st))
<1>1. Carried(Bare(st), st, ToWrite(st), lost)
  <2>1. Bare(st) \in Trees /\ Bare(st).of = st /\ Bare(st).cut = {}
    BY BareTyped DEF Bare
  <2>2. \A n \in Entities \cup {"meta"} : File(n) \in ToWrite(st)
    BY DEF ToWrite
  <2>3. \A s \in PackedRunbooks(st) : <<"runbooks", s>> \in ToWrite(st)
    BY DEF ToWrite
  <2> QED
    BY <2>1, <2>2, <2>3 DEF Carried
<1> QED
  BY <1>1 DEF Goldens, NoSecrets, Bare

\* A file that is written moves from what is left to what is there.
LEMMA WriteCarried ==
  ASSUME NEW st \in Stores, NEW t, NEW left, left \subseteq ToWrite(st), NEW f \in left,
         NEW lost, Carried(t, st, left, lost)
  PROVE  /\ Carried(Written(t, f), st, left \ {f}, lost)
         /\ Goldens(Written(t, f)) = Goldens(t)
         /\ NoSecrets(t) => NoSecrets(Written(t, f))
<1> DEFINE w == Written(t, f)
<1>1. /\ w \in Trees /\ w.of = st /\ w.cut = {} /\ w.says = t.says
      /\ w.files = t.files \cup {Target(f)}
  BY WrittenTyped DEF Written, Carried, Trees
<1>2. w.rb = IF f[1] = "runbooks" THEN [t.rb EXCEPT ![slug[f[2]]] = f[2]] ELSE t.rb
  BY DEF Written, Carried, Trees
<1>3. \A s : Golden(s) # Target(f)
  BY Entry, NamesDiffer DEF ToWrite, Golden, File
<1> HIDE DEF w
<1>4. \A n \in Entities \cup {"meta"} : File(n) \in w.files \/ File(n) \in left \ {f}
  <2> SUFFICES ASSUME NEW n \in Entities \cup {"meta"}, File(n) = f
               PROVE  File(n) \in w.files
    BY <1>1 DEF Carried
  <2>1. Target(f) = f
    BY DEF Target, File, Entities
  <2> QED
    BY <1>1, <2>1
<1>5. ASSUME NEW s \in PackedRunbooks(st) \ (lost \cup Shared(st))
      PROVE  \/ <<"runbooks", s>> \in left \ {f}
             \/ Runbook(slug[s]) \in w.files /\ w.rb[slug[s]] = s
  <2>1. s \in Services /\ slug[s] \in Slugs /\ t.rb \in [Slugs -> Services \cup {0}]
    BY SlugTyped DEF PackedRunbooks, Stores, Parts, Carried, Trees
  <2>2. CASE f = <<"runbooks", s>>
    <3>1. Target(f) = Runbook(slug[s]) /\ f[1] = "runbooks" /\ f[2] = s
      BY <2>2 DEF Target
    <3> QED
      BY <1>1, <1>2, <2>1, <3>1
  <2>3. CASE f # <<"runbooks", s>> /\ f[1] = "runbooks"
    <3>1. f[2] \in PackedRunbooks(st) /\ f = <<"runbooks", f[2]>> /\ f[2] # s
      BY <2>3, Entry
    <3>2. slug[f[2]] # slug[s]
      BY <3>1 DEF Shared
    <3>3. w.rb[slug[s]] = t.rb[slug[s]]
      BY <1>2, <2>1, <2>3, <3>2
    <3> QED
      BY <1>1, <2>3, <3>3 DEF Carried
  <2>4. CASE f[1] # "runbooks"
    BY <1>1, <1>2, <2>4 DEF Carried
  <2> QED
    BY <2>2, <2>3, <2>4
<1> QED
  <2>1. Carried(w, st, left \ {f}, lost)
    BY <1>1, <1>4, <1>5 DEF Carried
  <2>2. Goldens(w) = Goldens(t)
    BY <1>1, <1>3 DEF Goldens
  <2>3. NoSecrets(t) => NoSecrets(w)
    BY <1>1 DEF NoSecrets
  <2> QED
    BY <2>1, <2>2, <2>3 DEF w

\* A tree with nothing left to write replays as the store.
LEMMA CarriedReplay ==
  ASSUME NEW st \in Stores, NEW t, NEW left \in SUBSET {Golden(s) : s \in Services},
         NEW lost, Carried(t, st, left, lost)
  PROVE  /\ File("meta") \in t.files
         /\ \A p \in Entities : Replay(t)[p] = st[p]
         /\ PackedRunbooks(st) \ (lost \cup Shared(st)) \subseteq Replay(t)["runbook"]
         /\ ListServices(Replay(t)) = ListServices(st) /\ SickIn(Replay(t)) = SickIn(st)
<1>1. \A n \in Entities \cup {"meta"} : File(n) \in t.files
  BY NamesDiffer DEF Carried
<1>2. \A p \in Entities : Replay(t)[p] = st[p]
  <2> SUFFICES ASSUME NEW p \in Entities
               PROVE  Replay(t)[p] = st[p]
    OBVIOUS
  <2>1. p \in Parts /\ p # "runbook" /\ File(p) \in Read(t)
    BY <1>1 DEF Parts, Entities, Read, Carried
  <2> QED
    BY <2>1 DEF Replay, RowsOf, Carried
<1>3. ASSUME NEW s \in PackedRunbooks(st) \ (lost \cup Shared(st))
      PROVE  s \in Replay(t)["runbook"]
  <2>1. s \in Services /\ slug[s] \in Slugs
    BY SlugTyped DEF PackedRunbooks, Stores, Parts
  <2>2. Runbook(slug[s]) \in t.files /\ t.rb[slug[s]] = s
    <3>1. <<"runbooks", s>> \notin left
      BY DEF Golden
    <3> QED
      BY <3>1 DEF Carried
  <2>3. Runbook(slug[s]) \in Read(t)
    BY <2>2 DEF Read, Carried
  <2>4. s # 0
    BY <2>1, ArchiveAssumption
  <2>5. s \in RunbooksOf(t)
    BY <2>1, <2>2, <2>3, <2>4 DEF RunbooksOf
  <2> QED
    BY <2>5 DEF Replay, Parts
<1>4. ListServices(Replay(t)) = ListServices(st) /\ SickIn(Replay(t)) = SickIn(st)
  BY <1>2 DEF ListServices, SickIn, Entities
<1> QED
  BY <1>1, <1>2, <1>3, <1>4

\* A golden changes nothing in what is replayed.
LEMMA GoldenReplay ==
  ASSUME NEW t \in Trees, t.cut = {}, NEW s \in Services, NEW P \in SUBSET Parts,
         NEW g, g = Gilt(t, s, P)
  PROVE  /\ g \in Trees /\ g.of = t.of /\ g.cut = {} /\ g.rb = t.rb
         /\ g.files = t.files \cup {Golden(s)}
         /\ Replay(g) = Replay(t) /\ Goldens(g) = Goldens(t) \cup {s}
         /\ g.says[s] = P /\ \A u \in Services : u # s => g.says[u] = t.says[u]
<1>1. /\ g \in Trees /\ g.of = t.of /\ g.cut = {} /\ g.rb = t.rb
      /\ g.files = t.files \cup {Golden(s)}
  BY GoldenTyped DEF Gilt, Trees
<1>2. g.says[s] = P /\ \A u \in Services : u # s => g.says[u] = t.says[u]
  BY DEF Gilt, Trees
<1>3. \A n : Runbook(n) \in Read(g) <=> Runbook(n) \in Read(t)
  BY <1>1, NamesDiffer DEF Read
<1>4. RunbooksOf(g) = RunbooksOf(t)
  BY <1>1, <1>3 DEF RunbooksOf
<1>5. \A p \in Parts : RowsOf(g, p) = RowsOf(t, p)
  BY <1>1, NamesDiffer DEF RowsOf, Read
<1>6. Replay(g) = Replay(t)
  BY <1>4, <1>5 DEF Replay
<1>7. Goldens(g) = Goldens(t) \cup {s}
  BY <1>1, NamesDiffer DEF Goldens
<1> QED
  BY <1>1, <1>2, <1>6, <1>7
-----------------------------------------------------------------------------
(* Exit 0 means a whole pack.                                              *)

\* The pack is complete.
Sealed(t) == NoSecrets(t) /\ Whole(t, src, unread)

\* The archive holds the files that have been zipped, goldens before the clock.
Zipping ==
  /\ out = [kind |-> "torn", tree |-> [work EXCEPT !.files = @ \ todo]]
  /\ File("meta") \notin todo => \A s \in Services : Golden(s) \notin todo

BuildInv ==
  /\ pc = "check" => work = Bare(src)
  /\ pc = "write" =>
       Carried(Work, src, todo, unread) /\ Goldens(Work) = {} /\ NoSecrets(Work)
  /\ pc = "golden" => Carried(Work, src, {}, unread) /\ Gilded(Work)
  /\ pc = "zip" => Sealed(work)
  /\ pc = "zipping" => Sealed(work) /\ Zipping
  /\ pc = "proveArchive" => Sealed(work) /\ out = [kind |-> "archive", tree |-> work]
  /\ PackedIsWhole

LEMMA WorkSet ==
  ASSUME TypeInv, NEW t, SetWork(t), archive' = archive
  PROVE  Work' = t
BY DEF TypeInv, TypeOK, SetWork, Work, Paths

\* When the goldens are written, the pack is complete.
LEMMA GildedWhole ==
  ASSUME TypeInv, todo = {}, Carried(Work, src, {}, unread), Gilded(Work)
  PROVE  Sealed(Work)
<1>1. src \in Stores
  BY DEF TypeInv, TypeOK
<1>2. /\ File("meta") \in Work.files
      /\ \A p \in Entities : Replay(Work)[p] = src[p]
      /\ PackedRunbooks(src) \ (unread \cup Shared(src)) \subseteq Replay(Work)["runbook"]
  BY <1>1, CarriedReplay
<1>3. Wanted(Work) \subseteq Goldens(Work)
  BY DEF Gilded
<1>4. Work.cut = {} /\ provePackReplay(Work) /\ NoSecrets(Work)
  BY DEF Carried, Gilded
<1> QED
  BY <1>2, <1>3, <1>4 DEF Sealed, Whole, Wanted

\* Before the first file is written.
LEMMA FreshBuild ==
  ASSUME TypeInv, pc' = "write", Work' = Bare(src), todo' = ToWrite(src), src' = src
  PROVE  BuildInv'
<1>1. src \in Stores
  BY DEF TypeInv, TypeOK
<1>2. /\ Carried(Bare(src), src, ToWrite(src), unread')
      /\ Goldens(Bare(src)) = {} /\ NoSecrets(Bare(src))
  BY <1>1, BareCarried
<1> QED
  BY <1>2 DEF BuildInv, PackedIsWhole

LEMMA WriteFileBuild ==
  ASSUME TypeInv, BuildInv, WriteFile
  PROVE  BuildInv'
<1>1. PICK f \in todo : todo' = todo \ {f} /\ SetWork(Written(Work, f))
  BY DEF WriteFile
<1>2. pc = "write" /\ pc' = "write" /\ UNCHANGED <<archive, src, unread>>
  BY DEF WriteFile, Same, command
<1>3. Work' = Written(Work, f)
  BY <1>1, <1>2, WorkSet
<1>4. src \in Stores /\ todo \subseteq ToWrite(src)
  BY <1>2 DEF TypeInv, TypeOK, Shape
<1>5. Carried(Work, src, todo, unread) /\ Goldens(Work) = {} /\ NoSecrets(Work)
  BY <1>2 DEF BuildInv
<1>6. /\ Carried(Written(Work, f), src, todo \ {f}, unread)
      /\ Goldens(Written(Work, f)) = {} /\ NoSecrets(Written(Work, f))
  BY <1>4, <1>5, WriteCarried
<1> QED
  BY <1>1, <1>2, <1>3, <1>6 DEF BuildInv, PackedIsWhole

LEMMA MakeDirsBuild ==
  ASSUME TypeInv, BuildInv, MakeDirs
  PROVE  BuildInv'
<1>1. /\ pc = "write" /\ pc' = "write" /\ SetWork(Furnished(Work))
      /\ UNCHANGED <<archive, src, unread, todo>>
  BY DEF MakeDirs, Same, command
<1>2. Work' = Furnished(Work)
  BY <1>1, WorkSet
<1>3. Carried(Work, src, todo, unread) /\ Goldens(Work) = {} /\ NoSecrets(Work)
  BY <1>1 DEF BuildInv
<1>4. PICK w : w = Work /\ w \in Trees
  BY WorkTyped
<1>5. /\ Carried(Furnished(w), src, todo, unread)
      /\ Goldens(Furnished(w)) = {} /\ NoSecrets(Furnished(w))
  BY <1>3, <1>4, FurnishedTyped DEF Carried, Goldens, NoSecrets
<1> QED
  BY <1>1, <1>2, <1>4, <1>5 DEF BuildInv, PackedIsWhole

LEMMA SkipRunbookBuild ==
  ASSUME TypeInv, BuildInv, SkipRunbook
  PROVE  BuildInv'
<1>1. PICK f \in todo : f[1] = "runbooks" /\ todo' = todo \ {f} /\ unread' = unread \cup {f[2]}
  BY DEF SkipRunbook
<1>2. pc = "write" /\ pc' = "write" /\ UNCHANGED <<archive, src, out, work>>
  BY DEF SkipRunbook, command
<1>3. f = <<"runbooks", f[2]>>
  BY <1>1, <1>2, Entry DEF TypeInv, TypeOK, Shape
<1>4. Carried(Work, src, todo, unread) /\ Goldens(Work) = {} /\ NoSecrets(Work)
  BY <1>2 DEF BuildInv
<1>5. \A n \in Entities \cup {"meta"} : File(n) # f
  BY <1>3 DEF File, Entities
<1>6. \A s : s # f[2] => <<"runbooks", s>> # f
  BY <1>3
<1>7. Carried(Work, src, todo', unread')
  BY <1>1, <1>4, <1>5, <1>6 DEF Carried
<1>8. Work' = Work
  BY <1>2 DEF Work
<1> QED
  BY <1>2, <1>4, <1>7, <1>8 DEF BuildInv, PackedIsWhole

LEMMA ReadBackBuild ==
  ASSUME TypeInv, BuildInv, ReadBack
  PROVE  BuildInv'
<1> DEFINE back == Replay(Work)
<1>1. /\ pc = "write" /\ pc' = "golden" /\ todo = {}
      /\ UNCHANGED <<archive, src, out, work, unread>>
  BY DEF ReadBack, At, Same, command
<1>2. Work' = Work
  BY <1>1 DEF Work
<1>3. Carried(Work, src, {}, unread) /\ Goldens(Work) = {} /\ NoSecrets(Work)
  BY <1>1 DEF BuildInv
<1>4. PICK hottest \in {{}} \cup {{s} : s \in ListServices(back)} :
        todo' = {Golden(s) : s \in hottest \cup Wanted(Work)}
  BY DEF ReadBack, Wanted
<1>5. hottest \cup Wanted(Work) \subseteq ListServices(back)
  BY <1>4 DEF Wanted, SickIn, ListServices
<1>6. Gilded(Work)'
  BY <1>2, <1>3, <1>4, <1>5 DEF Gilded, provePackReplay
<1> QED
  BY <1>1, <1>2, <1>3, <1>6 DEF BuildInv, PackedIsWhole

LEMMA WriteGoldenBuild ==
  ASSUME TypeInv, BuildInv, WriteGolden
  PROVE  BuildInv'
<1>1. PICK f \in todo :
        /\ todo' = todo \ {f}
        /\ SetWork(Gilt(Work, f[2], Ask(Replay(Work), f[2])))
  BY DEF WriteGolden
<1>2. pc = "golden" /\ pc' = "golden" /\ UNCHANGED <<archive, src, unread>>
  BY DEF WriteGolden, Same, command
<1>3. Carried(Work, src, {}, unread) /\ Gilded(Work) /\ Work \in Trees
  BY <1>2, WorkTyped DEF BuildInv
<1>4. PICK s \in Services : f = Golden(s) /\ s \in ListServices(Replay(Work))
  <2>1. todo \subseteq {Golden(s) : s \in Services}
    BY <1>2 DEF TypeInv, Shape
  <2>2. PICK s \in Services : f = Golden(s)
    BY <1>1, <2>1
  <2>3. PICK u \in ListServices(Replay(Work)) : f = Golden(u)
    BY <1>1, <1>3 DEF Gilded
  <2> QED
    BY <2>2, <2>3, NamesDiffer
<1>5. f[2] = s
  BY <1>4 DEF Golden
<1> DEFINE P == Ask(Replay(Work), s)
<1>6. PICK g : Work' = g /\ g = Gilt(Work, s, P)
  BY <1>1, <1>2, <1>4, <1>5, WorkSet
<1>7. P \in SUBSET Parts /\ Work.cut = {}
  BY <1>3, AskTyped, ReplayTyped DEF Carried
<1>8. /\ g \in Trees /\ g.of = Work.of /\ g.cut = {} /\ g.rb = Work.rb
      /\ g.files = Work.files \cup {Golden(s)}
      /\ Replay(g) = Replay(Work) /\ Goldens(g) = Goldens(Work) \cup {s}
      /\ g.says[s] = P /\ \A u \in Services : u # s => g.says[u] = Work.says[u]
  BY <1>3, <1>6, <1>7, GoldenReplay
<1>9. Carried(g, src, {}, unread)
  BY <1>3, <1>8 DEF Carried
<1>10. NoSecrets(g)
  BY <1>3, <1>8 DEF Gilded, NoSecrets
<1>11. provePackReplay(g)
  <2>1. Goldens(Work) \subseteq Services
    BY DEF Goldens
  <2>2. \A u \in Goldens(Work) : u \in ListServices(Replay(Work))
                                 /\ Ask(Replay(Work), u) = Work.says[u]
    BY <1>3 DEF Gilded, provePackReplay
  <2> QED
    BY <1>4, <1>8, <2>1, <2>2 DEF provePackReplay
<1>12. todo' \subseteq {Golden(u) : u \in ListServices(Replay(g))}
  BY <1>1, <1>3, <1>8 DEF Gilded
<1>13. \A u \in Wanted(g) : u \in Goldens(g) \/ Golden(u) \in todo'
  <2>1. Wanted(g) = Wanted(Work)
    BY <1>8 DEF Wanted
  <2>2. \A u \in Wanted(Work) : u \in Goldens(Work) \/ Golden(u) \in todo
    BY <1>3 DEF Gilded
  <2> QED
    BY <1>1, <1>4, <1>8, <2>1, <2>2, NamesDiffer
<1> QED
  BY <1>2, <1>6, <1>9, <1>10, <1>11, <1>12, <1>13 DEF BuildInv, PackedIsWhole, Gilded

LEMMA ProveBuild ==
  ASSUME TypeInv, BuildInv, Prove
  PROVE  BuildInv'
<1>1. /\ pc = "golden" /\ todo = {} /\ UNCHANGED <<archive, unread, src, out>>
      /\ IF archive THEN pc' = "zip" /\ UNCHANGED work ELSE Quit("ok")
  BY DEF Prove, command
<1>2. Sealed(Work)
  BY <1>1, GildedWhole DEF BuildInv
<1>3. CASE archive
  BY <1>1, <1>2, <1>3 DEF BuildInv, Sealed, Work, PackedIsWhole
<1>4. CASE ~archive
  <2>1. pc' = "idle" /\ out.kind = "dir"
    BY <1>1, <1>4 DEF Quit, TypeInv, Shape
  <2>2. Whole(out.tree, src, unread)
    BY <1>2, <1>4 DEF Sealed, Work
  <2> QED
    BY <1>1, <1>4, <2>1, <2>2 DEF BuildInv, PackedIsWhole
<1> QED
  BY <1>3, <1>4

LEMMA ZipCreateBuild ==
  ASSUME TypeInv, BuildInv, ZipCreate
  PROVE  BuildInv'
<1>1. /\ pc = "zip" /\ pc' = "zipping" /\ todo' = work.files
      /\ out' = [kind |-> "torn", tree |-> [work EXCEPT !.files = {}]]
      /\ UNCHANGED <<work, src, unread>>
  BY DEF ZipCreate, At, Same, command
<1>2. Sealed(work)
  BY <1>1 DEF BuildInv
<1>3. out' = [kind |-> "torn", tree |-> [work EXCEPT !.files = @ \ todo']]
  <2>1. work \in Trees
    BY DEF TypeInv, TypeOK
  <2>2. work.files \ todo' = {}
    BY <1>1
  <2> QED
    BY <1>1, <2>1, <2>2 DEF Trees
<1>4. File("meta") \in todo'
  BY <1>1, <1>2 DEF Sealed, Whole
<1> QED
  BY <1>1, <1>2, <1>3, <1>4 DEF BuildInv, Zipping, Sealed, PackedIsWhole

LEMMA ZipFileBuild ==
  ASSUME TypeInv, BuildInv, ZipFile
  PROVE  BuildInv'
<1>1. pc = "zipping" /\ pc' = "zipping" /\ UNCHANGED <<work, src, unread>>
  BY DEF ZipFile, Same, command
<1>2. PICK f \in todo : /\ Foremost(f, todo, ZipOrder) /\ todo' = todo \ {f}
                        /\ out' = [out EXCEPT !.tree.files = @ \cup {f}]
  BY DEF ZipFile
<1>3. Sealed(work) /\ Zipping /\ todo \subseteq work.files /\ work \in Trees
  BY <1>1 DEF BuildInv, TypeInv, TypeOK, Shape
<1>4. out' = [kind |-> "torn", tree |-> [work EXCEPT !.files = @ \ todo']]
  <2>1. (work.files \ todo) \cup {f} = work.files \ todo'
    BY <1>2, <1>3
  <2>2. /\ out.kind = "torn" /\ out.tree.files = work.files \ todo
        /\ out'.tree.files = out.tree.files \cup {f}
    BY <1>2, <1>3 DEF Zipping, Trees
  <2> QED
    BY <1>2, <1>3, <2>1, <2>2 DEF Zipping, Trees
<1>5. ASSUME File("meta") \notin todo', NEW s \in Services, Golden(s) \in todo'
      PROVE  FALSE
  <2>1. File("meta") = f /\ Golden(s) \in todo
    BY <1>2, <1>3, <1>5 DEF Zipping
  <2>2. \/ ZipOrder["meta"] < ZipOrder["expected"]
        \/ ZipOrder["meta"] = ZipOrder["expected"]
    BY <1>2, <2>1 DEF Foremost, File, Golden
  <2> QED
    BY <2>2 DEF ZipOrder
<1> QED
  BY <1>1, <1>3, <1>4, <1>5 DEF BuildInv, Zipping, Sealed, PackedIsWhole

LEMMA ZipCloseBuild ==
  ASSUME TypeInv, BuildInv, ZipClose
  PROVE  BuildInv'
<1>1. /\ pc = "zipping" /\ pc' = "proveArchive" /\ todo = {}
      /\ out' = [out EXCEPT !.kind = "archive"] /\ UNCHANGED <<work, src, unread>>
  BY DEF ZipClose, At, Same, command
<1>2. Sealed(work) /\ Zipping /\ work \in Trees
  BY <1>1 DEF BuildInv, TypeInv, TypeOK
<1>3. out.tree = work
  BY <1>1, <1>2 DEF Zipping, Trees
<1>4. out' = [kind |-> "archive", tree |-> work]
  BY <1>1, <1>2, <1>3 DEF Zipping
<1> QED
  BY <1>1, <1>2, <1>4 DEF BuildInv, Sealed, PackedIsWhole

LEMMA ProveArchiveBuild ==
  ASSUME TypeInv, BuildInv, ProveArchive
  PROVE  BuildInv'
<1>1. pc = "proveArchive" /\ pc' = "idle" /\ UNCHANGED <<archive, out, src, unread>>
  BY DEF ProveArchive, Quit, command
<1>2. archive /\ out = [kind |-> "archive", tree |-> work] /\ Whole(work, src, unread)
  BY <1>1 DEF BuildInv, Sealed, TypeInv, Shape
<1> QED
  BY <1>1, <1>2 DEF BuildInv, PackedIsWhole

LEMMA NextBuild ==
  ASSUME TypeInv, BuildInv, [Next]_vars
  PROVE  BuildInv'
<1>1. CASE UNCHANGED vars
  BY <1>1 DEF vars, BuildInv, PackedIsWhole, Work, Zipping, Sealed, Gilded
<1>2. CASE Start
  BY <1>2 DEF Start, At, BuildInv, PackedIsWhole
<1>3. CASE Load
  BY <1>3 DEF Load, At, BuildInv, PackedIsWhole
<1>4. CASE MkdirTemp
  BY <1>4 DEF MkdirTemp, At, BuildInv, PackedIsWhole
<1>5. CASE CheckArchive \/ CheckBlind
  <2>1. archive /\ work = Bare(src)
    BY <1>5 DEF CheckArchive, CheckBlind, At, TypeInv, Shape, BuildInv
  <2>2. /\ pc' = "write" /\ Work' = Bare(src) /\ todo' = ToWrite(src) /\ src' = src
    BY <1>5, <2>1 DEF CheckArchive, CheckBlind, At, Same, command, Work
  <2> QED
    BY <2>2, FreshBuild
<1>6. CASE PrepareNew \/ ClearEnd
  <2>1. ~archive
    BY <1>6 DEF PrepareNew, ClearEnd, At, TypeInv, Shape
  <2>2. /\ pc' = "write" /\ Work' = Bare(src) /\ todo' = ToWrite(src) /\ src' = src
    BY <1>6, <2>1 DEF PrepareNew, ClearEnd, At, Same, command, Work
  <2> QED
    BY <2>2, FreshBuild
<1>7. CASE PrepareOld \/ ClearFile \/ ClearDirs
  BY <1>7 DEF PrepareOld, ClearFile, ClearDirs, At, BuildInv, PackedIsWhole
<1>8. CASE GivesUp
  BY <1>8, GivesUpFails DEF Fails, Quit, BuildInv, PackedIsWhole
<1>9. CASE ClearFails \/ MakeDirsFails \/ WriteFails \/ GoldenFails \/ ZipFails \/ Crash
  BY <1>9 DEF ClearFails, MakeDirsFails, WriteFails, GoldenFails, ZipFails, Crash, Quit, BuildInv, PackedIsWhole
<1> QED
  BY <1>1, <1>2, <1>3, <1>4, <1>5, <1>6, <1>7, <1>8, <1>9, MakeDirsBuild, WriteFileBuild, SkipRunbookBuild,
     ReadBackBuild, WriteGoldenBuild, ProveBuild, ZipCreateBuild, ZipFileBuild,
     ZipCloseBuild, ProveArchiveBuild DEF Next, GivesUp

\* When pack answers 0, the path holds a whole pack of the source (pack.go:96-123).
THEOREM ExitZeroIsWhole == Spec => []PackedIsWhole
<1>1. Init => TypeInv /\ BuildInv
  BY InitType DEF Init, BuildInv, PackedIsWhole
<1>2. TypeInv /\ BuildInv /\ [Next]_vars => (TypeInv /\ BuildInv)'
  BY NextType, NextBuild
<1>3. BuildInv => PackedIsWhole
  BY DEF BuildInv
<1> QED
  BY <1>1, <1>2, <1>3, PTL DEF Spec
-----------------------------------------------------------------------------
(* No recipient takes a part for the whole.                                *)

\* A complete pack is what it is said to be, of its own contents.
LEMMA SealedTrusted ==
  ASSUME NEW t \in Trees, Sealed(t)
  PROVE  /\ Whole(t, Replay(t), {})
         /\ Trusted([kind |-> "archive", tree |-> t])
<1>1. Whole(t, Replay(t), {})
  <2>1. PackedRunbooks(Replay(t)) \subseteq Replay(t)["runbook"]
    BY DEF PackedRunbooks
  <2> QED
    BY <2>1 DEF Sealed, Whole
<1>2. \A s \in Services : t.says[s] # {} => s \in Goldens(t)
  BY DEF Sealed, NoSecrets, Goldens
<1>3. provePackReplay(t)
  BY DEF Sealed, Whole
<1> QED
  BY <1>1, <1>2, <1>3 DEF Trusted, provePackReplay

\* A test that passes has looked at every golden that is there; so a part is
\* trusted when it has the clock only with all the goldens.
LEMMA PartTrusted ==
  ASSUME NEW t \in Trees, FixtureNow(t) => NoSecrets(t)
  PROVE  Trusted([kind |-> "archive", tree |-> t])
<1> SUFFICES ASSUME TestPasses([kind |-> "archive", tree |-> t]),
                    NEW s \in Services, t.says[s] # {}
             PROVE  /\ s \in Goldens(t)
                    /\ s \in ListServices(Replay(t)) => Ask(Replay(t), s) = t.says[s]
  BY DEF Trusted
<1>1. FixtureNow(t) /\ \A u \in Checked(t) : goldenIO(t, u)
  BY DEF TestPasses, Opens
<1>2. s \in Goldens(t)
  BY <1>1 DEF NoSecrets, Goldens
<1> QED
  BY <1>1, <1>2 DEF Checked, goldenIO

LEMMA ZipFailsReader ==
  ASSUME TypeInv, BuildInv, ZipFails, TypeInv'
  PROVE  ReaderSeesWhole'
<1>1. pc = "zipping" /\ short' = short \cup {out'.tree}
  BY DEF ZipFails
<1>2. PICK f \in todo :
        out' \in {out, [out EXCEPT !.kind = "archive"],
                  [out EXCEPT !.kind = "archive", !.tree.files = @ \cup {f},
                              !.tree.cut = @ \cup {f}]}
  BY DEF ZipFails
<1>3. Sealed(work) /\ Zipping /\ work \in Trees /\ work.cut = {}
  BY <1>1 DEF BuildInv, Sealed, Whole, TypeInv, TypeOK
<1>4. /\ out.kind = "torn" /\ out.tree.files = work.files \ todo
      /\ out.tree.says = work.says /\ out.tree.cut = {}
  BY <1>3 DEF Zipping, Trees
<1>5. CASE out' = out
  BY <1>4, <1>5 DEF ReaderSeesWhole
<1>6. CASE out' # out
  <2>1. out' = [kind |-> "archive", tree |-> out'.tree] /\ out'.tree \in Trees
    <3>1. out'.kind = "archive" /\ out' \in Paths
      BY <1>2, <1>4, <1>6 DEF TypeInv, TypeOK, Paths
    <3> QED
      BY <3>1 DEF Paths
  <2>2. /\ out'.tree.says = out.tree.says
        /\ \/ out'.tree.files = out.tree.files
           \/ /\ out'.tree.files = out.tree.files \cup {f}
              /\ out'.tree.cut = out.tree.cut \cup {f}
    <3>1. out \in Paths /\ out.tree \in Trees
      BY DEF TypeInv, TypeOK, Paths
    <3>2. CASE out' = [out EXCEPT !.kind = "archive"]
      BY <3>1, <3>2 DEF Paths
    <3>3. CASE out' = [out EXCEPT !.kind = "archive", !.tree.files = @ \cup {f},
                                  !.tree.cut = @ \cup {f}]
      BY <3>1, <3>3 DEF Paths, Trees
    <3> QED
      BY <1>2, <1>6, <3>2, <3>3
  <2>3. FixtureNow(out'.tree) => File("meta") \in out.tree.files
    BY <2>2 DEF FixtureNow, Read
  <2>4. FixtureNow(out'.tree) => NoSecrets(out'.tree)
    <3> SUFFICES ASSUME FixtureNow(out'.tree), NEW s \in Services, work.says[s] # {}
                 PROVE  Golden(s) \in out'.tree.files
      BY <1>4, <2>2 DEF NoSecrets
    <3>1. Golden(s) \in work.files /\ Golden(s) \notin todo
      BY <1>3, <1>4, <2>3 DEF Sealed, NoSecrets, Zipping
    <3> QED
      BY <1>4, <2>2, <3>1
  <2>5. Trusted(out')
    BY <2>1, <2>4, PartTrusted
  <2> QED
    BY <1>1, <2>5 DEF ReaderSeesWhole
<1> QED
  BY <1>5, <1>6

LEMMA NextReader ==
  ASSUME TypeInv, BuildInv, ReaderSeesWhole, [Next]_vars
  PROVE  ReaderSeesWhole'
<1>0. TypeInv' /\ BuildInv'
  BY NextType, NextBuild
<1>1. ASSUME UNCHANGED out, short \subseteq short'
      PROVE  ReaderSeesWhole'
  BY <1>1 DEF ReaderSeesWhole
<1>2. ASSUME out'.kind \in {"dir", "absent", "torn"}
      PROVE  ReaderSeesWhole'
  BY <1>2 DEF ReaderSeesWhole
<1>3. ASSUME UNCHANGED <<out, command, result, unread, unseen, short>>
      PROVE  ReaderSeesWhole'
  BY <1>1, <1>3
<1>4. CASE UNCHANGED vars \/ Start \/ Load \/ MkdirTemp \/ PrepareOld
  BY <1>1, <1>4 DEF vars, Start, Load, MkdirTemp, PrepareOld, Same
<1>5. CASE CheckBlind \/ SkipRunbook \/ ReadBack \/ Prove \/ ProveArchive \/ Crash
  BY <1>1, <1>5 DEF CheckBlind, SkipRunbook, ReadBack, Prove, ProveArchive, Crash, Same
<1>6. CASE GivesUp
  BY <1>1, <1>6, GivesUpFails DEF Fails
<1>7. CASE CheckArchive \/ PrepareNew \/ ClearEnd
  BY <1>2, <1>7 DEF CheckArchive, PrepareNew, ClearEnd, NoPath
<1>8. CASE ClearFile \/ ClearDirs \/ ClearFails
  <2>1. out.kind = "dir" /\ UNCHANGED short
    BY <1>8 DEF ClearFile, ClearDirs, ClearFails, TypeInv, Shape, Same
  <2>2. UNCHANGED out \/ out'.kind \in {"dir", "absent"}
    <3>1. CASE ClearFails
      <4>1. out' \in {out} \cup (IF Empty(out.tree) THEN {NoPath} ELSE {})
        BY <3>1 DEF ClearFails
      <4>2. out' = out \/ out' = NoPath
        BY <4>1
      <4> QED
        BY <4>2 DEF NoPath
    <3>2. CASE ClearFile
      <4>1. PICK f : out' = [out EXCEPT !.tree.files = @ \ {f}, !.tree.cut = @ \ {f}]
        BY <3>2 DEF ClearFile
      <4>2. out'.kind = out.kind
        BY <4>1, CutTyped DEF TypeInv, TypeOK
      <4> QED
        BY <2>1, <4>2
    <3>3. CASE ClearDirs
      BY <2>1, <3>3, DirsTyped DEF ClearDirs, TypeInv, TypeOK
    <3> QED
      BY <1>8, <3>1, <3>2, <3>3
  <2> QED
    BY <1>1, <1>2, <2>1, <2>2
<1>9. CASE MakeDirs \/ WriteFile \/ WriteGolden
  <2>1. PICK t : SetWork(t) /\ UNCHANGED short /\ pc \in {"write", "golden"}
    BY <1>9 DEF MakeDirs, WriteFile, WriteGolden, Same
  <2>2. CASE archive
    BY <1>1, <2>1, <2>2 DEF SetWork
  <2>3. CASE ~archive
    BY <1>2, <2>1, <2>3 DEF SetWork, TypeInv, TypeOK, Shape, Paths
  <2> QED
    BY <2>2, <2>3
<1>10. CASE MakeDirsFails \/ WriteFails \/ GoldenFails
  <2>1. CASE archive
    BY <1>1, <1>10, <2>1 DEF MakeDirsFails, WriteFails, GoldenFails
  <2>2. CASE ~archive
    <3>1. out.kind = "dir" /\ out'.kind = out.kind
      BY <1>10, <2>2 DEF MakeDirsFails, WriteFails, GoldenFails, TypeInv, TypeOK, Shape, Paths
    <3> QED
      BY <1>2, <3>1
  <2> QED
    BY <2>1, <2>2
<1>11. CASE ZipCreate
  BY <1>2, <1>11 DEF ZipCreate
<1>12. CASE ZipFile
  BY <1>0, <1>2, <1>12 DEF ZipFile, BuildInv, Zipping
<1>13. CASE ZipFails
  BY <1>0, <1>13, ZipFailsReader
<1>14. CASE ZipClose
  <2>1. out' = [kind |-> "archive", tree |-> work] /\ Sealed(work) /\ work \in Trees
    BY <1>0, <1>14 DEF ZipClose, At, BuildInv, TypeInv, TypeOK
  <2>2. Whole(work, Replay(work), {}) /\ Trusted(out')
    BY <2>1, SealedTrusted
  <2> QED
    BY <2>1, <2>2 DEF ReaderSeesWhole
<1> QED
  BY <1>4, <1>5, <1>6, <1>7, <1>8, <1>9, <1>10, <1>11, <1>12, <1>13, <1>14 DEF Next, GivesUp

\* An archive that can be opened is whole, or one that an error cut short, and a
\* test of it that passes has tested all (packzip.go:97-146).
THEOREM ReaderIsSafe == Spec => []ReaderSeesWhole
<1>1. Init => TypeInv /\ BuildInv /\ ReaderSeesWhole
  BY InitType, BeforeAssumption DEF Init, BuildInv, PackedIsWhole, ReaderSeesWhole
<1>2. TypeInv /\ BuildInv /\ ReaderSeesWhole /\ [Next]_vars
        => (TypeInv /\ BuildInv /\ ReaderSeesWhole)'
  BY NextType, NextBuild, NextReader
<1> QED
  BY <1>1, <1>2, PTL DEF Spec
-----------------------------------------------------------------------------
(* A command in which nothing fails has a reason to refuse.                *)

\* What a command in which nothing failed has not done.
CalmInv ==
  /\ calm /\ pc # "idle" => unread = {}
  /\ calm /\ pc \in {"write", "golden", "zip"} /\ archive => out.kind # "dir"
  /\ RetryWorks

\* In a command that fails, some call has failed.
LEMMA FaultCalm ==
  ASSUME Fault
  PROVE  CalmInv'
BY DEF Fault, CalmInv, RetryWorks

\* Pack refuses a fleet of which no service is worth a golden.
LEMMA ReadBackRefuses ==
  ASSUME TypeInv, BuildInv, CalmInv, pc = "write", todo = {}, calm,
         SickIn(Replay(Work)) = {},
         Replay(Work)["runbook"] \cap ListServices(Replay(Work)) = {}
  PROVE  SickIn(src) = {} /\ PackedRunbooks(src) \subseteq Shared(src)
<1>1. src \in Stores /\ Carried(Work, src, {}, unread) /\ unread = {}
  BY DEF TypeInv, TypeOK, BuildInv, CalmInv
<1>2. /\ PackedRunbooks(src) \ (unread \cup Shared(src)) \subseteq Replay(Work)["runbook"]
      /\ ListServices(Replay(Work)) = ListServices(src) /\ SickIn(Replay(Work)) = SickIn(src)
  BY <1>1, CarriedReplay
<1>3. PackedRunbooks(src) \subseteq ListServices(src)
  BY DEF PackedRunbooks
<1> QED
  BY <1>1, <1>2, <1>3

LEMMA GivesUpCalm ==
  ASSUME TypeInv, LostInv, BuildInv, CalmInv, GivesUp, NoFault
  PROVE  CalmInv'
<1>1. /\ pc # "idle" /\ pc' = "idle" /\ calm' = calm
      /\ UNCHANGED <<command, out, src, unread, unseen, short>>
  BY GivesUpFails DEF Fails, Quit, NoFault
<1> SUFFICES ASSUME calm
             PROVE  \/ before.kind # "absent" /\ ~cmd.force
                    \/ archive /\ before.kind = "dir" /\ ~Empty(before.tree)
                    \/ ~archive /\ before.kind # "absent" /\ ~MayOverwrite(before)
                    \/ cmd.from = "path" /\ (~Opens(before) \/ before.tree.cut # {})
                    \/ SickIn(src) = {} /\ PackedRunbooks(src) \subseteq Shared(src)
                    \/ archive /\ ~Fits(out.tree)
  BY <1>1 DEF CalmInv, RetryWorks, command
<1>2. ~Fault
  BY <1>1 DEF Fault
<1>3. CASE LoadFails
  BY <1>2, <1>3 DEF LoadFails, LostInv, Early
<1>4. CASE CheckFails
  BY <1>2, <1>4 DEF CheckFails, LostInv, Early, TypeInv, Shape
<1>5. CASE PrepareFails
  BY <1>2, <1>5 DEF PrepareFails, LostInv, Early, TypeInv, Shape
<1>6. CASE ReadBackFails
  BY <1>2, <1>6, ReadBackRefuses DEF ReadBackFails
<1>7. CASE ProveFails
  BY <1>2, <1>7 DEF ProveFails, BuildInv, Gilded
<1>8. CASE ZipCreateFails
  BY <1>2, <1>8 DEF ZipCreateFails, CalmInv, TypeInv, Shape
<1>9. CASE ZipCloseFails
  BY <1>2, <1>9 DEF ZipCloseFails
<1>10. CASE ProveArchiveFails
  <2>1. pc = "proveArchive" /\ archive
    BY <1>10 DEF ProveArchiveFails, TypeInv, Shape
  <2>2. out = [kind |-> "archive", tree |-> work] /\ Sealed(work)
    BY <2>1 DEF BuildInv
  <2>3. provePackReplay(out.tree) /\ FixtureNow(out.tree)
    BY <2>2 DEF Sealed, Whole, FixtureNow, Read
  <2>4. ~Fits(out.tree)
    BY <1>2, <1>10, <2>2, <2>3 DEF ProveArchiveFails, Opens
  <2> QED
    BY <2>1, <2>4
<1>11. CASE MkdirTempFails
  BY <1>2, <1>11 DEF MkdirTempFails
<1> QED
  BY <1>3, <1>4, <1>5, <1>6, <1>7, <1>8, <1>9, <1>10, <1>11 DEF GivesUp

LEMMA NextCalm ==
  ASSUME TypeInv, LostInv, BuildInv, CalmInv, [Next]_vars
  PROVE  CalmInv'
<1>1. CASE UNCHANGED vars
  BY <1>1 DEF vars, CalmInv, RetryWorks
<1>2. CASE Fault
  BY <1>2, FaultCalm
<1>3. CASE Start
  BY <1>3 DEF Start, At, CalmInv, RetryWorks
\* From here on, no call fails.
<1>4. ASSUME NoFault, UNCHANGED unread, pc # "idle", pc' \notin {"write", "golden", "zip"},
             pc' # "idle" \/ result' = "ok"
      PROVE  CalmInv'
  BY <1>4 DEF NoFault, CalmInv, RetryWorks
<1>5. CASE Load
  BY <1>4, <1>5 DEF Load, At, Same
<1>6. CASE MkdirTemp
  BY <1>4, <1>6 DEF MkdirTemp, At, Same
<1>7. CASE PrepareOld
  BY <1>4, <1>7 DEF PrepareOld, At, Same
<1>8. CASE ClearFile \/ ClearDirs
  BY <1>4, <1>8 DEF ClearFile, ClearDirs, Same
<1>9. CASE CheckArchive
  BY <1>9 DEF CheckArchive, At, Same, NoFault, NoPath, CalmInv, RetryWorks
<1>10. CASE PrepareNew \/ ClearEnd
  BY <1>10 DEF PrepareNew, ClearEnd, At, Same, command, NoFault, CalmInv, RetryWorks, TypeInv, Shape
<1>11. CASE MakeDirs \/ WriteFile \/ WriteGolden
  <2>1. PICK t : SetWork(t) /\ Same /\ NoFault /\ pc \in {"write", "golden"} /\ UNCHANGED pc
    BY <1>11 DEF MakeDirs, WriteFile, WriteGolden
  <2>2. archive' = archive /\ (archive => out' = out)
    BY <2>1 DEF SetWork, Same, command
  <2> QED
    BY <2>1, <2>2 DEF Same, NoFault, CalmInv, RetryWorks
<1>12. CASE ReadBack
  BY <1>12 DEF ReadBack, At, Same, command, NoFault, CalmInv, RetryWorks
<1>13. CASE Prove
  <2>1. CASE archive
    BY <1>13, <2>1 DEF Prove, command, NoFault, CalmInv, RetryWorks
  <2>2. CASE ~archive
    BY <1>4, <1>13, <2>2 DEF Prove, Quit
  <2> QED
    BY <2>1, <2>2
<1>14. CASE ZipCreate
  BY <1>4, <1>14 DEF ZipCreate, At, Same
<1>15. CASE ZipFile
  BY <1>4, <1>15 DEF ZipFile, Same
<1>16. CASE ZipClose
  BY <1>4, <1>16 DEF ZipClose, At, Same
<1>17. CASE ProveArchive
  BY <1>4, <1>17 DEF ProveArchive, Quit
<1>18. CASE GivesUp
  BY <1>2, <1>18, GivesUpFails, GivesUpCalm
<1>19. \/ CheckBlind \/ ClearFails \/ MakeDirsFails \/ WriteFails \/ SkipRunbook
       \/ GoldenFails \/ ZipFails \/ Crash
       => CalmInv'
  BY <1>2 DEF CheckBlind, ClearFails, MakeDirsFails, WriteFails, SkipRunbook, GoldenFails, ZipFails, Crash
<1> QED
  BY <1>1, <1>3, <1>5, <1>6, <1>7, <1>8, <1>9, <1>10, <1>11, <1>12, <1>13, <1>14, <1>15,
     <1>16, <1>17, <1>18, <1>19 DEF Next, GivesUp

\* Pack refuses for the path, the source or the size, and with --force for nothing
\* that is a pack or a file at the path (pack.go:80-83, 165-174).
THEOREM RefusesForAReason == Spec => []RetryWorks
<1>1. Init => TypeInv /\ LostInv /\ BuildInv /\ CalmInv
  BY InitType DEF Init, LostInv, Early, NothingLostUnasked, BuildInv, PackedIsWhole,
                  CalmInv, RetryWorks
<1>2. TypeInv /\ LostInv /\ BuildInv /\ CalmInv /\ [Next]_vars
        => (TypeInv /\ LostInv /\ BuildInv /\ CalmInv)'
  BY NextType, NextLost, NextBuild, NextCalm
<1>3. CalmInv => RetryWorks
  BY DEF CalmInv
<1> QED
  BY <1>1, <1>2, <1>3, PTL DEF Spec
=============================================================================
