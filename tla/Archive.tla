-------------------------------- MODULE Archive --------------------------------
(***************************************************************************)
(* `opsgraph pack`, step by step, onto a path that names an archive (.zip,  *)
(* .opsgraph) or a directory; system calls fail, the command is killed, and *)
(* it is run again. A recipient (`ask --fixture`, `test`) may open the     *)
(* archive at any time. The file that it has opened does not change any    *)
(* more, so what it is told depends on the state in which it opens.        *)
(*                                                                         *)
(* A store is, part by part, the services that the part has rows of. A     *)
(* pack is a tree of files; a file has the rows of the store it was made   *)
(* from, a golden has what the replay told of its service.                 *)
(***************************************************************************)
EXTENDS Integers, FiniteSets

CONSTANTS
  Services,   \* ids, a set of positive numbers
  slug,       \* the file name of a service's runbook, a number
  Plain,      \* services of which services.yaml says no more than the cluster
  Sick,       \* services that are degraded or unhealthy
  Packs,      \* the stores that may be packed
  Before,     \* what may be at the path
  maxPackFiles,
  Faults, Runs      \* bounds: failing calls, commands

Entities == {"services", "owners", "changes", "dependencies", "alerts", "k8s"}
\* "extra" is what WritePack does not write: namespaces, replica counts, notes.
Parts == Entities \cup {"runbook", "extra"}
Stores == [Parts -> SUBSET Services]
Slugs == {slug[s] : s \in Services}

File(name) == <<name, 0>>
Runbook(n) == <<"runbooks", n>>
Golden(s) == <<"expected", s>>
Files == {File(name) : name \in Entities \cup {"meta"}}
         \cup {Runbook(n) : n \in Slugs} \cup {Golden(s) : s \in Services}

\* rb is whose runbook a runbook file has, cut the files written in part, dirs
\* that there is a directory in it.
Trees == [of : Stores, files : SUBSET Files, rb : [Slugs -> Services \cup {0}],
          says : [Services -> SUBSET Parts], cut : SUBSET Files, dirs : BOOLEAN]
Paths == [kind : {"absent", "archive", "torn", "dir"}, tree : Trees]
Commands == [force : BOOLEAN, from : {"store", "path"}, store : Packs]

ASSUME ArchiveAssumption ==
  /\ Services \subseteq Nat \ {0} /\ slug \in [Services -> Nat]
  /\ Plain \subseteq Services /\ Sick \subseteq Services
  /\ Packs \subseteq Stores /\ Packs # {} /\ Before \subseteq Paths
  /\ maxPackFiles \in Nat /\ Faults \in Nat /\ Runs \in Nat

Nothing == [p \in Parts |-> {}]
Bare(st) == [of |-> st, files |-> {}, rb |-> [n \in Slugs |-> 0],
             says |-> [s \in Services |-> {}], cut |-> {}, dirs |-> FALSE]
NoPath == [kind |-> "absent", tree |-> Bare(Nothing)]

\* The orders in which WritePack writes and ZipPack zips, by name.
WriteOrder == [meta |-> 1, services |-> 2, owners |-> 3, changes |-> 4, dependencies |-> 5,
               alerts |-> 6, k8s |-> 7, runbooks |-> 8]
ZipOrder == [alerts |-> 1, changes |-> 2, dependencies |-> 3, expected |-> 4, k8s |-> 5,
             meta |-> 6, owners |-> 7, runbooks |-> 8, services |-> 9]
Foremost(f, S, order) ==
  f \in S /\ \A g \in S : \/ order[f[1]] < order[g[1]]
                          \/ order[f[1]] = order[g[1]] /\ f[2] <= g[2]

VARIABLES
  archive,       \* the path names an archive
  out,           \* what is at the path
  work,          \* the temporary directory, when it does
  cmd, pc, src, todo, result,
  faults, runs,  \* what is left of the bounds
  before, calm, unread, unseen, short    \* history of the command

command == <<archive, cmd, runs, before>>
vars == <<archive, out, work, cmd, pc, src, todo, result, faults, runs, before, calm,
          unread, unseen, short>>
-----------------------------------------------------------------------------
(* What a tree holds, and what is told of a service.                       *)

Read(t) == t.files \ t.cut

RunbooksOf(t) == {t.rb[n] : n \in {m \in Slugs : Runbook(m) \in Read(t)}} \ {0}

\* A file that is not there adds no rows.
RowsOf(t, p) == IF p \in Entities /\ File(p) \in Read(t) THEN t.of[p] ELSE {}

Replay(t) == [p \in Parts |-> IF p = "runbook" THEN RunbooksOf(t) ELSE RowsOf(t, p)]

ListServices(st) == st["services"] \cup st["k8s"] \cup st["dependencies"]

\* Ask and VerifyService, of a service that is listed.
Ask(st, s) ==
  {p \in Parts : s \in st[p]} \ (IF s \in Plain /\ s \in st["k8s"] THEN {"services"} ELSE {})

SickIn(st) == Sick \cap (st["services"] \cup st["k8s"])

Goldens(t) == {s \in Services : Golden(s) \in t.files}

provePackReplay(t) ==
  \A s \in Goldens(t) : s \in ListServices(Replay(t)) /\ Ask(Replay(t), s) = t.says[s]

\* UnzipPack's budget. (The other two, in bytes, act as this one does.)
Fits(t) == Cardinality(t.files) <= maxPackFiles

\* The clock, without which nothing is ingested.
FixtureNow(t) == File("meta") \in Read(t)

Opens(path) ==
  /\ path.kind \in {"archive", "dir"}
  /\ path.kind = "archive" => Fits(path.tree)
  /\ FixtureNow(path.tree)

\* `opsgraph test`: every service that is listed and has a runbook or a golden
\* is compared. (A file cut short that does not parse is an error.)
Checked(t) ==
  {s \in ListServices(Replay(t)) : s \in Replay(t)["runbook"] \/ s \in Goldens(t)}

goldenIO(t, s) == Golden(s) \in Read(t) /\ Ask(Replay(t), s) = t.says[s]

TestPasses(path) ==
  /\ Opens(path) /\ Checked(path.tree) # {}
  /\ \A s \in Checked(path.tree) : goldenIO(path.tree, s)

\* The runbooks that WritePack asks for. (A runbook's service need not be listed.)
PackedRunbooks(st) == st["runbook"] \cap ListServices(st)

\* Services whose runbooks would get one file.
Shared(st) == {s \in PackedRunbooks(st) : \E t \in PackedRunbooks(st) : t # s /\ slug[t] = slug[s]}

\* All of a store that a pack carries, but for the runbooks in lost, with goldens
\* that agree.
Whole(t, st, lost) ==
  LET back == Replay(t)
  IN /\ t.cut = {} /\ File("meta") \in t.files
     /\ \A p \in Entities : back[p] = st[p]
     /\ PackedRunbooks(st) \ (lost \cup Shared(st)) \subseteq back["runbook"]
     /\ SickIn(back) \cup (back["runbook"] \cap ListServices(back)) \subseteq Goldens(t)
     /\ provePackReplay(t)

\* What a recipient may think of an archive. (If its test passes, no golden is
\* missing, and every service that is listed and has one has its answer.)
Trusted(path) ==
  TestPasses(path) =>
    \A s \in Services : path.tree.says[s] # {} =>
      /\ s \in Goldens(path.tree)
      /\ s \in ListServices(Replay(path.tree)) => Ask(Replay(path.tree), s) = path.tree.says[s]

\* An archive that was there before is one that this command made.
ASSUME BeforeAssumption ==
  \A b \in Before : b.kind = "archive" => Trusted(b) /\ Whole(b.tree, Replay(b.tree), {})
-----------------------------------------------------------------------------
Init ==
  /\ archive \in BOOLEAN /\ out \in Before /\ before = out
  /\ work = NoPath.tree /\ cmd \in [force : {FALSE}, from : {"store"}, store : Packs]
  /\ pc = "idle" /\ src = Nothing /\ todo = {} /\ result = "none"
  /\ faults = Faults /\ runs = Runs
  /\ calm = TRUE /\ unread = {} /\ unseen = FALSE /\ short = {}

At(from, to) == pc = from /\ pc' = to
Same == UNCHANGED <<command, result, unread, unseen, short>>
NoFault == UNCHANGED <<faults, calm>>
Fault == faults > 0 /\ faults' = faults - 1 /\ calm' = FALSE

\* The deferred calls release the store and the temporary directory.
Quit(answer) == pc' = "idle" /\ result' = answer /\ todo' = {} /\ work' = NoPath.tree

\* The command gives up at a step, and leaves the path as it is.
Fails == Quit("error") /\ UNCHANGED <<command, out, src, unread, unseen, short>>

\* The directory that is being written.
Work == IF archive THEN work ELSE out.tree
SetWork(t) ==
  IF archive THEN work' = t /\ UNCHANGED out
  ELSE out' = [out EXCEPT !.tree = t] /\ UNCHANGED work
-----------------------------------------------------------------------------
(* The source, and the place.                                              *)

Start ==
  /\ At("idle", "load") /\ runs > 0 /\ runs' = runs - 1
  /\ cmd' \in Commands
  /\ before' = out /\ result' = "none" /\ src' = Nothing
  /\ calm' = TRUE /\ unread' = {} /\ unseen' = FALSE
  /\ UNCHANGED <<archive, out, work, todo, faults, short>>

Load ==
  /\ At("load", IF archive THEN "temp" ELSE "prepare")
  /\ cmd.from = "path" => Opens(out)
  /\ src' = IF cmd.from = "store" THEN cmd.store ELSE Replay(out.tree)
  /\ Same /\ NoFault /\ UNCHANGED <<out, work, todo>>

LoadFails ==
  /\ pc = "load"
  /\ \/ cmd.from = "path" /\ (~Opens(out) \/ out.tree.cut # {}) /\ NoFault
     \/ Fault
  /\ Fails

MkdirTemp ==
  /\ At("temp", "check") /\ work' = Bare(src)
  /\ Same /\ NoFault /\ UNCHANGED <<out, src, todo>>

MkdirTempFails == pc = "temp" /\ Fault /\ Fails

\* Mutant: every runbook of the table is written.
ToWriteAll(st) ==
  {File(name) : name \in Entities \cup {"meta"}} \cup {<<"runbooks", s>> : s \in st["runbook"]}

ToWrite(st) ==
  {File(name) : name \in Entities \cup {"meta"}} \cup {<<"runbooks", s>> : s \in PackedRunbooks(st)}

Empty(t) == t.files = {} /\ ~t.dirs

\* Nothing is there, or --force removes it; a directory only when it is empty.
CheckArchive ==
  /\ At("check", "write")
  /\ \/ out.kind = "absent"
     \/ cmd.force /\ (out.kind = "dir" => Empty(out.tree))
  /\ out' = NoPath /\ todo' = ToWrite(src)
  /\ Same /\ NoFault /\ UNCHANGED <<src, work>>

\* A path that cannot be looked at is taken for a free one.
CheckBlind ==
  /\ At("check", "write") /\ Fault
  /\ unseen' = TRUE /\ todo' = ToWrite(src)
  /\ UNCHANGED <<command, result, unread, short, out, src, work>>

CheckFails ==
  /\ pc = "check"
  /\ \/ out.kind # "absent" /\ ~cmd.force /\ NoFault
     \/ out.kind = "dir" /\ ~Empty(out.tree) /\ NoFault
     \/ Fault
  /\ Fails

\* Mutant: a directory is taken for a pack as it is.
MayOverwriteAny(path) == path.kind = "dir"

\* preparePackDir: only a pack, or an empty directory, is removed.
MayOverwrite(path) ==
  path.kind = "dir" /\ (File("meta") \in path.tree.files \/ Empty(path.tree))

PrepareNew ==
  /\ At("prepare", "write") /\ out.kind = "absent"
  /\ out' = [kind |-> "dir", tree |-> Bare(src)] /\ todo' = ToWrite(src)
  /\ Same /\ NoFault /\ UNCHANGED <<src, work>>

PrepareOld ==
  /\ At("prepare", "clear") /\ cmd.force /\ MayOverwrite(out)
  /\ Same /\ NoFault /\ UNCHANGED <<out, src, work, todo>>

PrepareFails ==
  /\ pc = "prepare"
  /\ \/ out.kind # "absent" /\ ~(cmd.force /\ MayOverwrite(out)) /\ NoFault
     \/ Fault
  /\ Fails

\* os.RemoveAll, in the order of the directory. (A directory in it that goes
\* before the last file is as one that goes after it.)
ClearFile ==
  /\ pc = "clear"
  /\ \E f \in out.tree.files : out' = [out EXCEPT !.tree.files = @ \ {f}, !.tree.cut = @ \ {f}]
  /\ Same /\ NoFault /\ UNCHANGED <<pc, src, work, todo>>

ClearDirs ==
  /\ pc = "clear" /\ out.tree.files = {} /\ out.tree.dirs
  /\ out' = [out EXCEPT !.tree.dirs = FALSE]
  /\ Same /\ NoFault /\ UNCHANGED <<pc, src, work, todo>>

ClearEnd ==
  /\ At("clear", "write") /\ Empty(out.tree)
  /\ out' = [kind |-> "dir", tree |-> Bare(src)] /\ todo' = ToWrite(src)
  /\ Same /\ NoFault /\ UNCHANGED <<src, work>>

\* The directory cannot be removed, or not be made again.
ClearFails ==
  /\ pc = "clear" /\ Fault /\ Quit("error")
  /\ out' \in {out} \cup (IF Empty(out.tree) THEN {NoPath} ELSE {})
  /\ UNCHANGED <<command, src, unread, unseen, short>>
-----------------------------------------------------------------------------
(* WritePack, the read back, the goldens.                                  *)

\* With the directories k8s and runbooks.
Furnished(t) == [t EXCEPT !.dirs = TRUE]

MakeDirs ==
  /\ pc = "write" /\ ~Work.dirs /\ SetWork(Furnished(Work))
  /\ Same /\ NoFault /\ UNCHANGED <<pc, src, todo>>

\* Mutant: a runbook's file has the service's own name.
TargetUnslugged(f) == f

\* The file that an entry of the list of things to write makes.
Target(f) == IF f[1] = "runbooks" THEN Runbook(slug[f[2]]) ELSE f

Written(t, f) ==
  [t EXCEPT !.files = @ \cup {Target(f)}, !.cut = @ \ {Target(f)},
            !.rb = IF f[1] = "runbooks" THEN [@ EXCEPT ![slug[f[2]]] = f[2]] ELSE @]

WriteFile ==
  /\ pc = "write" /\ Work.dirs /\ UNCHANGED pc
  /\ \E f \in todo : /\ Foremost(f, todo, WriteOrder)
                     /\ todo' = todo \ {f} /\ SetWork(Written(Work, f))
  /\ Same /\ NoFault /\ UNCHANGED src

\* Mutant: a file that cannot be written is left out.
WriteFailsOn ==
  /\ pc = "write" /\ Fault /\ UNCHANGED pc
  /\ \E f \in todo : Foremost(f, todo, WriteOrder) /\ todo' = todo \ {f}
  /\ Same /\ UNCHANGED <<src, out, work>>

\* One of the two directories is there, or none.
MakeDirsFails ==
  /\ pc = "write" /\ ~Work.dirs /\ Fault /\ Quit("error")
  /\ out' \in IF archive THEN {out} ELSE {out, [out EXCEPT !.tree.dirs = TRUE]}
  /\ UNCHANGED <<command, src, unread, unseen, short>>

\* The file is not there, or a part of it is.
WriteFails ==
  /\ pc = "write" /\ Work.dirs /\ todo # {} /\ Fault /\ Quit("error")
  /\ \E f \in todo :
       /\ Foremost(f, todo, WriteOrder)
       /\ out' \in IF archive THEN {out}
                   ELSE {out, [out EXCEPT !.tree.files = @ \cup {Target(f)},
                                          !.tree.cut = @ \cup {Target(f)}]}
  /\ UNCHANGED <<command, src, unread, unseen, short>>

\* A runbook that cannot be read is left out.
SkipRunbook ==
  /\ pc = "write" /\ Fault /\ UNCHANGED pc
  /\ \E f \in todo : /\ Foremost(f, todo, WriteOrder) /\ f[1] = "runbooks"
                     /\ todo' = todo \ {f} /\ unread' = unread \cup {f[2]}
  /\ UNCHANGED <<command, result, unseen, short, src, out, work>>

\* The services that get a golden: sick, with a runbook, or the hottest one.
ReadBack ==
  /\ At("write", "golden") /\ todo = {}
  /\ LET back == Replay(Work)
     IN \E hottest \in {{}} \cup {{s} : s \in ListServices(back)} :
          LET want == hottest \cup SickIn(back) \cup (back["runbook"] \cap ListServices(back))
          IN want # {} /\ todo' = {Golden(s) : s \in want}
  /\ Same /\ NoFault /\ UNCHANGED <<src, out, work>>

\* It fails, or there is no service to write a golden for.
ReadBackFails ==
  /\ pc = "write" /\ todo = {}
  /\ \/ SickIn(Replay(Work)) = {} /\ Replay(Work)["runbook"] \cap ListServices(Replay(Work)) = {}
        /\ NoFault
     \/ Fault
  /\ Fails

\* With the golden of a service, and what it says.
Gilt(t, s, told) == [t EXCEPT !.files = @ \cup {Golden(s)}, !.says[s] = told]

\* Mutant: the goldens are those of the source.
WriteGoldenOfSource ==
  /\ pc = "golden" /\ UNCHANGED pc
  /\ \E f \in todo :
       /\ Foremost(f, todo, ZipOrder) /\ todo' = todo \ {f}
       /\ SetWork(Gilt(Work, f[2], Ask(src, f[2])))
  /\ Same /\ NoFault /\ UNCHANGED src

WriteGolden ==
  /\ pc = "golden" /\ UNCHANGED pc
  /\ \E f \in todo :
       /\ Foremost(f, todo, ZipOrder) /\ todo' = todo \ {f}
       /\ SetWork(Gilt(Work, f[2], Ask(Replay(Work), f[2])))
  /\ Same /\ NoFault /\ UNCHANGED src

GoldenFails ==
  /\ pc = "golden" /\ Fault /\ Quit("error")
  /\ \/ UNCHANGED out
     \/ /\ ~archive
        /\ \E f \in todo : out' = [out EXCEPT !.tree.files = @ \cup {f}, !.tree.cut = @ \cup {f}]
  /\ UNCHANGED <<command, src, unread, unseen, short>>

Prove ==
  /\ pc = "golden" /\ todo = {} /\ provePackReplay(Work)
  /\ IF archive THEN pc' = "zip" /\ UNCHANGED <<result, todo, work>> ELSE Quit("ok")
  /\ UNCHANGED <<command, unread, unseen, short, src, out>> /\ NoFault

ProveFails ==
  /\ pc = "golden" /\ todo = {}
  /\ \/ ~provePackReplay(Work) /\ NoFault
     \/ Fault
  /\ Fails
-----------------------------------------------------------------------------
(* ZipPack, and the proof of the archive.                                  *)

ZipCreate ==
  /\ At("zip", "zipping") /\ out.kind # "dir"
  /\ out' = [kind |-> "torn", tree |-> [work EXCEPT !.files = {}]]
  /\ todo' = work.files
  /\ Same /\ NoFault /\ UNCHANGED <<src, work>>

ZipCreateFails ==
  /\ pc = "zip"
  /\ \/ out.kind = "dir" /\ NoFault
     \/ Fault
  /\ Fails

\* Mutant: in the order in which they were written.
ZipFileUnsorted ==
  /\ pc = "zipping" /\ UNCHANGED pc
  /\ \E f \in todo : /\ f[1] = "expected" => \A g \in todo : g[1] = "expected"
                     /\ todo' = todo \ {f}
                     /\ out' = [out EXCEPT !.tree.files = @ \cup {f}]
  /\ Same /\ NoFault /\ UNCHANGED <<src, work>>

ZipFile ==
  /\ pc = "zipping" /\ UNCHANGED pc
  /\ \E f \in todo : /\ Foremost(f, todo, ZipOrder) /\ todo' = todo \ {f}
                     /\ out' = [out EXCEPT !.tree.files = @ \cup {f}]
  /\ Same /\ NoFault /\ UNCHANGED <<src, work>>

\* The error path closes the writer, which makes a valid archive of the files
\* so far and the part of one; only when that fails too is it torn.
ZipFails ==
  /\ pc = "zipping" /\ Fault /\ Quit("error")
  /\ \E f \in todo :
       /\ Foremost(f, todo, ZipOrder)
       /\ out' \in {out, [out EXCEPT !.kind = "archive"],
                    [out EXCEPT !.kind = "archive", !.tree.files = @ \cup {f},
                                !.tree.cut = @ \cup {f}]}
  /\ short' = short \cup {out'.tree}
  /\ UNCHANGED <<command, src, unread, unseen>>

ZipClose ==
  /\ At("zipping", "proveArchive") /\ todo = {}
  /\ out' = [out EXCEPT !.kind = "archive"]
  /\ Same /\ NoFault /\ UNCHANGED <<src, work, todo>>

ZipCloseFails == pc = "zipping" /\ todo = {} /\ Fault /\ Fails

ProveArchive ==
  /\ pc = "proveArchive" /\ Opens(out) /\ provePackReplay(out.tree)
  /\ Quit("ok") /\ NoFault
  /\ UNCHANGED <<command, unread, unseen, short, src, out>>

ProveArchiveFails ==
  /\ pc = "proveArchive"
  /\ \/ ~(Opens(out) /\ provePackReplay(out.tree)) /\ NoFault
     \/ Fault
  /\ Fails

\* The temporary directory stays.
Crash ==
  /\ pc # "idle" /\ Fault /\ pc' = "idle" /\ result' = "crash" /\ todo' = {}
  /\ work' = NoPath.tree
  /\ UNCHANGED <<command, out, src, unread, unseen, short>>

Next ==
  \/ Start \/ Load \/ LoadFails \/ MkdirTemp \/ MkdirTempFails
  \/ CheckArchive \/ CheckBlind \/ CheckFails
  \/ PrepareNew \/ PrepareOld \/ PrepareFails \/ ClearFile \/ ClearDirs \/ ClearEnd \/ ClearFails
  \/ MakeDirs \/ MakeDirsFails \/ WriteFile \/ WriteFails \/ SkipRunbook \/ ReadBack \/ ReadBackFails
  \/ WriteGolden \/ GoldenFails \/ Prove \/ ProveFails
  \/ ZipCreate \/ ZipCreateFails \/ ZipFile \/ ZipFails \/ ZipClose \/ ZipCloseFails
  \/ ProveArchive \/ ProveArchiveFails \/ Crash
Spec == Init /\ [][Next]_vars
-----------------------------------------------------------------------------
TypeOK ==
  /\ archive \in BOOLEAN /\ out \in Paths /\ work \in Trees
  /\ cmd \in Commands
  /\ pc \in {"idle", "load", "temp", "check", "prepare", "clear", "write", "golden", "zip",
             "zipping", "proveArchive"}
  /\ src \in Stores /\ todo \subseteq Files \cup {<<"runbooks", s>> : s \in Services}
  /\ result \in {"none", "ok", "error", "crash"}
  /\ faults \in Nat /\ runs \in Nat /\ before \in Paths /\ calm \in BOOLEAN
  /\ unread \subseteq Services /\ unseen \in BOOLEAN /\ short \subseteq Trees

\* pack.go:96-123. Exit 0 means that the path holds all that the source held
\* and that a pack carries, and goldens for every service that needs one, which
\* every replay reproduces. (Three kinds of runbooks are dropped in silence: of
\* a service that is not listed, one that could not be read, and one that shares
\* its file name with another.)
PackedIsWhole ==
  pc = "idle" /\ result = "ok" =>
    /\ out.kind = IF archive THEN "archive" ELSE "dir"
    /\ Whole(out.tree, src, unread)

\* pack.go:66-78, 151-179. What is at the path is lost only under --force, only
\* when it is a file or a pack, and only when the source has been read: not by
\* a command that cannot do its work. (Or if the path could not be looked at.)
NothingLostUnasked ==
  out # before =>
    \/ before.kind = "absent"
    \/ unseen
    \/ /\ cmd.force
       /\ before.kind = "dir" => Empty(before.tree) \/ File("meta") \in before.tree.files
       /\ src = IF cmd.from = "store" THEN cmd.store ELSE Replay(before.tree)

\* packzip.go:97-146. Whenever a recipient opens the archive, it is a whole pack or
\* one that an error cut short, never one that is being written. If the test of
\* it passes, no golden of the pack is missing, and every service that is listed
\* and has one has the answer that the packer had.
ReaderSeesWhole ==
  out.kind = "archive" =>
    /\ out.tree \notin short => Whole(out.tree, Replay(out.tree), {})
    /\ Trusted(out)

\* pack.go:80-83, 165-174. A command in which no call fails has a reason to
\* refuse: with --force, only that what is at the path is a directory which is
\* no pack (as one that was killed before meta.yaml leaves it), that the source
\* cannot be read, or what is in the source; never a part that an earlier
\* command left behind, nor a golden that its own replay does not reproduce.
RetryWorks ==
  pc = "idle" /\ result = "error" /\ calm =>
    \/ before.kind # "absent" /\ ~cmd.force
    \/ archive /\ before.kind = "dir" /\ ~Empty(before.tree)
    \/ ~archive /\ before.kind # "absent" /\ ~MayOverwrite(before)
    \/ cmd.from = "path" /\ (~Opens(before) \/ before.tree.cut # {})
    \/ SickIn(src) = {} /\ PackedRunbooks(src) \subseteq Shared(src)
    \/ archive /\ ~Fits(out.tree)
=============================================================================
