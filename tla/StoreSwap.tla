----------------------------- MODULE StoreSwap -----------------------------
(***************************************************************************)
(* The life of <data_dir>/state.db under `opsgraph ingest --replace`:      *)
(* store.Open and store.ReplaceFromFile (internal/store/store.go), one     *)
(* action per effect on the file system, so that another process, a failed *)
(* system call or a crash can come between any two of them.                *)
(*                                                                         *)
(* A file holds one whole snapshot of the incident graph, the Blank schema *)
(* that Open creates, or Torn: bytes that are not all there, or that no    *)
(* fsync has made durable yet.                                             *)
(***************************************************************************)
EXTENDS Naturals

CONSTANTS
  Snapshots,    \* graphs a scrape can leave in the temporary source store
  Blank,        \* a store with the schema and no rows
  Torn,         \* a file whose bytes a crash need not preserve
  Absent,       \* no file of that name
  Closed,       \* the handle s.db once it is closed
  MaxFaults,    \* bound: system calls that fail in one call of ReplaceFromFile
  MaxCrashes,   \* bound: crashes of the ingesting process
  OtherOpens    \* TRUE when other opsgraph processes open the store

ASSUME SwapAssumption ==
  /\ Blank \notin Snapshots
  /\ {Torn, Absent, Closed} \cap (Snapshots \cup {Blank}) = {}
  /\ Torn # Absent /\ Torn # Closed /\ Absent # Closed
  /\ MaxFaults \in Nat /\ MaxCrashes \in Nat /\ OtherOpens \in BOOLEAN

Files  == {"db", "tmp", "bak"}              \* state.db, state.db.tmp, state.db.bak
Whole  == Snapshots \cup {Blank}            \* what store.Open accepts
Steps  == {"down", "ready", "openSource", "createTmp", "copyTmp", "syncTmp",
           "closeTmp", "dropTmp", "dropBak", "backup", "install", "dropTmpUndo",
           "undo", "reopenPrev", "reopen", "restore", "reopenRestored",
           "dropOldBak", "returned"}

VARIABLES
  disk,     \* what each file holds
  pc,       \* where the ingesting process is
  handle,   \* the file content s.db is open on, or Closed
  prev,     \* history: state.db when ReplaceFromFile was called
  target,   \* the snapshot the call installs
  faults,   \* system calls that failed in this call
  result,   \* what ReplaceFromFile returned: "none", "ok" or "err"
  seen,     \* what the last process that opened state.db found
  crashes

vars == <<disk, pc, handle, prev, target, faults, result, seen, crashes>>

-----------------------------------------------------------------------------

Init ==
  /\ disk \in [Files -> Whole \cup {Absent}]
  /\ disk["tmp"] = Absent /\ disk["bak"] = Absent
  /\ pc = "down"
  /\ handle = Closed
  /\ prev = disk["db"] /\ target = disk["db"]
  /\ faults = 0 /\ crashes = 0
  /\ result = "none"
  /\ seen = Closed

\* sql.Open with the schema statements: a missing file becomes a blank store.
Created == [disk EXCEPT !["db"] = IF @ = Absent THEN Blank ELSE @]

\* os.Rename(from, to): the target is replaced; a missing source changes nothing.
Renamed(from, to) ==
  IF disk[from] = Absent THEN disk
  ELSE [disk EXCEPT ![to] = disk[from], ![from] = Absent]

Removed(f) == [disk EXCEPT ![f] = Absent]

Goto(from, to) == pc = from /\ pc' = to

\* The step's system calls work.
Works == faults' = faults
\* One of them fails; MaxFaults bounds how often that happens in one call.
Fails == faults < MaxFaults /\ faults' = faults + 1

Call  == <<prev, target, seen, crashes>>      \* fixed while a call runs
Local == <<handle, result>>                   \* fixed until the call returns

Return(r, h) ==
  /\ pc' = "returned"
  /\ result' = r
  /\ handle' = h

-----------------------------------------------------------------------------
(* The process: cmd/opsgraph/ingest.go around one call of ReplaceFromFile.  *)

\* store.Open(dir)
Open ==
  /\ Goto("down", "ready")
  /\ disk["db"] # Torn
  /\ disk' = Created
  /\ handle' = Created["db"]
  /\ result' = "none"
  /\ UNCHANGED <<prev, target, faults, seen, crashes>>

\* s.db.Close() is the first effect of the call; when it fails the call returns.
Begin(snapshot) ==
  /\ pc = "ready"
  /\ prev' = disk["db"]
  /\ target' = snapshot
  /\ handle' = Closed
  /\ \/ pc' = "openSource" /\ faults' = 0 /\ result' = "none"
     \/ MaxFaults > 0 /\ pc' = "returned" /\ faults' = 1 /\ result' = "err"
  /\ UNCHANGED <<disk, seen, crashes>>

\* The command ends: the deferred s.Close().
Exit ==
  /\ \/ Goto("returned", "down")
     \/ Goto("ready", "down")       \* LiveIngest failed before the swap
  /\ handle' = Closed
  /\ UNCHANGED <<disk, prev, target, faults, result, seen, crashes>>

Crash ==
  /\ pc # "down"
  /\ crashes < MaxCrashes
  /\ crashes' = crashes + 1
  /\ pc' = "down"
  /\ handle' = Closed
  /\ result' = "none"
  /\ UNCHANGED <<disk, prev, target, faults, seen>>

\* Another process (ask --data-dir, a second ingest, ...) runs store.Open.
OtherOpen ==
  /\ OtherOpens
  /\ disk["db"] # Torn
  /\ disk' = Created
  /\ seen' = Created["db"]
  /\ UNCHANGED <<pc, handle, prev, target, faults, result, crashes>>

-----------------------------------------------------------------------------
(* ReplaceFromFile.                                                         *)

OpenSource ==
  /\ \/ Goto("openSource", "createTmp") /\ Works
     \/ Goto("openSource", "reopenPrev") /\ Fails
  /\ UNCHANGED <<disk, Local, Call>>

\* O_CREATE|O_TRUNC: a tmp file a crash left behind is emptied.
CreateTmp ==
  /\ \/ /\ Goto("createTmp", "copyTmp") /\ Works
        /\ disk' = [disk EXCEPT !["tmp"] = Torn]
     \/ /\ Goto("createTmp", "reopenPrev") /\ Fails
        /\ UNCHANGED disk
  /\ UNCHANGED <<Local, Call>>

\* Mutant: the copy is not synced.
CopyTmpUnsynced ==
  /\ \/ Goto("copyTmp", "closeTmp") /\ Works
     \/ Goto("copyTmp", "dropTmp") /\ Fails
  /\ UNCHANGED <<disk, Local, Call>>

CopyTmp ==
  /\ \/ Goto("copyTmp", "syncTmp") /\ Works
     \/ Goto("copyTmp", "dropTmp") /\ Fails
  /\ UNCHANGED <<disk, Local, Call>>

\* Only the fsync makes the copied bytes a whole snapshot.
SyncTmp ==
  /\ \/ /\ Goto("syncTmp", "closeTmp") /\ Works
        /\ disk' = [disk EXCEPT !["tmp"] = target]
     \/ /\ Goto("syncTmp", "dropTmp") /\ Fails
        /\ UNCHANGED disk
  /\ UNCHANGED <<Local, Call>>

CloseTmp ==
  /\ \/ Goto("closeTmp", "dropBak") /\ Works
     \/ Goto("closeTmp", "dropTmp") /\ Fails
  /\ UNCHANGED <<disk, Local, Call>>

\* os.Remove(tmp) on an error path; its own failure is ignored.
DropTmp ==
  /\ \/ Goto("dropTmp", "reopenPrev")
     \/ Goto("dropTmpUndo", "undo")
  /\ \/ Works /\ disk' = Removed("tmp")
     \/ Fails /\ UNCHANGED disk
  /\ UNCHANGED <<Local, Call>>

\* os.Remove(bak) before the backup; a failure is ignored.
DropBak ==
  /\ Goto("dropBak", "backup")
  /\ \/ Works /\ disk' = Removed("bak")
     \/ Fails /\ UNCHANGED disk
  /\ UNCHANGED <<Local, Call>>

\* Mutant: the old store is removed instead of renamed.
BackupRemoves ==
  /\ \/ Goto("backup", "install") /\ Works /\ disk' = Removed("db")
     \/ Goto("backup", "dropTmp") /\ Fails /\ UNCHANGED disk
  /\ UNCHANGED <<Local, Call>>

\* os.Rename(path, bak); a missing path is tolerated.
Backup ==
  /\ \/ Goto("backup", "install") /\ Works /\ disk' = Renamed("db", "bak")
     \/ Goto("backup", "dropTmp") /\ Fails /\ UNCHANGED disk
  /\ UNCHANGED <<Local, Call>>

\* os.Rename(tmp, path)
Install ==
  /\ \/ Goto("install", "reopen") /\ Works /\ disk' = Renamed("tmp", "db")
     \/ Goto("install", "dropTmpUndo") /\ Fails /\ UNCHANGED disk
  /\ UNCHANGED <<Local, Call>>

\* Mutant: the backup is not renamed back.
UndoForgotten ==
  /\ Goto("undo", "reopenPrev") /\ Works
  /\ UNCHANGED <<disk, Local, Call>>

\* The backup, when there is one, is renamed back; a failure is ignored.
Undo ==
  /\ Goto("undo", "reopenPrev")
  /\ \/ Works /\ disk' = Renamed("bak", "db")
     \/ Fails /\ UNCHANGED disk
  /\ UNCHANGED <<Local, Call>>

\* reopenPrev(cause): open(s.path), then the cause is returned either way.
ReopenPrev ==
  /\ pc = "reopenPrev"
  /\ \/ /\ Works /\ disk["db"] # Torn
        /\ disk' = Created
        /\ Return("err", Created["db"])
     \/ /\ Fails
        /\ disk' \in {disk, Created}      \* it may fail after the file was made
        /\ Return("err", Closed)
  /\ UNCHANGED Call

\* open(s.path) on the installed file
Reopen ==
  /\ \/ /\ Goto("reopen", "dropOldBak") /\ Works
        /\ disk["db"] # Torn /\ disk' = Created
     \/ /\ Goto("reopen", "restore") /\ Fails
        /\ disk' \in {disk, Created}
  /\ UNCHANGED <<Local, Call>>

\* The new file did not open: the backup, when there is one, goes back over it.
Restore ==
  /\ pc = "restore"
  /\ IF disk["bak"] = Absent
     THEN Works /\ UNCHANGED disk /\ Return("err", Closed)
     ELSE /\ pc' = "reopenRestored"
          /\ UNCHANGED Local
          /\ \/ Works /\ disk' = Renamed("bak", "db")
             \/ Fails /\ UNCHANGED disk        \* ignored
  /\ UNCHANGED Call

\* Mutant: the handle on the file that was installed is kept.
ReopenRestoredStale ==
  /\ pc = "reopenRestored"
  /\ Works /\ disk["db"] # Torn /\ disk' = Created
  /\ Return("err", target)
  /\ UNCHANGED Call

\* Success or not, the error of the first open is returned.
ReopenRestored ==
  /\ pc = "reopenRestored"
  /\ \/ /\ Works /\ disk["db"] # Torn
        /\ disk' = Created
        /\ Return("err", Created["db"])
     \/ /\ Fails
        /\ disk' \in {disk, Created}
        /\ Return("err", Closed)
  /\ UNCHANGED Call

\* os.Remove(bak), ignored when it fails; then s.db = reopened.
DropOldBak ==
  /\ pc = "dropOldBak"
  /\ \/ Works /\ disk' = Removed("bak")
     \/ Fails /\ UNCHANGED disk
  /\ Return("ok", disk["db"])
  /\ UNCHANGED Call

ReplaceFromFile ==
  \/ OpenSource \/ CreateTmp \/ CopyTmp \/ SyncTmp \/ CloseTmp \/ DropTmp
  \/ DropBak \/ Backup \/ Install \/ Undo \/ ReopenPrev
  \/ Reopen \/ Restore \/ ReopenRestored \/ DropOldBak

Next ==
  \/ Open \/ Exit \/ Crash \/ OtherOpen \/ ReplaceFromFile
  \/ \E snapshot \in Snapshots : Begin(snapshot)

Spec == Init /\ [][Next]_vars

-----------------------------------------------------------------------------
(* Properties.                                                              *)

TypeOK ==
  /\ disk \in [Files -> Whole \cup {Torn, Absent}]
  /\ pc \in Steps
  /\ handle \in Whole \cup {Closed}
  /\ prev \in Whole \cup {Absent}
  /\ target \in Whole \cup {Absent}
  /\ faults \in 0..MaxFaults
  /\ result \in {"none", "ok", "err"}
  /\ seen \in Whole \cup {Closed}
  /\ crashes \in 0..MaxCrashes

\* At every instant of a call, and after a crash at any instant of it, either
\* state.db holds the graph from before the call or the whole new one, or the
\* backup holds the graph from before: whatever fails, ReplaceFromFile never
\* leaves the disk with neither.
NoLoss ==
  \/ disk["db"] \in {prev, target}
  \/ disk["bak"] = prev

\* state.db is never a partly written file: the temporary file gets its name
\* only after the copy was synced, and one that a crash left behind is written
\* afresh.
StoreNeverTorn == disk["db"] # Torn

\* The promise of ReplaceFromFile to its caller. "ok" means the new snapshot is
\* state.db; an error after a single failed system call, wherever it hit, means
\* the previous store is back in place; and a call in which nothing fails
\* succeeds whatever temporary files an earlier crash left.
ReturnContract ==
  pc = "returned" =>
    /\ result = "ok" => disk["db"] = target
    /\ result = "err" => faults > 0
    /\ result = "err" /\ faults = 1 => disk["db"] = prev

\* Once the call is over, an open handle is on the file that bears the name
\* state.db: what the process writes next (ClearAsOf) is what others will read.
HandleOnStore ==
  pc \in {"ready", "returned"} /\ handle # Closed => handle = disk["db"]

\* While ReplaceFromFile runs.
Swapping == pc \notin {"down", "ready", "returned"}

\* A process that opens the store during a swap finds the graph from before the
\* call or the new one: "atomic swap of validated scrape" (docs/USAGE.md). The
\* code does not keep this: between its two renames there is no state.db, and
\* store.Open creates a blank one.
OtherSeesOldOrNew == [][OtherOpen /\ Swapping => seen' \in {prev, target}]_vars

\* The graph the store holds: state.db, the backup while the name is vacant, and
\* nothing before the first Open.
Graph ==
  CASE disk["db"] # Absent -> disk["db"]
    [] disk["db"] = Absent /\ disk["bak"] # Absent -> disk["bak"]
    [] OTHER -> Blank

\* A missing state.db is a blank graph.
GraphOf(content) == IF content = Absent THEN Blank ELSE content

Atomic == INSTANCE AtomicStore WITH
  graph <- Graph,
  before <- GraphOf(prev),
  installing <- GraphOf(target),
  phase <- IF pc = "returned" THEN "answered"
           ELSE IF Swapping THEN "swapping" ELSE "idle",
  answer <- result

\* As long as no other process opens the store in the middle, no crash interrupts
\* the call and at most one system call of it fails, the two renames, their
\* undoing and the reopening look like one indivisible replacement.
ImplementsAtomicStore == Atomic!Spec
=============================================================================
