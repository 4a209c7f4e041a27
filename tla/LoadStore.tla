----------------------------- MODULE LoadStore -----------------------------
(***************************************************************************)
(* Where ask, status, why, watch and the fleet commands get their store:   *)
(* loadAskStore (cmd/opsgraph/common.go) chooses between a fixture pack,   *)
(* the persistent state.db and a live scrape into a temporary store, and   *)
(* hands the caller one open store with the function that releases it.     *)
(*                                                                         *)
(* Every step that touches a store may fail, and other opsgraph processes  *)
(* may ingest into state.db between any two steps.                         *)
(***************************************************************************)
EXTENDS Naturals

CONSTANTS
  MaxFaults,    \* bound: steps of the call that fail
  MaxOthers     \* bound: changes other processes make to state.db meanwhile

ASSUME LoadAssumption == MaxFaults \in Nat /\ MaxOthers \in Nat

\* The flags, whether there is a .opsgraph.yaml, whether it enables a usable
\* connector (liveConnectorsEnabled), and whether the working directory has a
\* snapshot or a git layout (detectCwdSource).
Calls ==
  {c \in [flag : {"fixture", "dataDir", "none"}, config : BOOLEAN,
          connectors : BOOLEAN, cwd : BOOLEAN] : c.connectors => c.config}

\* What a scrape leaves: service rows, meta connector:prometheus/alertmanager,
\* rows from an incident source (alerts, Kubernetes, ...), git commits.
Scrapes ==
  {s \in [services : BOOLEAN, meta : BOOLEAN, rows : BOOLEAN, git : BOOLEAN] :
     s.rows \/ s.git => s.services}

Nothing == [services |-> FALSE, meta |-> FALSE, rows |-> FALSE, git |-> FALSE]

\* Mutant: the config seed counts as a signal.
SeedIsSignal(s) == s.services

liveHasIncidentSignal(s) == s.meta \/ s.rows
liveIsQuietConnectorOnly(s) == s.meta /\ ~s.rows /\ ~s.git

Disks    == {"absent", "blank", "populated"}        \* state.db
Handles  == {"extra", "temp", "peek", "persisted"}  \* what the call can have open
Errors   == {"emptyStore", "noSource", "error"}
Sources  == {"fixture", "persisted", "live"}
Uses     == {"fixture", "connectors", "cwd", "seed"}
Reasons  == {"none", "scrapeFailed", "noServices", "noSignal", "quiet"}
Steps    == {"materialize", "openTemp", "ingest", "countLive", "judge", "stat", "peek",
             "peekCount", "openStore", "asOf", "countStore", "answered", "released"}

VARIABLES
  call,     \* the command line and its surroundings
  disk,     \* state.db under the data directory
  pc,
  use,      \* what the temporary store is for
  live,     \* what the scrape left in it
  why,      \* why fallbackPersisted was called
  open,     \* stores and directories that are open
  answer,   \* the source of the returned store, or the error
  faults, others

vars == <<call, disk, pc, use, live, why, open, answer, faults, others>>

\* What the caller releases by calling cleanup.
Owned(a) ==
  IF a = "fixture" THEN {"temp", "extra"}
  ELSE IF a = "live" THEN {"temp"}
  ELSE IF a = "persisted" THEN {"persisted"}
  ELSE {}

Works == faults' = faults
Fails == faults < MaxFaults /\ faults' = faults + 1

Goto(to)  == pc' = to /\ UNCHANGED answer
Answer(a) == pc' = "answered" /\ answer' = a

Acquire(h) == open' = open \cup {h}
Release(h) == open' = open \ h

Fixed == <<call, others>>
-----------------------------------------------------------------------------
Init ==
  /\ call \in Calls
  /\ disk \in Disks
  /\ pc = IF call.flag = "fixture" THEN "materialize"
          ELSE IF call.flag = "dataDir" THEN "openStore"
          ELSE IF call.connectors THEN "openTemp" ELSE "stat"
  /\ use = IF call.flag = "fixture" THEN "fixture" ELSE "connectors"
  /\ live = Nothing /\ why = "none"
  /\ open = {} /\ answer = "error"
  /\ faults = 0 /\ others = 0

\* A pack archive is unpacked into a directory that has to be removed.
Materialize ==
  /\ pc = "materialize"
  /\ \/ Works /\ Acquire("extra") /\ Goto("openTemp")
     \/ Fails /\ Answer("error") /\ UNCHANGED open
  /\ UNCHANGED <<disk, use, live, why, Fixed>>

\* There is no scrape: what the branch of each use does about it.
Unscraped ==
  \/ use = "connectors" /\ Goto("stat") /\ why' = "scrapeFailed"
  \/ use = "cwd" /\ Answer("noSource") /\ UNCHANGED why
  \/ use \in {"fixture", "seed"} /\ Answer("error") /\ UNCHANGED why

OpenTemp ==
  /\ pc = "openTemp"
  /\ \/ Works /\ Acquire("temp") /\ Goto("ingest") /\ UNCHANGED why
     \/ Fails /\ Release({"extra"}) /\ Unscraped
  /\ UNCHANGED <<disk, use, live, Fixed>>

\* LiveIngest, or IngestFixtureDir for a pack.
Ingest ==
  /\ pc = "ingest"
  /\ \/ /\ Works /\ live' \in Scrapes
        /\ IF use = "fixture" THEN Answer("fixture") ELSE Goto("countLive")
        /\ UNCHANGED <<open, why>>
     \/ Fails /\ Release({"temp", "extra"}) /\ Unscraped /\ UNCHANGED live
  /\ UNCHANGED <<disk, use, Fixed>>

CountLive ==
  /\ pc = "countLive"
  /\ \/ Fails /\ Release({"temp"}) /\ Answer("error") /\ UNCHANGED why
     \/ /\ Works /\ live.services
        /\ IF use = "connectors" THEN Goto("judge") ELSE Answer("live")
        /\ UNCHANGED <<open, why>>
     \/ /\ Works /\ ~live.services /\ Release({"temp"})
        /\ \/ use = "connectors" /\ Goto("stat") /\ why' = "noServices"
           \/ use = "cwd" /\ Answer("noSource") /\ UNCHANGED why
           \/ use = "seed" /\ Answer("emptyStore") /\ UNCHANGED why
  /\ UNCHANGED <<disk, use, live, Fixed>>

\* What may be seen of the scrape: a read that fails is taken for nothing found.
Glimpses ==
  {s \in Scrapes : /\ s.meta => live.meta
                   /\ s.rows => live.rows
                   /\ s.git => live.git}

\* A scrape of connectors has to be worth more than the stored incident. A quiet
\* one stays open while the store is tried. It is looked at twice.
Judge ==
  /\ pc = "judge"
  /\ \E first, second \in Glimpses :
       /\ Fails \/ (Works /\ first = live /\ second = live)
       /\ IF ~liveHasIncidentSignal(first)
          THEN Release({"temp"}) /\ Goto("stat") /\ why' = "noSignal"
          ELSE IF liveIsQuietConnectorOnly(second)
          THEN UNCHANGED open /\ Goto("stat") /\ why' = "quiet"
          ELSE UNCHANGED <<open, why>> /\ Answer("live")
  /\ UNCHANGED <<disk, use, live, Fixed>>
-----------------------------------------------------------------------------
(* state.db: peekCounts, then storeFromDataDir.                             *)

\* The store gives no answer: what is returned instead.
NoStore ==
  \/ why \in {"none", "scrapeFailed"} /\ Answer("error")
  \/ why \in {"noServices", "noSignal"} /\ Answer("emptyStore")
  \/ why = "quiet" /\ Answer("live")

\* peekCounts failed: without a scrape behind it, the other sources are tried.
Unpeeked ==
  IF why # "none" THEN NoStore /\ UNCHANGED use
  ELSE IF call.config THEN Goto("openTemp") /\ use' = "seed"
  ELSE IF call.cwd THEN Goto("openTemp") /\ use' = "cwd"
  ELSE Answer("noSource") /\ UNCHANGED use

Stat ==
  /\ pc = "stat"
  /\ \/ Works /\ disk # "absent" /\ Goto("peek") /\ UNCHANGED use
     \/ Works /\ disk = "absent" /\ Unpeeked
     \/ Fails /\ Unpeeked
  /\ UNCHANGED <<disk, live, why, open, Fixed>>

\* store.Open makes a blank store where there is none.
Created == IF disk = "absent" THEN "blank" ELSE disk

Peek ==
  /\ pc = "peek"
  /\ \/ Works /\ disk' = Created /\ Acquire("peek") /\ Goto("peekCount") /\ UNCHANGED use
     \/ Fails /\ disk' \in {disk, Created} /\ Unpeeked /\ UNCHANGED open
  /\ UNCHANGED <<live, why, Fixed>>

\* Mutant: a store that could be counted is used.
PeekCountAny ==
  /\ pc = "peekCount"
  /\ Release({"peek"})
  /\ \/ Fails /\ Unpeeked
     \/ Works /\ Goto("openStore") /\ UNCHANGED use
  /\ UNCHANGED <<disk, live, why, Fixed>>

PeekCount ==
  /\ pc = "peekCount"
  /\ Release({"peek"})
  /\ \/ Fails /\ Unpeeked
     \/ Works /\ disk = "populated" /\ Goto("openStore") /\ UNCHANGED use
     \/ /\ Works /\ disk # "populated" /\ UNCHANGED use
        /\ IF why = "none" THEN Answer("emptyStore") ELSE NoStore
  /\ UNCHANGED <<disk, live, why, Fixed>>

OpenStore ==
  /\ pc = "openStore"
  /\ \/ Works /\ disk' = Created /\ Acquire("persisted") /\ Goto("asOf")
     \/ Fails /\ disk' \in {disk, Created} /\ NoStore /\ UNCHANGED open
  /\ UNCHANGED <<use, live, why, Fixed>>

\* Mutant: the quiet scrape is not cleaned up when the store takes its place.
AsOfKeepsTemp ==
  /\ pc = "asOf"
  /\ \/ Fails /\ Release({"persisted"}) /\ NoStore
     \/ Works /\ call.flag = "dataDir" /\ Goto("countStore") /\ UNCHANGED open
     \/ Works /\ call.flag # "dataDir" /\ UNCHANGED open /\ Answer("persisted")
  /\ UNCHANGED <<disk, use, live, why, Fixed>>

\* Only --data-dir counts the rows of the store it has opened.
AsOf ==
  /\ pc = "asOf"
  /\ \/ Fails /\ Release({"persisted"}) /\ NoStore
     \/ Works /\ call.flag = "dataDir" /\ Goto("countStore") /\ UNCHANGED open
     \/ Works /\ call.flag # "dataDir" /\ Release({"temp"}) /\ Answer("persisted")
  /\ UNCHANGED <<disk, use, live, why, Fixed>>

CountStore ==
  /\ pc = "countStore"
  /\ \/ Fails /\ Release({"persisted"}) /\ Answer("error")
     \/ Works /\ disk # "populated" /\ Release({"persisted"}) /\ Answer("emptyStore")
     \/ Works /\ disk = "populated" /\ Answer("persisted") /\ UNCHANGED open
  /\ UNCHANGED <<disk, use, live, why, Fixed>>

\* The caller is done with the store and calls cleanup.
Cleanup ==
  /\ pc = "answered" /\ Goto("released")
  /\ Release(Owned(answer))
  /\ UNCHANGED <<disk, use, live, why, faults, Fixed>>

\* Another process: Reset empties the store, a swap takes it away and puts a new
\* one in its place, a fixture or a merge fills it.
OtherIngest ==
  /\ pc \notin {"answered", "released"}
  /\ others < MaxOthers /\ others' = others + 1
  /\ disk' \in Disks \ {disk}
  /\ UNCHANGED <<call, pc, use, live, why, open, answer, faults>>

loadAskStore ==
  \/ Materialize \/ OpenTemp \/ Ingest \/ CountLive \/ Judge
  \/ Stat \/ Peek \/ PeekCount \/ OpenStore \/ AsOf \/ CountStore

Next == loadAskStore \/ Cleanup \/ OtherIngest

Spec == Init /\ [][Next]_vars
-----------------------------------------------------------------------------
(* Properties.                                                              *)

TypeOK ==
  /\ call \in Calls /\ disk \in Disks /\ pc \in Steps /\ use \in Uses
  /\ live \in Scrapes /\ why \in Reasons
  /\ open \subseteq Handles /\ answer \in Sources \cup Errors
  /\ faults \in 0..MaxFaults /\ others \in 0..MaxOthers

Answered == pc \in {"answered", "released"}

\* Whatever fails on the way, the answer is an open store and the only thing open,
\* an error leaves nothing open, and after the caller's cleanup no handle and no
\* temporary directory is left.
OnlyTheAnswerIsOpen ==
  /\ pc = "answered" => open = Owned(answer)
  /\ pc = "released" => open = {}

\* "Git alone, seed-only / empty snapshot scrapes, or quiet Prom/AM ... do not
\* prefer live over a richer populated store" (docs/ARCHITECTURE.md): while
\* state.db is populated and can be read, a live answer has rows of an incident
\* source, or commits next to a connector that answered.
LiveEarnsItsPlace ==
  Answered /\ answer = "live" /\ disk = "populated" /\ faults = 0 /\ others = 0 =>
    live.rows \/ (live.meta /\ live.git)

\* As long as no other process changes state.db, a returned store has services,
\* whichever steps failed; and a populated state.db that can be read always leads
\* to an answer, whatever the scrape came back with.
AnswerHasServices ==
  Answered /\ others = 0 /\ call.flag # "fixture" =>
    /\ answer = "live" => live.services
    /\ answer = "persisted" => disk = "populated"
    /\ disk = "populated" /\ faults = 0 => answer \in Sources
=============================================================================
