---------------------------- MODULE AtomicStore ----------------------------
(***************************************************************************)
(* What `opsgraph ingest --replace` promises of the persistent store: one  *)
(* graph, replaced in one indivisible step by a validated scrape, or not   *)
(* at all (the comment of ReplaceFromFile in internal/store/store.go,      *)
(* "atomic live ingest (validate in temp, then swap)").                    *)
(***************************************************************************)
CONSTANTS
  Snapshots,    \* the graphs a call may install
  Blank         \* the store before anything was ingested

VARIABLES
  graph,        \* what the store holds
  before,       \* what it held when the running call began
  installing,   \* the graph the running call installs
  phase,        \* "idle", "swapping" or "answered"
  answer        \* "none", "ok" or "err"

absVars == <<graph, before, installing, phase, answer>>

Init ==
  /\ graph \in Snapshots \cup {Blank}
  /\ before = graph /\ installing = graph
  /\ phase = "idle" /\ answer = "none"

\* A call begins.
Start(s) ==
  /\ phase = "idle" /\ phase' = "swapping"
  /\ before' = graph /\ installing' = s
  /\ answer' = "none"
  /\ UNCHANGED graph

\* The new graph takes the place of the old one.
Commit ==
  /\ phase = "swapping" /\ graph = before
  /\ graph' = installing
  /\ UNCHANGED <<before, installing, phase, answer>>

\* A call that is going to fail takes the new graph back.
Rollback ==
  /\ phase = "swapping" /\ graph = installing
  /\ graph' = before
  /\ UNCHANGED <<before, installing, phase, answer>>

\* The call answers, and the answer tells which graph the store holds.
Answer(r) ==
  /\ phase = "swapping" /\ phase' = "answered"
  /\ graph = (IF r = "ok" THEN installing ELSE before)
  /\ answer' = r
  /\ UNCHANGED <<graph, before, installing>>

\* A call that fails before it touched anything.
Refuse(s) ==
  /\ phase = "idle" /\ phase' = "answered"
  /\ before' = graph /\ installing' = s
  /\ answer' = "err"
  /\ UNCHANGED graph

\* The next process.
Rest ==
  /\ phase = "answered" /\ phase' = "idle"
  /\ UNCHANGED <<graph, before, installing, answer>>

\* The next process opens the store and forgets the last answer.
Fresh ==
  /\ phase = "idle" /\ answer' = "none"
  /\ UNCHANGED <<graph, before, installing, phase>>

Next ==
  \/ \E s \in Snapshots : Start(s) \/ Refuse(s)
  \/ Commit \/ Rollback \/ Rest \/ Fresh
  \/ \E r \in {"ok", "err"} : Answer(r)

Spec == Init /\ [][Next]_absVars
=============================================================================
