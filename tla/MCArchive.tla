------------------------------ MODULE MCArchive ------------------------------
(* Three services, two of which would share a runbook's file name. The Fleet *)
(* has a runbook of a service that it does not list.                         *)
EXTENDS Archive

mcServices == {1, 2, 3}
mcSlug == [s \in mcServices |-> IF s = 3 THEN 2 ELSE s]
mcPlain == {1}
mcSick == {1}

Store(services, owners, changes, deps, alerts, k8s, runbooks, extra) ==
  [services |-> services, owners |-> owners, changes |-> changes, dependencies |-> deps,
   alerts |-> alerts, k8s |-> k8s, runbook |-> runbooks, extra |-> extra]

Fleet == Store({1, 2}, {2}, {1}, {1, 2}, {1}, {1}, {2, 3}, {1})
Twins == Store({1, 2, 3}, {}, {}, {}, {}, {1, 2}, {1, 2, 3}, {2})
mcPacks == {Fleet, Twins}

\* A pack of st, as it is after a command that succeeded.
Made(st) ==
  LET t == [Bare(st) EXCEPT
              !.dirs = TRUE,
              !.files = {File(p) : p \in Entities \cup {"meta"}}
                        \cup {Runbook(slug[s]) : s \in PackedRunbooks(st)},
              !.rb = [n \in Slugs |->
                        LET S == {s \in PackedRunbooks(st) : slug[s] = n}
                        IN IF S = {} THEN 0 ELSE CHOOSE s \in S : \A u \in S : s >= u]]
      want == SickIn(st) \cup (Replay(t)["runbook"] \cap ListServices(st))
  IN [t EXCEPT !.files = @ \cup {Golden(s) : s \in want},
               !.says = [s \in Services |-> IF s \in want THEN Ask(Replay(t), s) ELSE {}]]

Other == [Bare(Nothing) EXCEPT !.files = {File("services")}]

mcBefore ==
  { NoPath, [kind |-> "torn", tree |-> Bare(Nothing)], [kind |-> "archive", tree |-> Made(Twins)],
    [kind |-> "dir", tree |-> Bare(Nothing)], [kind |-> "dir", tree |-> Made(Fleet)],
    [kind |-> "dir", tree |-> Other] }
=============================================================================
