--------------------------- MODULE MCGraphSearch ---------------------------
(* Every graph of four services without loops, and every graph of three     *)
(* with them; each service fails, and a path is asked for up and down.      *)
EXTENDS GraphSearch

MCServices == 1..4

MCEdges ==
  SUBSET {e \in MCServices \X MCServices : e[1] # e[2]}
    \cup SUBSET ((1..3) \X (1..3))

MCCalls ==
  {[cmd |-> "impact", from |-> f, to |-> f] : f \in MCServices}
    \cup {[cmd |-> "cycles", from |-> 1, to |-> 1]}
    \cup {[cmd |-> "path", from |-> p[1], to |-> p[2]] :
            p \in {<<1, 3>>, <<3, 1>>, <<2, 2>>}}
============================================================================
