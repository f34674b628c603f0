------------------------ MODULE MCRedisMembership ------------------------
(* Instances of RedisMembership for TLC.                                   *)
EXTENDS RedisMembership

\* Processes 1 and 2 on ports of their own, 3 is a restart on 1's port.
MCNode == 1..3
MCPair == 1..2
MCPortOf == [n \in MCNode |-> IF n = 3 THEN 1 ELSE n]

\* 3 starts after 1 only: with two starts, 2 and 3 alone are 1 and 2 renamed.
RestartIsLater == pc[3] # "new" => pc[1] # "new"

=============================================================================
