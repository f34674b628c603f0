---------------------- MODULE MCHazelcastDistribution ----------------------
(* Instances of HazelcastDistribution for TLC.                             *)
EXTENDS HazelcastDistribution

CONSTANTS n1, n2, t1, t2, t3

MCNode == {n1, n2}

MCTask == {t1, t2, t3}

\* The map of the group iterates n1 before n2.
MCHostAt(G, i) == IF G = MCNode THEN <<n1, n2>>[i + 1] ELSE CHOOSE h \in G : TRUE

\* Hosts may be swapped: a round starts at any of them, and from a start shifted
\* by one it deals to the other of two hosts. So may t1 and t2, whose order a list
\* of tasks leaves open.
Symmetry == Permutations(MCNode) \cup Permutations({t1, t2})

\* Two instances in one: a single job, whatever happens to it and the processes; or
\* two jobs, of which one may be deleted, on processes that do not crash.
Scope ==
    \/ db \cup deleted \subseteq {t3}
    \/ /\ db \cup deleted = {t1, t2}
       /\ Cardinality(deleted) <= 1
       /\ Crashed = {}

=============================================================================
