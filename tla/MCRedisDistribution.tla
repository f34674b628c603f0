------------------------ MODULE MCRedisDistribution ------------------------
(* Instances of RedisDistribution for TLC.                                 *)
EXTENDS RedisDistribution

CONSTANTS n1, n2, t1, t2, t3

MCNode == {n1, n2}

\* The HashMap of the group iterates n1 before n2.
MCHostAt(G, i) == IF G = MCNode THEN <<n1, n2>>[i + 1] ELSE CHOOSE h \in G : TRUE

\* Hosts may be swapped: a round starts at any of them, and from a start shifted
\* by one it deals to the other of two hosts.
Symmetry == Permutations(MCNode)

MCTask == {t1, t2, t3}

\* Two instances in one: a job that is never deleted, whatever else happens; or two
\* jobs, the first of which may be deleted, dealt by one process at a time, with
\* neither crashes nor reads of a cleared USE.
Scope ==
    \/ db \subseteq {t3} /\ deleted = {}
    \/ /\ db \cup deleted = {t1, t2} /\ t2 \in db
       /\ Cardinality({n \in Node : hpc[n] # "idle"}) <= 1
       /\ Crashed = {}
       /\ hits = 0

\* The rotation in closed form against the loop.
ASSUME SlotLoopIsSlot ==
    \A size \in 1..6 : \A start \in 0..(size - 1) :
        \A i \in 0..12 : SlotLoop(start, size)[i] = Slot(start, i, size)

=============================================================================
