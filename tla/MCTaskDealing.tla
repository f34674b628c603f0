--------------------------- MODULE MCTaskDealing ---------------------------
(* Instances of TaskDealing for TLC.                                       *)
EXTENDS TaskDealing

\* Hosts are numbered in the order the HashMap of the group iterates them.
MCHostAt(G, i) == CHOOSE h \in G : Cardinality({k \in G : k < h}) = i

\* What is gathered in closed form against the loop.
ASSUME GatherLoopIsGathered ==
    \A u \in SUBSET (Node \X Task) :
        Cardinality(u) <= 4 =>
            \A list \in SetToSeqs(u) : GatherLoop(list)[Len(list)].use = Gathered(list)

=============================================================================
