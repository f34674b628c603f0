------------------------------ MODULE Dealing ------------------------------
(***************************************************************************)
(* The pure part of dealing out tasks: which tasks RedisAutoCompute        *)
(* gathers from those in use, and which host each one of a list gets.      *)
(***************************************************************************)
EXTENDS Integers, SequencesExt

CONSTANTS
    Node,          \* hosts
    HostAt(_, _)   \* HostAt(G, i): the i-th host of a HashMap with keys G

ASSUME NodeAssumption == IsFiniteSet(Node)

\* The i-th key (from 0) of a map is one of its keys, another one for each i.
ASSUME HostAtAssumption ==
    \A G \in SUBSET Node : \A i \in 0..(Cardinality(G) - 1) :
        /\ HostAt(G, i) \in G
        /\ \A j \in 0..(Cardinality(G) - 1) : HostAt(G, i) = HostAt(G, j) => i = j

Groups == (SUBSET Node) \ {{}}

TasksOf(u) == {e[2] : e \in u}
HostsOf(u) == {e[1] : e \in u}

-----------------------------------------------------------------------------
\* One pass of the loop in useGroupDistrib, over index i from 0: the task of the
\* entry it looks at is gathered and the entry removed from the list.
GatherPass(at, i) ==
    IF i >= Len(at.list) THEN at
    ELSE [list |-> RemoveAt(at.list, i + 1), use |-> at.use \cup {at.list[i + 1][2]}]

\* What is left of the list and what is gathered after k passes.
GatherLoop(list) ==
    LET after[k \in Nat] == IF k = 0 THEN [list |-> list, use |-> {}]
                            ELSE GatherPass(after[k - 1], k - 1)
    IN  after

\* Hosts are gathered instead of tasks.
Mut_GatheredHosts(list) == {list[i][1] : i \in {k \in DOMAIN list : k % 2 = 1}}

\* What the loop has gathered at its end: the entry behind the one removed moves
\* into its place and is skipped, so of n entries those at 1, 3, 5, ... are
\* gathered, in whatever order Redis lists the set.
Gathered(list) == {list[i][2] : i \in {k \in DOMAIN list : k % 2 = 1}}

\* The loop of adjustDistrib: which host, by number, each task of the list gets,
\* both counted from 0.
SlotLoop(start, size) ==
    LET cnt[i \in Nat] == (i + (IF i = 0 THEN start ELSE cnt[i - 1])) % size
    IN  cnt

\* Each task goes one host further than the one before.
Mut_RoundRobin(start, i, size) == (start + i) % size

\* The same number for each task at once: 1 + 2 + ... + i further than the first.
Slot(start, i, size) == (start + (i * (i + 1)) \div 2) % size

Dealt(tasks, G, start) ==
    {<<HostAt(G, Slot(start, i - 1, Cardinality(G))), tasks[i]>> : i \in DOMAIN tasks}

=============================================================================
