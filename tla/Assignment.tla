----------------------------- MODULE Assignment -----------------------------
(***************************************************************************)
(* What dealing out promises, whatever the processes, locks and stale      *)
(* copies behind it: there is one assignment of tasks to hosts, in which   *)
(* no task has two hosts, which is replaced as a whole, and which only the *)
(* crash of a process may lose.                                            *)
(***************************************************************************)
CONSTANTS Node, Task

VARIABLES
    jobs,      \* the jobs there are
    up,        \* the processes that run
    assigned   \* <<host, task>> for each task dealt

vars == <<jobs, up, assigned>>

Assignments ==
    {a \in SUBSET (Node \X jobs) : \A d, e \in a : d[2] = e[2] => d = e}

Init == jobs \in SUBSET Task /\ up = {} /\ assigned = {}

Add ==
    /\ \E t \in Task \ jobs : jobs' = jobs \cup {t}
    /\ UNCHANGED <<up, assigned>>

Start ==
    /\ \E n \in Node \ up : up' = up \cup {n}
    /\ UNCHANGED <<jobs, assigned>>

Fail ==
    /\ \E n \in up : up' = up \ {n}
    /\ assigned' \in {assigned, {}}
    /\ UNCHANGED jobs

Deal ==
    /\ up # {}
    /\ assigned' \in Assignments
    /\ UNCHANGED <<jobs, up>>

Next == Add \/ Start \/ Fail \/ Deal

Spec == Init /\ [][Next]_vars

=============================================================================
