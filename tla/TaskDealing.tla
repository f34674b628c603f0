---------------------------- MODULE TaskDealing ----------------------------
(***************************************************************************)
(* What dealing out the scheduled tasks promises when nothing interferes:  *)
(* jobs are applied for (APPLY), the master deals them to the hosts of the *)
(* group (USE), a change of the group makes it deal again.  Each operation *)
(* is one step here; RedisDistribution takes them apart into their Redis   *)
(* commands.                                                               *)
(*                                                                         *)
(* Sources: RedisAutoCompute.execDistrib/adjustDistrib/useGroupDistrib/    *)
(* applGroupDistrib and ScheduleJobServiceImpl (stask-redis).              *)
(***************************************************************************)
EXTENDS Dealing

CONSTANTS
    Task,   \* jobs that may be in table zy_sys_job
    NoHost  \* not a host

ASSUME TaskAssumption == IsFiniteSet(Task)
ASSUME NoHostAssumption == NoHost \notin Node

VARIABLES
    db,        \* the jobs in the table
    group,     \* the hosts of the EXECER bucket
    changed,   \* its status: CHANGE or not
    apply,     \* tasks applied for; who applied is not looked at again
    use,       \* <<host, task>>: task dealt to host
    rotation,  \* the master's static counter
    last       \* who got the first task of the last round, in which group

vars == <<db, group, changed, apply, use, rotation, last>>

-----------------------------------------------------------------------------
\* The counter is reset before every round.
Mut_AlwaysAtZero(size) == 0

\* rotation is reset when the group has become smaller than it.
StartAt(size) == IF rotation >= size THEN 0 ELSE rotation

-----------------------------------------------------------------------------
Init ==
    /\ db \in SUBSET Task
    /\ group \in Groups
    /\ changed = TRUE
    /\ apply = db          \* sendAllAppl at start-up
    /\ use = {}
    /\ rotation = 0
    /\ last = <<NoHost, {}>>

\* adjustDistrib deals a set of tasks in HashSet order.
DealOut(tasks, kept) ==
    LET start == StartAt(Cardinality(group))
    IN  /\ \E order \in SetToSeqs(tasks) :
              /\ use' = kept \cup Dealt(order, group, start)
              /\ last' = <<IF order = <<>> THEN NoHost
                           ELSE HostAt(group, Slot(start, 0, Cardinality(group))), group>>
        /\ rotation' = start + 1

\* What was in use is dealt again and stays as well.
Mut_DealAllKeeps ==
    /\ changed
    /\ \E list \in SetToSeqs(use) : DealOut(apply \cup Gathered(list), use)
    /\ apply' = {}
    /\ changed' = FALSE
    /\ UNCHANGED <<db, group>>

\* The group has changed: the tasks in use are gathered to be dealt again
\* together with those applied for.
DealAll ==
    /\ changed
    /\ \E list \in SetToSeqs(use) : DealOut(apply \cup Gathered(list), {})
    /\ apply' = {}
    /\ changed' = FALSE
    /\ UNCHANGED <<db, group>>

\* A task that is in use is dealt all the same.
Mut_DealAppliedAgain ==
    /\ ~changed
    /\ apply # {}
    /\ DealOut(apply \cup TasksOf(use), use)
    /\ apply' = {}
    /\ UNCHANGED <<db, group, changed>>

\* The group has not: the tasks in use stay, those applied for are added.
DealApplied ==
    /\ ~changed
    /\ apply # {}
    /\ DealOut(apply \ TasksOf(use), use)
    /\ apply' = {}
    /\ UNCHANGED <<db, group, changed>>

-----------------------------------------------------------------------------
(* The other operations and the environment                                *)

\* The test for jobs in use is the wrong way round.
Mut_AppliedInUse(jobs, u) ==
    IF u # {} THEN (jobs \cap TasksOf(u)) \cup (apply \ jobs) ELSE apply \cup jobs

\* The entries of USE are taken for what else was applied for.
Mut_EntriesApplied(jobs, u) ==
    IF u # {} THEN (jobs \ TasksOf(u)) \cup u ELSE apply \cup jobs

\* sendListAppl(jobs): with something in use, jobs in use are not applied for
\* and whatever else was applied for stays.
Applied(jobs, u) ==
    IF u # {} THEN (jobs \ TasksOf(u)) \cup (apply \ jobs) ELSE apply \cup jobs

\* One round of execSchedule on some node: tasks of deleted jobs leave USE,
\* jobs neither in use nor applied for are applied for.
ExecSchedule ==
    LET kept == {e \in use : e[2] \in db}
        missing == db \ (TasksOf(kept) \cup apply)
    IN  /\ use' = kept
        /\ apply' = IF missing = {} THEN apply ELSE Applied(missing, kept)
        /\ UNCHANGED <<db, group, changed, rotation, last>>

\* A process starts and applies for every job.
SendAllAppl ==
    /\ db # {}
    /\ apply' = Applied(db, use)
    /\ UNCHANGED <<db, group, changed, use, rotation, last>>

\* Hosts join or leave.
Regroup ==
    /\ \E G \in Groups \ {group} : group' = G
    /\ changed' = TRUE
    /\ UNCHANGED <<db, apply, use, rotation, last>>

\* Jobs are added and deleted through the management pages.
EditJob ==
    /\ \E t \in Task : db' \in {db \cup {t}, db \ {t}}
    /\ UNCHANGED <<group, changed, apply, use, rotation, last>>

Deal == DealAll \/ DealApplied

Next == Deal \/ ExecSchedule \/ SendAllAppl \/ Regroup \/ EditJob

Spec == Init /\ [][Next]_vars

\* The master syncs with every heartbeat of its own, and execSchedule runs
\* every 15 seconds.
FairSpec == Spec /\ WF_vars(Deal) /\ WF_vars(ExecSchedule)

-----------------------------------------------------------------------------
(* Properties                                                              *)

TypeOK ==
    /\ db \subseteq Task
    /\ group \in Groups
    /\ changed \in BOOLEAN
    /\ apply \subseteq Task
    /\ use \subseteq Node \X Task
    /\ rotation \in Nat
    /\ last \in (Node \cup {NoHost}) \X SUBSET Node

\* No task is dealt to two hosts, however groups change between the rounds.
OneHostPerTask == \A d, e \in use : d[2] = e[2] => d = e

\* Once a change of the group has been answered, no task is left with a host
\* that is not in it.
DealtWithinGroup == ~changed => HostsOf(use) \subseteq group

\* Consecutive rounds in the same group of several hosts start at different
\* hosts: the rotation spreads tasks that come one at a time.
RotationSpreads ==
    [][Deal /\ last[2] = group /\ Cardinality(group) > 1 /\ last'[1] # NoHost
          => last'[1] # last[1]]_vars

\* cnt = (i + cnt) % size reaches two of three hosts only: dealing everything again
\* in a group of three leaves one of them without a task, however many there are.
ThirdHostIdle ==
    [][DealAll /\ Cardinality(group) = 3 => HostsOf(use') # group]_vars

\* Every job that stays in the table is dealt to a host, whatever useGroupDistrib
\* loses on the way.
EveryJobDealt == \A t \in Task : t \in db ~> t \in TasksOf(use) \/ t \notin db

=============================================================================
