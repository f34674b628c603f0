----------------------- MODULE HazelcastDistribution -----------------------
(***************************************************************************)
(* Dealing out the scheduled tasks with Hazelcast: HazelcastAutoCompute    *)
(* (execDistrib, adjustDistrib) against the schedulers of all processes    *)
(* (ScheduleServiceImpl.execSchedule, ScheduleJobServiceImpl).             *)
(*                                                                         *)
(* USE and APPLY are maps from a host to a list of tasks.  Their entries   *)
(* are read as a snapshot and written one by one, and dealing takes no     *)
(* lock at all.  Each access to a map is a step.                           *)
(*                                                                         *)
(* The group and the master are those of HazelcastMembership, seen from    *)
(* outside; one process at a time takes itself for the master.             *)
(***************************************************************************)
EXTENDS Dealing

CONSTANTS
    Task,        \* jobs that may be in table zy_sys_job; ids are never reused
    Edits,       \* TRUE: jobs may be added and deleted
    MaxCrashes,  \* bound: processes that crash
    MaxPolling,  \* bound: schedulers in execSchedule at once
    None         \* no master, a free lock

ASSUME TaskAssumption == IsFiniteSet(Task)
ASSUME NoneAssumption == None \notin Node

VARIABLES
    db,         \* the jobs in the table
    deleted,    \* the jobs that have been deleted
    group,      \* execAllLoacl of the master
    changed,    \* autoStatus of each process
    master,     \* the process that deals
    applied,    \* APPLY: the hosts it has an entry for ...
    apply,      \* ... and <<host, task>> for each task in one
    hosts,      \* USE: the hosts it has an entry for ...
    use,        \* ... and <<host, task>> for each task in one
    applyLock,  \* process that holds the CP lock of APPLY
    useLock,    \* process that holds the CP lock of USE
    hpc,        \* where the handler of the master is
    appl,       \* distribAppl of each process
    plan,       \* distribAll, or what has been gathered
    rest,       \* entries of USE still to be removed or put
    spc,        \* where the scheduler is; "new" and "down" for the process
    list,       \* listAll: the jobs the scheduler has read
    jobs,       \* sendListAppl: the jobs to apply for
    gone,       \* tasks in use that are not in the list
    seen,       \* snapshot of USE ...
    todo,       \* ... and the hosts whose entry is still to be written back
    running     \* keys of FUTURESJOBMAP: the tasks each process runs

membership == <<group, changed, master>>
maps == <<applied, apply, hosts, use, applyLock, useLock>>
dealer == <<hpc, appl, plan, rest>>
scheduler == <<spc, list, jobs, gone, seen, todo, running>>
vars == <<db, deleted, membership, maps, dealer, scheduler>>

-----------------------------------------------------------------------------
DealerStages == {"idle", "readApply", "clearApply", "readUse", "removeUse",
                 "clearUse", "fillUse"}
SchedulerStages == {"new", "idle", "delRead", "del", "readUse", "applyLock", "applyRead",
                    "applyPut", "emptyRead", "empty", "removeRead", "remove", "runOwn",
                    "down"}

Live == {n \in Node : spc[n] \notin {"new", "down"}}
Crashed == {n \in Node : spc[n] = "down"}

TasksAt(n, u) == {e[2] : e \in {d \in u : d[1] = n}}
Without(n, u) == {e \in u : e[1] # n}

Init ==
    /\ db \in SUBSET Task /\ deleted = {}
    /\ group = {} /\ changed = [n \in Node |-> FALSE] /\ master = None
    /\ applied = {} /\ apply = {} /\ hosts = {} /\ use = {}
    /\ applyLock = None /\ useLock = None
    /\ hpc = "idle" /\ appl = [n \in Node |-> {}] /\ plan = {} /\ rest = {}
    /\ spc = [n \in Node |-> "new"]
    /\ list = [n \in Node |-> {}]
    /\ jobs = [n \in Node |-> {}]
    /\ gone = [n \in Node |-> {}]
    /\ seen = [n \in Node |-> {}]
    /\ todo = [n \in Node |-> {}]
    /\ running = [n \in Node |-> {}]

GotoS(n, stage) == spc' = [spc EXCEPT ![n] = stage]

\* Inside sendListAppl without having read a list: called at start-up.
Starting(n) ==
    /\ spc[n] \in {"applyLock", "applyRead", "applyPut", "emptyRead", "empty"}
    /\ list[n] = {}

MayPoll == Cardinality({n \in Live : spc[n] # "idle"}) < MaxPolling

-----------------------------------------------------------------------------
(* Processes, membership, the job table                                    *)

\* A process starts and applies for every job (ApplConfigService).
Start(n) ==
    /\ spc[n] = "new"
    /\ MayPoll
    /\ jobs' = [jobs EXCEPT ![n] = db]
    /\ GotoS(n, IF db = {} THEN "idle" ELSE "applyLock")
    /\ UNCHANGED <<db, deleted, membership, maps, dealer, list, gone, seen, todo, running>>

\* The maps are on a cluster of their own and outlive the process.
Crash(n) ==
    /\ n \in Live
    /\ Cardinality(Crashed) < MaxCrashes
    /\ GotoS(n, "down")
    /\ changed' = [changed EXCEPT ![n] = FALSE]
    /\ appl' = [appl EXCEPT ![n] = {}]
    /\ IF n = master THEN hpc' = "idle" /\ plan' = {} /\ rest' = {}
                     ELSE UNCHANGED <<hpc, plan, rest>>
    /\ list' = [list EXCEPT ![n] = {}]
    /\ jobs' = [jobs EXCEPT ![n] = {}]
    /\ gone' = [gone EXCEPT ![n] = {}]
    /\ seen' = [seen EXCEPT ![n] = {}]
    /\ todo' = [todo EXCEPT ![n] = {}]
    /\ running' = [running EXCEPT ![n] = {}]
    /\ UNCHANGED <<db, deleted, group, master, maps>>

SessionExpires ==
    /\ \/ applyLock \in Crashed /\ applyLock' = None /\ UNCHANGED useLock
       \/ useLock \in Crashed /\ useLock' = None /\ UNCHANGED applyLock
    /\ UNCHANGED <<db, deleted, membership, applied, apply, hosts, use, dealer, scheduler>>

\* A heartbeat of a process unknown so far is a change everywhere.  It sends none
\* before it has applied.
Register(d) ==
    /\ hpc = "idle" /\ d \in Live \ group
    /\ ~Starting(d)
    /\ group' = group \cup {d}
    /\ changed' = [n \in Node |-> changed[n] \/ n \in Live]
    /\ UNCHANGED <<db, deleted, master, maps, dealer, scheduler>>

\* A dead host may leave the group, which remoteHost does not mark as changed; or be
\* kept for ever, refreshed by each check that does not find it timed out.
Evict(d) ==
    /\ hpc = "idle" /\ Live # {} /\ d \in group \cap Crashed
    /\ group' = group \ {d}
    /\ UNCHANGED <<db, deleted, changed, master, maps, dealer, scheduler>>

\* Without a master, or with one outside the group, a process of the group
\* becomes it; whoever has dropped the old one, maybe another, marks a change.
TakeOver(n) ==
    /\ n \in Live \cap group
    /\ master \notin group
    /\ master' = n
    /\ \E mark \in {changed[n], TRUE} : changed' = [changed EXCEPT ![n] = mark]
    /\ UNCHANGED <<db, deleted, group, maps, dealer, scheduler>>

EditJobs ==
    /\ Edits
    /\ \/ \E t \in Task \ (db \cup deleted) : db' = db \cup {t} /\ UNCHANGED deleted
       \/ \E t \in db : db' = db \ {t} /\ deleted' = deleted \cup {t}
    /\ UNCHANGED <<membership, maps, dealer, scheduler>>

-----------------------------------------------------------------------------
(* The master: execDistrib, adjustDistrib                                  *)

\* Tasks are dealt when the group has changed, or something is applied for.
Deal ==
    /\ master \in Live \cap group /\ hpc = "idle"
    /\ changed[master] \/ applied # {}
    /\ hpc' = "readApply"
    /\ UNCHANGED <<db, deleted, membership, maps, appl, plan, rest, scheduler>>

\* The tasks applied for.  Without an entry in APPLY, those of some earlier round
\* are still there.
ReadApply ==
    /\ hpc = "readApply"
    /\ IF applied = {}
         THEN hpc' = "readUse" /\ UNCHANGED appl
         ELSE hpc' = "clearApply" /\ appl' = [appl EXCEPT ![master] = TasksOf(apply)]
    /\ UNCHANGED <<db, deleted, membership, maps, plan, rest, scheduler>>

ClearApply ==
    /\ hpc = "clearApply"
    /\ applied' = {} /\ apply' = {}
    /\ hpc' = "readUse"
    /\ UNCHANGED <<db, deleted, membership, hosts, use, applyLock, useLock, appl, plan,
                   rest, scheduler>>

\* What is in use stays where it is, unless the group has changed.
Kept(n) == IF changed[n] THEN {} ELSE use

\* Also what is in use is dealt when applied for.
Mut_DealInUse(n) == IF changed[n] THEN appl[n] \cup TasksOf(use) ELSE appl[n]

\* What is dealt: all tasks after a change of the group, else those applied for that
\* are not in use.
ToDeal(n) ==
    IF changed[n] THEN appl[n] \cup TasksOf(use) ELSE appl[n] \ TasksOf(use)

\* The entries gathered after a change are removed, one by one (useGroupDistrib).
ReadUse ==
    /\ hpc = "readUse"
    /\ \E order \in SetToSeqs(ToDeal(master)), start \in 0..(Cardinality(group) - 1) :
          plan' = Kept(master) \cup Dealt(order, group, start)
    /\ rest' = IF changed[master] THEN hosts ELSE {}
    /\ hpc' = IF rest' = {} THEN "clearUse" ELSE "removeUse"
    /\ UNCHANGED <<db, deleted, membership, maps, appl, scheduler>>

RemoveUse ==
    /\ hpc = "removeUse"
    /\ \E h \in rest : /\ hosts' = hosts \ {h}
                       /\ use' = Without(h, use)
                       /\ rest' = rest \ {h}
    /\ hpc' = IF rest' = {} THEN "clearUse" ELSE "removeUse"
    /\ UNCHANGED <<db, deleted, membership, applied, apply, applyLock, useLock, appl, plan,
                   scheduler>>

\* The master is done: the change is dealt with.
Done ==
    /\ hpc' = "idle"
    /\ plan' = {}
    /\ changed' = [changed EXCEPT ![master] = FALSE]

ClearUse ==
    /\ hpc = "clearUse"
    /\ hosts' = {} /\ use' = {}
    /\ rest' = HostsOf(plan)
    /\ IF plan = {} THEN Done ELSE hpc' = "fillUse" /\ UNCHANGED <<plan, changed>>
    /\ UNCHANGED <<db, deleted, group, master, applied, apply, applyLock, useLock, appl,
                   scheduler>>

FillUse ==
    /\ hpc = "fillUse"
    /\ \E h \in rest :
          /\ hosts' = hosts \cup {h}
          /\ use' = Without(h, use) \cup {e \in plan : e[1] = h}
          /\ rest' = rest \ {h}
    /\ IF rest' = {} THEN Done ELSE UNCHANGED <<hpc, plan, changed>>
    /\ UNCHANGED <<db, deleted, group, master, applied, apply, applyLock, useLock, appl,
                   scheduler>>

Dealer == Deal \/ ReadApply \/ ClearApply \/ ReadUse \/ RemoveUse \/ ClearUse \/ FillUse

-----------------------------------------------------------------------------
(* The scheduler: execSchedule                                             *)

\* The process's own entry of USE and the table are read.  Tasks that are not its
\* own any more stop, unless it has none at all; its deleted ones are to leave USE.
Poll(n) ==
    /\ spc[n] = "idle"
    /\ MayPoll
    /\ LET own == TasksAt(n, use)
       IN  /\ running' = IF own = {} THEN running ELSE [running EXCEPT ![n] = @ \cap own]
           /\ gone' = [gone EXCEPT ![n] = own \ db]
           /\ GotoS(n, IF own \subseteq db THEN "readUse" ELSE "delRead")
    /\ list' = [list EXCEPT ![n] = db]
    /\ UNCHANGED <<db, deleted, membership, maps, dealer, jobs, seen, todo>>

Snapshot(n) ==
    /\ seen' = [seen EXCEPT ![n] = use]
    /\ todo' = [todo EXCEPT ![n] = hosts]

\* delUseList, when USE has entries and the lock is had: else it does nothing.
DelRead(n) ==
    /\ spc[n] = "delRead"
    /\ hosts = {} \/ useLock \in {None} \cup Crashed
    /\ IF hosts # {} /\ useLock = None
         THEN useLock' = n /\ Snapshot(n) /\ GotoS(n, "del")
         ELSE GotoS(n, "readUse") /\ UNCHANGED <<useLock, seen, todo>>
    /\ UNCHANGED <<db, deleted, membership, applied, apply, hosts, use, applyLock, dealer,
                   list, jobs, gone, running>>

\* The entry is taken to be still there.
Mut_PutBackTasks(n, keep) ==
    \E h \in todo[n] :
       /\ UNCHANGED hosts
       /\ use' = Without(h, use) \cup {e \in seen[n] : e[1] = h /\ e[2] \in keep}
       /\ todo' = [todo EXCEPT ![n] = @ \ {h}]

\* The entry of a host is written back: the tasks of the snapshot in keep.
PutBack(n, keep) ==
    \E h \in todo[n] :
       /\ hosts' = hosts \cup {h}
       /\ use' = Without(h, use) \cup {e \in seen[n] : e[1] = h /\ e[2] \in keep}
       /\ todo' = [todo EXCEPT ![n] = @ \ {h}]

\* It keeps the deleted tasks and drops the others.
Del(n) ==
    /\ spc[n] = "del"
    /\ PutBack(n, gone[n])
    /\ IF todo'[n] = {}
         THEN useLock' = None /\ GotoS(n, "readUse") /\ seen' = [seen EXCEPT ![n] = {}]
         ELSE UNCHANGED <<useLock, spc, seen>>
    /\ UNCHANGED <<db, deleted, membership, applied, apply, applyLock, dealer, list, jobs,
                   gone, running>>

\* An empty USE is no reason to stop.
Mut_ApplyAnyway(n) ==
    /\ spc[n] = "readUse"
    /\ LET missing == list[n] \ TasksOf(use)
           excess == TasksOf(use) \ list[n]
       IN  /\ jobs' = [jobs EXCEPT ![n] = missing]
           /\ gone' = [gone EXCEPT ![n] = excess]
           /\ GotoS(n, IF missing # {} THEN "applyLock"
                       ELSE IF excess # {} THEN "removeRead" ELSE "runOwn")
    /\ UNCHANGED <<db, deleted, membership, maps, dealer, list, seen, todo, running>>

\* execScheduleExec: with an empty USE everything stops and nothing is applied for;
\* else whatever is not in use is, and what is in use but not in the list removed.
ReadAll(n) ==
    /\ spc[n] = "readUse"
    /\ LET missing == list[n] \ TasksOf(use)
           excess == TasksOf(use) \ list[n]
       IN  /\ jobs' = [jobs EXCEPT ![n] = IF hosts = {} THEN {} ELSE missing]
           /\ gone' = [gone EXCEPT ![n] = excess]
           /\ GotoS(n, IF hosts = {} THEN "runOwn"
                       ELSE IF missing # {} THEN "applyLock"
                       ELSE IF excess # {} THEN "removeRead" ELSE "runOwn")
    /\ UNCHANGED <<db, deleted, membership, maps, dealer, list, seen, todo, running>>

AfterApply(n) == IF gone[n] = {} THEN "runOwn" ELSE "removeRead"

\* sendListAppl: USE is read again under the lock.
ApplyLock(n) ==
    /\ spc[n] = "applyLock"
    /\ applyLock \in {None} \cup Crashed
    /\ IF applyLock = None
         THEN /\ applyLock' = n
              /\ jobs' = [jobs EXCEPT ![n] = @ \ TasksOf(use)]
              /\ GotoS(n, "applyRead")
         ELSE /\ jobs' = [jobs EXCEPT ![n] = {}]
              /\ GotoS(n, AfterApply(n))
              /\ UNCHANGED applyLock
    /\ UNCHANGED <<db, deleted, membership, applied, apply, hosts, use, useLock, dealer, list,
                   gone, seen, todo, running>>

ApplyRead(n) ==
    /\ spc[n] = "applyRead"
    /\ jobs' = [jobs EXCEPT ![n] = @ \cup TasksAt(n, apply)]
    /\ GotoS(n, "applyPut")
    /\ UNCHANGED <<db, deleted, membership, maps, dealer, list, gone, seen, todo, running>>

ApplyPut(n) ==
    /\ spc[n] = "applyPut"
    /\ applied' = applied \cup {n}
    /\ apply' = Without(n, apply) \cup ({n} \X jobs[n])
    /\ jobs' = [jobs EXCEPT ![n] = {}]
    /\ GotoS(n, "emptyRead")
    /\ UNCHANGED <<db, deleted, membership, hosts, use, applyLock, useLock, dealer, list, gone,
                   seen, todo, running>>

\* What is to stay in USE are the tasks whose id is among the jobs' taskId: a
\* String among Longs, so none is.  Every entry is written back empty.
EmptyRead(n) ==
    /\ spc[n] = "emptyRead"
    /\ todo' = [todo EXCEPT ![n] = hosts]
    /\ IF hosts = {} THEN applyLock' = None /\ GotoS(n, AfterApply(n))
                     ELSE GotoS(n, "empty") /\ UNCHANGED applyLock
    /\ UNCHANGED <<db, deleted, membership, applied, apply, hosts, use, useLock, dealer, list,
                   jobs, gone, seen, running>>

Empty(n) ==
    /\ spc[n] = "empty"
    /\ PutBack(n, {})
    /\ IF todo'[n] = {} THEN applyLock' = None /\ GotoS(n, AfterApply(n))
                        ELSE UNCHANGED <<applyLock, spc>>
    /\ UNCHANGED <<db, deleted, membership, applied, apply, useLock, dealer, list, jobs, gone,
                   seen, running>>

\* Removal of tasks from USE, without a lock.
RemoveRead(n) ==
    /\ spc[n] = "removeRead"
    /\ Snapshot(n)
    /\ GotoS(n, IF hosts = {} THEN "runOwn" ELSE "remove")
    /\ UNCHANGED <<db, deleted, membership, maps, dealer, list, jobs, gone, running>>

RemoveExcess(n) ==
    /\ spc[n] = "remove"
    /\ PutBack(n, Task \ gone[n])
    /\ IF todo'[n] = {} THEN GotoS(n, "runOwn") /\ seen' = [seen EXCEPT ![n] = {}]
                        ELSE UNCHANGED <<spc, seen>>
    /\ UNCHANGED <<db, deleted, membership, applied, apply, applyLock, useLock, dealer, list,
                   jobs, gone, running>>

\* The process runs the tasks of its own entry, and no others.
RunOwn(n) ==
    /\ spc[n] = "runOwn"
    /\ running' = [running EXCEPT ![n] = list[n] \cap TasksAt(n, use)]
    /\ list' = [list EXCEPT ![n] = {}]
    /\ gone' = [gone EXCEPT ![n] = {}]
    /\ GotoS(n, "idle")
    /\ UNCHANGED <<db, deleted, membership, maps, dealer, jobs, seen, todo>>

SendListAppl(n) ==
    ApplyLock(n) \/ ApplyRead(n) \/ ApplyPut(n) \/ EmptyRead(n) \/ Empty(n)

Schedule(n) ==
    \/ Poll(n) \/ DelRead(n) \/ Del(n) \/ ReadAll(n) \/ SendListAppl(n)
    \/ RemoveRead(n) \/ RemoveExcess(n) \/ RunOwn(n)

-----------------------------------------------------------------------------
Environment ==
    \/ SessionExpires \/ EditJobs
    \/ \E n \in Node : Start(n) \/ Crash(n) \/ Register(n) \/ Evict(n) \/ TakeOver(n)

Next ==
    \/ Environment \/ Dealer
    \/ \E n \in Node : Schedule(n)

Spec == Init /\ [][Next]_vars

\* Fairness, all of it weak.  Threads that can go on do, the master syncs time and
\* again and every scheduler polls; sessions expire; live hosts get registered, and
\* a master outside the group replaced (HazelcastMembership).  Dead hosts need not
\* be evicted.
Fairness ==
    /\ WF_vars(SessionExpires)
    /\ WF_vars(Dealer)
    /\ WF_vars(\E n \in Node : TakeOver(n))
    /\ \A n \in Node : WF_vars(Schedule(n)) /\ WF_vars(Register(n))

FairSpec == Spec /\ Fairness

-----------------------------------------------------------------------------
(* Properties                                                              *)

\* The type of every variable; there are no tasks but in entries.
TypeOK ==
    /\ db \subseteq Task /\ deleted \subseteq Task
    /\ group \subseteq Node /\ changed \in [Node -> BOOLEAN]
    /\ {master, applyLock, useLock} \subseteq Node \cup {None}
    /\ applied \subseteq Node /\ apply \subseteq applied \X Task
    /\ hosts \subseteq Node /\ use \subseteq hosts \X Task
    /\ hpc \in DealerStages /\ appl \in [Node -> SUBSET Task]
    /\ plan \subseteq Node \X Task /\ rest \subseteq Node
    /\ spc \in [Node -> SchedulerStages]
    /\ list \in [Node -> SUBSET Task] /\ jobs \in [Node -> SUBSET Task]
    /\ gone \in [Node -> SUBSET Task]
    /\ seen \in [Node -> SUBSET (Node \X Task)] /\ todo \in [Node -> SUBSET Node]
    /\ running \in [Node -> SUBSET Task]

\* No job of the table has two hosts in u.  (What becomes of deleted ones is of no
\* consequence: nobody runs a task that is not in the table.)
Single(u) == \A d, e \in u : d[2] = e[2] /\ d[2] \in db => d = e

\* The plan gives no task to two hosts either, nor do USE and the plan together
\* while the one is put into the other.
OneHostInHand ==
    Single(use) /\ Single(plan) /\ (hpc = "fillUse" => Single(use \cup plan))

\* Nothing but a scheduler that takes a deleted task out of USE, and writes an entry
\* of its snapshot back that is not in USE any more, gives a task a second host.
SecondHostByPutBack ==
    [][OneHostInHand =>
          \/ OneHostInHand'
          \/ \E n \in Node : spc[n] = "remove"
                           /\ \E e \in use' \ use : e \in seen[n] /\ e[2] \in db]_vars

\* USE has no entry, APPLY no task, and nobody is about to put something there.
Stopped ==
    /\ hosts = {} /\ apply = {} /\ plan = {}
    /\ \A n \in Node : appl[n] = {} /\ jobs[n] = {} /\ todo[n] = {}

\* Then only the start of another process gets tasks dealt again.
StoppedForGood ==
    [][Stopped => Stopped' \/ \E n \in Node : spc[n] = "new" /\ spc'[n] # "new"]_vars

\* README-EN.md:5: the master distributes newly requested tasks and redistributes the
\* distributed ones when the group changes.
EveryJobStaysDealt ==
    <>[](Live # {} => \A t \in db : t \in TasksOf(use))

=============================================================================
