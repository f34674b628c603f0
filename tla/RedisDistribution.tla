------------------------- MODULE RedisDistribution -------------------------
(***************************************************************************)
(* Dealing out the scheduled tasks with Redis, one command at a time.      *)
(*                                                                         *)
(* Every process runs two threads that meet in the Redis sets APPLY and    *)
(* USE: the heartbeat handler of whoever takes itself for the master       *)
(* (RedisAutoCompute.execDistrib and adjustDistrib), and the scheduler     *)
(* that runs execSchedule every 15 seconds (ScheduleServiceImpl, calling   *)
(* ScheduleJobServiceImpl).  Both rewrite a set by clear() and addAll().   *)
(*                                                                         *)
(* The group is that of RedisMembership, seen from outside: live hosts are *)
(* registered, dead ones removed, each with status CHANGE.  MASTER is left *)
(* out: a process may act on a MASTER it is no more (RedisMembership), so  *)
(* any process may deal at any time, several at once.                      *)
(***************************************************************************)
EXTENDS Dealing

CONSTANTS
    Task,        \* jobs that may be in table zy_sys_job; ids are never reused
    Deletions,   \* TRUE: jobs may be deleted
    MaxCrashes,  \* bound: processes that crash
    MaxDealing,  \* bound: handlers in execDistrib at once
    MaxPolling,  \* bound: schedulers in execSchedule at once
    MaxHits,     \* bound: reads of USE that fall between a clear and its addAll
    None         \* a free lock

ASSUME TaskAssumption == IsFiniteSet(Task)
ASSUME NoneAssumption == None \notin Node

VARIABLES
    db,        \* the jobs in the table
    deleted,   \* the jobs that have been deleted
    group,     \* EXECER bucket: its hosts ...
    changed,   \* ... and whether its status is CHANGE
    apply,     \* set APPLY: tasks applied for (by whom is never looked at)
    use,       \* set USE: <<host, task>> for each task dealt
    execLock,  \* process whose scheduler holds STASK:EXECER:LOCK_V1
    useLock,   \* process whose handler holds STASK:SCHEDULED:LOCK_USE_V1
    hpc,       \* where the handler is
    copy,      \* execAll in execDistrib
    fresh,     \* execer in adjustDistrib
    plan,      \* distribExecListnew, then distribAll: what USE was, what it will be
    spc,       \* where the scheduler is; "new" and "down" for the process
    seen,      \* the entries of USE the scheduler has read or will write
    list,      \* listAll: the jobs the scheduler has read
    jobs,      \* sendListAppl: the jobs to apply for
    new,       \* sendListAppl: what APPLY will be
    running,   \* keys of FUTURESJOBMAP: the tasks each process runs
    hits,      \* reads that fell into a window so far
    erased     \* hosts whose registration a round has written over

redis == <<group, changed, apply, use, execLock, useLock>>
handler == <<hpc, copy, fresh, plan>>
scheduler == <<spc, seen, list, jobs, new>>
history == <<hits, erased>>
vars == <<db, deleted, redis, handler, scheduler, running, history>>

-----------------------------------------------------------------------------
HandlerStages == {"idle", "sleep", "readGroup", "readUse", "readApply",
                  "clearApply", "clearUse", "fillUse", "putDealt"}
SchedulerStages == {"new", "idle", "delRead", "delClear", "delFill", "readUse",
                    "readApply", "applyLock", "applyRead", "applyClear",
                    "applyFill", "down"}

Execer == [group : SUBSET Node, changed : BOOLEAN]
NoExecer == [group |-> {}, changed |-> FALSE]

Live == {n \in Node : spc[n] \notin {"new", "down"}}
Crashed == {n \in Node : spc[n] = "down"}

Init ==
    /\ db \in SUBSET Task
    /\ deleted = {}
    /\ group = {}
    /\ changed = FALSE
    /\ apply = {}
    /\ use = {}
    /\ execLock = None
    /\ useLock = None
    /\ hpc = [n \in Node |-> "idle"]
    /\ copy = [n \in Node |-> NoExecer]
    /\ fresh = [n \in Node |-> NoExecer]
    /\ plan = [n \in Node |-> {}]
    /\ spc = [n \in Node |-> "new"]
    /\ seen = [n \in Node |-> {}]
    /\ list = [n \in Node |-> {}]
    /\ jobs = [n \in Node |-> {}]
    /\ new = [n \in Node |-> {}]
    /\ running = [n \in Node |-> {}]
    /\ hits = 0
    /\ erased = {}

\* USE has been cleared and waits for its addAll.
InWindow == \E n \in Node : hpc[n] = "fillUse" \/ spc[n] = "delFill"

\* A read of USE, which now and then falls into such a window.
ReadsUse ==
    /\ InWindow => hits < MaxHits
    /\ hits' = IF InWindow THEN hits + 1 ELSE hits
    /\ erased' = erased

GotoH(n, stage) == hpc' = [hpc EXCEPT ![n] = stage]
GotoS(n, stage) == spc' = [spc EXCEPT ![n] = stage]

-----------------------------------------------------------------------------
(* The environment: processes, their membership, leases, the job table.    *)

MayPoll == Cardinality({n \in Live : spc[n] # "idle"}) < MaxPolling

\* A process starts and applies for every job (ApplConfigService).
Start(n) ==
    /\ spc[n] = "new"
    /\ MayPoll
    /\ list' = [list EXCEPT ![n] = db]
    /\ jobs' = [jobs EXCEPT ![n] = db]
    /\ GotoS(n, IF db = {} THEN "idle" ELSE "applyLock")
    /\ UNCHANGED <<db, deleted, redis, handler, seen, new, running, history>>

\* What it has put into Redis and the locks it holds stay.
Crash(n) ==
    /\ n \in Live
    /\ Cardinality(Crashed) < MaxCrashes
    /\ GotoH(n, "idle")
    /\ copy' = [copy EXCEPT ![n] = NoExecer]
    /\ fresh' = [fresh EXCEPT ![n] = NoExecer]
    /\ plan' = [plan EXCEPT ![n] = {}]
    /\ GotoS(n, "down")
    /\ seen' = [seen EXCEPT ![n] = {}]
    /\ list' = [list EXCEPT ![n] = {}]
    /\ jobs' = [jobs EXCEPT ![n] = {}]
    /\ new' = [new EXCEPT ![n] = {}]
    /\ running' = [running EXCEPT ![n] = {}]
    /\ UNCHANGED <<db, deleted, redis, history>>

Regroup(G) ==
    /\ execLock = None
    /\ group' = G
    /\ changed' = TRUE
    /\ erased' = erased \ G
    /\ UNCHANGED <<db, deleted, apply, use, execLock, useLock, handler, scheduler,
                   running, hits>>

Register(d) ==
    /\ d \in Live \ group
    /\ Regroup(group \cup {d})

\* checkHost may remove a dead host, or keep it for ever: at each check it refreshes
\* what has not timed out yet (RedisMembership).  A host must be silent for twelve
\* seconds, a round of execDistrib lasts about one: a host missing from a copy in
\* use has registered only just now.
Evict(d) ==
    /\ d \in group \cap Crashed
    /\ Live # {}
    /\ \A n \in Live : hpc[n] # "idle" => d \in copy[n].group
    /\ Regroup(group \ {d})

LeaseExpires ==
    /\ \/ execLock \in Crashed /\ execLock' = None /\ UNCHANGED useLock
       \/ useLock \in Crashed /\ useLock' = None /\ UNCHANGED execLock
    /\ UNCHANGED <<db, deleted, group, changed, apply, use, handler, scheduler,
                   running, history>>

AddJob ==
    /\ \E t \in Task \ (db \cup deleted) : db' = db \cup {t}
    /\ UNCHANGED <<deleted, redis, handler, scheduler, running, history>>

DeleteJob ==
    /\ Deletions
    /\ \E t \in db : db' = db \ {t} /\ deleted' = deleted \cup {t}
    /\ UNCHANGED <<redis, handler, scheduler, running, history>>

-----------------------------------------------------------------------------
(* The handler: execDistrib, adjustDistrib                                 *)

\* execDistrib begins with addextracted, then sleeps for a second.
Sync(n) ==
    /\ n \in Live
    /\ hpc[n] = "idle"
    /\ Cardinality({m \in Node : hpc[m] # "idle"}) < MaxDealing
    /\ GotoH(n, "sleep")
    /\ IF n \in group
         THEN UNCHANGED <<group, changed>>
         ELSE execLock = None /\ group' = group \cup {n} /\ changed' = TRUE
    /\ copy' = [copy EXCEPT ![n] = [group |-> group', changed |-> changed']]
    /\ erased' = erased \ {n}
    /\ UNCHANGED <<db, deleted, apply, use, execLock, useLock, fresh, plan,
                   scheduler, running, hits>>

Finish(n) ==
    /\ GotoH(n, "idle")
    /\ copy' = [copy EXCEPT ![n] = NoExecer]
    /\ fresh' = [fresh EXCEPT ![n] = NoExecer]
    /\ plan' = [plan EXCEPT ![n] = {}]

\* The status of the copy is not looked at.
Mut_DecideOnApply(n) ==
    /\ hpc[n] = "sleep"
    /\ IF apply # {}
         THEN GotoH(n, "readGroup") /\ UNCHANGED <<copy, fresh, plan>>
         ELSE Finish(n)
    /\ UNCHANGED <<db, deleted, redis, scheduler, running, history>>

\* Tasks are dealt when the copy from before the sleep says so, or when
\* something is applied for.
Decide(n) ==
    /\ hpc[n] = "sleep"
    /\ IF copy[n].changed \/ apply # {}
         THEN GotoH(n, "readGroup") /\ UNCHANGED <<copy, fresh, plan>>
         ELSE Finish(n)
    /\ UNCHANGED <<db, deleted, redis, scheduler, running, history>>

\* adjustDistrib reads the group anew, ...
ReadGroup(n) ==
    /\ hpc[n] = "readGroup"
    /\ IF group = {}
         THEN GotoH(n, "putDealt") /\ UNCHANGED fresh
         ELSE /\ fresh' = [fresh EXCEPT ![n] = [group |-> group, changed |-> changed]]
              /\ GotoH(n, "readUse")
    /\ UNCHANGED <<db, deleted, redis, copy, plan, scheduler, running, history>>

\* ... then USE, ...
ReadUse(n) ==
    /\ hpc[n] = "readUse"
    /\ ReadsUse
    /\ plan' = [plan EXCEPT ![n] = use]
    /\ GotoH(n, "readApply")
    /\ UNCHANGED <<db, deleted, redis, copy, fresh, scheduler, running>>

\* The tasks to deal besides those applied for.
Again(e, old) ==
    IF e.changed THEN {Gathered(l) : l \in SetToSeqs(old)} ELSE {{}}

\* The assignment kept as it is.
Kept(e, old) == IF e.changed THEN {} ELSE old

\* Also what stays where it is is dealt when applied for.
Mut_DealInUse(n) ==
    /\ hpc[n] = "readApply"
    /\ LET e == fresh[n]
           kept == Kept(e, plan[n])
       IN  \E again \in Again(e, plan[n]) :
           \E order \in SetToSeqs(apply \cup again) :
           \E start \in 0..(Cardinality(e.group) - 1) :
              plan' = [plan EXCEPT ![n] = kept \cup Dealt(order, e.group, start)]
    /\ fresh' = [fresh EXCEPT ![n] = NoExecer]
    /\ GotoH(n, "clearApply")
    /\ UNCHANGED <<db, deleted, redis, copy, scheduler, running, history>>

\* ... then APPLY (applGroupDistrib), which is cleared afterwards.  The list of
\* tasks may be in any order and the rotation may stand at any host (TaskDealing
\* models both).
ReadApply(n) ==
    /\ hpc[n] = "readApply"
    /\ LET e == fresh[n]
           kept == Kept(e, plan[n])
       IN  \E again \in Again(e, plan[n]) :
           \E order \in SetToSeqs((apply \cup again) \ TasksOf(kept)) :
           \E start \in 0..(Cardinality(e.group) - 1) :
              plan' = [plan EXCEPT ![n] = kept \cup Dealt(order, e.group, start)]
    /\ fresh' = [fresh EXCEPT ![n] = NoExecer]
    /\ GotoH(n, "clearApply")
    /\ UNCHANGED <<db, deleted, redis, copy, scheduler, running, history>>

ClearApply(n) ==
    /\ hpc[n] = "clearApply"
    /\ apply' = {}
    /\ GotoH(n, "clearUse")
    /\ UNCHANGED <<db, deleted, group, changed, use, execLock, useLock, copy, fresh,
                   plan, scheduler, running, history>>

\* Nobody waits for the lock.
Mut_NoUseLock(n) ==
    /\ hpc[n] = "clearUse"
    /\ useLock' = n
    /\ use' = {}
    /\ GotoH(n, "fillUse")
    /\ UNCHANGED <<db, deleted, group, changed, apply, execLock, copy, fresh, plan,
                   scheduler, running, history>>

\* The new assignment is written under LOCK_USE.
ClearUse(n) ==
    /\ hpc[n] = "clearUse"
    /\ useLock = None
    /\ useLock' = n
    /\ use' = {}
    /\ GotoH(n, "fillUse")
    /\ UNCHANGED <<db, deleted, group, changed, apply, execLock, copy, fresh, plan,
                   scheduler, running, history>>

FillUse(n) ==
    /\ hpc[n] = "fillUse"
    /\ use' = use \cup plan[n]
    /\ useLock' = None
    /\ plan' = [plan EXCEPT ![n] = {}]
    /\ GotoH(n, "putDealt")
    /\ UNCHANGED <<db, deleted, group, changed, apply, execLock, copy, fresh,
                   scheduler, running, history>>

\* The copy from before the sleep is written back, as NO_CHANGE.
PutDealt(n) ==
    /\ hpc[n] = "putDealt"
    /\ execLock = None
    /\ group' = copy[n].group
    /\ changed' = FALSE
    /\ erased' = (erased \cup group) \ copy[n].group
    /\ Finish(n)
    /\ UNCHANGED <<db, deleted, apply, use, execLock, useLock, scheduler, running, hits>>

Handle(n) ==
    \/ Decide(n) \/ ReadGroup(n) \/ ReadUse(n) \/ ReadApply(n) \/ ClearApply(n)
    \/ ClearUse(n) \/ FillUse(n) \/ PutDealt(n)

-----------------------------------------------------------------------------
(* The scheduler: execSchedule, from getDistribExecs on                    *)

\* USE and the table are read.  Tasks that are in use nowhere stop here; jobs in
\* use that have been deleted are to leave USE.
Poll(n) ==
    /\ spc[n] = "idle"
    /\ MayPoll
    /\ ReadsUse
    /\ seen' = [seen EXCEPT ![n] = IF TasksOf(use) \subseteq db THEN {} ELSE use]
    /\ list' = [list EXCEPT ![n] = db]
    /\ running' = IF use = {} THEN running
                  ELSE [running EXCEPT ![n] = @ \cap TasksOf(use)]
    /\ GotoS(n, IF TasksOf(use) \subseteq db THEN "readUse" ELSE "delRead")
    /\ UNCHANGED <<db, deleted, redis, handler, jobs, new>>

\* delUseList gives up on an empty USE; else it reads USE before it locks.
DelRead(n) ==
    /\ spc[n] = "delRead"
    /\ ReadsUse
    /\ \/ /\ use = {}
          /\ seen' = [seen EXCEPT ![n] = {}]
          /\ GotoS(n, "readUse")
       \/ /\ LET gone == TasksOf(seen[n]) \ list[n]
             IN  seen' = [seen EXCEPT ![n] = {e \in use : e[2] \notin gone}]
          /\ GotoS(n, "delClear")
    /\ UNCHANGED <<db, deleted, redis, handler, list, jobs, new, running>>

\* The lock it takes is that of EXECER, not that of USE.
DelClear(n) ==
    /\ spc[n] = "delClear"
    /\ execLock = None
    /\ execLock' = n
    /\ use' = {}
    /\ GotoS(n, "delFill")
    /\ UNCHANGED <<db, deleted, group, changed, apply, useLock, handler, seen, list,
                   jobs, new, running, history>>

DelFill(n) ==
    /\ spc[n] = "delFill"
    /\ use' = use \cup seen[n]
    /\ execLock' = None
    /\ seen' = [seen EXCEPT ![n] = {}]
    /\ GotoS(n, "readUse")
    /\ UNCHANGED <<db, deleted, group, changed, apply, useLock, handler, list, jobs,
                   new, running, history>>

\* The process goes on with the tasks that a read u of USE gives it, and no
\* others.
RunAssigned(n, u) ==
    /\ running' = [running EXCEPT ![n] = {t \in list[n] : <<n, t>> \in u}]
    /\ seen' = [seen EXCEPT ![n] = {}]
    /\ list' = [list EXCEPT ![n] = {}]
    /\ GotoS(n, "idle")

\* execScheduleExec reads USE, then APPLY, and applies for what is in neither.
ReadAssigned(n) ==
    /\ spc[n] = "readUse"
    /\ ReadsUse
    /\ seen' = [seen EXCEPT ![n] = use]
    /\ GotoS(n, "readApply")
    /\ UNCHANGED <<db, deleted, redis, handler, list, jobs, new, running>>

ReadApplied(n) ==
    /\ spc[n] = "readApply"
    /\ LET missing == list[n] \ (TasksOf(seen[n]) \cup apply)
       IN  IF missing = {}
             THEN RunAssigned(n, seen[n]) /\ UNCHANGED jobs
             ELSE /\ jobs' = [jobs EXCEPT ![n] = missing]
                  /\ GotoS(n, "applyLock")
                  /\ UNCHANGED <<seen, list, running>>
    /\ UNCHANGED <<db, deleted, redis, handler, new, history>>

\* sendListAppl reads USE under EXECER:LOCK; with an empty USE the jobs are just
\* added to APPLY, ...
ApplyLock(n) ==
    /\ spc[n] = "applyLock"
    /\ execLock = None
    /\ execLock' = n
    /\ ReadsUse
    /\ new' = [new EXCEPT ![n] = jobs[n] \ TasksOf(use)]
    /\ IF use = {}
         THEN GotoS(n, "applyFill") /\ jobs' = [jobs EXCEPT ![n] = {}]
         ELSE GotoS(n, "applyRead") /\ UNCHANGED jobs
    /\ UNCHANGED <<db, deleted, group, changed, apply, use, useLock, handler, seen,
                   list, running>>

\* ... else APPLY is read, too, to be rewritten with what else it has.
ApplyRead(n) ==
    /\ spc[n] = "applyRead"
    /\ new' = [new EXCEPT ![n] = @ \cup (apply \ jobs[n])]
    /\ jobs' = [jobs EXCEPT ![n] = {}]
    /\ GotoS(n, "applyClear")
    /\ UNCHANGED <<db, deleted, redis, handler, seen, list, running, history>>

ApplyClear(n) ==
    /\ spc[n] = "applyClear"
    /\ apply' = {}
    /\ GotoS(n, "applyFill")
    /\ UNCHANGED <<db, deleted, group, changed, use, execLock, useLock, handler, seen,
                   list, jobs, new, running, history>>

ApplyFill(n) ==
    /\ spc[n] = "applyFill"
    /\ apply' = apply \cup new[n]
    /\ execLock' = None
    /\ new' = [new EXCEPT ![n] = {}]
    /\ RunAssigned(n, seen[n])
    /\ UNCHANGED <<db, deleted, group, changed, use, useLock, handler, jobs, history>>

Schedule(n) ==
    \/ Poll(n) \/ DelRead(n) \/ DelClear(n) \/ DelFill(n) \/ ReadAssigned(n)
    \/ ReadApplied(n) \/ ApplyLock(n) \/ ApplyRead(n) \/ ApplyClear(n) \/ ApplyFill(n)

-----------------------------------------------------------------------------
Environment ==
    \/ LeaseExpires \/ AddJob \/ DeleteJob
    \/ \E n \in Node : Start(n) \/ Crash(n) \/ Register(n) \/ Evict(n)

Next ==
    \/ Environment
    \/ \E n \in Node : Sync(n) \/ Handle(n) \/ Schedule(n)

Spec == Init /\ [][Next]_vars

\* hostUpdate, checkHost and addextracted write what they have read before, whatever
\* has been written meanwhile: any group that there may have been, marked or not, also
\* when a lease has run out.
StaleWrite ==
    /\ group' \in SUBSET (Live \cup Crashed)
    /\ changed' \in BOOLEAN
    /\ UNCHANGED <<db, deleted, apply, use, execLock, useLock, handler, scheduler,
                   running, history>>

\* The same with all that RedisMembership may write into EXECER.
AnyGroupSpec == Init /\ [][Next \/ StaleWrite]_vars

\* Fairness, all of it weak.  Threads that can go on do; somebody syncs time and
\* again (the master's heartbeat), the scheduler polls every 15 seconds, leases
\* expire, and live hosts get registered.  Dead ones need not be evicted.
Fairness ==
    /\ WF_vars(LeaseExpires)
    /\ WF_vars(\E n \in Node : Sync(n))
    /\ \A n \in Node : /\ WF_vars(Handle(n))
                       /\ WF_vars(Schedule(n))
                       /\ WF_vars(Register(n))

FairSpec == Spec /\ Fairness

-----------------------------------------------------------------------------
(* Properties                                                              *)

\* The type of every variable.
TypeOK ==
    /\ db \subseteq Task /\ deleted \subseteq Task
    /\ group \subseteq Node /\ changed \in BOOLEAN
    /\ apply \subseteq Task /\ use \subseteq Node \X Task
    /\ execLock \in Node \cup {None} /\ useLock \in Node \cup {None}
    /\ hpc \in [Node -> HandlerStages]
    /\ copy \in [Node -> Execer] /\ fresh \in [Node -> Execer]
    /\ plan \in [Node -> SUBSET (Node \X Task)]
    /\ spc \in [Node -> SchedulerStages]
    /\ seen \in [Node -> SUBSET (Node \X Task)]
    /\ list \in [Node -> SUBSET Task] /\ jobs \in [Node -> SUBSET Task]
    /\ new \in [Node -> SUBSET Task] /\ running \in [Node -> SUBSET Task]
    /\ hits \in Nat /\ erased \subseteq Node

SingleHost(u) == \A d, e \in u : d[2] = e[2] => d = e

\* As long as no job has been deleted, USE never gives one task to two hosts, with
\* several processes dealing at once, crashes between a clear and its addAll, and
\* stale reads.
OneHostPerTask == deleted = {} => SingleHost(use)

\* The assignment that is in force: what is about to be added is, once USE is
\* cleared for it.
Assigned == use \cup UNION {plan[n] : n \in {m \in Node : hpc[m] = "fillUse"}}

A == INSTANCE Assignment WITH jobs <- db, up <- Live, assigned <- Assigned

\* Seen like that, the assignment is replaced as a whole and lost only with a
\* process that crashes, as long as no job has been deleted: no round adds to the
\* outcome of another, and no other step touches USE.
ImplementsAssignment == A!Init /\ [][deleted' = {} => A!Next]_A!vars

\* Deletions or not, a task in USE gets a second host only where a rewrite of USE adds
\* to what another has added since its clear (delUseList and adjustDistrib take
\* different locks): what has been read with one host for each task is written so.
OneHostInHand ==
    SingleHost(use) /\ \A n \in Node : SingleHost(plan[n]) /\ SingleHost(seen[n])
SecondHostByOverlap ==
    [][OneHostInHand => OneHostInHand' \/ (InWindow /\ use # {})]_vars

\* A dead host may keep its tasks: as long as checkHost finds it in the group again
\* and again, and where some round has written the group of before its sleep over
\* the host's registration, so that it has left the group without a mark.
StaysWithDead(t) ==
    \E d \in Node : /\ <>[](d \in Crashed /\ <<d, t>> \in use)
                    /\ []<>(d \in group \cup erased)

\* Once processes, group and table are quiet, every job is run by exactly one
\* live process and deleted jobs by none, for good, if it does not stay with a dead
\* host: applications lost between a read and a clear of APPLY, tasks skipped by
\* useGroupDistrib, a USE lost in a crash and tasks of hosts that checkHost has
\* removed are all made up for.  (But a task that has got two hosts in USE keeps
\* them until the group changes.)
RunByOne(t) ==
    Live # {} /\ SingleHost(use) =>
        Cardinality({n \in Live : t \in running[n]}) = IF t \in db THEN 1 ELSE 0
Converges == \A t \in Task : <>[]RunByOne(t) \/ StaysWithDead(t)

=============================================================================
