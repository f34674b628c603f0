# stask in TLA+

stask runs cron jobs on a group of processes without a central node. The processes find
each other by UDP multicast, elect a master, and share a few values in Redis (or
Hazelcast): the group, the master, the tasks applied for and the tasks dealt out. This
directory holds TLA+ specifications of that system, TLC configurations that check them on
small instances, and proofs that TLAPS checks for instances of every size.

Paths such as `RedisAutoCompute.java:123` are abbreviated; `PROJECT.json` has them in full
and maps each definition to the lines it models.

Contents: [the system](#the-system), [the modules](#the-modules), [the runs](#the-runs),
[bounds](#bounds), [fairness](#fairness), [the proofs](#the-proofs),
[findings](#findings), [other behaviours](#other-behaviours-of-the-code),
[what is not modelled](#what-is-not-modelled), [plan](#plan).

## The system

### Threads and shared state of one process

With the Redis backend:

| thread | what it runs | started by |
|---|---|---|
| handler | `UdpHandler.channelRead0`: on a HEARTBEAT `hostUpdate`, `checkHost` and, for its own heartbeat, `sycCompute` → `addextracted` → `execDistrib` → `adjustDistrib` | Netty event loop of the multicast channel |
| scheduler | `ScheduleServiceImpl.execSchedule` every 15 s | Spring `@Scheduled` |
| task pool | the bodies of the cron tasks | Spring `ThreadPoolTaskScheduler` |
| check port | answers `GET` with the identity of the process | `ServerHttp` |

Processes interact through Redis and multicast only, the two threads of a process through
Redis only. What they share:

| Redis value | content | written by | under |
|---|---|---|---|
| `EXECER` bucket | hosts with the time they were last heard, a status CHANGE / NO_CHANGE | `hostUpdate`, `checkHost`, `remoteHost`, `addextracted`, `execDistrib` | `EXECER:LOCK`, around the write only (`checkHost`: around its loop) |
| `MASTER` bucket | an identity | `checkHost`, `remoteHost`, `sycCompute` | nothing |
| `APPLY` set | tasks applied for | `sendListAppl`, `applGroupDistrib` (clears it) | `EXECER:LOCK`; the clear: nothing |
| `USE` set | (host, task) dealt out | `adjustDistrib`, `delUseList` | `LOCK_USE`; `delUseList`: `EXECER:LOCK` |

Redis commands are atomic, sequences of them are not. Nearly every operation reads a value,
works on a copy, and writes the copy back.

With the Hazelcast backend the threads are the same, the shared values are other ones:

| Hazelcast map | content | written by | under |
|---|---|---|---|
| `EXECMAP` | one entry, the hosts of whoever wrote last | `hostUpdate`, `checkHost`, `addextracted`, `execDistrib` | nothing |
| `MASTER` | one entry | `checkHost`, `remoteHost`, `sycCompute` | its claim: the CP lock `MASTER` |
| `APPLY` | a list of tasks per host | `sendListAppl`, `applGroupDistrib` (clears it) | the CP lock of APPLY; the clear: nothing |
| `USE` | a list of tasks per host | `adjustDistrib`, `useGroupDistrib`, `delUseList`, `sendListAppl`, `execScheduleExec` | nothing, `delUseList`: a CP lock of its own, `sendListAppl`: that of APPLY |

Each process has its own view of the group (`execAllLoacl`) and its own mark that the group has
changed (`autoStatus`). Maps are read as a snapshot and written entry by entry.

### Components

**Membership and master election** (`RedisAutoCompute`, `UdpHandler`, `Execer`).
State: `EXECER`, `MASTER`, the lock, and each handler's copies. Operations: register the
sender of a heartbeat, refresh or probe and remove hosts, delete a dead MASTER, claim MASTER,
register oneself, write the group back after dealing.
Hard: read-modify-write across processes, leases that expire inside a critical section,
crashes between two commands, late datagrams, restarts under a new identity on an old port, a
map that is changed while it is iterated.
Correct if: the lock excludes and is never leaked, every handler run ends, running processes
become members again and again, silent ones are removed, there is a MASTER.

**Distribution** (`execDistrib`, `adjustDistrib`, `applGroupDistrib`, `useGroupDistrib`,
`ScheduleJobServiceImpl`). State: `APPLY`, `USE`, the static rotation counter, the job table.
Operations: apply for all jobs at start-up, apply for unassigned ones, deal what was applied
for, deal everything again after a change, drop the tasks of deleted jobs.
Hard: several masters at once, `clear()`/`addAll()` seen half-way, crashes in
between, applications lost between a read and a clear, two rewrites of `USE` under different
locks, a list that is indexed while elements are removed from it.
Correct if: no task is given to two hosts, every job ends up with one live host, departed
hosts get nothing, the rotation spreads tasks.

**Local scheduling** (`ScheduleServiceImpl`). State: `FUTURESJOBMAP`, the futures of the
task pool. Operations: one run of `execSchedule`; triggers that fire.
Hard: exceptions half-way, futures that are null, comparisons of unlike types.
Correct if: no future is leaked or doubled, what is assigned runs, what is not does not.

**Heartbeats and multicast** (`UdpMulticast`, `UdpIdleStateHandler`, `UdpHandler`). State: the
channel, its idle timer, the queue of the handler's event loop, the counter of runs without a
group. Sends a heartbeat when nothing has been read for `idleTime` seconds.
Hard: timers reset by the heartbeats of others, datagrams that wait behind a slow handler, a
channel that is closed and cannot be rebuilt.
Correct if: somebody goes on hearing his own heartbeat, so that `sycCompute` runs.

**Probes** (`ServerHttp`, `HttpUrlConnectionClientUtil`; the UDP alternative in
`RedisAutoCompute.sendRMap` and `UdpMulticastServiceImpl`). Asks a timed-out host for its
identity before it is removed.
Hard: a late answer, an answer by another process, a thread that waits for what it would
have to read itself. Correct if: only hosts nobody answers for are removed.

**Hazelcast membership** (`HazelcastAutoCompute`: `hostUpdate`, `checkHost`, `remoteHost`,
`sycCompute`, `addextracted`). Hard: `EXECMAP` is empty for a moment in each check, views differ,
error paths leave a lock behind, two processes claim one after the other.
Correct if: the lock is given back or belongs to a session that ends, changes of the group are
answered, a dead master is replaced and its tasks are taken over.

**Hazelcast distribution** (`execDistrib`, `adjustDistrib`, `ScheduleJobServiceImpl` of
`stask-hazelcast`). Hard: no lock around dealing, entries put back from a snapshot, ids compared
across types. Correct if: no task has two hosts and every job is dealt again and again.

**Job table and management API** (`demo-stask-api`): adds, edits and deletes rows of
`zy_sys_job`. **Configuration**, **TCP server and client** (`stask-core/server`,
`client`: nothing that runs calls them), **utilities** (`CronUtil`, `ByteUtil`), **demo pages**.

The `hazards` of `PROJECT.json` list, line by line, what is hard to test in these parts and
which property would catch it.

## The modules

    Dealing ------------- pure part: which tasks, which host -- DealingProofs
      |
    TaskDealing ---------------- dealing, each operation atomic -- TaskDealingProofs
    RedisDistribution ---------- dealing, each Redis command atomic -- RedisDistributionProofs
      |  implements Assignment - what dealing promises
    HazelcastDistribution ------ dealing, each access to a map atomic -- HazelcastDistributionProofs

    RedisMembership ------------ group and master, Redis -- RedisMembershipProofs
    HazelcastMembership -------- group and master, Hazelcast -- HazelcastMembershipProofs
    Multicast ------------------ timers, datagrams, UDP probe -- MulticastProofs
    LocalSchedule -------------- one process's futures -- LocalScheduleProofs

    MC* ------------------------ instances for TLC

The parts rely on each other where they meet. `RedisMembership` and `HazelcastMembership` assume of
the channel what `Multicast` shows (`SomebodyHearsItself`). `RedisDistribution` and
`HazelcastDistribution` see the group of the membership modules from outside. `LocalSchedule` takes
`USE` as an input that changes at any time.

Definitions keep the names of the code. Definitions named `Mut_...` are faulty variants
that no specification uses: each property is known to fail when one of them takes the place
of the definition after it.

### RedisMembership

A heartbeat sends its receiver through a sequence of stages (`pc`), one Redis command each:

| code | actions |
|---|---|
| `UdpHandler` HEARTBEAT, `hostUpdate` | `Heartbeat`, `LateHeartbeat` (read `EXECER`), `PutHost` |
| `checkHost` reads | `ReadExecers`, `ReadMaster`, `DropMaster` |
| its loop, under the lock | `LockExecers`, `Scan` = `Keep` / `ProbeAnswered` / `ProbeFailed` per host |
| `remoteHost` | `ProbeFailed`, `DropAgain` (the catch block runs it a second time), `PutEvicted` |
| end of `checkHost` | `PutChecked` |
| `sycCompute` | `ReadMasterToSync`, `Claim` |
| `addextracted` | `Join`, `PutJoined` |
| `execDistrib` | `Deal` or `NothingToDeal` after the sleep, `PutDealt` |

Variables: `execers`, `master` and `execLock` are the Redis values; `copy`, `seenMaster`,
`todo` and `own` the handler's locals; `orphaned` says that the holder of the lock has left it
behind (it crashed or threw), so that only the lease frees it; `lapsed` are the processes whose
lease ran out during a probe; `late` the datagrams of crashed processes still in flight. `fresh` is
a history variable: the processes that have read or written `EXECER` after every other write of
it, whose copies are thus not stale.

Times are kept as ages, which `Tick` increases in Redis and in all copies: the code only
ever compares a recorded time with the current one. An age beyond `TimeOut` counts as one more
than `TimeOut`. `hostUpdate`'s lock-write-unlock is one step, since nothing of it can be
observed half-way. A process is an identity drawn at start-up, so a restart is another element
of `Node`, which may have the port of one that crashed. `HashMap` order is the order of the
identities' numbers; the order matters because the loop ends at its first removal.

A removal during the loop changes the map that is iterated. If it was the last entry, the
loop just ends; otherwise `remoteHost`'s inner iteration throws, its catch block removes
again, and the loop of `checkHost` throws as well, past the `unlock()`. The model follows
both paths (`PutEvicted`).

### Dealing, TaskDealing

`Dealing` has the pure functions. `useGroupDistrib` removes elements of the list that it walks
by index and so gathers every other entry (`Gathered`); the host counter `cnt = (i + cnt) % size`
advances by 1, 2, 3, ... (`Slot`). Both are closed forms; `GatherLoop` and `SlotLoop` are the loops
of the code, as recursive functions, and `DealingProofs` proves that the forms agree with them for
every list, every group and every number of tasks (`GatherLoopIsGathered`, `SlotLoopIsSlot`).
`MCTaskDealing` and `MCRedisDistribution` evaluate the same for small ones by `ASSUME`.

`TaskDealing` is the abstract view, one operation one step: `DealAll` (status CHANGE),
`DealApplied`, `ExecSchedule` (one round of it, on any process), `SendAllAppl` (start-up),
`Regroup`, `EditJob`. The rotation counter is an unbounded variable that `StartAt` resets;
`last` is a history variable, the host of the first task dealt in the last round.

### RedisDistribution

The same behaviour one Redis command at a time. The handler of any process may deal at any
time, several at once: `RedisMembership` shows that MASTER does not prevent it. The group
is reduced to what that module shows of it from outside: `Register` and `Evict` set status
CHANGE, and `Sync`/`PutDealt` write a copy back that was read a second before. `Evict` may happen
and need not: a dead host may stay in the group for ever, as `membership_dead_host` shows. `erased`
is a history variable: the hosts whose registration `PutDealt` has written over. `AnyGroupSpec` gives
the reduction up: its `StaleWrite` leaves any group that there may have been in `EXECER`, at any
step, which covers every write of `RedisMembership`, those after a lease has run out too.

| code | actions |
|---|---|
| `execDistrib` | `Sync` (`addextracted`, then sleep), `Decide`, `PutDealt` |
| `adjustDistrib` | `ReadGroup`, `ReadUse`, `ReadApply`, `ClearApply`, `ClearUse`, `FillUse` |
| `execSchedule` | `Poll`, ..., `RunAssigned` |
| `delUseList` | `DelRead`, `DelClear`, `DelFill` |
| `execScheduleExec` | `ReadAssigned`, `ReadApplied` |
| `sendListAppl` | `ApplyLock`, `ApplyRead`, `ApplyClear`, `ApplyFill`; `Start` calls it with all jobs |

`Poll` reads `USE` and then the table in one step: between the two reads only edits of the
table could matter, and an edit before the pair or after it has the same effect, since ids are
never reused. A step of the scheduler also ends with the local work that follows the command.
`LocalSchedule` models that work; here `running` is its outcome, the tasks that `USE` assigns.

### Assignment

What dealing promises without its machinery: jobs, processes that run, one assignment in which no
task has two hosts, replaced as a whole (`Deal`) and lost only when a process crashes (`Fail`).
`RedisDistribution!ImplementsAssignment` maps the assignment to what is in force: `USE`, or
between a clear and its `addAll` the plan about to be added. Then the step that deals is the clear,
and everything else that handlers and schedulers do is a stutter.

### Multicast

Time goes in ticks. `Expire` sends a heartbeat when a channel has read nothing for `IdleTime`
ticks; each open channel reads a copy or loses it (`R`), which resets its timer at once, and the
datagram waits in `inbox` for `UdpHandler`, which has an event loop of its own. `HandleHeartbeat` is
a heartbeat that probes nobody, `StartProbe` one whose `checkHost` asks some host of the group by
UDP, `HandleApplReceive` and `HandleReceive` the two other kinds of datagrams. `EndProbe` is the
end of `future.get`: an answer (`ProbeAnswered`), or a second without (`ProbeTimedOut`). After the
latter the catch block calls `remoteHost`, which removes from the map that it iterates: if the
host was the last entry the check goes on without it, otherwise the iteration throws before
anything is written, the handler ends, `sycCompute` is skipped, and the host is still in `EXECER`
(`RedisAutoCompute.java:268`, `396`). `Restart` is `restartMulticast`, called by
`execSchedule` after `MAXTIME` runs without a group; it may fail.

Simplified: what is in the membership modules is one step; the queue of a channel that is replaced
passes to its successor; the entry of `sendRMap` and the datagram of a probe are one step. The
module is the NIO channel. The epoll variant, with a socket and an event loop for each core, is not
modelled: there a second handler may read an answer while the first waits for it, so that nothing
said here of probes carries over.

### HazelcastMembership

The stages of a heartbeat as in `RedisMembership`, with the accesses to the maps as steps.
`Silence` makes all entries of all views time out at once (`stale`), so there are no ages. Datagrams
of a process that has crashed may arrive later (`late`, `LateHeartbeat`), as in `RedisMembership`. The
assignment is reduced to the hosts that have tasks. Where the code throws, there is an action for
it: `ExamineFails` (`remoteHost` looks `MASTER` up with the map as the key and casts the result),
`ClaimFails` (`tryLock` gives up), `DealFails` (the entry of `EXECMAP` is gone when it is to be
written back, and the lock of the claim stays locked).

### HazelcastDistribution

| code | actions |
|---|---|
| `execDistrib` | `Deal` ... `Done` |
| `adjustDistrib`, `applGroupDistrib`, `useGroupDistrib` | `ReadApply`, `ClearApply`, `ReadUse`, `RemoveUse`, `ClearUse`, `FillUse` |
| `execSchedule` | `Poll`, ..., `RunOwn` |
| `delUseList` | `DelRead`, `Del` |
| `execScheduleExec` | `ReadAll`, `RemoveRead`, `RemoveExcess` |
| `sendListAppl` | `ApplyLock`, `ApplyRead`, `ApplyPut`, `EmptyRead`, `Empty` |

`use` has the tasks, `hosts` the hosts that have an entry, empty or not: the code asks
`isEmpty()` of the map. One process at a time is the master here; two that deal at once are not
covered (see [what is not modelled](#what-is-not-modelled)).

### LocalSchedule

One run of `execSchedule` is one step, as only that thread touches the map. Crons are of five
kinds, the ones the code tells apart: two that fire, one without a next time (`schedule()`
returns null), one that Quartz accepts and Spring's `CronTrigger` rejects, one that Quartz
rejects. The step has four disjuncts, for where a run ends: `FailsAtUnused`, `FailsAtComparison`
and `FailsAtRemoval` (a `NullPointerException` on a null future in the first removal, the
comparison, the second removal) and `Succeeds` (whose additions stop at the first expression that
Spring rejects, `Reached`). `Fire` and `Finish` are the task pool.

## The runs

| run | instance | states | shows |
|---|---|---|---|
| `membership_safety` | 2 processes, flaky and slow probes, crash at any step | 1.2 M | `CheckExclusive`, `LockAccounted`: `EXECER:LOCK` excludes while leases run; a holder is inside `checkHost` or has left the lock to its lease. `MasterInOwnCopy`: a stale write never drops its writer. `LostByOvertaking`: a host that has not timed out is lost only in a write that overtakes another |
| `membership_restarts` | 3 identities in succession, 2 crashes, a reused port, late datagrams | 9.5 k | `HandlingEnds`, `SilenceEvicts` |
| `membership_pair` | 2 processes, a crash at any step | 357 k | `JoinHeals`: a registration overwritten with a stale copy comes back, for a process that hears itself. `MasterElected`: once the dead have left the group, `MASTER` names a running process time and again, although it is claimed and deleted on what has been read before |
| `task_dealing` | 3 hosts, 3 tasks | 58 k | `OneHostPerTask`, `DealtWithinGroup`, `EveryJobDealt`; `RotationSpreads`: two rounds in a row begin at different hosts; `ThirdHostIdle`: a round dealt to three hosts leaves one of them without a task |
| `distribution_safety` | 2 hosts both dealing, 1 scheduler, a crash at any step, one read in a window, 1 task; and 2 tasks of which one may be deleted, 1 dealing | 1.2 M | `OneHostPerTask` and `ImplementsAssignment` until a job is deleted, whatever the interleaving. `SecondHostByOverlap`: deletions or not, only rewrites of `USE` that overlap give a task a second host |
| `distribution_converges` | 2 hosts, 1 dealing, 2 schedulers, 1 task added and deleted, a crash at any step, one read in a window | 623 k | `Converges`: a job comes to be run by exactly one live process, a deleted one by none, unless it stays with a dead host that the group keeps, or that has left it without a mark |
| `local_schedule` | 2 jobs, crons of every kind | 11.7 k | `ScheduledOnce`, `FollowsAssignment`; `PoisonIsForGood` and `EveryRunInterrupts`, see [findings](#findings) |
| `multicast` | 2 processes, UDP probes, a crash, channels that do not reopen | 303 k | `ProbesGoUnanswered`: no UDP probe ever sees its answer. `SomebodyHearsItself`: somebody goes on taking up his own heartbeat all the same |
| `hazelcast_membership` | 2 processes, a crash at any step, late datagrams | 309 k | `LockOutlivesClaim`: a crash and a failure of `execDistrib` are the only ways out of a claim that leave the CP lock locked. `NoChangeForgotten`, `MasterReplaced`, `SurvivorTakesOver` |
| `hazelcast_distribution` | 2 hosts, 1 task added and deleted, a crash at any step; and 2 tasks of which one may be deleted | 1.8 M | `SecondHostByPutBack`: only where entries read before are put back does a task get a second host; `StoppedForGood`: once nothing is in use or applied for, only a start helps |
| `membership_dead_host`, `hazelcast_stops` | | about 3 k, 10–20 k | counterexamples, see [findings](#findings) |

The counts are those of distinct states; for a counterexample, those found until then.

One more configuration is not among the runs, as a theorem says for every instance what it shows
of one: `DistributionStaleWrites.cfg` (`AnyGroupSpec` with one host dealing, two schedulers and a
crash; `AnyGroupWillDo`).

The safety properties that name their exceptions are checked where the exceptions happen: without
`deleted = {}` in `OneHostPerTask`, TLC finds a task with two hosts in `distribution_safety`; without
the put-back, `SecondHostByPutBack` fails in `hazelcast_distribution`; without `Node \ fresh`,
`LostByOvertaking` fails in `membership_safety`.

Some properties have a narrower scope than their names. `CheckExclusive` is about processes
whose lease still runs: with a probe of three seconds under a lease of two, others do
enter. `LockAccounted` leaves a lock that was abandoned to its lease.
`JoinHeals` speaks of processes that hear their own heartbeat again and again, `MasterElected` of a
group that dead hosts have left (a dead master that `checkHost` keeps refreshing stays the
master, see [findings](#findings)), `SomebodyHearsItself` of heartbeats that are taken up, which a
probe may end before `sycCompute`, and `SurvivorTakesOver` of the last process left: with more, see
[other behaviours](#other-behaviours-of-the-code).

Deadlock checking is off in the runs with bounded starts and crashes, where everything may
have crashed in the end.

## Bounds

| bound | in | why it is enough |
|---|---|---|
| `TimeOut` 0 or 1 | RedisMembership | an entry is fresh or timed out (0); fresh, ageing, timed out (1). More ticks add ages that no guard tells apart |
| `MaxLive`, `MaxStarts`, `MaxCrashes` | membership modules | two processes are the smallest group with races (`membership_safety`, `membership_pair`); the third start is the restart on an old port (`membership_restarts`, one process at a time, so that what is seen is the work of datagrams, restarts and clocks; the races are in the other two) |
| `RestartIsLater` | MCRedisMembership | a constraint of `membership_safety`: of the three identities, 3 starts after 1 only. With two starts, 2 and 3 alone would be 1 and 2 renamed, so it halves the run and loses nothing |
| `FlakyProbe`, `SlowProbe` | membership modules | whether the probe of a live host may fail. On for the safety of `RedisMembership`, off for its liveness: probes of live hosts that fail for ever would evict them for ever. Off in `hazelcast_membership` to keep the run short; with it on, the run has 580 k states and its properties hold too, and the theorems cover it |
| `MaxDealing` | RedisDistribution | 2 for safety (two masters), 1 for convergence |
| `MaxPolling` | distribution modules | 1 for safety, 2 for the convergence of `RedisDistribution` (two schedulers that apply at once); 1 for Hazelcast, where a scheduler in a round already meets the master's rounds at every step |
| `MaxHits` | RedisDistribution | reads that may fall between `clear` and `addAll`. With unboundedly many, `USE` could look incomplete in every round; under fairness nothing excludes that, in reality the window is a millisecond in fifteen seconds |
| `MaxCrashes` | distribution modules | one crash, at any step of any thread |
| `Deletions`, `Edits` | distribution modules | on, but in `hazelcast_stops`, which needs none |
| two hosts, one or two tasks | distribution modules | a conflict is between two hosts about one task; the two kinds of overlapping rewrites that double a task need a second one, which is deleted. `distribution_converges` has one task: with two, more than weak fairness is needed, see [fairness](#fairness). More tasks in one round are in `task_dealing`, and the theorems are about any number |
| `Scope` | MCRedisDistribution, MCHazelcastDistribution | constraints that make two instances of one. Redis: either one task that is not deleted, with two dealers, a crash and a read in a window; or two tasks, one of which may be deleted, with one dealer and without the other two. Hazelcast: either one task that may be added and deleted, with a crash; or two tasks, one of which may be deleted, without. `OnlyOverlapsDouble`, `NoTaskOnTwoHosts`, `RefinesAssignment`, `OnlyPutBackDoubles` and `OnlyAStartRevives` have no such bounds |
| `IdleTime` 2, `MaxTime` 2 | Multicast | two ticks let timers of two processes be apart, and a probe (one tick) end before or after one expires. The counter of runs without a group reaches its limit after `IdleTime`, as in the code (75 s and 6 s) |
| `MaxInbox` 1 | Multicast | one datagram waits while the handler probes, and decides about what comes behind it. The proofs have no bound |

Every job may be added, edited or deleted at any step, as often as the bounds of the state
space allow; the rotation of the distribution modules may stand anywhere, that of `TaskDealing`
is the real counter.

`distribution_safety` uses symmetry in the two hosts. `MCHostAt` lists them in a fixed order,
yet swapping them maps behaviours to behaviours, as `ReadApply` allows every start of the
rotation, and in a group of two a start shifted by one deals every task to the other host. No run
with a liveness property uses symmetry.

## Fairness

`RedisMembership`: weak for leases and time. Strong for `Handle(n)`, because a waiter for
`EXECER:LOCK` could lose every race; the group is quiet for `idleTime` seconds after each
burst of heartbeats, and leases last two, so a waiter does find the lock free. Strong for some
process hearing its own heartbeat (`\E n : Heartbeat(n, n)`), which is what `Multicast!SomebodyHearsItself`
shows of the timers; not for each process, as a process may be silenced by the others. No fairness
for heartbeats of others (datagrams are lost), starts and crashes. `HazelcastMembership`: the same
for own heartbeats, weak for handlers (`tryLock` does not wait for ever) and sessions.

`Multicast`: weak for time, timers and handlers. Two strong conditions on the network and the
system: a process that sends again and again does not lose its own copy each time, and a channel
is not rebuilt in vain for ever.

`RedisDistribution`: weak only. Threads that can go on do, `execSchedule` runs every 15 seconds,
some process is the master and syncs, live hosts are registered (what `RedisMembership` shows, under
the condition that the master goes on hearing itself). There is no fairness of `Evict`:
`checkHost` may keep a dead host for ever (`membership_dead_host`), and `Converges` then says that
the host's jobs may stay with it. Weak fairness suffices for the locks, too, since a bounded number of holders
contend. With two tasks it does not suffice for registration: there is a fair behaviour in which
every heartbeat of a host falls into the master's second of sleep, is erased by the copy from
before it, and each such change makes `useGroupDistrib` drop a task that is then applied for again.
Heartbeats are `idleTime` apart in a group whose timers reset each other, so that this has to end;
so the run has one task.

`HazelcastDistribution`: weak, as for Redis, and none of `Evict`. `TaskDealing`: weak for dealing and for `ExecSchedule`.
`LocalSchedule`: weak for `ExecSchedule`.

## The proofs

All theorems are of the form `Spec => []Inv` or `Spec => [][A]_vars` (the refinement too, the second
with `A!Next`),
for any constants that satisfy the modules' assumptions: `Node` finite (and, in `RedisMembership`,
numbered), `TimeOut` a natural number, `IdleTime` a positive one and `MaxTime` not below it,
`None` not a process, `Task` finite, and `HostAt` (the iteration order of a `HashMap`) yielding
keys of the map, each at one position. No theorem assumes more: none has a bound on processes,
crashes, dealers or deletions.

| theorem | of | argument |
|---|---|---|
| `TypeCorrect` | RedisMembership | one lemma per group of actions; `TypeOK` is inductive |
| `LockNeverLeaked`, `CheckIsExclusive` | RedisMembership | `LockInv` = `LockAccounted` (a lock that is held and not orphaned has its holder inside `checkHost`) and `CheckHoldsLock` (a process inside, whose lease has not run out, is the holder). Neither half is inductive: to keep the first when a check is left one must know who held the lock, to keep the second when the lock is taken one must know that nobody else is inside. Exclusion follows, as there is one holder |
| `OnlyOvertakenWritesLose` | RedisMembership | `LostByOvertaking`, for any number of processes at once. `FreshInv`: while the copy of a process in `fresh` is in use it `Covers` `EXECER`, that is, has every host that has not timed out there, with an age not above that in the bucket. Reading `EXECER` establishes this, a write of anybody else takes the process out of `fresh`. Time keeps it, as `Older` is monotone; an eviction does, as what has timed out in the copy has then timed out in the bucket |
| `WriterKeepsItself` | RedisMembership | `MasterInOwnCopy` is inductive with `TypeOK`: the stages of `sycCompute` begin with the process in its copy, time never removes an entry, and other steps leave the copy alone |
| `SlotLoopIsSlot`, `GatherLoopIsGathered` | Dealing | the closed forms are what the loops of the code compute. Induction over the natural numbers, in the form of a lemma about sets (`NatSetInduction`: a set that has 0 and every successor has every number, from the least counterexample), since the library's theorems with an operator parameter cannot be used. `SlotStep`: `i` steps add up to `i * (i + 1) / 2` modulo the size. `PassStep`: a pass of the inner loop removes every other entry and leaves the others in order |
| `TypeCorrect`, `NoTaskTwice`, `DepartedHostsGetNothing` | TaskDealing | the properties are inductive together with `TypeOK`, by the lemmas of `DealingProofs` |
| `RotationGoesOn`, `OneOfThreeIdle` | TaskDealing | `LastStart`: the host of the first task of the last round is the one at `rotation - 1`. With that, the next round of two or more hosts begins at the following one. Three hosts: the offsets of `Slot` are 0 or 1 modulo 3 (`SlotOfThree`), so that the third host gets nothing |
| `TypeCorrect` | RedisDistribution | `TypeInv` adds `HasGroup`: between `ReadGroup` and `ReadApply` the group in hand is not empty, without which a task would be dealt to host `i % 0` |
| `NoTaskOnTwoHosts` | RedisDistribution | as long as no job has been deleted. `DealInv` (`DealSoFar`: it holds while `deleted = {}`, which no step restores): every task on its way into `USE` is a job of the table (`Known`, so that no scheduler has entered `delUseList`); between `ClearUse` and `FillUse` the process holds `LOCK_USE` and `USE` is empty (`Rewriting`); what a round will write gives each task one host (`PlansOneHost`). The last needs that a read of `USE` has one host per task, the first that an `addAll` adds to an empty set. |
| `RefinesAssignment` | RedisDistribution | as long as no job has been deleted, with `TypeInv` and `DealInv`. By `Rewriting` at most one process is in the window, so what is in force (`Assigned`) is `USE` outside and its plan inside (`AssignedInForce`). `ClearUse` is then `A!Deal`, with `PlansOneHost` and `Known` saying that the plan is an assignment; a crash inside the window is `A!Fail` with everything lost; all other steps leave `Assigned` alone (`SameAssigned`) |
| `AnyGroupWillDo` | RedisDistribution | the last two theorems for `AnyGroupSpec`: no part of `TypeInv`, `DealInv` and `Assigned` depends on what `EXECER` holds but that it is a group, so `StaleWrite` keeps them (`StaleWriteKeeps`). So what is shown of `USE` holds over the group as `RedisMembership` has it, stale writes, lapsed leases and all |
| `OnlyOverlapsDouble` | RedisDistribution | with deletions or without. `OneHostInHand` (`USE` and all copies of it have one host per task) is kept by every step but an `addAll` to a set that is not empty; only `TypeInv` is needed besides |
| `TypeCorrect`, `UdpProbesFail` | Multicast | `ProbesGoUnanswered` is inductive with `TypeOK`: a probe begins by overwriting the entry of the host it asks, and while it waits the only steps that could answer it are those of the handler that waits |
| `TypeCorrect`, `NoFutureLeaked`, `PoisonedForGood`, `RunsInterruptAll` | LocalSchedule | `LocalInv` adds to types and `ScheduledOnce` that a key has a future or a null (`KeysHaveHandles`) and that bodies that run have keys (`BodiesHaveKeys`), so that a run that cancels all keys interrupts all bodies |
| `TypeCorrect`, `ClaimsGiveBack`, `ChangesAnswered` | HazelcastMembership | `TypeOK` says that who is about to write `EXECMAP` has something to write, although others empty it. `ClaimInside`: who has claimed is between the claim and its end, so that all other returns, of `checkHost` and of a failed `tryLock`, happen without the lock. The ways out of the claim are then `Finish`, which unlocks what is not leaked, `DealFails` and `Crash` |
| `TypeCorrect`, `OnlyAStartRevives` | HazelcastDistribution | `TypeInv` adds that a dealing master has a group (`DealerHasGroup`) and that `USE` is filled with something (`FillsSomething`). Given both, every step but a start keeps `Stopped`: what is read of empty maps is empty, and what is dealt of nothing is nothing (`PlanEntries`) |
| `OnlyPutBackDoubles` | HazelcastDistribution | `OneHostInHand` (`USE`, the plan, and both together while the one is put into the other, have one host for each job of the table) is kept by every step but one that puts entries back |

`DealingProofs` has what they rest on: an order of a set of tasks lists each once
(`OrderOfTasks`), the host index is within the group (`SlotInRange`), so `Dealt` gives
each task listed exactly one host of the group (`DealtEntries`), and `Gathered` yields tasks
that were in use (`GatheredTasks`).

Only model-checked: liveness (`HandlingEnds`, `MasterElected`, `JoinHeals`, `SilenceEvicts`,
`EveryJobDealt`, `Converges`, `FollowsAssignment`, `SomebodyHearsItself`, `MasterReplaced`,
`SurvivorTakesOver`), which rests on fairness and `ENABLED`. Every invariant and every action
property of a run has a theorem.

## Findings

Behaviours of the code that the documentation excludes.

1. `membership_dead_host`, a counterexample. `checkHost` sets the current time on every entry that
   has not timed out, whoever sent the heartbeat (`RedisAutoCompute.java:302`). While any process's
   heartbeats arrive often enough, a dead host never ages. README-EN.md:7 says that a host
   without an update for 18 seconds is removed.
2. `hazelcast_stops`, a counterexample. `sendListAppl` keeps in `USE` the tasks whose id is in a list
   of `Long` ids, and the ids in `USE` are strings (`ScheduleJobServiceImpl.java:84`), so every
   application empties it. When a second process starts while all jobs are in use, its
   application empties `USE` and asks for nothing; the master deals what is in use, nothing; and
   `execScheduleExec` does nothing with an empty `USE` (100). All tasks stand still until another
   process starts, which the theorem `OnlyAStartRevives` says of every instance.
   README-EN.md:5 says that the distributed tasks are redistributed when the group changes.
3. `local_schedule`, property `PoisonIsForGood`. A cron without a next time leaves a null future on
   which every later run throws; a cron that only Quartz accepts ends the run before the jobs
   listed after it (`ScheduleServiceImpl.java:226`). README-EN.md:6 says that an assigned task that
   does not run is started.
4. `local_schedule`, property `EveryRunInterrupts`. The filter that should keep running tasks
   compares job objects with keys (`ScheduleServiceImpl.java:131`), so each run cancels and
   reschedules everything and interrupts running bodies. README-EN.md:6 says that only changed
   tasks are restarted.

## Other behaviours of the code

No document excludes them, but a reader of the properties should know where they end. Those with
constants can be seen with TLC by setting them.

- *Two masters.* After its second of sleep `execDistrib` deals without reading `MASTER` again
  (`RedisAutoCompute.java:418`), so that two processes may deal at once. `OneHostPerTask` and
  `ImplementsAssignment` show that this does no harm to `USE` under Redis.
- *A lost host.* A host that registers during a master's sleep is dealt tasks,
  for `adjustDistrib` reads the group anew, and is erased by the write of the copy from before
  the sleep (`RedisAutoCompute.java:450`), as NO_CHANGE. If it crashes before its next
  heartbeat nothing marks a change, and its tasks stay with it. `Converges` names this exception
  (`erased` in `StaysWithDead`).
- *Overlapping rewrites.* `delUseList` clears and fills `USE` under `EXECER:LOCK`, `adjustDistrib`
  under `LOCK_USE`. With two tasks, one of them deleted, both fill what both have cleared, and the
  other task has two hosts until the group changes. This happens in `distribution_safety`;
  `SecondHostByOverlap` says that there is no other way. `Converges` leaves such a task out.
- *Hosts that have not timed out* are lost when a copy read before their registration is written
  back. `LostByOvertaking` says that there is no other way, `JoinHeals` that they come back.
- *Three hosts.* The increments of the rotation counter grow within a round, so that of three hosts
  one gets no task in a round, however many there are (`ThirdHostIdle`).
- *Silence.* README-EN.md:7 has every process send a heartbeat every six seconds. The timer is reset by
  every datagram read, so one process may send all of them; another is then kept alive by finding 1
  only. A process whose channel could not be rebuilt once there is a group stays silent for good.
- *UDP probes* always fail with the NIO channel (`ProbesGoUnanswered`). With check type UDP a host that
  times out, alive or not, is removed if it is the last entry of the map; otherwise the handler
  ends before `sycCompute` and the host stays, until it is heard again or is the last.
- *Hazelcast, the last but one.* A process other than the master that dies is removed by
  `remoteHost` without a mark that the group has changed, so that its tasks stay with it until the
  next change; a dead host whose port another process has taken is never removed.
- *Hazelcast, a lock left locked.* When `execDistrib` finds `EXECMAP` empty between the clear and the
  put of another's check, it throws past the `unlock()` of the claim (`DealFails`). The CP lock then
  stays with the process until its session ends, and no other process can claim to be the master.
- *Hazelcast, two tasks.* Entries of `USE` are put back from a snapshot, so that a task can get two
  hosts when another one is deleted. This happens in `hazelcast_distribution`;
  `SecondHostByPutBack` says that there is no other way. And as each application empties `USE`, two
  jobs of which one is added later can take turns for ever.

## What is not modelled

- Two processes that deal at once under Hazelcast: `HazelcastDistribution` has one master at a time,
  although `HazelcastMembership!Claim` lets a second process claim after the first. Nothing excludes
  them from each other's clear and `putAll`.
- The lease of `LOCK_USE` running out under a live process (two seconds around two commands).
- The epoll variant of the channel (a socket and an event loop for each core).
- Stale writes of the group together with convergence: `Converges` is about a group that is lost
  only to evictions and to `PutDealt`.
- `SUBMITLISTENABLE` in `execSchedule`: the future of a cron task is never done while it is in
  the map, so the branch is not reached.
- The content of a job other than its cron: only the task bodies use it, and each run reschedules
  every task with the row it has just read.
- The scripts under `demo-stask-api/src/main/resources/static`: all JavaScript of the repository, and
  nearly all of its lines, is third-party page libraries (jQuery plugins, editors, charts) and the
  demo's page glue. None of it takes part in scheduling; the scheduler is Java, and the modules
  map Java.
- Configuration (read once), TCP server and client (never started by the scheduler),
  `CronUtil` and `ByteUtil` (stateless formatting), the demo's pages, the database.
- Network partitions between a process and Redis: Redisson blocks or throws; a thrown exception
  ends the handler, as a crash does, but the process goes on. Only the exceptions that the
  code itself causes are modelled.

## Plan

Done: `RedisMembership`, `Dealing`/`TaskDealing`, `RedisDistribution`, `LocalSchedule`, `Multicast`
(which took the place of two modules planned for heartbeats and UDP probes), `HazelcastMembership`,
`HazelcastDistribution`, `Assignment` and the refinement, and the proofs of all of them: every safety
property of a run is a theorem. Left:

1. `RedisMembership` and `RedisDistribution` over one `EXECER` and `EXECER:LOCK`. `AnyGroupSpec` allows
   whatever the former writes, so that safety carries over. For liveness the product is beyond
   TLC, and a proof that both implement an abstract group would not carry it over.
2. Two masters in `HazelcastDistribution`, and what they leave in `USE`.
3. A convergence property for two jobs under deletions that TLC can check in minutes.

## Running

    tlc -workers 2 -config MembershipSafety.cfg MCRedisMembership.tla
    tlapm RedisMembershipProofs.tla

`PROJECT.json` pairs each configuration with its module. The longest run takes about two
minutes, the proofs a few minutes altogether.
