---------------------- MODULE RedisDistributionProofs ----------------------
(***************************************************************************)
(* Proofs about RedisDistribution, for any finite sets of hosts and tasks, *)
(* any number of processes that deal or poll at once, crashes and expired  *)
(* leases: every variable keeps its type; as long as no job is deleted,    *)
(* USE never gives a task to two hosts, and dealing implements Assignment; *)
(* with deletions only two rewrites of USE that overlap double a task.     *)
(***************************************************************************)
EXTENDS RedisDistribution, DealingProofs

-----------------------------------------------------------------------------
(* What a round makes of an assignment                                     *)

LEMMA NoExecerType == NoExecer \in Execer
BY DEF NoExecer, Execer

LEMMA ExecerType ==
    ASSUME TypeOK
    PROVE  [group |-> group, changed |-> changed] \in Execer
BY DEF TypeOK, Execer

\* A round keeps the assignment or starts from none, and adds each remaining
\* task once.
LEMMA RoundEntries ==
    ASSUME NEW e, e.group \in Groups, NEW old, NEW applied, NEW again \in Again(e, old),
           NEW order \in SetToSeqs((applied \cup again) \ TasksOf(Kept(e, old))),
           NEW start \in 0..(Cardinality(e.group) - 1)
    PROVE  /\ \A d \in Kept(e, old) \cup Dealt(order, e.group, start) :
                 d \in old \/ d \in Node \X (TasksOf(old) \cup applied)
           /\ SingleHost(old) =>
                 SingleHost(Kept(e, old) \cup Dealt(order, e.group, start))
<1> DEFINE kept == Kept(e, old)
           dealt == Dealt(order, e.group, start)
<1>1. again \subseteq TasksOf(old)
  BY GatheredTasks DEF Again
<1>2. start \in Nat
  BY GroupSize
<1>3. /\ dealt \subseteq e.group \X ((applied \cup again) \ TasksOf(kept))
      /\ \A d, f \in dealt : d[2] = f[2] => d = f
  BY <1>2, DealtEntries
<1>4. e.group \subseteq Node
  BY DEF Groups
<1>5. kept \subseteq old
  BY DEF Kept
<1> HIDE DEF kept, dealt
<1>6. \A d \in kept \cup dealt : d \in old \/ d \in Node \X (TasksOf(old) \cup applied)
  BY <1>1, <1>3, <1>4, <1>5
<1>7. ASSUME SingleHost(old)
      PROVE  SingleHost(kept \cup dealt)
  <2>1. SingleHost(kept)
    BY <1>5, <1>7 DEF SingleHost
  <2>2. \A d \in kept, f \in dealt : d[2] # f[2]
    BY <1>3 DEF TasksOf
  <2> QED
    BY <1>3, <2>1, <2>2 DEF SingleHost
<1> QED
  BY <1>6, <1>7 DEF kept, dealt

-----------------------------------------------------------------------------
(* Type correctness.  A round in progress has a group to deal to.          *)

HasGroup == \A n \in Node : hpc[n] \in {"readUse", "readApply"} => fresh[n].group \in Groups

TypeInv == TypeOK /\ HasGroup

LEMMA TypeInit == Init => TypeInv
<1> SUFFICES ASSUME Init
             PROVE  TypeInv
  OBVIOUS
<1>1. hpc \in [Node -> HandlerStages] /\ spc \in [Node -> SchedulerStages]
  BY DEF Init, HandlerStages, SchedulerStages
<1>2. copy \in [Node -> Execer] /\ fresh \in [Node -> Execer]
  BY NoExecerType DEF Init
<1>3. TypeOK
  BY <1>1, <1>2 DEF Init, TypeOK
<1>4. HasGroup
  BY DEF Init, HasGroup
<1> QED
  BY <1>3, <1>4 DEF TypeInv

LEMMA TypeEnvironment ==
    ASSUME TypeInv, Environment
    PROVE  TypeInv'
<1> USE DEF TypeInv, TypeOK, HasGroup, redis, handler, scheduler, history
<1>1. CASE LeaseExpires
  BY <1>1 DEF LeaseExpires
<1>2. CASE AddJob
  BY <1>2 DEF AddJob
<1>3. CASE DeleteJob
  BY <1>3 DEF DeleteJob
<1>4. ASSUME NEW n \in Node, Start(n)
      PROVE  TypeInv'
  BY <1>4 DEF Start, GotoS, SchedulerStages
<1>5. ASSUME NEW n \in Node, Crash(n)
      PROVE  TypeInv'
  BY <1>5, NoExecerType DEF Crash, GotoH, GotoS, HandlerStages, SchedulerStages
<1>6. ASSUME NEW n \in Node, Register(n)
      PROVE  TypeInv'
  BY <1>6 DEF Register, Regroup, Live
<1>7. ASSUME NEW n \in Node, Evict(n)
      PROVE  TypeInv'
  BY <1>7 DEF Evict, Regroup
<1> QED
  BY <1>1, <1>2, <1>3, <1>4, <1>5, <1>6, <1>7 DEF Environment

LEMMA TypeHandler ==
    ASSUME TypeInv, NEW n \in Node, Sync(n) \/ Handle(n)
    PROVE  TypeInv'
<1> USE DEF TypeInv, TypeOK, HasGroup, redis, handler, scheduler, history, GotoH,
           HandlerStages
<1>1. CASE Sync(n)
  <2>1. group' \subseteq Node /\ changed' \in BOOLEAN
    BY <1>1 DEF Sync
  <2>2. [group |-> group', changed |-> changed'] \in Execer
    BY <2>1 DEF Execer
  <2> QED
    BY <1>1, <2>1, <2>2 DEF Sync
<1>2. CASE Decide(n)
  BY <1>2, NoExecerType DEF Decide, Finish
<1>3. CASE ReadGroup(n)
  BY <1>3, ExecerType DEF ReadGroup, Groups
<1>4. CASE ReadUse(n)
  BY <1>4 DEF ReadUse, ReadsUse, history
<1>5. CASE ReadApply(n)
  <2>1. plan' \in [Node -> SUBSET (Node \X Task)]
    <3> DEFINE e == fresh[n]
               kept == Kept(e, plan[n])
    <3>1. PICK again \in Again(e, plan[n]) :
          \E order \in SetToSeqs((apply \cup again) \ TasksOf(kept)) :
          \E start \in 0..(Cardinality(e.group) - 1) :
             plan' = [plan EXCEPT ![n] = kept \cup Dealt(order, e.group, start)]
      BY <1>5 DEF ReadApply
    <3>2. PICK order \in SetToSeqs((apply \cup again) \ TasksOf(kept)),
               start \in 0..(Cardinality(e.group) - 1) :
             plan' = [plan EXCEPT ![n] = kept \cup Dealt(order, e.group, start)]
      BY <3>1
    <3>3. e.group \in Groups
      BY <1>5 DEF ReadApply
    <3>4. \A d \in kept \cup Dealt(order, e.group, start) :
             d \in plan[n] \/ d \in Node \X (TasksOf(plan[n]) \cup apply)
      BY ONLY <3>3, RoundEntries
    <3>5. plan[n] \subseteq Node \X Task /\ TasksOf(plan[n]) \cup apply \subseteq Task
      BY DEF TasksOf
    <3>6. plan \in [Node -> SUBSET (Node \X Task)]
      OBVIOUS
    <3> HIDE DEF e, kept
    <3> QED
      BY <3>2, <3>4, <3>5, <3>6
  <2>2. /\ fresh' = [fresh EXCEPT ![n] = NoExecer]
        /\ GotoH(n, "clearApply")
        /\ UNCHANGED <<db, deleted, redis, copy, scheduler, running, history>>
    BY <1>5 DEF ReadApply
  <2>3. TypeOK'
    BY <2>1, <2>2, NoExecerType
  <2>4. HasGroup'
    BY <2>2
  <2> QED
    BY <2>3, <2>4
<1>6. CASE ClearApply(n)
  BY <1>6 DEF ClearApply
<1>7. CASE ClearUse(n)
  BY <1>7 DEF ClearUse
<1>8. CASE FillUse(n)
  BY <1>8 DEF FillUse
<1>9. CASE PutDealt(n)
  BY <1>9, NoExecerType DEF PutDealt, Finish, Execer
<1> QED
  BY <1>1, <1>2, <1>3, <1>4, <1>5, <1>6, <1>7, <1>8, <1>9 DEF Handle

LEMMA TypeScheduler ==
    ASSUME TypeInv, NEW n \in Node, Schedule(n)
    PROVE  TypeInv'
<1> USE DEF TypeInv, TypeOK, HasGroup, redis, handler, scheduler, history, GotoS,
            SchedulerStages, ReadsUse
<1>1. CASE Poll(n)
  BY <1>1 DEF Poll, TasksOf
<1>2. CASE DelRead(n)
  BY <1>2 DEF DelRead
<1>3. CASE DelClear(n)
  BY <1>3 DEF DelClear
<1>4. CASE DelFill(n)
  BY <1>4 DEF DelFill
<1>5. CASE ReadAssigned(n)
  BY <1>5 DEF ReadAssigned
<1>6. CASE ReadApplied(n)
  <2> DEFINE missing == list[n] \ (TasksOf(seen[n]) \cup apply)
  <2>1. CASE missing = {}
    <3>1. /\ RunAssigned(n, seen[n])
          /\ UNCHANGED <<jobs, db, deleted, redis, handler, new, history>>
      BY <1>6, <2>1 DEF ReadApplied
    <3> QED
      BY <3>1 DEF RunAssigned
  <2>2. CASE missing # {}
    <3>1. missing \in SUBSET Task
      OBVIOUS
    <3>2. /\ jobs' = [jobs EXCEPT ![n] = missing]
          /\ GotoS(n, "applyLock")
          /\ UNCHANGED <<seen, list, running, db, deleted, redis, handler, new, history>>
      BY <1>6, <2>2 DEF ReadApplied
    <3> QED
      BY <3>1, <3>2
  <2> QED
    BY <2>1, <2>2
<1>7. CASE ApplyLock(n)
  BY <1>7 DEF ApplyLock
<1>8. CASE ApplyRead(n)
  BY <1>8 DEF ApplyRead
<1>9. CASE ApplyClear(n)
  BY <1>9 DEF ApplyClear
<1>10. CASE ApplyFill(n)
  BY <1>10 DEF ApplyFill, RunAssigned
<1> QED
  BY <1>1, <1>2, <1>3, <1>4, <1>5, <1>6, <1>7, <1>8, <1>9, <1>10 DEF Schedule

LEMMA TypeStep == TypeInv /\ [Next]_vars => TypeInv'
<1> SUFFICES ASSUME TypeInv, [Next]_vars
             PROVE  TypeInv'
  OBVIOUS
<1>1. CASE Environment
  BY <1>1, TypeEnvironment
<1>2. ASSUME NEW n \in Node, Sync(n) \/ Handle(n)
      PROVE  TypeInv'
  BY <1>2, TypeHandler
<1>3. ASSUME NEW n \in Node, Schedule(n)
      PROVE  TypeInv'
  BY <1>3, TypeScheduler
<1>4. CASE UNCHANGED vars
  BY <1>4 DEF vars, redis, handler, scheduler, history, TypeInv, TypeOK, HasGroup
<1> QED
  BY <1>1, <1>2, <1>3, <1>4 DEF Next

LEMMA TypeInvHolds == Spec => []TypeInv
BY TypeInit, TypeStep, PTL DEF Spec

\* Every variable keeps its type, with deletions or without.
THEOREM TypeCorrect == Spec => []TypeOK
<1>1. TypeInv => TypeOK
  BY DEF TypeInv
<1> QED
  BY <1>1, TypeInvHolds, PTL

-----------------------------------------------------------------------------
(* One host per task.  Without deletions delUseList never rewrites USE:    *)
(* every task in it, or on its way into it, is in the table for good.      *)

Known ==
    /\ TasksOf(use) \cup apply \subseteq db
    /\ \A n \in Node :
          /\ TasksOf(plan[n]) \cup list[n] \cup jobs[n] \cup new[n] \subseteq db
          /\ spc[n] \notin {"delRead", "delClear", "delFill"}

\* LOCK_USE is held from the clear to the addAll, in which USE stays empty; only a
\* live process handles heartbeats.
Rewriting ==
    \A n \in Node :
        /\ hpc[n] = "fillUse" => useLock = n /\ use = {}
        /\ spc[n] \in {"new", "down"} => hpc[n] = "idle"

\* What will be written gives no task two hosts either.
PlansOneHost == \A n \in Node : SingleHost(plan[n])

DealInv == Known /\ Rewriting /\ PlansOneHost /\ SingleHost(use)

DealSoFar == deleted = {} => DealInv

LEMMA NothingDealt == SingleHost({}) /\ TasksOf({}) = {}
BY DEF SingleHost, TasksOf

LEMMA DealInit == Init => DealInv
BY NothingDealt DEF Init, DealInv, Known, Rewriting, PlansOneHost

LEMMA DealEnvironment ==
    ASSUME deleted' = {}, TypeInv, DealInv, Environment
    PROVE  DealInv'
<1> USE DEF DealInv, Known, Rewriting, PlansOneHost, redis, handler,
            scheduler
<1>1. CASE LeaseExpires
  BY <1>1 DEF LeaseExpires, Crashed, TypeInv, TypeOK
<1>2. CASE AddJob
  BY <1>2 DEF AddJob
<1>3. ~DeleteJob
  BY DEF DeleteJob
<1>4. ASSUME NEW n \in Node, Start(n)
      PROVE  DealInv'
  BY <1>4 DEF Start, GotoS, TypeInv, TypeOK
<1>5. ASSUME NEW n \in Node, Crash(n)
      PROVE  DealInv'
  BY <1>5, NothingDealt DEF Crash, GotoH, GotoS, TypeInv, TypeOK
<1>6. ASSUME NEW n \in Node, Register(n)
      PROVE  DealInv'
  BY <1>6 DEF Register, Regroup
<1>7. ASSUME NEW n \in Node, Evict(n)
      PROVE  DealInv'
  BY <1>7 DEF Evict, Regroup
<1> QED
  BY <1>1, <1>2, <1>3, <1>4, <1>5, <1>6, <1>7 DEF Environment

LEMMA DealHandler ==
    ASSUME TypeInv, DealInv, NEW n \in Node, Sync(n) \/ Handle(n)
    PROVE  DealInv'
<1> USE DEF DealInv, Known, Rewriting, PlansOneHost, redis, handler,
            scheduler, GotoH, TypeInv, TypeOK
<1>1. CASE Sync(n)
  BY <1>1 DEF Sync, Live
<1>2. CASE Decide(n)
  <2>1. \/ plan' = plan
        \/ plan' = [plan EXCEPT ![n] = {}]
    BY <1>2 DEF Decide, Finish
  <2>2. \/ hpc' = [hpc EXCEPT ![n] = "readGroup"]
        \/ hpc' = [hpc EXCEPT ![n] = "idle"]
    BY <1>2 DEF Decide, Finish
  <2>3. hpc[n] = "sleep" /\ UNCHANGED <<db, redis, scheduler>>
    BY <1>2 DEF Decide
  <2>4. PlansOneHost' /\ \A m \in Node : TasksOf(plan'[m]) \subseteq db
    BY <2>1, NothingDealt
  <2>5. Rewriting'
    BY <2>2, <2>3
  <2> QED
    BY <2>3, <2>4, <2>5
<1>3. CASE ReadGroup(n)
  BY <1>3 DEF ReadGroup
<1>4. CASE ReadUse(n)
  BY <1>4 DEF ReadUse
<1>5. CASE ReadApply(n)
  <2> DEFINE e == fresh[n]
             kept == Kept(e, plan[n])
  <2>1. PICK again \in Again(e, plan[n]) :
        \E order \in SetToSeqs((apply \cup again) \ TasksOf(kept)) :
        \E start \in 0..(Cardinality(e.group) - 1) :
           plan' = [plan EXCEPT ![n] = kept \cup Dealt(order, e.group, start)]
    BY <1>5 DEF ReadApply
  <2>2. PICK order \in SetToSeqs((apply \cup again) \ TasksOf(kept)),
             start \in 0..(Cardinality(e.group) - 1) :
           plan' = [plan EXCEPT ![n] = kept \cup Dealt(order, e.group, start)]
    BY <2>1
  <2>3. e.group \in Groups
    BY <1>5 DEF ReadApply, HasGroup
  <2>4. /\ \A d \in kept \cup Dealt(order, e.group, start) :
             d \in plan[n] \/ d \in Node \X (TasksOf(plan[n]) \cup apply)
        /\ SingleHost(plan[n]) => SingleHost(kept \cup Dealt(order, e.group, start))
    BY ONLY <2>3, RoundEntries
  <2> DEFINE round == kept \cup Dealt(order, e.group, start)
  <2>5. SingleHost(round) /\ TasksOf(round) \subseteq db
    BY <2>4 DEF TasksOf
  <2>6. plan' = [plan EXCEPT ![n] = round]
    BY <2>2
  <2>7. hpc' = [hpc EXCEPT ![n] = "clearApply"] /\ hpc[n] = "readApply"
    BY <1>5 DEF ReadApply
  <2>8. UNCHANGED <<db, deleted, redis, copy, scheduler, running, history>>
    BY <1>5 DEF ReadApply
  <2> HIDE DEF round, kept, e
  <2> QED
    BY <2>5, <2>6, <2>7, <2>8
<1>6. CASE ClearApply(n)
  BY <1>6 DEF ClearApply
<1>7. CASE ClearUse(n)
  BY <1>7, NothingDealt, NoneAssumption DEF ClearUse
<1>8. CASE FillUse(n)
  <2>1. useLock = n /\ use = {}
    BY <1>8 DEF FillUse
  <2>2. use' = plan[n]
    BY <1>8, <2>1 DEF FillUse
  <2>3. /\ plan' = [plan EXCEPT ![n] = {}]
        /\ hpc[n] = "fillUse" /\ hpc' = [hpc EXCEPT ![n] = "putDealt"]
        /\ UNCHANGED <<db, apply, scheduler>>
    BY <1>8 DEF FillUse
  <2>4. \A m \in Node : hpc'[m] # "fillUse"
    BY <2>1, <2>3
  <2>5. SingleHost(use') /\ TasksOf(use') \subseteq db
    BY <2>2
  <2>6. ASSUME NEW m \in Node
        PROVE  plan'[m] \in {plan[m], {}}
    BY <2>3
  <2>7. ASSUME NEW m \in Node
        PROVE  SingleHost(plan'[m]) /\ TasksOf(plan'[m]) \subseteq db
    BY <2>6, NothingDealt
  <2>8. Rewriting'
    BY <2>3, <2>4
  <2>9. Known'
    BY <2>3, <2>5, <2>7
  <2> QED
    BY <2>5, <2>7, <2>8, <2>9
<1>9. CASE PutDealt(n)
  BY <1>9, NothingDealt DEF PutDealt, Finish
<1> QED
  BY <1>1, <1>2, <1>3, <1>4, <1>5, <1>6, <1>7, <1>8, <1>9 DEF Handle

LEMMA DealScheduler ==
    ASSUME TypeInv, DealInv, NEW n \in Node, Schedule(n)
    PROVE  DealInv'
<1> USE DEF DealInv, Known, Rewriting, PlansOneHost, redis, handler,
            scheduler, GotoS, TypeInv, TypeOK
<1>1. CASE Poll(n)
  BY <1>1 DEF Poll
<1>2. ~(DelRead(n) \/ DelClear(n) \/ DelFill(n))
  BY DEF DelRead, DelClear, DelFill
<1>5. CASE ReadAssigned(n)
  BY <1>5 DEF ReadAssigned
<1>6. CASE ReadApplied(n)
  <2> DEFINE missing == list[n] \ (TasksOf(seen[n]) \cup apply)
  <2>1. jobs' = jobs \/ jobs' = [jobs EXCEPT ![n] = missing]
    BY <1>6 DEF ReadApplied
  <2>2. \A m \in Node \ {n} : jobs'[m] = jobs[m] /\ list'[m] = list[m] /\ spc'[m] = spc[m]
    BY <1>6 DEF ReadApplied, RunAssigned
  <2>3. jobs'[n] \subseteq db
    BY <2>1
  <2>4. list'[n] \subseteq db /\ spc'[n] \in {"idle", "applyLock"}
    BY <1>6 DEF ReadApplied, RunAssigned
  <2>5. UNCHANGED <<db, redis, handler, new>>
    BY <1>6 DEF ReadApplied
  <2> QED
    BY <2>2, <2>3, <2>4, <2>5
<1>7. CASE ApplyLock(n)
  BY <1>7 DEF ApplyLock
<1>8. CASE ApplyRead(n)
  BY <1>8 DEF ApplyRead
<1>9. CASE ApplyClear(n)
  BY <1>9 DEF ApplyClear
<1>10. CASE ApplyFill(n)
  BY <1>10 DEF ApplyFill, RunAssigned
<1> QED
  BY <1>1, <1>2, <1>5, <1>6, <1>7, <1>8, <1>9, <1>10 DEF Schedule

LEMMA DealStep == deleted' = {} /\ TypeInv /\ DealInv /\ [Next]_vars => DealInv'
<1> SUFFICES ASSUME deleted' = {}, TypeInv, DealInv, [Next]_vars
             PROVE  DealInv'
  OBVIOUS
<1>1. CASE Environment
  BY <1>1, DealEnvironment
<1>2. ASSUME NEW n \in Node, Sync(n) \/ Handle(n)
      PROVE  DealInv'
  BY <1>2, DealHandler
<1>3. ASSUME NEW n \in Node, Schedule(n)
      PROVE  DealInv'
  BY <1>3, DealScheduler
<1>4. CASE UNCHANGED vars
  BY <1>4 DEF vars, redis, handler, scheduler, DealInv, Known, Rewriting, PlansOneHost
<1> QED
  BY <1>1, <1>2, <1>3, <1>4 DEF Next

\* A job that has been deleted stays so.
LEMMA DeletedStays == [Next \/ StaleWrite]_vars /\ deleted' = {} => deleted = {}
<1> SUFFICES ASSUME [Next \/ StaleWrite]_vars
             PROVE  deleted' = {} => deleted = {}
  OBVIOUS
<1>1. CASE Environment
  BY <1>1 DEF Environment, LeaseExpires, AddJob, DeleteJob, Start, Crash, Register, Evict,
              Regroup
<1>2. ASSUME NEW n \in Node, Sync(n) \/ Handle(n)
      PROVE  deleted' = deleted
  BY <1>2 DEF Sync, Handle, Decide, ReadGroup, ReadUse, ReadApply, ClearApply, ClearUse,
              FillUse, PutDealt
<1>3. ASSUME NEW n \in Node, Schedule(n)
      PROVE  deleted' = deleted
  BY <1>3 DEF Schedule, Poll, DelRead, DelClear, DelFill, ReadAssigned, ReadApplied,
              ApplyLock, ApplyRead, ApplyClear, ApplyFill
<1>4. CASE StaleWrite \/ UNCHANGED vars
  BY <1>4 DEF StaleWrite, vars
<1> QED
  BY <1>1, <1>2, <1>3, <1>4 DEF Next

LEMMA DealSoFarStep == TypeInv /\ DealSoFar /\ [Next]_vars => DealSoFar'
BY DealStep, DeletedStays DEF DealSoFar

\* As long as no job has been deleted, USE never gives a task to two hosts, whatever
\* processes deal, poll, apply or crash at once and whichever reads are stale.
THEOREM NoTaskOnTwoHosts == Spec => []OneHostPerTask
<1>1. DealSoFar => OneHostPerTask
  BY DEF DealSoFar, DealInv, OneHostPerTask
<1>2. Init => DealSoFar
  BY DealInit DEF DealSoFar
<1> QED
  BY <1>1, <1>2, DealSoFarStep, TypeInvHolds, PTL DEF Spec

-----------------------------------------------------------------------------
(* With deletions: what a second host takes.                               *)

LEMMA SecondHostHandler ==
    ASSUME TypeInv, OneHostInHand, NEW n \in Node, Sync(n) \/ Handle(n),
           ~(InWindow /\ use # {})
    PROVE  OneHostInHand'
<1> USE DEF OneHostInHand, redis, handler, scheduler, GotoH, TypeInv, TypeOK
<1>1. CASE Sync(n)
  BY <1>1 DEF Sync
<1>2. CASE Decide(n)
  <2>1. plan' = plan \/ plan' = [plan EXCEPT ![n] = {}]
    BY <1>2 DEF Decide, Finish
  <2>2. use' = use /\ seen' = seen
    BY <1>2 DEF Decide
  <2> QED
    BY <2>1, <2>2, NothingDealt
<1>3. CASE ReadGroup(n)
  BY <1>3 DEF ReadGroup
<1>4. CASE ReadUse(n)
  BY <1>4 DEF ReadUse
<1>5. CASE ReadApply(n)
  <2> DEFINE e == fresh[n]
             kept == Kept(e, plan[n])
  <2>1. PICK again \in Again(e, plan[n]) :
        \E order \in SetToSeqs((apply \cup again) \ TasksOf(kept)) :
        \E start \in 0..(Cardinality(e.group) - 1) :
           plan' = [plan EXCEPT ![n] = kept \cup Dealt(order, e.group, start)]
    BY <1>5 DEF ReadApply
  <2>2. PICK order \in SetToSeqs((apply \cup again) \ TasksOf(kept)),
             start \in 0..(Cardinality(e.group) - 1) :
           plan' = [plan EXCEPT ![n] = kept \cup Dealt(order, e.group, start)]
    BY <2>1
  <2>3. e.group \in Groups
    BY <1>5 DEF ReadApply, HasGroup
  <2>4. SingleHost(plan[n]) => SingleHost(kept \cup Dealt(order, e.group, start))
    BY ONLY <2>3, RoundEntries
  <2> DEFINE round == kept \cup Dealt(order, e.group, start)
  <2>5. SingleHost(round) /\ plan' = [plan EXCEPT ![n] = round]
    BY <2>2, <2>4
  <2>6. use' = use /\ seen' = seen
    BY <1>5 DEF ReadApply
  <2> HIDE DEF round, kept, e
  <2> QED
    BY <2>5, <2>6
<1>6. CASE ClearApply(n)
  BY <1>6 DEF ClearApply
<1>7. CASE ClearUse(n)
  BY <1>7, NothingDealt DEF ClearUse
<1>8. CASE FillUse(n)
  <2>1. use = {}
    BY <1>8 DEF FillUse, InWindow
  <2>2. use' = plan[n] /\ seen' = seen /\ plan' = [plan EXCEPT ![n] = {}]
    BY <1>8, <2>1 DEF FillUse
  <2> QED
    BY <2>2, NothingDealt
<1>9. CASE PutDealt(n)
  BY <1>9, NothingDealt DEF PutDealt, Finish
<1> QED
  BY <1>1, <1>2, <1>3, <1>4, <1>5, <1>6, <1>7, <1>8, <1>9 DEF Handle

LEMMA SecondHostScheduler ==
    ASSUME TypeInv, OneHostInHand, NEW n \in Node, Schedule(n), ~(InWindow /\ use # {})
    PROVE  OneHostInHand'
<1> USE DEF OneHostInHand, redis, handler, scheduler, GotoS, TypeInv, TypeOK
<1>1. plan' = plan
  BY DEF Schedule, Poll, DelRead, DelClear, DelFill, ReadAssigned, ReadApplied, ApplyLock,
         ApplyRead, ApplyClear, ApplyFill
<1>2. ASSUME NEW s \in SUBSET use, seen' = [seen EXCEPT ![n] = s], use' = use
      PROVE  OneHostInHand'
  <2>1. SingleHost(s)
    BY <1>2 DEF SingleHost
  <2> QED
    BY <1>1, <1>2, <2>1
<1>3. CASE Poll(n)
  <2>1. /\ seen' = [seen EXCEPT ![n] = IF TasksOf(use) \subseteq db THEN {} ELSE use]
        /\ use' = use
    BY <1>3 DEF Poll
  <2> QED
    BY <1>2, <2>1
<1>4. CASE DelRead(n)
  <2> DEFINE kept == {e \in use : e[2] \notin TasksOf(seen[n]) \ list[n]}
  <2>1. use' = use
    BY <1>4 DEF DelRead
  <2>2. seen' = [seen EXCEPT ![n] = {}] \/ seen' = [seen EXCEPT ![n] = kept]
    BY <1>4 DEF DelRead
  <2>3. kept \subseteq use
    OBVIOUS
  <2> HIDE DEF kept
  <2> QED
    BY <1>2, <2>1, <2>2, <2>3
<1>5. CASE DelClear(n)
  BY <1>5, <1>1, NothingDealt DEF DelClear
<1>6. CASE DelFill(n)
  <2>1. use = {}
    BY <1>6 DEF DelFill, InWindow
  <2>2. use' = seen[n] /\ seen' = [seen EXCEPT ![n] = {}]
    BY <1>6, <2>1 DEF DelFill
  <2> QED
    BY <2>2, <1>1, NothingDealt
<1>7. CASE ReadAssigned(n)
  BY <1>7, <1>1 DEF ReadAssigned
<1>8. CASE ReadApplied(n) \/ ApplyFill(n)
  <2>1. seen' = seen \/ seen' = [seen EXCEPT ![n] = {}]
    BY <1>8 DEF ReadApplied, ApplyFill, RunAssigned
  <2>2. use' = use
    BY <1>8 DEF ReadApplied, ApplyFill
  <2> QED
    BY <1>1, <2>1, <2>2, NothingDealt
<1>9. CASE ApplyLock(n) \/ ApplyRead(n) \/ ApplyClear(n)
  BY <1>9, <1>1 DEF ApplyLock, ApplyRead, ApplyClear
<1> QED
  BY <1>3, <1>4, <1>5, <1>6, <1>7, <1>8, <1>9 DEF Schedule

LEMMA SecondHostEnvironment ==
    ASSUME TypeInv, OneHostInHand, Environment
    PROVE  OneHostInHand'
<1> USE DEF OneHostInHand, redis, handler, scheduler
<1>1. CASE LeaseExpires \/ AddJob \/ DeleteJob
  BY <1>1 DEF LeaseExpires, AddJob, DeleteJob
<1>2. ASSUME NEW n \in Node, Start(n) \/ Register(n) \/ Evict(n)
      PROVE  OneHostInHand'
  BY <1>2 DEF Start, Register, Evict, Regroup
<1>3. ASSUME NEW n \in Node, Crash(n)
      PROVE  OneHostInHand'
  BY <1>3, NothingDealt DEF Crash, TypeInv, TypeOK
<1> QED
  BY <1>1, <1>2, <1>3 DEF Environment

\* Also with deletions, only two rewrites of USE that overlap give a task a second
\* host: what either of them has read and will write has one host for each.
THEOREM OnlyOverlapsDouble == Spec => SecondHostByOverlap
<1> DEFINE Overlap == InWindow /\ use # {}
<1>1. ASSUME TypeInv, Next, OneHostInHand, ~Overlap
      PROVE  OneHostInHand'
  BY <1>1, SecondHostEnvironment, SecondHostHandler, SecondHostScheduler DEF Next
<1>2. TypeInv /\ [Next]_vars => [OneHostInHand => OneHostInHand' \/ Overlap]_vars
  BY <1>1
<1> QED
  BY <1>2, TypeInvHolds, PTL DEF Spec, SecondHostByOverlap

-----------------------------------------------------------------------------
(* Refinement: the steps of RedisDistribution are steps of Assignment, or  *)
(* stutter.                                                                *)

\* No process starts or stops, no job is added and what is in force stays in force.
Aside == db' = db /\ Live' = Live /\ Assigned' = Assigned

LEMMA AsideStutters == Aside => [A!Next]_A!vars
BY DEF Aside, A!vars

\* What is in force only depends on USE and on the plans about to be added.
LEMMA SameAssigned ==
    ASSUME use' = use,
           \A m \in Node : hpc'[m] = "fillUse" <=> hpc[m] = "fillUse",
           \A m \in Node : hpc[m] = "fillUse" => plan'[m] = plan[m]
    PROVE  Assigned' = Assigned
<1>1. \A e : e \in Assigned' <=>
          e \in use' \/ \E m \in Node : hpc'[m] = "fillUse" /\ e \in plan'[m]
  BY DEF Assigned
<1>2. \A e : e \in Assigned <=>
          e \in use \/ \E m \in Node : hpc[m] = "fillUse" /\ e \in plan[m]
  BY DEF Assigned
<1>3. \A e : e \in Assigned' <=> e \in Assigned
  BY <1>1, <1>2
<1> QED
  BY <1>3

\* Between the clear and the addAll it is the plan of the one process in there, at
\* other times it is USE.
LEMMA AssignedInForce ==
    ASSUME Rewriting
    PROVE  /\ (\A m \in Node : hpc[m] # "fillUse") => Assigned = use
           /\ \A n \in Node : hpc[n] = "fillUse" => Assigned = plan[n]
<1>1. \A e : e \in Assigned <=>
          e \in use \/ \E m \in Node : hpc[m] = "fillUse" /\ e \in plan[m]
  BY DEF Assigned
<1>2. ASSUME \A m \in Node : hpc[m] # "fillUse"
      PROVE  Assigned = use
  BY <1>1, <1>2
<1>3. ASSUME NEW n \in Node, hpc[n] = "fillUse"
      PROVE  Assigned = plan[n]
  <2>1. use = {} /\ \A m \in Node : hpc[m] = "fillUse" => m = n
    BY <1>3 DEF Rewriting
  <2>2. \A e : e \in Assigned <=> e \in plan[n]
    BY <1>1, <1>3, <2>1
  <2> QED
    BY <2>2
<1> QED
  BY <1>2, <1>3

LEMMA ImplementsInit == Init => A!Init
<1> SUFFICES ASSUME Init
             PROVE  A!Init
  OBVIOUS
<1>1. Live = {}
  BY DEF Init, Live
<1>2. \A n \in Node : hpc[n] # "fillUse"
  BY DEF Init
<1>3. Assigned = {}
  BY <1>2 DEF Init, Assigned
<1> QED
  BY <1>1, <1>3 DEF Init, A!Init

LEMMA EnvironmentImplements ==
    ASSUME deleted' = {}, TypeInv, DealInv, Environment
    PROVE  [A!Next]_A!vars
<1> USE DEF redis, handler, scheduler
<1>1. CASE LeaseExpires
  <2>1. Assigned' = Assigned
    BY <1>1, SameAssigned DEF LeaseExpires
  <2> QED
    BY <1>1, <2>1, AsideStutters DEF LeaseExpires, Aside, Live
<1>2. CASE AddJob
  <2>1. Assigned' = Assigned /\ Live' = Live
    BY <1>2, SameAssigned DEF AddJob, Live
  <2>2. A!Add
    BY <1>2, <2>1 DEF AddJob, A!Add, TypeInv, TypeOK
  <2> QED
    BY <2>2 DEF A!Next
<1>3. ~DeleteJob
  BY DEF DeleteJob
<1>4. ASSUME NEW n \in Node, Start(n)
      PROVE  [A!Next]_A!vars
  <2>1. Assigned' = Assigned /\ db' = db
    BY <1>4, SameAssigned DEF Start
  <2>2. n \notin Live /\ Live' = Live \cup {n}
    BY <1>4 DEF Start, GotoS, Live, TypeInv, TypeOK
  <2> QED
    BY <2>1, <2>2 DEF A!Start, A!Next
<1>5. ASSUME NEW n \in Node, Crash(n)
      PROVE  [A!Next]_A!vars
  <2>1. n \in Live /\ Live' = Live \ {n} /\ db' = db
    BY <1>5 DEF Crash, GotoS, Live, TypeInv, TypeOK
  <2>2. CASE hpc[n] = "fillUse"
    <3>1. use = {} /\ \A m \in Node : hpc[m] = "fillUse" => m = n
      BY <2>2 DEF DealInv, Rewriting
    <3>2. use' = {} /\ \A m \in Node : hpc'[m] # "fillUse"
      BY <1>5, <3>1 DEF Crash, GotoH, TypeInv, TypeOK
    <3>3. Assigned' = {}
      BY <3>2 DEF Assigned
    <3> QED
      BY <2>1, <3>3 DEF A!Fail, A!Next
  <2>3. CASE hpc[n] # "fillUse"
    <3>1. /\ use' = use
          /\ \A m \in Node : hpc'[m] = "fillUse" <=> hpc[m] = "fillUse"
          /\ \A m \in Node : hpc[m] = "fillUse" => plan'[m] = plan[m]
      BY <1>5, <2>3 DEF Crash, GotoH, TypeInv, TypeOK
    <3>2. Assigned' = Assigned
      BY <3>1, SameAssigned
    <3> QED
      BY <2>1, <3>2 DEF A!Fail, A!Next
  <2> QED
    BY <2>2, <2>3
<1>6. ASSUME NEW n \in Node, Register(n) \/ Evict(n)
      PROVE  [A!Next]_A!vars
  <2>1. /\ use' = use /\ hpc' = hpc /\ plan' = plan
        /\ db' = db /\ spc' = spc
    BY <1>6 DEF Register, Evict, Regroup
  <2>2. Assigned' = Assigned
    BY <2>1, SameAssigned
  <2> QED
    BY <2>1, <2>2, AsideStutters DEF Aside, Live
<1> QED
  BY <1>1, <1>2, <1>3, <1>4, <1>5, <1>6 DEF Environment

\* Of the handler's steps the clear of USE puts the plan in force; the addAll and
\* all others change nothing.
LEMMA HandlerImplements ==
    ASSUME TypeInv, DealInv, NEW n \in Node, Sync(n) \/ Handle(n)
    PROVE  [A!Next]_A!vars
<1>1. /\ db' = db /\ spc' = spc
  BY DEF Sync, Handle, Decide, ReadGroup, ReadUse, ReadApply, ClearApply, ClearUse, FillUse,
         PutDealt, redis, scheduler
<1>2. Live' = Live
  BY <1>1 DEF Live
<1>3. CASE ClearUse(n)
  <2>1. useLock = None /\ hpc[n] = "clearUse"
    BY <1>3 DEF ClearUse
  <2>2. hpc'[n] = "fillUse" /\ plan' = plan
    BY <1>3 DEF ClearUse, GotoH, TypeInv, TypeOK
  <2>3. Rewriting'
    BY DealHandler DEF DealInv
  <2>4. Assigned' = plan[n]
    <3>1. use' = {} /\ \A m \in Node : hpc'[m] = "fillUse" <=> m = n
      BY <2>1, <2>2, <1>3, NoneAssumption
         DEF ClearUse, GotoH, DealInv, Rewriting, TypeInv, TypeOK
    <3>2. \A e : e \in Assigned' <=>
              e \in use' \/ \E m \in Node : hpc'[m] = "fillUse" /\ e \in plan'[m]
      BY DEF Assigned
    <3>3. \A e : e \in Assigned' <=> e \in plan[n]
      BY <2>2, <3>1, <3>2
    <3> QED
      BY <3>3
  <2>5. plan[n] \in A!Assignments
    <3>1. plan[n] \subseteq Node \X Task /\ TasksOf(plan[n]) \subseteq db
      BY DEF TypeInv, TypeOK, DealInv, Known
    <3>2. plan[n] \subseteq Node \X db
      BY <3>1 DEF TasksOf
    <3>3. SingleHost(plan[n])
      BY DEF DealInv, PlansOneHost
    <3> QED
      BY <3>2, <3>3 DEF A!Assignments, SingleHost
  <2>6. n \in Live
    BY <2>1 DEF DealInv, Rewriting, Live
  <2> QED
    BY <1>1, <1>2, <2>4, <2>5, <2>6 DEF A!Deal, A!Next
<1>4. CASE FillUse(n)
  <2>1. Assigned = plan[n]
    BY <1>4, AssignedInForce DEF FillUse, DealInv
  <2>2. use' = plan[n] /\ \A m \in Node : hpc'[m] # "fillUse"
    BY <1>4 DEF FillUse, GotoH, DealInv, Rewriting, TypeInv, TypeOK
  <2>3. Assigned' = use'
    BY <2>2 DEF Assigned
  <2> QED
    BY <1>1, <1>2, <2>1, <2>2, <2>3, AsideStutters DEF Aside
<1>5. CASE ~ClearUse(n) /\ ~FillUse(n)
  <2>1. use' = use
    BY <1>5 DEF Sync, Handle, Decide, ReadGroup, ReadUse, ReadApply, ClearApply, PutDealt,
                redis
  <2>2. \A m \in Node : hpc'[m] = "fillUse" <=> hpc[m] = "fillUse"
    BY <1>5 DEF Sync, Handle, Decide, Finish, ReadGroup, ReadUse, ReadApply, ClearApply,
                PutDealt, GotoH, TypeInv, TypeOK
  <2>3. \A m \in Node : hpc[m] = "fillUse" => plan'[m] = plan[m]
    BY <1>5 DEF Sync, Handle, Decide, Finish, ReadGroup, ReadUse, ReadApply, ClearApply,
                PutDealt, TypeInv, TypeOK
  <2>4. Assigned' = Assigned
    BY <2>1, <2>2, <2>3, SameAssigned
  <2> QED
    BY <1>1, <1>2, <2>4, AsideStutters DEF Aside
<1> QED
  BY <1>3, <1>4, <1>5

LEMMA SchedulerImplements ==
    ASSUME TypeInv, DealInv, NEW n \in Node, Schedule(n)
    PROVE  [A!Next]_A!vars
<1>1. ~(DelRead(n) \/ DelClear(n) \/ DelFill(n))
  BY DEF DelRead, DelClear, DelFill, DealInv, Known
<1>2. use' = use /\ hpc' = hpc /\ plan' = plan /\ db' = db
  BY <1>1 DEF Schedule, Poll, ReadAssigned, ReadApplied, ApplyLock, ApplyRead, ApplyClear,
              ApplyFill, redis, handler
<1>3. Assigned' = Assigned
  BY <1>2, SameAssigned
<1>4. \E stage \in SchedulerStages \ {"new", "down"} : GotoS(n, stage)
  BY <1>1 DEF Schedule, Poll, ReadAssigned, ReadApplied, RunAssigned, ApplyLock, ApplyRead,
              ApplyClear, ApplyFill, SchedulerStages
<1>5. spc[n] \notin {"new", "down"}
  BY <1>1 DEF Schedule, Poll, ReadAssigned, ReadApplied, ApplyLock, ApplyRead, ApplyClear,
              ApplyFill
<1>6. Live' = Live
  BY <1>4, <1>5 DEF GotoS, Live, TypeInv, TypeOK
<1> QED
  BY <1>2, <1>3, <1>6, AsideStutters DEF Aside

LEMMA ImplementsStep ==
    ASSUME deleted' = {}, TypeInv, DealInv, [Next]_vars
    PROVE  [A!Next]_A!vars
<1>1. CASE Environment
  BY <1>1, EnvironmentImplements
<1>2. ASSUME NEW n \in Node, Sync(n) \/ Handle(n)
      PROVE  [A!Next]_A!vars
  BY <1>2, HandlerImplements
<1>3. ASSUME NEW n \in Node, Schedule(n)
      PROVE  [A!Next]_A!vars
  BY <1>3, SchedulerImplements
<1>4. CASE UNCHANGED vars
  <2>1. Assigned' = Assigned
    BY <1>4, SameAssigned DEF vars, redis, handler
  <2> QED
    BY <1>4, <2>1, AsideStutters DEF vars, scheduler, Aside, Live
<1> QED
  BY <1>1, <1>2, <1>3, <1>4 DEF Next

\* As long as no job has been deleted, the two threads of all processes together
\* implement one assignment that is replaced as a whole.
THEOREM RefinesAssignment == Spec => ImplementsAssignment
<1>1. Init => DealSoFar /\ A!Init
  BY DealInit, ImplementsInit DEF DealSoFar
<1>2. TypeInv /\ DealSoFar /\ [Next]_vars => [deleted' = {} => A!Next]_A!vars
  BY DeletedStays, ImplementsStep DEF DealSoFar
<1> QED
  BY <1>1, <1>2, DealSoFarStep, TypeInvHolds, PTL DEF Spec, ImplementsAssignment

-----------------------------------------------------------------------------
(* Neither depends on the group: what RedisMembership may write into       *)
(* EXECER changes nothing of what has been shown of USE.                   *)

LEMMA StaleWriteKeeps ==
    ASSUME TypeInv, StaleWrite
    PROVE  TypeInv' /\ (DealInv => DealInv') /\ Aside
<1> USE DEF StaleWrite, redis, handler, scheduler, history
<1>1. TypeInv'
  BY DEF TypeInv, TypeOK, HasGroup, Live, Crashed
<1>2. DealInv => DealInv'
  BY DEF DealInv, Known, Rewriting, PlansOneHost
<1>3. Assigned' = Assigned
  BY SameAssigned
<1> QED
  BY <1>1, <1>2, <1>3 DEF Aside, Live

\* Whatever old copies of the group the handlers write back at any step, marked or not:
\* as long as no job has been deleted, USE never gives a task to two hosts and is
\* replaced as a whole.
THEOREM AnyGroupWillDo == AnyGroupSpec => []OneHostPerTask /\ ImplementsAssignment
<1> DEFINE Inv == TypeInv /\ DealSoFar
<1>1. Init => Inv /\ A!Init
  BY TypeInit, DealInit, ImplementsInit DEF DealSoFar
<1>2. Inv /\ [Next \/ StaleWrite]_vars => Inv'
  <2>1. TypeInv /\ DealSoFar /\ StaleWrite => TypeInv' /\ DealSoFar'
    BY DeletedStays, StaleWriteKeeps DEF DealSoFar
  <2> QED
    BY <2>1, TypeStep, DealSoFarStep
<1>3. Inv /\ [Next \/ StaleWrite]_vars => [deleted' = {} => A!Next]_A!vars
  <2>1. TypeInv /\ DealSoFar /\ StaleWrite => [deleted' = {} => A!Next]_A!vars
    BY DeletedStays, StaleWriteKeeps, AsideStutters DEF DealSoFar
  <2> QED
    BY <2>1, DeletedStays, ImplementsStep DEF DealSoFar
<1>4. Inv => OneHostPerTask
  BY DEF DealSoFar, DealInv, OneHostPerTask
<1> QED
  BY <1>1, <1>2, <1>3, <1>4, PTL DEF AnyGroupSpec, ImplementsAssignment

=============================================================================
