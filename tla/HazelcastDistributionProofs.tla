-------------------- MODULE HazelcastDistributionProofs --------------------
(***************************************************************************)
(* Proofs about HazelcastDistribution, for any finite sets of hosts and    *)
(* tasks, any number of schedulers at once, and crashes.                   *)
(***************************************************************************)
EXTENDS HazelcastDistribution, DealingProofs

-----------------------------------------------------------------------------
(* Types.  Whoever deals has a group to deal to, and USE is only filled    *)
(* with something.                                                         *)

DealerHasGroup == hpc # "idle" => master \in Node /\ group \in Groups
FillsSomething == hpc = "fillUse" => plan # {}

TypeInv == TypeOK /\ DealerHasGroup /\ FillsSomething

\* What a round makes of USE: entries kept, and new ones of the tasks in use or
\* applied for.
LEMMA PlanEntries ==
    ASSUME ReadUse, group \in Groups
    PROVE  \A d \in plan' : d \in use \/ d \in Node \X (appl[master] \cup TasksOf(use))
<1>1. PICK order \in SetToSeqs(ToDeal(master)), start \in 0..(Cardinality(group) - 1) :
         plan' = Kept(master) \cup Dealt(order, group, start)
  BY DEF ReadUse
<1>2. Kept(master) \subseteq use /\ ToDeal(master) \subseteq appl[master] \cup TasksOf(use)
  BY DEF Kept, ToDeal
<1>3. start \in Nat
  BY GroupSize
<1>4. Dealt(order, group, start) \subseteq group \X ToDeal(master)
  BY <1>3, DealtEntries
<1>5. group \subseteq Node
  BY DEF Groups
<1> QED
  BY <1>1, <1>2, <1>4, <1>5

\* What is put back is of the hosts and tasks of the snapshot.
LEMMA PutBackType ==
    ASSUME TypeOK, NEW n \in Node, NEW keep, PutBack(n, keep)
    PROVE  /\ hosts' \subseteq Node /\ use' \subseteq hosts' \X Task
           /\ todo' \in [Node -> SUBSET Node]
<1>1. PICK h \in todo[n] :
         /\ hosts' = hosts \cup {h}
         /\ use' = Without(h, use) \cup {e \in seen[n] : e[1] = h /\ e[2] \in keep}
         /\ todo' = [todo EXCEPT ![n] = @ \ {h}]
  BY DEF PutBack
<1>2. h \in Node /\ seen[n] \subseteq Node \X Task
  BY DEF TypeOK
<1>3. hosts' \subseteq Node /\ todo' \in [Node -> SUBSET Node]
  BY <1>1, <1>2 DEF TypeOK
<1>4. Without(h, use) \subseteq hosts' \X Task
  BY <1>1 DEF Without, TypeOK
<1>5. {e \in seen[n] : e[1] = h /\ e[2] \in keep} \subseteq hosts' \X Task
  BY <1>1, <1>2
<1> QED
  BY <1>1, <1>3, <1>4, <1>5

LEMMA TypeInit == Init => TypeInv
BY DEF Init, TypeInv, TypeOK, DealerHasGroup, FillsSomething, DealerStages, SchedulerStages

LEMMA TypeEnvironment ==
    ASSUME TypeInv, Environment
    PROVE  TypeInv'
<1> USE DEF TypeInv, TypeOK, DealerHasGroup, FillsSomething, membership, maps, dealer,
            scheduler
<1>1. CASE SessionExpires
  BY <1>1 DEF SessionExpires
<1>2. CASE EditJobs
  BY <1>2 DEF EditJobs
<1>3. ASSUME NEW n \in Node, Start(n)
      PROVE  TypeInv'
  BY <1>3 DEF Start, GotoS, SchedulerStages
<1>4. ASSUME NEW n \in Node, Crash(n)
      PROVE  TypeInv'
  BY <1>4 DEF Crash, GotoS, DealerStages, SchedulerStages
<1>5. ASSUME NEW n \in Node, Register(n)
      PROVE  TypeInv'
  <2>1. changed' \in [Node -> BOOLEAN]
    BY <1>5 DEF Register
  <2>2. group' \subseteq Node
    BY <1>5 DEF Register
  <2> QED
    BY <1>5, <2>1, <2>2 DEF Register
<1>6. ASSUME NEW n \in Node, Evict(n)
      PROVE  TypeInv'
  BY <1>6 DEF Evict
<1>7. ASSUME NEW n \in Node, TakeOver(n)
      PROVE  TypeInv'
  <2>1. changed' \in [Node -> BOOLEAN]
    BY <1>7 DEF TakeOver
  <2> QED
    BY <1>7, <2>1 DEF TakeOver
<1> QED
  BY <1>1, <1>2, <1>3, <1>4, <1>5, <1>6, <1>7 DEF Environment

LEMMA TypeDealer ==
    ASSUME TypeInv, Dealer
    PROVE  TypeInv'
<1> USE DEF TypeInv, TypeOK, DealerHasGroup, FillsSomething, membership, maps, dealer,
            scheduler, DealerStages
<1>1. CASE Deal
  BY <1>1 DEF Deal, Groups
<1>2. CASE ReadApply
  <2>1. TasksOf(apply) \subseteq Task
    BY DEF TasksOf
  <2> QED
    BY <1>2, <2>1 DEF ReadApply
<1>3. CASE ClearApply
  BY <1>3 DEF ClearApply
<1>4. CASE ReadUse
  <2>1. master \in Node /\ group \in Groups
    BY <1>4 DEF ReadUse
  <2>2. appl[master] \cup TasksOf(use) \subseteq Task /\ use \subseteq Node \X Task
    BY <2>1 DEF TasksOf
  <2>3. plan' \subseteq Node \X Task
    BY <1>4, <2>1, <2>2, PlanEntries
  <2> QED
    BY <1>4, <2>1, <2>3 DEF ReadUse
<1>5. CASE RemoveUse
  BY <1>5 DEF RemoveUse, Without
<1>6. CASE ClearUse
  <2>1. HostsOf(plan) \subseteq Node
    BY DEF HostsOf
  <2> QED
    BY <1>6, <2>1 DEF ClearUse, Done
<1>7. CASE FillUse
  <2>1. PICK h \in rest :
          /\ hosts' = hosts \cup {h}
          /\ use' = Without(h, use) \cup {e \in plan : e[1] = h}
          /\ rest' = rest \ {h}
    BY <1>7 DEF FillUse
  <2>2. hosts' \subseteq Node /\ rest' \subseteq Node /\ use' \subseteq hosts' \X Task
    BY <2>1 DEF Without
  <2> QED
    BY <1>7, <2>2 DEF FillUse, Done
<1> QED
  BY <1>1, <1>2, <1>3, <1>4, <1>5, <1>6, <1>7 DEF Dealer

LEMMA TypeScheduler ==
    ASSUME TypeInv, NEW n \in Node, Schedule(n)
    PROVE  TypeInv'
<1> USE DEF TypeInv, TypeOK, DealerHasGroup, FillsSomething, membership, maps, dealer,
            scheduler, GotoS, SchedulerStages, Snapshot, AfterApply
<1>1. CASE Poll(n)
  <2> DEFINE own == TasksAt(n, use)
  <2>1. own \subseteq Task
    BY DEF TasksAt
  <2> HIDE DEF own
  <2>2. running' \in [Node -> SUBSET Task]
    <3>1. running' = IF own = {} THEN running ELSE [running EXCEPT ![n] = @ \cap own]
      BY <1>1 DEF Poll, own
    <3> QED
      BY <3>1
  <2>3. gone' \in [Node -> SUBSET Task]
    BY <1>1, <2>1 DEF Poll, own
  <2>4. spc' \in [Node -> SchedulerStages]
    BY <1>1 DEF Poll
  <2>5. /\ list' \in [Node -> SUBSET Task]
        /\ UNCHANGED <<db, deleted, membership, maps, dealer, jobs, seen, todo>>
    BY <1>1 DEF Poll
  <2> QED
    BY <2>2, <2>3, <2>4, <2>5
<1>2. CASE DelRead(n)
  BY <1>2 DEF DelRead
<1>3. CASE Del(n)
  BY <1>3, PutBackType DEF Del
<1>4. CASE ReadAll(n)
  BY <1>4 DEF ReadAll, TasksOf
<1>5. CASE ApplyLock(n)
  BY <1>5 DEF ApplyLock
<1>6. CASE ApplyRead(n)
  BY <1>6 DEF ApplyRead, TasksAt
<1>7. CASE ApplyPut(n)
  BY <1>7 DEF ApplyPut, Without
<1>8. CASE EmptyRead(n)
  BY <1>8 DEF EmptyRead
<1>9. CASE Empty(n)
  BY <1>9, PutBackType DEF Empty
<1>10. CASE RemoveRead(n)
  BY <1>10 DEF RemoveRead
<1>11. CASE RemoveExcess(n)
  BY <1>11, PutBackType DEF RemoveExcess
<1>12. CASE RunOwn(n)
  BY <1>12 DEF RunOwn, TasksAt
<1> QED
  BY <1>1, <1>2, <1>3, <1>4, <1>5, <1>6, <1>7, <1>8, <1>9, <1>10, <1>11, <1>12
  DEF Schedule, SendListAppl

LEMMA TypeStep == TypeInv /\ [Next]_vars => TypeInv'
<1> SUFFICES ASSUME TypeInv, [Next]_vars
             PROVE  TypeInv'
  OBVIOUS
<1>1. CASE UNCHANGED vars
  BY <1>1 DEF vars, membership, maps, dealer, scheduler, TypeInv, TypeOK, DealerHasGroup,
              FillsSomething
<1>2. CASE Next
  BY <1>2, TypeEnvironment, TypeDealer, TypeScheduler DEF Next
<1> QED
  BY <1>1, <1>2

LEMMA TypeInvHolds == Spec => []TypeInv
BY TypeInit, TypeStep, PTL DEF Spec

\* Every variable keeps its type, and no task is in USE or APPLY outside an entry,
\* although entries are put back that others have removed.
THEOREM TypeCorrect == Spec => []TypeOK
<1>1. TypeInv => TypeOK
  BY DEF TypeInv
<1> QED
  BY <1>1, TypeInvHolds, PTL

-----------------------------------------------------------------------------
(* Once everything has stopped                                             *)

LEMMA NoTasks == TasksOf({}) = {} /\ HostsOf({}) = {}
BY DEF TasksOf, HostsOf

\* The maps are empty and so is what a scheduler reads from them.
LEMMA StoppedMaps ==
    ASSUME TypeInv, Stopped
    PROVE  /\ use = {} /\ TasksOf(use) = {} /\ TasksOf(apply) = {}
           /\ \A n \in Node : TasksAt(n, use) = {} /\ TasksAt(n, apply) = {}
<1>1. use = {} /\ apply = {}
  BY DEF TypeInv, TypeOK, Stopped
<1> QED
  BY <1>1, NoTasks DEF TasksAt

LEMMA StoppedEnvironment ==
    ASSUME TypeInv, Stopped, Environment, \A n \in Node : ~Start(n)
    PROVE  Stopped'
<1> USE DEF Stopped, membership, maps, dealer, scheduler
<1>1. CASE SessionExpires \/ EditJobs
  BY <1>1 DEF SessionExpires, EditJobs
<1>2. ASSUME NEW n \in Node, Crash(n)
      PROVE  Stopped'
  BY <1>2 DEF Crash, TypeInv, TypeOK
<1>3. ASSUME NEW n \in Node, Register(n) \/ Evict(n) \/ TakeOver(n)
      PROVE  Stopped'
  BY <1>3 DEF Register, Evict, TakeOver
<1> QED
  BY <1>1, <1>2, <1>3 DEF Environment

LEMMA StoppedDealer ==
    ASSUME TypeInv, Stopped, Dealer
    PROVE  Stopped'
<1> USE DEF Stopped, membership, maps, dealer, scheduler
<1>1. CASE Deal \/ ClearApply
  BY <1>1 DEF Deal, ClearApply
<1>2. CASE ReadApply
  BY <1>2, StoppedMaps DEF ReadApply, TypeInv, TypeOK, DealerHasGroup
<1>3. CASE ReadUse
  <2>1. master \in Node /\ group \in Groups
    BY <1>3 DEF ReadUse, TypeInv, DealerHasGroup
  <2>2. use = {} /\ TasksOf(use) = {} /\ appl[master] = {}
    BY <2>1, StoppedMaps
  <2>3. plan' = {}
    BY <1>3, <2>1, <2>2, PlanEntries
  <2> QED
    BY <1>3, <2>3 DEF ReadUse
<1>4. CASE RemoveUse
  BY <1>4 DEF RemoveUse
<1>5. CASE ClearUse
  BY <1>5 DEF ClearUse, Done
<1>6. CASE FillUse
  BY <1>6 DEF FillUse, TypeInv, FillsSomething
<1> QED
  BY <1>1, <1>2, <1>3, <1>4, <1>5, <1>6 DEF Dealer

LEMMA StoppedScheduler ==
    ASSUME TypeInv, Stopped, NEW n \in Node, Schedule(n)
    PROVE  Stopped'
<1> USE DEF Stopped, membership, maps, dealer, scheduler, GotoS, Snapshot
<1>1. CASE Poll(n) \/ DelRead(n) \/ RunOwn(n)
  BY <1>1 DEF Poll, DelRead, RunOwn
<1>2. CASE Del(n) \/ Empty(n) \/ RemoveExcess(n)
  BY <1>2 DEF Del, Empty, RemoveExcess, PutBack
<1>3. CASE ReadAll(n)
  <2>1. /\ jobs' = [jobs EXCEPT ![n] = {}]
        /\ UNCHANGED <<maps, dealer, todo>>
    BY <1>3 DEF ReadAll
  <2> QED
    BY <2>1 DEF TypeInv, TypeOK
<1>4. CASE ApplyLock(n)
  <2>1. /\ jobs' = [jobs EXCEPT ![n] = {}]
        /\ UNCHANGED <<apply, hosts, dealer, todo>>
    BY <1>4 DEF ApplyLock
  <2> QED
    BY <2>1 DEF TypeInv, TypeOK
<1>5. CASE ApplyRead(n)
  <2>1. /\ jobs' = [jobs EXCEPT ![n] = {}]
        /\ UNCHANGED <<maps, dealer, todo>>
    BY <1>5, StoppedMaps DEF ApplyRead
  <2> QED
    BY <2>1 DEF TypeInv, TypeOK
<1>6. CASE ApplyPut(n)
  BY <1>6 DEF ApplyPut, Without, TypeInv, TypeOK
<1>7. CASE EmptyRead(n)
  BY <1>7 DEF EmptyRead, TypeInv, TypeOK
<1>8. CASE RemoveRead(n)
  BY <1>8 DEF RemoveRead, TypeInv, TypeOK
<1> QED
  BY <1>1, <1>2, <1>3, <1>4, <1>5, <1>6, <1>7, <1>8 DEF Schedule, SendListAppl

\* With USE, APPLY and what is on its way there empty, no poll, no heartbeat, no new
\* master and no new job gets anything dealt: it takes the start of a process.
THEOREM OnlyAStartRevives == Spec => StoppedForGood
<1> DEFINE Revived == \E n \in Node : spc[n] = "new" /\ spc'[n] # "new"
<1>1. ASSUME TypeInv, Next, Stopped, ~Revived
      PROVE  Stopped'
  <2>1. \A n \in Node : ~Start(n)
    BY <1>1 DEF Start, GotoS, TypeInv, TypeOK
  <2> QED
    BY <1>1, <2>1, StoppedEnvironment, StoppedDealer, StoppedScheduler DEF Next
<1>2. TypeInv /\ [Next]_vars => [Stopped => Stopped' \/ Revived]_vars
  BY <1>1
<1> QED
  BY <1>2, TypeInvHolds, PTL DEF Spec, StoppedForGood

-----------------------------------------------------------------------------
(* One host per task.  All tasks on their way are or were in the table, so    *)
(* that an addition to it finds none of them in two places; the tasks that    *)
(* delUseList puts back are deleted ones.                                     *)

Known == db \cup deleted

KnownTasks ==
    /\ db \cap deleted = {}
    /\ TasksOf(use) \subseteq Known /\ TasksOf(apply) \subseteq Known
    /\ TasksOf(plan) \subseteq Known
    /\ \A n \in Node : /\ appl[n] \subseteq Known /\ jobs[n] \subseteq Known
                       /\ list[n] \subseteq Known /\ TasksOf(seen[n]) \subseteq Known
                       /\ spc[n] \in {"delRead", "del"} => gone[n] \subseteq deleted

KnownInv == TypeInv /\ KnownTasks

LEMMA KnownInit == Init => KnownTasks
BY NoTasks DEF Init, KnownTasks, Known

\* Parts of a map hold tasks of it only.
LEMMA TasksOfParts ==
    ASSUME NEW u
    PROVE  /\ \A v : v \subseteq u => TasksOf(v) \subseteq TasksOf(u)
           /\ \A v : TasksOf(u \cup v) = TasksOf(u) \cup TasksOf(v)
           /\ \A n : /\ TasksOf(Without(n, u)) \subseteq TasksOf(u)
                     /\ TasksAt(n, u) \subseteq TasksOf(u)
BY DEF TasksOf, Without, TasksAt

LEMMA KnownEnvironment ==
    ASSUME KnownInv, Environment
    PROVE  KnownTasks'
<1> USE DEF KnownInv, TypeInv, TypeOK, KnownTasks, Known, membership, maps, dealer, scheduler
<1>1. CASE SessionExpires
  BY <1>1 DEF SessionExpires
<1>2. CASE EditJobs
  BY <1>2 DEF EditJobs
<1>3. ASSUME NEW n \in Node, Start(n)
      PROVE  KnownTasks'
  BY <1>3 DEF Start, GotoS
<1>4. ASSUME NEW n \in Node, Crash(n)
      PROVE  KnownTasks'
  BY <1>4, NoTasks DEF Crash, GotoS
<1>5. ASSUME NEW n \in Node, Register(n) \/ Evict(n) \/ TakeOver(n)
      PROVE  KnownTasks'
  BY <1>5 DEF Register, Evict, TakeOver
<1> QED
  BY <1>1, <1>2, <1>3, <1>4, <1>5 DEF Environment

LEMMA KnownDealer ==
    ASSUME KnownInv, Dealer
    PROVE  KnownTasks'
<1> USE DEF KnownInv, TypeInv, TypeOK, KnownTasks, Known, membership, maps, dealer, scheduler
<1>1. CASE Deal
  BY <1>1 DEF Deal
<1>2. CASE ReadApply
  BY <1>2 DEF ReadApply
<1>3. CASE ClearApply
  BY <1>3, NoTasks DEF ClearApply
<1>4. CASE ReadUse
  <2>1. master \in Node /\ group \in Groups
    BY <1>4 DEF ReadUse, DealerHasGroup
  <2>2. TasksOf(plan') \subseteq Known
    BY <1>4, <2>1, PlanEntries DEF TasksOf
  <2> QED
    BY <1>4, <2>2 DEF ReadUse
<1>5. CASE RemoveUse
  BY <1>5, TasksOfParts DEF RemoveUse
<1>6. CASE ClearUse
  BY <1>6, NoTasks DEF ClearUse, Done
<1>7. CASE FillUse
  <2>1. use' \subseteq use \cup plan
    BY <1>7 DEF FillUse, Without
  <2>2. TasksOf(use') \subseteq Known
    BY <2>1 DEF TasksOf
  <2>3. plan' \subseteq plan
    BY <1>7 DEF FillUse, Done
  <2>4. TasksOf(plan') \subseteq Known
    BY <2>3, TasksOfParts
  <2> QED
    BY <1>7, <2>2, <2>4 DEF FillUse
<1> QED
  BY <1>1, <1>2, <1>3, <1>4, <1>5, <1>6, <1>7 DEF Dealer

\* Entries of the snapshot come back, and none else.
LEMMA PutBackEntries ==
    ASSUME NEW n \in Node, NEW keep, PutBack(n, keep)
    PROVE  \A e \in use' : e \in use \/ (e \in seen[n] /\ e[2] \in keep)
BY DEF PutBack, Without

LEMMA KnownScheduler ==
    ASSUME KnownInv, NEW n \in Node, Schedule(n)
    PROVE  KnownTasks'
<1> USE DEF KnownInv, TypeInv, TypeOK, KnownTasks, Known, membership, maps, dealer, scheduler,
            GotoS, Snapshot, AfterApply
<1>1. CASE Poll(n)
  <2>1. TasksAt(n, use) \ db \subseteq deleted
    BY TasksOfParts
  <2>2. /\ gone' = [gone EXCEPT ![n] = TasksAt(n, use) \ db]
        /\ list' = [list EXCEPT ![n] = db]
        /\ \E stage \in {"readUse", "delRead"} : spc' = [spc EXCEPT ![n] = stage]
        /\ UNCHANGED <<db, deleted, membership, maps, dealer, jobs, seen, todo>>
    BY <1>1 DEF Poll
  <2> QED
    BY <2>1, <2>2
<1>2. CASE DelRead(n)
  BY <1>2 DEF DelRead
<1>3. CASE Del(n) \/ Empty(n) \/ RemoveExcess(n)
  <2>1. TasksOf(use') \subseteq Known
    <3>1. PutBack(n, gone[n]) \/ PutBack(n, {}) \/ PutBack(n, Task \ gone[n])
      BY <1>3 DEF Del, Empty, RemoveExcess
    <3>2. \A e \in use' : e \in use \/ e \in seen[n]
      BY <3>1, PutBackEntries
    <3> QED
      BY <3>2 DEF TasksOf
  <2>2. \A m \in Node : /\ seen'[m] \in {seen[m], {}}
                        /\ spc'[m] = spc[m] \/ spc'[m] \notin {"delRead", "del"}
    BY <1>3 DEF Del, Empty, RemoveExcess
  <2>3. UNCHANGED <<db, deleted, apply, dealer, list, jobs, gone>>
    BY <1>3 DEF Del, Empty, RemoveExcess
  <2> QED
    BY <2>1, <2>2, <2>3, NoTasks
<1>4. CASE ReadAll(n)
  <2>1. /\ \A m \in Node : jobs'[m] \subseteq jobs[m] \cup list[m]
        /\ \A m \in Node : \/ spc'[m] = spc[m] /\ gone'[m] = gone[m]
                           \/ spc'[m] \notin {"delRead", "del"}
        /\ UNCHANGED <<db, deleted, membership, maps, dealer, list, seen>>
    BY <1>4 DEF ReadAll
  <2> QED
    BY <2>1
<1>5. CASE ApplyLock(n)
  BY <1>5 DEF ApplyLock
<1>6. CASE ApplyRead(n)
  BY <1>6, TasksOfParts DEF ApplyRead
<1>7. CASE ApplyPut(n)
  <2>1. TasksOf(apply') \subseteq Known
    <3>1. apply' = Without(n, apply) \cup ({n} \X jobs[n])
      BY <1>7 DEF ApplyPut
    <3>2. TasksOf({n} \X jobs[n]) \subseteq Known
      BY DEF TasksOf
    <3>3. TasksOf(Without(n, apply)) \subseteq Known
      BY TasksOfParts
    <3> QED
      BY <3>1, <3>2, <3>3 DEF TasksOf
  <2> QED
    BY <1>7, <2>1 DEF ApplyPut
<1>8. CASE EmptyRead(n)
  BY <1>8 DEF EmptyRead
<1>9. CASE RemoveRead(n)
  BY <1>9 DEF RemoveRead
<1>10. CASE RunOwn(n)
  BY <1>10 DEF RunOwn
<1> QED
  BY <1>1, <1>2, <1>3, <1>4, <1>5, <1>6, <1>7, <1>8, <1>9, <1>10 DEF Schedule, SendListAppl

LEMMA KnownInvHolds == Spec => []KnownInv
<1>1. KnownInv /\ [Next]_vars => KnownInv'
  <2> SUFFICES ASSUME KnownInv, [Next]_vars
               PROVE  KnownInv'
    OBVIOUS
  <2>1. CASE UNCHANGED vars
    BY <2>1, TypeStep DEF vars, membership, maps, dealer, scheduler, KnownInv, KnownTasks, Known
  <2>2. CASE Next
    BY <2>2, TypeStep, KnownEnvironment, KnownDealer, KnownScheduler DEF Next, KnownInv
  <2> QED
    BY <2>1, <2>2
<1> QED
  BY <1>1, TypeInit, KnownInit, PTL DEF Spec, KnownInv

\* A part of a single assignment is one.
LEMMA SingleParts ==
    ASSUME NEW u, NEW v, u \subseteq v, Single(v)
    PROVE  Single(u)
BY DEF Single

\* A table with other tasks still: those on their way to a host are not new ones.
LEMMA SingleEdited ==
    ASSUME KnownTasks, NEW u, TasksOf(u) \subseteq Known, Single(u), db' \cap Known \subseteq db
    PROVE  \A d, e \in u : d[2] = e[2] /\ d[2] \in db' => d = e
BY DEF Single, TasksOf

LEMMA InHandEnvironment ==
    ASSUME KnownInv, OneHostInHand, Environment
    PROVE  OneHostInHand'
<1> USE DEF OneHostInHand, membership, maps, dealer, scheduler
<1>1. CASE EditJobs
  <2>1. db' \cap Known \subseteq db /\ UNCHANGED <<use, plan, hpc>>
    BY <1>1 DEF EditJobs, Known
  <2>2. TasksOf(use) \subseteq Known /\ TasksOf(plan) \subseteq Known
    BY DEF KnownInv, KnownTasks
  <2>3. TasksOf(use \cup plan) \subseteq Known
    BY <2>2, TasksOfParts
  <2> QED
    BY <2>1, <2>2, <2>3, SingleEdited DEF KnownInv, Single
<1>2. ASSUME NEW n \in Node, Crash(n)
      PROVE  OneHostInHand'
  BY <1>2 DEF Crash, Single
<1>3. CASE SessionExpires \/ \E n \in Node : Start(n) \/ Register(n) \/ Evict(n) \/ TakeOver(n)
  BY <1>3 DEF SessionExpires, Start, Register, Evict, TakeOver, Single
<1> QED
  BY <1>1, <1>2, <1>3 DEF Environment

LEMMA InHandDealer ==
    ASSUME KnownInv, OneHostInHand, Dealer
    PROVE  OneHostInHand'
<1> USE DEF OneHostInHand, membership, maps, dealer, scheduler
<1>1. CASE Deal \/ ReadApply \/ ClearApply
  BY <1>1 DEF Deal, ReadApply, ClearApply, Single
<1>2. CASE ReadUse
  <2>1. master \in Node /\ group \in Groups
    BY <1>2 DEF ReadUse, KnownInv, TypeInv, DealerHasGroup
  <2>2. PICK order \in SetToSeqs(ToDeal(master)), start \in 0..(Cardinality(group) - 1) :
           plan' = Kept(master) \cup Dealt(order, group, start)
    BY <1>2 DEF ReadUse
  <2>3. start \in Nat
    BY <2>1, GroupSize
  <2>4. /\ Dealt(order, group, start) \subseteq group \X ToDeal(master)
        /\ \A d, e \in Dealt(order, group, start) : d[2] = e[2] => d = e
    BY <2>1, <2>3, DealtEntries
  <2>5. Kept(master) \subseteq use /\ \A d \in Kept(master) : d[2] \notin ToDeal(master)
    BY DEF Kept, ToDeal, TasksOf
  <2>6. \A d, e \in plan' : d[2] = e[2] /\ d[2] \in db => d = e
    BY <2>2, <2>4, <2>5 DEF Single
  <2> QED
    BY <1>2, <2>6 DEF ReadUse, Single
<1>3. CASE RemoveUse
  <2>1. use' \subseteq use /\ UNCHANGED <<db, plan>> /\ hpc' # "fillUse"
    BY <1>3 DEF RemoveUse, Without
  <2> QED
    BY <2>1 DEF Single
<1>4. CASE ClearUse
  <2>1. use' = {} /\ plan' \in {plan, {}} /\ UNCHANGED db
    BY <1>4 DEF ClearUse, Done
  <2> QED
    BY <2>1 DEF Single
<1>5. CASE FillUse
  <2>1. use' \subseteq use \cup plan /\ plan' \subseteq plan /\ UNCHANGED db /\ hpc = "fillUse"
    BY <1>5 DEF FillUse, Done, Without
  <2> QED
    BY <2>1 DEF Single
<1> QED
  BY <1>1, <1>2, <1>3, <1>4, <1>5 DEF Dealer

\* Only entries of other hosts' tasks can break it: those a step of "remove" brings.
LEMMA InHandScheduler ==
    ASSUME KnownInv, OneHostInHand, NEW n \in Node, Schedule(n)
    PROVE  \/ OneHostInHand'
           \/ spc[n] = "remove" /\ \E e \in use' \ use : e \in seen[n] /\ e[2] \in db
<1> USE DEF OneHostInHand, membership, maps, dealer, scheduler
<1>1. ASSUME UNCHANGED <<db, plan, hpc>>, \A e \in use' : e[2] \in db => e \in use
      PROVE  OneHostInHand'
  BY <1>1 DEF Single
<1>2. CASE Del(n)
  <2>1. PutBack(n, gone[n]) /\ spc[n] = "del" /\ UNCHANGED <<db, plan, hpc>>
    BY <1>2 DEF Del
  <2>2. gone[n] \cap db = {}
    BY <2>1 DEF KnownInv, KnownTasks
  <2> QED
    BY <1>1, <2>1, <2>2, PutBackEntries
<1>3. CASE Empty(n)
  <2>1. PutBack(n, {}) /\ UNCHANGED <<db, plan, hpc>>
    BY <1>3 DEF Empty
  <2> QED
    BY <1>1, <2>1, PutBackEntries
<1>4. CASE RemoveExcess(n)
  <2>1. PutBack(n, Task \ gone[n]) /\ spc[n] = "remove" /\ UNCHANGED <<db, plan, hpc>>
    BY <1>4 DEF RemoveExcess
  <2> QED
    BY <1>1, <2>1, PutBackEntries
<1>5. CASE ~(Del(n) \/ Empty(n) \/ RemoveExcess(n))
  <2>1. UNCHANGED <<db, plan, hpc, use>>
    BY <1>5 DEF Schedule, SendListAppl, Poll, DelRead, ReadAll, ApplyLock, ApplyRead, ApplyPut,
                EmptyRead, RemoveRead, RunOwn
  <2> QED
    BY <1>1, <2>1
<1> QED
  BY <1>2, <1>3, <1>4, <1>5

LEMMA InHandStep ==
    ASSUME KnownInv, OneHostInHand, [Next]_vars
    PROVE  \/ OneHostInHand'
           \/ \E n \in Node : /\ Schedule(n) /\ spc[n] = "remove"
                              /\ \E e \in use' \ use : e \in seen[n] /\ e[2] \in db
<1>1. CASE UNCHANGED vars
  BY <1>1 DEF vars, dealer, maps, OneHostInHand, Single
<1>2. CASE Next
  BY <1>2, InHandEnvironment, InHandDealer, InHandScheduler DEF Next
<1> QED
  BY <1>1, <1>2

\* Also with deletions only a write from a snapshot gives a task two hosts: no crash,
\* new master, change of the group or lost entry does, for any hosts and tasks.
THEOREM OnlyPutBackDoubles == Spec => SecondHostByPutBack
<1> DEFINE ByPutBack ==
             \E n \in Node : spc[n] = "remove"
                           /\ \E e \in use' \ use : e \in seen[n] /\ e[2] \in db
<1>1. KnownInv /\ [Next]_vars => [OneHostInHand => OneHostInHand' \/ ByPutBack]_vars
  BY InHandStep
<1> QED
  BY <1>1, KnownInvHolds, PTL DEF Spec, SecondHostByPutBack

=============================================================================
