------------------------- MODULE TaskDealingProofs -------------------------
(***************************************************************************)
(* Proofs about TaskDealing, for all finite sets of hosts and tasks and    *)
(* every iteration order of the maps and sets involved.                    *)
(***************************************************************************)
EXTENDS TaskDealing, DealingProofs

LEMMA StartAtType ==
    ASSUME rotation \in Nat, NEW size
    PROVE  StartAt(size) \in Nat
BY DEF StartAt

-----------------------------------------------------------------------------
(* The invariant: types, one host per task, hosts within the group         *)

Inv == TypeOK /\ OneHostPerTask /\ DealtWithinGroup

LEMMA InvInit == Init => Inv
BY DEF Init, Inv, TypeOK, OneHostPerTask, DealtWithinGroup, HostsOf, Groups

\* A round that keeps nothing, or that keeps entries of other tasks.
LEMMA DealOutKeepsInv ==
    ASSUME Inv, NEW tasks \in SUBSET Task, NEW kept \in SUBSET use,
           DealOut(tasks, kept), TasksOf(kept) \cap tasks = {},
           HostsOf(kept) \subseteq group
    PROVE  /\ use' \subseteq Node \X Task
           /\ rotation' \in Nat
           /\ last' \in (Node \cup {NoHost}) \X SUBSET Node
           /\ \A d, e \in use' : d[2] = e[2] => d = e
           /\ HostsOf(use') \subseteq group
<1> DEFINE start == StartAt(Cardinality(group))
<1>1. group \in Groups /\ start \in Nat
  BY StartAtType DEF Inv, TypeOK
<1> HIDE DEF start
<1>2. PICK order \in SetToSeqs(tasks) :
        /\ use' = kept \cup Dealt(order, group, start)
        /\ last' = <<IF order = <<>> THEN NoHost
                     ELSE HostAt(group, Slot(start, 0, Cardinality(group))), group>>
  BY DEF DealOut, start
<1>3. /\ Dealt(order, group, start) \subseteq group \X tasks
      /\ \A d, e \in Dealt(order, group, start) : d[2] = e[2] => d = e
  BY <1>1, <1>2, DealtEntries
<1>4. group \subseteq Node
  BY <1>1 DEF Groups
<1>5. use' \subseteq Node \X Task
  BY <1>2, <1>3, <1>4 DEF Inv, TypeOK
<1>6. rotation' \in Nat
  BY <1>1 DEF DealOut, start
<1>7. HostAt(group, Slot(start, 0, Cardinality(group))) \in Node
  <2>1. Slot(start, 0, Cardinality(group)) \in 0..(Cardinality(group) - 1)
    BY <1>1, GroupSize, SlotInRange
  <2> QED
    BY <1>1, <1>4, <2>1, HostAtAssumption DEF Groups
<1>8. last' \in (Node \cup {NoHost}) \X SUBSET Node
  BY <1>2, <1>4, <1>7
<1>9. \A d, e \in use' : d[2] = e[2] => d = e
  <2>1. \A d \in kept, e \in Dealt(order, group, start) : d[2] # e[2]
    BY <1>3 DEF TasksOf
  <2> QED
    BY <1>2, <1>3, <2>1 DEF Inv, OneHostPerTask
<1>10. HostsOf(use') \subseteq group
  BY <1>2, <1>3 DEF HostsOf
<1> QED
  BY <1>5, <1>6, <1>8, <1>9, <1>10

LEMMA DealKeepsInv ==
    ASSUME Inv, Deal
    PROVE  Inv'
<1>1. CASE DealAll
  <2>1. PICK list \in SetToSeqs(use) : DealOut(apply \cup Gathered(list), {})
    BY <1>1 DEF DealAll
  <2>2. apply \cup Gathered(list) \in SUBSET Task
    BY <2>1, GatheredTasks DEF Inv, TypeOK, TasksOf
  <2>3. TasksOf({}) \cap (apply \cup Gathered(list)) = {} /\ HostsOf({}) \subseteq group
    BY DEF TasksOf, HostsOf
  <2>4. /\ use' \subseteq Node \X Task
        /\ rotation' \in Nat
        /\ last' \in (Node \cup {NoHost}) \X SUBSET Node
        /\ \A d, e \in use' : d[2] = e[2] => d = e
        /\ HostsOf(use') \subseteq group
    BY <2>1, <2>2, <2>3, DealOutKeepsInv
  <2> QED
    BY <1>1, <2>4 DEF DealAll, Inv, TypeOK, OneHostPerTask, DealtWithinGroup, HostsOf
<1>2. CASE DealApplied
  <2>1. DealOut(apply \ TasksOf(use), use) /\ HostsOf(use) \subseteq group
    BY <1>2 DEF DealApplied, Inv, DealtWithinGroup
  <2>2. apply \ TasksOf(use) \in SUBSET Task
    BY DEF Inv, TypeOK
  <2>3. /\ use' \subseteq Node \X Task
        /\ rotation' \in Nat
        /\ last' \in (Node \cup {NoHost}) \X SUBSET Node
        /\ \A d, e \in use' : d[2] = e[2] => d = e
        /\ HostsOf(use') \subseteq group
    BY <2>1, <2>2, DealOutKeepsInv
  <2> QED
    BY <1>2, <2>3 DEF DealApplied, Inv, TypeOK, OneHostPerTask, DealtWithinGroup, HostsOf
<1> QED
  BY <1>1, <1>2 DEF Deal

LEMMA InvStep == Inv /\ [Next]_vars => Inv'
<1> SUFFICES ASSUME Inv, [Next]_vars
             PROVE  Inv'
  OBVIOUS
<1>1. CASE Deal
  BY <1>1, DealKeepsInv
<1>2. CASE ExecSchedule
  BY <1>2 DEF ExecSchedule, Applied, Inv, TypeOK, OneHostPerTask, DealtWithinGroup, HostsOf
<1>3. CASE SendAllAppl
  BY <1>3 DEF SendAllAppl, Applied, Inv, TypeOK, OneHostPerTask, DealtWithinGroup, HostsOf
<1>4. CASE Regroup
  BY <1>4 DEF Regroup, Inv, TypeOK, OneHostPerTask, DealtWithinGroup
<1>5. CASE EditJob
  BY <1>5 DEF EditJob, Inv, TypeOK, OneHostPerTask, DealtWithinGroup, HostsOf
<1>6. CASE UNCHANGED vars
  BY <1>6 DEF vars, Inv, TypeOK, OneHostPerTask, DealtWithinGroup, HostsOf
<1> QED
  BY <1>1, <1>2, <1>3, <1>4, <1>5, <1>6 DEF Next

\* Types, single dealing and dealing within the group hold together.
THEOREM InvHolds == Spec => []Inv
BY InvInit, InvStep, PTL DEF Spec

\* Every variable keeps its type: only hosts and jobs there can be end up in USE,
\* whatever was left there from earlier rounds.
THEOREM TypeCorrect == Spec => []TypeOK
<1>1. Inv => TypeOK
  BY DEF Inv
<1> QED
  BY <1>1, InvHolds, PTL

\* No task is ever dealt to two hosts.
THEOREM NoTaskTwice == Spec => []OneHostPerTask
<1>1. Inv => OneHostPerTask
  BY DEF Inv
<1> QED
  BY <1>1, InvHolds, PTL

\* An answered change of the group leaves no task with a host outside it.
THEOREM DepartedHostsGetNothing == Spec => []DealtWithinGroup
<1>1. Inv => DealtWithinGroup
  BY DEF Inv
<1> QED
  BY <1>1, InvHolds, PTL

-----------------------------------------------------------------------------
(* The rotation.  The counter points one behind the host that got the first
   task of the last round, in the group of that round.                        *)

LastStart ==
    last[1] # NoHost =>
        /\ rotation - 1 \in 0..(Cardinality(last[2]) - 1)
        /\ last[1] = HostAt(last[2], rotation - 1)

\* Where a round starts and what it remembers of it.
LEMMA StartOfRound ==
    ASSUME TypeOK, NEW tasks \in SUBSET Task, NEW kept, DealOut(tasks, kept)
    PROVE  \E order \in SetToSeqs(tasks), start \in 0..(Cardinality(group) - 1) :
              /\ start = StartAt(Cardinality(group))
              /\ use' = kept \cup Dealt(order, group, start)
              /\ rotation' = start + 1
              /\ last'[2] = group
              /\ last'[1] # NoHost => last'[1] = HostAt(group, start)
<1> DEFINE size == Cardinality(group)
           start == StartAt(size)
<1>1. group \in Groups /\ size \in Nat \ {0} /\ rotation \in Nat
  BY GroupSize DEF TypeOK
<1>2. start \in 0..(size - 1)
  BY <1>1 DEF StartAt
<1>3. Slot(start, 0, size) = start
  BY <1>1, <1>2 DEF Slot
<1> HIDE DEF size
<1>4. PICK order \in SetToSeqs(tasks) :
        /\ use' = kept \cup Dealt(order, group, start)
        /\ last' = <<IF order = <<>> THEN NoHost ELSE HostAt(group, Slot(start, 0, size)), group>>
  BY DEF DealOut, size
<1>5. rotation' = start + 1
  BY DEF DealOut, size
<1> QED
  BY <1>2, <1>3, <1>4, <1>5 DEF size

\* A round deals some of the tasks out, in the group there is.
LEMMA RoundOfDeal ==
    ASSUME TypeOK, Deal
    PROVE  \E tasks \in SUBSET Task, kept \in SUBSET use : DealOut(tasks, kept)
<1>1. CASE DealAll
  <2>1. PICK list \in SetToSeqs(use) : DealOut(apply \cup Gathered(list), {})
    BY <1>1 DEF DealAll
  <2>2. apply \cup Gathered(list) \in SUBSET Task
    BY <2>1, GatheredTasks DEF TypeOK, TasksOf
  <2> QED
    BY <2>1, <2>2
<1>2. CASE DealApplied
  <2>1. apply \ TasksOf(use) \in SUBSET Task
    BY DEF TypeOK
  <2> QED
    BY <1>2, <2>1 DEF DealApplied
<1> QED
  BY <1>1, <1>2 DEF Deal

LEMMA LastStartStep == Inv /\ LastStart /\ [Next]_vars => LastStart'
<1> SUFFICES ASSUME Inv, LastStart, [Next]_vars
             PROVE  LastStart'
  OBVIOUS
<1>1. CASE Deal
  <2>1. PICK tasks \in SUBSET Task, kept \in SUBSET use : DealOut(tasks, kept)
    BY <1>1, RoundOfDeal DEF Inv
  <2>2. PICK start \in 0..(Cardinality(group) - 1) :
          /\ rotation' = start + 1
          /\ last'[2] = group
          /\ last'[1] # NoHost => last'[1] = HostAt(group, start)
    BY <2>1, StartOfRound DEF Inv
  <2>3. rotation' - 1 = start
    BY <2>2
  <2> QED
    BY <2>2, <2>3 DEF LastStart
<1>2. CASE ExecSchedule \/ SendAllAppl \/ Regroup \/ EditJob \/ UNCHANGED vars
  <2>1. rotation' = rotation /\ last' = last
    BY <1>2 DEF ExecSchedule, SendAllAppl, Regroup, EditJob, vars
  <2> QED
    BY <2>1 DEF LastStart
<1> QED
  BY <1>1, <1>2 DEF Next

\* In an unchanged group of several hosts a round starts elsewhere than the last.
LEMMA SpreadStep ==
    ASSUME Inv, LastStart, Deal, last[2] = group, Cardinality(group) > 1, last'[1] # NoHost
    PROVE  last'[1] # last[1]
<1> DEFINE size == Cardinality(group)
<1>1. PICK tasks \in SUBSET Task, kept \in SUBSET use : DealOut(tasks, kept)
  BY RoundOfDeal DEF Inv
<1>2. PICK start \in 0..(size - 1) :
        start = StartAt(size) /\ last'[1] = HostAt(group, start)
  BY <1>1, StartOfRound DEF Inv
<1>3. group \in Groups /\ size \in Nat \ {0} /\ rotation \in Nat
  BY GroupSize DEF Inv, TypeOK
<1>4. CASE last[1] = NoHost
  BY <1>4
<1>5. CASE last[1] # NoHost
  <2>1. rotation - 1 \in 0..(size - 1) /\ last[1] = HostAt(group, rotation - 1)
    BY <1>5 DEF LastStart
  <2>2. start # rotation - 1
    BY <1>2, <1>3, <2>1 DEF StartAt
  <2> QED
    BY <1>2, <1>3, <2>1, <2>2, HostAtAssumption DEF Groups
<1> QED
  BY <1>4, <1>5

\* Tasks that come one at a time are spread over the group: no two rounds in a row
\* start at the same host.
THEOREM RotationGoesOn == Spec => RotationSpreads
<1>1. Init => LastStart
  BY DEF Init, LastStart
<1>2. Inv /\ LastStart /\ [Next]_vars
        => [Deal /\ last[2] = group /\ Cardinality(group) > 1 /\ last'[1] # NoHost
              => last'[1] # last[1]]_vars
  BY SpreadStep
<1> QED
  BY <1>1, <1>2, InvHolds, LastStartStep, PTL DEF Spec, RotationSpreads

\* Three hosts never all get tasks when everything is dealt again.
LEMMA IdleStep ==
    ASSUME Inv, DealAll, Cardinality(group) = 3
    PROVE  HostsOf(use') # group
<1>1. PICK list \in SetToSeqs(use) : DealOut(apply \cup Gathered(list), {})
  BY DEF DealAll
<1> DEFINE tasks == apply \cup Gathered(list)
<1>2. tasks \in SUBSET Task
  BY <1>1, GatheredTasks DEF Inv, TypeOK, TasksOf
<1> HIDE DEF tasks
<1>3. PICK order \in SetToSeqs(tasks), start \in 0..2 : use' = Dealt(order, group, start)
  <2>1. DealOut(tasks, {})
    BY <1>1 DEF tasks
  <2>2. PICK order \in SetToSeqs(tasks), start \in 0..(Cardinality(group) - 1) :
          use' = {} \cup Dealt(order, group, start)
    BY <1>2, <2>1, StartOfRound DEF Inv
  <2>3. Cardinality(group) - 1 = 2
    OBVIOUS
  <2> QED
    BY <2>2, <2>3
<1> DEFINE idle == (start + 2) % 3
<1>4. idle \in 0..2
  OBVIOUS
<1>5. ASSUME NEW e \in use'
      PROVE  e[1] # HostAt(group, idle)
  <2>1. PICK i \in DOMAIN order : e[1] = HostAt(group, Slot(start, i - 1, 3))
    BY <1>3, <1>5 DEF Dealt
  <2>2. i - 1 \in Nat
    BY OrderOfTasks
  <2>3. Slot(start, i - 1, 3) # idle /\ Slot(start, i - 1, 3) \in 0..2
    <3>1. PICK k \in Nat : k = i - 1
      BY <2>2
    <3>2. 3 \in Nat \ {0} /\ start \in Nat
      OBVIOUS
    <3>3. Slot(start, k, 3) \in 0..(3 - 1)
      BY <3>2, SlotInRange
    <3>4. Slot(start, k, 3) # (start + 2) % 3
      BY <3>2, SlotOfThree
    <3> QED
      BY <3>1, <3>3, <3>4
  <2> HIDE DEF idle
  <2>4. group \in SUBSET Node /\ 0..(Cardinality(group) - 1) = 0..2
    BY DEF Inv, TypeOK, Groups
  <2> QED
    BY <1>4, <2>1, <2>3, <2>4, HostAtAssumption
<1>6. HostAt(group, idle) \in group
  <2> HIDE DEF idle
  <2> QED
    BY <1>4, HostAtAssumption DEF Inv, TypeOK, Groups
<1> QED
  BY <1>5, <1>6 DEF HostsOf

\* A change of a group of three leaves one of its hosts without work, for every
\* number of tasks.
THEOREM OneOfThreeIdle == Spec => ThirdHostIdle
<1>1. Inv /\ [Next]_vars => [DealAll /\ Cardinality(group) = 3 => HostsOf(use') # group]_vars
  BY IdleStep
<1> QED
  BY <1>1, InvHolds, PTL DEF Spec, ThirdHostIdle

=============================================================================
