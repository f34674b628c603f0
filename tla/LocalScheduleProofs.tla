------------------------- MODULE LocalScheduleProofs -------------------------
(***************************************************************************)
(* Proofs about LocalSchedule, for any set of jobs and any crons: futures  *)
(* are neither leaked nor doubled however runs of execSchedule end, a null *)
(* future is for good, and a run without one interrupts every body.        *)
(***************************************************************************)
EXTENDS LocalSchedule, TLAPS

\* A key has a future or a null, other tasks have neither.
KeysHaveHandles == \A t \in Task : cron[t] = Absent <=> handle[t] = "none"

\* A body runs only under a key.
BodiesHaveKeys == executing \subseteq Keys

LocalInv == TypeOK /\ ScheduledOnce /\ KeysHaveHandles /\ BodiesHaveKeys

LEMMA LocalInit == Init => LocalInv
BY CronsAssumption DEF Init, LocalInv, TypeOK, ScheduledOnce, KeysHaveHandles, BodiesHaveKeys,
                       Keys, Hosts

\* What a run removes and adds: keys with a future, and jobs with a cron that are no
\* keys by then.
LEMMA RescheduledKeeps ==
    ASSUME LocalInv, table' = table, host' = host,
           NEW removed \in SUBSET (Keys \ Null), NEW added \in SUBSET Task,
           \A t \in added : table[t] # Absent /\ (t \in Keys => t \in removed),
           Rescheduled(removed, added)
    PROVE  LocalInv'
<1> USE DEF LocalInv
<1>1. \A t \in removed : handle[t] = "future" /\ active[t] = 1 /\ cron[t] # Absent
  BY DEF Keys, Null, TypeOK, ScheduledOnce, KeysHaveHandles
<1>2. \A t \in added \ removed : handle[t] = "none" /\ active[t] = 0
  BY DEF Keys, TypeOK, ScheduledOnce, KeysHaveHandles
<1>3. ASSUME NEW t \in Task
      PROVE  /\ cron'[t] \in Crons \cup {Absent}
             /\ handle'[t] \in {"none", "future", "null"}
             /\ active'[t] \in Nat
             /\ active'[t] = IF handle'[t] = "future" THEN 1 ELSE 0
             /\ cron'[t] = Absent <=> handle'[t] = "none"
  <2>1. /\ cron'[t] = IF t \in added THEN table[t]
                      ELSE IF t \in removed THEN Absent ELSE cron[t]
        /\ handle'[t] = IF t \in added THEN IF table[t] = "never" THEN "null" ELSE "future"
                        ELSE IF t \in removed THEN "none" ELSE handle[t]
        /\ active'[t] = active[t] - (IF t \in removed THEN 1 ELSE 0)
                            + (IF t \in added /\ table[t] # "never" THEN 1 ELSE 0)
    BY DEF Rescheduled
  <2>2. /\ cron[t] \in Crons \cup {Absent} /\ table[t] \in Crons \cup {Absent}
        /\ handle[t] \in {"none", "future", "null"} /\ active[t] \in Nat
        /\ active[t] = IF handle[t] = "future" THEN 1 ELSE 0
        /\ cron[t] = Absent <=> handle[t] = "none"
    BY DEF TypeOK, ScheduledOnce, KeysHaveHandles
  <2>3. CASE t \in added
    BY <1>1, <1>2, <2>1, <2>2, <2>3
  <2>4. CASE t \notin added
    BY <1>1, <2>1, <2>2, <2>4
  <2> QED
    BY <2>3, <2>4
<1>4. TypeOK'
  BY <1>3 DEF TypeOK, Rescheduled
<1>5. ScheduledOnce' /\ KeysHaveHandles'
  BY <1>3 DEF ScheduledOnce, KeysHaveHandles
<1>6. BodiesHaveKeys'
  <2>1. \A t \in Keys \ removed : cron'[t] # Absent
    BY DEF Rescheduled, Keys
  <2> QED
    BY <2>1 DEF BodiesHaveKeys, Rescheduled, Keys
<1> QED
  BY <1>4, <1>5, <1>6

\* How a run ends decides what it removes and adds.
LEMMA RunRemoves ==
    ASSUME LocalInv, ExecSchedule
    PROVE  \E removed \in SUBSET (Keys \ Null), added \in SUBSET Task :
              /\ Rescheduled(removed, added)
              /\ \A t \in added : table[t] # Absent /\ (t \in Keys => t \in removed)
              /\ Null # {} => added = {}
              /\ Null = {} => removed = Keys
<1>1. Unused \subseteq Keys
  BY DEF Unused
<1>2. CASE FailsAtUnused
  BY <1>1, <1>2 DEF FailsAtUnused
<1>3. CASE FailsAtComparison
  BY <1>1, <1>3 DEF FailsAtComparison
<1>4. CASE FailsAtRemoval
  BY <1>4 DEF FailsAtRemoval
<1>5. CASE Succeeds
  <2>1. Reached \subseteq Task /\ \A t \in Reached : table[t] # Absent
    BY DEF Reached, Listed
  <2> QED
    BY <1>5, <2>1 DEF Succeeds
<1> QED
  BY <1>2, <1>3, <1>4, <1>5 DEF ExecSchedule

LEMMA LocalStep == LocalInv /\ [Next]_vars => LocalInv'
<1> SUFFICES ASSUME LocalInv, [Next]_vars
             PROVE  LocalInv'
  OBVIOUS
<1> USE DEF LocalInv, TypeOK, ScheduledOnce, KeysHaveHandles, BodiesHaveKeys, Keys
<1>1. CASE ExecSchedule
  BY <1>1, RunRemoves, RescheduledKeeps DEF ExecSchedule
<1>2. CASE EditJob
  BY <1>2 DEF EditJob
<1>3. CASE Reassign
  BY <1>3 DEF Reassign
<1>4. ASSUME NEW t \in Task, Fire(t)
      PROVE  LocalInv'
  BY <1>4 DEF Fire
<1>5. ASSUME NEW t \in Task, Finish(t)
      PROVE  LocalInv'
  BY <1>5 DEF Finish
<1>6. CASE UNCHANGED vars
  BY <1>6 DEF vars
<1> QED
  BY <1>1, <1>2, <1>3, <1>4, <1>5, <1>6 DEF Next

LEMMA LocalInvHolds == Spec => []LocalInv
BY LocalInit, LocalStep, PTL DEF Spec

\* Every variable keeps its type: no future is cancelled more often than scheduled.
THEOREM TypeCorrect == Spec => []TypeOK
<1>1. LocalInv => TypeOK
  BY DEF LocalInv
<1> QED
  BY <1>1, LocalInvHolds, PTL

\* Every future that may fire is the one the map has for its task.
THEOREM NoFutureLeaked == Spec => []ScheduledOnce
<1>1. LocalInv => ScheduledOnce
  BY DEF LocalInv
<1> QED
  BY <1>1, LocalInvHolds, PTL

\* Once a key has a null future it keeps it, and no run starts anything any more.
THEOREM PoisonedForGood == Spec => PoisonIsForGood
<1>1. ASSUME LocalInv, [Next]_vars, Null # {}
      PROVE  Null \subseteq Null' /\ \A t \in Task : active'[t] <= active[t]
  <2>1. CASE ExecSchedule
    <3>1. PICK removed \in SUBSET (Keys \ Null) : Rescheduled(removed, {})
      BY <1>1, <2>1, RunRemoves
    <3>2. ASSUME NEW t \in Null
          PROVE  t \in Null'
      <4>1. t \in Task /\ t \notin removed /\ cron[t] # Absent /\ handle[t] = "null"
        BY DEF Null, Keys
      <4>2. cron'[t] = cron[t] /\ handle'[t] = handle[t]
        BY <3>1, <4>1 DEF Rescheduled
      <4> QED
        BY <4>1, <4>2 DEF Null, Keys
    <3>3. ASSUME NEW t \in Task
          PROVE  active'[t] <= active[t]
      <4>1. active'[t] = active[t] - (IF t \in removed THEN 1 ELSE 0) + 0
        BY <3>1 DEF Rescheduled
      <4> QED
        BY <1>1, <4>1 DEF LocalInv, TypeOK
    <3> QED
      BY <3>2, <3>3
  <2>2. CASE ~ExecSchedule
    <3>1. active' = active /\ cron' = cron /\ handle' = handle
      BY <1>1, <2>2 DEF Next, EditJob, Reassign, Fire, Finish, vars
    <3> QED
      BY <1>1, <3>1 DEF LocalInv, TypeOK, Null, Keys
  <2> QED
    BY <2>1, <2>2
<1>2. LocalInv /\ [Next]_vars =>
         [Null # {} => Null \subseteq Null' /\ \A t \in Task : active'[t] <= active[t]]_vars
  BY <1>1
<1> QED
  BY <1>2, LocalInvHolds, PTL DEF Spec, PoisonIsForGood

\* A run without null futures removes every key, and with it every body.
THEOREM RunsInterruptAll == Spec => EveryRunInterrupts
<1>1. ASSUME LocalInv, ExecSchedule, Null = {}
      PROVE  executing' = {}
  BY <1>1, RunRemoves DEF Rescheduled, LocalInv, BodiesHaveKeys
<1>2. LocalInv /\ [Next]_vars => [ExecSchedule /\ Null = {} => executing' = {}]_vars
  BY <1>1
<1> QED
  BY <1>2, LocalInvHolds, PTL DEF Spec, EveryRunInterrupts

=============================================================================
