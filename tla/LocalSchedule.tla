--------------------------- MODULE LocalSchedule ---------------------------
(***************************************************************************)
(* The local side of one process: execSchedule follows what USE assigns to *)
(* the process with the futures it keeps in FUTURESJOBMAP                  *)
(* (ScheduleServiceImpl, with execScheduleExec and execComparison of       *)
(* ScheduleJobServiceImpl).                                                *)
(*                                                                         *)
(* The map is only touched by execSchedule, which the scheduling thread    *)
(* runs to its end, or to an exception it logs, before it runs it again:   *)
(* one run is one step.  Task bodies run on pool threads in between.       *)
(***************************************************************************)
EXTENDS Integers

CONSTANTS
    Task,    \* job ids, in the order the table lists them
    Crons,   \* the kinds of cron expression that occur in the table
    Absent   \* no cron: the job is not in the table, the key not in the map

ASSUME TaskAssumption == Task \subseteq Nat

\* Expressions that fire ("often" and "rarely" differ), one that is valid but
\* has no next time (30 February), one that Quartz takes and Spring's
\* CronTrigger rejects, one that Quartz rejects.
Kinds == {"often", "rarely", "never", "quartzOnly", "invalid"}
ASSUME CronsAssumption == Crons \subseteq Kinds /\ Absent \notin Kinds

Hosts == {"me", "other", "nobody"}

VARIABLES
    table,      \* the cron of each job in zy_sys_job
    host,       \* to whom USE gives each task
    cron,       \* FUTURESJOBMAP: the cron each key was scheduled with ...
    handle,     \* ... and its future: schedule() returns null if nothing fires
    active,     \* futures scheduled and not cancelled, of each task
    executing   \* tasks whose body runs

vars == <<table, host, cron, handle, active, executing>>

Init ==
    /\ table \in [Task -> Crons \cup {Absent}]
    /\ host = [t \in Task |-> "nobody"]
    /\ cron = [t \in Task |-> Absent]
    /\ handle = [t \in Task |-> "none"]
    /\ active = [t \in Task |-> 0]
    /\ executing = {}

-----------------------------------------------------------------------------
(* What a run of execSchedule looks at                                     *)

Keys == {t \in Task : cron[t] # Absent}

\* Keys whose future is null: removeTask and execComparison throw on them.
Null == {t \in Keys : handle[t] = "null"}

\* With something in use, keys in use nowhere are removed first.
Unused ==
    LET inUse == {t \in Task : host[t] # "nobody"}
    IN  IF inUse = {} THEN {} ELSE Keys \ inUse

\* execComparison: the process's own jobs with an expression valid for Quartz.
Listed == {t \in Task : host[t] = "me" /\ table[t] \notin {Absent, "invalid"}}

\* execComparison asks the future of an unchanged job whether it is done.
Compared == {t \in Listed \cap Keys : cron[t] = table[t]}

\* The jobs that get a trigger: new CronTrigger() throws on the first expression
\* Spring rejects, which ends the run.
Reached ==
    {t \in Listed : \A b \in Listed : b <= t => table[b] # "quartzOnly"}

\* removeTask forgets to cancel.
Mut_NotCancelled(removed, added) ==
    /\ cron' = [t \in Task |-> IF t \in added THEN table[t]
                               ELSE IF t \in removed THEN Absent ELSE cron[t]]
    /\ handle' = [t \in Task |-> IF t \in added
                                   THEN IF table[t] = "never" THEN "null" ELSE "future"
                                 ELSE IF t \in removed THEN "none" ELSE handle[t]]
    /\ active' = [t \in Task |->
                     active[t] + (IF t \in added /\ table[t] # "never" THEN 1 ELSE 0)]
    /\ executing' = executing \ removed

\* removeTask cancels twice.
Mut_CancelledTwice(removed, added) ==
    /\ cron' = [t \in Task |-> IF t \in added THEN table[t]
                               ELSE IF t \in removed THEN Absent ELSE cron[t]]
    /\ handle' = [t \in Task |-> IF t \in added
                                   THEN IF table[t] = "never" THEN "null" ELSE "future"
                                 ELSE IF t \in removed THEN "none" ELSE handle[t]]
    /\ active' = [t \in Task |-> active[t] - (IF t \in removed THEN 2 ELSE 0)
                     + (IF t \in added /\ table[t] # "never" THEN 1 ELSE 0)]
    /\ executing' = executing \ removed

\* removeTask of some keys (cancel(true) interrupts a body), then addTask of some
\* jobs.
Rescheduled(removed, added) ==
    /\ cron' = [t \in Task |-> IF t \in added THEN table[t]
                               ELSE IF t \in removed THEN Absent ELSE cron[t]]
    /\ handle' = [t \in Task |-> IF t \in added
                                   THEN IF table[t] = "never" THEN "null" ELSE "future"
                                 ELSE IF t \in removed THEN "none" ELSE handle[t]]
    /\ active' = [t \in Task |->
                     active[t] - (IF t \in removed THEN 1 ELSE 0)
                               + (IF t \in added /\ table[t] # "never" THEN 1 ELSE 0)]
    /\ executing' = executing \ removed

-----------------------------------------------------------------------------
(* execSchedule.  Keys are removed in any order, until one has a null      *)
(* future.                                                                 *)

\* A null future is removed like any other.
Mut_NullRemoved ==
    /\ Unused \cap Null # {}
    /\ Rescheduled(Unused, {})

\* The first removal meets a null future.
FailsAtUnused ==
    /\ Unused \cap Null # {}
    /\ \E removed \in SUBSET (Unused \ Null) : Rescheduled(removed, {})

\* The comparison meets a null future.
FailsAtComparison ==
    /\ Unused \cap Null = {}
    /\ Compared \cap Null # {}
    /\ Rescheduled(Unused, {})

\* The second removal meets a null future.  It compares job objects to keys, so
\* that it removes every key.
FailsAtRemoval ==
    /\ Unused \cap Null = {}
    /\ Compared \cap Null = {}
    /\ Null # {}
    /\ \E removed \in SUBSET (Keys \ Null) :
          Unused \subseteq removed /\ Rescheduled(removed, {})

\* The second removal removes nothing.
Mut_OthersStay ==
    /\ Null = {}
    /\ Rescheduled(Unused, Reached \ Keys)

Succeeds ==
    /\ Null = {}
    /\ Rescheduled(Keys, Reached)

ExecSchedule ==
    /\ FailsAtUnused \/ FailsAtComparison \/ FailsAtRemoval \/ Succeeds
    /\ UNCHANGED <<table, host>>

-----------------------------------------------------------------------------
(* The environment                                                         *)

\* Jobs are added, edited and deleted.
EditJob ==
    /\ \E t \in Task, c \in Crons \cup {Absent} : table' = [table EXCEPT ![t] = c]
    /\ UNCHANGED <<host, cron, handle, active, executing>>

\* USE is dealt anew.
Reassign ==
    /\ \E t \in Task, h \in Hosts : host' = [host EXCEPT ![t] = h]
    /\ UNCHANGED <<table, cron, handle, active, executing>>

\* A trigger fires; the next time is only computed when the body has ended.
Fire(t) ==
    /\ active[t] > 0
    /\ t \notin executing
    /\ executing' = executing \cup {t}
    /\ UNCHANGED <<table, host, cron, handle, active>>

Finish(t) ==
    /\ t \in executing
    /\ executing' = executing \ {t}
    /\ UNCHANGED <<table, host, cron, handle, active>>

Next ==
    \/ ExecSchedule \/ EditJob \/ Reassign
    \/ \E t \in Task : Fire(t) \/ Finish(t)

Spec == Init /\ [][Next]_vars

\* execSchedule runs every 15 seconds.
FairSpec == Spec /\ WF_vars(ExecSchedule)

-----------------------------------------------------------------------------
(* Properties                                                              *)

\* The type of every variable.
TypeOK ==
    /\ table \in [Task -> Crons \cup {Absent}]
    /\ host \in [Task -> Hosts]
    /\ cron \in [Task -> Crons \cup {Absent}]
    /\ handle \in [Task -> {"none", "future", "null"}]
    /\ active \in [Task -> Nat]
    /\ executing \subseteq Task

\* No future is ever out of the map's reach, where nothing could cancel it, and
\* no task has two: also when a run ends with an exception half way.
ScheduledOnce ==
    \A t \in Task : active[t] = IF handle[t] = "future" THEN 1 ELSE 0

\* The process comes to run what stays assigned to it and stops running what does
\* not, as long as no key has a null future and, for a job to run, no job listed
\* before it has an expression Spring rejects.
FollowsAssignment ==
    \A t \in Task :
        /\ <>[](Null = {} /\ t \in Reached /\ table[t] # "never") => []<>(active[t] = 1)
        /\ <>[](Null = {} /\ host[t] # "me") => <>[](active[t] = 0)

\* A null future is for good, and while there is one no task is ever started, edited
\* or reassigned ones included: whoever removes or compares it throws first.
PoisonIsForGood ==
    [][Null # {} => Null \subseteq Null' /\ \A t \in Task : active'[t] <= active[t]]_vars

\* Every run without a null future interrupts every body that runs, whether its job
\* has changed or not; a body runs only under a key.
EveryRunInterrupts ==
    [][ExecSchedule /\ Null = {} => executing' = {}]_vars

=============================================================================
