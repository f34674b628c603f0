------------------------ MODULE HazelcastMembership ------------------------
(***************************************************************************)
(* Membership and master election of the Hazelcast backend                 *)
(* (HazelcastAutoCompute): what a process does with a heartbeat.           *)
(*                                                                         *)
(* Unlike the Redis backend, each process has a view of the group of its   *)
(* own (execAllLoacl) and its own mark that the group has changed          *)
(* (autoStatus).  The shared EXECMAP is overwritten with the view of       *)
(* whoever handles a heartbeat.  Each access to a shared map is a step.    *)
(*                                                                         *)
(* The assignment is reduced to the hosts that have tasks; how it is       *)
(* computed and written is HazelcastDistribution.                          *)
(***************************************************************************)
EXTENDS Integers, FiniteSets

CONSTANTS
    Node,         \* processes; a restarted one has a new identity
    None,         \* no entry, no master, no holder
    Port,         \* the port of each process
    FlakyProbe,   \* TRUE: the probe of a live process may fail
    MaxStarts,    \* bound: processes that start
    MaxCrashes    \* bound: processes that crash

ASSUME NodeAssumption == IsFiniteSet(Node)
ASSUME NoneAssumption == None \notin Node /\ \A group \in SUBSET Node : group # None

VARIABLES
    execmap,   \* EXECMAP: the hosts of its one entry, or None
    master,    \* MASTER: the value of its one entry, or None
    lock,      \* holder of the CP lock MASTER
    leaked,    \* its holder has left it locked
    hosts,     \* hosts that have tasks in USE
    late,      \* heartbeats of crashed processes still in flight
    pc,        \* where the handler thread of each process is
    own,       \* the heartbeat being handled is the process's own
    role,      \* whether it deals: as the master, as one who claims to be, not at all
    copy,      \* the entry of EXECMAP that is to be written
    view,      \* execAllLoacl
    stale,     \* hosts of the view that have timed out
    changed    \* autoStatus

shared == <<execmap, master, lock, leaked, hosts>>
locals == <<own, role, copy, view, stale, changed>>
vars == <<shared, late, pc, locals>>

Group == SUBSET Node
Stages == {"new", "idle", "putHost", "check", "dropMaster", "examine", "clear", "put",
           "sync", "claim", "join", "putJoined", "sleep", "clearDealt",
           "putDealt", "down"}

Live == {n \in Node : pc[n] \notin {"new", "down"}}
Down == {n \in Node : pc[n] = "down"}

Goto(n, stage) == pc' = [pc EXCEPT ![n] = stage]

Init ==
    /\ execmap = None /\ master = None /\ lock = None /\ leaked = FALSE
    /\ hosts = {}
    /\ late = {}
    /\ pc = [n \in Node |-> "new"]
    /\ own = [n \in Node |-> FALSE]
    /\ role = [n \in Node |-> "none"]
    /\ copy = [n \in Node |-> None]
    /\ view = [n \in Node |-> {}]
    /\ stale = [n \in Node |-> {}]
    /\ changed = [n \in Node |-> FALSE]

\* The handler is done with the heartbeat.
Return(n, stage) ==
    /\ Goto(n, stage)
    /\ own' = [own EXCEPT ![n] = FALSE]
    /\ role' = [role EXCEPT ![n] = "none"]
    /\ copy' = [copy EXCEPT ![n] = None]

-----------------------------------------------------------------------------
(* Processes, silence, applications                                        *)

Start(n) ==
    /\ pc[n] = "new"
    /\ Cardinality({m \in Node : pc[m] # "new"}) < MaxStarts
    /\ Goto(n, "idle")
    /\ UNCHANGED <<shared, late, locals>>

\* The maps are on a cluster of their own and outlive the process; heartbeats it has
\* sent may still be delivered.
Crash(n) ==
    /\ n \in Live
    /\ Cardinality(Down) < MaxCrashes
    /\ Return(n, "down")
    /\ view' = [view EXCEPT ![n] = {}]
    /\ stale' = [stale EXCEPT ![n] = {}]
    /\ changed' = [changed EXCEPT ![n] = FALSE]
    /\ \E receivers \in SUBSET (Live \ {n}) :
          late' = late \cup (receivers \X {n})
    /\ UNCHANGED shared

\* The CP session of a dead process expires and with it the lock.
SessionExpires ==
    /\ lock \in Down
    /\ lock' = None /\ leaked' = FALSE
    /\ UNCHANGED <<execmap, master, hosts, late, pc, locals>>

\* No heartbeat arrives anywhere for longer than the timeout.
Silence ==
    /\ Live # {} /\ \A n \in Live : pc[n] = "idle"
    /\ stale' = view
    /\ UNCHANGED <<shared, late, pc, own, role, copy, view, changed>>

-----------------------------------------------------------------------------
(* hostUpdate                                                              *)

\* Whether the sender is new decides the mark, also when it was set before.
Mut_ChangeOverwritten(n, s) ==
    /\ own' = [own EXCEPT ![n] = (s = n)]
    /\ Goto(n, IF execmap = None THEN "check" ELSE "putHost")
    /\ IF execmap = None
         THEN UNCHANGED <<view, stale, changed, copy>>
         ELSE /\ view' = [view EXCEPT ![n] = @ \cup {s}]
              /\ stale' = [stale EXCEPT ![n] = @ \ {s}]
              /\ changed' = [changed EXCEPT ![n] = s \notin view[n]]
              /\ copy' = [copy EXCEPT ![n] = {s} \cup view[n]]
    /\ UNCHANGED <<shared, role>>

\* Without an entry in EXECMAP nothing is updated.  Otherwise the sender s enters
\* the view, and the view the map; a process with an empty view takes over the hosts
\* of the map there, but not in its view.
HostUpdate(n, s) ==
    /\ own' = [own EXCEPT ![n] = (s = n)]
    /\ IF execmap = None
         THEN /\ Goto(n, "check")
              /\ UNCHANGED <<view, stale, changed, copy>>
         ELSE /\ Goto(n, "putHost")
              /\ view' = [view EXCEPT ![n] = @ \cup {s}]
              /\ stale' = [stale EXCEPT ![n] = @ \ {s}]
              /\ changed' = [changed EXCEPT ![n] = @ \/ s \notin view[n]]
              /\ copy' = [copy EXCEPT ![n] =
                             {s} \cup IF view[n] = {} THEN execmap ELSE view[n]]
    /\ UNCHANGED <<shared, role>>

\* A live process is heard at any time, ...
Heartbeat(n, s) ==
    /\ pc[n] = "idle"
    /\ s \in Live
    /\ HostUpdate(n, s)
    /\ UNCHANGED late

\* ... a crashed one as long as a datagram of its is in flight.
LateHeartbeat(n, s) ==
    /\ pc[n] = "idle"
    /\ <<n, s>> \in late
    /\ HostUpdate(n, s)
    /\ late' = late \ {<<n, s>>}

PutHost(n) ==
    /\ pc[n] = "putHost"
    /\ execmap' = copy[n]
    /\ copy' = [copy EXCEPT ![n] = None]
    /\ Goto(n, "check")
    /\ UNCHANGED <<master, lock, leaked, hosts, late, own, role, view, stale, changed>>

-----------------------------------------------------------------------------
(* checkHost                                                               *)

AfterCheck(n) ==
    IF own[n] THEN Goto(n, "sync") /\ UNCHANGED <<own, role, copy>> ELSE Return(n, "idle")

\* Without an entry, or with an empty view, there is nothing to check.
SkipCheck(n) ==
    /\ pc[n] = "check"
    /\ execmap = None \/ view[n] = {}
    /\ AfterCheck(n)
    /\ changed' = [changed EXCEPT ![n] = @ /\ execmap = None]
    /\ UNCHANGED <<shared, late, view, stale>>

\* MASTER is believed whatever the view.
Mut_TrustMaster(n) ==
    /\ pc[n] = "check"
    /\ execmap # None /\ view[n] # {}
    /\ Goto(n, "examine")
    /\ UNCHANGED <<shared, late, locals>>

\* A MASTER outside the process's own view is taken for dead.
ReadMaster(n) ==
    /\ pc[n] = "check"
    /\ execmap # None /\ view[n] # {}
    /\ Goto(n, IF master \in view[n] \cup {None} THEN "examine" ELSE "dropMaster")
    /\ UNCHANGED <<shared, late, locals>>

\* Dropping the master is no change.
Mut_DropQuietly(n) ==
    /\ pc[n] = "dropMaster"
    /\ master' = None
    /\ Goto(n, "examine")
    /\ UNCHANGED <<execmap, lock, leaked, hosts, late, locals>>

DropMaster(n) ==
    /\ pc[n] = "dropMaster"
    /\ master' = None
    /\ changed' = [changed EXCEPT ![n] = TRUE]
    /\ Goto(n, "examine")
    /\ UNCHANGED <<execmap, lock, leaked, hosts, late, own, role, copy, view, stale>>

\* Dead hosts whose port another process has taken: the answer is not theirs, so
\* that they are neither refreshed nor removed.
Misled(n) == {h \in stale[n] \cap Down : \E m \in Live : Port[m] = Port[h]}

\* The hosts for which no probe is answered: the dead, and others by bad luck.
Unanswered(n) ==
    LET dead == (stale[n] \cap Down) \ Misled(n)
    IN  {gone \in SUBSET (stale[n] \ Misled(n)) :
            dead \subseteq gone /\ (FlakyProbe \/ gone = dead)}

\* All hosts get the current time, but those that do not answer leave the view.
Examine(n) ==
    /\ pc[n] = "examine"
    /\ \E gone \in Unanswered(n) :
          /\ gone = {} \/ master = None
          /\ view' = [view EXCEPT ![n] = @ \ gone]
    /\ stale' = [stale EXCEPT ![n] = Misled(n)]
    /\ Goto(n, "clear")
    /\ UNCHANGED <<shared, late, own, role, copy, changed>>

\* While there is a master, remoteHost fails once it has removed a host: it looks
\* MASTER up with the map as the key.  The hosts behind that one are not
\* examined, EXECMAP is not written, and the handler ends.
ExamineFails(n) ==
    /\ pc[n] = "examine" /\ master # None
    /\ \E gone \in Unanswered(n) : \E h \in gone : \E rest \in SUBSET (stale[n] \ {h}) :
          /\ Misled(n) \cup (gone \ {h}) \subseteq rest
          /\ view' = [view EXCEPT ![n] = @ \ {h}]
          /\ stale' = [stale EXCEPT ![n] = rest]
    /\ Return(n, "idle")
    /\ UNCHANGED <<shared, late, changed>>

ClearExecmap(n) ==
    /\ pc[n] = "clear"
    /\ execmap' = None
    /\ Goto(n, "put")
    /\ UNCHANGED <<master, lock, leaked, hosts, late, locals>>

PutChecked(n) ==
    /\ pc[n] = "put"
    /\ execmap' = view[n]
    /\ AfterCheck(n)
    /\ UNCHANGED <<master, lock, leaked, hosts, late, view, stale, changed>>

-----------------------------------------------------------------------------
(* sycCompute                                                              *)

ReadMasterToSync(n) ==
    /\ pc[n] = "sync"
    /\ Goto(n, IF master = None THEN "claim" ELSE "join")
    /\ role' = [role EXCEPT ![n] = IF master = n THEN "master" ELSE "none"]
    /\ UNCHANGED <<shared, late, own, copy, view, stale, changed>>

\* A process without a master takes the lock and becomes it, whoever has become
\* master while it waited.
Claim(n) ==
    /\ pc[n] = "claim"
    /\ lock \in {None, n}
    /\ lock' = n /\ master' = n
    /\ role' = [role EXCEPT ![n] = "claimer"]
    /\ Goto(n, "join")
    /\ UNCHANGED <<execmap, leaked, hosts, late, own, copy, view, stale, changed>>

\* tryLock gives up after two seconds.
ClaimFails(n) ==
    /\ pc[n] = "claim"
    /\ lock \notin {None, n}
    /\ Return(n, "idle")
    /\ UNCHANGED <<shared, late, view, stale, changed>>

Entered(n) == IF execmap = None THEN FALSE ELSE n \in execmap

\* addextracted: who is not in EXECMAP enters it, and its own view.
Join(n) ==
    /\ pc[n] = "join"
    /\ ~Entered(n)
    /\ view' = [view EXCEPT ![n] = @ \cup {n}]
    /\ stale' = [stale EXCEPT ![n] = @ \ {n}]
    /\ changed' = [changed EXCEPT ![n] = TRUE]
    /\ copy' = [copy EXCEPT ![n] = {n} \cup IF execmap = None THEN view[n] ELSE execmap]
    /\ Goto(n, "putJoined")
    /\ UNCHANGED <<shared, late, own, role>>

AfterJoin(n) ==
    /\ copy' = [copy EXCEPT ![n] = None]
    /\ IF role[n] = "none" THEN Return(n, "idle")
                           ELSE Goto(n, "sleep") /\ UNCHANGED <<own, role>>

AlreadyIn(n) ==
    /\ pc[n] = "join"
    /\ Entered(n)
    /\ AfterJoin(n)
    /\ UNCHANGED <<shared, late, view, stale, changed>>

PutJoined(n) ==
    /\ pc[n] = "putJoined"
    /\ execmap' = copy[n]
    /\ AfterJoin(n)
    /\ UNCHANGED <<master, lock, leaked, hosts, late, view, stale, changed>>

\* The lock is left to its session.
Mut_NoUnlock(n) ==
    /\ Return(n, "idle")
    /\ UNCHANGED <<lock, master, leaked>>

\* Done: who has claimed gives the lock back, once.
Finish(n) ==
    /\ Return(n, "idle")
    /\ lock' = IF role[n] = "claimer" /\ ~leaked THEN None ELSE lock
    /\ UNCHANGED <<master, leaked>>

\* execDistrib after its second of sleep: without a group, or a view, it does
\* nothing.
WakeInVain(n) ==
    /\ pc[n] = "sleep"
    /\ execmap = None \/ view[n] = {}
    /\ Finish(n)
    /\ UNCHANGED <<execmap, hosts, late, view, stale, changed>>

\* Nor does it without a change and an application.
NothingToDeal(n) ==
    /\ pc[n] = "sleep"
    /\ execmap # None /\ ~changed[n]
    /\ Finish(n)
    /\ UNCHANGED <<execmap, hosts, late, view, stale, changed>>

\* Otherwise it deals all tasks, or (without a change) those applied for, to the
\* hosts of its view.  There may be applications at any time.
Assign(n) ==
    /\ pc[n] = "sleep" /\ view[n] # {}
    /\ hosts' = IF changed[n] THEN view[n] ELSE hosts \cup view[n]
    /\ changed' = [changed EXCEPT ![n] = FALSE]
    /\ UNCHANGED <<execmap, master, lock, late, view, stale>>

\* It is written back, whether it was there or not.
Mut_DealAnyway(n) ==
    /\ Assign(n)
    /\ Goto(n, "clearDealt")
    /\ copy' = [copy EXCEPT ![n] = execmap]
    /\ UNCHANGED <<leaked, own, role>>

\* EXECMAP is written back as it was before.
Deal(n) ==
    /\ Assign(n)
    /\ execmap # None
    /\ Goto(n, "clearDealt")
    /\ copy' = [copy EXCEPT ![n] = execmap]
    /\ UNCHANGED <<leaked, own, role>>

\* If somebody has cleared EXECMAP since it was found there (between clear and put
\* of a check), there is nothing to write back: the handler fails and leaves the
\* lock locked.
DealFails(n) ==
    /\ Assign(n)
    /\ execmap = None
    /\ Return(n, "idle")
    /\ leaked' = (leaked \/ role[n] = "claimer")

ClearDealt(n) ==
    /\ pc[n] = "clearDealt"
    /\ execmap' = None
    /\ Goto(n, "putDealt")
    /\ UNCHANGED <<master, lock, leaked, hosts, late, locals>>

PutDealt(n) ==
    /\ pc[n] = "putDealt"
    /\ execmap' = copy[n]
    /\ Finish(n)
    /\ UNCHANGED <<hosts, late, view, stale, changed>>

-----------------------------------------------------------------------------

CheckHost(n) ==
    \/ SkipCheck(n) \/ ReadMaster(n) \/ DropMaster(n) \/ Examine(n) \/ ExamineFails(n)
    \/ ClearExecmap(n) \/ PutChecked(n)

SycCompute(n) ==
    \/ ReadMasterToSync(n) \/ Claim(n) \/ ClaimFails(n)
    \/ Join(n) \/ AlreadyIn(n) \/ PutJoined(n)
    \/ WakeInVain(n) \/ NothingToDeal(n) \/ Deal(n) \/ DealFails(n)
    \/ ClearDealt(n) \/ PutDealt(n)

\* The steps that carry on a heartbeat already taken up.
Handle(n) == PutHost(n) \/ CheckHost(n) \/ SycCompute(n)

Next ==
    \/ SessionExpires \/ Silence
    \/ \E n \in Node : Start(n) \/ Crash(n) \/ Handle(n)
    \/ \E n, s \in Node : Heartbeat(n, s) \/ LateHeartbeat(n, s)

Spec == Init /\ [][Next]_vars

\* Fairness.  Handlers go on, sessions of dead processes expire (weak); some
\* process hears its own heartbeat again and again (Multicast!SomebodyHearsItself).
Fairness ==
    /\ WF_vars(SessionExpires)
    /\ \A n \in Node : WF_vars(Handle(n))
    /\ SF_vars(\E n \in Node : Heartbeat(n, n))

FairSpec == Spec /\ Fairness

-----------------------------------------------------------------------------
(* Properties                                                              *)

\* The type of every variable; who is about to write EXECMAP has something to write.
TypeOK ==
    /\ execmap = None \/ execmap \in Group
    /\ {master, lock} \subseteq Node \cup {None}
    /\ leaked \in BOOLEAN
    /\ hosts \subseteq Node /\ late \subseteq Node \X Node
    /\ pc \in [Node -> Stages]
    /\ own \in [Node -> BOOLEAN]
    /\ role \in [Node -> {"none", "master", "claimer"}]
    /\ DOMAIN copy = Node
    /\ \A n \in Node : IF pc[n] \in {"putHost", "putJoined", "clearDealt", "putDealt"}
                          THEN copy[n] # None /\ copy[n] \subseteq Node
                          ELSE copy[n] = None
    /\ view \in [Node -> Group]
    /\ stale \in [Node -> Group]
    /\ changed \in [Node -> BOOLEAN]

\* Who has claimed to be the master gives the lock back on every way out but two: a
\* crash, where the session ends with it, and the failure of execDistrib on an empty
\* EXECMAP, after which (and after all later claims) the lock stays locked.
LockOutlivesClaim ==
    [][\A n \in Node :
          role[n] = "claimer" /\ role'[n] # "claimer" /\ lock' = n =>
              leaked \/ DealFails(n) \/ pc'[n] = "down"]_vars

\* A process forgets that its group has changed only when it deals all tasks
\* anew, or when its view is empty, so that whoever comes next is a change.
NoChangeForgotten ==
    [][\A n \in Node : changed[n] /\ ~changed'[n] =>
          pc[n] = "sleep" \/ pc'[n] = "down" \/ view[n] = {}]_vars

\* A dead master that has timed out everywhere, with no heartbeat of its in flight,
\* is replaced.
TimedOutIn(d, m) == d \in view[m] => d \in stale[m]
MasterReplaced ==
    (/\ master \in Down
     /\ late = {}
     /\ \A m \in Live : pc[m] = "idle" /\ TimedOutIn(master, m))
    ~> master \notin Down \/ Live = {}

\* The last process left takes over the tasks of the dead master.
SurvivorTakesOver ==
    (/\ master \in Down
     /\ late = {}
     /\ Cardinality(Live) = 1
     /\ \A m \in Live, d \in Down : pc[m] = "idle" /\ TimedOutIn(d, m))
    ~> hosts \subseteq Live \/ Cardinality(Live) # 1

=============================================================================
