-------------------------- MODULE RedisMembership --------------------------
(***************************************************************************)
(* Group membership and master election of the Redis backend               *)
(* (stask-redis RedisAutoCompute, driven by stask-core UdpHandler).        *)
(*                                                                         *)
(* Every process keeps one thread that handles heartbeat datagrams.  A     *)
(* heartbeat makes its receiver run hostUpdate, checkHost and, when the    *)
(* heartbeat is its own, sycCompute.  The processes meet in two Redis      *)
(* values: the EXECER bucket (the group, with a status flag) and the       *)
(* MASTER bucket.  Each Redis command is one step; what a process has read *)
(* lives on in its working copy until the command that writes it back.     *)
(*                                                                         *)
(* A process is an identity (Identity.getUUID(), drawn afresh at every     *)
(* start): a restarted process is another element of Node.  Times are ages *)
(* in ticks, counted up to TimeOut + 1.                                    *)
(***************************************************************************)
EXTENDS Integers, FiniteSets

CONSTANTS
    Node,        \* identities; numbered in the order a HashMap iterates them
    PortOf,      \* the check port each process binds (ServerHttp binds port 0)
    TimeOut,     \* ticks an entry may go without an update (12 s in the code)
    FlakyProbe,  \* TRUE: the probe of a live host may fail
    SlowProbe,   \* TRUE: a probe may outlast the lease of the lock
    TimePasses,  \* FALSE: everything happens within one tick
    MaxLive,     \* bound: processes running at once
    MaxStarts,   \* bound: processes started over the whole run
    MaxCrashes,  \* bound: processes that crash over the whole run
    None         \* no process: an absent MASTER, a free lock

ASSUME NodeAssumption == Node \subseteq Nat /\ IsFiniteSet(Node)
ASSUME TimeOutAssumption == TimeOut \in Nat
ASSUME NoneAssumption == None \notin Node

VARIABLES
    execers,     \* bucket STASK:EXECER:V1
    master,      \* bucket STASK:MASTER:V1
    execLock,    \* holder of STASK:EXECER:LOCK_V1
    orphaned,    \* the holder left the lock behind: only its lease frees it
    late,        \* heartbeats of crashed processes still in flight
    pc,          \* where each process's handler thread is
    own,         \* the heartbeat being handled is the process's own
    copy,        \* execAll: the working copy of the EXECER bucket
    seenMaster,  \* mapMaster in checkHost, master in sycCompute
    todo,        \* hosts checkHost has not examined yet
    lapsed,      \* processes whose lease ran out in checkHost
    fresh        \* history: who has read or written EXECER after all other writes

shared == <<execers, master, execLock, orphaned>>
locals == <<own, copy, seenMaster, todo, lapsed>>
vars == <<execers, master, execLock, orphaned, late, pc, own, copy,
          seenMaster, todo, lapsed, fresh>>

-----------------------------------------------------------------------------
(* The EXECER bucket: the age of each registered host, and the flag.       *)

Absent == -1
Ages == Absent..(TimeOut + 1)
Execer == [age : [Node -> Ages], status : {"CHANGE", "NO_CHANGE"}]

\* A missing bucket and new Execer() behave alike: no host, NO_CHANGE.
EmptyExecer == [age |-> [h \in Node |-> Absent], status |-> "NO_CHANGE"]

Members(e) == {h \in Node : e.age[h] # Absent}

TimedOut(e, h) == e.age[h] > TimeOut

\* addHost, or setTime(now) on the entry that is there.
Refresh(e, h) == [e EXCEPT !.age[h] = 0]

Changed(e) == [e EXCEPT !.status = "CHANGE"]

\* hostUpdate refreshes who is there and forgets to add who is not.
Mut_RegisterKnownOnly(e, h) == IF h \in Members(e) THEN Refresh(e, h) ELSE e

Register(e, h) ==
    IF h \in Members(e) THEN Refresh(e, h) ELSE Changed(Refresh(e, h))

Evict(e, h) == Changed([e EXCEPT !.age[h] = Absent])

\* The cap on ages is lost.
Mut_OlderUncapped(a) == IF a = Absent THEN a ELSE a + 1

Older(a) == IF a = Absent \/ a > TimeOut THEN a ELSE a + 1

Aged(e) == [e EXCEPT !.age = [h \in Node |-> Older(e.age[h])]]

\* The host the loop over the map looks at next.
First(S) == CHOOSE h \in S : \A k \in S : h <= k

-----------------------------------------------------------------------------
Stages == {"new", "idle", "putHost", "readExecers", "readMaster", "dropMaster",
           "lockExecers", "scan", "dropAgain", "putEvicted", "putChecked",
           "sync", "claim", "join", "putJoined", "sleep", "putDealt", "down"}

\* The stages at which checkHost is between lock() and unlock().
Scanning == {"scan", "dropAgain", "putEvicted", "putChecked"}

Live == {n \in Node : pc[n] \notin {"new", "down"}}
Started == {n \in Node : pc[n] # "new"}
Crashed == {n \in Node : pc[n] = "down"}

Init ==
    /\ execers = EmptyExecer
    /\ master = None
    /\ execLock = None
    /\ orphaned = FALSE
    /\ late = {}
    /\ pc = [n \in Node |-> "new"]
    /\ own = [n \in Node |-> FALSE]
    /\ copy = [n \in Node |-> EmptyExecer]
    /\ seenMaster = [n \in Node |-> None]
    /\ todo = [n \in Node |-> {}]
    /\ lapsed = {}
    /\ fresh = {}

Goto(n, stage) == pc' = [pc EXCEPT ![n] = stage]

\* The handler returns, or an exception ends it: its local variables are gone.
Return(n, stage) ==
    /\ Goto(n, stage)
    /\ own' = [own EXCEPT ![n] = FALSE]
    /\ copy' = [copy EXCEPT ![n] = EmptyExecer]
    /\ seenMaster' = [seenMaster EXCEPT ![n] = None]
    /\ todo' = [todo EXCEPT ![n] = {}]
    /\ lapsed' = lapsed \ {n}

\* The history of the bucket: a read takes in all writes so far, a write makes
\* what all others have read old.
ReadsExecers(n) == fresh' = fresh \cup {n}
WritesExecers(n) == fresh' = {n}

\* lock() does not wait for another holder.
Mut_LockIgnored(n) == TRUE

\* Redisson's lock is reentrant: its holder passes, others wait.
MayLock(n) == execLock \in {None, n}

\* lock, one SET, unlock: one step once the lock can be taken.  A lock the
\* process itself left behind is still held afterwards (the count is not 0).
PutLocked(n, e) ==
    /\ MayLock(n)
    /\ execers' = e
    /\ WritesExecers(n)
    /\ UNCHANGED <<execLock, orphaned>>

-----------------------------------------------------------------------------
(* The environment: processes start and crash, time passes, leases expire. *)

\* A fresh identity appears; a port is bound by one live process at a time.
Start(n) ==
    /\ pc[n] = "new"
    /\ Cardinality(Live) < MaxLive
    /\ Cardinality(Started) < MaxStarts
    /\ \A m \in Live : PortOf[m] # PortOf[n]
    /\ Goto(n, "idle")
    /\ UNCHANGED <<shared, locals, late, fresh>>

\* What the process holds in Redis stays, and heartbeats it has sent may still
\* be delivered.
Crash(n) ==
    /\ n \in Live
    /\ Cardinality(Crashed) < MaxCrashes
    /\ Return(n, "down")
    /\ orphaned' = (orphaned \/ execLock = n)
    /\ \E receivers \in SUBSET (Live \ {n}) :
          late' = late \cup (receivers \X {n})
    /\ fresh' = fresh \ {n}
    /\ UNCHANGED <<execers, master, execLock>>

\* One unit of time: every recorded update, in Redis or in a working copy,
\* grows older.
Tick ==
    /\ TimePasses
    /\ execers' = Aged(execers)
    /\ copy' = [n \in Node |-> Aged(copy[n])]
    /\ UNCHANGED <<master, execLock, orphaned, late, fresh, pc, own, seenMaster, todo, lapsed>>

\* The lock is taken without a lease.
Mut_NoLease == FALSE

\* The lease of a lock nobody will release runs out.  While its holder is in
\* a new checkHost, the lock() there has renewed the lease.
LeaseExpires ==
    /\ orphaned
    /\ execLock \in Node => pc[execLock] \notin Scanning
    /\ execLock' = None
    /\ orphaned' = FALSE
    /\ UNCHANGED <<execers, master, late, fresh, pc, locals>>

-----------------------------------------------------------------------------
(* UdpHandler.channelRead0, case HEARTBEAT: hostUpdate of the sender.      *)

ReadForUpdate(n, s) ==
    /\ copy' = [copy EXCEPT ![n] = Register(execers, s)]
    /\ ReadsExecers(n)
    /\ own' = [own EXCEPT ![n] = (s = n)]
    /\ Goto(n, "putHost")
    /\ UNCHANGED <<shared, seenMaster, todo, lapsed>>

\* A live process is heard at any time (its datagrams may also be lost: then
\* the step is not taken), ...
Heartbeat(n, s) ==
    /\ pc[n] = "idle"
    /\ s \in Live
    /\ ReadForUpdate(n, s)
    /\ UNCHANGED late

\* ... a crashed one as long as a datagram of its is in flight.
LateHeartbeat(n, s) ==
    /\ pc[n] = "idle"
    /\ <<n, s>> \in late
    /\ ReadForUpdate(n, s)
    /\ late' = late \ {<<n, s>>}

PutHost(n) ==
    /\ pc[n] = "putHost"
    /\ PutLocked(n, copy[n])
    /\ Goto(n, "readExecers")
    /\ UNCHANGED <<master, late, locals>>

-----------------------------------------------------------------------------
(* checkHost                                                               *)

ReadExecers(n) ==
    /\ pc[n] = "readExecers"
    /\ copy' = [copy EXCEPT ![n] = execers]
    /\ ReadsExecers(n)
    /\ Goto(n, "readMaster")
    /\ UNCHANGED <<shared, late, own, seenMaster, todo, lapsed>>

\* After checkHost, only the sender of the heartbeat goes on to sycCompute.
ReturnFromCheck(n) ==
    IF own[n] THEN /\ Goto(n, "sync")
                   /\ UNCHANGED locals
              ELSE Return(n, "idle")

\* A MASTER outside the group is left alone.
Mut_TrustMaster(n) ==
    /\ pc[n] = "readMaster"
    /\ IF Members(copy[n]) = {}
         THEN ReturnFromCheck(n)
         ELSE /\ seenMaster' = [seenMaster EXCEPT ![n] = master]
              /\ Goto(n, "lockExecers")
              /\ UNCHANGED <<own, copy, todo, lapsed>>
    /\ UNCHANGED <<shared, late, fresh>>

ReadMaster(n) ==
    /\ pc[n] = "readMaster"
    /\ IF Members(copy[n]) = {}
         THEN ReturnFromCheck(n)
         ELSE /\ seenMaster' = [seenMaster EXCEPT ![n] = master]
              /\ Goto(n, IF master \in {None} \cup Members(copy[n])
                           THEN "lockExecers" ELSE "dropMaster")
              /\ UNCHANGED <<own, copy, todo, lapsed>>
    /\ UNCHANGED <<shared, late, fresh>>

\* The master read is not in the group read: MASTER is deleted, whoever it
\* names by now.
DropMaster(n) ==
    /\ pc[n] = "dropMaster"
    /\ master' = None
    /\ Goto(n, "lockExecers")
    /\ UNCHANGED <<execers, execLock, orphaned, late, fresh, locals>>

LockExecers(n) ==
    /\ pc[n] = "lockExecers"
    /\ MayLock(n)
    /\ execLock' = n
    /\ todo' = [todo EXCEPT ![n] = Members(copy[n])]
    /\ Goto(n, "scan")
    /\ UNCHANGED <<execers, master, orphaned, late, fresh, own, copy, seenMaster, lapsed>>

\* Moves on to the next host, or to the end of the loop.
Examined(n, h) ==
    /\ todo' = [todo EXCEPT ![n] = @ \ {h}]
    /\ Goto(n, IF todo[n] = {h} THEN "putChecked" ELSE "scan")

\* What the check port of h answers: h itself, another process that has the
\* port by now, or nobody.
Answers(h) ==
    LET here == {m \in Live : PortOf[m] = PortOf[h]}
    IN  IF here = {} THEN {None}
        ELSE here \cup (IF FlakyProbe THEN {None} ELSE {})

\* Every host is taken for alive.
Mut_KeepAll(n, h) ==
    /\ copy' = [copy EXCEPT ![n] = Refresh(@, h)]
    /\ Examined(n, h)
    /\ UNCHANGED <<shared, seenMaster, lapsed>>

\* A host that has not timed out gets the current time, heard or not.
Keep(n, h) ==
    /\ ~TimedOut(copy[n], h)
    /\ copy' = [copy EXCEPT ![n] = Refresh(@, h)]
    /\ Examined(n, h)
    /\ UNCHANGED <<shared, seenMaster, lapsed>>

\* The probe may outlast the lease (3 s read timeout, 2 s lease).
ProbeTakesLease(n) ==
    \/ UNCHANGED <<execLock, orphaned, lapsed>>
    \/ /\ SlowProbe
       /\ execLock = n
       /\ execLock' = None
       /\ orphaned' = FALSE
       /\ lapsed' = lapsed \cup {n}

ProbeAnswered(n, h) ==
    /\ TimedOut(copy[n], h)
    /\ \E a \in Answers(h) \ {None} :
          copy' = IF a = h THEN [copy EXCEPT ![n] = Refresh(@, h)] ELSE copy
    /\ ProbeTakesLease(n)
    /\ Examined(n, h)
    /\ UNCHANGED <<execers, master, seenMaster>>

\* Every host is probed, timed out or not.
Mut_ProbeAll(n, h) ==
    /\ None \in Answers(h)
    /\ copy' = [copy EXCEPT ![n] = Evict(@, h)]
    /\ master' = IF seenMaster[n] = h THEN None ELSE master
    /\ ProbeTakesLease(n)
    /\ todo' = [todo EXCEPT ![n] = @ \ {h}]
    /\ Goto(n, IF seenMaster[n] = h /\ todo[n] # {h} THEN "dropAgain" ELSE "putEvicted")
    /\ UNCHANGED <<execers, seenMaster>>

\* remoteHost: a dead master is deleted, the host leaves the map.  Unless it
\* was the last entry, the map's iterator then throws and the catch block runs
\* remoteHost once more.
ProbeFailed(n, h) ==
    /\ TimedOut(copy[n], h)
    /\ None \in Answers(h)
    /\ copy' = [copy EXCEPT ![n] = Evict(@, h)]
    /\ master' = IF seenMaster[n] = h THEN None ELSE master
    /\ ProbeTakesLease(n)
    /\ todo' = [todo EXCEPT ![n] = @ \ {h}]
    /\ Goto(n, IF seenMaster[n] = h /\ todo[n] # {h} THEN "dropAgain" ELSE "putEvicted")
    /\ UNCHANGED <<execers, seenMaster>>

Scan(n) ==
    /\ pc[n] = "scan"
    /\ LET h == First(todo[n])
       IN  Keep(n, h) \/ ProbeAnswered(n, h) \/ ProbeFailed(n, h)
    /\ UNCHANGED <<late, fresh, own>>

DropAgain(n) ==
    /\ pc[n] = "dropAgain"
    /\ master' = None
    /\ Goto(n, "putEvicted")
    /\ UNCHANGED <<execers, execLock, orphaned, late, fresh, locals>>

\* remoteHost writes the map.  With hosts left to examine, the loop of
\* checkHost then throws too: the handler ends, the lock stays taken.
PutEvicted(n) ==
    /\ pc[n] = "putEvicted"
    /\ MayLock(n)
    /\ execers' = copy[n]
    /\ WritesExecers(n)
    /\ IF todo[n] = {}
         THEN /\ Goto(n, "putChecked")
              /\ UNCHANGED <<orphaned, locals>>
         ELSE /\ Return(n, "idle")
              /\ orphaned' = (orphaned \/ execLock = n)
    /\ UNCHANGED <<master, execLock, late>>

\* unlock() is forgotten.
Mut_NoUnlock(n) ==
    /\ pc[n] = "putChecked"
    /\ execers' = copy[n]
    /\ WritesExecers(n)
    /\ ReturnFromCheck(n)
    /\ UNCHANGED <<execLock, master, orphaned, late>>

\* The checked map is written; unlock() throws if the lease has run out, and
\* the handler ends before sycCompute.
PutChecked(n) ==
    /\ pc[n] = "putChecked"
    /\ execers' = copy[n]
    /\ WritesExecers(n)
    /\ IF execLock = n THEN ReturnFromCheck(n) ELSE Return(n, "idle")
    /\ execLock' = IF execLock = n /\ ~orphaned THEN None ELSE execLock
    /\ UNCHANGED <<master, orphaned, late>>

-----------------------------------------------------------------------------
(* sycCompute, addextracted, execDistrib                                   *)

\* A master confirms itself, a group without a master gets this one, and
\* other processes only see to their own registration.
ReadMasterToSync(n) ==
    /\ pc[n] = "sync"
    /\ seenMaster' = [seenMaster EXCEPT ![n] = master]
    /\ Goto(n, IF master \in {None, n} THEN "claim" ELSE "join")
    /\ UNCHANGED <<shared, late, fresh, own, copy, todo, lapsed>>

Claim(n) ==
    /\ pc[n] = "claim"
    /\ master' = n
    /\ seenMaster' = [seenMaster EXCEPT ![n] = n]
    /\ Goto(n, "join")
    /\ UNCHANGED <<execers, execLock, orphaned, late, fresh, own, copy, todo, lapsed>>

\* The master goes on to execDistrib, which sleeps for a second first.
AfterJoin(n, e) ==
    IF seenMaster[n] = n
      THEN /\ Goto(n, "sleep")
           /\ copy' = [copy EXCEPT ![n] = e]
           /\ UNCHANGED <<own, seenMaster, todo, lapsed>>
      ELSE Return(n, "idle")

\* addextracted takes the group as it finds it.
Mut_JoinNobody(n) ==
    /\ pc[n] = "join"
    /\ AfterJoin(n, execers)
    /\ ReadsExecers(n)
    /\ UNCHANGED <<shared, late>>

Join(n) ==
    /\ pc[n] = "join"
    /\ ReadsExecers(n)
    /\ IF n \in Members(execers)
         THEN AfterJoin(n, execers)
         ELSE /\ copy' = [copy EXCEPT ![n] = Register(execers, n)]
              /\ Goto(n, "putJoined")
              /\ UNCHANGED <<own, seenMaster, todo, lapsed>>
    /\ UNCHANGED <<shared, late>>

PutJoined(n) ==
    /\ pc[n] = "putJoined"
    /\ PutLocked(n, copy[n])
    /\ AfterJoin(n, copy[n])
    /\ UNCHANGED <<master, late>>

\* After the sleep: a working copy that says CHANGE, or a pending application
\* (either may be the case here), makes adjustDistrib deal the tasks to the
\* group it reads now.
Deal(n) ==
    /\ pc[n] = "sleep"
    /\ Goto(n, "putDealt")
    /\ UNCHANGED <<shared, late, fresh, locals>>

NothingToDeal(n) ==
    /\ pc[n] = "sleep"
    /\ copy[n].status = "NO_CHANGE"
    /\ Return(n, "idle")
    /\ UNCHANGED <<shared, late, fresh>>

\* execDistrib writes its copy from before the sleep back, as NO_CHANGE.
PutDealt(n) ==
    /\ pc[n] = "putDealt"
    /\ PutLocked(n, [copy[n] EXCEPT !.status = "NO_CHANGE"])
    /\ Return(n, "idle")
    /\ UNCHANGED <<master, late>>

-----------------------------------------------------------------------------

CheckHost(n) ==
    \/ ReadExecers(n) \/ ReadMaster(n) \/ DropMaster(n) \/ LockExecers(n)
    \/ Scan(n) \/ DropAgain(n) \/ PutEvicted(n) \/ PutChecked(n)

SycCompute(n) ==
    \/ ReadMasterToSync(n) \/ Claim(n) \/ Join(n) \/ PutJoined(n)
    \/ Deal(n) \/ NothingToDeal(n) \/ PutDealt(n)

\* The steps that carry on a heartbeat already taken up.
Handle(n) == PutHost(n) \/ CheckHost(n) \/ SycCompute(n)

Environment ==
    \/ Tick
    \/ LeaseExpires
    \/ \E n \in Node : Start(n) \/ Crash(n)

Next ==
    \/ Environment
    \/ \E n, s \in Node : Heartbeat(n, s) \/ LateHeartbeat(n, s)
    \/ \E n \in Node : Handle(n)

Spec == Init /\ [][Next]_vars

\* Fairness.  A handler thread that can go on does (weak).  Waiting for the
\* lock is strong: after every heartbeat the group is quiet for idleTime
\* seconds, far longer than any lease, so a waiter finds the lock free.  Some
\* process hears its own heartbeat again and again, not necessarily each of them
\* (Multicast!SomebodyHearsItself).  Abandoned leases expire (Redis TTL), time passes.
Fairness ==
    /\ WF_vars(LeaseExpires)
    /\ WF_vars(Tick)
    /\ SF_vars(\E n \in Node : Heartbeat(n, n))
    /\ \A n \in Node : SF_vars(Handle(n))

FairSpec == Spec /\ Fairness

-----------------------------------------------------------------------------
(* Properties                                                              *)

\* The type of every variable.
TypeOK ==
    /\ execers \in Execer
    /\ master \in Node \cup {None}
    /\ execLock \in Node \cup {None}
    /\ orphaned \in BOOLEAN
    /\ late \subseteq Node \X Node
    /\ pc \in [Node -> Stages]
    /\ own \in [Node -> BOOLEAN]
    /\ copy \in [Node -> Execer]
    /\ seenMaster \in [Node -> Node \cup {None}]
    /\ todo \in [Node -> SUBSET Node]
    /\ lapsed \subseteq Node
    /\ fresh \subseteq Node

\* At most one process at a time is between lock() and unlock() of checkHost
\* with its lease running, in spite of crashes inside it, of aborted checks that
\* leave the lock behind, of leases that run out and of re-entrance.
CheckExclusive ==
    \A m, n \in Node \ lapsed :
        pc[m] \in Scanning /\ pc[n] \in Scanning => m = n

\* EXECER:LOCK is never leaked: whoever holds it is inside checkHost and will
\* release it, or the lock is orphaned and its lease will.
LockAccounted ==
    /\ orphaned => execLock # None
    /\ execLock # None /\ ~orphaned => pc[execLock] \in Scanning

\* The strengthening that makes both inductive: a check whose lease runs
\* still has the lock.
CheckHoldsLock ==
    \A n \in Node \ lapsed : pc[n] \in Scanning => execLock = n

LockInv == LockAccounted /\ CheckHoldsLock

\* A process that writes its copy back after joining or after dealing has itself
\* in that copy: the stale write of addextracted and execDistrib never drops the
\* writer.
MasterInOwnCopy ==
    \A n \in Node : pc[n] \in {"putJoined", "sleep", "putDealt"} => n \in Members(copy[n])

\* Handling a heartbeat always ends: a process that waits for EXECER:LOCK,
\* even behind a crashed holder or an aborted check, gets on.
HandlingEnds ==
    \A n \in Node : pc[n] \notin {"new", "idle", "down"} ~> pc[n] \in {"idle", "down"}

\* A running process whose own heartbeats reach it is registered time and again,
\* whatever other processes overwrite meanwhile with the copies they read before
\* it joined.
JoinHeals ==
    \A n \in Node :
       []<>(n \in Live => own[n]) => []<>(n \in Live => n \in Members(execers))

\* Once the dead have left the group, MASTER names a running process time and
\* again, whoever claims it, drops it or reads it meanwhile.
MasterElected ==
    <>[](Crashed \cap Members(execers) = {}) => []<>(Live # {} => master \in Live)

\* A host leaves the EXECER bucket when its entry has timed out, or is lost in a
\* write that overtakes another one: what is written back had been read before
\* the last write of somebody else.
LostByOvertaking ==
    [][\A h \in Members(execers) :
          \/ TimedOut(execers, h)
          \/ h \in Members(execers')
          \/ \E n \in Node \ fresh : pc'[n] # pc[n]]_vars

\* A host that timed out while the whole group was silent, that nobody answers
\* for and that has no heartbeat in flight, is removed by the checks to come,
\* although each check ends at its first removal.
SilenceEvicts ==
    \A d \in Node :
        /\ pc[d] = "down"
        /\ \A m \in Live : pc[m] = "idle" /\ PortOf[m] # PortOf[d]
        /\ \A m \in Node : <<m, d>> \notin late
        /\ d \in Members(execers) /\ TimedOut(execers, d)
        ~> \/ d \notin Members(execers)
           \/ Live = {}
           \/ \E m \in Live : PortOf[m] = PortOf[d]

\* README-EN.md: "If there is no update for 18 seconds (3 times), it is
\* considered dead, and the task processing group is removed."
DeadHostRemoved ==
    \A n \in Node : pc[n] = "down" ~> n \notin Members(execers) \/ Live = {}

=============================================================================
