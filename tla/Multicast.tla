----------------------------- MODULE Multicast -----------------------------
(***************************************************************************)
(* The multicast channel of a process (stask-core UdpMulticast,            *)
(* UdpIdleStateHandler, UdpHandler): the timer that sends heartbeats, the  *)
(* datagrams, the one thread that handles them, and the UDP probe that     *)
(* this thread runs inside checkHost (RedisAutoCompute,                    *)
(* HazelcastAutoCompute).                                                  *)
(*                                                                         *)
(* The idle handler and UdpHandler have event loops of their own: a        *)
(* datagram resets the timer as soon as it is read, and waits in a queue   *)
(* until UdpHandler is done with those before it.  A copy that is not lost *)
(* is read at once; the queue makes it late.                               *)
(*                                                                         *)
(* What RedisMembership takes apart is one step here: a heartbeat enters   *)
(* its sender in the group and may make checkHost probe a host of it.      *)
(*                                                                         *)
(* This is the channel with one socket and so one event loop (NIO).  The   *)
(* Epoll variant binds a socket with a loop of its own for each core and   *)
(* is not modelled: there another handler may read while one waits.        *)
(***************************************************************************)
EXTENDS Integers, Sequences, FiniteSets

CONSTANTS
    Node,        \* processes; numbered in the order a HashMap iterates them
    IdleTime,    \* ticks without a datagram after which a heartbeat is sent
    UdpCheck,    \* TRUE: check type UDP; FALSE: HTTP, probes send no datagrams
    MaxTime,     \* ticks without a group before the channel is restarted (MAXTIME
                 \* runs of execSchedule, 75 s where IdleTime is 6 s)
    MaxCrashes,  \* bound: processes that crash
    MaxInbox,    \* bound: datagrams waiting for a handler
    None         \* no probe

ASSUME NodeAssumption == Node \subseteq Nat /\ IsFiniteSet(Node)
ASSUME IdleTimeAssumption == IdleTime \in Nat \ {0}
ASSUME MaxTimeAssumption == MaxTime \in Nat /\ MaxTime >= IdleTime
ASSUME NoneAssumption == None \notin Node

VARIABLES
    live,      \* processes that have not crashed
    open,      \* processes whose channel is open
    timer,     \* ticks since the channel has read a datagram or sent a heartbeat
    inbox,     \* the queue of UdpHandler's event loop
    probing,   \* the host whose answer UdpHandler waits for
    waited,    \* its future.get has waited for a second
    own,       \* the heartbeat that made it probe is the process's own
    copy,      \* execAll: the hosts checkHost goes through
    sendRMap,  \* type of the entry for each host in UdpMulticastServiceImpl
    group,     \* the hosts in EXECER
    exists,    \* the EXECER bucket has been written
    runs       \* execSchedule's counter, in ticks, as long as it matters

probe == <<probing, waited, own, copy>>
vars == <<live, open, timer, inbox, probe, sendRMap, group, exists, runs>>

Datagram == [type : {"HEARTBEAT", "APPLRECEIVE", "RECEIVE"}, uuid : Node]
Types == {"absent", "APPLRECEIVE", "RECEIVE"}

Init ==
    /\ live = Node
    /\ open = Node
    /\ timer \in [Node -> 0..IdleTime]
    /\ inbox = [n \in Node |-> <<>>]
    /\ probing = [n \in Node |-> None]
    /\ waited = [n \in Node |-> FALSE]
    /\ own = [n \in Node |-> FALSE]
    /\ copy = [n \in Node |-> {}]
    /\ sendRMap = [n \in Node |-> [h \in Node |-> "absent"]]
    /\ group = {}
    /\ exists = FALSE
    /\ runs = [n \in Node |-> 0]

\* UdpMulticast.send: the open channels in R read a copy, the sender's own perhaps
\* too; all others lose theirs.  Reading resets the idle timer, whoever sent it.
Receivers(queues) == SUBSET {m \in open : Len(queues[m]) < MaxInbox}
Queued(queues, d, R) == [m \in Node |-> IF m \in R THEN Append(queues[m], d) ELSE queues[m]]
Read(timers, R) == [m \in Node |-> IF m \in R THEN 0 ELSE timers[m]]

-----------------------------------------------------------------------------
(* Time, the idle timer and execSchedule's counter                         *)

\* Where the queue is at its bound, the timer waits for the handler.
Expired(n) == n \in open /\ timer[n] = IdleTime /\ Len(inbox[n]) < MaxInbox

\* The timer is not served in time.
Mut_TickOn ==
    /\ timer' = [n \in Node |-> IF n \in open THEN timer[n] + 1 ELSE timer[n]]
    /\ waited' = [n \in Node |-> probing[n] # None]
    /\ UNCHANGED <<live, open, inbox, probing, own, copy, sendRMap, group, exists, runs>>

Tick ==
    /\ \A n \in Node : ~Expired(n)
    /\ timer' = [n \in Node |-> IF n \in open /\ timer[n] < IdleTime THEN timer[n] + 1 ELSE timer[n]]
    /\ waited' = [n \in Node |-> probing[n] # None]
    /\ runs' = [n \in Node |->
                   IF n \in live /\ ~exists /\ runs[n] <= MaxTime THEN runs[n] + 1 ELSE runs[n]]
    /\ UNCHANGED <<live, open, inbox, probing, own, copy, sendRMap, group, exists>>

Heartbeat(n) == [type |-> "HEARTBEAT", uuid |-> n]

\* Nothing has been read for IdleTime: newIdleStateEvent sends a heartbeat.
Expire(n, R) ==
    /\ Expired(n)
    /\ inbox' = Queued(inbox, Heartbeat(n), R)
    /\ timer' = Read([timer EXCEPT ![n] = 0], R)
    /\ UNCHANGED <<live, open, probe, sendRMap, group, exists, runs>>

\* checkHost has gone, and what it knew.
ProbeOver(n) ==
    /\ probing' = [probing EXCEPT ![n] = None]
    /\ waited' = [waited EXCEPT ![n] = FALSE]
    /\ own' = [own EXCEPT ![n] = FALSE]
    /\ copy' = [copy EXCEPT ![n] = {}]

Crash(n) ==
    /\ n \in live
    /\ Cardinality(Node \ live) < MaxCrashes
    /\ live' = live \ {n}
    /\ open' = open \ {n}
    /\ timer' = [timer EXCEPT ![n] = 0]
    /\ inbox' = [inbox EXCEPT ![n] = <<>>]
    /\ ProbeOver(n)
    /\ sendRMap' = [sendRMap EXCEPT ![n] = [h \in Node |-> "absent"]]
    /\ UNCHANGED <<group, exists, runs>>

-----------------------------------------------------------------------------
(* UdpHandler.channelRead0                                                 *)

\* The handler is free and this is the next datagram.
IsNext(n, type) ==
    /\ probing[n] = None
    /\ inbox[n] # <<>>
    /\ Head(inbox[n]).type = type

Consumed(n) == [inbox EXCEPT ![n] = Tail(@)]

\* hostUpdate enters the sender; checkHost finds no host that has timed out, and
\* sycCompute no process to enter.  From now on there is a group, and the counters
\* of execSchedule do not matter.
HandleHeartbeat(n) ==
    /\ IsNext(n, "HEARTBEAT")
    /\ inbox' = Consumed(n)
    /\ group' = group \cup {Head(inbox[n]).uuid}
    /\ exists' = TRUE
    /\ runs' = [m \in Node |-> 0]
    /\ UNCHANGED <<live, open, timer, probe, sendRMap>>

\* checkHost finds one, perhaps the process itself, and asks it for a sign of
\* life.
StartProbe(n) ==
    /\ UdpCheck
    /\ IsNext(n, "HEARTBEAT")
    /\ group' = group \cup {Head(inbox[n]).uuid}
    /\ exists' = TRUE
    /\ runs' = [m \in Node |-> 0]
    /\ \E h \in group', R \in Receivers(Consumed(n)) :
          /\ probing' = [probing EXCEPT ![n] = h]
          /\ sendRMap' = [sendRMap EXCEPT ![n][h] = "APPLRECEIVE"]
          /\ inbox' = Queued(Consumed(n), [type |-> "APPLRECEIVE", uuid |-> h], R)
          /\ timer' = Read(timer, R)
    /\ waited' = [waited EXCEPT ![n] = FALSE]
    /\ own' = [own EXCEPT ![n] = (Head(inbox[n]).uuid = n)]
    /\ copy' = [copy EXCEPT ![n] = group']
    /\ UNCHANGED <<live, open>>

Answered(n) == sendRMap[n][probing[n]] = "RECEIVE"

\* What checkHost has found is written, and after a heartbeat of its own the process
\* runs sycCompute, where addextracted enters it if it is missing.
Checked(n, hosts) == group' = IF own[n] THEN hosts \cup {n} ELSE hosts

\* The handler waits without a limit.
Mut_WaitForAnswer(n) ==
    /\ probing[n] # None
    /\ Answered(n)
    /\ Checked(n, copy[n])
    /\ ProbeOver(n)
    /\ UNCHANGED <<live, open, timer, inbox, sendRMap, exists, runs>>

\* future.get returns when the answer is there: the host stays, ...
ProbeAnswered(n) ==
    /\ Answered(n)
    /\ Checked(n, copy[n])

\* ... and throws after a second.  Then remoteHost removes the host from the map
\* it iterates: of the last entry of the map checkHost gets rid, after any other
\* one the iteration throws, the handler ends, and EXECER is as it was.
ProbeTimedOut(n) ==
    /\ ~Answered(n) /\ waited[n]
    /\ IF \A h \in copy[n] : h <= probing[n]
         THEN Checked(n, copy[n] \ {probing[n]})
         ELSE UNCHANGED group

EndProbe(n) ==
    /\ probing[n] # None
    /\ ProbeAnswered(n) \/ ProbeTimedOut(n)
    /\ ProbeOver(n)
    /\ UNCHANGED <<live, open, timer, inbox, sendRMap, exists, runs>>

\* Who is asked, answers.
HandleApplReceive(n) ==
    /\ IsNext(n, "APPLRECEIVE")
    /\ IF Head(inbox[n]).uuid = n
          THEN \E R \in Receivers(Consumed(n)) :
                  /\ inbox' = Queued(Consumed(n), [type |-> "RECEIVE", uuid |-> n], R)
                  /\ timer' = Read(timer, R)
          ELSE inbox' = Consumed(n) /\ timer' = timer
    /\ UNCHANGED <<live, open, probe, sendRMap, group, exists, runs>>

\* Answers are handled by a thread of their own.
Mut_ReceiveAtOnce(n) ==
    /\ inbox[n] # <<>>
    /\ Head(inbox[n]).type = "RECEIVE"
    /\ inbox' = Consumed(n)
    /\ sendRMap' = [sendRMap EXCEPT ![n][Head(inbox[n]).uuid] =
                       IF @ = "absent" THEN @ ELSE "RECEIVE"]
    /\ UNCHANGED <<live, open, timer, probe, group, exists, runs>>

HandleReceive(n) ==
    /\ IsNext(n, "RECEIVE")
    /\ inbox' = Consumed(n)
    /\ sendRMap' = [sendRMap EXCEPT ![n][Head(inbox[n]).uuid] =
                       IF @ = "absent" THEN @ ELSE "RECEIVE"]
    /\ UNCHANGED <<live, open, timer, probe, group, exists, runs>>

Handle(n) ==
    \/ HandleHeartbeat(n) \/ StartProbe(n) \/ EndProbe(n)
    \/ HandleApplReceive(n) \/ HandleReceive(n)

-----------------------------------------------------------------------------
(* The end of execSchedule: a process that has seen no group in more than  *)
(* MaxTime runs closes its channel and builds a new one.                   *)

\* restartMulicast: buildMulticast may fail, which leaves the closed channel.
Restart(n) ==
    /\ n \in live
    /\ ~exists /\ runs[n] > MaxTime
    /\ open' \in {open \cup {n}, open \ {n}}
    /\ timer' = [timer EXCEPT ![n] = 0]
    /\ runs' = [runs EXCEPT ![n] = 0]
    /\ UNCHANGED <<live, inbox, probe, sendRMap, group, exists>>

-----------------------------------------------------------------------------
Next ==
    \/ Tick
    \/ \E n \in Node, R \in Receivers(inbox) : Expire(n, R)
    \/ \E n \in Node : Crash(n) \/ Handle(n) \/ Restart(n)

Spec == Init /\ [][Next]_vars

Sends(n) == \E R \in Receivers(inbox) : Expire(n, R)
SendsAndReads(n) == \E R \in Receivers(inbox) : Expire(n, R) /\ n \in R

\* Fairness.  Time passes, handlers that can go on do, and a timer that has expired
\* is served unless a datagram resets it first (weak).  A process does not lose its
\* copy of every heartbeat it sends, and a channel is not in vain rebuilt every
\* time (strong).
Fairness ==
    /\ WF_vars(Tick)
    /\ \A n \in Node :
          /\ WF_vars(Sends(n))
          /\ []<><<Sends(n)>>_vars => []<><<SendsAndReads(n)>>_vars
          /\ WF_vars(Handle(n))
          /\ SF_vars(Restart(n) /\ n \in open')

FairSpec == Spec /\ Fairness

-----------------------------------------------------------------------------
(* Properties                                                              *)

\* The type of every variable.
TypeOK ==
    /\ live \subseteq Node /\ open \subseteq live
    /\ timer \in [Node -> 0..IdleTime]
    /\ inbox \in [Node -> Seq(Datagram)]
    /\ probing \in [Node -> Node \cup {None}]
    /\ waited \in [Node -> BOOLEAN] /\ own \in [Node -> BOOLEAN]
    /\ copy \in [Node -> SUBSET Node]
    /\ sendRMap \in [Node -> [Node -> Types]]
    /\ group \subseteq Node /\ exists \in BOOLEAN
    /\ runs \in [Node -> 0..(MaxTime + 1)]

\* A UDP probe never sees an answer: the thread that waits for it is the one that
\* would have to handle it, also when answers to earlier probes arrive late.  So
\* each probe times out, of a live host as of a dead one.
ProbesGoUnanswered == \A n \in Node : probing[n] # None => ~Answered(n)

\* Some process takes up a heartbeat of its own again and again, as the fairness of
\* the membership modules has it: lost datagrams, probes, crashes and timers that
\* other processes reset do not silence the group, nor do channels that could not be
\* opened at once.  It ends with the last channel: once there is a group, nobody
\* opens a channel any more.  (Whether its handling gets as far as sycCompute depends
\* on checkHost.)
HearsItself(n) == IsNext(n, "HEARTBEAT") /\ Head(inbox[n]).uuid = n
Silenced == live = {} \/ (exists /\ open = {})
SomebodyHearsItself == []<>(Silenced \/ \E n \in Node : HearsItself(n))

=============================================================================
