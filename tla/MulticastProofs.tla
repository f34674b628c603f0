-------------------------- MODULE MulticastProofs --------------------------
(* Proofs about Multicast, for any number of processes and any timing.      *)
EXTENDS Multicast, SequenceTheorems, TLAPS

\* What the channels read keeps the type of the queues and the timers.
LEMMA QueuedType ==
    ASSUME NEW queues \in [Node -> Seq(Datagram)], NEW d \in Datagram, NEW R
    PROVE  Queued(queues, d, R) \in [Node -> Seq(Datagram)]
  BY DEF Queued

LEMMA ReadType ==
    ASSUME NEW timers \in [Node -> 0..IdleTime], NEW R
    PROVE  Read(timers, R) \in [Node -> 0..IdleTime]
  BY IdleTimeAssumption DEF Read

\* A datagram that is handled comes from the queue and leaves it.
LEMMA NextDatagram ==
    ASSUME TypeOK, NEW n \in Node, NEW type, IsNext(n, type)
    PROVE  /\ Head(inbox[n]) \in Datagram
           /\ Head(inbox[n]).uuid \in Node
           /\ Consumed(n) \in [Node -> Seq(Datagram)]
<1>1. inbox[n] \in Seq(Datagram) /\ inbox[n] # <<>>
  BY DEF TypeOK, IsNext
<1>2. Head(inbox[n]) \in Datagram /\ Tail(inbox[n]) \in Seq(Datagram)
  BY <1>1, HeadTailProperties
<1> QED
  BY <1>2 DEF TypeOK, Consumed, Datagram

LEMMA InitInv == Init => TypeOK /\ ProbesGoUnanswered
<1> SUFFICES ASSUME Init
             PROVE  TypeOK /\ ProbesGoUnanswered
  OBVIOUS
<1>1. inbox \in [Node -> Seq(Datagram)]
  BY DEF Init
<1>2. sendRMap \in [Node -> [Node -> Types]]
  BY DEF Init, Types
<1>3. runs \in [Node -> 0..(MaxTime + 1)]
  BY MaxTimeAssumption DEF Init
<1> QED
  BY <1>1, <1>2, <1>3 DEF Init, TypeOK, ProbesGoUnanswered

\* Every step keeps the types.
LEMMA TypeStep == TypeOK /\ [Next]_vars => TypeOK'
<1> SUFFICES ASSUME TypeOK, [Next]_vars
             PROVE  TypeOK'
  OBVIOUS
<1> USE IdleTimeAssumption, MaxTimeAssumption DEF TypeOK
<1>1. CASE Tick
  BY <1>1 DEF Tick, probe
<1>2. ASSUME NEW n \in Node, NEW R \in Receivers(inbox), Expire(n, R)
      PROVE  TypeOK'
  <2>1. Heartbeat(n) \in Datagram
    BY DEF Heartbeat, Datagram
  <2>2. [timer EXCEPT ![n] = 0] \in [Node -> 0..IdleTime]
    OBVIOUS
  <2> QED
    BY <1>2, <2>1, <2>2, QueuedType, ReadType DEF Expire, probe
<1>3. ASSUME NEW n \in Node, Crash(n)
      PROVE  TypeOK'
  BY <1>3 DEF Crash, ProbeOver, Types
<1>4. ASSUME NEW n \in Node, HandleHeartbeat(n)
      PROVE  TypeOK'
  BY <1>4, NextDatagram DEF HandleHeartbeat, probe
<1>5. ASSUME NEW n \in Node, StartProbe(n)
      PROVE  TypeOK'
  <2>1. /\ Head(inbox[n]).uuid \in Node
        /\ Consumed(n) \in [Node -> Seq(Datagram)]
    BY <1>5, NextDatagram DEF StartProbe
  <2>2. group' \subseteq Node
    BY <1>5, <2>1 DEF StartProbe
  <2>3. PICK h \in group', R \in Receivers(Consumed(n)) :
           /\ probing' = [probing EXCEPT ![n] = h]
           /\ sendRMap' = [sendRMap EXCEPT ![n][h] = "APPLRECEIVE"]
           /\ inbox' = Queued(Consumed(n), [type |-> "APPLRECEIVE", uuid |-> h], R)
           /\ timer' = Read(timer, R)
    BY <1>5 DEF StartProbe
  <2>4. [type |-> "APPLRECEIVE", uuid |-> h] \in Datagram
    BY <2>2 DEF Datagram
  <2>5. inbox' \in [Node -> Seq(Datagram)] /\ timer' \in [Node -> 0..IdleTime]
    BY <2>1, <2>3, <2>4, QueuedType, ReadType
  <2>6. probing' \in [Node -> Node \cup {None}] /\ sendRMap' \in [Node -> [Node -> Types]]
    BY <2>2, <2>3 DEF Types
  <2>7. /\ UNCHANGED <<live, open>> /\ exists' = TRUE
        /\ runs' = [m \in Node |-> 0] /\ waited' = [waited EXCEPT ![n] = FALSE]
        /\ own' = [own EXCEPT ![n] = (Head(inbox[n]).uuid = n)]
        /\ copy' = [copy EXCEPT ![n] = group']
    BY <1>5 DEF StartProbe
  <2> QED
    BY <2>2, <2>5, <2>6, <2>7
<1>6. ASSUME NEW n \in Node, EndProbe(n)
      PROVE  TypeOK'
  <2>1. group' \subseteq Node
    BY <1>6 DEF EndProbe, ProbeAnswered, ProbeTimedOut, Checked
  <2>2. UNCHANGED <<live, open, timer, inbox, sendRMap, exists, runs>> /\ ProbeOver(n)
    BY <1>6 DEF EndProbe
  <2> QED
    BY <2>1, <2>2 DEF ProbeOver
<1>7. ASSUME NEW n \in Node, HandleApplReceive(n)
      PROVE  TypeOK'
  <2>1. Consumed(n) \in [Node -> Seq(Datagram)]
    BY <1>7, NextDatagram DEF HandleApplReceive
  <2>2. [type |-> "RECEIVE", uuid |-> n] \in Datagram
    BY DEF Datagram
  <2>3. CASE Head(inbox[n]).uuid = n
    <3>1. PICK R : /\ inbox' = Queued(Consumed(n), [type |-> "RECEIVE", uuid |-> n], R)
                   /\ timer' = Read(timer, R)
      BY <1>7, <2>3 DEF HandleApplReceive
    <3>2. inbox' \in [Node -> Seq(Datagram)]
      BY <2>1, <2>2, <3>1, QueuedType
    <3>3. timer' \in [Node -> 0..IdleTime]
      BY <3>1, ReadType
    <3> QED
      BY <1>7, <3>2, <3>3 DEF HandleApplReceive, probe
  <2>4. CASE Head(inbox[n]).uuid # n
    BY <1>7, <2>1, <2>4 DEF HandleApplReceive, probe
  <2> QED
    BY <2>3, <2>4
<1>8. ASSUME NEW n \in Node, HandleReceive(n)
      PROVE  TypeOK'
  BY <1>8, NextDatagram DEF HandleReceive, probe, Types
<1>9. ASSUME NEW n \in Node, Restart(n)
      PROVE  TypeOK'
  BY <1>9 DEF Restart, probe
<1>10. CASE UNCHANGED vars
  BY <1>10 DEF vars, probe
<1> QED
  BY <1>1, <1>2, <1>3, <1>4, <1>5, <1>6, <1>7, <1>8, <1>9, <1>10 DEF Next, Handle

\* A probe sets its entry to APPLRECEIVE; RECEIVE is handled by the thread that
\* waits, and so not while it waits.
LEMMA UnansweredStep ==
    TypeOK /\ ProbesGoUnanswered /\ [Next]_vars => ProbesGoUnanswered'
<1> SUFFICES ASSUME TypeOK, ProbesGoUnanswered, [Next]_vars,
                    NEW m \in Node, probing'[m] # None
             PROVE  ~Answered(m)'
  BY DEF ProbesGoUnanswered
<1> DEFINE Same == probing'[m] = probing[m] /\ sendRMap'[m] = sendRMap[m]
<1>1. ASSUME Same
      PROVE  ~Answered(m)'
  BY <1>1 DEF ProbesGoUnanswered, Answered
<1>2. ASSUME NEW n \in Node, Crash(n)
      PROVE  ~Answered(m)'
  <2>1. probing' = [probing EXCEPT ![n] = None]
    BY <1>2 DEF Crash, ProbeOver
  <2>2. n # m
    BY <2>1 DEF TypeOK
  <2> QED
    BY <1>1, <1>2, <2>1, <2>2 DEF Crash, TypeOK
<1>3. ASSUME NEW n \in Node, StartProbe(n)
      PROVE  ~Answered(m)'
  <2>1. PICK h \in group' :
           /\ probing' = [probing EXCEPT ![n] = h]
           /\ sendRMap' = [sendRMap EXCEPT ![n][h] = "APPLRECEIVE"]
    BY <1>3 DEF StartProbe
  <2>2. group' \subseteq Node
    BY <1>3, NextDatagram DEF StartProbe, TypeOK
  <2>3. CASE n = m
    BY <2>1, <2>2, <2>3 DEF Answered, TypeOK
  <2>4. CASE n # m
    BY <1>1, <2>1, <2>4 DEF TypeOK
  <2> QED
    BY <2>3, <2>4
<1>4. ASSUME NEW n \in Node, EndProbe(n)
      PROVE  ~Answered(m)'
  <2>1. n # m
    BY <1>4 DEF EndProbe, ProbeOver, TypeOK
  <2> QED
    BY <1>1, <1>4, <2>1 DEF EndProbe, ProbeOver, TypeOK
<1>5. ASSUME NEW n \in Node, HandleReceive(n)
      PROVE  ~Answered(m)'
  <2>1. n # m
    BY <1>5 DEF HandleReceive, IsNext, probe
  <2> QED
    BY <1>1, <1>5, <2>1 DEF HandleReceive, probe, TypeOK
<1>6. CASE Tick
  BY <1>1, <1>6 DEF Tick
<1>7. ASSUME NEW n \in Node, NEW R, Expire(n, R) \/ HandleHeartbeat(n)
                                      \/ HandleApplReceive(n) \/ Restart(n)
      PROVE  ~Answered(m)'
  BY <1>1, <1>7 DEF Expire, HandleHeartbeat, HandleApplReceive, Restart, probe
<1>8. CASE UNCHANGED vars
  BY <1>1, <1>8 DEF vars, probe
<1> QED
  BY <1>2, <1>3, <1>4, <1>5, <1>6, <1>7, <1>8 DEF Next, Handle

\* Every variable keeps its type.
THEOREM TypeCorrect == Spec => []TypeOK
<1>1. Init => TypeOK
  BY InitInv
<1> QED
  BY <1>1, TypeStep, PTL DEF Spec

\* With check type UDP, no probe is ever answered, whatever the number of
\* processes, however long datagrams wait, and whatever is lost.
THEOREM UdpProbesFail == Spec => []ProbesGoUnanswered
<1>1. TypeOK /\ ProbesGoUnanswered /\ [Next]_vars => (TypeOK /\ ProbesGoUnanswered)'
  BY TypeStep, UnansweredStep
<1> QED
  BY <1>1, InitInv, PTL DEF Spec

=============================================================================
