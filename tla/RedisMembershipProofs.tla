---------------------- MODULE RedisMembershipProofs ----------------------
(***************************************************************************)
(* Proofs about RedisMembership for every set of processes and every       *)
(* timeout, with processes starting and crashing at any time: types, the   *)
(* lock, the copies that are written back, and how hosts leave the group.  *)
(***************************************************************************)
EXTENDS RedisMembership, FiniteSetTheorems, TLAPS

-----------------------------------------------------------------------------
(* The operators on the EXECER bucket keep its type.                       *)

LEMMA EmptyExecerType == EmptyExecer \in Execer
BY TimeOutAssumption DEF EmptyExecer, Execer, Ages, Absent

LEMMA RefreshType ==
    ASSUME NEW e \in Execer, NEW h
    PROVE  Refresh(e, h) \in Execer
BY TimeOutAssumption DEF Refresh, Execer, Ages, Absent

LEMMA ChangedType ==
    ASSUME NEW e \in Execer
    PROVE  Changed(e) \in Execer
BY DEF Changed, Execer

LEMMA RegisterType ==
    ASSUME NEW e \in Execer, NEW h
    PROVE  Register(e, h) \in Execer
BY RefreshType, ChangedType DEF Register

LEMMA EvictType ==
    ASSUME NEW e \in Execer, NEW h
    PROVE  Evict(e, h) \in Execer
<1>1. [e EXCEPT !.age[h] = Absent] \in Execer
  BY TimeOutAssumption DEF Execer, Ages, Absent
<1> QED
  BY <1>1, ChangedType DEF Evict

LEMMA AgedType ==
    ASSUME NEW e \in Execer
    PROVE  Aged(e) \in Execer
<1>1. ASSUME NEW h \in Node
      PROVE  Older(e.age[h]) \in Ages
  BY TimeOutAssumption DEF Older, Execer, Ages, Absent
<1> QED
  BY <1>1 DEF Aged, Execer

\* Growing older removes nobody.
LEMMA AgedMembers ==
    ASSUME NEW e \in Execer
    PROVE  Members(Aged(e)) = Members(e)
<1>1. ASSUME NEW h \in Node
      PROVE  Older(e.age[h]) = Absent <=> e.age[h] = Absent
  BY TimeOutAssumption DEF Older, Execer, Ages, Absent
<1>2. Aged(e).age = [h \in Node |-> Older(e.age[h])]
  BY DEF Aged, Execer
<1> QED
  BY <1>1, <1>2 DEF Members

\* A registered host is a member.
LEMMA RegisterMembers ==
    ASSUME NEW e \in Execer, NEW h \in Node
    PROVE  h \in Members(Register(e, h))
<1>1. Refresh(e, h).age[h] = 0
  BY DEF Refresh, Execer
<1>2. Changed(Refresh(e, h)).age = Refresh(e, h).age
  BY RefreshType DEF Changed, Execer
<1> QED
  BY <1>1, <1>2 DEF Register, Members, Absent

-----------------------------------------------------------------------------
(* Type correctness                                                        *)

LEMMA ReturnType ==
    ASSUME TypeOK, NEW n \in Node, NEW stage \in Stages, Return(n, stage)
    PROVE  /\ pc' \in [Node -> Stages]
           /\ own' \in [Node -> BOOLEAN]
           /\ copy' \in [Node -> Execer]
           /\ seenMaster' \in [Node -> Node \cup {None}]
           /\ todo' \in [Node -> SUBSET Node]
           /\ lapsed' \subseteq Node
BY EmptyExecerType DEF TypeOK, Return, Goto

LEMMA ReturnFromCheckType ==
    ASSUME TypeOK, NEW n \in Node, ReturnFromCheck(n)
    PROVE  /\ pc' \in [Node -> Stages]
           /\ own' \in [Node -> BOOLEAN]
           /\ copy' \in [Node -> Execer]
           /\ seenMaster' \in [Node -> Node \cup {None}]
           /\ todo' \in [Node -> SUBSET Node]
           /\ lapsed' \subseteq Node
<1>1. CASE own[n]
  BY <1>1 DEF TypeOK, ReturnFromCheck, Goto, locals, Stages
<1>2. CASE ~own[n]
  <2>1. Return(n, "idle")
    BY <1>2 DEF ReturnFromCheck
  <2> QED
    BY <2>1, ReturnType DEF Stages
<1> QED
  BY <1>1, <1>2

LEMMA AfterJoinType ==
    ASSUME TypeOK, NEW n \in Node, NEW e \in Execer, AfterJoin(n, e)
    PROVE  /\ pc' \in [Node -> Stages]
           /\ own' \in [Node -> BOOLEAN]
           /\ copy' \in [Node -> Execer]
           /\ seenMaster' \in [Node -> Node \cup {None}]
           /\ todo' \in [Node -> SUBSET Node]
           /\ lapsed' \subseteq Node
<1>1. CASE seenMaster[n] = n
  BY <1>1 DEF TypeOK, AfterJoin, Goto, Stages
<1>2. CASE seenMaster[n] # n
  <2>1. Return(n, "idle")
    BY <1>2 DEF AfterJoin
  <2> QED
    BY <2>1, ReturnType DEF Stages
<1> QED
  BY <1>1, <1>2

LEMMA TypeInit == Init => TypeOK
BY EmptyExecerType DEF Init, TypeOK, Stages

LEMMA TypeEnvironment == TypeOK /\ Environment => TypeOK'
<1> SUFFICES ASSUME TypeOK, Environment
             PROVE  TypeOK'
  OBVIOUS
<1>1. CASE Tick
  BY <1>1, AgedType DEF TypeOK, Tick
<1>2. CASE LeaseExpires
  BY <1>2 DEF TypeOK, LeaseExpires, locals
<1>3. ASSUME NEW n \in Node, Start(n)
      PROVE  TypeOK'
  BY <1>3 DEF TypeOK, Start, Goto, Stages, shared, locals
<1>4. ASSUME NEW n \in Node, Crash(n)
      PROVE  TypeOK'
  <2>1. Return(n, "down")
    BY <1>4 DEF Crash
  <2>2. late' \subseteq Node \X Node
    BY <1>4 DEF TypeOK, Crash, Live
  <2>3. orphaned' \in BOOLEAN
    BY <1>4 DEF TypeOK, Crash
  <2> QED
    BY <1>4, <2>1, <2>2, <2>3, ReturnType DEF TypeOK, Crash, Stages
<1> QED
  BY <1>1, <1>2, <1>3, <1>4 DEF Environment

LEMMA TypeHeartbeat ==
    ASSUME TypeOK, NEW n \in Node, NEW s \in Node,
           Heartbeat(n, s) \/ LateHeartbeat(n, s)
    PROVE  TypeOK'
<1>1. ReadForUpdate(n, s) /\ late' \subseteq Node \X Node
  BY DEF Heartbeat, LateHeartbeat, TypeOK
<1>2. Register(execers, s) \in Execer
  BY RegisterType DEF TypeOK
<1> QED
  BY <1>1, <1>2 DEF TypeOK, ReadForUpdate, ReadsExecers, Goto, Stages, shared

LEMMA TypeScan ==
    ASSUME TypeOK, NEW n \in Node, Scan(n)
    PROVE  TypeOK'
<1> DEFINE h == First(todo[n])
<1> HIDE DEF h
<1>1. Keep(n, h) \/ ProbeAnswered(n, h) \/ ProbeFailed(n, h)
  BY DEF Scan, h
<1>2. UNCHANGED <<late, fresh, own>>
  BY DEF Scan
<1>3. Refresh(copy[n], h) \in Execer /\ Evict(copy[n], h) \in Execer
  BY RefreshType, EvictType DEF TypeOK
<1>4. CASE Keep(n, h)
  BY <1>2, <1>3, <1>4 DEF Keep, Examined, Goto, TypeOK, Stages, shared
<1>5. ASSUME ProbeTakesLease(n)
      PROVE  execLock' \in Node \cup {None} /\ orphaned' \in BOOLEAN /\ lapsed' \subseteq Node
  BY <1>5 DEF ProbeTakesLease, TypeOK
<1>6. CASE ProbeAnswered(n, h)
  BY <1>2, <1>3, <1>5, <1>6 DEF ProbeAnswered, Examined, Goto, TypeOK, Stages
<1>7. CASE ProbeFailed(n, h)
  BY <1>2, <1>3, <1>5, <1>7 DEF ProbeFailed, Goto, TypeOK, Stages
<1> QED
  BY <1>1, <1>4, <1>6, <1>7

LEMMA TypeCheckHost ==
    ASSUME TypeOK, NEW n \in Node, CheckHost(n)
    PROVE  TypeOK'
<1>1. CASE ReadExecers(n)
  BY <1>1 DEF TypeOK, ReadExecers, ReadsExecers, Goto, Stages, shared
<1>2. CASE ReadMaster(n)
  <2>1. CASE Members(copy[n]) = {}
    BY <1>2, <2>1, ReturnFromCheckType DEF TypeOK, ReadMaster, shared
  <2>2. CASE Members(copy[n]) # {}
    BY <1>2, <2>2 DEF TypeOK, ReadMaster, Goto, Stages, shared
  <2> QED
    BY <2>1, <2>2
<1>3. CASE DropMaster(n)
  BY <1>3 DEF TypeOK, DropMaster, Goto, Stages, locals
<1>4. CASE LockExecers(n)
  BY <1>4 DEF TypeOK, LockExecers, Goto, Stages, Members
<1>5. CASE Scan(n)
  BY <1>5, TypeScan
<1>6. CASE DropAgain(n)
  BY <1>6 DEF TypeOK, DropAgain, Goto, Stages, locals
<1>7. CASE PutEvicted(n)
  <2>1. CASE todo[n] = {}
    BY <1>7, <2>1 DEF TypeOK, PutEvicted, WritesExecers, Goto, Stages, locals
  <2>2. CASE todo[n] # {}
    <3>1. Return(n, "idle") /\ orphaned' \in BOOLEAN
      BY <1>7, <2>2 DEF PutEvicted, TypeOK
    <3> QED
      BY <1>7, <3>1, ReturnType DEF TypeOK, PutEvicted, WritesExecers, Stages
  <2> QED
    BY <2>1, <2>2
<1>8. CASE PutChecked(n)
  <2>1. Return(n, "idle") \/ ReturnFromCheck(n)
    BY <1>8 DEF PutChecked
  <2> QED
    BY <1>8, <2>1, ReturnType, ReturnFromCheckType DEF TypeOK, PutChecked, WritesExecers, Stages
<1> QED
  BY <1>1, <1>2, <1>3, <1>4, <1>5, <1>6, <1>7, <1>8 DEF CheckHost

LEMMA TypeSycCompute ==
    ASSUME TypeOK, NEW n \in Node, SycCompute(n)
    PROVE  TypeOK'
<1>1. CASE ReadMasterToSync(n)
  BY <1>1 DEF TypeOK, ReadMasterToSync, Goto, Stages, shared
<1>2. CASE Claim(n)
  BY <1>2 DEF TypeOK, Claim, Goto, Stages
<1>3. CASE Join(n)
  <2>1. CASE n \in Members(execers)
    BY <1>3, <2>1, AfterJoinType DEF TypeOK, Join, ReadsExecers, shared
  <2>2. CASE n \notin Members(execers)
    BY <1>3, <2>2, RegisterType DEF TypeOK, Join, ReadsExecers, Goto, Stages, shared
  <2> QED
    BY <2>1, <2>2
<1>4. CASE PutJoined(n)
  BY <1>4, AfterJoinType DEF TypeOK, PutJoined, PutLocked, WritesExecers
<1>5. CASE Deal(n)
  BY <1>5 DEF TypeOK, Deal, Goto, Stages, shared, locals
<1>6. CASE NothingToDeal(n)
  BY <1>6, ReturnType DEF TypeOK, NothingToDeal, shared, Stages
<1>7. CASE PutDealt(n)
  <2>1. [copy[n] EXCEPT !.status = "NO_CHANGE"] \in Execer
    BY DEF TypeOK, Execer
  <2> QED
    BY <1>7, <2>1, ReturnType DEF TypeOK, PutDealt, PutLocked, WritesExecers, Stages
<1> QED
  BY <1>1, <1>2, <1>3, <1>4, <1>5, <1>6, <1>7 DEF SycCompute

LEMMA TypeStep == TypeOK /\ [Next]_vars => TypeOK'
<1> SUFFICES ASSUME TypeOK, [Next]_vars
             PROVE  TypeOK'
  OBVIOUS
<1>1. ASSUME NEW n \in Node, PutHost(n)
      PROVE  TypeOK'
  BY <1>1 DEF TypeOK, PutHost, PutLocked, WritesExecers, Goto, Stages, locals
<1>2. ASSUME NEW n \in Node, Handle(n)
      PROVE  TypeOK'
  BY <1>1, <1>2, TypeCheckHost, TypeSycCompute DEF Handle
<1>3. CASE UNCHANGED vars
  BY <1>3 DEF TypeOK, vars
<1> QED
  BY <1>2, <1>3, TypeEnvironment, TypeHeartbeat DEF Next

\* Every variable keeps its type.
THEOREM TypeCorrect == Spec => []TypeOK
BY TypeInit, TypeStep, PTL DEF Spec

-----------------------------------------------------------------------------
(* The lock of checkHost                                                   *)

LEMMA LockInit == Init => LockInv
BY NoneAssumption DEF Init, LockInv, LockAccounted, CheckHoldsLock, Scanning

\* A step of a process outside checkHost's critical section, before and after,
\* that leaves the lock alone.
LEMMA LockOutside ==
    ASSUME TypeOK, LockInv, NEW n \in Node, NEW stage \in Stages,
           pc[n] \notin Scanning, stage \notin Scanning,
           Goto(n, stage), UNCHANGED <<execLock, orphaned>>, lapsed \ {n} \subseteq lapsed'
    PROVE  LockInv'
BY DEF TypeOK, LockInv, LockAccounted, CheckHoldsLock, Goto

\* A step inside the critical section that keeps the lock.
LEMMA LockInside ==
    ASSUME TypeOK, LockInv, NEW n \in Node, NEW stage \in Stages,
           pc[n] \in Scanning, stage \in Scanning,
           Goto(n, stage), UNCHANGED <<execLock, orphaned, lapsed>>
    PROVE  LockInv'
BY DEF TypeOK, LockInv, LockAccounted, CheckHoldsLock, Goto

\* A process that leaves the critical section leaves the lock behind orphaned,
\* or has lost it already.
LEMMA LockAbandoned ==
    ASSUME TypeOK, LockInv, NEW n \in Node, NEW stage \in Stages,
           stage \notin Scanning, Goto(n, stage),
           execLock' = execLock, orphaned' = (orphaned \/ execLock = n),
           lapsed \ {n} \subseteq lapsed'
    PROVE  LockInv'
BY NoneAssumption DEF TypeOK, LockInv, LockAccounted, CheckHoldsLock, Goto

LEMMA LockEnvironment ==
    ASSUME TypeOK, LockInv, Environment
    PROVE  LockInv'
<1>1. CASE Tick
  BY <1>1 DEF Tick, LockInv, LockAccounted, CheckHoldsLock
<1>2. CASE LeaseExpires
  BY <1>2 DEF TypeOK, LeaseExpires, LockInv, LockAccounted, CheckHoldsLock, locals
<1>3. ASSUME NEW n \in Node, Start(n)
      PROVE  LockInv'
  BY <1>3, LockOutside DEF Start, Stages, Scanning, shared, locals
<1>4. ASSUME NEW n \in Node, Crash(n)
      PROVE  LockInv'
  BY <1>4, LockAbandoned DEF Crash, Return, Stages, Scanning
<1> QED
  BY <1>1, <1>2, <1>3, <1>4 DEF Environment

LEMMA LockHeartbeat ==
    ASSUME TypeOK, LockInv, NEW n \in Node, NEW s \in Node,
           Heartbeat(n, s) \/ LateHeartbeat(n, s)
    PROVE  LockInv'
BY LockOutside DEF Heartbeat, LateHeartbeat, ReadForUpdate, Stages, Scanning, shared

LEMMA LockScan ==
    ASSUME TypeOK, LockInv, NEW n \in Node, Scan(n)
    PROVE  LockInv'
<1> DEFINE h == First(todo[n])
<1> HIDE DEF h
<1>1. Keep(n, h) \/ ProbeAnswered(n, h) \/ ProbeFailed(n, h)
  BY DEF Scan, h
<1>2. pc[n] \in Scanning
  BY DEF Scan, Scanning
<1>3. PICK stage \in Scanning : Goto(n, stage)
  BY <1>1 DEF Keep, ProbeAnswered, ProbeFailed, Examined, Scanning
<1>4. stage \in Stages
  BY <1>3 DEF Scanning, Stages
<1>5. CASE UNCHANGED <<execLock, orphaned, lapsed>>
  BY <1>2, <1>3, <1>4, <1>5, LockInside
<1>6. CASE /\ execLock = n /\ execLock' = None /\ orphaned' = FALSE
            /\ lapsed' = lapsed \cup {n}
  BY <1>3, <1>6, NoneAssumption DEF Goto, TypeOK, LockInv, LockAccounted, CheckHoldsLock
<1> QED
  BY <1>1, <1>5, <1>6 DEF Keep, ProbeAnswered, ProbeFailed, ProbeTakesLease, shared

LEMMA LockCheckHost ==
    ASSUME TypeOK, LockInv, NEW n \in Node, CheckHost(n)
    PROVE  LockInv'
<1>1. CASE ReadExecers(n)
  BY <1>1, LockOutside DEF ReadExecers, Stages, Scanning, shared
<1>2. CASE ReadMaster(n)
  <2>1. PICK stage \in Stages \ Scanning : Goto(n, stage)
    BY <1>2 DEF ReadMaster, ReturnFromCheck, Return, Stages, Scanning
  <2> QED
    BY <1>2, <2>1, LockOutside DEF ReadMaster, ReturnFromCheck, Return, Scanning, shared, locals
<1>3. CASE DropMaster(n)
  BY <1>3, LockOutside DEF DropMaster, Stages, Scanning, locals
<1>4. CASE LockExecers(n)
  BY <1>4, NoneAssumption
     DEF LockExecers, MayLock, Goto, TypeOK, LockInv, LockAccounted, CheckHoldsLock, Scanning
<1>5. CASE Scan(n)
  BY <1>5, LockScan
<1>6. CASE DropAgain(n)
  BY <1>6, LockInside DEF DropAgain, Stages, Scanning, locals
<1>7. CASE PutEvicted(n)
  <2>1. CASE todo[n] = {}
    BY <1>7, <2>1, LockInside DEF PutEvicted, Stages, Scanning, locals
  <2>2. CASE todo[n] # {}
    BY <1>7, <2>2, LockAbandoned DEF PutEvicted, Return, Stages, Scanning
  <2> QED
    BY <2>1, <2>2
<1>8. CASE PutChecked(n)
  <2>1. PICK stage \in Stages \ Scanning : Goto(n, stage)
    BY <1>8 DEF PutChecked, ReturnFromCheck, Return, Stages, Scanning
  <2>2. lapsed \ {n} \subseteq lapsed'
    BY <1>8 DEF PutChecked, ReturnFromCheck, Return, locals
  <2>3. CASE execLock = n /\ ~orphaned
    BY <1>8, <2>1, <2>3, <2>2 DEF PutChecked, Goto, TypeOK, LockInv, LockAccounted, CheckHoldsLock
  <2>4. CASE ~(execLock = n /\ ~orphaned)
    BY <1>8, <2>1, <2>4, <2>2, LockAbandoned DEF PutChecked, TypeOK
  <2> QED
    BY <2>3, <2>4
<1> QED
  BY <1>1, <1>2, <1>3, <1>4, <1>5, <1>6, <1>7, <1>8 DEF CheckHost

LEMMA LockSycCompute ==
    ASSUME TypeOK, LockInv, NEW n \in Node, SycCompute(n)
    PROVE  LockInv'
<1>1. pc[n] \notin Scanning
  BY DEF SycCompute, ReadMasterToSync, Claim, Join, PutJoined, Deal, NothingToDeal,
         PutDealt, Scanning
<1>2. UNCHANGED <<execLock, orphaned>>
  BY DEF SycCompute, ReadMasterToSync, Claim, Join, PutJoined, Deal, NothingToDeal,
         PutDealt, PutLocked, shared
<1>3. PICK stage \in Stages \ Scanning : Goto(n, stage)
  BY DEF SycCompute, ReadMasterToSync, Claim, Join, PutJoined, Deal, NothingToDeal,
         PutDealt, AfterJoin, Return, Stages, Scanning
<1>4. lapsed \ {n} \subseteq lapsed'
  BY DEF SycCompute, ReadMasterToSync, Claim, Join, PutJoined, Deal, NothingToDeal,
         PutDealt, AfterJoin, Return, locals
<1> QED
  BY <1>1, <1>2, <1>3, <1>4, LockOutside

LEMMA LockStep == TypeOK /\ LockInv /\ [Next]_vars => LockInv'
<1> SUFFICES ASSUME TypeOK, LockInv, [Next]_vars
             PROVE  LockInv'
  OBVIOUS
<1>1. ASSUME NEW n \in Node, PutHost(n)
      PROVE  LockInv'
  BY <1>1, LockOutside DEF PutHost, PutLocked, Stages, Scanning, locals
<1>2. ASSUME NEW n \in Node, Handle(n)
      PROVE  LockInv'
  BY <1>1, <1>2, LockCheckHost, LockSycCompute DEF Handle
<1>3. CASE UNCHANGED vars
  BY <1>3 DEF vars, LockInv, LockAccounted, CheckHoldsLock
<1> QED
  BY <1>2, <1>3, LockEnvironment, LockHeartbeat DEF Next

\* The strengthened lock invariant holds.
THEOREM LockInductive == Spec => []LockInv
BY LockInit, LockStep, TypeCorrect, PTL DEF Spec

\* EXECER:LOCK is never leaked, whatever crashes, aborts and expires.
THEOREM LockNeverLeaked == Spec => []LockAccounted
<1>1. LockInv => LockAccounted
  BY DEF LockInv
<1> QED
  BY <1>1, LockInductive, PTL

\* checkHost's critical section is exclusive among the processes whose lease runs.
THEOREM CheckIsExclusive == Spec => []CheckExclusive
<1>1. LockInv => CheckExclusive
  BY DEF LockInv, CheckHoldsLock, CheckExclusive
<1> QED
  BY <1>1, LockInductive, PTL

-----------------------------------------------------------------------------
(* The writer is in the copy it writes back                                *)

\* A step of n that does not bring it to one of the three stages keeps the
\* invariant: the copies of the other processes do not change.
LEMMA CopyElsewhere ==
    ASSUME TypeOK, MasterInOwnCopy, NEW n \in Node, NEW stage \in Stages,
           Goto(n, stage), stage \notin {"putJoined", "sleep", "putDealt"},
           \A m \in Node \ {n} : copy'[m] = copy[m]
    PROVE  MasterInOwnCopy'
BY DEF TypeOK, MasterInOwnCopy, Goto, Members

\* A step of n that brings it to one of them with a copy that has it.
LEMMA CopyHere ==
    ASSUME TypeOK, MasterInOwnCopy, NEW n \in Node, NEW stage \in Stages,
           Goto(n, stage), n \in Members(copy'[n]),
           \A m \in Node \ {n} : copy'[m] = copy[m]
    PROVE  MasterInOwnCopy'
BY DEF TypeOK, MasterInOwnCopy, Goto, Members

LEMMA ReturnElsewhere ==
    ASSUME TypeOK, MasterInOwnCopy, NEW n \in Node,
           NEW stage \in {"idle", "down"}, Return(n, stage)
    PROVE  MasterInOwnCopy'
BY CopyElsewhere DEF Return, Stages, TypeOK

LEMMA CopyEnvironment ==
    ASSUME TypeOK, MasterInOwnCopy, Environment
    PROVE  MasterInOwnCopy'
<1>1. CASE Tick
  <2>1. \A n \in Node : Members(copy'[n]) = Members(copy[n])
    BY <1>1, AgedMembers DEF Tick, TypeOK
  <2> QED
    BY <1>1, <2>1 DEF Tick, MasterInOwnCopy, Members
<1>2. CASE LeaseExpires
  BY <1>2 DEF LeaseExpires, locals, MasterInOwnCopy, Members
<1>3. ASSUME NEW n \in Node, Start(n)
      PROVE  MasterInOwnCopy'
  BY <1>3, CopyElsewhere DEF Start, locals, Stages
<1>4. ASSUME NEW n \in Node, Crash(n)
      PROVE  MasterInOwnCopy'
  BY <1>4, ReturnElsewhere DEF Crash
<1> QED
  BY <1>1, <1>2, <1>3, <1>4 DEF Environment

LEMMA CopyHeartbeat ==
    ASSUME TypeOK, MasterInOwnCopy, NEW n \in Node, NEW s \in Node,
           Heartbeat(n, s) \/ LateHeartbeat(n, s)
    PROVE  MasterInOwnCopy'
BY CopyElsewhere DEF Heartbeat, LateHeartbeat, ReadForUpdate, Stages, TypeOK

LEMMA CopyFromCheck ==
    ASSUME TypeOK, MasterInOwnCopy, NEW n \in Node, ReturnFromCheck(n)
    PROVE  MasterInOwnCopy'
BY CopyElsewhere, ReturnElsewhere DEF ReturnFromCheck, locals, Stages

LEMMA CopyScan ==
    ASSUME TypeOK, MasterInOwnCopy, NEW n \in Node, Scan(n)
    PROVE  MasterInOwnCopy'
<1> DEFINE h == First(todo[n])
<1> HIDE DEF h
<1>1. Keep(n, h) \/ ProbeAnswered(n, h) \/ ProbeFailed(n, h)
  BY DEF Scan, h
<1>2. PICK stage \in Scanning : Goto(n, stage)
  BY <1>1 DEF Keep, ProbeAnswered, ProbeFailed, Examined, Scanning
<1>3. \A m \in Node \ {n} : copy'[m] = copy[m]
  BY <1>1 DEF Keep, ProbeAnswered, ProbeFailed, TypeOK
<1> QED
  BY <1>2, <1>3, CopyElsewhere DEF Scanning, Stages

LEMMA CopyCheckHost ==
    ASSUME TypeOK, MasterInOwnCopy, NEW n \in Node, CheckHost(n)
    PROVE  MasterInOwnCopy'
<1>1. CASE ReadExecers(n)
  BY <1>1, CopyElsewhere DEF ReadExecers, Stages, TypeOK
<1>2. CASE ReadMaster(n)
  BY <1>2, CopyElsewhere, CopyFromCheck DEF ReadMaster, Stages
<1>3. CASE DropMaster(n) \/ LockExecers(n) \/ DropAgain(n)
  BY <1>3, CopyElsewhere DEF DropMaster, LockExecers, DropAgain, locals, Stages
<1>4. CASE Scan(n)
  BY <1>4, CopyScan
<1>5. CASE PutEvicted(n)
  BY <1>5, CopyElsewhere, ReturnElsewhere DEF PutEvicted, locals, Stages
<1>6. CASE PutChecked(n)
  BY <1>6, CopyFromCheck, ReturnElsewhere DEF PutChecked
<1> QED
  BY <1>1, <1>2, <1>3, <1>4, <1>5, <1>6 DEF CheckHost

LEMMA CopyAfterJoin ==
    ASSUME TypeOK, MasterInOwnCopy, NEW n \in Node, NEW e \in Execer,
           n \in Members(e), AfterJoin(n, e)
    PROVE  MasterInOwnCopy'
<1>1. CASE seenMaster[n] = n
  BY <1>1, CopyHere DEF AfterJoin, TypeOK, Stages
<1>2. CASE seenMaster[n] # n
  BY <1>2, ReturnElsewhere DEF AfterJoin
<1> QED
  BY <1>1, <1>2

LEMMA CopySycCompute ==
    ASSUME TypeOK, MasterInOwnCopy, NEW n \in Node, SycCompute(n)
    PROVE  MasterInOwnCopy'
<1>1. CASE ReadMasterToSync(n) \/ Claim(n)
  BY <1>1, CopyElsewhere DEF ReadMasterToSync, Claim, Stages
<1>2. CASE Join(n)
  <2>1. CASE n \in Members(execers)
    BY <1>2, <2>1, CopyAfterJoin DEF Join, TypeOK
  <2>2. CASE n \notin Members(execers)
    BY <1>2, <2>2, CopyHere, RegisterMembers DEF Join, TypeOK, Stages
  <2> QED
    BY <2>1, <2>2
<1>3. CASE PutJoined(n)
  BY <1>3, CopyAfterJoin DEF PutJoined, MasterInOwnCopy, TypeOK
<1>4. CASE Deal(n)
  BY <1>4, CopyHere DEF Deal, MasterInOwnCopy, locals, Stages
<1>5. CASE NothingToDeal(n) \/ PutDealt(n)
  BY <1>5, ReturnElsewhere DEF NothingToDeal, PutDealt
<1> QED
  BY <1>1, <1>2, <1>3, <1>4, <1>5 DEF SycCompute

LEMMA CopyStep == TypeOK /\ MasterInOwnCopy /\ [Next]_vars => MasterInOwnCopy'
<1> SUFFICES ASSUME TypeOK, MasterInOwnCopy, [Next]_vars
             PROVE  MasterInOwnCopy'
  OBVIOUS
<1>1. ASSUME NEW n \in Node, PutHost(n)
      PROVE  MasterInOwnCopy'
  BY <1>1, CopyElsewhere DEF PutHost, locals, Stages
<1>2. ASSUME NEW n \in Node, Handle(n)
      PROVE  MasterInOwnCopy'
  BY <1>1, <1>2, CopyCheckHost, CopySycCompute DEF Handle
<1>3. CASE UNCHANGED vars
  BY <1>3 DEF vars, MasterInOwnCopy, Members
<1> QED
  BY <1>2, <1>3, CopyEnvironment, CopyHeartbeat DEF Next

\* The stale writes of addextracted and execDistrib never drop the writer.
THEOREM WriterKeepsItself == Spec => []MasterInOwnCopy
<1>1. Init => MasterInOwnCopy
  BY DEF Init, MasterInOwnCopy
<1> QED
  BY <1>1, CopyStep, TypeCorrect, PTL DEF Spec

-----------------------------------------------------------------------------
(* Who leaves the group: what a process will write that nobody's write has *)
(* overtaken has every host of the bucket that has not timed out there.    *)

Covers(c, e) == \A h \in Node : e.age[h] \in 0..TimeOut => c.age[h] \in 0..e.age[h]

\* The stages at which the working copy may be written or checked.
CopyInUse == Scanning \cup {"putHost", "readMaster", "dropMaster", "lockExecers",
                            "putJoined", "sleep", "putDealt"}

\* Nobody else has written since: the copy has taken in all writes.
FreshInv == \A n \in fresh : pc[n] \in CopyInUse => Covers(copy[n], execers)

LEMMA CoversItself ==
    ASSUME NEW e \in Execer
    PROVE  Covers(e, e) /\ Covers([e EXCEPT !.status = "NO_CHANGE"], e)
BY TimeOutAssumption DEF Covers, Execer, Ages, Absent

LEMMA CoversRefreshed ==
    ASSUME NEW e \in Execer, NEW c \in Execer, Covers(c, e), NEW h
    PROVE  Covers(Refresh(c, h), e) /\ Covers(Register(c, h), e)
<1>1. Refresh(c, h).age = [c.age EXCEPT ![h] = 0] /\ Refresh(c, h) \in Execer
  BY RefreshType DEF Refresh, Execer
<1>2. Changed(Refresh(c, h)).age = Refresh(c, h).age
  BY <1>1 DEF Changed, Execer
<1>3. \A r : r.age = [c.age EXCEPT ![h] = 0] => Covers(r, e)
  BY TimeOutAssumption DEF Covers, Execer, Ages, Absent
<1> QED
  BY <1>1, <1>2, <1>3 DEF Register

\* What has timed out in the copy has timed out in the bucket.
LEMMA CoversEvicted ==
    ASSUME NEW e \in Execer, NEW c \in Execer, Covers(c, e), NEW h, TimedOut(c, h)
    PROVE  Covers(Evict(c, h), e)
<1>1. Evict(c, h).age = [c.age EXCEPT ![h] = Absent]
  BY DEF Evict, Changed, Execer
<1>2. h \in Node => e.age[h] \notin 0..TimeOut
  BY TimeOutAssumption DEF Covers, TimedOut, Execer, Ages, Absent
<1> QED
  BY <1>1, <1>2 DEF Covers, Execer

LEMMA CoversAged ==
    ASSUME NEW e \in Execer, NEW c \in Execer, Covers(c, e)
    PROVE  Covers(Aged(c), Aged(e))
<1>1. ASSUME NEW h \in Node, Older(e.age[h]) \in 0..TimeOut
      PROVE  Older(c.age[h]) \in 0..Older(e.age[h])
  <2>1. e.age[h] \in 0..TimeOut /\ Older(e.age[h]) = e.age[h] + 1
    BY <1>1, TimeOutAssumption DEF Older, Execer, Ages, Absent
  <2>2. c.age[h] \in 0..e.age[h]
    BY <2>1 DEF Covers
  <2> QED
    BY <2>1, <2>2, TimeOutAssumption DEF Older, Absent
<1>2. /\ Aged(e).age = [h \in Node |-> Older(e.age[h])]
      /\ Aged(c).age = [h \in Node |-> Older(c.age[h])]
  BY DEF Aged, Execer
<1> QED
  BY <1>1, <1>2 DEF Covers

\* Who is missing from what is written had timed out.
LEMMA CoversMembers ==
    ASSUME NEW e \in Execer, NEW c \in Execer, Covers(c, e), NEW h \in Members(e)
    PROVE  TimedOut(e, h) \/ h \in Members(c)
BY TimeOutAssumption DEF Covers, Members, TimedOut, Execer, Ages, Absent

\* A step of one process: it writes, or reads, or does neither.
LEMMA FreshGoesOn ==
    ASSUME TypeOK, FreshInv, NEW n \in Node, NEW stage \in Stages, Goto(n, stage),
           n \in fresh' /\ stage \in CopyInUse => Covers(copy'[n], execers'),
           \/ fresh' = {n}
           \/ /\ execers' = execers /\ fresh' \ {n} \subseteq fresh
              /\ \A m \in Node \ {n} : copy'[m] = copy[m]
    PROVE  FreshInv'
BY DEF TypeOK, FreshInv, Goto

LEMMA FreshReturns ==
    ASSUME TypeOK, FreshInv, NEW n \in Node, NEW stage \in {"idle", "down"}, Return(n, stage),
           fresh' = {n} \/ (execers' = execers /\ fresh' \ {n} \subseteq fresh)
    PROVE  FreshInv'
BY FreshGoesOn DEF Return, CopyInUse, Scanning, Stages, TypeOK

LEMMA FreshFromCheck ==
    ASSUME TypeOK, FreshInv, NEW n \in Node, ReturnFromCheck(n),
           fresh' = {n} \/ (execers' = execers /\ fresh' \ {n} \subseteq fresh)
    PROVE  FreshInv'
BY FreshGoesOn, FreshReturns DEF ReturnFromCheck, locals, CopyInUse, Scanning, Stages

LEMMA FreshAfterJoin ==
    ASSUME TypeOK, FreshInv, NEW n \in Node, NEW e \in Execer, AfterJoin(n, e),
           Covers(e, execers'),
           fresh' = {n} \/ (execers' = execers /\ fresh' \ {n} \subseteq fresh)
    PROVE  FreshInv'
<1>1. CASE seenMaster[n] = n
  <2>1. copy' = [copy EXCEPT ![n] = e] /\ Goto(n, "sleep")
    BY <1>1 DEF AfterJoin
  <2> QED
    BY <2>1, FreshGoesOn DEF Stages, TypeOK
<1>2. CASE seenMaster[n] # n
  BY <1>2, FreshReturns DEF AfterJoin
<1> QED
  BY <1>1, <1>2

LEMMA FreshEnvironment ==
    ASSUME TypeOK, FreshInv, Environment
    PROVE  FreshInv'
<1>1. CASE Tick
  BY <1>1, CoversAged DEF Tick, FreshInv, TypeOK
<1>2. CASE LeaseExpires
  BY <1>2 DEF LeaseExpires, locals, FreshInv
<1>3. ASSUME NEW n \in Node, Start(n)
      PROVE  FreshInv'
  BY <1>3, FreshGoesOn DEF Start, shared, locals, CopyInUse, Scanning, Stages
<1>4. ASSUME NEW n \in Node, Crash(n)
      PROVE  FreshInv'
  BY <1>4, FreshReturns DEF Crash
<1> QED
  BY <1>1, <1>2, <1>3, <1>4 DEF Environment

LEMMA FreshScan ==
    ASSUME TypeOK, FreshInv, NEW n \in Node, Scan(n)
    PROVE  FreshInv'
<1> DEFINE h == First(todo[n])
<1> HIDE DEF h
<1>1. Keep(n, h) \/ ProbeAnswered(n, h) \/ ProbeFailed(n, h)
  BY DEF Scan, h
<1>2. PICK stage \in Scanning : Goto(n, stage)
  BY <1>1 DEF Keep, ProbeAnswered, ProbeFailed, Examined, Scanning
<1>3. /\ n \in fresh => Covers(copy[n], execers)
      /\ copy[n] \in Execer /\ execers \in Execer
  BY DEF Scan, FreshInv, CopyInUse, Scanning, TypeOK
<1>4. execers' = execers /\ fresh' = fresh
  BY <1>1 DEF Scan, Keep, ProbeAnswered, ProbeFailed, shared
<1>5. \A m \in Node \ {n} : copy'[m] = copy[m]
  BY <1>1 DEF Keep, ProbeAnswered, ProbeFailed, TypeOK
<1>6. ASSUME n \in fresh
      PROVE  Covers(copy'[n], execers)
  <2>1. CASE copy' = [copy EXCEPT ![n] = Refresh(@, h)]
    BY <2>1, <1>3, <1>6, CoversRefreshed DEF TypeOK
  <2>2. CASE copy' = copy
    BY <2>2, <1>3, <1>6
  <2>3. CASE TimedOut(copy[n], h) /\ copy' = [copy EXCEPT ![n] = Evict(@, h)]
    BY <2>3, <1>3, <1>6, CoversEvicted DEF TypeOK
  <2> QED
    BY <1>1, <2>1, <2>2, <2>3 DEF Keep, ProbeAnswered, ProbeFailed
<1> QED
  BY <1>2, <1>4, <1>5, <1>6, FreshGoesOn DEF Scanning, Stages

LEMMA FreshCheckHost ==
    ASSUME TypeOK, FreshInv, NEW n \in Node, CheckHost(n)
    PROVE  FreshInv'
<1> USE DEF TypeOK, CopyInUse, Scanning, Stages
<1>1. n \in fresh /\ pc[n] \in CopyInUse => Covers(copy[n], execers)
  BY DEF FreshInv
<1>2. CASE ReadExecers(n)
  <2>1. copy' = [copy EXCEPT ![n] = execers] /\ execers' = execers /\ fresh' = fresh \cup {n}
    BY <1>2 DEF ReadExecers, ReadsExecers, shared
  <2> QED
    BY <1>2, <2>1, CoversItself, FreshGoesOn DEF ReadExecers
<1>3. CASE ReadMaster(n)
  <2>1. execers' = execers /\ fresh' = fresh
    BY <1>3 DEF ReadMaster, shared
  <2>2. CASE Members(copy[n]) = {}
    BY <1>3, <2>1, <2>2, FreshFromCheck DEF ReadMaster
  <2>3. CASE Members(copy[n]) # {}
    <3>1. copy' = copy /\ \E stage \in {"lockExecers", "dropMaster"} : Goto(n, stage)
      BY <1>3, <2>3 DEF ReadMaster
    <3> QED
      BY <1>1, <1>3, <2>1, <3>1, FreshGoesOn DEF ReadMaster
  <2> QED
    BY <2>2, <2>3
<1>4. CASE DropMaster(n) \/ LockExecers(n) \/ DropAgain(n)
  <2>1. /\ execers' = execers /\ copy' = copy /\ fresh' = fresh /\ pc[n] \in CopyInUse
        /\ \E stage \in {"lockExecers", "scan", "putEvicted"} : Goto(n, stage)
    BY <1>4 DEF DropMaster, LockExecers, DropAgain, locals
  <2> QED
    BY <1>1, <2>1, FreshGoesOn
<1>5. CASE Scan(n)
  BY <1>5, FreshScan
<1>6. CASE PutEvicted(n)
  <2>1. fresh' = {n} /\ execers' = copy[n]
    BY <1>6 DEF PutEvicted, WritesExecers
  <2>2. CASE todo[n] = {}
    <3>1. copy' = copy /\ Goto(n, "putChecked")
      BY <1>6, <2>2 DEF PutEvicted, locals
    <3> QED
      BY <2>1, <3>1, CoversItself, FreshGoesOn
  <2>3. CASE todo[n] # {}
    BY <1>6, <2>1, <2>3, FreshReturns DEF PutEvicted
  <2> QED
    BY <2>2, <2>3
<1>7. CASE PutChecked(n)
  <2>1. fresh' = {n}
    BY <1>7 DEF PutChecked, WritesExecers
  <2> QED
    BY <1>7, <2>1, FreshFromCheck, FreshReturns DEF PutChecked
<1> QED
  BY <1>2, <1>3, <1>4, <1>5, <1>6, <1>7 DEF CheckHost

LEMMA FreshSycCompute ==
    ASSUME TypeOK, FreshInv, NEW n \in Node, SycCompute(n)
    PROVE  FreshInv'
<1> USE DEF TypeOK, CopyInUse, Scanning, Stages
<1>1. CASE ReadMasterToSync(n) \/ Claim(n)
  <2>1. /\ execers' = execers /\ copy' = copy /\ fresh' = fresh
        /\ \E stage \in {"claim", "join"} : Goto(n, stage)
    BY <1>1 DEF ReadMasterToSync, Claim, shared
  <2> QED
    BY <2>1, FreshGoesOn
<1>2. CASE Join(n)
  <2>1. execers' = execers /\ fresh' = fresh \cup {n}
    BY <1>2 DEF Join, ReadsExecers, shared
  <2>2. CASE n \in Members(execers)
    BY <1>2, <2>1, <2>2, CoversItself, FreshAfterJoin DEF Join
  <2>3. CASE n \notin Members(execers)
    <3>1. copy' = [copy EXCEPT ![n] = Register(execers, n)] /\ Goto(n, "putJoined")
      BY <1>2, <2>3 DEF Join
    <3>2. Covers(Register(execers, n), execers)
      BY CoversItself, CoversRefreshed
    <3> QED
      BY <2>1, <3>1, <3>2, FreshGoesOn
  <2> QED
    BY <2>2, <2>3
<1>3. CASE PutJoined(n)
  BY <1>3, CoversItself, FreshAfterJoin DEF PutJoined, PutLocked, WritesExecers
<1>4. CASE Deal(n)
  <2>1. /\ execers' = execers /\ copy' = copy /\ fresh' = fresh /\ Goto(n, "putDealt")
        /\ n \in fresh => Covers(copy[n], execers)
    BY <1>4 DEF Deal, shared, locals, FreshInv
  <2> QED
    BY <2>1, FreshGoesOn
<1>5. CASE NothingToDeal(n) \/ PutDealt(n)
  <2>1. fresh' = {n} \/ (execers' = execers /\ fresh' = fresh)
    BY <1>5 DEF NothingToDeal, PutDealt, PutLocked, WritesExecers, shared
  <2> QED
    BY <1>5, <2>1, FreshReturns DEF NothingToDeal, PutDealt
<1> QED
  BY <1>1, <1>2, <1>3, <1>4, <1>5 DEF SycCompute

LEMMA FreshHeartbeat ==
    ASSUME TypeOK, FreshInv, NEW n \in Node, NEW s \in Node,
           Heartbeat(n, s) \/ LateHeartbeat(n, s)
    PROVE  FreshInv'
<1>1. /\ Goto(n, "putHost") /\ execers' = execers /\ fresh' = fresh \cup {n}
      /\ copy' = [copy EXCEPT ![n] = Register(execers, s)]
  BY DEF Heartbeat, LateHeartbeat, ReadForUpdate, ReadsExecers, shared
<1>2. Covers(Register(execers, s), execers)
  BY CoversItself, CoversRefreshed DEF TypeOK
<1> QED
  BY <1>1, <1>2, FreshGoesOn DEF Stages, TypeOK

LEMMA FreshStep == TypeOK /\ FreshInv /\ [Next]_vars => FreshInv'
<1> SUFFICES ASSUME TypeOK, FreshInv, [Next]_vars
             PROVE  FreshInv'
  OBVIOUS
<1>1. ASSUME NEW n \in Node, PutHost(n)
      PROVE  FreshInv'
  <2>1. /\ fresh' = {n} /\ execers' = copy[n] /\ copy' = copy
        /\ Goto(n, "readExecers")
    BY <1>1 DEF PutHost, PutLocked, WritesExecers, locals
  <2> QED
    BY <2>1, FreshGoesOn DEF CopyInUse, Scanning, Stages
<1>2. ASSUME NEW n \in Node, Handle(n)
      PROVE  FreshInv'
  BY <1>1, <1>2, FreshCheckHost, FreshSycCompute DEF Handle
<1>3. CASE UNCHANGED vars
  BY <1>3 DEF vars, FreshInv
<1> QED
  BY <1>2, <1>3, FreshEnvironment, FreshHeartbeat DEF Next

\* What a handler's step makes of the bucket: nothing, or its copy of it.
LEMMA WritesItsCopy ==
    ASSUME NEW n \in Node, Handle(n)
    PROVE  \/ execers' = execers
           \/ /\ pc[n] \in CopyInUse
              /\ execers' \in {copy[n], [copy[n] EXCEPT !.status = "NO_CHANGE"]}
              /\ \E stage \in Stages \ {pc[n]} : Goto(n, stage)
<1>1. CASE PutHost(n)
  BY <1>1 DEF PutHost, PutLocked, CopyInUse, Stages
<1>2. CASE PutEvicted(n) \/ PutChecked(n)
  BY <1>2 DEF PutEvicted, PutChecked, ReturnFromCheck, Return, CopyInUse, Scanning, Stages
<1>3. CASE CheckHost(n) /\ ~(PutEvicted(n) \/ PutChecked(n))
  BY <1>3 DEF CheckHost, ReadExecers, ReadMaster, DropMaster, LockExecers, Scan, Keep,
              ProbeAnswered, ProbeFailed, DropAgain, shared
<1>4. CASE PutJoined(n) \/ PutDealt(n)
  BY <1>4 DEF PutJoined, PutDealt, PutLocked, AfterJoin, Return, CopyInUse, Stages
<1>5. CASE SycCompute(n) /\ ~(PutJoined(n) \/ PutDealt(n))
  BY <1>5 DEF SycCompute, ReadMasterToSync, Claim, Join, Deal, NothingToDeal, shared
<1> QED
  BY <1>1, <1>2, <1>3, <1>4, <1>5 DEF Handle

LEMMA FreshRemoves ==
    ASSUME TypeOK, FreshInv, [Next]_vars, NEW h \in Members(execers)
    PROVE  \/ TimedOut(execers, h)
           \/ h \in Members(execers')
           \/ \E n \in Node \ fresh : pc'[n] # pc[n]
<1> USE DEF TypeOK
<1>1. ASSUME NEW n \in fresh, pc[n] \in CopyInUse,
             execers' \in {copy[n], [copy[n] EXCEPT !.status = "NO_CHANGE"]}
      PROVE  TimedOut(execers, h) \/ h \in Members(execers')
  <2>1. Covers(copy[n], execers)
    BY <1>1 DEF FreshInv
  <2>2. [copy[n] EXCEPT !.status = "NO_CHANGE"].age = copy[n].age /\ copy[n] \in Execer
    BY DEF Execer
  <2>3. TimedOut(execers, h) \/ h \in Members(copy[n])
    BY <2>1, <2>2, CoversMembers
  <2>4. Members(execers') = Members(copy[n])
    BY <1>1, <2>2 DEF Members
  <2> QED
    BY <2>3, <2>4
<1>2. CASE execers' = execers
  BY <1>2
<1>3. CASE Environment
  BY <1>2, <1>3, AgedMembers DEF Environment, Tick, LeaseExpires, Start, Crash, shared
<1>4. ASSUME NEW n \in Node, NEW s \in Node, Heartbeat(n, s) \/ LateHeartbeat(n, s)
      PROVE  execers' = execers
  BY <1>4 DEF Heartbeat, LateHeartbeat, ReadForUpdate, shared
<1>5. ASSUME NEW n \in Node, Handle(n), execers' # execers
      PROVE  \/ TimedOut(execers, h) \/ h \in Members(execers')
             \/ n \notin fresh /\ pc'[n] # pc[n]
  <2>1. PICK stage \in Stages \ {pc[n]} : Goto(n, stage)
    BY <1>5, WritesItsCopy
  <2>2. pc'[n] # pc[n]
    BY <2>1 DEF Goto
  <2> QED
    BY <1>1, <1>5, <2>2, WritesItsCopy
<1> QED
  BY <1>2, <1>3, <1>4, <1>5 DEF Next, vars

\* For any number of processes that overwrite each other, through crashes, late
\* datagrams and probes that fail or outlast the lease: a host whose entry has not
\* timed out is lost only in the write of a copy that somebody else's write has
\* overtaken.
THEOREM OnlyOvertakenWritesLose == Spec => LostByOvertaking
<1>1. Init => FreshInv
  BY DEF Init, FreshInv
<1>2. TypeOK /\ FreshInv /\ [Next]_vars => FreshInv'
  BY FreshStep
<1>3. TypeOK /\ FreshInv /\ [Next]_vars =>
        [\A h \in Members(execers) :
            \/ TimedOut(execers, h)
            \/ h \in Members(execers')
            \/ \E n \in Node \ fresh : pc'[n] # pc[n]]_vars
  BY FreshRemoves
<1> QED
  BY <1>1, <1>2, <1>3, TypeCorrect, PTL DEF Spec, LostByOvertaking

=============================================================================
