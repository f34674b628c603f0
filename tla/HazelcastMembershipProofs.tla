--------------------- MODULE HazelcastMembershipProofs ---------------------
(***************************************************************************)
(* Proofs about HazelcastMembership, for any finite set of processes and   *)
(* any ports, with probes that fail or not.                                *)
(***************************************************************************)
EXTENDS HazelcastMembership, TLAPS

-----------------------------------------------------------------------------
(* Types                                                                   *)

Writing == {"putHost", "putJoined", "clearDealt", "putDealt"}

\* The typing of copy at the process n.
CopyType(n) ==
    IF pc[n] \in Writing THEN copy[n] # None /\ copy[n] \subseteq Node ELSE copy[n] = None

\* A group is never None.
LEMMA GroupIsSome == ASSUME NEW group \in Group PROVE group # None
BY NoneAssumption DEF Group

\* A handler that goes on at a stage, with the copy that belongs to it, keeps the types
\* of pc and copy.
LEMMA StepType ==
    ASSUME TypeOK, NEW n \in Node, NEW stage \in Stages, NEW c,
           pc' = [pc EXCEPT ![n] = stage], copy' = [copy EXCEPT ![n] = c],
           IF stage \in Writing THEN c # None /\ c \subseteq Node ELSE c = None
    PROVE  /\ pc' \in [Node -> Stages]
           /\ DOMAIN copy' = Node
           /\ \A m \in Node : CopyType(m)'
BY DEF TypeOK, CopyType, Writing

\* So does one that leaves its copy alone, when both stages need one, or none.
LEMMA MoveType ==
    ASSUME TypeOK, NEW n \in Node, NEW stage \in Stages,
           pc' = [pc EXCEPT ![n] = stage], UNCHANGED copy,
           pc[n] \in Writing <=> stage \in Writing
    PROVE  /\ pc' \in [Node -> Stages]
           /\ DOMAIN copy' = Node
           /\ \A m \in Node : CopyType(m)'
BY DEF TypeOK, CopyType, Writing

\* A handler that returns.
LEMMA ReturnType ==
    ASSUME TypeOK, NEW n \in Node, NEW stage \in {"idle", "down"}, Return(n, stage)
    PROVE  /\ pc' \in [Node -> Stages]
           /\ own' \in [Node -> BOOLEAN]
           /\ role' \in [Node -> {"none", "master", "claimer"}]
           /\ DOMAIN copy' = Node
           /\ \A m \in Node : CopyType(m)'
<1>1. pc' = [pc EXCEPT ![n] = stage] /\ copy' = [copy EXCEPT ![n] = None]
  BY DEF Return, Goto
<1>2. stage \in Stages /\ stage \notin Writing
  BY DEF Stages, Writing
<1>3. /\ own' \in [Node -> BOOLEAN]
      /\ role' \in [Node -> {"none", "master", "claimer"}]
  BY DEF Return, TypeOK
<1> QED
  BY <1>1, <1>2, <1>3, StepType

LEMMA AfterCheckType ==
    ASSUME TypeOK, NEW n \in Node, pc[n] \in {"check", "put"}, AfterCheck(n)
    PROVE  /\ pc' \in [Node -> Stages]
           /\ own' \in [Node -> BOOLEAN]
           /\ role' \in [Node -> {"none", "master", "claimer"}]
           /\ DOMAIN copy' = Node
           /\ \A m \in Node : CopyType(m)'
<1>1. CASE own[n]
  <2>1. pc' = [pc EXCEPT ![n] = "sync"] /\ UNCHANGED <<own, role, copy>>
    BY <1>1 DEF AfterCheck, Goto
  <2>2. "sync" \in Stages /\ (pc[n] \in Writing <=> "sync" \in Writing)
    BY DEF Stages, Writing
  <2> QED
    BY <2>1, <2>2, MoveType DEF TypeOK
<1>2. CASE ~own[n]
  BY <1>2, ReturnType DEF AfterCheck
<1> QED
  BY <1>1, <1>2

LEMMA AfterJoinType ==
    ASSUME TypeOK, NEW n \in Node, AfterJoin(n)
    PROVE  /\ pc' \in [Node -> Stages]
           /\ own' \in [Node -> BOOLEAN]
           /\ role' \in [Node -> {"none", "master", "claimer"}]
           /\ DOMAIN copy' = Node
           /\ \A m \in Node : CopyType(m)'
<1>1. CASE role[n] = "none"
  BY <1>1, ReturnType DEF AfterJoin
<1>2. CASE role[n] # "none"
  <2>1. /\ pc' = [pc EXCEPT ![n] = "sleep"] /\ UNCHANGED <<own, role>>
        /\ copy' = [copy EXCEPT ![n] = None]
    BY <1>2 DEF AfterJoin, Goto
  <2>2. "sleep" \in Stages /\ "sleep" \notin Writing
    BY DEF Stages, Writing
  <2> QED
    BY <2>1, <2>2, StepType DEF TypeOK
<1> QED
  BY <1>1, <1>2

LEMMA TypeInit == Init => TypeOK
BY DEF Init, TypeOK, Stages, Group

LEMMA TypeEnvironment ==
    ASSUME TypeOK
    PROVE  /\ SessionExpires => TypeOK'
           /\ Silence => TypeOK'
           /\ \A n \in Node : Start(n) => TypeOK'
           /\ \A n \in Node : Crash(n) => TypeOK'
<1>1. SessionExpires => TypeOK'
  BY DEF SessionExpires, TypeOK, locals
<1>2. Silence => TypeOK'
  BY DEF Silence, TypeOK, shared, Group
<1>3. ASSUME NEW n \in Node, Start(n) PROVE TypeOK'
  <2>1. pc' = [pc EXCEPT ![n] = "idle"] /\ UNCHANGED <<shared, late, locals>> /\ pc[n] = "new"
    BY <1>3 DEF Start, Goto
  <2>2. "idle" \in Stages /\ (pc[n] \in Writing <=> "idle" \in Writing)
    BY <2>1 DEF Stages, Writing
  <2> QED
    BY <2>1, <2>2, MoveType DEF TypeOK, CopyType, Writing, shared, locals
<1>4. ASSUME NEW n \in Node, Crash(n) PROVE TypeOK'
  <2>1. Return(n, "down")
    BY <1>4 DEF Crash
  <2>2. /\ view' \in [Node -> Group] /\ stale' \in [Node -> Group]
        /\ changed' \in [Node -> BOOLEAN] /\ UNCHANGED shared
        /\ late' \subseteq Node \X Node
    BY <1>4 DEF Crash, TypeOK, Group, Live
  <2> QED
    BY <2>1, <2>2, ReturnType DEF TypeOK, CopyType, Writing, shared
<1> QED
  BY <1>1, <1>2, <1>3, <1>4

LEMMA TypeHeartbeat ==
    ASSUME TypeOK, NEW n \in Node, NEW s \in Node,
           Heartbeat(n, s) \/ LateHeartbeat(n, s)
    PROVE  TypeOK'
<1> USE DEF HostUpdate
<1>1. own' \in [Node -> BOOLEAN] /\ UNCHANGED <<shared, role>> /\ pc[n] = "idle"
      /\ late' \subseteq Node \X Node
  BY DEF Heartbeat, LateHeartbeat, TypeOK
<1>2. CASE execmap = None
  <2>1. pc' = [pc EXCEPT ![n] = "check"] /\ UNCHANGED <<view, stale, changed, copy>>
    BY <1>2 DEF Heartbeat, LateHeartbeat, Goto
  <2>2. "check" \in Stages /\ (pc[n] \in Writing <=> "check" \in Writing)
    BY <1>1 DEF Stages, Writing
  <2> QED
    BY <1>1, <2>1, <2>2, MoveType DEF TypeOK, CopyType, Writing, shared
<1>3. CASE execmap # None
  <2> DEFINE c == {s} \cup IF view[n] = {} THEN execmap ELSE view[n]
  <2>1. pc' = [pc EXCEPT ![n] = "putHost"] /\ copy' = [copy EXCEPT ![n] = c]
    BY <1>3 DEF Heartbeat, LateHeartbeat, Goto
  <2>2. c \in Group
    BY <1>3 DEF TypeOK, Group
  <2>3. c # None /\ c \subseteq Node
    BY <2>2, GroupIsSome DEF Group
  <2>4. "putHost" \in Stages /\ "putHost" \in Writing
    BY DEF Stages, Writing
  <2>5. view' \in [Node -> Group] /\ stale' \in [Node -> Group]
    BY <1>3 DEF Heartbeat, LateHeartbeat, TypeOK, Group
  <2>6. changed' \in [Node -> BOOLEAN]
    <3>1. changed' = [changed EXCEPT ![n] = @ \/ s \notin view[n]]
      BY <1>3 DEF Heartbeat, LateHeartbeat
    <3>2. (changed[n] \/ s \notin view[n]) \in BOOLEAN
      OBVIOUS
    <3> QED
      BY <3>1, <3>2 DEF TypeOK
  <2> HIDE DEF c
  <2> QED
    BY <1>1, <2>1, <2>3, <2>4, <2>5, <2>6, StepType DEF TypeOK, CopyType, Writing, shared
<1> QED
  BY <1>2, <1>3

LEMMA TypeCheckHost ==
    ASSUME TypeOK, NEW n \in Node, PutHost(n) \/ CheckHost(n)
    PROVE  TypeOK'
<1> USE DEF Writing, Stages
<1>1. CASE PutHost(n)
  <2>1. /\ pc' = [pc EXCEPT ![n] = "check"] /\ copy' = [copy EXCEPT ![n] = None]
        /\ execmap' = copy[n] /\ pc[n] = "putHost"
        /\ UNCHANGED <<master, lock, leaked, hosts, late, own, role, view, stale, changed>>
    BY <1>1 DEF PutHost, Goto
  <2>2. execmap' \in Group
    BY <2>1 DEF TypeOK, Group
  <2> QED
    BY <2>1, <2>2, StepType DEF TypeOK, CopyType
<1>2. CASE SkipCheck(n)
  <2>1. pc[n] \in {"check", "put"} /\ AfterCheck(n) /\ UNCHANGED <<shared, late, view, stale>>
    BY <1>2 DEF SkipCheck
  <2>2. changed' \in [Node -> BOOLEAN]
    <3>1. changed' = [changed EXCEPT ![n] = @ /\ execmap = None]
      BY <1>2 DEF SkipCheck
    <3>2. (changed[n] /\ execmap = None) \in BOOLEAN
      OBVIOUS
    <3> QED
      BY <3>1, <3>2 DEF TypeOK
  <2> QED
    BY <2>1, <2>2, AfterCheckType DEF TypeOK, CopyType, shared
<1>3. CASE ReadMaster(n)
  <2>1. PICK stage \in {"examine", "dropMaster"} :
          pc' = [pc EXCEPT ![n] = stage] /\ pc[n] = "check" /\ UNCHANGED <<shared, late, locals>>
    BY <1>3 DEF ReadMaster, Goto
  <2> QED
    BY <2>1, MoveType DEF TypeOK, CopyType, shared, locals
<1>4. CASE DropMaster(n)
  <2>1. /\ pc' = [pc EXCEPT ![n] = "examine"] /\ pc[n] = "dropMaster" /\ master' = None
        /\ UNCHANGED <<execmap, lock, leaked, hosts, late, own, role, copy, view, stale>>
    BY <1>4 DEF DropMaster, Goto
  <2>2. changed' \in [Node -> BOOLEAN]
    BY <1>4 DEF DropMaster, TypeOK
  <2> QED
    BY <2>1, <2>2, MoveType DEF TypeOK, CopyType
<1>5. CASE Examine(n)
  <2>1. /\ pc' = [pc EXCEPT ![n] = "clear"] /\ pc[n] = "examine"
        /\ UNCHANGED <<shared, late, own, role, copy, changed>>
    BY <1>5 DEF Examine, Goto
  <2>2. view' \in [Node -> Group] /\ stale' \in [Node -> Group]
    BY <1>5 DEF Examine, Misled, TypeOK, Group
  <2> QED
    BY <2>1, <2>2, MoveType DEF TypeOK, CopyType, shared
<1>6. CASE ExamineFails(n)
  <2>1. Return(n, "idle") /\ UNCHANGED <<shared, late, changed>>
    BY <1>6 DEF ExamineFails
  <2>2. view' \in [Node -> Group] /\ stale' \in [Node -> Group]
    BY <1>6 DEF ExamineFails, TypeOK, Group
  <2> QED
    BY <2>1, <2>2, ReturnType DEF TypeOK, CopyType, shared
<1>7. CASE ClearExecmap(n)
  <2>1. /\ pc' = [pc EXCEPT ![n] = "put"] /\ pc[n] = "clear" /\ execmap' = None
        /\ UNCHANGED <<master, lock, leaked, hosts, late, locals>>
    BY <1>7 DEF ClearExecmap, Goto
  <2> QED
    BY <2>1, MoveType DEF TypeOK, CopyType, locals
<1>8. CASE PutChecked(n)
  <2>1. /\ pc[n] \in {"check", "put"} /\ AfterCheck(n) /\ execmap' = view[n]
        /\ UNCHANGED <<master, lock, leaked, hosts, late, view, stale, changed>>
    BY <1>8 DEF PutChecked
  <2> QED
    BY <2>1, AfterCheckType DEF TypeOK, CopyType
<1> QED
  BY <1>1, <1>2, <1>3, <1>4, <1>5, <1>6, <1>7, <1>8 DEF CheckHost

\* The end of a sync, with or without an unlock.
LEMMA FinishType ==
    ASSUME TypeOK, NEW n \in Node, Finish(n)
    PROVE  /\ pc' \in [Node -> Stages]
           /\ own' \in [Node -> BOOLEAN]
           /\ role' \in [Node -> {"none", "master", "claimer"}]
           /\ DOMAIN copy' = Node
           /\ \A m \in Node : CopyType(m)'
           /\ {master', lock'} \subseteq Node \cup {None}
           /\ leaked' \in BOOLEAN
<1>1. Return(n, "idle") /\ UNCHANGED <<master, leaked>> /\ lock' \in {None, lock}
  BY DEF Finish
<1> QED
  BY <1>1, ReturnType DEF TypeOK

LEMMA TypeJoin ==
    ASSUME TypeOK, NEW n \in Node,
           \/ ReadMasterToSync(n) \/ Claim(n) \/ ClaimFails(n)
           \/ Join(n) \/ AlreadyIn(n) \/ PutJoined(n)
    PROVE  TypeOK'
<1> USE DEF Writing, Stages
<1>1. CASE ReadMasterToSync(n)
  <2>1. PICK stage \in {"claim", "join"} :
          pc' = [pc EXCEPT ![n] = stage] /\ pc[n] = "sync"
          /\ UNCHANGED <<shared, late, own, copy, view, stale, changed>>
    BY <1>1 DEF ReadMasterToSync, Goto
  <2>2. role' \in [Node -> {"none", "master", "claimer"}]
    BY <1>1 DEF ReadMasterToSync, TypeOK
  <2> QED
    BY <2>1, <2>2, MoveType DEF TypeOK, CopyType, shared
<1>2. CASE Claim(n)
  <2>1. /\ pc' = [pc EXCEPT ![n] = "join"] /\ pc[n] = "claim" /\ lock' = n /\ master' = n
        /\ UNCHANGED <<execmap, leaked, hosts, late, own, copy, view, stale, changed>>
    BY <1>2 DEF Claim, Goto
  <2>2. role' \in [Node -> {"none", "master", "claimer"}]
    BY <1>2 DEF Claim, TypeOK
  <2> QED
    BY <2>1, <2>2, MoveType DEF TypeOK, CopyType
<1>3. CASE ClaimFails(n)
  BY <1>3, ReturnType DEF ClaimFails, TypeOK, CopyType, shared
<1>4. CASE Join(n)
  <2> DEFINE c == {n} \cup IF execmap = None THEN view[n] ELSE execmap
  <2>1. /\ pc' = [pc EXCEPT ![n] = "putJoined"] /\ copy' = [copy EXCEPT ![n] = c]
        /\ UNCHANGED <<shared, late, own, role>>
    BY <1>4 DEF Join, Goto
  <2>2. c \in Group
    BY DEF TypeOK, Group
  <2>3. c # None /\ c \subseteq Node
    BY <2>2, GroupIsSome DEF Group
  <2>4. /\ view' \in [Node -> Group] /\ stale' \in [Node -> Group]
        /\ changed' \in [Node -> BOOLEAN]
    BY <1>4 DEF Join, TypeOK, Group
  <2> HIDE DEF c
  <2> QED
    BY <2>1, <2>3, <2>4, StepType DEF TypeOK, CopyType, shared
<1>5. CASE AlreadyIn(n)
  BY <1>5, AfterJoinType DEF AlreadyIn, TypeOK, CopyType, shared
<1>6. CASE PutJoined(n)
  <2>1. /\ AfterJoin(n) /\ pc[n] = "putJoined" /\ execmap' = copy[n]
        /\ UNCHANGED <<master, lock, leaked, hosts, late, view, stale, changed>>
    BY <1>6 DEF PutJoined
  <2>2. execmap' \in Group
    BY <2>1 DEF TypeOK, Group
  <2> QED
    BY <2>1, <2>2, AfterJoinType DEF TypeOK, CopyType
<1> QED
  BY <1>1, <1>2, <1>3, <1>4, <1>5, <1>6

LEMMA TypeDeal ==
    ASSUME TypeOK, NEW n \in Node,
           \/ WakeInVain(n) \/ NothingToDeal(n) \/ Deal(n) \/ DealFails(n)
           \/ ClearDealt(n) \/ PutDealt(n)
    PROVE  TypeOK'
<1> USE DEF Writing, Stages
<1>1. ASSUME Assign(n)
      PROVE  /\ hosts' \subseteq Node /\ changed' \in [Node -> BOOLEAN]
             /\ UNCHANGED <<execmap, master, lock, late, view, stale>>
  BY <1>1 DEF Assign, TypeOK, Group
<1>2. CASE WakeInVain(n) \/ NothingToDeal(n)
  <2>1. Finish(n) /\ UNCHANGED <<execmap, hosts, late, view, stale, changed>>
    BY <1>2 DEF WakeInVain, NothingToDeal
  <2> QED
    BY <2>1, FinishType DEF TypeOK, CopyType
<1>3. CASE Deal(n)
  <2>1. /\ pc' = [pc EXCEPT ![n] = "clearDealt"] /\ copy' = [copy EXCEPT ![n] = execmap]
        /\ UNCHANGED <<leaked, own, role>> /\ Assign(n)
    BY <1>3 DEF Deal, Goto
  <2>2. execmap # None /\ execmap \subseteq Node
    BY <1>3 DEF Deal, TypeOK, Group
  <2>3. /\ pc' \in [Node -> Stages] /\ DOMAIN copy' = Node
        /\ \A m \in Node : CopyType(m)'
    BY <2>1, <2>2, StepType
  <2> QED
    BY <1>1, <2>1, <2>3 DEF TypeOK, CopyType
<1>4. CASE DealFails(n)
  <2>1. Return(n, "idle") /\ Assign(n) /\ leaked' \in BOOLEAN
    BY <1>4 DEF DealFails
  <2> QED
    BY <1>1, <2>1, ReturnType DEF TypeOK, CopyType
<1>5. CASE ClearDealt(n)
  <2>1. /\ pc' = [pc EXCEPT ![n] = "putDealt"] /\ pc[n] = "clearDealt" /\ execmap' = None
        /\ UNCHANGED <<master, lock, leaked, hosts, late, locals>>
    BY <1>5 DEF ClearDealt, Goto
  <2> QED
    BY <2>1, MoveType DEF TypeOK, CopyType, locals
<1>6. CASE PutDealt(n)
  <2>1. /\ Finish(n) /\ pc[n] = "putDealt" /\ execmap' = copy[n]
        /\ UNCHANGED <<hosts, late, view, stale, changed>>
    BY <1>6 DEF PutDealt
  <2>2. execmap' \in Group
    BY <2>1 DEF TypeOK, Group
  <2> QED
    BY <2>1, <2>2, FinishType DEF TypeOK, CopyType
<1> QED
  BY <1>2, <1>3, <1>4, <1>5, <1>6

LEMMA TypeStep == TypeOK /\ [Next]_vars => TypeOK'
<1> SUFFICES ASSUME TypeOK, [Next]_vars
             PROVE  TypeOK'
  OBVIOUS
<1>1. CASE UNCHANGED vars
  BY <1>1 DEF vars, shared, locals, TypeOK
<1>2. CASE Next
  BY <1>2, TypeEnvironment, TypeHeartbeat, TypeCheckHost, TypeJoin, TypeDeal
  DEF Next, Handle, SycCompute
<1> QED
  BY <1>1, <1>2

\* Every variable keeps its type, and whoever is about to write EXECMAP has a
\* group to write, although others empty it at any time.
THEOREM TypeCorrect == Spec => []TypeOK
  BY TypeInit, TypeStep, PTL DEF Spec

-----------------------------------------------------------------------------
(* The CP lock                                                             *)

\* Where the process that has claimed to be the master may be.
Claiming == {"join", "putJoined", "sleep", "clearDealt", "putDealt"}

\* Whoever has the role is inside: all other returns happen without it.
ClaimInside == \A n \in Node : role[n] = "claimer" => pc[n] \in Claiming

\* A step of one process that leaves its role alone and does not lead out of the claim.
LEMMA ClaimMove ==
    ASSUME TypeOK, ClaimInside, NEW n \in Node, NEW stage,
           pc' = [pc EXCEPT ![n] = stage], UNCHANGED role,
           pc[n] \in Claiming => stage \in Claiming
    PROVE  ClaimInside'
BY DEF TypeOK, ClaimInside

\* A return, after which the process has no role.
LEMMA ClaimReturn ==
    ASSUME TypeOK, ClaimInside, NEW n \in Node, NEW stage, Return(n, stage)
    PROVE  ClaimInside'
BY DEF TypeOK, ClaimInside, Return, Goto

LEMMA ClaimInit == Init => ClaimInside
BY DEF Init, ClaimInside

LEMMA ClaimEnvironment ==
    ASSUME TypeOK, ClaimInside
    PROVE  /\ SessionExpires => ClaimInside'
           /\ Silence => ClaimInside'
           /\ \A n \in Node : Start(n) => ClaimInside'
           /\ \A n \in Node : Crash(n) => ClaimInside'
           /\ \A n, s \in Node : Heartbeat(n, s) \/ LateHeartbeat(n, s) => ClaimInside'
<1>1. SessionExpires \/ Silence => ClaimInside'
  BY DEF SessionExpires, Silence, locals, ClaimInside
<1>2. ASSUME NEW n \in Node, Start(n) PROVE ClaimInside'
  BY <1>2, ClaimMove DEF Start, Goto, locals, Claiming
<1>3. ASSUME NEW n \in Node, Crash(n) PROVE ClaimInside'
  BY <1>3, ClaimReturn DEF Crash
<1>4. ASSUME NEW n \in Node, NEW s \in Node, Heartbeat(n, s) \/ LateHeartbeat(n, s)
      PROVE  ClaimInside'
  <2>1. PICK stage \in {"check", "putHost"} :
          pc' = [pc EXCEPT ![n] = stage] /\ pc[n] = "idle" /\ UNCHANGED role
    BY <1>4 DEF Heartbeat, LateHeartbeat, HostUpdate, Goto
  <2> QED
    BY <2>1, ClaimMove DEF Claiming
<1> QED
  BY <1>1, <1>2, <1>3, <1>4

LEMMA ClaimCheckHost ==
    ASSUME TypeOK, ClaimInside, NEW n \in Node, PutHost(n) \/ CheckHost(n)
    PROVE  ClaimInside'
<1>1. CASE SkipCheck(n) \/ PutChecked(n)
  <2>1. AfterCheck(n) /\ pc[n] \in {"check", "put"}
    BY <1>1 DEF SkipCheck, PutChecked
  <2>2. CASE own[n]
    BY <2>1, <2>2, ClaimMove DEF AfterCheck, Goto, Claiming
  <2>3. CASE ~own[n]
    BY <2>1, <2>3, ClaimReturn DEF AfterCheck
  <2> QED
    BY <2>2, <2>3
<1>2. CASE ExamineFails(n)
  BY <1>2, ClaimReturn DEF ExamineFails
<1>3. CASE PutHost(n) \/ ReadMaster(n) \/ DropMaster(n) \/ Examine(n) \/ ClearExecmap(n)
  <2>1. PICK stage \in {"check", "examine", "dropMaster", "clear", "put"} :
          /\ pc' = [pc EXCEPT ![n] = stage]
          /\ pc[n] \in {"putHost", "check", "dropMaster", "examine", "clear"}
          /\ UNCHANGED role
    BY <1>3 DEF PutHost, ReadMaster, DropMaster, Examine, ClearExecmap, Goto, locals
  <2> QED
    BY <2>1, ClaimMove DEF Claiming
<1> QED
  BY <1>1, <1>2, <1>3 DEF CheckHost

LEMMA ClaimSycCompute ==
    ASSUME TypeOK, ClaimInside, NEW n \in Node, SycCompute(n)
    PROVE  ClaimInside'
<1>1. CASE ReadMasterToSync(n)
  <2>1. PICK stage \in {"claim", "join"}, as \in {"none", "master"} :
          pc' = [pc EXCEPT ![n] = stage] /\ role' = [role EXCEPT ![n] = as]
    BY <1>1 DEF ReadMasterToSync, Goto
  <2> QED
    BY <2>1 DEF TypeOK, ClaimInside
<1>2. CASE Claim(n)
  <2>1. pc' = [pc EXCEPT ![n] = "join"] /\ role' = [role EXCEPT ![n] = "claimer"]
    BY <1>2 DEF Claim, Goto
  <2> QED
    BY <2>1 DEF TypeOK, ClaimInside, Claiming
<1>3. CASE Join(n) \/ Deal(n) \/ ClearDealt(n)
  <2>1. PICK stage \in {"putJoined", "clearDealt", "putDealt"} :
          pc' = [pc EXCEPT ![n] = stage] /\ UNCHANGED role
    BY <1>3 DEF Join, Deal, ClearDealt, Goto, locals
  <2> QED
    BY <2>1, ClaimMove DEF Claiming
<1>4. CASE AlreadyIn(n) \/ PutJoined(n)
  <2>1. AfterJoin(n)
    BY <1>4 DEF AlreadyIn, PutJoined
  <2>2. CASE role[n] = "none"
    BY <2>1, <2>2, ClaimReturn DEF AfterJoin
  <2>3. CASE role[n] # "none"
    BY <2>1, <2>3, ClaimMove DEF AfterJoin, Goto, Claiming
  <2> QED
    BY <2>2, <2>3
<1>5. CASE \/ ClaimFails(n) \/ WakeInVain(n) \/ NothingToDeal(n)
           \/ DealFails(n) \/ PutDealt(n)
  BY <1>5, ClaimReturn
  DEF ClaimFails, WakeInVain, NothingToDeal, DealFails, PutDealt, Finish
<1> QED
  BY <1>1, <1>2, <1>3, <1>4, <1>5 DEF SycCompute

LEMMA ClaimStep == TypeOK /\ ClaimInside /\ [Next]_vars => ClaimInside'
<1> SUFFICES ASSUME TypeOK, ClaimInside, [Next]_vars
             PROVE  ClaimInside'
  OBVIOUS
<1>1. CASE UNCHANGED vars
  BY <1>1 DEF vars, locals, ClaimInside
<1>2. CASE Next
  BY <1>2, ClaimEnvironment, ClaimCheckHost, ClaimSycCompute DEF Next, Handle
<1> QED
  BY <1>1, <1>2

\* A process that is through with its claim has given the lock back, unless it has
\* crashed, execDistrib has failed, or it had failed in an earlier claim.
THEOREM ClaimsGiveBack == Spec => LockOutlivesClaim
<1> DEFINE Given(n) == role[n] = "claimer" /\ role'[n] # "claimer" /\ lock' = n =>
                          leaked \/ DealFails(n) \/ pc'[n] = "down"
<1>1. ASSUME TypeOK, ClaimInside, Next, NEW n \in Node
      PROVE  Given(n)
  <2>1. CASE SessionExpires \/ Silence
    BY <2>1 DEF SessionExpires, Silence, locals
  <2>2. CASE \E m \in Node : Start(m) \/ Crash(m)
    BY <1>1, <2>2 DEF Start, Crash, Return, Goto, locals, TypeOK
  <2>3. CASE \E m, s \in Node : Heartbeat(m, s) \/ LateHeartbeat(m, s)
    BY <2>3 DEF Heartbeat, LateHeartbeat, HostUpdate
  <2>4. ASSUME NEW m \in Node, PutHost(m) \/ CheckHost(m)
        PROVE  Given(n)
    <3>1. role[m] # "claimer"
      BY <1>1, <2>4 DEF ClaimInside, Claiming, PutHost, CheckHost, SkipCheck, ReadMaster,
                        DropMaster, Examine, ExamineFails, ClearExecmap, PutChecked
    <3>2. \A k \in Node \ {m} : role'[k] = role[k]
      BY <1>1, <2>4 DEF PutHost, CheckHost, SkipCheck, ReadMaster, DropMaster, Examine,
                        ExamineFails, ClearExecmap, PutChecked, AfterCheck, Return,
                        locals, TypeOK
    <3> QED
      BY <3>1, <3>2
  <2>5. ASSUME NEW m \in Node,
               \/ ReadMasterToSync(m) \/ Claim(m) \/ ClaimFails(m)
               \/ Join(m) \/ AlreadyIn(m) \/ PutJoined(m)
               \/ Deal(m) \/ DealFails(m) \/ ClearDealt(m)
        PROVE  Given(n)
    <3>1. ReadMasterToSync(m) \/ ClaimFails(m) => role[m] # "claimer"
      BY <1>1 DEF ClaimInside, Claiming, ReadMasterToSync, ClaimFails
    <3> QED
      BY <1>1, <2>5, <3>1
      DEF ReadMasterToSync, Claim, ClaimFails, Join, AlreadyIn, PutJoined, AfterJoin,
          Deal, DealFails, ClearDealt, Return, locals, TypeOK
  <2>6. ASSUME NEW m \in Node, WakeInVain(m) \/ NothingToDeal(m) \/ PutDealt(m)
        PROVE  Given(n)
    <3>1. Finish(m)
      BY <2>6 DEF WakeInVain, NothingToDeal, PutDealt
    <3>2. \A k \in Node \ {m} : role'[k] = role[k]
      BY <1>1, <3>1 DEF Finish, Return, TypeOK
    <3>3. role[m] = "claimer" => leaked \/ lock' = None
      BY <3>1 DEF Finish
    <3> QED
      BY <3>2, <3>3, NoneAssumption
  <2> QED
    BY <1>1, <2>1, <2>2, <2>3, <2>4, <2>5, <2>6 DEF Next, Handle, SycCompute
<1>2. TypeOK /\ ClaimInside /\ [Next]_vars => [\A n \in Node : Given(n)]_vars
  BY <1>1
<1>3. Spec => []ClaimInside
  BY ClaimInit, ClaimStep, TypeCorrect, PTL DEF Spec
<1> QED
  BY <1>2, <1>3, TypeCorrect, PTL DEF Spec, LockOutlivesClaim

-----------------------------------------------------------------------------
(* The mark of a change                                                    *)

\* A process that knows of a change answers it by dealing anew; otherwise only a
\* crash, or the loss of its whole view, makes it forget.
THEOREM ChangesAnswered == Spec => NoChangeForgotten
<1> DEFINE Kept(n) == changed[n] /\ ~changed'[n] =>
                         pc[n] = "sleep" \/ pc'[n] = "down" \/ view[n] = {}
<1>1. ASSUME TypeOK, Next, NEW n \in Node
      PROVE  Kept(n)
  <2>1. CASE SessionExpires \/ Silence
    BY <2>1 DEF SessionExpires, Silence, locals
  <2>2. CASE \E m \in Node : Start(m) \/ Crash(m)
    BY <1>1, <2>2 DEF Start, Crash, Return, Goto, locals, TypeOK
  <2>3. CASE \E m, s \in Node : Heartbeat(m, s) \/ LateHeartbeat(m, s)
    BY <1>1, <2>3 DEF Heartbeat, LateHeartbeat, HostUpdate, TypeOK
  <2>4. CASE \E m \in Node : PutHost(m) \/ CheckHost(m)
    BY <1>1, <2>4 DEF PutHost, CheckHost, SkipCheck, ReadMaster, DropMaster, Examine,
                      ExamineFails, ClearExecmap, PutChecked, locals, TypeOK
  <2>5. CASE \E m \in Node : SycCompute(m)
    BY <1>1, <2>5 DEF SycCompute, ReadMasterToSync, Claim, ClaimFails, Join, AlreadyIn,
                      PutJoined, WakeInVain, NothingToDeal, Deal, DealFails, Assign,
                      ClearDealt, PutDealt, locals, TypeOK
  <2> QED
    BY <1>1, <2>1, <2>2, <2>3, <2>4, <2>5 DEF Next, Handle
<1>2. TypeOK /\ [Next]_vars => [\A n \in Node : Kept(n)]_vars
  BY <1>1
<1> QED
  BY <1>2, TypeCorrect, PTL DEF Spec, NoChangeForgotten

=============================================================================
