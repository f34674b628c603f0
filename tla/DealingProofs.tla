--------------------------- MODULE DealingProofs ---------------------------
(***************************************************************************)
(* Lemmas about Dealing: what a round of dealing gives to whom, for any    *)
(* hosts, tasks and iteration orders.                                      *)
(***************************************************************************)
EXTENDS Dealing, FiniteSetTheorems, SequenceTheorems, TLAPS

LEMMA GroupSize ==
    ASSUME NEW G \in Groups
    PROVE  Cardinality(G) \in Nat \ {0}
<1>1. IsFiniteSet(G)
  BY NodeAssumption, FS_Subset DEF Groups
<1>2. Cardinality(G) \in Nat
  BY <1>1, FS_CardinalityType
<1>3. G # {}
  BY DEF Groups
<1>4. Cardinality(G) # 0
  BY <1>1, <1>3, FS_EmptySet
<1> QED
  BY <1>2, <1>4

\* The index computed for a task is that of a host.
LEMMA SlotInRange ==
    ASSUME NEW start \in Nat, NEW i \in Nat, NEW size \in Nat \ {0}
    PROVE  Slot(start, i, size) \in 0..(size - 1)
<1>1. i * (i + 1) \in Nat
  OBVIOUS
<1> DEFINE far == start + (i * (i + 1)) \div 2
<1>2. far \in Nat
  BY <1>1
<1> HIDE DEF far
<1>3. far % size \in 0..(size - 1)
  BY <1>2
<1> QED
  BY <1>3 DEF Slot, far

\* An order of a set of tasks lists its elements, none of them twice.
LEMMA OrderOfTasks ==
    ASSUME NEW S, NEW order \in SetToSeqs(S)
    PROVE  /\ DOMAIN order \subseteq Nat \ {0}
           /\ \A i \in DOMAIN order : order[i] \in S
           /\ \A i, j \in DOMAIN order : order[i] = order[j] => i = j
BY DEF SetToSeqs

\* A round gives each task of the order one host of the group.
LEMMA DealtEntries ==
    ASSUME NEW S, NEW order \in SetToSeqs(S), NEW G \in Groups, NEW start \in Nat
    PROVE  /\ Dealt(order, G, start) \subseteq G \X S
           /\ \A d, e \in Dealt(order, G, start) : d[2] = e[2] => d = e
<1> DEFINE host(i) == HostAt(G, Slot(start, i - 1, Cardinality(G)))
<1>1. ASSUME NEW i \in DOMAIN order
      PROVE  host(i) \in G
  <2>1. i - 1 \in Nat
    BY OrderOfTasks
  <2>2. Slot(start, i - 1, Cardinality(G)) \in 0..(Cardinality(G) - 1)
    BY <2>1, GroupSize, SlotInRange
  <2> QED
    BY <2>2, HostAtAssumption DEF Groups
<1>2. Dealt(order, G, start) = {<<host(i), order[i]>> : i \in DOMAIN order}
  BY DEF Dealt
<1> HIDE DEF host
<1>3. Dealt(order, G, start) \subseteq G \X S
  BY <1>1, <1>2, OrderOfTasks
<1>4. ASSUME NEW d \in Dealt(order, G, start), NEW e \in Dealt(order, G, start),
             d[2] = e[2]
      PROVE  d = e
  <2>1. PICK i \in DOMAIN order : d = <<host(i), order[i]>>
    BY <1>2
  <2>2. PICK j \in DOMAIN order : e = <<host(j), order[j]>>
    BY <1>2
  <2>3. i = j
    BY <1>4, <2>1, <2>2, OrderOfTasks
  <2> QED
    BY <2>1, <2>2, <2>3
<1> QED
  BY <1>3, <1>4

\* What is gathered was in use.
LEMMA GatheredTasks ==
    ASSUME NEW u, NEW list \in SetToSeqs(u)
    PROVE  Gathered(list) \subseteq TasksOf(u)
<1>1. \A i \in DOMAIN list : list[i] \in u
  BY OrderOfTasks
<1> QED
  BY <1>1 DEF Gathered, TasksOf

-----------------------------------------------------------------------------
(* The loops of adjustDistrib and useGroupDistrib                          *)

\* Induction over Nat without an operator parameter: a set of naturals has a
\* least element ...
LEMMA LeastNat ==
    ASSUME NEW S \in SUBSET Nat, S # {}
    PROVE  \E m \in S : \A k \in S : m <= k
<1> DEFINE R == {p \in Nat \X Nat : p[1] < p[2]}
<1>1. IsWellFoundedOn(R, Nat)
  BY NatLessThanWellFounded, Zenon DEF OpToRel
<1>2. \A x, y \in Nat : x < y => <<x, y>> \in R
  OBVIOUS
<1> HIDE DEF R
<1>3. PICK m \in S : \A k \in S : ~(<<k, m>> \in R)
  BY <1>1, WFMin
<1>4. \A k \in S : m <= k
  <2>1. SUFFICES ASSUME NEW k \in S, k < m
                 PROVE  FALSE
    BY <1>3
  <2>2. k \in Nat /\ m \in Nat
    OBVIOUS
  <2> QED
    BY <1>2, <1>3, <2>1, <2>2
<1> QED
  BY <1>4

\* ... so that a set with 0 and with the successors of its elements holds all.
LEMMA NatSetInduction ==
    ASSUME NEW S, 0 \in S, \A n \in Nat : n \in S => n + 1 \in S
    PROVE  Nat \subseteq S
<1>1. SUFFICES ASSUME Nat \ S # {}
               PROVE  FALSE
  OBVIOUS
<1>2. PICK m \in Nat \ S : \A k \in Nat \ S : m <= k
  BY <1>1, LeastNat
<1>3. m # 0 /\ m - 1 \in Nat /\ m - 1 \notin Nat \ S
  BY <1>2
<1> QED
  BY <1>2, <1>3

\* Quotient and remainder, as witnesses.
LEMMA DivMod ==
    ASSUME NEW a \in Nat, NEW m \in Nat \ {0}
    PROVE  \E q \in Nat, r \in 0..(m - 1) : a = m * q + r /\ r = a % m
<1>1. /\ a \div m \in Nat
      /\ a % m \in 0..(m - 1)
      /\ a = m * (a \div m) + (a % m)
  OBVIOUS
<1> QED
  BY <1>1

\* A number has one remainder.
LEMMA RemainderUnique ==
    ASSUME NEW m \in Nat \ {0}, NEW p \in Nat, NEW q \in Nat,
           NEW r \in 0..(m - 1), NEW s \in 0..(m - 1), m * p + r = m * q + s
    PROVE  r = s
<1>1. CASE p < q
  <2>1. m * p + m <= m * q
    <3>1. q - p >= 1 /\ m * (q - p) >= m
      BY <1>1
    <3>2. m * q = m * p + m * (q - p)
      OBVIOUS
    <3> QED
      BY <3>1, <3>2
  <2> QED
    BY <2>1
<1>2. CASE q < p
  <2>1. m * q + m <= m * p
    <3>1. p - q >= 1 /\ m * (p - q) >= m
      BY <1>2
    <3>2. m * p = m * q + m * (p - q)
      OBVIOUS
    <3> QED
      BY <3>1, <3>2
  <2> QED
    BY <2>1
<1>3. CASE p = q
  BY <1>3
<1> QED
  BY <1>1, <1>2, <1>3

\* Reducing a summand changes no remainder.
LEMMA ModOfSum ==
    ASSUME NEW a \in Nat, NEW b \in Nat, NEW m \in Nat \ {0}
    PROVE  (b + (a % m)) % m = (a + b) % m
<1>1. PICK q \in Nat, r \in 0..(m - 1) : a = m * q + r /\ r = a % m
  BY DivMod
<1>2. PICK p \in Nat, s \in 0..(m - 1) : b + r = m * p + s /\ s = (b + r) % m
  <2>1. PICK c \in Nat : c = b + r
    OBVIOUS
  <2> QED
    BY <2>1, DivMod
<1>3. PICK k \in Nat, t \in 0..(m - 1) : a + b = m * k + t /\ t = (a + b) % m
  <2>1. PICK c \in Nat : c = a + b
    OBVIOUS
  <2> QED
    BY <2>1, DivMod
<1>4. q + p \in Nat /\ m * (q + p) + s = m * k + t
  <2>1. m * (q + p) = m * q + m * p
    OBVIOUS
  <2>2. m * q + (m * p + s) = m * k + t
    BY <1>1, <1>2, <1>3
  <2> QED
    BY <2>1, <2>2
<1>5. s = t
  BY <1>4, RemainderUnique
<1> QED
  BY <1>1, <1>2, <1>3, <1>5

\* Slot advances as the loop of adjustDistrib does: cnt = (i + cnt) % size.
LEMMA SlotStep ==
    ASSUME NEW start \in Nat, NEW i \in Nat, NEW size \in Nat \ {0}
    PROVE  Slot(start, i + 1, size) = (i + 1 + Slot(start, i, size)) % size
<1> DEFINE half == (i * (i + 1)) \div 2
<1>1. half \in Nat /\ ((i + 1) * (i + 1 + 1)) \div 2 = half + (i + 1)
  <2>1. i * (i + 1) \in Nat /\ (i + 1) * (i + 1 + 1) = i * (i + 1) + 2 * (i + 1)
    OBVIOUS
  <2>2. \A p \in Nat : p \div 2 \in Nat /\ (p + 2 * (i + 1)) \div 2 = p \div 2 + (i + 1)
    OBVIOUS
  <2> QED
    BY <2>1, <2>2
<1>2. Slot(start, i, size) = (start + half) % size
  BY DEF Slot
<1>3. Slot(start, i + 1, size) = (start + (half + (i + 1))) % size
  BY <1>1 DEF Slot
<1> HIDE DEF half
<1>4. start + half \in Nat /\ start + (half + (i + 1)) = (start + half) + (i + 1)
  BY <1>1
<1>5. ((i + 1) + ((start + half) % size)) % size = ((start + half) + (i + 1)) % size
  <2>1. PICK c \in Nat, d \in Nat : c = start + half /\ d = i + 1
    BY <1>4
  <2>2. (d + (c % size)) % size = (c + d) % size
    BY ModOfSum
  <2> QED
    BY <2>1, <2>2
<1> QED
  BY <1>2, <1>3, <1>4, <1>5

\* The loop of adjustDistrib sends each task to the host Slot computes for it, for
\* every number of tasks and hosts.
THEOREM SlotLoopIsSlot ==
    ASSUME NEW start \in Nat, NEW size \in Nat \ {0}
    PROVE  \A i \in Nat : SlotLoop(start, size)[i] = Slot(start, i, size)
<1> DEFINE next(f, i) == (i + (IF i = 0 THEN start ELSE f[i - 1])) % size
           loop == SlotLoop(start, size)
           slots == [i \in Nat |-> Slot(start, i, size)]
<1>1. loop = CHOOSE f : f = [i \in Nat |-> next(f, i)]
  BY DEF SlotLoop
<1>2. Slot(start, 0, size) = next(slots, 0)
  BY DEF Slot
<1>3. ASSUME NEW i \in Nat \ {0}
      PROVE  Slot(start, i, size) = next(slots, i)
  <2>1. i - 1 \in Nat /\ (i - 1) + 1 = i
    OBVIOUS
  <2>2. Slot(start, i, size) = (i + Slot(start, i - 1, size)) % size
    BY <2>1, SlotStep
  <2> QED
    BY <2>1, <2>2
<1>4. slots = [i \in Nat |-> next(slots, i)]
  BY <1>2, <1>3
<1> HIDE DEF slots, loop, next
<1>5. loop = [i \in Nat |-> next(loop, i)]
  BY <1>1, <1>4
<1> DEFINE Same == {i \in Nat : loop[i] = Slot(start, i, size)}
<1>6. 0 \in Same
  BY <1>5 DEF next, Slot
<1>7. ASSUME NEW n \in Nat, n \in Same
      PROVE  n + 1 \in Same
  <2>1. n + 1 \in Nat /\ n + 1 # 0 /\ (n + 1) - 1 = n
    OBVIOUS
  <2>2. loop[n + 1] = (n + 1 + loop[n]) % size
    BY <1>5, <2>1 DEF next
  <2> QED
    BY <1>7, <2>1, <2>2, SlotStep
<1>8. Nat \subseteq Same
  <2> HIDE DEF Same
  <2> QED
    BY <1>6, <1>7, NatSetInduction
<1> QED
  BY <1>8 DEF loop

\* Among three hosts only the first and the second from the start are reached:
\* 1 + 2 + ... + i is never 2 modulo 3.
LEMMA SlotOfThree ==
    ASSUME NEW start \in Nat
    PROVE  \A i \in Nat : Slot(start, i, 3) # (start + 2) % 3
<1> DEFINE far(i) == (i * (i + 1)) \div 2
           T == {i \in Nat : far(i) \in Nat /\ far(i) % 3 = IF i % 3 = 1 THEN 1 ELSE 0}
<1>1. 0 \in T
  OBVIOUS
<1>2. ASSUME NEW n \in Nat, n \in T
      PROVE  n + 1 \in T
  <2>1. n * (n + 1) \in Nat /\ (n + 1) * (n + 1 + 1) = n * (n + 1) + 2 * (n + 1)
    OBVIOUS
  <2>2. \A p \in Nat : (p + 2 * (n + 1)) \div 2 = p \div 2 + (n + 1)
    OBVIOUS
  <2>3. far(n + 1) = far(n) + (n + 1)
    BY <2>1, <2>2
  <2>4. far(n) \in Nat /\ far(n) % 3 = IF n % 3 = 1 THEN 1 ELSE 0
    BY <1>2
  <2> HIDE DEF far
  <2>5. (far(n) + (n + 1)) % 3 = IF (n + 1) % 3 = 1 THEN 1 ELSE 0
    BY <2>4
  <2> QED
    BY <2>3, <2>4, <2>5
<1>3. Nat \subseteq T
  <2> HIDE DEF T
  <2> QED
    BY <1>1, <1>2, NatSetInduction
<1>4. ASSUME NEW i \in Nat
      PROVE  Slot(start, i, 3) # (start + 2) % 3
  <2>1. far(i) \in Nat /\ far(i) % 3 \in {0, 1}
    BY <1>3
  <2>2. Slot(start, i, 3) = (start + far(i)) % 3
    BY DEF Slot
  <2> HIDE DEF far
  <2> QED
    BY <2>1, <2>2
<1> QED
  BY <1>4

\* Removing an entry moves those behind it one place forward.
LEMMA RemoveAtProperties ==
    ASSUME NEW S, NEW s \in Seq(S), NEW i \in 1..Len(s)
    PROVE  /\ RemoveAt(s, i) \in Seq(S)
           /\ Len(RemoveAt(s, i)) = Len(s) - 1
           /\ \A j \in 1..(Len(s) - 1) :
                 RemoveAt(s, i)[j] = IF j < i THEN s[j] ELSE s[j + 1]
<1>1. Len(s) \in Nat /\ \A j \in 1..Len(s) : s[j] \in S
  OBVIOUS
<1> DEFINE front == SubSeq(s, 1, i - 1)
           rear == SubSeq(s, i + 1, Len(s))
<1>2. /\ front \in Seq(S)
      /\ Len(front) = i - 1
      /\ \A j \in 1..(i - 1) : front[j] = s[j]
  <2>1. \A j \in 1..(i - 1) : s[j] \in S
    BY <1>1
  <2> QED
    BY <1>1, <2>1, SubSeqProperties
<1>3. /\ rear \in Seq(S)
      /\ Len(rear) = Len(s) - i
      /\ \A j \in 1..(Len(s) - i) : rear[j] = s[i + j]
  <2>1. \A j \in (i + 1)..Len(s) : s[j] \in S
    BY <1>1
  <2>2. /\ rear \in Seq(S)
        /\ Len(rear) = IF i + 1 <= Len(s) THEN Len(s) - (i + 1) + 1 ELSE 0
        /\ \A j \in 1..(Len(s) - (i + 1) + 1) : rear[j] = s[(i + 1) + j - 1]
    BY <1>1, <2>1, SubSeqProperties
  <2> HIDE DEF rear
  <2> QED
    BY <1>1, <2>2
<1>4. RemoveAt(s, i) = front \o rear
  BY DEF RemoveAt
<1> HIDE DEF front, rear
<1>5. /\ front \o rear \in Seq(S)
      /\ Len(front \o rear) = Len(front) + Len(rear)
      /\ \A j \in 1..(Len(front) + Len(rear)) :
            (front \o rear)[j] = IF j <= Len(front) THEN front[j] ELSE rear[j - Len(front)]
  BY <1>2, <1>3, ConcatProperties
<1>6. Len(front) + Len(rear) = Len(s) - 1
  BY <1>1, <1>2, <1>3
<1>7. ASSUME NEW j \in 1..(Len(s) - 1)
      PROVE  RemoveAt(s, i)[j] = IF j < i THEN s[j] ELSE s[j + 1]
  <2>1. CASE j < i
    BY <1>1, <1>2, <1>4, <1>5, <1>6, <2>1
  <2>2. CASE ~(j < i)
    <3>1. j - Len(front) \in 1..(Len(s) - i) /\ i + (j - Len(front)) = j + 1
      BY <1>1, <1>2, <2>2
    <3>2. rear[j - Len(front)] = s[i + (j - Len(front))]
      BY <1>3, <3>1
    <3> QED
      BY <1>1, <1>2, <1>4, <1>5, <1>6, <2>2, <3>1, <3>2
  <2> QED
    BY <2>1, <2>2
<1> QED
  BY <1>4, <1>5, <1>6, <1>7

-----------------------------------------------------------------------------
(* The loop of useGroupDistrib in closed form: after k passes every other of the
   first 2k entries is gone, and as many passes as half the entries end it.   *)

LeftAfter(list, k) ==
    [j \in 1..(Len(list) - k) |-> IF j <= k THEN list[2 * j] ELSE list[j + k]]
GatheredAfter(list, k) == {list[i][2] : i \in {j \in DOMAIN list : j % 2 = 1 /\ j < 2 * k}}
PassesOver(list) == (Len(list) + 1) \div 2
StateAfter(list, k) ==
    [list |-> LeftAfter(list, IF k <= PassesOver(list) THEN k ELSE PassesOver(list)),
     use  |-> GatheredAfter(list, k)]

\* What is left is a list, shorter by one entry a pass.
LEMMA LeftProperties ==
    ASSUME NEW S, NEW list \in Seq(S)
    PROVE  \A k \in Nat : k <= PassesOver(list)
              => LeftAfter(list, k) \in Seq(S) /\ Len(LeftAfter(list, k)) = Len(list) - k
<1> SUFFICES ASSUME NEW k \in Nat, k <= PassesOver(list)
             PROVE  LeftAfter(list, k) \in Seq(S) /\ Len(LeftAfter(list, k)) = Len(list) - k
  OBVIOUS
<1>1. Len(list) \in Nat /\ DOMAIN list = 1..Len(list) /\ \A j \in 1..Len(list) : list[j] \in S
  OBVIOUS
<1>2. 2 * k <= Len(list) + 1 /\ Len(list) - k \in Nat
  BY <1>1 DEF PassesOver
<1>3. \A j \in 1..(Len(list) - k) : (IF j <= k THEN list[2 * j] ELSE list[j + k]) \in S
  BY <1>1, <1>2
<1> QED
  BY <1>2, <1>3 DEF LeftAfter

\* The closed form advances as the loop of useGroupDistrib does.
LEMMA PassStep ==
    ASSUME NEW S, NEW list \in Seq(S), NEW k \in Nat
    PROVE  StateAfter(list, k + 1) = GatherPass(StateAfter(list, k), k)
<1> DEFINE n == Len(list)
           m == PassesOver(list)
<1>1. n \in Nat /\ m \in Nat /\ DOMAIN list = 1..n /\ \A j \in 1..n : list[j] \in S
  BY DEF PassesOver
<1>2. k < m <=> 2 * k < n
  BY <1>1 DEF PassesOver
<1>3. CASE k < m
  <2>1. StateAfter(list, k) = [list |-> LeftAfter(list, k), use |-> GatheredAfter(list, k)]
    BY <1>1, <1>3 DEF StateAfter
  <2>2. StateAfter(list, k + 1)
          = [list |-> LeftAfter(list, k + 1), use |-> GatheredAfter(list, k + 1)]
    BY <1>1, <1>3 DEF StateAfter
  <2>3. LeftAfter(list, k) \in Seq(S) /\ Len(LeftAfter(list, k)) = n - k /\ k + 1 \in 1..(n - k)
    <3>1. k <= PassesOver(list) /\ k + 1 \in 1..(n - k)
      BY <1>1, <1>2, <1>3
    <3> QED
      BY <3>1, LeftProperties
  <2>4. LeftAfter(list, k + 1) \in Seq(S) /\ Len(LeftAfter(list, k + 1)) = n - (k + 1)
    <3>1. k + 1 \in Nat /\ k + 1 <= PassesOver(list)
      BY <1>1, <1>3
    <3> QED
      BY <3>1, LeftProperties
  <2>5. LeftAfter(list, k)[k + 1] = list[2 * k + 1]
    BY <1>1, <2>3 DEF LeftAfter
  <2>6. GatheredAfter(list, k + 1) = GatheredAfter(list, k) \cup {list[2 * k + 1][2]}
    <3>1. {j \in DOMAIN list : j % 2 = 1 /\ j < 2 * (k + 1)}
            = {j \in DOMAIN list : j % 2 = 1 /\ j < 2 * k} \cup {2 * k + 1}
      BY <1>1, <1>2, <1>3
    <3> QED
      BY <3>1 DEF GatheredAfter
  <2>7. RemoveAt(LeftAfter(list, k), k + 1) = LeftAfter(list, k + 1)
    <3>1. /\ RemoveAt(LeftAfter(list, k), k + 1) \in Seq(S)
          /\ Len(RemoveAt(LeftAfter(list, k), k + 1)) = (n - k) - 1
          /\ \A j \in 1..((n - k) - 1) :
                RemoveAt(LeftAfter(list, k), k + 1)[j]
                  = IF j < k + 1 THEN LeftAfter(list, k)[j] ELSE LeftAfter(list, k)[j + 1]
      BY <2>3, RemoveAtProperties
    <3>2. (n - k) - 1 = n - (k + 1)
      BY <1>1
    <3>3. ASSUME NEW j \in 1..(n - (k + 1))
          PROVE  RemoveAt(LeftAfter(list, k), k + 1)[j] = LeftAfter(list, k + 1)[j]
      <4>1. j \in 1..(n - k) /\ j + 1 \in 1..(n - k)
        BY <1>1
      <4>2. CASE j < k + 1
        <5>1. LeftAfter(list, k)[j] = list[2 * j]
          BY <1>1, <4>1, <4>2 DEF LeftAfter
        <5>2. LeftAfter(list, k + 1)[j] = list[2 * j]
          BY <1>1, <4>2 DEF LeftAfter
        <5> QED
          BY <3>1, <3>2, <4>2, <5>1, <5>2
      <4>3. CASE j = k + 1
        <5>1. LeftAfter(list, k)[j + 1] = list[(j + 1) + k]
          BY <1>1, <4>1, <4>3 DEF LeftAfter
        <5>2. LeftAfter(list, k + 1)[j] = list[2 * j]
          BY <1>1, <4>3 DEF LeftAfter
        <5>3. 2 * j = (j + 1) + k
          BY <4>3
        <5> QED
          BY <3>1, <3>2, <4>3, <5>1, <5>2, <5>3
      <4>4. CASE j > k + 1
        <5>1. LeftAfter(list, k)[j + 1] = list[(j + 1) + k]
          BY <1>1, <4>1, <4>4 DEF LeftAfter
        <5>2. LeftAfter(list, k + 1)[j] = list[j + (k + 1)]
          BY <1>1, <4>4 DEF LeftAfter
        <5>3. j + (k + 1) = (j + 1) + k
          BY <1>1
        <5> QED
          BY <3>1, <3>2, <4>4, <5>1, <5>2, <5>3
      <4> QED
        BY <1>1, <4>2, <4>3, <4>4
    <3>4. Len(RemoveAt(LeftAfter(list, k), k + 1)) = Len(LeftAfter(list, k + 1))
      BY <2>4, <3>1, <3>2
    <3> QED
      BY <2>4, <3>1, <3>3, <3>4, SeqEqual
  <2>8. GatherPass(StateAfter(list, k), k)
          = [list |-> RemoveAt(LeftAfter(list, k), k + 1),
             use  |-> GatheredAfter(list, k) \cup {LeftAfter(list, k)[k + 1][2]}]
    <3>1. /\ StateAfter(list, k).list = LeftAfter(list, k)
          /\ StateAfter(list, k).use = GatheredAfter(list, k)
      BY <2>1
    <3>2. ~(k >= Len(LeftAfter(list, k)))
      BY <1>1, <2>3
    <3> QED
      BY <3>1, <3>2 DEF GatherPass
  <2> QED
    BY <2>2, <2>5, <2>6, <2>7, <2>8
<1>4. CASE ~(k < m)
  <2>1. StateAfter(list, k) = [list |-> LeftAfter(list, m), use |-> GatheredAfter(list, k)]
    BY <1>1, <1>4 DEF StateAfter
  <2>2. StateAfter(list, k + 1) = [list |-> LeftAfter(list, m), use |-> GatheredAfter(list, k + 1)]
    BY <1>1, <1>4 DEF StateAfter
  <2>3. Len(LeftAfter(list, m)) = n - m /\ n - m <= k
    <3>1. n - m <= m
      BY <1>1 DEF PassesOver
    <3>2. Len(LeftAfter(list, m)) = n - m
      BY <1>1, LeftProperties
    <3> QED
      BY <1>1, <1>4, <3>1, <3>2
  <2>4. GatheredAfter(list, k + 1) = GatheredAfter(list, k)
    <3>1. {j \in DOMAIN list : j % 2 = 1 /\ j < 2 * (k + 1)}
            = {j \in DOMAIN list : j % 2 = 1 /\ j < 2 * k}
      BY <1>1, <1>2, <1>4
    <3> QED
      BY <3>1 DEF GatheredAfter
  <2> QED
    BY <1>1, <2>1, <2>2, <2>3, <2>4 DEF GatherPass
<1> QED
  BY <1>1, <1>3, <1>4

\* The loop of useGroupDistrib gathers the tasks of the 1st, 3rd, 5th, ... entry of
\* the list and no others, for every list.
THEOREM GatherLoopIsGathered ==
    ASSUME NEW S, NEW list \in Seq(S)
    PROVE  \A k \in Nat : k >= Len(list) => GatherLoop(list)[k].use = Gathered(list)
<1> DEFINE start == [list |-> list, use |-> {}]
           body(f, k) == IF k = 0 THEN start ELSE GatherPass(f[k - 1], k - 1)
           loop == GatherLoop(list)
           passes == [k \in Nat |-> StateAfter(list, k)]
<1>1. loop = CHOOSE f : f = [k \in Nat |-> body(f, k)]
  BY DEF GatherLoop
<1>2. StateAfter(list, 0) = start
  <2>1. Len(list) \in Nat /\ 0 <= PassesOver(list)
    BY DEF PassesOver
  <2>2. LeftAfter(list, 0) = list
    <3>1. LeftAfter(list, 0) \in Seq(S) /\ Len(LeftAfter(list, 0)) = Len(list)
      BY <2>1, LeftProperties
    <3>2. \A j \in 1..Len(list) : LeftAfter(list, 0)[j] = list[j]
      BY <2>1 DEF LeftAfter
    <3> QED
      BY <3>1, <3>2, SeqEqual
  <2>3. GatheredAfter(list, 0) = {}
    BY DEF GatheredAfter
  <2> QED
    BY <2>1, <2>2, <2>3 DEF StateAfter
<1>3. ASSUME NEW k \in Nat
      PROVE  StateAfter(list, k) = body(passes, k)
  <2>1. CASE k = 0
    BY <1>2, <2>1
  <2>2. CASE k # 0
    <3>1. k - 1 \in Nat /\ (k - 1) + 1 = k
      BY <2>2
    <3>2. StateAfter(list, k) = GatherPass(StateAfter(list, k - 1), k - 1)
      BY <3>1, PassStep
    <3> QED
      BY <2>2, <3>1, <3>2
  <2> QED
    BY <2>1, <2>2
<1>4. passes = [k \in Nat |-> body(passes, k)]
  BY <1>3
<1> HIDE DEF passes, loop, body
<1>5. loop = [k \in Nat |-> body(loop, k)]
  BY <1>1, <1>4
<1> DEFINE Same == {k \in Nat : loop[k] = StateAfter(list, k)}
<1>6. 0 \in Same
  BY <1>2, <1>5 DEF body
<1>7. ASSUME NEW n \in Nat, n \in Same
      PROVE  n + 1 \in Same
  <2>1. n + 1 \in Nat /\ n + 1 # 0 /\ (n + 1) - 1 = n
    OBVIOUS
  <2>2. loop[n + 1] = GatherPass(loop[n], n)
    BY <1>5, <2>1 DEF body
  <2>3. StateAfter(list, n + 1) = GatherPass(StateAfter(list, n), n)
    BY PassStep
  <2> QED
    BY <1>7, <2>1, <2>2, <2>3
<1>8. Nat \subseteq Same
  <2> HIDE DEF Same
  <2> QED
    BY <1>6, <1>7, NatSetInduction
<1>9. ASSUME NEW k \in Nat, k >= Len(list)
      PROVE  GatheredAfter(list, k) = Gathered(list)
  <2>1. DOMAIN list = 1..Len(list) /\ Len(list) \in Nat
    OBVIOUS
  <2>2. \A j \in DOMAIN list : j % 2 = 1 => j < 2 * k
    BY <1>9, <2>1
  <2> QED
    BY <2>2 DEF GatheredAfter, Gathered
<1>10. \A k \in Nat : StateAfter(list, k).use = GatheredAfter(list, k)
  BY DEF StateAfter
<1>11. \A k \in Nat : loop[k] = StateAfter(list, k)
  BY <1>8
<1> HIDE DEF Same
<1>12. \A k \in Nat : k >= Len(list) => loop[k].use = Gathered(list)
  BY <1>9, <1>10, <1>11
<1> QED
  BY <1>12 DEF loop

=============================================================================
