---------------------------- MODULE Subnets_proofs ----------------------------
(***************************************************************************)
(* Proofs about Subnets, for every set of nodes, hosts and addresses, every *)
(* size of the network and every bound on what happens around the master.   *)
(***************************************************************************)
EXTENDS Subnets, FiniteSetTheorems, WellFoundedInduction, TLAPS

NP == INSTANCE EventQueue_proofs WITH
    Keys <- Nodes, objects <- node, reflector <- nodeReflector, list <- nodeList,
    sent <- nodeSent, items <- nodeItems, known <- nodeKnown, skewed <- nodeSkewed

SP == INSTANCE EventQueue_proofs WITH
    Keys <- Names, objects <- hostSubnet, reflector <- subnetReflector,
    list <- subnetList, sent <- subnetSent, items <- subnetItems,
    known <- subnetKnown, skewed <- subnetSkewed

Of == [sub \in HostSubnets |-> sub.subnet]
NotOwned == dropped \cup {NoSubnet}

Jobs ==
    {Idle} \cup
    [pc : {"remove", "delete", "add"}, name : Names, uid : Nat, ip : IPs] \cup
    [pc : {"create"}, name : Names, uid : Nat, ip : IPs, subnet : Subnets] \cup
    [pc : {"update"}, name : Names, uid : Nat, ip : IPs, read : HostSubnets]

AllocatorOK == taken \in SUBSET Subnets /\ next \in 0..NumSubnets /\ dropped \in SUBSET Subnets
MapOK == addressOf \in SUBSET [name : Nodes, uid : 1..(MaxChanges + 1), ip : IPs]
JobsOK == job \in [Threads -> Jobs]
HistoryOK == changes \in 0..MaxChanges /\ faults \in 0..MaxFaults

Inv ==
    /\ NP!QueueSound(NodeObjects)
    /\ SP!QueueSound(HostSubnets)
    /\ AllocatorOK
    /\ MapOK
    /\ JobsOK
    /\ HistoryOK
    /\ OwnersAreSound
    /\ AnnotatedIsSeen
    /\ JobsAreSound

-------------------------------------------------------------------------------
(* The queues are those of EventQueue_proofs *)

LEMMA NodeQueueIs ==
    /\ NodeQueue!QueueSettled <=> NP!QueueSettled
    /\ NodeQueue!QueueInit <=> NP!QueueInit
    /\ NodeQueue!Reset <=> NP!Reset
    /\ \A k, new : NodeQueue!Write(k, new) <=> NP!Write(k, new)
    /\ NodeQueue!Break <=> NP!Break
    /\ NodeQueue!List <=> NP!List
    /\ NodeQueue!Replace <=> NP!Replace
    /\ NodeQueue!Resync <=> NP!Resync
    /\ \A k : NodeQueue!Deliver(k) <=> NP!Deliver(k)
    /\ \A k : NodeQueue!Pop(k) <=> NP!Pop(k)
BY DEF NodeQueue!Stored, NP!Stored, NodeQueue!Dropped, NP!Dropped, NodeQueue!ResultsOfEvent,
       NP!ResultsOfEvent,
       NodeQueue!QueueSettled, NP!QueueSettled, NodeQueue!QueueInit,
       NP!QueueInit, NodeQueue!Reset, NP!Reset, NodeQueue!Write, NP!Write,
       NodeQueue!Break, NP!Break, NodeQueue!List, NP!List, NodeQueue!Replace,
       NP!Replace, NodeQueue!Resync, NP!Resync, NodeQueue!Deliver, NP!Deliver,
       NodeQueue!Pop, NP!Pop, NodeQueue!EventOf, NP!EventOf,
       NodeQueue!ResultsOfList, NP!ResultsOfList, NodeQueue!FromList,
       NP!FromList, NodeQueue!Misread, NP!Misread, NodeQueue!Results,
       NP!Results, NodeQueue!Ignored, NP!Ignored, NodeQueue!DeltaActions,
       NP!DeltaActions, NodeQueue!DeltaTypes, NP!DeltaTypes,
       NodeQueue!WatchTypes, NP!WatchTypes, NodeQueue!After, NP!After,
       NodeQueue!Empty, NP!Empty, NodeQueue!NoEvents, NP!NoEvents,
       NodeQueue!NoDelta, NP!NoDelta


LEMMA SubnetQueueIs ==
    /\ SubnetQueue!QueueSettled <=> SP!QueueSettled
    /\ SubnetQueue!QueueInit <=> SP!QueueInit
    /\ SubnetQueue!Reset <=> SP!Reset
    /\ \A k, new : SubnetQueue!Write(k, new) <=> SP!Write(k, new)
    /\ SubnetQueue!Break <=> SP!Break
    /\ SubnetQueue!List <=> SP!List
    /\ SubnetQueue!Replace <=> SP!Replace
    /\ SubnetQueue!Resync <=> SP!Resync
    /\ \A k : SubnetQueue!Deliver(k) <=> SP!Deliver(k)
    /\ \A k : SubnetQueue!Pop(k) <=> SP!Pop(k)
BY DEF SubnetQueue!Stored, SP!Stored, SubnetQueue!Dropped, SP!Dropped, SubnetQueue!ResultsOfEvent,
       SP!ResultsOfEvent,
       SubnetQueue!QueueSettled, SP!QueueSettled, SubnetQueue!QueueInit,
       SP!QueueInit, SubnetQueue!Reset, SP!Reset, SubnetQueue!Write, SP!Write,
       SubnetQueue!Break, SP!Break, SubnetQueue!List, SP!List,
       SubnetQueue!Replace, SP!Replace, SubnetQueue!Resync, SP!Resync,
       SubnetQueue!Deliver, SP!Deliver, SubnetQueue!Pop, SP!Pop,
       SubnetQueue!EventOf, SP!EventOf, SubnetQueue!ResultsOfList,
       SP!ResultsOfList, SubnetQueue!FromList, SP!FromList,
       SubnetQueue!Misread, SP!Misread, SubnetQueue!Results, SP!Results,
       SubnetQueue!Ignored, SP!Ignored, SubnetQueue!DeltaActions,
       SP!DeltaActions, SubnetQueue!DeltaTypes, SP!DeltaTypes,
       SubnetQueue!WatchTypes, SP!WatchTypes, SubnetQueue!After, SP!After,
       SubnetQueue!Empty, SP!Empty, SubnetQueue!NoEvents, SP!NoEvents,
       SubnetQueue!NoDelta, SP!NoDelta

\* What is said of what the queue mentions.
LEMMA MentionedIs ==
    /\ \A h : SubnetQueue!Mentioned(h) = SP!Mentioned(h)
    /\ \A h : SubnetQueue!Quiet(h) <=> SP!Quiet(h)
    /\ \A h : SubnetQueue!Quiet(h)' <=> SP!Quiet(h)'
    /\ SubnetQueue!GoneForGood(Of, NotOwned) <=> SP!GoneForGood(Of, NotOwned)
    /\ SubnetQueue!GoneForGood(Of, NotOwned)' <=> SP!GoneForGood(Of, NotOwned)'
BY DEF SubnetQueue!Mentioned, SP!Mentioned, SubnetQueue!Ahead, SP!Ahead, SubnetQueue!Quiet,
       SP!Quiet, SubnetQueue!GoneForGood, SP!GoneForGood, SubnetQueue!GoneAt, SP!GoneAt,
       SubnetQueue!Apart, SP!Apart, SubnetQueue!NoDelta, SP!NoDelta

-------------------------------------------------------------------------------
(* The numbers of subnets *)

LEMMA DivMod ==
    ASSUME NEW n \in Nat, NEW d \in Nat \ {0}
    PROVE  /\ n \div d \in Nat /\ n % d \in 0..(d - 1)
           /\ n = d * (n \div d) + (n % d)
  BY Z3

LEMMA Times ==
    ASSUME NEW d \in Nat, NEW p \in Int, NEW q \in Int, p < q
    PROVE  d * p + d <= d * q
<1>1. d * q = d * p + d * (q - p)
  BY SMT
<1>2. d * (q - p) >= d
  BY SMT
<1>. QED
  BY <1>1, <1>2

LEMMA DivIs ==
    ASSUME NEW n \in Nat, NEW d \in Nat \ {0}, NEW q \in Nat, NEW r \in 0..(d - 1),
           n = d * q + r
    PROVE  n \div d = q /\ n % d = r
<1>. DEFINE p == n \div d
            s == n % d
<1>1. p \in Nat /\ s \in 0..(d - 1) /\ n = d * p + s
  BY DivMod
<1>. HIDE DEF p, s
<1>2. ~(p < q)
  <2>. SUFFICES ASSUME p < q PROVE FALSE
    OBVIOUS
  <2>1. d * p + d <= d * q
    BY <1>1, Times
  <2>. QED
    BY <1>1, <2>1
<1>3. ~(q < p)
  <2>. SUFFICES ASSUME q < p PROVE FALSE
    OBVIOUS
  <2>1. d * q + d <= d * p
    BY <1>1, Times
  <2>. QED
    BY <1>1, <2>1
<1>4. p = q
  BY <1>1, <1>2, <1>3
<1>5. s = r
  BY <1>1, <1>4
<1>. QED
  BY <1>4, <1>5 DEF p, s

\* Induction over the natural numbers, in the form of a least counterexample.
LEMMA Least ==
    ASSUME NEW S, S \subseteq Nat, S # {}
    PROVE  \E i \in S : \A j \in S : i <= j
<1>1. PICK n \in S : TRUE
  OBVIOUS
<1>. DEFINE T == S \cap (0..n)
            All == SUBSET (0..n)
            Below == {0..i : i \in T}
<1>2. FiniteSubsetsOf(0..n) = All
  <2>1. IsFiniteSet(0..n)
    BY FS_Interval
  <2>. QED
    BY <2>1, FS_FiniteSubsetsOfFinite
<1>3. IsWellFoundedOn(StrictSubsetOrdering(0..n), All)
  BY <1>2, FS_StrictSubsetOrderingWellFounded
<1>4. n \in T
  BY <1>1
<1>5. Below \subseteq All /\ Below # {}
  <2>1. \A i \in T : 0..i \subseteq 0..n
    OBVIOUS
  <2>. QED
    BY <1>4, <2>1
<1>6. PICK x \in Below : \A y \in Below : <<y, x>> \notin StrictSubsetOrdering(0..n)
  <2>. HIDE DEF All, Below
  <2>. QED
    BY <1>3, <1>5, WFMin
<1>7. PICK i \in T : x = 0..i
  BY <1>6
<1>8. ASSUME NEW j \in T, ~(i <= j)
      PROVE  FALSE
  <2>1. 0..j \in Below /\ 0..j \in All /\ 0..i \in All
    BY <1>5
  <2>2. 0..j \subseteq 0..i /\ i \in 0..i /\ i \notin 0..j
    BY <1>8
  <2>3. <<0..j, 0..i>> \in StrictSubsetOrdering(0..n)
    BY <2>1, <2>2 DEF StrictSubsetOrdering
  <2>. QED
    BY <1>6, <1>7, <2>1, <2>3
<1>9. \A j \in S : i <= j
  <2>. SUFFICES ASSUME NEW j \in S, ~(i <= j) PROVE FALSE
    OBVIOUS
  <2>1. i \in Nat /\ j \in Nat /\ i <= n /\ n \in Nat
    BY <1>1, <1>7
  <2>2. j \in T
    BY <2>1
  <2>. QED
    BY <1>8, <2>2
<1>. QED
  BY <1>9

\* f doubles up to k.
Doubles(k, f) ==
    /\ f \in [0..k -> Nat]
    /\ \A n \in 0..k : f[n] = IF n = 0 THEN 1 ELSE 2 * f[n - 1]

LEMMA DoublesExists ==
    ASSUME NEW k \in Nat
    PROVE  \E f : Doubles(k, f)
<1>. DEFINE S == {n \in Nat : ~\E f : Doubles(n, f)}
<1>. SUFFICES ASSUME S # {} PROVE FALSE
  OBVIOUS
<1>1. PICK m \in S : \A j \in S : m <= j
  <2>. HIDE DEF S
  <2>1. S \subseteq Nat
    BY DEF S
  <2>. QED
    BY <2>1, Least
<1>2. CASE m = 0
  <2>1. Doubles(0, [n \in 0..0 |-> 1])
    BY DEF Doubles
  <2>. QED
    BY <1>1, <1>2, <2>1
<1>3. CASE m # 0
  <2>1. m - 1 \in Nat /\ m - 1 \notin S
    BY <1>1, <1>3
  <2>2. PICK f : Doubles(m - 1, f)
    BY <2>1
  <2>. DEFINE g == [n \in 0..m |-> IF n = m THEN 2 * f[m - 1] ELSE f[n]]
  <2>3. f[m - 1] \in Nat /\ \A n \in 0..(m - 1) : f[n] \in Nat
    BY <2>1, <2>2 DEF Doubles
  <2>4. g \in [0..m -> Nat]
    <3>1. \A n \in 0..m : n = m \/ n \in 0..(m - 1)
      BY <2>1
    <3>. QED
      BY <2>3, <3>1
  <2>5. ASSUME NEW n \in 0..m
        PROVE  g[n] = IF n = 0 THEN 1 ELSE 2 * g[n - 1]
    <3>1. CASE n = m
      <4>1. n - 1 \in 0..m /\ n - 1 # m
        BY <1>3, <2>1, <3>1
      <4>. QED
        BY <1>3, <3>1, <4>1
    <3>2. CASE n # m
      <4>1. n \in 0..(m - 1) /\ (n # 0 => n - 1 \in 0..m /\ n - 1 # m)
        BY <2>1, <3>2
      <4>2. f[n] = IF n = 0 THEN 1 ELSE 2 * f[n - 1]
        BY <2>2, <4>1 DEF Doubles
      <4>. QED
        BY <3>2, <4>1, <4>2
    <3>. QED
      BY <3>1, <3>2
  <2>6. Doubles(m, g)
    <3>. HIDE DEF g
    <3>. QED
      BY <2>4, <2>5 DEF Doubles
  <2>. QED
    BY <1>1, <2>6
<1>. QED
  BY <1>2, <1>3

LEMMA DoublesOnce ==
    ASSUME NEW k \in Nat, NEW l \in Nat, NEW f, NEW g, Doubles(k, f), Doubles(l, g),
           NEW n \in Nat, n <= k, n <= l
    PROVE  f[n] = g[n]
<1>. DEFINE S == {i \in Nat : i <= n /\ f[i] # g[i]}
<1>. SUFFICES ASSUME S # {} PROVE FALSE
  OBVIOUS
<1>1. PICK m \in S : \A j \in S : m <= j
  <2>. HIDE DEF S
  <2>1. S \subseteq Nat
    BY DEF S
  <2>. QED
    BY <2>1, Least
<1>2. m \in 0..k /\ m \in 0..l /\ f[m] # g[m] /\ m <= n
  BY <1>1
<1>3. m # 0
  BY <1>2 DEF Doubles
<1>4. m - 1 \in Nat /\ m - 1 \notin S /\ m - 1 <= n
  BY <1>1, <1>3
<1>5. f[m - 1] = g[m - 1]
  BY <1>4
<1>. QED
  BY <1>2, <1>3, <1>5 DEF Doubles

LEMMA Pow2Is ==
    /\ Pow2 \in [Nat -> Nat \ {0}]
    /\ Pow2[0] = 1
    /\ \A n \in Nat : Pow2[n + 1] = 2 * Pow2[n]
<1>. DEFINE F == [n \in Nat |-> CHOOSE f : Doubles(n, f)]
            G == [n \in Nat |-> F[n][n]]
<1>1. \A n \in Nat : Doubles(n, F[n])
  BY DoublesExists
<1>. HIDE DEF F
<1>2. \A n \in Nat : G[n] \in Nat
  BY <1>1 DEF Doubles
<1>3. G[0] = 1
  BY <1>1 DEF Doubles
<1>4. ASSUME NEW n \in Nat, n # 0
      PROVE  G[n] = 2 * G[n - 1]
  <2>1. n - 1 \in Nat /\ n - 1 <= n /\ n \in 0..n
    BY <1>4
  <2>2. F[n][n - 1] = F[n - 1][n - 1]
    BY <1>1, <2>1, DoublesOnce
  <2>3. F[n][n] = 2 * F[n][n - 1]
    BY <1>1, <1>4, <2>1 DEF Doubles
  <2>. QED
    BY <2>1, <2>2, <2>3
<1>5. G = [n \in Nat |-> IF n = 0 THEN 1 ELSE 2 * G[n - 1]]
  <2>1. \A n \in Nat : G[n] = IF n = 0 THEN 1 ELSE 2 * G[n - 1]
    BY <1>3, <1>4
  <2>2. G = [n \in Nat |-> G[n]]
    OBVIOUS
  <2>. HIDE DEF G
  <2>. QED
    BY <2>1, <2>2
<1>. HIDE DEF G
<1>6. Pow2 = [n \in Nat |-> IF n = 0 THEN 1 ELSE 2 * Pow2[n - 1]]
  BY <1>5 DEF Pow2
<1>7. Pow2[0] = 1
  BY <1>6
<1>8. \A n \in Nat : Pow2[n + 1] = 2 * Pow2[n]
  <2>. SUFFICES ASSUME NEW n \in Nat PROVE Pow2[n + 1] = 2 * Pow2[n]
    OBVIOUS
  <2>1. n + 1 \in Nat /\ n + 1 # 0 /\ (n + 1) - 1 = n
    OBVIOUS
  <2>. QED
    BY <1>6, <2>1
<1>9. ASSUME NEW n \in Nat PROVE Pow2[n] \in Nat \ {0}
  <2>. DEFINE S == {i \in Nat : Pow2[i] \notin Nat \ {0}}
  <2>. SUFFICES ASSUME S # {} PROVE FALSE
    OBVIOUS
  <2>1. PICK m \in S : \A j \in S : m <= j
    <3>. HIDE DEF S
    <3>1. S \subseteq Nat
      BY DEF S
    <3>. QED
      BY <3>1, Least
  <2>2. m # 0
    BY <1>7, <2>1
  <2>3. m - 1 \in Nat /\ m - 1 \notin S /\ (m - 1) + 1 = m
    BY <2>1, <2>2
  <2>4. Pow2[m - 1] \in Nat \ {0} /\ Pow2[m] = 2 * Pow2[m - 1]
    BY <1>8, <2>3
  <2>. QED
    BY <2>1, <2>4
<1>10. Pow2 \in [Nat -> Nat \ {0}]
  <2>1. Pow2 = [n \in Nat |-> Pow2[n]]
    BY <1>6
  <2>. QED
    BY <1>9, <2>1
<1>. QED
  BY <1>7, <1>8, <1>10

LEMMA Pow2Sum ==
    ASSUME NEW m \in Nat, NEW n \in Nat
    PROVE  Pow2[m + n] = Pow2[m] * Pow2[n]
<1>. DEFINE S == {i \in Nat : Pow2[m + i] # Pow2[m] * Pow2[i]}
<1>. SUFFICES ASSUME S # {} PROVE FALSE
  OBVIOUS
<1>1. PICK k \in S : \A j \in S : k <= j
  <2>. HIDE DEF S
  <2>1. S \subseteq Nat
    BY DEF S
  <2>. QED
    BY <2>1, Least
<1>2. k # 0
  <2>1. m + 0 = m /\ Pow2[0] = 1 /\ Pow2[m] \in Nat
    BY Pow2Is
  <2>. QED
    BY <1>1, <2>1
<1>3. k - 1 \in Nat /\ k - 1 \notin S
  BY <1>1, <1>2
<1>. DEFINE p == Pow2[m]
            q == Pow2[k - 1]
<1>4. p \in Nat /\ q \in Nat
  BY <1>3, Pow2Is
<1>5. Pow2[m + (k - 1)] = p * q
  BY <1>3
<1>6. Pow2[k] = 2 * q
  <2>1. (k - 1) + 1 = k
    BY <1>1
  <2>. QED
    BY <1>3, <2>1, Pow2Is
<1>7. Pow2[m + k] = 2 * Pow2[m + (k - 1)]
  <2>1. (m + (k - 1)) + 1 = m + k /\ m + (k - 1) \in Nat
    BY <1>1, <1>3
  <2>. QED
    BY <2>1, Pow2Is
<1>8. 2 * (p * q) = p * (2 * q)
  <2>. HIDE DEF p, q
  <2>. QED
    BY <1>4, SMT
<1>. QED
  BY <1>1, <1>5, <1>6, <1>7, <1>8

LEMMA Product ==
    ASSUME NEW a \in Nat \ {0}, NEW b \in Nat \ {0}
    PROVE  a * b \in Nat \ {0}
  BY Z3

\* A number of a grid of a columns and b rows and where it is.
LEMMA Grid ==
    ASSUME NEW a \in Nat \ {0}, NEW b \in Nat \ {0}, NEW q \in 0..(a - 1), NEW r \in 0..(b - 1)
    PROVE  b * q + r \in 0..(a * b - 1)
<1>1. b * q + b <= b * a
  <2>1. CASE q + 1 = a
    BY <2>1, SMT
  <2>2. CASE q + 1 < a
    <3>1. b * (q + 1) + b <= b * a
      BY <2>2, Times
    <3>2. b * (q + 1) = b * q + b
      BY SMT
    <3>. QED
      BY <3>1, <3>2, SMT
  <2>. QED
    BY <2>1, <2>2
<1>2. b * q \in Nat /\ b * a = a * b /\ b * a \in Nat
  BY SMT
<1>. QED
  BY <1>1, <1>2

LEMMA GridPlace ==
    ASSUME NEW a \in Nat \ {0}, NEW b \in Nat \ {0}, NEW n \in 0..(a * b - 1)
    PROVE  /\ n \div b \in 0..(a - 1) /\ n % b \in 0..(b - 1)
           /\ n = b * (n \div b) + (n % b)
<1>. DEFINE q == n \div b
            r == n % b
<1>1. a * b \in Nat /\ n \in Nat
  BY Product
<1>2. q \in Nat /\ r \in 0..(b - 1) /\ n = b * q + r
  BY <1>1, DivMod
<1>. HIDE DEF q, r
<1>3. ~(a <= q)
  <2>. SUFFICES ASSUME a <= q PROVE FALSE
    OBVIOUS
  <2>1. b * a <= b * q
    <3>1. CASE a = q
      BY <3>1
    <3>2. CASE a < q
      BY <1>2, <3>2, Times, SMT
    <3>. QED
      BY <1>2, <3>1, <3>2
  <2>2. b * q \in Nat /\ b * a = a * b
    BY <1>2, SMT
  <2>. QED
    BY <1>1, <1>2, <2>1, <2>2
<1>. QED
  BY <1>2, <1>3 DEF q, r

\* Dividing by b after a multiplication by h, and then by h.
LEMMA DivTwice ==
    ASSUME NEW b \in Nat \ {0}, NEW h \in Nat \ {0}, NEW n \in Nat
    PROVE  ((n * h) \div b) \div h = n \div b
<1>. DEFINE x == (n * h) \div b
            s == (n * h) % b
            y == x \div h
            t == x % h
            q == n \div b
            r == n % b
<1>1. n * h \in Nat
  BY SMT
<1>2. x \in Nat /\ s \in 0..(b - 1) /\ n * h = b * x + s
  BY <1>1, DivMod
<1>3. y \in Nat /\ t \in 0..(h - 1) /\ x = h * y + t
  BY <1>2, DivMod
<1>4. q \in Nat /\ r \in 0..(b - 1) /\ n = b * q + r
  BY DivMod
<1>. HIDE DEF x, s, y, t, q, r
<1>5. n * h = (b * h) * y + (b * t + s)
  <2>1. b * (h * y + t) = (b * h) * y + b * t
    BY <1>3, SMT
  <2>2. b * t \in Nat /\ (b * h) * y \in Nat
    BY <1>3, SMT
  <2>. QED
    BY <1>2, <1>3, <2>1, <2>2
<1>6. b * t + s \in 0..(b * h - 1)
  <2>1. h * b = b * h
    BY SMT
  <2>. QED
    BY <1>2, <1>3, <2>1, Grid
<1>7. n * h = (b * h) * q + (h * r + 0)
  <2>1. (b * q + r) * h = (b * h) * q + h * r
    BY <1>4, SMT
  <2>2. h * r \in Nat
    BY <1>4, SMT
  <2>. QED
    BY <1>4, <2>1, <2>2
<1>8. h * r + 0 \in 0..(b * h - 1)
  BY <1>4, Grid
<1>9. b * h \in Nat \ {0}
  BY Product
<1>10. y = (n * h) \div (b * h) /\ q = (n * h) \div (b * h)
  <2>. DEFINE d == b * h
              e == b * t + s
              f == h * r + 0
              m == n * h
  <2>1. /\ d \in Nat \ {0} /\ e \in 0..(d - 1) /\ f \in 0..(d - 1) /\ m \in Nat
        /\ m = d * y + e /\ m = d * q + f
    BY <1>1, <1>5, <1>6, <1>7, <1>8, <1>9
  <2>. HIDE DEF d, e, f, m
  <2>2. m \div d = y /\ m \div d = q
    BY <1>3, <1>4, <2>1, DivIs
  <2>. QED
    BY <2>2 DEF d, m
<1>. QED
  BY <1>10 DEF x, y, q

\* The n-th subnet is the one at the place of n in the transposed grid.
LEMMA Rotated ==
    ASSUME NEW a \in Nat \ {0}, NEW b \in Nat \ {0}, NEW h \in Nat \ {0},
           NEW n \in 0..(a * b - 1)
    PROVE  (((n * h) * a) % (h * (a * b))) + ((((n * h) \div b) \div h) % a) * h
             = (a * (n % b) + (n \div b)) * h
<1>. DEFINE q == n \div b
            r == n % b
            d == h * (a * b)
<1>1. q \in 0..(a - 1) /\ r \in 0..(b - 1) /\ n = b * q + r
  BY GridPlace
<1>2. a * b \in Nat \ {0} /\ d \in Nat \ {0} /\ n \in Nat
  BY Product
<1>3. ((n * h) \div b) \div h = q
  BY <1>2, DivTwice
<1>. HIDE DEF q, r
<1>4. q % a = q
  BY <1>1
<1>5. ((n * h) * a) % d = (a * r) * h
  <2>1. (n * h) * a = d * q + (a * r) * h
    BY <1>1, SMT DEF d
  <2>2. (a * r) * h \in 0..(d - 1)
    <3>1. a * r + 0 \in 0..(b * a - 1)
      BY <1>1, Grid
    <3>2. a * r \in 0..(a * b - 1)
      BY <1>1, <3>1, SMT
    <3>3. h * (a * r) + 0 \in 0..((a * b) * h - 1)
      <4>. DEFINE c == a * b
                  e == a * r
      <4>1. c \in Nat \ {0} /\ e \in 0..(c - 1) /\ 0 \in 0..(h - 1)
        BY <1>2, <3>2
      <4>. HIDE DEF c, e
      <4>2. h * e + 0 \in 0..(c * h - 1)
        BY <4>1, Grid
      <4>. QED
        BY <4>2 DEF c, e
    <3>. QED
      BY <1>1, <1>2, <3>3, SMT DEF d
  <2>3. (n * h) * a \in Nat
    BY <1>2, SMT
  <2>4. q \in Nat
    BY <1>1
  <2>. DEFINE m == (n * h) * a
              e == (a * r) * h
  <2>. HIDE DEF m, e, d
  <2>5. m = d * q + e /\ e \in 0..(d - 1) /\ m \in Nat
    BY <2>1, <2>2, <2>3 DEF m, e
  <2>6. m % d = e
    BY <1>2, <2>4, <2>5, DivIs
  <2>. QED
    BY <2>6 DEF m, e
<1>6. (a * r) * h + q * h = (a * r + q) * h
  BY <1>1, SMT
<1>. QED
  BY <1>3, <1>4, <1>5, <1>6 DEF d, q, r

\* The numbers that are rotated have more bits than they are rotated by.
LEMMA ShiftIs ==
    ASSUME NEW hb \in Nat \ {0}, NEW sb \in Nat
    PROVE  /\ LeftShift(hb, sb) \in 0..7
           /\ LeftShift(hb, sb) # 0 => sb - LeftShift(hb, sb) \in Nat \ {0}
<1>. DEFINE k == hb \div 8
            m == hb % 8
            l == (hb - 1) \div 8
            j == (hb + sb - 1) \div 8
            s == (hb + sb - 1) % 8
<1>1. k \in Nat /\ m \in 0..7 /\ hb = 8 * k + m
  BY DivMod
<1>2. j \in Nat /\ s \in 0..7 /\ hb + sb - 1 = 8 * j + s
  BY DivMod
<1>3. m # 0 => l = k
  <2>. SUFFICES ASSUME m # 0 PROVE l = k
    OBVIOUS
  <2>. HIDE DEF k, m
  <2>1. hb - 1 = 8 * k + (m - 1) /\ m - 1 \in 0..7 /\ hb - 1 \in Nat
    BY <1>1
  <2>. QED
    BY <1>1, <2>1, DivIs
<1>4. LeftShift(hb, sb) = IF m # 0 /\ l # j THEN 8 - m ELSE 0
  BY DEF LeftShift
<1>. HIDE DEF k, m, l, j, s
<1>5. CASE m # 0 /\ l # j
  <2>1. j # k
    BY <1>3, <1>5
  <2>2. 8 * j + s >= 8 * k
    BY <1>1, <1>2, <1>5
  <2>3. j > k
    BY <1>1, <1>2, <2>1, <2>2
  <2>4. hb + sb - 1 >= 8 * k + 8
    BY <1>1, <1>2, <2>3
  <2>. QED
    BY <1>1, <1>4, <1>5, <2>4
<1>6. CASE ~(m # 0 /\ l # j)
  BY <1>4, <1>6
<1>. QED
  BY <1>5, <1>6

\* Read by columns, a grid has every number once.
LEMMA Transposed ==
    ASSUME NEW a \in Nat \ {0}, NEW b \in Nat \ {0}
    PROVE  LET numbers == 0..(a * b - 1)
               at(n) == a * (n % b) + (n \div b)
           IN  /\ {at(n) : n \in numbers} = numbers
               /\ \A m, n \in numbers : at(m) = at(n) => m = n
<1>. DEFINE numbers == 0..(a * b - 1)
            at(n) == a * (n % b) + (n \div b)
<1>1. a * b \in Nat \ {0} /\ b * a = a * b
  BY Product, SMT
<1>2. ASSUME NEW n \in numbers
      PROVE  /\ n \div b \in 0..(a - 1) /\ n % b \in 0..(b - 1)
             /\ n = b * (n \div b) + (n % b)
             /\ at(n) \in numbers
             /\ at(n) \div a = n % b /\ at(n) % a = n \div b
  <2>. DEFINE q == n \div b
              r == n % b
              c == at(n)
  <2>1. q \in 0..(a - 1) /\ r \in 0..(b - 1) /\ n = b * q + r
    BY GridPlace
  <2>2. c = a * r + q
    OBVIOUS
  <2>. HIDE DEF q, r, c
  <2>3. a * r + q \in 0..(b * a - 1)
    BY <2>1, Grid
  <2>4. c \in numbers
    BY <1>1, <2>2, <2>3
  <2>5. c \in Nat /\ r \in Nat /\ q \in Nat
    BY <1>1, <2>1, <2>4
  <2>6. c \div a = r /\ c % a = q
    BY <2>1, <2>2, <2>5, DivIs
  <2>. QED
    BY <2>1, <2>4, <2>6 DEF q, r, c
<1>. HIDE DEF at
<1>3. \A m, n \in numbers : at(m) = at(n) => m = n
  BY <1>2
<1>4. ASSUME NEW c \in numbers
      PROVE  \E n \in numbers : at(n) = c
  <2>. DEFINE q == c \div a
              r == c % a
              n == b * r + q
  <2>1. c \in 0..(b * a - 1)
    BY <1>1
  <2>2. q \in 0..(b - 1) /\ r \in 0..(a - 1) /\ c = a * q + r
    BY <2>1, GridPlace
  <2>. HIDE DEF q, r
  <2>3. b * r + q \in 0..(a * b - 1)
    BY <2>2, Grid
  <2>4. n \in numbers /\ n \in Nat /\ r \in Nat
    BY <1>1, <2>2, <2>3
  <2>. DEFINE x == n
  <2>5. x = b * r + q
    OBVIOUS
  <2>. HIDE DEF n
  <2>6. n \div b = r /\ n % b = q
    BY <2>2, <2>4, <2>5, DivIs
  <2>7. at(n) = c
    BY <2>2, <2>6 DEF at
  <2>. QED
    BY <2>4, <2>7
<1>5. {at(n) : n \in numbers} = numbers
  <2>. HIDE DEF numbers
  <2>1. \A n \in numbers : at(n) \in numbers
    BY <1>2
  <2>. QED
    BY <1>4, <2>1
<1>. QED
  BY <1>3, <1>5 DEF at

\* GetNetwork (subnet_allocator.go) gives exactly the subnets of the network, each for one
\* number, whatever the bits of the host and of the subnet: rotating the number transposes
\* the grid of its high and low bits.
THEOREM RotationIsSound ==
    ASSUME NEW hb \in Nat \ {0}, NEW sb \in Nat
    PROVE  LET numbers == 0..(Pow2[sb] - 1)
           IN  /\ {SubnetAt(hb, sb, n) : n \in numbers} = {n * Pow2[hb] : n \in numbers}
               /\ \A m, n \in numbers : SubnetAt(hb, sb, m) = SubnetAt(hb, sb, n) => m = n
<1>. DEFINE ls == LeftShift(hb, sb)
            h == Pow2[hb]
            numbers == 0..(Pow2[sb] - 1)
            at(n) == SubnetAt(hb, sb, n)
<1>1. h \in Nat \ {0} /\ Pow2[sb] \in Nat \ {0} /\ \A n \in numbers : n \in Nat
  BY Pow2Is
<1>2. ASSUME NEW m \in Nat, NEW n \in Nat, m * h = n * h
      PROVE  m = n
  <2>. HIDE DEF h
  <2>. QED
    BY <1>1, <1>2, SMT
<1>3. CASE ls = 0
  <2>1. \A n \in numbers : at(n) = n * h
    BY <1>3 DEF SubnetAt
  <2>. HIDE DEF at, h
  <2>2. {at(n) : n \in numbers} = {n * h : n \in numbers}
    BY <2>1
  <2>3. \A m, n \in numbers : at(m) = at(n) => m = n
    BY <1>1, <1>2, <2>1
  <2>. QED
    BY <2>2, <2>3 DEF at, h
<1>4. CASE ls # 0
  <2>. DEFINE a == Pow2[ls]
              b == Pow2[sb - ls]
              place(n) == a * (n % b) + (n \div b)
  <2>1. ls \in Nat /\ sb - ls \in Nat
    BY <1>4, ShiftIs
  <2>2. a \in Nat \ {0} /\ b \in Nat \ {0}
    <3>. HIDE DEF ls
    <3>. QED
      BY <2>1, Pow2Is
  <2>3. Pow2[sb] = a * b
    <3>. HIDE DEF ls
    <3>1. ls + (sb - ls) = sb
      BY <2>1
    <3>2. Pow2[ls + (sb - ls)] = Pow2[ls] * Pow2[sb - ls]
      BY <2>1, Pow2Sum
    <3>. QED
      BY <3>1, <3>2
  <2>4. Pow2[hb + sb] = h * (a * b)
    <3>. HIDE DEF ls, a, b
    <3>. QED
      BY <2>3, Pow2Sum
  <2>5. ASSUME NEW n \in numbers
        PROVE  at(n) = place(n) * h
    <3>1. at(n) = (((n * h) * a) % Pow2[hb + sb]) + ((((n * h) \div b) \div h) % a) * h
      <4>. USE <1>4 DEF SubnetAt
      <4>. QED
        OBVIOUS
    <3>2. n \in 0..(a * b - 1)
      BY <2>3
    <3>3. (((n * h) * a) % (h * (a * b))) + ((((n * h) \div b) \div h) % a) * h
            = place(n) * h
      <4>. HIDE DEF a, b, h, ls, numbers
      <4>1. h \in Nat \ {0} /\ a \in Nat \ {0} /\ b \in Nat \ {0} /\ n \in 0..(a * b - 1)
        BY <1>1, <2>2, <3>2
      <4>. QED
        BY <4>1, Rotated, Zenon
    <3>. HIDE DEF ls, a, b, h, at, place
    <3>. QED
      BY <2>4, <3>1, <3>3
  <2>6. /\ {place(n) : n \in numbers} = numbers
        /\ \A m, n \in numbers : place(m) = place(n) => m = n
    <3>. HIDE DEF a, b, ls
    <3>1. numbers = 0..(a * b - 1)
      BY <2>3
    <3>. QED
      BY <2>2, <3>1, Transposed
  <2>. HIDE DEF at, place, h, a, b, ls
  <2>7. \A n \in numbers : place(n) \in numbers
    BY <2>6
  <2>8. {at(n) : n \in numbers} = {n * h : n \in numbers}
    <3>. HIDE DEF numbers
    <3>1. \A n \in numbers : \E m \in numbers : place(m) = n
      BY <2>6
    <3>. QED
      BY <2>5, <2>7, <3>1
  <2>9. \A m, n \in numbers : at(m) = at(n) => m = n
    <3>. HIDE DEF numbers
    <3>. QED
      BY <1>1, <1>2, <2>5, <2>6, <2>7
  <2>. QED
    BY <2>8, <2>9 DEF at, h
<1>. QED
  BY <1>3, <1>4

LEMMA SubnetsAre == NumSubnets \in Nat \ {0} /\ Subnets \subseteq Nat
<1>1. NumSubnets \in Nat \ {0} /\ Pow2[HostBits] \in Nat
  BY BitsAssumption, Pow2Is DEF NumSubnets
<1>2. Subnets = {n * Pow2[HostBits] : n \in 0..(NumSubnets - 1)}
  BY BitsAssumption, RotationIsSound DEF Subnets, NumSubnets
<1>3. \A n \in 0..(NumSubnets - 1) : n * Pow2[HostBits] \in Nat
  <2>. DEFINE h == Pow2[HostBits]
  <2>1. h \in Nat
    BY <1>1
  <2>2. ASSUME NEW n \in Nat PROVE n * h \in Nat
    <3>. HIDE DEF h
    <3>. QED
      BY <2>1, SMT
  <2>. QED
    BY <1>1, <2>2
<1>. QED
  BY <1>1, <1>2, <1>3

-------------------------------------------------------------------------------
(* What the steps have in common *)

LEMMA ConstantFacts ==
    /\ Nothing \notin NodeObjects /\ Nothing \notin HostSubnets
    /\ NoSubnet \notin Subnets
    /\ \A sub \in HostSubnets :
         /\ sub.ip \in IPs /\ sub.subnet \in Subnets \cup {NoSubnet}
         /\ sub.assign <=> sub.subnet = NoSubnet
    /\ Nodes \subseteq Names /\ Hosts \subseteq Names
    /\ "nodes" \in Threads /\ "subnets" \in Threads
BY NothingAssumption, SubnetsAre DEF NoSubnet, HostSubnets, Names, Threads

LEMMA StoredFacts ==
    ASSUME Inv
    PROVE  /\ node \in [Nodes -> NodeObjects \cup {Nothing}]
           /\ hostSubnet \in [Names -> HostSubnets \cup {Nothing}]
           /\ \A h \in Names : hostSubnet[h] \in SP!Mentioned(h)
           /\ \A h \in Names : subnetItems[h].obj \in SP!Mentioned(h)
BY DEF Inv, NP!QueueSound, NP!QueueTyped, SP!QueueSound, SP!QueueTyped, SP!Mentioned,
       SP!Ahead

LEMMA InvFrom ==
    ASSUME Inv, NP!QueueNext(NodeObjects), SP!QueueNext(HostSubnets),
           AllocatorOK', MapOK', JobsOK', HistoryOK', OwnersAreSound', AnnotatedIsSeen',
           JobsAreSound'
    PROVE  Inv'
<1>1. NP!QueueSound(NodeObjects)'
  BY NP!QueueStep, ConstantFacts DEF Inv
<1>2. SP!QueueSound(HostSubnets)'
  BY SP!QueueStep, ConstantFacts DEF Inv
<1>. QED
  BY <1>1, <1>2 DEF Inv

\* What the queue mentions is a HostSubnet.
LEMMA MentionedType ==
    ASSUME Inv, NEW h \in Names
    PROVE  SP!Mentioned(h) \subseteq HostSubnets \cup {Nothing}
<1>1. /\ hostSubnet[h] \in HostSubnets \cup {Nothing}
      /\ subnetList[h] \in HostSubnets \cup {Nothing}
      /\ subnetKnown[h] \in HostSubnets \cup {Nothing}
  BY DEF Inv, SP!QueueSound, SP!QueueTyped, SP!QueueTypeOK
<1>2. subnetItems[h].obj \in HostSubnets \cup {Nothing}
  <2>1. subnetItems[h] \in SP!DeltasOf(HostSubnets) \cup {SP!NoDelta}
    BY DEF Inv, SP!QueueSound, SP!QueueTyped, SP!QueueTypeOK, SP!DeltasOf
  <2>. QED
    BY <2>1 DEF SP!DeltasOf, SP!NoDelta
<1>3. ASSUME NEW i \in 1..Len(subnetSent[h])
      PROVE  subnetSent[h][i].obj \in HostSubnets
  <2>1. subnetSent[h] \in Seq(SP!EventsOf(HostSubnets))
    BY SP!SentFacts DEF Inv, SP!QueueSound
  <2>2. subnetSent[h][i] \in SP!EventsOf(HostSubnets)
    BY <2>1
  <2>. QED
    BY <2>2 DEF SP!EventsOf
<1>. QED
  BY <1>1, <1>2, <1>3 DEF SP!Mentioned, SP!Ahead

LEMMA OwnedIs ==
    /\ \A h : Owned(h) = {sub.subnet : sub \in SP!Mentioned(h) \ {Nothing}} \ NotOwned
    /\ \A h : Owned(h)' = {sub.subnet : sub \in SP!Mentioned(h)' \ {Nothing}} \ NotOwned'
<1>1. \A h : SubnetQueue!Mentioned(h)' = SP!Mentioned(h)'
  BY DEF SubnetQueue!Mentioned, SP!Mentioned, SubnetQueue!Ahead, SP!Ahead
<1>. QED
  BY <1>1, MentionedIs DEF Owned, NotOwned

\* A step of the queue adds nothing to what a host owns but what is written.
LEMMA OwnedKept ==
    ASSUME Inv, SP!QueueNext(HostSubnets), dropped \subseteq dropped', NEW h \in Names
    PROVE  \A s \in Owned(h)' :
             \/ s \in Owned(h)
             \/ /\ hostSubnet'[h] # Nothing /\ hostSubnet'[h].subnet = s
                /\ s \notin dropped' \cup {NoSubnet}
<1>1. SP!Mentioned(h)' \subseteq SP!Mentioned(h) \cup {hostSubnet'[h], Nothing}
  BY SP!MentionedStep, ConstantFacts DEF Inv
<1>2. Owned(h)' = {sub.subnet : sub \in SP!Mentioned(h)' \ {Nothing}} \ (dropped' \cup {NoSubnet})
  BY OwnedIs DEF NotOwned
<1>3. Owned(h) = {sub.subnet : sub \in SP!Mentioned(h) \ {Nothing}} \ (dropped \cup {NoSubnet})
  BY OwnedIs DEF NotOwned
<1>. QED
  BY <1>1, <1>2, <1>3

\* What is deleted stays gone when what is written has not been gone before.
LEMMA GoneKept ==
    ASSUME Inv, SP!QueueNext(HostSubnets), dropped \subseteq dropped',
           \A h \in Names : SP!Fresh(Of, NotOwned, h)
    PROVE  SubnetQueue!GoneForGood(Of, NotOwned)'
<1>1. SP!GoneForGood(Of, NotOwned)
  BY MentionedIs DEF Inv, OwnersAreSound, Of, NotOwned
<1>2. PICK Except : Except = NotOwned
  OBVIOUS
<1>3. PICK More : More = NotOwned'
  OBVIOUS
<1>4. Except \subseteq More
  BY <1>2, <1>3 DEF NotOwned
<1>5. SP!GoneForGood(Of, Except) /\ \A h \in Names : SP!Fresh(Of, Except, h)
  BY <1>1, <1>2
<1>6. SP!GoneForGood(Of, Except)'
  BY <1>5, SP!GoneStep, ConstantFacts DEF Inv
<1>7. SP!GoneForGood(Of, More)'
  BY <1>4, <1>6, SP!GoneLess
<1>8. SP!GoneForGood(Of, NotOwned)' <=> SP!GoneForGood(Of, More)'
  BY <1>3 DEF SP!GoneForGood, SP!GoneAt, SP!Apart
<1>. QED
  BY <1>7, <1>8, MentionedIs

\* A write of the same subnet, of none or of nothing.
Plain(h) ==
    \/ hostSubnet'[h] = Nothing
    \/ hostSubnet'[h] \in HostSubnets /\ hostSubnet'[h].subnet = NoSubnet
    \/ /\ hostSubnet[h] # Nothing /\ hostSubnet'[h] \in HostSubnets
       /\ hostSubnet'[h].subnet = hostSubnet[h].subnet

LEMMA PlainFacts ==
    ASSUME Inv, SP!QueueNext(HostSubnets), dropped \subseteq dropped',
           NEW h \in Names, Plain(h)
    PROVE  SP!Fresh(Of, NotOwned, h) /\ Owned(h)' \subseteq Owned(h)
<1>1. SP!Fresh(Of, NotOwned, h)
  <2>1. CASE hostSubnet'[h] = Nothing
    BY <2>1 DEF SP!Fresh
  <2>2. CASE hostSubnet'[h] \in HostSubnets /\ hostSubnet'[h].subnet = NoSubnet
    <3>1. Of[hostSubnet'[h]] = NoSubnet /\ NoSubnet \in NotOwned
      BY <2>2 DEF Of, NotOwned
    <3>2. \A gone : SP!Apart(Of, NotOwned, hostSubnet'[h], gone)
      BY <3>1 DEF SP!Apart
    <3>. QED
      BY <3>2 DEF SP!Fresh
  <2>3. CASE /\ hostSubnet[h] # Nothing /\ hostSubnet'[h] \in HostSubnets
             /\ hostSubnet'[h].subnet = hostSubnet[h].subnet
    <3>1. hostSubnet[h] \in HostSubnets
      BY <2>3, StoredFacts
    <3>. QED
      BY <2>3, <3>1 DEF SP!Fresh, Of
  <2>. QED
    BY <2>1, <2>2, <2>3 DEF Plain
<1>2. ASSUME NEW s \in Owned(h)', s \notin Owned(h)
      PROVE  FALSE
  <2>1. hostSubnet'[h] # Nothing /\ hostSubnet'[h].subnet = s /\ s \notin dropped' \cup {NoSubnet}
    BY <1>2, OwnedKept
  <2>2. hostSubnet[h] # Nothing /\ hostSubnet[h].subnet = s
    BY <2>1 DEF Plain
  <2>3. hostSubnet[h] \in SP!Mentioned(h)
    BY StoredFacts
  <2>4. s \in Owned(h)
    BY <2>1, <2>2, <2>3, OwnedIs DEF NotOwned
  <2>. QED
    BY <1>2, <2>4
<1>. QED
  BY <1>1, <1>2

\* Nobody owns, and no goroutine is about to store, more than before.
LEMMA OwnersShrink ==
    ASSUME Inv, SP!QueueNext(HostSubnets), dropped \subseteq dropped',
           \A h \in Names : Plain(h),
           \A t \in Threads : Making(t)' \subseteq Making(t),
           \A h \in Names : Owned(h)' \subseteq taken',
           \A t \in Threads : Making(t)' \subseteq taken'
    PROVE  OwnersAreSound'
<1>1. \A h \in Names : SP!Fresh(Of, NotOwned, h) /\ Owned(h)' \subseteq Owned(h)
  BY PlainFacts
<1>2. SubnetQueue!GoneForGood(Of, NotOwned)'
  BY <1>1, GoneKept
<1>3. /\ \A g, h \in Names : g # h => Owned(g)' \cap Owned(h)' = {}
      /\ \A h \in Names, t \in Threads : Owned(h)' \cap Making(t)' = {}
      /\ \A t, u \in Threads : t # u => Making(t)' \cap Making(u)' = {}
  BY <1>1 DEF Inv, OwnersAreSound
<1>. QED
  BY <1>2, <1>3 DEF OwnersAreSound, Of, NotOwned

LEMMA OwnersKept ==
    ASSUME Inv, SP!QueueNext(HostSubnets), dropped \subseteq dropped',
           \A h \in Names : Plain(h),
           \A t \in Threads : Making(t)' \subseteq Making(t),
           taken \subseteq taken'
    PROVE  OwnersAreSound'
<1>1. \A h \in Names : Owned(h)' \subseteq Owned(h)
  BY PlainFacts
<1>2. /\ \A h \in Names : Owned(h) \subseteq taken
      /\ \A t \in Threads : Making(t) \subseteq taken
  BY DEF Inv, OwnersAreSound
<1>. QED
  BY <1>1, <1>2, OwnersShrink

LEMMA SameMaking ==
    ASSUME Inv, dropped \subseteq dropped', NEW t \in Threads,
           job'[t] = job[t] \/ job'[t].pc # "create"
    PROVE  Making(t)' \subseteq Making(t)
BY DEF Making

\* The goroutine is still at the annotated HostSubnets that wait for it.
LEMMA SeenKept ==
    ASSUME Inv, SP!QueueRuns(HostSubnets), HistoryOK', faults <= faults',
           \/ faults' > 0
           \/ job["subnets"].pc # "remove"
           \/ job'["subnets"] = job["subnets"]
           \/ hostSubnet'[job["subnets"].name] = Nothing
    PROVE  AnnotatedIsSeen'
<1>. SUFFICES ASSUME NEW h \in Names, h \notin subnetSkewed', SP!Quiet(h)',
                     hostSubnet'[h] # Nothing, hostSubnet'[h].assign, ~(faults' > 0)
              PROVE  job'["subnets"].pc = "remove" /\ job'["subnets"].name = h
  BY MentionedIs DEF AnnotatedIsSeen
<1>1. SP!Quiet(h) /\ h \notin subnetSkewed /\ hostSubnet[h] = hostSubnet'[h]
  BY SP!QuietRuns, ConstantFacts DEF Inv
<1>2. ~(faults > 0)
  BY DEF Inv, HistoryOK
<1>3. job["subnets"].pc = "remove" /\ job["subnets"].name = h
  BY <1>1, <1>2, MentionedIs DEF Inv, AnnotatedIsSeen
<1>. QED
  BY <1>3

-------------------------------------------------------------------------------
(* Writes, and queues that nothing happens to *)

LEMMA NodeWrite ==
    ASSUME Inv, NEW n \in Nodes, NEW new \in NodeObjects \cup {Nothing},
           ~(node[n] = Nothing /\ new = Nothing), NodeQueue!Write(n, new)
    PROVE  NP!QueueNext(NodeObjects)
<1>1. NP!Write(n, new)
  BY NodeQueueIs
<1>. QED
  BY <1>1 DEF NP!QueueNext, NP!QueueRuns

LEMMA NodeStutter ==
    ASSUME UNCHANGED nodeVars
    PROVE  NP!QueueNext(NodeObjects)
<1>1. UNCHANGED <<node, NP!queueVars>>
  BY DEF nodeVars, NP!queueVars
<1>. QED
  BY <1>1 DEF NP!QueueNext, NP!QueueRuns

LEMMA SubnetWrite ==
    ASSUME Inv, NEW h \in Names, NEW new \in HostSubnets \cup {Nothing},
           ~(hostSubnet[h] = Nothing /\ new = Nothing), SubnetQueue!Write(h, new)
    PROVE  /\ SP!QueueRuns(HostSubnets) /\ SP!QueueNext(HostSubnets)
           /\ \A g \in Names : hostSubnet'[g] = IF g = h THEN new ELSE hostSubnet[g]
           /\ \A g \in Names : g # h => Plain(g)
<1>1. SP!Write(h, new)
  BY SubnetQueueIs
<1>2. hostSubnet' = [hostSubnet EXCEPT ![h] = new]
  BY <1>1 DEF SP!Write, SP!Stored
<1>3. \A g \in Names : hostSubnet'[g] = IF g = h THEN new ELSE hostSubnet[g]
  BY <1>2, StoredFacts
<1>. QED
  BY <1>1, <1>3, StoredFacts DEF SP!QueueNext, SP!QueueRuns, Plain

LEMMA SubnetSame ==
    ASSUME Inv, UNCHANGED hostSubnet
    PROVE  \A g \in Names : Plain(g)
BY StoredFacts DEF Plain

LEMMA SubnetStutter ==
    ASSUME Inv, UNCHANGED subnetVars
    PROVE  /\ SP!QueueRuns(HostSubnets) /\ SP!QueueNext(HostSubnets)
           /\ \A g \in Names : Plain(g)
<1>1. UNCHANGED <<hostSubnet, SP!queueVars>>
  BY DEF subnetVars, SP!queueVars
<1>. QED
  BY <1>1, SubnetSame DEF SP!QueueNext, SP!QueueRuns

-------------------------------------------------------------------------------
(* What the goroutines are at *)

LEMMA JobFacts ==
    ASSUME Inv, NEW t \in Threads
    PROVE  /\ Idle \in Jobs /\ Idle.pc = "idle"
           /\ job[t] \in Jobs
           /\ job[t] # Idle => job[t].name \in Names /\ job[t].uid \in Nat /\ job[t].ip \in IPs
           /\ job[t].pc \in {"remove", "delete", "add"} =>
                job[t] \in [pc : {"remove", "delete", "add"}, name : Names, uid : Nat, ip : IPs]
           /\ job[t].pc = "create" => job[t].subnet \in Subnets
           /\ job[t].pc = "update" => job[t].read \in HostSubnets
           /\ job[t].pc # "idle" => job[t] # Idle
BY DEF Inv, JobsOK, Jobs, Idle

LEMMA GotoFacts ==
    ASSUME Inv, NEW t \in Threads, NEW j \in Jobs, Goto(t, j)
    PROVE  /\ JobsOK'
           /\ job'[t] = j
           /\ \A u \in Threads : u # t => job'[u] = job[u]
           /\ \A u \in Threads : job'[u] = job[u] \/ job'[u] = j
BY DEF Goto, Inv, JobsOK

LEMMA DoneFacts ==
    ASSUME Inv, NEW t \in Threads, Done(t)
    PROVE  /\ JobsOK' /\ JobsAreSound'
           /\ job'[t] = Idle /\ job'[t].pc = "idle"
           /\ \A u \in Threads : u # t => job'[u] = job[u]
           /\ Making(t)' = {}
<1>1. Idle \in Jobs /\ Idle.pc = "idle" /\ Goto(t, Idle)
  BY JobFacts DEF Done
<1>2. /\ JobsOK' /\ job'[t] = Idle
      /\ \A u \in Threads : u # t => job'[u] = job[u]
  BY <1>1, GotoFacts
<1>3. JobsAreSound'
  BY <1>2, ConstantFacts DEF Inv, JobsAreSound, IsIdle
<1>. QED
  BY <1>1, <1>2, <1>3 DEF Making

LEMMA SameJob ==
    ASSUME Inv, UNCHANGED job
    PROVE  JobsOK' /\ JobsAreSound'
BY DEF Inv, JobsOK, JobsAreSound, IsIdle

\* A goroutine goes on with the same object.
LEMMA GoesOn ==
    ASSUME Inv, NEW t \in Threads, NEW j \in Jobs, Goto(t, j), ~IsIdle(t),
           j.name = job[t].name, j.uid = job[t].uid, j.pc # "remove"
    PROVE  JobsAreSound'
<1>1. CASE t = "nodes"
  BY <1>1, GotoFacts DEF Inv, JobsAreSound, IsIdle
<1>2. CASE t # "nodes"
  BY <1>2, GotoFacts, ConstantFacts DEF Inv, JobsAreSound, IsIdle
<1>. QED
  BY <1>1, <1>2

LEMMA HistoryFacts ==
    ASSUME Inv, Works \/ Fails \/ Changes
    PROVE  /\ HistoryOK' /\ faults <= faults' /\ UNCHANGED dropped
           /\ Fails => faults' > 0
BY BoundsAssumption DEF Inv, HistoryOK, Works, Fails, Changes, Fault, history

LEMMA SameAllocator ==
    ASSUME Inv, UNCHANGED <<allocator, dropped>>
    PROVE  AllocatorOK' /\ taken \subseteq taken'
BY DEF Inv, AllocatorOK, allocator

LEMMA SameMap ==
    ASSUME Inv, UNCHANGED addressOf
    PROVE  MapOK'
BY DEF Inv, MapOK

\* A step that changes neither the allocator nor the map, after which no goroutine is
\* about to store more than before.
LEMMA InvFromQueues ==
    ASSUME Inv, NP!QueueNext(NodeObjects), SP!QueueRuns(HostSubnets),
           \A h \in Names : Plain(h),
           Works \/ Fails \/ Changes, UNCHANGED allocator, MapOK', JobsOK', JobsAreSound',
           \A t \in Threads : job'[t] = job[t] \/ job'[t].pc # "create",
           \/ Fails
           \/ job["subnets"].pc # "remove"
           \/ job'["subnets"] = job["subnets"]
           \/ hostSubnet'[job["subnets"].name] = Nothing
    PROVE  Inv'
<1>1. HistoryOK' /\ faults <= faults' /\ UNCHANGED dropped /\ (Fails => faults' > 0)
  BY HistoryFacts
<1>2. SP!QueueNext(HostSubnets)
  BY DEF SP!QueueNext
<1>3. AllocatorOK' /\ taken \subseteq taken'
  BY <1>1, SameAllocator
<1>4. OwnersAreSound'
  BY <1>1, <1>2, <1>3, SameMaking, OwnersKept
<1>5. AnnotatedIsSeen'
  BY <1>1, SeenKept
<1>. QED
  BY <1>1, <1>2, <1>3, <1>4, <1>5, InvFrom

-------------------------------------------------------------------------------
(* Nodes, administrators and queues *)

LEMMA NodesStep ==
    ASSUME Inv, NEW n \in Nodes, Register(n) \/ Move(n) \/ Leave(n) \/ Heartbeat(n)
    PROVE  Inv'
<1>1. ASSUME NEW new \in NodeObjects \cup {Nothing}, NodeQueue!Write(n, new),
             ~(node[n] = Nothing /\ new = Nothing),
             Works \/ Fails \/ Changes, UNCHANGED <<subnetVars, allocator, addressOf, job>>
      PROVE  Inv'
  BY <1>1, NodeWrite, SubnetStutter, SameMap, SameJob, InvFromQueues
<1>2. CASE Register(n)
  <2>1. PICK ip \in IPs : NodeChanges(n, [uid |-> changes + 2, ip |-> ip])
    BY <1>2 DEF Register
  <2>2. changes + 2 \in 1..(MaxChanges + 1)
    BY <2>1, BoundsAssumption DEF NodeChanges, Changes, Inv, HistoryOK
  <2>. DEFINE new == [uid |-> changes + 2, ip |-> ip]
  <2>3. new \in NodeObjects /\ NodeChanges(n, new)
    BY <2>1, <2>2 DEF NodeObjects
  <2>. HIDE DEF new
  <2>. QED
    BY <1>1, <2>3, ConstantFacts DEF NodeChanges
<1>3. CASE Move(n)
  <2>1. PICK ip \in IPs : NodeChanges(n, [node[n] EXCEPT !.ip = ip])
    BY <1>3 DEF Move
  <2>. DEFINE new == [node[n] EXCEPT !.ip = ip]
  <2>2. new \in NodeObjects /\ NodeChanges(n, new)
    BY <1>3, <2>1, StoredFacts DEF Move, NodeObjects
  <2>. HIDE DEF new
  <2>. QED
    BY <1>1, <2>2, ConstantFacts DEF NodeChanges
<1>4. CASE Leave(n)
  BY <1>1, <1>4 DEF Leave, NodeChanges
<1>5. CASE Heartbeat(n)
  BY <1>1, <1>5, StoredFacts DEF Heartbeat, Works
<1>. QED
  BY <1>2, <1>3, <1>4, <1>5

LEMMA AdminsStep ==
    ASSUME Inv, NEW h \in Names, (h \in Hosts /\ AskSubnet(h)) \/ DeleteSubnet(h)
    PROVE  Inv'
<1>1. ASSUME NEW new \in HostSubnets \cup {Nothing}, AdminStores(h, new),
             ~(hostSubnet[h] = Nothing /\ new = Nothing),
             new # Nothing => new.subnet = NoSubnet
      PROVE  Inv'
  <2>1. /\ SubnetQueue!Write(h, new) /\ Changes
        /\ UNCHANGED <<nodeVars, allocator, addressOf, job>>
    BY <1>1 DEF AdminStores
  <2>2. /\ SP!QueueRuns(HostSubnets)
        /\ hostSubnet'[h] = new
        /\ \A g \in Names : g # h => Plain(g)
    BY <1>1, <2>1, SubnetWrite
  <2>3. Plain(h)
    BY <1>1, <2>2 DEF Plain
  <2>. QED
    BY <2>1, <2>2, <2>3, NodeStutter, SameMap, SameJob, InvFromQueues
<1>2. CASE AskSubnet(h)
  <2>. DEFINE new == [ip |-> FirstIP, subnet |-> NoSubnet, assign |-> TRUE]
  <2>1. new \in HostSubnets /\ new.subnet = NoSubnet /\ AdminStores(h, new)
    BY <1>2, NamesAssumption DEF AskSubnet, HostSubnets
  <2>. HIDE DEF new
  <2>. QED
    BY <1>1, <2>1, ConstantFacts
<1>3. CASE DeleteSubnet(h)
  BY <1>1, <1>3 DEF DeleteSubnet
<1>. QED
  BY <1>2, <1>3

LEMMA QueuesStep ==
    ASSUME Inv,
           \/ NodeReflector \/ NodeResync \/ NodeWatchBreaks
           \/ SubnetReflector \/ SubnetResync \/ SubnetWatchBreaks
    PROVE  Inv'
<1>1. /\ UNCHANGED <<allocator, addressOf, job>>
      /\ Works \/ Fails
      /\ \/ /\ UNCHANGED subnetVars
            /\ \/ NodeQueue!List \/ NodeQueue!Replace \/ NodeQueue!Resync
               \/ NodeQueue!Break
               \/ \E n \in Nodes : NodeQueue!Deliver(n)
         \/ /\ UNCHANGED nodeVars
            /\ \/ SubnetQueue!List \/ SubnetQueue!Replace \/ SubnetQueue!Resync
               \/ SubnetQueue!Break
               \/ \E h \in Names : SubnetQueue!Deliver(h)
  BY DEF NodeReflector, NodeResync, NodeWatchBreaks, SubnetReflector, SubnetResync,
         SubnetWatchBreaks, Works, Fails
<1>2. UNCHANGED hostSubnet
  BY <1>1, SubnetQueueIs DEF subnetVars, SP!List, SP!Replace, SP!Resync, SP!Break, SP!Deliver
<1>3. NP!QueueNext(NodeObjects)
  BY <1>1, NodeQueueIs, NodeStutter DEF NP!QueueNext, NP!QueueRuns
<1>4. SP!QueueRuns(HostSubnets)
  BY <1>1, SubnetQueueIs, SubnetStutter DEF SP!QueueRuns
<1>. QED
  BY <1>1, <1>2, <1>3, <1>4, SubnetSame, SameMap, SameJob, InvFromQueues

LEMMA RestartsStep ==
    ASSUME Inv, Restart \/ NodePanic \/ SubnetPanic
    PROVE  Inv'
<1>1. /\ NP!Reset /\ SP!Reset /\ UNCHANGED <<node, hostSubnet>>
      /\ taken' = Stored /\ next' = 0 /\ addressOf' = {}
      /\ job' = [t \in Threads |-> Idle]
      /\ Works \/ Fails
  BY NodeQueueIs, SubnetQueueIs DEF Restart, NodePanic, SubnetPanic, Restarts
<1>2. NP!QueueNext(NodeObjects)
  BY <1>1 DEF NP!QueueNext, NP!QueueRuns
<1>3. SP!QueueNext(HostSubnets)
  BY <1>1 DEF SP!QueueNext, SP!QueueRuns
<1>4. HistoryOK' /\ faults <= faults' /\ UNCHANGED dropped
  BY <1>1, HistoryFacts
<1>5. JobsOK' /\ JobsAreSound' /\ \A t \in Threads : Making(t)' = {}
  BY <1>1, ConstantFacts DEF JobsOK, Jobs, JobsAreSound, IsIdle, Idle, Making
<1>6. ASSUME NEW h \in Names
      PROVE  Owned(h)' \subseteq taken'
  <2>1. SP!Mentioned(h)' \subseteq {hostSubnet[h], Nothing}
    <3>1. /\ subnetSent'[h] = <<>> /\ subnetItems'[h] = SP!NoDelta
          /\ subnetList'[h] = Nothing /\ subnetKnown'[h] = Nothing
      BY <1>1 DEF SP!Reset, SP!NoEvents, SP!Empty
    <3>2. 1..Len(subnetSent'[h]) = {}
      BY <3>1
    <3>. QED
      BY <1>1, <3>1, <3>2 DEF SP!Mentioned, SP!Ahead, SP!NoDelta
  <2>2. Owned(h)' \subseteq {sub.subnet : sub \in {hostSubnet[h]} \ {Nothing}} \ {NoSubnet}
    BY <2>1, OwnedIs DEF NotOwned
  <2>. QED
    BY <1>1, <2>2 DEF Stored
<1>7. AllocatorOK'
  <2>1. Stored \subseteq Subnets
    BY StoredFacts, ConstantFacts DEF Stored
  <2>2. next' \in 0..NumSubnets
    BY <1>1, SubnetsAre
  <2>. QED
    BY <1>1, <1>4, <2>1, <2>2 DEF Inv, AllocatorOK
<1>8. OwnersAreSound'
  BY <1>1, <1>3, <1>4, <1>5, <1>6, SubnetSame, OwnersShrink
<1>9. AnnotatedIsSeen'
  <2>1. \A h : ~SP!Quiet(h)'
    BY <1>1 DEF SP!Quiet, SP!Reset
  <2>. QED
    BY <2>1, MentionedIs DEF AnnotatedIsSeen
<1>10. MapOK'
  BY <1>1 DEF MapOK
<1>. QED
  BY <1>2, <1>3, <1>4, <1>5, <1>7, <1>8, <1>9, <1>10, InvFrom

-------------------------------------------------------------------------------
(* Events *)

LEMMA NodeEventStep ==
    ASSUME Inv, NEW n \in Nodes, NodeEvent(n)
    PROVE  Inv'
<1>. DEFINE obj == nodeItems[n].obj
<1>1. /\ IsIdle("nodes") /\ NP!Pop(n)
      /\ UNCHANGED <<subnetVars, allocator, history>>
  BY NodeQueueIs DEF NodeEvent
<1>2. obj \in NodeObjects /\ obj.uid \in 1..(MaxChanges + 1) /\ obj.ip \in IPs
  <2>1. nodeItems[n] \in NP!DeltasOf(NodeObjects) \cup {NP!NoDelta}
    BY DEF Inv, NP!QueueSound, NP!QueueTyped, NP!QueueTypeOK, NP!DeltasOf
  <2>2. obj \in NodeObjects
    BY <1>1, <2>1 DEF NP!Pop, NP!DeltasOf
  <2>. QED
    BY <2>2 DEF NodeObjects
<1>3. /\ \/ UNCHANGED addressOf
         \/ addressOf' \subseteq addressOf
      /\ \/ Done("nodes")
         \/ Goto("nodes", [Adding(n, obj.uid, obj.ip) EXCEPT !.pc = "delete"])
         \/ Goto("nodes", Adding(n, obj.uid, obj.ip))
  BY DEF NodeEvent, Forget
<1>. HIDE DEF obj
<1>4. MapOK'
  BY <1>3, SameMap DEF Inv, MapOK
<1>5. /\ JobsOK' /\ JobsAreSound'
      /\ job'["subnets"] = job["subnets"]
      /\ \A t \in Threads : job'[t] = job[t] \/ job'[t].pc # "create"
  <2>1. ASSUME NEW pc \in {"delete", "add"},
               Goto("nodes", [Adding(n, obj.uid, obj.ip) EXCEPT !.pc = pc])
        PROVE  /\ JobsOK' /\ JobsAreSound'
               /\ job'["subnets"] = job["subnets"]
               /\ \A t \in Threads : job'[t] = job[t] \/ job'[t].pc # "create"
    <3>1. n \in Names /\ obj.uid \in Nat /\ obj.ip \in IPs
      BY <1>2, ConstantFacts, BoundsAssumption
    <3>. DEFINE j == [Adding(n, obj.uid, obj.ip) EXCEPT !.pc = pc]
    <3>2. Goto("nodes", j)
      BY <2>1
    <3>3. j \in Jobs /\ j.name = n /\ j.uid = obj.uid /\ j.pc = pc
      BY <3>1 DEF Adding, Jobs
    <3>. HIDE DEF j
    <3>4. /\ JobsOK' /\ job'["nodes"] = j
          /\ job'["subnets"] = job["subnets"]
          /\ \A t \in Threads : job'[t] = job[t] \/ job'[t] = j
      BY <3>2, <3>3, GotoFacts, ConstantFacts
    <3>5. JobsAreSound'
      BY <1>2, <3>3, <3>4 DEF JobsAreSound
    <3>. QED
      BY <3>3, <3>4, <3>5
  <2>2. ASSUME Done("nodes")
        PROVE  /\ JobsOK' /\ JobsAreSound'
               /\ job'["subnets"] = job["subnets"]
               /\ \A t \in Threads : job'[t] = job[t] \/ job'[t].pc # "create"
    BY <2>2, DoneFacts, ConstantFacts
  <2>. QED
    <3>1. Adding(n, obj.uid, obj.ip) = [Adding(n, obj.uid, obj.ip) EXCEPT !.pc = "add"]
      BY DEF Adding
    <3>. QED
      BY <1>3, <2>1, <2>2, <3>1
<1>6. NP!QueueNext(NodeObjects)
  BY <1>1 DEF NP!QueueNext
<1>. QED
  BY <1>1, <1>4, <1>5, <1>6, SubnetStutter, InvFromQueues DEF Works

\* The subnet of a HostSubnet that is gone is nobody's any more, or was lost before.
LEMMA ReleaseFacts ==
    ASSUME Inv, NEW h \in Names, SP!Pop(h), subnetItems[h].type = "Deleted",
           UNCHANGED <<dropped, job>>
    PROVE  /\ \A g \in Names : subnetItems[h].obj.subnet \notin Owned(g)'
           /\ \A t \in Threads : subnetItems[h].obj.subnet \notin Making(t)'
<1>. DEFINE obj == subnetItems[h].obj
<1>1. SP!QueueNext(HostSubnets) /\ UNCHANGED hostSubnet
  BY DEF SP!QueueNext, SP!Pop
<1>2. obj \in HostSubnets /\ obj \in SP!Mentioned(h)
  <2>1. subnetItems[h] # SP!NoDelta
    BY DEF SP!Pop
  <2>2. subnetItems[h] \in SP!DeltasOf(HostSubnets) \cup {SP!NoDelta}
    BY DEF Inv, SP!QueueSound, SP!QueueTyped, SP!QueueTypeOK, SP!DeltasOf
  <2>. QED
    BY <2>1, <2>2, StoredFacts DEF SP!DeltasOf
<1>3. \A g \in Names : Owned(g)' \subseteq Owned(g)
  BY <1>1, PlainFacts, SubnetSame
<1>4. \A t \in Threads : Making(t)' = Making(t)
  BY DEF Making
<1>5. CASE obj.subnet \in NotOwned
  <2>1. obj.subnet \in NotOwned'
    BY <1>5 DEF NotOwned
  <2>2. \A t \in Threads : obj.subnet \notin Making(t)
    BY <1>5, JobFacts, ConstantFacts DEF Making, NotOwned
  <2>. QED
    BY <1>4, <2>1, <2>2, OwnedIs
<1>6. CASE obj.subnet \notin NotOwned
  <2>1. obj.subnet \in Owned(h)
    BY <1>2, <1>6, ConstantFacts, OwnedIs
  <2>2. /\ \A g \in Names : g # h => obj.subnet \notin Owned(g)'
        /\ \A t \in Threads : obj.subnet \notin Making(t)'
    BY <1>3, <1>4, <2>1 DEF Inv, OwnersAreSound
  <2>3. obj.subnet \notin Owned(h)'
    <3>1. PICK Except : Except = NotOwned
      OBVIOUS
    <3>2. SP!GoneForGood(Of, Except)
      BY <3>1, MentionedIs DEF Inv, OwnersAreSound, Of, NotOwned
    <3>3. \A x \in SP!Mentioned(h)' : SP!Apart(Of, Except, x, obj)
      BY <3>2, SP!PopForgets, ConstantFacts DEF Inv
    <3>4. Of[obj] = obj.subnet /\ obj # Nothing
      BY <1>2, ConstantFacts DEF Of
    <3>5. \A x \in SP!Mentioned(h)' \ {Nothing} : Of[x] # obj.subnet
      BY <1>6, <3>1, <3>3, <3>4 DEF SP!Apart
    <3>6. SP!Mentioned(h)' \subseteq HostSubnets \cup {Nothing}
      <4>1. SP!Mentioned(h)' \subseteq SP!Mentioned(h) \cup {hostSubnet'[h], Nothing}
        BY <1>1, SP!MentionedStep, ConstantFacts DEF Inv
      <4>. QED
        BY <1>1, <4>1, MentionedType, StoredFacts
    <3>. QED
      BY <3>5, <3>6, OwnedIs DEF Of
  <2>. QED
    BY <2>2, <2>3
<1>. QED
  BY <1>5, <1>6

\* A delta that the goroutine takes is about what is stored, or something is under way.
LEMMA SeenTaken ==
    ASSUME Inv, NEW h \in Names, SP!Pop(h), UNCHANGED faults, IsIdle("subnets"),
           subnetItems[h].type # "Deleted" /\ subnetItems[h].obj.assign =>
             job'["subnets"].pc = "remove" /\ job'["subnets"].name = h
    PROVE  AnnotatedIsSeen'
<1>. SUFFICES ASSUME NEW g \in Names, g \notin subnetSkewed', SP!Quiet(g)',
                     hostSubnet'[g] # Nothing, hostSubnet'[g].assign, ~(faults > 0)
              PROVE  job'["subnets"].pc = "remove" /\ job'["subnets"].name = g
  BY MentionedIs DEF AnnotatedIsSeen
<1>1. /\ g \notin subnetSkewed /\ hostSubnet[g] = hostSubnet'[g]
      /\ \/ SP!Quiet(g)
         \/ h = g /\ subnetItems[g].type # "Deleted" /\ subnetItems[g].obj = hostSubnet[g]
  BY SP!QuietPop, ConstantFacts DEF Inv
<1>2. ~SP!Quiet(g)
  BY <1>1, MentionedIs, JobFacts, ConstantFacts DEF Inv, AnnotatedIsSeen, IsIdle
<1>. QED
  BY <1>1, <1>2

LEMMA SubnetEventStep ==
    ASSUME Inv, NEW h \in Names, SubnetEvent(h)
    PROVE  Inv'
<1>. DEFINE obj == subnetItems[h].obj
<1>1. /\ IsIdle("subnets") /\ SP!Pop(h)
      /\ UNCHANGED <<nodeVars, addressOf, history>>
      /\ UNCHANGED <<dropped, faults, changes>>
  BY SubnetQueueIs DEF SubnetEvent, history
<1>2. obj \in HostSubnets
  <2>1. subnetItems[h] \in SP!DeltasOf(HostSubnets) \cup {SP!NoDelta}
    BY DEF Inv, SP!QueueSound, SP!QueueTyped, SP!QueueTypeOK, SP!DeltasOf
  <2>. QED
    BY <1>1, <2>1 DEF SP!Pop, SP!DeltasOf
<1>3. SP!QueueNext(HostSubnets) /\ \A g \in Names : Plain(g)
  BY <1>1, SubnetSame DEF SP!QueueNext, SP!Pop
<1>4. HistoryOK' /\ MapOK' /\ NP!QueueNext(NodeObjects)
  BY <1>1, HistoryFacts, SameMap, NodeStutter DEF Works
<1>5. ASSUME subnetItems[h].type = "Deleted", UNCHANGED job,
             IF obj.assign THEN UNCHANGED allocator ELSE Release(obj.subnet)
      PROVE  Inv'
  <2>1. JobsOK' /\ JobsAreSound'
    BY <1>5, SameJob
  <2>2. AnnotatedIsSeen'
    BY <1>1, <1>5, SeenTaken
  <2>3. \A t \in Threads : Making(t)' \subseteq Making(t)
    BY <1>1, <1>5, SameMaking
  <2>4. AllocatorOK'
    BY <1>1, <1>5, SameAllocator DEF Inv, AllocatorOK, Release
  <2>5. taken \ {obj.subnet} \subseteq taken'
    BY <1>5 DEF Release, allocator
  <2>6. /\ \A g \in Names : obj.subnet \notin Owned(g)'
        /\ \A t \in Threads : obj.subnet \notin Making(t)'
    BY <1>1, <1>5, ReleaseFacts
  <2>7. /\ \A g \in Names : Owned(g)' \subseteq taken
        /\ \A t \in Threads : Making(t)' \subseteq taken
    BY <1>1, <1>3, <2>3, PlainFacts DEF Inv, OwnersAreSound
  <2>8. OwnersAreSound'
    BY <1>1, <1>3, <2>3, <2>5, <2>6, <2>7, OwnersShrink
  <2>. QED
    BY <1>3, <1>4, <2>1, <2>2, <2>4, <2>8, InvFrom
<1>6. ASSUME subnetItems[h].type # "Deleted", UNCHANGED allocator,
             IF obj.assign
               THEN Goto("subnets", [Adding(h, 0, obj.ip) EXCEPT !.pc = "remove"])
               ELSE UNCHANGED job
      PROVE  Inv'
  <2>1. AllocatorOK' /\ taken \subseteq taken'
    BY <1>1, <1>6, SameAllocator
  <2>2. /\ JobsOK' /\ JobsAreSound'
        /\ \A t \in Threads : job'[t] = job[t] \/ job'[t].pc # "create"
        /\ obj.assign => job'["subnets"].pc = "remove" /\ job'["subnets"].name = h
    <3>1. CASE obj.assign
      <4>1. obj.ip \in IPs
        BY <1>2, ConstantFacts
      <4>. DEFINE j == [Adding(h, 0, obj.ip) EXCEPT !.pc = "remove"]
      <4>2. Goto("subnets", j)
        BY <1>6, <3>1
      <4>3. j \in Jobs /\ j.name = h /\ j.pc = "remove"
        BY <4>1 DEF Adding, Jobs
      <4>. HIDE DEF j
      <4>4. /\ JobsOK' /\ job'["subnets"] = j /\ job'["nodes"] = job["nodes"]
            /\ \A t \in Threads : job'[t] = job[t] \/ job'[t] = j
        BY <4>2, <4>3, GotoFacts, ConstantFacts
      <4>5. JobsAreSound'
        BY <4>4 DEF Inv, JobsAreSound, IsIdle
      <4>. QED
        BY <4>3, <4>4, <4>5
    <3>2. CASE ~obj.assign
      BY <1>6, <3>2, SameJob
    <3>. QED
      BY <3>1, <3>2
  <2>3. AnnotatedIsSeen'
    BY <1>1, <2>2, SeenTaken
  <2>4. OwnersAreSound'
    BY <1>1, <1>3, <2>1, <2>2, SameMaking, OwnersKept
  <2>. QED
    BY <1>3, <1>4, <2>1, <2>2, <2>3, <2>4, InvFrom
<1>. QED
  BY <1>5, <1>6 DEF SubnetEvent

-------------------------------------------------------------------------------
(* The allocator *)

\* GetNetwork: a free subnet is there, and it is one of the network's.
LEMMA GetNetworkFacts ==
    ASSUME Inv, NEW t \in Threads, GetNetwork(t), job[t].pc = "add"
    PROVE  \/ /\ Done(t) /\ UNCHANGED taken
              /\ next' \in 0..NumSubnets
           \/ \E s \in Subnets :
                /\ s \notin taken /\ taken' = taken \cup {s}
                /\ next' \in 0..NumSubnets
                /\ Goto(t, [pc |-> "create", name |-> job[t].name, uid |-> job[t].uid,
                            ip |-> job[t].ip, subnet |-> s])
<1>1. NumSubnets \in Nat \ {0} /\ next \in Nat
  BY SubnetsAre DEF Inv, AllocatorOK
<1>2. CASE Candidates = {}
  BY <1>1, <1>2 DEF GetNetwork
<1>3. CASE Candidates # {}
  <2>. DEFINE i == CHOOSE i \in Candidates : \A j \in Candidates : i <= j
              n == (i + next) % NumSubnets
              s == SubnetAt(HostBits, SubnetBits, n)
  <2>1. /\ taken' = taken \cup {s} /\ next' = n + 1
        /\ Goto(t, [pc |-> "create", name |-> job[t].name, uid |-> job[t].uid,
                    ip |-> job[t].ip, subnet |-> s])
    BY <1>3 DEF GetNetwork
  <2>2. Candidates \subseteq 0..(NumSubnets - 1) /\ NumSubnets - 1 \in Nat
    BY <1>1 DEF Candidates
  <2>3. i \in Candidates
    <3>1. Candidates \subseteq Nat
      BY <2>2
    <3>2. \E k \in Candidates : \A j \in Candidates : k <= j
      BY <1>3, <3>1, Least
    <3>. QED
      BY <3>2
  <2>4. s \notin taken
    BY <2>3 DEF Candidates
  <2>5. n \in 0..(NumSubnets - 1)
    <3>. HIDE DEF i
    <3>1. i \in Nat
      BY <2>2, <2>3
    <3>. QED
      BY <1>1, <3>1
  <2>6. s \in Subnets
    <3>. HIDE DEF n
    <3>. QED
      BY <2>5 DEF Subnets
  <2>7. next' \in 0..NumSubnets
    <3>. HIDE DEF n
    <3>. QED
      BY <1>1, <2>1, <2>5
  <2>. HIDE DEF s
  <2>. QED
    BY <2>1, <2>4, <2>6, <2>7
<1>. QED
  BY <1>2, <1>3

-------------------------------------------------------------------------------
(* The handlers *)

\* The goroutine is done, or goes on with what it is at, and makes nothing yet.
LEMMA HandlerKeeps ==
    ASSUME Inv, NEW t \in Threads,
           \/ Done(t)
           \/ \E j \in Jobs : /\ Goto(t, j) /\ ~IsIdle(t)
                              /\ j.name = job[t].name /\ j.uid = job[t].uid
                              /\ j.pc \notin {"remove", "create"}
    PROVE  /\ JobsOK' /\ JobsAreSound'
           /\ \A u \in Threads : job'[u] = job[u] \/ job'[u].pc # "create"
           /\ t # "subnets" => job'["subnets"] = job["subnets"]
<1>1. CASE Done(t)
  BY <1>1, DoneFacts, ConstantFacts
<1>2. ASSUME NEW j \in Jobs, Goto(t, j), ~IsIdle(t), j.name = job[t].name,
             j.uid = job[t].uid, j.pc \notin {"remove", "create"}
      PROVE  /\ JobsOK' /\ JobsAreSound'
             /\ \A u \in Threads : job'[u] = job[u] \/ job'[u].pc # "create"
             /\ t # "subnets" => job'["subnets"] = job["subnets"]
  BY <1>2, GotoFacts, GoesOn, ConstantFacts
<1>. QED
  BY <1>1, <1>2

\* The address of a node is recorded.
LEMMA RecordFacts ==
    ASSUME Inv, NEW t \in Threads, job[t].pc # "idle", Record(t)
    PROVE  MapOK'
<1>1. CASE t # "nodes"
  BY <1>1 DEF Record, Inv, MapOK
<1>2. CASE t = "nodes"
  <2>1. /\ job[t].name \in Nodes /\ job[t].uid \in 1..(MaxChanges + 1)
        /\ job[t].ip \in IPs
    BY <1>2, JobFacts DEF Inv, JobsAreSound, IsIdle
  <2>2. addressOf' \subseteq addressOf \cup {[name |-> job[t].name, uid |-> job[t].uid,
                                              ip |-> job[t].ip]}
    BY <1>2 DEF Record
  <2>. QED
    BY <2>1, <2>2 DEF Inv, MapOK
<1>. QED
  BY <1>1, <1>2

LEMMA AddNodeStep ==
    ASSUME Inv, NEW t \in Threads, AddNode(t)
    PROVE  Inv'
<1>1. /\ job[t].pc = "add" /\ UNCHANGED <<nodeVars, subnetVars>>
      /\ job[t] # Idle /\ ~IsIdle(t)
      /\ job[t].name \in Names /\ job[t].uid \in Nat /\ job[t].ip \in IPs
  BY JobFacts DEF AddNode, IsIdle
<1>2. /\ NP!QueueNext(NodeObjects)
      /\ SP!QueueRuns(HostSubnets) /\ SP!QueueNext(HostSubnets)
      /\ UNCHANGED hostSubnet /\ \A h \in Names : Plain(h)
  BY <1>1, NodeStutter, SubnetStutter DEF subnetVars
<1>4. ASSUME Works \/ Fails, GetNetwork(t), UNCHANGED addressOf
      PROVE  Inv'
  <2>1. HistoryOK' /\ faults <= faults' /\ UNCHANGED dropped /\ MapOK'
    BY <1>4, HistoryFacts, SameMap
  <2>2. ASSUME Done(t), UNCHANGED taken, next' \in 0..NumSubnets
        PROVE  Inv'
    <3>1. /\ JobsOK' /\ JobsAreSound'
          /\ \A u \in Threads : job'[u] = job[u] \/ job'[u].pc # "create"
          /\ t # "subnets" => job'["subnets"] = job["subnets"]
      BY <2>2, HandlerKeeps
    <3>2. AnnotatedIsSeen'
      BY <1>1, <1>2, <2>1, <3>1, SeenKept
    <3>3. OwnersAreSound'
      BY <1>2, <2>1, <2>2, <3>1, SameMaking, OwnersKept
    <3>4. AllocatorOK'
      BY <2>1, <2>2 DEF Inv, AllocatorOK
    <3>. QED
      BY <1>2, <2>1, <3>1, <3>2, <3>3, <3>4, InvFrom
  <2>3. ASSUME NEW s \in Subnets, s \notin taken, taken' = taken \cup {s},
               next' \in 0..NumSubnets,
               Goto(t, [pc |-> "create", name |-> job[t].name, uid |-> job[t].uid,
                        ip |-> job[t].ip, subnet |-> s])
        PROVE  Inv'
    <3>. DEFINE j == [pc |-> "create", name |-> job[t].name, uid |-> job[t].uid,
                      ip |-> job[t].ip, subnet |-> s]
    <3>1. /\ j \in Jobs /\ Goto(t, j) /\ j.name = job[t].name /\ j.uid = job[t].uid
          /\ j.pc = "create" /\ j.subnet = s
      BY <1>1, <2>3 DEF Jobs
    <3>. HIDE DEF j
    <3>2. JobsOK' /\ JobsAreSound' /\ job'[t] = j /\ \A u \in Threads : u # t => job'[u] = job[u]
      BY <1>1, <3>1, GotoFacts, GoesOn
    <3>3. AnnotatedIsSeen'
      BY <1>1, <1>2, <2>1, <3>2, ConstantFacts, SeenKept
    <3>4. AllocatorOK'
      BY <2>1, <2>3 DEF Inv, AllocatorOK
    <3>5. /\ Making(t)' \subseteq {s}
          /\ \A u \in Threads : u # t => Making(u)' = Making(u)
      BY <2>1, <3>1, <3>2 DEF Making
    <3>6. \A h \in Names : Owned(h)' \subseteq Owned(h) /\ SP!Fresh(Of, NotOwned, h)
      BY <1>2, <2>1, PlainFacts
    <3>7. SubnetQueue!GoneForGood(Of, NotOwned)'
      BY <1>2, <2>1, <3>6, GoneKept
    <3>8. /\ \A h \in Names : s \notin Owned(h)' /\ Owned(h)' \subseteq taken'
          /\ \A u \in Threads : s \notin Making(u) /\ Making(u) \subseteq taken'
      BY <2>3, <3>6 DEF Inv, OwnersAreSound
    <3>9. /\ \A g, h \in Names : g # h => Owned(g)' \cap Owned(h)' = {}
          /\ \A h \in Names, u \in Threads : Owned(h)' \cap Making(u)' = {}
          /\ \A u, v \in Threads : u # v => Making(u)' \cap Making(v)' = {}
          /\ \A u \in Threads : Making(u)' \subseteq taken'
      <4>1. /\ \A g, h \in Names : g # h => Owned(g) \cap Owned(h) = {}
            /\ \A h \in Names, u \in Threads : Owned(h) \cap Making(u) = {}
            /\ \A u, v \in Threads : u # v => Making(u) \cap Making(v) = {}
        BY DEF Inv, OwnersAreSound
      <4>. QED
        BY <2>3, <3>5, <3>6, <3>8, <4>1
    <3>10. OwnersAreSound'
      BY <3>7, <3>8, <3>9 DEF OwnersAreSound, Of, NotOwned
    <3>. QED
      BY <1>2, <2>1, <3>2, <3>3, <3>4, <3>10, InvFrom
  <2>. QED
    BY <1>1, <1>4, <2>2, <2>3, GetNetworkFacts
<1>5. ASSUME Record(t), Done(t), Works, UNCHANGED allocator
      PROVE  Inv'
  <2>1. MapOK'
    BY <1>1, <1>5, RecordFacts
  <2>2. /\ JobsOK' /\ JobsAreSound'
        /\ \A u \in Threads : job'[u] = job[u] \/ job'[u].pc # "create"
        /\ t # "subnets" => job'["subnets"] = job["subnets"]
    BY <1>5, HandlerKeeps
  <2>. QED
    BY <1>1, <1>2, <1>5, <2>1, <2>2, InvFromQueues
<1>6. ASSUME hostSubnet[job[t].name] # Nothing,
             Goto(t, [pc |-> "update", name |-> job[t].name, uid |-> job[t].uid,
                      ip |-> job[t].ip, read |-> hostSubnet[job[t].name]]),
             Works, UNCHANGED <<allocator, addressOf>>
      PROVE  Inv'
  <2>. DEFINE j == [pc |-> "update", name |-> job[t].name, uid |-> job[t].uid,
                    ip |-> job[t].ip, read |-> hostSubnet[job[t].name]]
  <2>1. hostSubnet[job[t].name] \in HostSubnets
    BY <1>1, <1>6, StoredFacts
  <2>2. /\ j \in Jobs /\ Goto(t, j) /\ j.name = job[t].name /\ j.uid = job[t].uid
        /\ j.pc = "update"
    BY <1>1, <1>6, <2>1 DEF Jobs
  <2>. HIDE DEF j
  <2>3. /\ JobsOK' /\ JobsAreSound'
        /\ \A u \in Threads : job'[u] = job[u] \/ job'[u].pc # "create"
        /\ t # "subnets" => job'["subnets"] = job["subnets"]
    BY <1>1, <2>2, HandlerKeeps
  <2>. QED
    BY <1>1, <1>2, <1>6, <2>3, SameMap, InvFromQueues
<1>. QED
  BY <1>4, <1>5, <1>6 DEF AddNode

\* What a goroutine is about to store is nobody else's, or was lost before.
LEMMA MakingFacts ==
    ASSUME Inv, NEW t \in Threads, job[t].pc = "create"
    PROVE  /\ job[t].subnet \in Subnets /\ job[t].subnet # NoSubnet
           /\ job[t].subnet \in dropped \/ Making(t) = {job[t].subnet}
           /\ \A h \in Names : job[t].subnet \notin Owned(h)
           /\ \A u \in Threads : u # t => job[t].subnet \notin Making(u)
<1>1. job[t].subnet \in Subnets /\ job[t].subnet # NoSubnet
  BY JobFacts, ConstantFacts
<1>2. CASE job[t].subnet \in dropped
  BY <1>1, <1>2, OwnedIs DEF Making, NotOwned
<1>3. CASE job[t].subnet \notin dropped
  <2>1. Making(t) = {job[t].subnet}
    BY <1>3 DEF Making
  <2>. QED
    BY <1>1, <2>1 DEF Inv, OwnersAreSound
<1>. QED
  BY <1>2, <1>3

\* The subnet of a new HostSubnet has not been released since it was taken.
LEMMA CreatedFacts ==
    ASSUME Inv, NEW t \in Threads, job[t].pc = "create",
           NEW h, h = job[t].name, NEW s, s = job[t].subnet,
           hostSubnet[h] = Nothing, SubnetQueue!Write(h, Created(t)), dropped \subseteq dropped'
    PROVE  /\ SP!QueueRuns(HostSubnets) /\ SP!QueueNext(HostSubnets)
           /\ SubnetQueue!GoneForGood(Of, NotOwned)'
           /\ \A g \in Names : \A x \in Owned(g)' :
                x \in Owned(g) \/ (g = h /\ x = s /\ x \notin dropped')
<1>1. h \in Names /\ job[t].ip \in IPs /\ s \in Subnets /\ s # NoSubnet
  BY JobFacts, MakingFacts
<1>2. Created(t) \in HostSubnets /\ Created(t).subnet = s
  BY <1>1 DEF Created, HostSubnets
<1>3. /\ SP!QueueRuns(HostSubnets) /\ SP!QueueNext(HostSubnets)
      /\ hostSubnet'[h] = Created(t)
      /\ \A g \in Names : g # h => Plain(g)
  BY <1>1, <1>2, ConstantFacts, SubnetWrite
<1>4. SP!Fresh(Of, NotOwned, h)
  <2>1. ASSUME NEW gone \in SP!Mentioned(h), gone # Nothing, Of[gone] \notin NotOwned
        PROVE  Of[gone] # s
    <3>1. gone \in HostSubnets /\ Of[gone] = gone.subnet
      BY <1>1, <2>1, MentionedType DEF Of
    <3>2. gone.subnet \in Owned(h)
      BY <2>1, <3>1, OwnedIs
    <3>. QED
      BY <1>1, <3>1, <3>2, MakingFacts
  <2>2. Of[Created(t)] = s
    BY <1>2 DEF Of
  <2>3. \A gone \in SP!Mentioned(h) : SP!Apart(Of, NotOwned, Created(t), gone)
    BY <2>1, <2>2 DEF SP!Apart
  <2>. QED
    BY <1>3, <2>3 DEF SP!Fresh
<1>5. \A g \in Names : SP!Fresh(Of, NotOwned, g)
  BY <1>3, <1>4, PlainFacts
<1>6. SubnetQueue!GoneForGood(Of, NotOwned)'
  BY <1>3, <1>5, GoneKept
<1>7. \A g \in Names : g # h => Owned(g)' \subseteq Owned(g)
  BY <1>3, PlainFacts
<1>8. ASSUME NEW x \in Owned(h)', x \notin Owned(h)
      PROVE  x = s /\ x \notin dropped'
  <2>1. hostSubnet'[h].subnet = x /\ x \notin dropped' \cup {NoSubnet}
    BY <1>1, <1>3, <1>8, OwnedKept
  <2>. QED
    BY <1>2, <1>3, <2>1
<1>. QED
  BY <1>3, <1>6, <1>7, <1>8

LEMMA CreateSubnetStep ==
    ASSUME Inv, NEW t \in Threads, CreateSubnet(t)
    PROVE  Inv'
<1>a. PICK h : h = job[t].name
  OBVIOUS
<1>b. PICK s : s = job[t].subnet
  OBVIOUS
<1>1. /\ job[t].pc = "create" /\ Done(t) /\ UNCHANGED nodeVars
      /\ h \in Names
  BY <1>a, JobFacts DEF CreateSubnet
<1>2. /\ JobsOK' /\ JobsAreSound' /\ Making(t)' = {}
      /\ \A u \in Threads : u # t => job'[u] = job[u]
      /\ NP!QueueNext(NodeObjects)
  BY <1>1, DoneFacts, NodeStutter
<1>3. job["subnets"].pc # "remove" \/ job'["subnets"] = job["subnets"]
  BY <1>1, <1>2, ConstantFacts
<1>4. dropped \subseteq dropped' => \A u \in Threads : Making(u)' \subseteq Making(u)
  BY <1>2 DEF Making
<1>5. /\ \A g, k \in Names : g # k => Owned(g) \cap Owned(k) = {}
      /\ \A g \in Names, u \in Threads : Owned(g) \cap Making(u) = {}
      /\ \A u, v \in Threads : u # v => Making(u) \cap Making(v) = {}
      /\ \A g \in Names : Owned(g) \subseteq taken
      /\ \A u \in Threads : Making(u) \subseteq taken
  BY DEF Inv, OwnersAreSound
<1>6. /\ s \in Subnets
      /\ s \in dropped \/ Making(t) = {s}
      /\ \A g \in Names : s \notin Owned(g)
      /\ \A u \in Threads : u # t => s \notin Making(u)
  BY <1>1, <1>b, MakingFacts
<1>7. ASSUME hostSubnet[h] = Nothing, SubnetQueue!Write(h, Created(t)),
             dropped \subseteq dropped'
      PROVE  /\ SP!QueueRuns(HostSubnets) /\ SP!QueueNext(HostSubnets)
             /\ SubnetQueue!GoneForGood(Of, NotOwned)'
             /\ \A g \in Names : \A x \in Owned(g)' :
                  x \in Owned(g) \/ (g = h /\ x = s /\ x \notin dropped')
  BY <1>1, <1>7, <1>a, <1>b, CreatedFacts
<1>8. ASSUME Record(t)
      PROVE  MapOK'
  BY <1>1, <1>8, RecordFacts
<1>9. ASSUME hostSubnet[h] = Nothing, SubnetQueue!Write(h, Created(t)), Record(t), Works,
             UNCHANGED allocator
      PROVE  Inv'
  <2>1. HistoryOK' /\ faults <= faults' /\ UNCHANGED dropped
    BY <1>9, HistoryFacts
  <2>2. /\ SP!QueueRuns(HostSubnets) /\ SP!QueueNext(HostSubnets)
        /\ SubnetQueue!GoneForGood(Of, NotOwned)'
        /\ \A g \in Names : \A x \in Owned(g)' :
             x \in Owned(g) \/ (g = h /\ x = s /\ x \notin dropped')
    BY <1>7, <1>9, <2>1
  <2>3. MapOK' /\ AllocatorOK' /\ UNCHANGED taken
    BY <1>8, <1>9, <2>1, SameAllocator DEF allocator
  <2>4. \A g \in Names : \A x \in Owned(g)' :
             x \in Owned(g) \/ (g = h /\ x = s /\ x \in Making(t))
    BY <1>6, <2>1, <2>2
  <2>5. OwnersAreSound'
    <3>1. \A g, k \in Names : g # k => Owned(g)' \cap Owned(k)' = {}
      BY <1>5, <1>6, <2>4
    <3>2. \A g \in Names, u \in Threads : Owned(g)' \cap Making(u)' = {}
      BY <1>2, <1>4, <1>5, <1>6, <2>1, <2>4
    <3>3. \A g \in Names : Owned(g)' \subseteq taken'
      BY <1>5, <2>3, <2>4
    <3>4. /\ \A u, v \in Threads : u # v => Making(u)' \cap Making(v)' = {}
          /\ \A u \in Threads : Making(u)' \subseteq taken'
      BY <1>4, <1>5, <2>1, <2>3
    <3>. QED
      BY <2>2, <3>1, <3>2, <3>3, <3>4 DEF OwnersAreSound, Of, NotOwned
  <2>6. AnnotatedIsSeen'
    BY <1>3, <2>1, <2>2, SeenKept
  <2>. QED
    BY <1>2, <2>1, <2>2, <2>3, <2>5, <2>6, InvFrom
<1>10. ASSUME Works \/ Fails, Release(s), UNCHANGED <<subnetVars, addressOf>>
      PROVE  Inv'
  <2>1. HistoryOK' /\ faults <= faults' /\ UNCHANGED dropped
    BY <1>10, HistoryFacts
  <2>2. /\ SP!QueueRuns(HostSubnets) /\ SP!QueueNext(HostSubnets)
        /\ \A g \in Names : Plain(g)
        /\ \A g \in Names : Owned(g)' \subseteq Owned(g)
    BY <1>10, <2>1, SubnetStutter, PlainFacts
  <2>3. MapOK' /\ AllocatorOK' /\ taken' = taken \ {s}
    BY <1>10, <2>1, SameMap DEF Inv, AllocatorOK, Release
  <2>4. /\ \A g \in Names : Owned(g)' \subseteq taken'
        /\ \A u \in Threads : Making(u)' \subseteq taken'
    BY <1>2, <1>4, <1>5, <1>6, <2>1, <2>2, <2>3
  <2>5. OwnersAreSound'
    BY <1>4, <2>1, <2>2, <2>4, OwnersShrink
  <2>6. AnnotatedIsSeen'
    BY <1>3, <2>1, <2>2, SeenKept
  <2>. QED
    BY <1>2, <2>1, <2>2, <2>3, <2>5, <2>6, InvFrom
<1>11. ASSUME hostSubnet[h] = Nothing, Fault, SubnetQueue!Write(h, Created(t)), Release(s),
             dropped' = dropped \cup {s}, UNCHANGED <<addressOf, changes>>
      PROVE  Inv'
  <2>1. HistoryOK' /\ faults <= faults' /\ dropped \subseteq dropped'
    BY <1>11, BoundsAssumption DEF Fault, Inv, HistoryOK
  <2>2. /\ SP!QueueRuns(HostSubnets) /\ SP!QueueNext(HostSubnets)
        /\ SubnetQueue!GoneForGood(Of, NotOwned)'
        /\ \A g \in Names : \A x \in Owned(g)' :
             x \in Owned(g) \/ (g = h /\ x = s /\ x \notin dropped')
    BY <1>7, <1>11, <2>1
  <2>3. \A g \in Names : Owned(g)' \subseteq Owned(g) /\ s \notin Owned(g)'
    BY <1>6, <1>11, <2>2
  <2>4. MapOK' /\ AllocatorOK' /\ taken' = taken \ {s}
    BY <1>6, <1>11, SameMap DEF Inv, AllocatorOK, Release
  <2>5. \A u \in Threads : Making(u)' \subseteq Making(u) /\ s \notin Making(u)'
    BY <1>2, <1>4, <1>6, <2>1
  <2>6. OwnersAreSound'
    <3>1. /\ \A g, k \in Names : g # k => Owned(g)' \cap Owned(k)' = {}
          /\ \A g \in Names, u \in Threads : Owned(g)' \cap Making(u)' = {}
          /\ \A u, v \in Threads : u # v => Making(u)' \cap Making(v)' = {}
      BY <1>5, <2>3, <2>5
    <3>2. /\ \A g \in Names : Owned(g)' \subseteq taken'
          /\ \A u \in Threads : Making(u)' \subseteq taken'
      BY <1>5, <2>3, <2>4, <2>5
    <3>. QED
      BY <2>2, <3>1, <3>2 DEF OwnersAreSound, Of, NotOwned
  <2>7. AnnotatedIsSeen'
    BY <1>3, <2>1, <2>2, SeenKept
  <2>. QED
    BY <1>2, <2>1, <2>2, <2>4, <2>6, <2>7, InvFrom
<1>. QED
  BY <1>9, <1>10, <1>11, <1>a, <1>b DEF CreateSubnet

LEMMA UpdateSubnetStep ==
    ASSUME Inv, NEW t \in Threads, UpdateSubnet(t)
    PROVE  Inv'
<1>. DEFINE h == job[t].name
<1>1. /\ job[t].pc = "update" /\ Done(t) /\ UNCHANGED <<nodeVars, allocator>>
      /\ h \in Names /\ job[t].ip \in IPs /\ job[t].read \in HostSubnets
  BY JobFacts DEF UpdateSubnet
<1>2. /\ JobsOK' /\ JobsAreSound'
      /\ \A u \in Threads : job'[u] = job[u] \/ job'[u].pc # "create"
      /\ t # "subnets" => job'["subnets"] = job["subnets"]
      /\ NP!QueueNext(NodeObjects)
  BY <1>1, HandlerKeeps, NodeStutter
<1>3. MapOK'
  BY <1>1, RecordFacts, SameMap DEF UpdateSubnet
<1>4. Works \/ Fails
  BY DEF UpdateSubnet
<1>5. SP!QueueRuns(HostSubnets) /\ \A g \in Names : Plain(g)
  <2>. DEFINE new == [hostSubnet[h] EXCEPT !.ip = job[t].ip]
  <2>1. ASSUME hostSubnet[h] = job[t].read, SubnetQueue!Write(h, new)
        PROVE  SP!QueueRuns(HostSubnets) /\ \A g \in Names : Plain(g)
    <3>1. /\ new \in HostSubnets /\ new.subnet = hostSubnet[h].subnet
          /\ hostSubnet[h] # Nothing
      BY <1>1, <2>1, ConstantFacts DEF HostSubnets
    <3>2. SubnetQueue!Write(h, new)
      BY <2>1
    <3>. HIDE DEF new
    <3>3. /\ SP!QueueRuns(HostSubnets)
          /\ \A g \in Names : hostSubnet'[g] = IF g = h THEN new ELSE hostSubnet[g]
          /\ \A g \in Names : g # h => Plain(g)
      BY <1>1, <3>1, <3>2, SubnetWrite
    <3>4. Plain(h)
      BY <1>1, <3>1, <3>3 DEF Plain
    <3>. QED
      BY <3>3, <3>4
  <2>2. (hostSubnet[h] = job[t].read /\ SubnetQueue!Write(h, new)) \/ UNCHANGED subnetVars
    BY DEF UpdateSubnet
  <2>. QED
    BY <2>1, <2>2, SubnetStutter
<1>. QED
  BY <1>1, <1>2, <1>3, <1>4, <1>5, InvFromQueues

LEMMA DeleteNodeStep ==
    ASSUME Inv, NEW t \in Threads, DeleteNode(t)
    PROVE  Inv'
<1>. DEFINE h == job[t].name
<1>1. /\ job[t].pc = "delete" /\ Done(t) /\ UNCHANGED <<nodeVars, allocator, addressOf>>
      /\ h \in Names /\ (Works \/ Fails)
  BY JobFacts DEF DeleteNode
<1>2. /\ JobsOK' /\ JobsAreSound'
      /\ \A u \in Threads : job'[u] = job[u] \/ job'[u].pc # "create"
      /\ t # "subnets" => job'["subnets"] = job["subnets"]
      /\ NP!QueueNext(NodeObjects) /\ MapOK'
  BY <1>1, HandlerKeeps, NodeStutter, SameMap
<1>3. \/ hostSubnet[h] # Nothing /\ SubnetQueue!Write(h, Nothing)
      \/ UNCHANGED subnetVars
  BY DEF DeleteNode
<1>4. SP!QueueRuns(HostSubnets) /\ \A g \in Names : Plain(g)
  <2>1. CASE hostSubnet[h] # Nothing /\ SubnetQueue!Write(h, Nothing)
    BY <1>1, <2>1, SubnetWrite DEF Plain
  <2>2. CASE UNCHANGED subnetVars
    BY <2>2, SubnetStutter
  <2>. QED
    BY <1>3, <2>1, <2>2
<1>. QED
  BY <1>1, <1>2, <1>4, InvFromQueues

LEMMA RemoveAnnotatedStep ==
    ASSUME Inv, NEW t \in Threads, RemoveAnnotated(t)
    PROVE  Inv'
<1>. DEFINE h == job[t].name
<1>1. /\ job[t].pc = "remove" /\ UNCHANGED <<nodeVars, allocator, addressOf>>
      /\ h \in Names /\ (Works \/ Fails)
      /\ ~IsIdle(t)
      /\ job[t] \in [pc : {"remove", "delete", "add"}, name : Names, uid : Nat, ip : IPs]
  BY JobFacts DEF RemoveAnnotated, IsIdle
<1>2. Done(t) \/ Goto(t, [job[t] EXCEPT !.pc = "add"])
  BY DEF RemoveAnnotated
<1>3. /\ JobsOK' /\ JobsAreSound'
      /\ \A u \in Threads : job'[u] = job[u] \/ job'[u].pc # "create"
      /\ t # "subnets" => job'["subnets"] = job["subnets"]
  <2>. DEFINE j == [job[t] EXCEPT !.pc = "add"]
  <2>1. /\ j \in Jobs /\ j.name = job[t].name /\ j.uid = job[t].uid
        /\ j.pc \notin {"remove", "create"}
    BY <1>1 DEF Jobs
  <2>2. Done(t) \/ Goto(t, j)
    BY <1>2
  <2>. HIDE DEF j
  <2>. QED
    BY <1>1, <2>1, <2>2, HandlerKeeps
<1>4. /\ \/ hostSubnet[h] # Nothing /\ SubnetQueue!Write(h, Nothing)
         \/ hostSubnet[h] = Nothing /\ UNCHANGED subnetVars
         \/ Fails /\ UNCHANGED subnetVars
  BY DEF RemoveAnnotated
<1>5. /\ SP!QueueRuns(HostSubnets) /\ \A g \in Names : Plain(g)
      /\ Fails \/ hostSubnet'[h] = Nothing
  <2>1. CASE hostSubnet[h] # Nothing /\ SubnetQueue!Write(h, Nothing)
    BY <1>1, <2>1, SubnetWrite DEF Plain
  <2>2. CASE (hostSubnet[h] = Nothing \/ Fails) /\ UNCHANGED subnetVars
    BY <2>2, SubnetStutter DEF subnetVars
  <2>. QED
    BY <1>4, <2>1, <2>2
<1>6. NP!QueueNext(NodeObjects) /\ MapOK'
  BY <1>1, NodeStutter, SameMap
<1>. QED
  BY <1>1, <1>3, <1>5, <1>6, InvFromQueues

-------------------------------------------------------------------------------
(* Theorems *)

LEMMA InitSound == Init => Inv
<1>. SUFFICES ASSUME Init PROVE Inv
  OBVIOUS
<1>1. node \in [Nodes -> NodeObjects \cup {Nothing}]
  BY NamesAssumption, BoundsAssumption DEF Init, NodeObjects
<1>2. NP!QueueSound(NodeObjects)
  BY <1>1, NP!BeginsSound, NodeQueueIs DEF Init
<1>3. SP!QueueSound(HostSubnets)
  BY SP!BeginsSound, SubnetQueueIs DEF Init
<1>4. AllocatorOK /\ MapOK /\ HistoryOK
  BY BoundsAssumption, SubnetsAre DEF Init, AllocatorOK, MapOK, HistoryOK
<1>5. JobsOK /\ JobsAreSound /\ \A t \in Threads : Making(t) = {}
  BY ConstantFacts DEF Init, JobsOK, Jobs, JobsAreSound, IsIdle, Idle, Making
<1>6. ASSUME NEW h \in Names
      PROVE  Owned(h) = {}
  <2>1. /\ subnetSent[h] = <<>> /\ subnetItems[h] = SP!NoDelta /\ hostSubnet[h] = Nothing
        /\ subnetList[h] = Nothing /\ subnetKnown[h] = Nothing
    BY SubnetQueueIs DEF Init, SP!QueueInit, SP!NoEvents, SP!Empty
  <2>2. 1..Len(subnetSent[h]) = {}
    BY <2>1
  <2>3. SP!Mentioned(h) \subseteq {Nothing}
    BY <2>1, <2>2 DEF SP!Mentioned, SP!Ahead, SP!NoDelta
  <2>. QED
    BY <2>3, OwnedIs
<1>7. SubnetQueue!GoneForGood(Of, NotOwned)
  <2>1. PICK Except : Except = NotOwned
    OBVIOUS
  <2>2. SP!GoneForGood(Of, Except)
    BY SP!BeginsGone, SubnetQueueIs DEF Init
  <2>. QED
    BY <2>1, <2>2, MentionedIs
<1>8. OwnersAreSound
  BY <1>5, <1>6, <1>7 DEF OwnersAreSound, Of, NotOwned
<1>9. AnnotatedIsSeen
  BY DEF Init, AnnotatedIsSeen
<1>. QED
  BY <1>2, <1>3, <1>4, <1>5, <1>8, <1>9 DEF Inv

LEMMA StutterStep ==
    ASSUME Inv, UNCHANGED vars
    PROVE  Inv'
<1>1. UNCHANGED <<nodeVars, subnetVars, allocator, addressOf, job>> /\ Works
  BY DEF vars, Works
<1>. QED
  BY <1>1, NodeStutter, SubnetStutter, SameMap, SameJob, InvFromQueues

LEMMA Invariance == Spec => []Inv
<1>1. Inv /\ [Next]_vars => Inv'
  <2>. SUFFICES ASSUME Inv, [Next]_vars PROVE Inv'
    OBVIOUS
  <2>1. ASSUME NEW n \in Nodes,
               \/ Register(n) \/ Move(n) \/ Leave(n) \/ Heartbeat(n)
               \/ NodeEvent(n)
        PROVE  Inv'
    BY <2>1, NodesStep, NodeEventStep
  <2>2. ASSUME NEW h \in Names,
               (h \in Hosts /\ AskSubnet(h)) \/ DeleteSubnet(h) \/ SubnetEvent(h)
        PROVE  Inv'
    BY <2>2, AdminsStep, SubnetEventStep
  <2>3. CASE \/ NodeReflector \/ NodeResync \/ NodeWatchBreaks
             \/ SubnetReflector \/ SubnetResync \/ SubnetWatchBreaks
    BY <2>3, QueuesStep
  <2>4. CASE Restart \/ NodePanic \/ SubnetPanic
    BY <2>4, RestartsStep
  <2>5. ASSUME NEW t \in Threads, Handle(t)
        PROVE  Inv'
    BY <2>5, AddNodeStep, CreateSubnetStep, UpdateSubnetStep, DeleteNodeStep,
       RemoveAnnotatedStep DEF Handle
  <2>6. CASE UNCHANGED vars
    BY <2>6, StutterStep
  <2>. QED
    BY <2>1, <2>2, <2>3, <2>4, <2>5, <2>6, ConstantFacts DEF Next
<1>. QED
  BY <1>1, InitSound, PTL DEF Spec

\* Every variable has its type in every behaviour: what the two goroutines are at, what
\* their queues hold and what the allocator marks are what watchNodes, watchSubnets and
\* addNode of subnets.go can make of them.
THEOREM TypeCorrect == Spec => []TypeOK
<1>1. Inv => TypeOK
  <2>. SUFFICES ASSUME Inv PROVE TypeOK
    OBVIOUS
  <2>1. NodeQueue!QueueTypeOK(NodeObjects)
    BY DEF Inv, NP!QueueSound, NP!QueueTyped, NP!QueueTypeOK, NP!WatchTypes, NP!DeltaTypes, NP!NoDelta,
           NodeQueue!QueueTypeOK, NodeQueue!WatchTypes, NodeQueue!DeltaTypes,
           NodeQueue!NoDelta
  <2>2. SubnetQueue!QueueTypeOK(HostSubnets)
    BY DEF Inv, SP!QueueSound, SP!QueueTyped, SP!QueueTypeOK, SP!WatchTypes, SP!DeltaTypes, SP!NoDelta,
           SubnetQueue!QueueTypeOK, SubnetQueue!WatchTypes, SubnetQueue!DeltaTypes,
           SubnetQueue!NoDelta
  <2>. QED
    BY <2>1, <2>2, StoredFacts DEF Inv, AllocatorOK, MapOK, HistoryOK, JobsOK, Jobs, TypeOK
<1>. QED
  BY <1>1, Invariance, PTL

\* What a host owns and what a goroutine is about to store is taken and has one owner, and
\* what an event says is gone does not come back (addNode, deleteNode, watchSubnets and
\* the allocator of subnets.go).
THEOREM SubnetsSound == Spec => []SubnetsAreSound
<1>1. Inv => SubnetsAreSound
  BY DEF Inv, SubnetsAreSound
<1>. QED
  BY <1>1, Invariance, PTL

\* A subnet that is stored, and whose answer was not lost, is one that its host owns.
LEMMA StoredIsOwned ==
    ASSUME Inv, NEW h \in Names, hostSubnet[h] # Nothing,
           hostSubnet[h].subnet \notin dropped \cup {NoSubnet}
    PROVE  hostSubnet[h].subnet \in Owned(h)
BY StoredFacts, OwnedIs DEF NotOwned

\* No subnet is given to two hosts, whatever the two goroutines interleave, whatever is
\* replayed after a restart and compressed in the queues, unless the answer to its
\* creation was lost (addNode of subnets.go releases it although it is stored).
THEOREM SubnetsNotShared == Spec => []NeverShared
<1>1. Inv => NeverShared
  BY StoredIsOwned DEF Inv, OwnersAreSound, NeverShared
<1>. QED
  BY <1>1, Invariance, PTL

\* GetNetwork, which looks from next on, finds a free subnet if there is one.
LEMMA SearchIsComplete ==
    ASSUME AllocatorOK
    PROVE  FullWhenAllTaken
<1>. SUFFICES ASSUME Candidates = {}, NEW s \in Subnets, s \notin taken PROVE FALSE
  BY DEF AllocatorOK, FullWhenAllTaken
<1>1. NumSubnets \in Nat \ {0} /\ next \in 0..NumSubnets
  BY SubnetsAre DEF AllocatorOK
<1>2. PICK n \in 0..(NumSubnets - 1) : s = SubnetAt(HostBits, SubnetBits, n)
  BY DEF Subnets
<1>. DEFINE i == IF next <= n THEN n - next ELSE n - next + NumSubnets
<1>3. i \in 0..(NumSubnets - 1)
  BY <1>1
<1>4. (i + next) % NumSubnets = n
  <2>. DEFINE m == i + next
              q == IF next <= n THEN 0 ELSE 1
  <2>1. m = NumSubnets * q + n
    BY <1>1
  <2>2. m \in Nat /\ q \in Nat
    BY <1>1, <1>3
  <2>. HIDE DEF m, q
  <2>3. m % NumSubnets = n
    BY <1>1, <2>1, <2>2, DivIs
  <2>. QED
    BY <2>3 DEF m
<1>5. i \in Candidates
  <2>. HIDE DEF i
  <2>. QED
    BY <1>2, <1>3, <1>4 DEF Candidates
<1>. QED
  BY <1>5

\* RotationIsSound for the sizes that TLC evaluates.
LEMMA RotationCoversThem == RotationCovers
<1>. SUFFICES ASSUME NEW hb \in 1..9, NEW sb \in 0..9
              PROVE  LET numbers == 0..(Pow2[sb] - 1)
                     IN  {SubnetAt(hb, sb, n) : n \in numbers} = {n * Pow2[hb] : n \in numbers}
  BY DEF RotationCovers
<1>1. hb \in Nat \ {0} /\ sb \in Nat
  OBVIOUS
<1>. QED
  BY <1>1, RotationIsSound

\* The allocator marks every subnet that is stored and was not dropped: watchSubnets
\* releases none twice, and none by an event about an earlier holder.  GetNetwork says that
\* none is left only when all are taken.
THEOREM AllocatorSound == Spec => []AllocatorIsSound
<1>1. Inv => AllocatorIsSound
  <2>1. Inv => StoredIsTaken
    BY StoredIsOwned DEF Inv, OwnersAreSound, StoredIsTaken, Stored
  <2>2. Inv => FullWhenAllTaken
    BY SearchIsComplete DEF Inv
  <2>. QED
    BY <2>1, <2>2, RotationCoversThem DEF AllocatorIsSound
<1>. QED
  BY <1>1, Invariance, PTL

\* Nothing that happened to an object stays unnoticed by its handler, broken watches, lists
\* and compressed deltas included, but for keys whose list the queue misread
\* (eventqueue.go); and an annotated HostSubnet is taken up (watchSubnets of subnets.go).
THEOREM EventsAreTaken == Spec => []EventsArrive
<1>1. Inv => EventsArrive
  <2>. SUFFICES ASSUME Inv PROVE EventsArrive
    OBVIOUS
  <2>1. CaughtUp
    <3>1. /\ \A n \in Nodes \ nodeSkewed : NP!Learned(n)
          /\ \A h \in Names \ subnetSkewed : SP!Learned(h)
      BY NP!QueueTells, SP!QueueTells DEF Inv
    <3>. QED
      BY <3>1 DEF CaughtUp, NP!Learned, NP!Quiet, NP!NoDelta, SP!Learned, SP!Quiet,
             SP!NoDelta, NodeQueue!Learned, NodeQueue!Quiet, NodeQueue!NoDelta,
             SubnetQueue!Learned, SubnetQueue!Quiet, SubnetQueue!NoDelta
  <2>2. AnnotatedIsTaken
    BY ConstantFacts, JobFacts DEF Inv, AnnotatedIsSeen, AnnotatedIsTaken, IsIdle
  <2>. QED
    BY <2>1, <2>2 DEF EventsArrive
<1>. QED
  BY <1>1, Invariance, PTL
===============================================================================
