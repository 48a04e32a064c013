------------------------ MODULE RouteAdmission_proofs ------------------------
(***************************************************************************)
(* Proofs about RouteAdmission, for every finite set of routes, every host *)
(* and path, and every bound on what happens around the router.            *)
(***************************************************************************)
EXTENDS RouteAdmission, FiniteSetTheorems, SequenceTheorems, TLAPS

-------------------------------------------------------------------------------
(* Sequences *)

\* The indices that are kept are counted through, each once.
LEMMA RankIsBijection ==
    ASSUME NEW I \in SUBSET Nat, IsFiniteSet(I)
    PROVE  LET rank(i) == Cardinality({j \in I : j <= i}) IN
           /\ Cardinality(I) \in Nat
           /\ \A i \in I : rank(i) \in 1..Cardinality(I)
           /\ \A i, k \in I : rank(i) = rank(k) => i = k
           /\ \A n \in 1..Cardinality(I) : \E i \in I : rank(i) = n
<1>. DEFINE below(i) == {j \in I : j <= i}
            rank(i) == Cardinality(below(i))
            size == Cardinality(I)
            f == [i \in I |-> rank(i)]
<1>1. size \in Nat
  BY FS_CardinalityType
<1>2. ASSUME NEW i \in I
      PROVE  IsFiniteSet(below(i)) /\ rank(i) \in 1..size
  <2>1. below(i) \in SUBSET I
    OBVIOUS
  <2>2. IsFiniteSet(below(i)) /\ rank(i) <= size
    BY <2>1, FS_Subset
  <2>3. rank(i) \in Nat /\ (rank(i) = 0 <=> below(i) = {})
    <3>. HIDE DEF below
    <3>. QED
      BY <2>2, FS_CardinalityType, FS_EmptySet
  <2>4. i \in below(i)
    OBVIOUS
  <2>. QED
    BY <1>1, <2>2, <2>3, <2>4
<1>3. ASSUME NEW i \in I, NEW k \in I, i < k
      PROVE  rank(i) # rank(k)
  <2>1. i \in Nat /\ k \in Nat
    OBVIOUS
  <2>2. \A j \in I : j \in Nat
    OBVIOUS
  <2>3. \A j \in I : j <= i => j <= k
    BY <1>3, <2>1, <2>2
  <2>4. below(i) \in SUBSET below(k)
    BY <2>3
  <2>5. k \in below(k)
    BY <2>1
  <2>6. k \notin below(i)
    BY <1>3, <2>1
  <2>. HIDE DEF below
  <2>. QED
    BY <1>2, <2>4, <2>5, <2>6, FS_Subset
<1>4. \A i, k \in I : rank(i) = rank(k) => i = k
  <2>. HIDE DEF rank
  <2>. QED
    BY <1>3
<1>5. f \in Injection(I, 1..size)
  <2>1. f \in [I -> 1..size]
    BY <1>2
  <2>. QED
    BY <1>4, <2>1 DEF Injection, IsInjective
<1>6. IsFiniteSet(1..size) /\ Cardinality(1..size) = size
  BY <1>1, FS_Interval
<1>7. f \in Surjection(I, 1..size)
  <2>. HIDE DEF f
  <2>. QED
    BY <1>5, <1>6, FS_Injection
<1>8. \A n \in 1..size : \E i \in I : rank(i) = n
  <2>. HIDE DEF rank
  <2>. QED
    BY <1>7 DEF Surjection
<1>. QED
  BY <1>1, <1>2, <1>4, <1>8

\* What is kept of a sequence are its elements at the indices, each in a place of its own.
LEMMA KeptElements ==
    ASSUME NEW S, NEW s \in Seq(S), NEW I \in SUBSET DOMAIN s
    PROVE  /\ Kept(s, I) \in Seq(S)
           /\ \A n \in DOMAIN Kept(s, I) : \E i \in I : Kept(s, I)[n] = s[i]
           /\ \A i \in I : \E n \in DOMAIN Kept(s, I) : Kept(s, I)[n] = s[i]
           /\ \A m, n \in DOMAIN Kept(s, I) :
                m # n => \E i, k \in I : i # k /\ Kept(s, I)[m] = s[i] /\ Kept(s, I)[n] = s[k]
<1>. DEFINE rank(i) == Cardinality({j \in I : j <= i})
            size == Cardinality(I)
            at(n) == CHOOSE i \in I : rank(i) = n
<1>1. I \in SUBSET Nat /\ IsFiniteSet(I)
  <2>1. DOMAIN s = 1..Len(s) /\ Len(s) \in Nat
    OBVIOUS
  <2>2. IsFiniteSet(1..Len(s))
    BY <2>1, FS_Interval
  <2>. QED
    BY <2>1, <2>2, FS_Subset
<1>2. /\ size \in Nat
      /\ \A i \in I : rank(i) \in 1..size
      /\ \A i, k \in I : rank(i) = rank(k) => i = k
      /\ \A n \in 1..size : \E i \in I : rank(i) = n
  BY <1>1, RankIsBijection
<1>. HIDE DEF rank, size
<1>3. \A n \in 1..size : at(n) \in I /\ rank(at(n)) = n
  BY <1>2
<1>4. \A i \in I : at(rank(i)) = i
  BY <1>2
<1>5. Kept(s, I) = [n \in 1..size |-> s[at(n)]]
  BY DEF Kept, rank, size
<1>. HIDE DEF at
<1>6. \A i \in I : s[i] \in S
  OBVIOUS
<1>7. DOMAIN Kept(s, I) = 1..size /\ \A n \in 1..size : Kept(s, I)[n] = s[at(n)]
  BY <1>5
<1>8. Kept(s, I) \in Seq(S)
  BY <1>2, <1>3, <1>5, <1>6
<1>9. \A m, n \in 1..size : m # n => at(m) # at(n)
  BY <1>3
<1>. QED
  BY <1>2, <1>3, <1>4, <1>7, <1>8, <1>9

LEMMA OfOthersElements ==
    ASSUME NEW claims \in Seq(Objects), IsClaim(claims), NEW r
    PROVE  /\ OfOthers(claims, r) \in Seq(Objects)
           /\ IsClaim(OfOthers(claims, r))
           /\ ToSet(OfOthers(claims, r)) = {c \in ToSet(claims) : c.name # r}
<1>. DEFINE I == {i \in DOMAIN claims : claims[i].name # r}
            kept == OfOthers(claims, r)
<1>1. I \in SUBSET DOMAIN claims /\ kept = Kept(claims, I)
  BY DEF OfOthers
<1>2. \A i \in DOMAIN claims : i \in I <=> claims[i].name # r
  OBVIOUS
<1>3. /\ Kept(claims, I) \in Seq(Objects)
      /\ \A n \in DOMAIN Kept(claims, I) : \E i \in I : Kept(claims, I)[n] = claims[i]
      /\ \A i \in I : \E n \in DOMAIN Kept(claims, I) : Kept(claims, I)[n] = claims[i]
      /\ \A m, n \in DOMAIN Kept(claims, I) :
           m # n => \E i, k \in I :
             i # k /\ Kept(claims, I)[m] = claims[i] /\ Kept(claims, I)[n] = claims[k]
  <2>. HIDE DEF I
  <2>. QED
    BY <1>1, KeptElements, Zenon
<1>4. IsClaim(kept)
  <2>1. ASSUME NEW m \in DOMAIN kept, NEW n \in DOMAIN kept
        PROVE  /\ NamespaceOf(kept[m].name) = NamespaceOf(kept[n].name)
               /\ m # n => kept[m].path # kept[n].path
    <3>1. \E i, k \in DOMAIN claims :
            /\ kept[m] = claims[i] /\ kept[n] = claims[k]
            /\ m # n => i # k
      <4>. HIDE DEF I
      <4>. QED
        BY <1>1, <1>3
    <3>. QED
      BY <3>1 DEF IsClaim
  <2>. QED
    BY <2>1 DEF IsClaim
<1>5. ToSet(kept) = {c \in ToSet(claims) : c.name # r}
  <2>. HIDE DEF I
  <2>. QED
    BY <1>1, <1>2, <1>3 DEF ToSet
<1>. QED
  BY <1>1, <1>3, <1>4, <1>5

-------------------------------------------------------------------------------
(* Claims *)

ClaimsOK ==
    /\ hostToRoute \in [Hosts -> Seq(Objects)]
    /\ \A h \in Hosts : IsClaim(hostToRoute[h])

LEMMA ToSetOfSeq ==
    ASSUME NEW S, NEW s \in Seq(S)
    PROVE  /\ ToSet(s) \in SUBSET S
           /\ \A x : x \in ToSet(s) <=> \E i \in DOMAIN s : s[i] = x
           /\ s # <<>> => 1 \in DOMAIN s /\ s[1] \in ToSet(s)
BY DEF ToSet

\* When a route has got its claim, the claims of the host are of one namespace and of
\* different paths, its own is among them, and of the others only the one that it had
\* before and those of the routes it displaces are gone.
LEMMA ClaimedElements ==
    ASSUME ClaimsOK, NEW o \in Objects
    PROVE  /\ Claimed(o) \in Seq(Objects)
           /\ IsClaim(Claimed(o))
           /\ o \in ToSet(Claimed(o))
           /\ ToSet(Claimed(o)) \subseteq ToSet(hostToRoute[o.host]) \cup {o}
           /\ \A c \in ToSet(hostToRoute[o.host]) :
                c \in ToSet(Claimed(o)) \/ c.name = o.name \/ c.name \in Displaced(o)
<1>. DEFINE old == hostToRoute[o.host]
            rest == OfOthers(old, o.name)
<1>1. o.host \in Hosts /\ old \in Seq(Objects) /\ IsClaim(old)
  BY DEF ClaimsOK, Objects
<1>2. /\ rest \in Seq(Objects)
      /\ IsClaim(rest)
      /\ ToSet(rest) = {c \in ToSet(old) : c.name # o.name}
  <2>. HIDE DEF old
  <2>. QED
    BY <1>1, OfOthersElements
<1>3. \A i \in Rival(o) : i \in DOMAIN old /\ SameNamespace(old[1], o) /\ old[i].path = o.path
  BY DEF Rival
<1>4. \A i \in DOMAIN old :
        SameNamespace(old[1], o) /\ old[i].path = o.path => i \in Rival(o)
  BY DEF Rival
<1>5. \A i \in DOMAIN old : NamespaceOf(old[i].name) = NamespaceOf(old[1].name)
  BY <1>1 DEF IsClaim
<1>6. CASE old = <<>> \/ ~SameNamespace(old[1], o)
  <2>1. Claimed(o) = <<o>>
    BY <1>6 DEF Claimed
  <2>2. <<o>> \in Seq(Objects) /\ ToSet(<<o>>) = {o} /\ IsClaim(<<o>>)
    BY DEF ToSet, IsClaim
  <2>3. \A c \in ToSet(old) : c.name \in Displaced(o)
    BY <1>1, <1>6 DEF Displaced, ToSet
  <2>. QED
    BY <2>1, <2>2, <2>3
<1>7. CASE old # <<>> /\ SameNamespace(old[1], o) /\ Rival(o) # {}
  <2>. DEFINE new == [i \in DOMAIN old |-> IF i \in Rival(o) THEN o ELSE old[i]]
  <2>1. Claimed(o) = new
    BY <1>7 DEF Claimed
  <2>2. new \in Seq(Objects) /\ DOMAIN new = DOMAIN old
    BY <1>1
  <2>3. PICK k \in Rival(o) : TRUE
    BY <1>7
  <2>4. \A i \in Rival(o) : i = k
    BY <1>1, <1>3, <2>3 DEF IsClaim
  <2>5. \A i \in DOMAIN old : new[i] = IF i \in Rival(o) THEN o ELSE old[i]
    OBVIOUS
  <2>6. IsClaim(new)
    <3>1. ASSUME NEW i \in DOMAIN new, NEW j \in DOMAIN new
          PROVE  /\ NamespaceOf(new[i].name) = NamespaceOf(new[j].name)
                 /\ i # j => new[i].path # new[j].path
      <4>1. NamespaceOf(new[i].name) = NamespaceOf(old[1].name)
        BY <1>5, <1>7, <2>2, <2>5 DEF SameNamespace
      <4>2. NamespaceOf(new[j].name) = NamespaceOf(old[1].name)
        BY <1>5, <1>7, <2>2, <2>5 DEF SameNamespace
      <4>3. new[i].path = old[i].path /\ new[j].path = old[j].path
        BY <1>3, <2>2, <2>5
      <4>4. i # j => old[i].path # old[j].path
        BY <1>1, <2>2 DEF IsClaim
      <4>. QED
        BY <4>1, <4>2, <4>3, <4>4
    <3>. HIDE DEF new
    <3>. QED
      BY <3>1 DEF IsClaim
  <2>7. o \in ToSet(new) /\ ToSet(new) \subseteq ToSet(old) \cup {o}
    <3>. HIDE DEF old, new
    <3>. QED
      BY <1>3, <2>2, <2>3, <2>5 DEF ToSet
  <2>8. ASSUME NEW c \in ToSet(old)
        PROVE  c \in ToSet(new) \/ c.name = o.name \/ c.name \in Displaced(o)
    <3>1. PICK i \in DOMAIN old : old[i] = c
      BY <1>1, ToSetOfSeq
    <3>2. CASE i \in Rival(o)
      BY <1>7, <3>1, <3>2 DEF Displaced
    <3>3. CASE i \notin Rival(o)
      <4>1. new[i] = c
        BY <2>5, <3>1, <3>3
      <4>. HIDE DEF new
      <4>. QED
        BY <2>2, <4>1, ToSetOfSeq
    <3>. QED
      BY <3>2, <3>3
  <2>. QED
    BY <2>1, <2>2, <2>6, <2>7, <2>8
<1>8. CASE old # <<>> /\ SameNamespace(old[1], o) /\ Rival(o) = {}
  <2>1. Claimed(o) = IF rest # <<>> /\ Older(o, rest[1]) THEN <<o>> \o rest
                     ELSE Append(rest, o)
    BY <1>8 DEF Claimed
  <2>. HIDE DEF rest
  <2>2. \A c \in ToSet(rest) :
          NamespaceOf(c.name) = NamespaceOf(o.name) /\ c.path # o.path
    <3>1. \A c \in ToSet(old) :
            NamespaceOf(c.name) = NamespaceOf(o.name) /\ c.path # o.path
      <4>1. ASSUME NEW c \in ToSet(old)
            PROVE  NamespaceOf(c.name) = NamespaceOf(o.name) /\ c.path # o.path
        <5>1. PICK i \in DOMAIN old : old[i] = c
          BY <1>1, ToSetOfSeq
        <5>. QED
          BY <1>4, <1>5, <1>8, <5>1 DEF SameNamespace
      <4>. QED
        BY <4>1
    <3>. QED
      BY <1>2, <3>1
  <2>3. \A i \in DOMAIN rest :
          NamespaceOf(rest[i].name) = NamespaceOf(o.name) /\ rest[i].path # o.path
    BY <1>2, <2>2, ToSetOfSeq
  <2>4. \A i, j \in DOMAIN rest : i # j => rest[i].path # rest[j].path
    BY <1>2 DEF IsClaim
  <2>5. /\ Claimed(o) \in Seq(Objects) /\ IsClaim(Claimed(o))
        /\ ToSet(Claimed(o)) = ToSet(rest) \cup {o}
    <3>1. CASE Claimed(o) = <<o>> \o rest
      <4>. DEFINE new == <<o>> \o rest
      <4>1. new \in Seq(Objects) /\ Len(new) = Len(rest) + 1 /\ DOMAIN new = 1..Len(new)
        BY <1>2
      <4>2. new[1] = o /\ \A i \in DOMAIN new : i # 1 => i - 1 \in DOMAIN rest /\ new[i] = rest[i - 1]
        BY <1>2
      <4>3. \A i \in DOMAIN rest : i + 1 \in DOMAIN new /\ new[i + 1] = rest[i]
        BY <1>2
      <4>. HIDE DEF new
      <4>4. ToSet(new) = ToSet(rest) \cup {o}
        <5>1. 1 \in DOMAIN new
          BY <1>2, <4>1
        <5>2. \A x \in ToSet(rest) : x \in ToSet(new)
          BY <4>3 DEF ToSet
        <5>3. \A x \in ToSet(new) : x = o \/ x \in ToSet(rest)
          BY <4>2 DEF ToSet
        <5>. QED
          BY <4>2, <5>1, <5>2, <5>3 DEF ToSet
      <4>5. IsClaim(new)
        <5>1. \A i \in DOMAIN new : i \in Nat
          BY <4>1
        <5>2. ASSUME NEW i \in DOMAIN new, NEW j \in DOMAIN new
              PROVE  /\ NamespaceOf(new[i].name) = NamespaceOf(new[j].name)
                     /\ i # j => new[i].path # new[j].path
          <6>1. i # j => i - 1 # j - 1
            BY <5>1
          <6>2. NamespaceOf(new[i].name) = NamespaceOf(o.name)
            BY <4>2, <2>3
          <6>3. NamespaceOf(new[j].name) = NamespaceOf(o.name)
            BY <4>2, <2>3
          <6>4. i # j => new[i].path # new[j].path
            BY <4>2, <2>3, <2>4, <6>1
          <6>. QED
            BY <6>2, <6>3, <6>4
        <5>. QED
          BY <5>2 DEF IsClaim
      <4>. QED
        BY <3>1, <4>1, <4>4, <4>5 DEF new
    <3>2. CASE Claimed(o) = Append(rest, o)
      <4>. DEFINE new == Append(rest, o)
      <4>1. /\ new \in Seq(Objects) /\ Len(new) = Len(rest) + 1 /\ DOMAIN new = 1..Len(new)
            /\ Len(new) \in Nat
        BY <1>2
      <4>2. /\ new[Len(new)] = o
            /\ \A i \in DOMAIN new : i # Len(new) => i \in DOMAIN rest /\ new[i] = rest[i]
        BY <1>2
      <4>3. \A i \in DOMAIN rest : i \in DOMAIN new /\ new[i] = rest[i]
        BY <1>2
      <4>. HIDE DEF new
      <4>4. ToSet(new) = ToSet(rest) \cup {o}
        <5>1. Len(new) \in DOMAIN new
          BY <1>2, <4>1
        <5>2. \A x \in ToSet(rest) : x \in ToSet(new)
          BY <4>3 DEF ToSet
        <5>3. \A x \in ToSet(new) : x = o \/ x \in ToSet(rest)
          BY <4>2 DEF ToSet
        <5>. QED
          BY <4>2, <5>1, <5>2, <5>3 DEF ToSet
      <4>5. IsClaim(new)
        <5>2. ASSUME NEW i \in DOMAIN new, NEW j \in DOMAIN new
              PROVE  /\ NamespaceOf(new[i].name) = NamespaceOf(new[j].name)
                     /\ i # j => new[i].path # new[j].path
          <6>2. NamespaceOf(new[i].name) = NamespaceOf(o.name)
            BY <4>2, <2>3
          <6>3. NamespaceOf(new[j].name) = NamespaceOf(o.name)
            BY <4>2, <2>3
          <6>4. i # j => new[i].path # new[j].path
            BY <4>2, <2>3, <2>4
          <6>. QED
            BY <6>2, <6>3, <6>4
        <5>. QED
          BY <5>2 DEF IsClaim
      <4>. QED
        BY <3>2, <4>1, <4>4, <4>5 DEF new
    <3>. QED
      BY <2>1, <3>1, <3>2
  <2>. QED
    BY <1>2, <2>5
<1>. QED
  BY <1>6, <1>7, <1>8

LEMMA UnclaimedElements ==
    ASSUME ClaimsOK, NEW o \in Objects
    PROVE  /\ Unclaimed(o) \in Seq(Objects)
           /\ IsClaim(Unclaimed(o))
           /\ ToSet(Unclaimed(o)) = {c \in ToSet(Claimed(o)) : c.name # o.name}
<1>. DEFINE new == Claimed(o)
<1>1. new \in Seq(Objects) /\ IsClaim(new) /\ o \in ToSet(new)
  BY ClaimedElements
<1>. HIDE DEF new
<1>2. CASE Len(new) = 1
  <2>1. Unclaimed(o) = <<>>
    BY <1>2 DEF Unclaimed, new
  <2>2. ToSet(new) = {o}
    <3>1. DOMAIN new = {1}
      BY <1>1, <1>2
    <3>. QED
      BY <1>1, <3>1 DEF ToSet
  <2>3. ToSet(<<>>) = {} /\ IsClaim(<<>>) /\ <<>> \in Seq(Objects)
    BY DEF ToSet, IsClaim
  <2>. QED
    BY <2>1, <2>2, <2>3 DEF new
<1>3. CASE Len(new) # 1
  <2>1. Unclaimed(o) = OfOthers(new, o.name)
    BY <1>3 DEF Unclaimed, new
  <2>. QED
    BY <1>1, <2>1, OfOthersElements DEF new
<1>. QED
  BY <1>2, <1>3

-------------------------------------------------------------------------------
(* What the watch says *)

\* Who reads no event finds the routes as they were, as long as nobody writes.
LEMMA LivesUnchanged ==
    ASSUME UNCHANGED <<route, sent>>
    PROVE  \A r, n : Lives(r, n)' <=> Lives(r, n)
BY DEF Lives

\* With no event under way, what is there is what is stored.
LEMMA LivesStored ==
    ASSUME sent = <<>>
    PROVE  \A r : Lives(r, 1) <=> route[r] # Nothing
BY DEF Lives

\* The first event of a route tells whether it was there before, and the others say
\* nothing of it.
LEMMA LivesHead ==
    ASSUME TypeOK, sent # <<>>, NEW r
    PROVE  Lives(r, 1) <=> IF sent[1].obj.name = r THEN sent[1].type # "Added"
                           ELSE Lives(r, 2)
<1>1. Len(sent) \in Nat \ {0}
  BY DEF TypeOK
<1>2. CASE sent[1].obj.name = r
  BY <1>1, <1>2 DEF Lives
<1>3. CASE sent[1].obj.name # r
  <2>1. ASSUME NEW i \in 1..Len(sent), sent[i].obj.name = r
        PROVE  i \in 2..Len(sent)
    BY <1>1, <1>3, <2>1
  <2>2. \A i \in 2..Len(sent) : i \in 1..Len(sent)
    BY <1>1
  <2>3. \A i \in 2..Len(sent) :
          (\A j \in 1..(i - 1) : sent[j].obj.name # r)
            <=> \A j \in 2..(i - 1) : sent[j].obj.name # r
    BY <1>1, <1>3
  <2>4. (\A i \in 1..Len(sent) : sent[i].obj.name # r)
          <=> \A i \in 2..Len(sent) : sent[i].obj.name # r
    BY <1>1, <1>3
  <2>. QED
    BY <1>3, <2>1, <2>2, <2>3, <2>4 DEF Lives
<1>. QED
  BY <1>2, <1>3

\* Who has read an event is where it was to come.
LEMMA LivesTail ==
    ASSUME TypeOK, sent # <<>>, sent' = Tail(sent), UNCHANGED route,
           NEW r, NEW n \in Nat \ {0}
    PROVE  Lives(r, n)' <=> Lives(r, n + 1)
<1>1. Len(sent) \in Nat \ {0} /\ Len(sent') = Len(sent) - 1
  BY DEF TypeOK
<1>2. \A i \in n..Len(sent') : i + 1 \in (n + 1)..Len(sent) /\ sent'[i] = sent[i + 1]
  BY <1>1 DEF TypeOK
<1>3. \A i \in (n + 1)..Len(sent) : i - 1 \in n..Len(sent') /\ sent'[i - 1] = sent[i]
  BY <1>1 DEF TypeOK
<1>4. (\A i \in n..Len(sent') : sent'[i].obj.name # r)
        <=> \A i \in (n + 1)..Len(sent) : sent[i].obj.name # r
  <2>. DEFINE P(x) == x.obj.name # r
  <2>. HIDE DEF P
  <2>1. (\A i \in n..Len(sent') : P(sent'[i])) <=> \A i \in (n + 1)..Len(sent) : P(sent[i])
    BY <1>2, <1>3
  <2>. QED
    BY <2>1 DEF P
<1>5. ASSUME NEW i \in n..Len(sent')
      PROVE  (\A j \in n..(i - 1) : sent'[j].obj.name # r)
               <=> \A j \in (n + 1)..i : sent[j].obj.name # r
  <2>1. \A j \in n..(i - 1) : j \in n..Len(sent') /\ j + 1 \in (n + 1)..i
    BY <1>1
  <2>2. \A j \in (n + 1)..i : j \in (n + 1)..Len(sent) /\ j - 1 \in n..(i - 1)
    BY <1>1
  <2>. QED
    BY <1>2, <1>3, <2>1, <2>2
<1>6. ASSUME NEW i \in n..Len(sent')
      PROVE  i + 1 - 1 = i
  BY <1>1
<1>7. ASSUME Lives(r, n)' PROVE Lives(r, n + 1)
  <2>1. CASE route'[r] # Nothing /\ \A i \in n..Len(sent') : sent'[i].obj.name # r
    BY <1>4, <2>1 DEF Lives
  <2>2. CASE \E i \in n..Len(sent') : /\ sent'[i].obj.name = r /\ sent'[i].type # "Added"
                                      /\ \A j \in n..(i - 1) : sent'[j].obj.name # r
    <3>1. PICK i \in n..Len(sent') :
                 /\ sent'[i].obj.name = r /\ sent'[i].type # "Added"
                 /\ \A j \in n..(i - 1) : sent'[j].obj.name # r
      BY <2>2
    <3>2. /\ i + 1 \in (n + 1)..Len(sent)
          /\ sent[i + 1].obj.name = r /\ sent[i + 1].type # "Added"
      BY <1>2, <3>1
    <3>3. \A j \in (n + 1)..((i + 1) - 1) : sent[j].obj.name # r
      BY <1>5, <1>6, <3>1
    <3>. QED
      BY <3>2, <3>3 DEF Lives
  <2>. QED
    BY <1>7, <2>1, <2>2 DEF Lives
<1>8. ASSUME Lives(r, n + 1) PROVE Lives(r, n)'
  <2>1. CASE route[r] # Nothing /\ \A i \in (n + 1)..Len(sent) : sent[i].obj.name # r
    BY <1>4, <2>1 DEF Lives
  <2>2. CASE \E i \in (n + 1)..Len(sent) :
               /\ sent[i].obj.name = r /\ sent[i].type # "Added"
               /\ \A j \in (n + 1)..(i - 1) : sent[j].obj.name # r
    <3>1. PICK k \in (n + 1)..Len(sent) :
                 /\ sent[k].obj.name = r /\ sent[k].type # "Added"
                 /\ \A j \in (n + 1)..(k - 1) : sent[j].obj.name # r
      BY <2>2
    <3>2. /\ k - 1 \in n..Len(sent')
          /\ sent'[k - 1].obj.name = r /\ sent'[k - 1].type # "Added"
      BY <1>3, <3>1
    <3>3. \A j \in n..((k - 1) - 1) : sent'[j].obj.name # r
      BY <1>5, <3>1, <3>2
    <3>. QED
      BY <3>2, <3>3 DEF Lives
  <2>. QED
    BY <1>8, <2>1, <2>2 DEF Lives
<1>. QED
  BY <1>7, <1>8

\* A write that is true to what is stored changes nothing for who has still to read it.
LEMMA LivesAppend ==
    ASSUME TypeOK, NEW e \in WatchEvents,
           e.type # "Added" <=> route[e.obj.name] # Nothing,
           sent' = Append(sent, e),
           route' = [route EXCEPT ![e.obj.name] =
                       IF e.type = "Deleted" THEN Nothing ELSE e.obj]
    PROVE  /\ \A r \in Routes, n \in 1..(Len(sent) + 1) : Lives(r, n)' <=> Lives(r, n)
           /\ \A n : n = Len(sent) + 2 => (Lives(e.obj.name, n)' <=> e.type # "Deleted")
<1>1. /\ Len(sent) \in Nat /\ Len(sent') = Len(sent) + 1
      /\ sent'[Len(sent) + 1] = e
      /\ \A i \in 1..Len(sent) : sent'[i] = sent[i]
  BY DEF TypeOK
<1>2. e.obj \in Objects /\ e.obj.name \in Routes /\ e.obj # Nothing
  BY StoredAssumption DEF WatchEvents, Objects
<1>3. route'[e.obj.name] # Nothing <=> e.type # "Deleted"
  BY <1>2 DEF TypeOK
<1>4. ASSUME NEW n, n = Len(sent) + 2
      PROVE  Lives(e.obj.name, n)' <=> e.type # "Deleted"
  <2>1. n..Len(sent') = {}
    BY <1>1, <1>4
  <2>. QED
    BY <1>3, <2>1 DEF Lives
<1>5. ASSUME NEW r \in Routes, NEW n \in 1..(Len(sent) + 1)
      PROVE  Lives(r, n)' <=> Lives(r, n)
  <2>1. /\ n..Len(sent') = (n..Len(sent)) \cup {Len(sent) + 1}
        /\ \A i \in n..Len(sent) : i \in 1..Len(sent) /\ n..(i - 1) \subseteq 1..Len(sent)
        /\ n..((Len(sent) + 1) - 1) = n..Len(sent)
        /\ n..Len(sent) \subseteq 1..Len(sent)
    BY <1>1
  <2>2. \A i \in n..Len(sent) : sent'[i] = sent[i] /\ \A j \in n..(i - 1) : sent'[j] = sent[j]
    BY <1>1, <2>1
  <2>3. CASE e.obj.name # r
    <3>1. route'[r] = route[r]
      BY <2>3 DEF TypeOK
    <3>2. (\A i \in n..Len(sent') : sent'[i].obj.name # r)
            <=> \A i \in n..Len(sent) : sent[i].obj.name # r
      BY <1>1, <2>1, <2>2, <2>3
    <3>3. (\E i \in n..Len(sent') : /\ sent'[i].obj.name = r /\ sent'[i].type # "Added"
                                    /\ \A j \in n..(i - 1) : sent'[j].obj.name # r)
            <=> \E i \in n..Len(sent) : /\ sent[i].obj.name = r /\ sent[i].type # "Added"
                                        /\ \A j \in n..(i - 1) : sent[j].obj.name # r
      BY <1>1, <2>1, <2>2, <2>3
    <3>. QED
      BY <3>1, <3>2, <3>3 DEF Lives
  <2>4. CASE e.obj.name = r /\ \A i \in n..Len(sent) : sent[i].obj.name # r
    <3>1. Lives(r, n) <=> route[r] # Nothing
      BY <2>4 DEF Lives
    <3>2. \A j \in n..((Len(sent) + 1) - 1) : sent'[j].obj.name # r
      BY <2>1, <2>2, <2>4
    <3>3. Len(sent) + 1 \in n..Len(sent') /\ sent'[Len(sent) + 1].obj.name = r
      BY <1>1, <2>1, <2>4
    <3>4. \A i \in n..Len(sent') : sent'[i].obj.name = r => i = Len(sent) + 1
      BY <2>1, <2>2, <2>4
    <3>5. Lives(r, n)' <=> e.type # "Added"
      BY <1>1, <3>2, <3>3, <3>4 DEF Lives
    <3>. QED
      BY <2>4, <3>1, <3>5
  <2>5. CASE e.obj.name = r /\ \E i \in n..Len(sent) : sent[i].obj.name = r
    <3>1. PICK k \in n..Len(sent) : sent[k].obj.name = r
      BY <2>5
    <3>2. k \in n..Len(sent') /\ sent'[k].obj.name = r
      BY <2>1, <2>2, <3>1
    <3>3. ~\A j \in n..((Len(sent) + 1) - 1) : sent'[j].obj.name # r
      BY <2>1, <3>1, <3>2
    <3>4. (\E i \in n..Len(sent') : /\ sent'[i].obj.name = r /\ sent'[i].type # "Added"
                                    /\ \A j \in n..(i - 1) : sent'[j].obj.name # r)
            <=> \E i \in n..Len(sent) : /\ sent[i].obj.name = r /\ sent[i].type # "Added"
                                        /\ \A j \in n..(i - 1) : sent[j].obj.name # r
      BY <2>1, <2>2, <3>3
    <3>. QED
      BY <3>1, <3>2, <3>4 DEF Lives
  <2>. QED
    BY <2>3, <2>4, <2>5
<1>. QED
  BY <1>4, <1>5

-------------------------------------------------------------------------------
(* The invariant *)

Inv == TypeOK /\ AdmissionIsSound

\* An order of a finite set has all of its elements.
LEMMA OrderElements ==
    ASSUME NEW S, IsFiniteSet(S), NEW order \in SetToSeqs(S)
    PROVE  order \in Seq(S) /\ ToSet(order) = S
<1>1. Cardinality(S) \in Nat
  BY FS_CardinalityType
<1>2. IsFiniteSet(1..Cardinality(S)) /\ Cardinality(1..Cardinality(S)) = Cardinality(S)
  BY <1>1, FS_Interval
<1>3. order \in Injection(1..Cardinality(S), S)
  BY DEF SetToSeqs, Injection, IsInjective
<1>4. order \in Surjection(1..Cardinality(S), S)
  BY <1>2, <1>3, FS_Injection
<1>5. order \in [1..Cardinality(S) -> S]
  BY DEF SetToSeqs
<1>6. \A x \in S : \E i \in 1..Cardinality(S) : order[i] = x
  BY <1>4 DEF Surjection
<1>. QED
  BY <1>1, <1>5, <1>6 DEF ToSet

LEMMA InitSound == Init => Inv
<1>. SUFFICES ASSUME Init PROVE Inv
  OBVIOUS
<1>1. Cardinality(Routes) \in Nat
  BY RoutesAssumption, FS_CardinalityType
<1>2. route \in [Routes -> Objects \cup {Nothing}]
  BY StoredAssumption DEF Init
<1>3. TypeOK
  <2>1. \A h \in Hosts : IsClaim(hostToRoute[h])
    BY DEF Init, IsClaim
  <2>2. 0 \in 0..MaxChanges /\ 0 \in 0..MaxSelections /\ 0 \in 0..MaxFaults
    BY BoundsAssumption
  <2>. QED
    BY <1>2, <2>1, <2>2, <<>> \in Seq(WatchEvents), <<>> \in Seq(Routes),
       <<>> \in Seq(Objects)
       DEF Init, TypeOK, Nowhere
<1>4. NamesAgree
  BY StoredAssumption DEF Init, NamesAgree, Nowhere
<1>5. WatchIsSound
  BY DEF Init, WatchIsSound
<1>6. ServedIsKnown /\ ClaimsAreSound
  BY DEF Init, ServedIsKnown, ClaimsAreSound, Nowhere
<1>. QED
  BY <1>3, <1>4, <1>5, <1>6 DEF Inv, AdmissionIsSound

\* A write of a user: it tells the watch what it does.
LEMMA WriteStep ==
    ASSUME Inv, NEW r \in Routes, NEW type \in EventTypes, NEW obj \in Objects,
           obj.name = r, type # "Added" <=> route[r] # Nothing, Write(r, type, obj)
    PROVE  Inv'
<1>. DEFINE e == [type |-> type, obj |-> obj]
<1>1. /\ e \in WatchEvents
      /\ e.type = type /\ e.obj = obj /\ e.obj.name = r
  BY DEF WatchEvents
<1>. HIDE DEF e
<1>2. /\ route' = [route EXCEPT ![r] = IF type = "Deleted" THEN Nothing ELSE obj]
      /\ watching => sent' = Append(sent, e)
      /\ ~watching => sent' = sent
      /\ changes < MaxChanges /\ changes' = changes + 1
      /\ UNCHANGED <<watching, queue, events, store, hostToRoute, routeToHost, allowed,
                     served, refused, left, selections, faults>>
  BY DEF Write, Happens, queueVars, admission, e
<1>3. TypeOK'
  <2>1. route' \in [Routes -> Objects \cup {Nothing}]
    BY <1>2 DEF Inv, TypeOK
  <2>2. sent' \in Seq(WatchEvents)
    <3>1. sent \in Seq(WatchEvents)
      BY DEF Inv, TypeOK
    <3>2. watching \in BOOLEAN
      BY DEF Inv, TypeOK
    <3>. HIDE DEF Inv
    <3>. QED
      BY <1>1, <1>2, <3>1, <3>2
  <2>3. changes' \in 0..MaxChanges
    BY <1>2, BoundsAssumption DEF Inv, TypeOK
  <2>. QED
    BY <1>2, <2>1, <2>2, <2>3 DEF Inv, TypeOK
<1>4. NamesAgree'
  BY <1>2 DEF Inv, TypeOK, AdmissionIsSound, NamesAgree
<1>5. CASE watching
  <2>1. sent' = Append(sent, e) /\ Len(sent) \in Nat /\ Len(sent') = Len(sent) + 1
    BY <1>2, <1>5 DEF Inv, TypeOK
  <2>2. /\ \A q \in Routes, n \in 1..(Len(sent) + 1) : Lives(q, n)' <=> Lives(q, n)
        /\ \A n : n = Len(sent) + 2 => (Lives(r, n)' <=> type # "Deleted")
    <3>. HIDE DEF e
    <3>. QED
      BY <1>1, <1>2, <2>1, LivesAppend DEF Inv
  <2>3. \A q \in Routes : Lives(q, 1)' <=> Lives(q, 1)
    BY <2>1, <2>2
  <2>4. ASSUME NEW n \in DOMAIN sent'
        PROVE  (Lives(sent[n].obj.name, n + 1) <=> sent[n].type # "Deleted")'
    <3>1. CASE n = Len(sent) + 1
      <4>1. sent'[n] = e /\ n + 1 = Len(sent) + 2
        BY <2>1, <3>1 DEF Inv, TypeOK
      <4>. QED
        BY <1>1, <2>2, <4>1
    <3>2. CASE n # Len(sent) + 1
      <4>1. /\ n \in DOMAIN sent /\ n + 1 \in 1..(Len(sent) + 1) /\ sent'[n] = sent[n]
        BY <2>1, <3>2 DEF Inv, TypeOK
      <4>2. sent[n].obj.name \in Routes
        <5>1. sent[n] \in WatchEvents
          BY <4>1 DEF Inv, TypeOK
        <5>. QED
          BY <5>1 DEF WatchEvents, Objects
      <4>3. Lives(sent[n].obj.name, n + 1) <=> sent[n].type # "Deleted"
        BY <1>5, <4>1 DEF Inv, AdmissionIsSound, WatchIsSound
      <4>. QED
        BY <2>2, <4>1, <4>2, <4>3, Zenon
    <3>. QED
      BY <3>1, <3>2
  <2>5. WatchIsSound'
    BY <1>2, <1>5, <2>3, <2>4 DEF Inv, AdmissionIsSound, WatchIsSound
  <2>6. ServedIsKnown'
    BY <1>2, <1>5, <2>3 DEF Inv, AdmissionIsSound, ServedIsKnown
  <2>. QED
    BY <2>5, <2>6, <1>2, <1>3, <1>4 DEF Inv, AdmissionIsSound, ClaimsAreSound
<1>6. CASE ~watching
  BY <1>2, <1>3, <1>4, <1>6
     DEF Inv, AdmissionIsSound, WatchIsSound, ServedIsKnown, ClaimsAreSound
<1>. QED
  BY <1>5, <1>6

LEMMA UsersStep ==
    ASSUME Inv, Users
    PROVE  Inv'
<1>1. PICK r \in Routes : Create(r) \/ Update(r) \/ Delete(r)
  BY DEF Users
<1>2. route[r] # Nothing => route[r] \in Objects /\ route[r].name = r
  BY DEF Inv, TypeOK, AdmissionIsSound, NamesAgree
<1>3. CASE Create(r)
  <2>1. PICK h \in Hosts, p \in Paths :
          Write(r, "Added", [name |-> r, uid |-> Cardinality(Routes) + changes + 1,
                             host |-> h, path |-> p])
    BY <1>3 DEF Create
  <2>2. Cardinality(Routes) + changes + 1 \in 1..(Cardinality(Routes) + MaxChanges)
    <3>1. Cardinality(Routes) \in Nat
      BY RoutesAssumption, FS_CardinalityType
    <3>. QED
      BY <2>1, <3>1, BoundsAssumption DEF Write, Happens, Inv, TypeOK
  <2>. DEFINE o == [name |-> r, uid |-> Cardinality(Routes) + changes + 1,
                    host |-> h, path |-> p]
  <2>3. o \in Objects /\ o.name = r
    BY <2>2 DEF Objects
  <2>4. route[r] = Nothing /\ Write(r, "Added", o) /\ "Added" \in EventTypes
    BY <1>3, <2>1 DEF Create, EventTypes
  <2>. HIDE DEF o
  <2>. QED
    BY <2>3, <2>4, WriteStep
<1>4. CASE Update(r)
  <2>1. PICK p \in Paths : Write(r, "Modified", [route[r] EXCEPT !.path = p])
    BY <1>4 DEF Update
  <2>. DEFINE o == [route[r] EXCEPT !.path = p]
  <2>2. o \in Objects /\ o.name = r /\ route[r] # Nothing
    BY <1>2, <1>4 DEF Update, Objects
  <2>3. Write(r, "Modified", o) /\ "Modified" \in EventTypes
    BY <2>1 DEF EventTypes
  <2>. HIDE DEF o
  <2>. QED
    BY <2>2, <2>3, WriteStep
<1>5. CASE Delete(r)
  <2>1. route[r] # Nothing /\ Write(r, "Deleted", route[r]) /\ "Deleted" \in EventTypes
    BY <1>5 DEF Delete, EventTypes
  <2>. QED
    BY <1>2, <2>1, WriteStep
<1>. QED
  BY <1>1, <1>3, <1>4, <1>5

LEMMA WatchBreaksStep ==
    ASSUME Inv, WatchBreaks
    PROVE  Inv'
<1>1. /\ watching' = FALSE /\ sent' = <<>>
      /\ changes' \in 0..MaxChanges /\ faults' \in 0..MaxFaults
      /\ UNCHANGED <<route, queue, events, store, hostToRoute, routeToHost, allowed,
                     served, refused, left, selections>>
  BY BoundsAssumption
     DEF WatchBreaks, Fault, Happens, queueVars, admission, Inv, TypeOK
<1>2. TypeOK'
  BY <1>1, <<>> \in Seq(WatchEvents) DEF Inv, TypeOK
<1>3. NamesAgree' /\ WatchIsSound'
  BY <1>1 DEF Inv, AdmissionIsSound, NamesAgree, WatchIsSound
<1>4. ServedIsKnown' /\ ClaimsAreSound'
  BY <1>1 DEF Inv, AdmissionIsSound, ServedIsKnown, ClaimsAreSound
<1>. QED
  BY <1>2, <1>3, <1>4 DEF Inv, AdmissionIsSound

LEMMA ReplaceStep ==
    ASSUME Inv, Replace
    PROVE  Inv'
<1>. DEFINE listed == {r \in Routes : route[r] # Nothing}
<1>1. /\ ~watching /\ watching' = TRUE
      /\ queue' \in SetToSeqs(listed)
      /\ events' = [r \in Routes |-> IF r \in listed THEN "Modified" ELSE "none"]
      /\ store' = route
      /\ refused' = refused \cup {r \in Routes \ listed : served[r] # Nothing}
      /\ UNCHANGED <<route, sent, hostToRoute, routeToHost, allowed, served, left, changes,
                     selections, faults>>
  BY DEF Replace, admission
<1>2. sent = <<>>
  BY <1>1 DEF Inv, AdmissionIsSound, WatchIsSound
<1>3. queue' \in Seq(Routes) /\ ToSet(queue') = listed
  <2>1. listed \in SUBSET Routes /\ IsFiniteSet(listed)
    BY RoutesAssumption, FS_Subset
  <2>2. queue' \in Seq(listed) /\ ToSet(queue') = listed
    <3>. HIDE DEF listed
    <3>. QED
      BY <1>1, <2>1, OrderElements
  <2>. QED
    BY <2>1, <2>2
<1>4. \A r \in Routes : Lives(r, 1)' <=> route[r] # Nothing
  BY <1>1, <1>2 DEF Lives
<1>5. TypeOK'
  BY <1>1, <1>2, <1>3 DEF Inv, TypeOK, EventTypes
<1>6. NamesAgree'
  BY <1>1 DEF Inv, AdmissionIsSound, NamesAgree
<1>7. WatchIsSound'
  BY <1>1, <1>2, <1>4 DEF WatchIsSound
<1>8. ServedIsKnown'
  BY <1>1, <1>4 DEF ServedIsKnown
<1>9. ClaimsAreSound'
  BY <1>1 DEF Inv, AdmissionIsSound, ClaimsAreSound
<1>. QED
  BY <1>5, <1>6, <1>7, <1>8, <1>9 DEF Inv, AdmissionIsSound

\* The queue reads an event.
LEMMA HandleEventStep ==
    ASSUME Inv, HandleEvent
    PROVE  Inv'
<1>0. PICK e, r : e = Head(sent) /\ r = e.obj.name
  OBVIOUS
<1>1. PICK c \in Compressed :
        /\ c[1] = events[r] /\ c[2] = e.type
        /\ events' = [events EXCEPT ![r] = c[3]]
        /\ store' = IF e.type = "Deleted" THEN store ELSE [store EXCEPT ![r] = e.obj]
        /\ queue' = IF c[1] = "none" THEN Append(queue, r)
                    ELSE IF c[3] = "none"
                         THEN Kept(queue, {i \in DOMAIN queue : queue[i] # r})
                    ELSE queue
  BY <1>0 DEF HandleEvent
<1>2. /\ watching /\ sent # <<>> /\ sent' = Tail(sent)
      /\ UNCHANGED <<route, watching, hostToRoute, routeToHost, allowed, served, refused,
                     left, changes, selections, faults>>
  BY DEF HandleEvent, admission
<1>3. /\ Len(sent) \in Nat \ {0} /\ 1 \in DOMAIN sent
      /\ e = sent[1] /\ e \in WatchEvents
  BY <1>0, <1>2 DEF Inv, TypeOK
<1>4. e.obj \in Objects /\ r \in Routes /\ e.obj # Nothing /\ e.type \in EventTypes
  BY <1>0, <1>3, StoredAssumption DEF WatchEvents, Objects
<1>5. /\ c[3] \in EventTypes \cup {"none"}
      /\ c[3] = "none" => c[1] = "Added" /\ c[2] = "Deleted"
      /\ c[3] = "Deleted" <=> c[2] = "Deleted" /\ c[1] # "Added"
      /\ c[3] = "Added" => c[1] = "Added" \/ c[2] = "Added"
      /\ c[2] = "Added" => c[1] = "none"
      /\ c[2] = "Deleted" => c[3] \in {"none", "Deleted"}
      /\ c[1] # "Deleted"
  BY DEF Compressed, EventTypes
<1>6. Lives(r, 2) <=> e.type # "Deleted"
  <2>1. Lives(r, 1 + 1) <=> e.type # "Deleted"
    BY <1>0, <1>2, <1>3 DEF Inv, AdmissionIsSound, WatchIsSound
  <2>. QED
    BY <2>1, 1 + 1 = 2
<1>7. Lives(r, 1) <=> e.type # "Added"
  BY <1>0, <1>2, <1>3, LivesHead DEF Inv
<1>8. \A q \in Routes \ {r} : Lives(q, 1) <=> Lives(q, 2)
  BY <1>0, <1>2, <1>3, LivesHead DEF Inv
<1>9. \A q, n : n \in Nat \ {0} => (Lives(q, n)' <=> Lives(q, n + 1))
  BY <1>2, LivesTail DEF Inv
<1>10. \A q : Lives(q, 1)' <=> Lives(q, 2)
  BY <1>9, 1 + 1 = 2, 1 \in Nat \ {0}
<1>11. e.type = "Deleted" => store[r] # Nothing \/ c[1] = "none"
  BY <1>1, <1>2, <1>4, <1>7 DEF Inv, AdmissionIsSound, WatchIsSound
<1>12. e.type = "Deleted" => store[r] # Nothing
  BY <1>2, <1>4, <1>7, <1>11 DEF Inv, AdmissionIsSound, WatchIsSound
<1>13. /\ store' \in [Routes -> Objects \cup {Nothing}]
       /\ store'[r] # Nothing
       /\ \A q \in Routes \ {r} : store'[q] = store[q]
       /\ store'[r] = store[r] \/ store'[r] = e.obj
  BY <1>1, <1>4, <1>12 DEF Inv, TypeOK
<1>14. /\ events' \in [Routes -> EventTypes \cup {"none"}]
       /\ events'[r] = c[3]
       /\ \A q \in Routes \ {r} : events'[q] = events[q]
  BY <1>1, <1>4, <1>5 DEF Inv, TypeOK
<1>15. /\ queue' \in Seq(Routes)
       /\ \A q \in Routes \ {r} : q \in ToSet(queue) => q \in ToSet(queue')
       /\ c[3] # "none" => r \in ToSet(queue')
  <2>1. queue \in Seq(Routes)
    BY DEF Inv, TypeOK
  <2>2. CASE c[1] = "none"
    <3>1. queue' = Append(queue, r)
      BY <1>1, <2>2
    <3>. QED
      BY <1>4, <2>1, <3>1 DEF ToSet
  <2>3. CASE c[1] # "none" /\ c[3] = "none"
    <3>. DEFINE I == {i \in DOMAIN queue : queue[i] # r}
    <3>1. queue' = Kept(queue, I)
      BY <1>1, <2>3
    <3>2. \A i \in DOMAIN queue : i \in I <=> queue[i] # r
      OBVIOUS
    <3>3. I \in SUBSET DOMAIN queue
      OBVIOUS
    <3>. HIDE DEF I
    <3>4. /\ queue' \in Seq(Routes)
          /\ \A i \in I : \E n \in DOMAIN queue' : queue'[n] = queue[i]
      BY <2>1, <3>1, <3>3, KeptElements
    <3>. QED
      BY <2>3, <3>2, <3>4 DEF ToSet
  <2>4. CASE c[1] # "none" /\ c[3] # "none"
    <3>1. queue' = queue
      BY <1>1, <2>4
    <3>2. r \in ToSet(queue)
      BY <1>1, <1>4, <2>4 DEF Inv, TypeOK
    <3>. QED
      BY <2>1, <3>1, <3>2
  <2>. QED
    BY <2>2, <2>3, <2>4
<1>16. TypeOK'
  <2>1. sent' \in Seq(WatchEvents)
    BY <1>2 DEF Inv, TypeOK
  <2>2. \A q \in Routes : events'[q] # "none" => q \in ToSet(queue') /\ store'[q] # Nothing
    BY <1>13, <1>14, <1>15 DEF Inv, TypeOK
  <2>. QED
    BY <1>2, <1>13, <1>14, <1>15, <2>1, <2>2 DEF Inv, TypeOK
<1>17. NamesAgree'
  BY <1>0, <1>2, <1>13 DEF Inv, AdmissionIsSound, NamesAgree
<1>18. WatchIsSound'
  <2>1. ASSUME NEW n \in DOMAIN sent'
        PROVE  (Lives(sent[n].obj.name, n + 1) <=> sent[n].type # "Deleted")'
    <3>1. n + 1 \in DOMAIN sent /\ sent'[n] = sent[n + 1] /\ n \in Nat \ {0}
      BY <1>2, <1>3, <2>1 DEF Inv, TypeOK
    <3>2. Lives(sent[n + 1].obj.name, (n + 1) + 1) <=> sent[n + 1].type # "Deleted"
      BY <1>2, <3>1 DEF Inv, AdmissionIsSound, WatchIsSound
    <3>3. n + 1 \in Nat \ {0}
      BY <3>1
    <3>. QED
      BY <1>9, <3>1, <3>2, <3>3
  <2>2. ASSUME NEW q \in Routes
        PROVE  /\ Lives(q, 1)' => store'[q] # Nothing /\ events'[q] # "Deleted"
               /\ events'[q] \in {"Added", "Modified"} => Lives(q, 1)'
    <3>1. CASE q = r
      <4>1. Lives(r, 1)' <=> c[2] # "Deleted"
        BY <1>1, <1>6, <1>10
      <4>. QED
        BY <1>5, <1>13, <1>14, <3>1, <4>1
    <3>2. CASE q # r
      <4>1. Lives(q, 1)' <=> Lives(q, 1)
        BY <1>8, <1>10, <3>2
      <4>. QED
        BY <1>2, <1>13, <1>14, <3>2, <4>1 DEF Inv, AdmissionIsSound, WatchIsSound
    <3>. QED
      BY <3>1, <3>2
  <2>. QED
    BY <1>2, <2>1, <2>2 DEF WatchIsSound
<1>19. ServedIsKnown'
  <2>1. ASSUME NEW q \in Routes \ refused, served[q] # Nothing
        PROVE  /\ events'[q] # "Added"
               /\ events'[q] = "none" => served[q] = store'[q]
               /\ events'[q] # "Deleted" => Lives(q, 1)'
    <3>1. /\ events[q] # "Added"
          /\ events[q] = "none" => served[q] = store[q]
          /\ events[q] # "Deleted" => Lives(q, 1)
      BY <1>2, <2>1 DEF Inv, AdmissionIsSound, ServedIsKnown
    <3>2. CASE q = r
      <4>1. c[1] # "Added"
        BY <1>1, <3>1, <3>2
      <4>2. c[2] # "Added"
        BY <1>1, <1>5, <1>7, <3>1, <3>2
      <4>. QED
        BY <1>1, <1>5, <1>6, <1>10, <1>14, <3>2, <4>1, <4>2
    <3>3. CASE q # r
      <4>1. Lives(q, 1)' <=> Lives(q, 1)
        BY <1>8, <1>10, <2>1, <3>3
      <4>. QED
        BY <1>13, <1>14, <2>1, <3>1, <3>3, <4>1
    <3>. QED
      BY <3>2, <3>3
  <2>. QED
    BY <1>2, <2>1 DEF ServedIsKnown
<1>20. ClaimsAreSound'
  BY <1>2 DEF Inv, AdmissionIsSound, ClaimsAreSound
<1>. QED
  BY <1>16, <1>17, <1>18, <1>19, <1>20 DEF Inv, AdmissionIsSound

LEMMA ResyncStep ==
    ASSUME Inv, Resync
    PROVE  Inv'
<1>. DEFINE waiting == {r \in Routes : store[r] # Nothing} \ ToSet(queue)
<1>1. PICK added \in SetToSeqs(waiting) : queue' = queue \o added
  BY DEF Resync
<1>2. UNCHANGED <<route, watching, sent, events, store, hostToRoute, routeToHost, allowed,
                  served, refused, left, changes, selections, faults>>
  BY DEF Resync, admission
<1>3. added \in Seq(Routes)
  <2>1. waiting \in SUBSET Routes /\ IsFiniteSet(waiting)
    BY RoutesAssumption, FS_Subset
  <2>2. added \in Seq(waiting)
    <3>. HIDE DEF waiting
    <3>. QED
      BY <2>1, OrderElements
  <2>. QED
    BY <2>1, <2>2
<1>4. queue \in Seq(Routes) /\ queue' \in Seq(Routes)
  BY <1>1, <1>3 DEF Inv, TypeOK
<1>5. \A q \in ToSet(queue) : q \in ToSet(queue')
  BY <1>1, <1>3, <1>4 DEF ToSet
<1>6. TypeOK'
  BY <1>2, <1>4, <1>5 DEF Inv, TypeOK
<1>7. NamesAgree'
  BY <1>2 DEF Inv, AdmissionIsSound, NamesAgree
<1>8. \A q, n : Lives(q, n)' <=> Lives(q, n)
  BY <1>2, LivesUnchanged
<1>9. WatchIsSound'
  BY <1>2, <1>8 DEF Inv, AdmissionIsSound, WatchIsSound
<1>10. ServedIsKnown' /\ ClaimsAreSound'
  BY <1>2, <1>8 DEF Inv, AdmissionIsSound, ServedIsKnown, ClaimsAreSound
<1>. QED
  BY <1>6, <1>7, <1>9, <1>10 DEF Inv, AdmissionIsSound

LEMMA StartsStep ==
    ASSUME Inv, Restart \/ Panic
    PROVE  Inv'
<1>1. /\ watching' = FALSE /\ sent' = <<>> /\ queue' = <<>>
      /\ events' = [r \in Routes |-> "none"]
      /\ store' = Nowhere
      /\ hostToRoute' = [h \in Hosts |-> <<>>]
      /\ routeToHost' = Nowhere /\ served' = Nowhere
      /\ refused' = {} /\ left' = {}
      /\ UNCHANGED <<route, allowed, selections>>
  BY DEF Restart, Panic, Starts
<1>2. changes' \in 0..MaxChanges /\ faults' \in 0..MaxFaults
  BY BoundsAssumption DEF Restart, Panic, Fault, Happens, Inv, TypeOK
<1>3. TypeOK'
  <2>1. \A h \in Hosts : IsClaim(hostToRoute'[h])
    BY <1>1 DEF IsClaim
  <2>. QED
    BY <1>1, <1>2, <2>1, <<>> \in Seq(WatchEvents), <<>> \in Seq(Routes),
       <<>> \in Seq(Objects)
       DEF Inv, TypeOK, Nowhere
<1>4. NamesAgree'
  BY <1>1 DEF Inv, AdmissionIsSound, NamesAgree, Nowhere
<1>5. WatchIsSound'
  BY <1>1 DEF WatchIsSound
<1>6. ServedIsKnown' /\ ClaimsAreSound'
  BY <1>1 DEF ServedIsKnown, ClaimsAreSound, Nowhere
<1>. QED
  BY <1>3, <1>4, <1>5, <1>6 DEF Inv, AdmissionIsSound

\* The queue gives up its first key: the rest of what it holds stays known.
LEMMA PopSound ==
    ASSUME Inv, HandleRoute
    PROVE  LET r == Head(queue) IN
           /\ r \in Routes /\ store[r] \in Objects /\ store[r].name = r
           /\ queue' \in Seq(Routes)
           /\ store' \in [Routes -> Objects \cup {Nothing}]
           /\ events' \in [Routes -> EventTypes \cup {"none"}]
           /\ \A q \in Routes : events'[q] # "none" => q \in ToSet(queue') /\ store'[q] # Nothing
           /\ events'[r] = "none"
           /\ events[r] # "Deleted" => store'[r] = store[r]
           /\ \A q \in Routes \ {r} : events'[q] = events[q] /\ store'[q] = store[q]
           /\ \A q \in Routes : store'[q] = Nothing \/ store'[q] = store[q]
           /\ UNCHANGED <<route, watching, sent, allowed, selections>>
<1>. DEFINE r == Head(queue)
<1>1. /\ queue # <<>> /\ queue \in Seq(Routes) /\ queue' = Tail(queue)
      /\ store[r] # Nothing
      /\ events' = [events EXCEPT ![r] = "none"]
      /\ store' = IF events[r] = "Deleted" THEN [store EXCEPT ![r] = Nothing] ELSE store
      /\ UNCHANGED <<route, watching, sent, allowed, selections>>
  BY DEF HandleRoute, Inv, TypeOK
<1>2. r \in Routes /\ queue' \in Seq(Routes) /\ r = queue[1]
  BY <1>1
<1>3. \A q \in ToSet(queue) : q # r => q \in ToSet(queue')
  <2>1. ASSUME NEW i \in DOMAIN queue, queue[i] # r
        PROVE  queue[i] \in ToSet(queue')
    <3>1. i - 1 \in DOMAIN queue' /\ queue'[i - 1] = queue[i]
      BY <1>1, <1>2, <2>1
    <3>. QED
      BY <3>1 DEF ToSet
  <2>. HIDE DEF r
  <2>. QED
    BY <2>1 DEF ToSet
<1>. HIDE DEF r
<1>4. /\ store \in [Routes -> Objects \cup {Nothing}]
      /\ events \in [Routes -> EventTypes \cup {"none"}]
      /\ \A q \in Routes : events[q] # "none" => q \in ToSet(queue) /\ store[q] # Nothing
  BY DEF Inv, TypeOK
<1>5. store[r] \in Objects /\ store[r].name = r
  BY <1>1, <1>2, <1>4 DEF Inv, AdmissionIsSound, NamesAgree
<1>6. /\ store' \in [Routes -> Objects \cup {Nothing}]
      /\ events' \in [Routes -> EventTypes \cup {"none"}]
      /\ events'[r] = "none"
      /\ events[r] # "Deleted" => store'[r] = store[r]
      /\ \A q \in Routes \ {r} : events'[q] = events[q] /\ store'[q] = store[q]
      /\ \A q \in Routes : store'[q] = Nothing \/ store'[q] = store[q]
  BY <1>1, <1>2, <1>4
<1>7. \A q \in Routes : events'[q] # "none" => q \in ToSet(queue') /\ store'[q] # Nothing
  BY <1>3, <1>4, <1>6
<1>. QED
  BY <1>1, <1>2, <1>5, <1>6, <1>7 DEF r

\* What a route that has lost neither its claim nor its path still claims.
LEMMA OthersKeepClaims ==
    ASSUME Inv, NEW o \in Objects, NEW q \in Routes, q # o.name, q \notin Displaced(o),
           served[q] # Nothing, served[q].host \notin left, served[q].host = o.host,
           NEW claims \in {Claimed(o), Unclaimed(o)}
    PROVE  /\ \E c \in ToSet(claims) : c.name = q
           /\ q \notin refused => served[q] \in ToSet(claims)
<1>1. served[q].name = q
  BY DEF Inv, AdmissionIsSound, NamesAgree
<1>2. ClaimsOK
  BY DEF Inv, TypeOK, ClaimsOK
<1>3. /\ \E c \in ToSet(hostToRoute[o.host]) : c.name = q
      /\ q \notin refused => served[q] \in ToSet(hostToRoute[o.host])
  BY DEF Inv, AdmissionIsSound, ClaimsAreSound
<1>4. \A c \in ToSet(hostToRoute[o.host]) : c.name = q => c \in ToSet(claims)
  <2>1. \A c \in ToSet(hostToRoute[o.host]) : c.name = q => c \in ToSet(Claimed(o))
    BY <1>2, ClaimedElements
  <2>2. ToSet(Unclaimed(o)) = {c \in ToSet(Claimed(o)) : c.name # o.name}
    BY <1>2, UnclaimedElements
  <2>. QED
    BY <2>1, <2>2
<1>. QED
  BY <1>1, <1>3, <1>4

\* What UniqueHost does with a route keeps the claims of every other route that goes on
\* being served.  What is left to show of a case is that of the route itself.
LEMMA OthersSound ==
    ASSUME Inv, NEW o \in Objects, o.host \in Hosts, o.name \in Routes,
           NEW gone \in SUBSET Hosts, NEW claims \in {Claimed(o), Unclaimed(o)},
           hostToRoute' = [h \in Hosts |-> IF h = o.host THEN claims
                                           ELSE IF h \in gone THEN <<>> ELSE hostToRoute[h]],
           left' = left \cup gone, o.host \notin gone,
           NEW q \in Routes, q # o.name,
           routeToHost'[q] = routeToHost[q],
           q \in refused => q \in refused',
           served'[q] = IF q \in Displaced(o) THEN Nothing ELSE served[q]
    PROVE  \/ served'[q] = Nothing \/ served'[q].host \in left'
           \/ /\ routeToHost'[q] = served'[q].host
              /\ \E c \in ToSet(hostToRoute'[served'[q].host]) : c.name = q
              /\ q \notin refused' => served'[q] \in ToSet(hostToRoute'[served'[q].host])
<1>. SUFFICES ASSUME served'[q] # Nothing, served'[q].host \notin left'
              PROVE  /\ routeToHost'[q] = served'[q].host
                     /\ \E c \in ToSet(hostToRoute'[served'[q].host]) : c.name = q
                     /\ q \notin refused' =>
                          served'[q] \in ToSet(hostToRoute'[served'[q].host])
  OBVIOUS
<1>1. q \notin Displaced(o) /\ served'[q] = served[q] /\ served[q] # Nothing
  OBVIOUS
<1>. DEFINE h == served[q].host
<1>2. h \in Hosts /\ h \notin left /\ h \notin gone
  <2>1. served[q] \in Objects
    BY <1>1 DEF Inv, TypeOK
  <2>. QED
    BY <1>1, <2>1 DEF Objects
<1>3. /\ routeToHost[q] = h
      /\ \E c \in ToSet(hostToRoute[h]) : c.name = q
      /\ q \notin refused => served[q] \in ToSet(hostToRoute[h])
  BY <1>1, <1>2 DEF Inv, AdmissionIsSound, ClaimsAreSound
<1>4. CASE h = o.host
  <2>1. hostToRoute'[h] = claims
    BY <1>2, <1>4
  <2>2. /\ \E c \in ToSet(claims) : c.name = q
        /\ q \notin refused => served[q] \in ToSet(claims)
    BY <1>1, <1>2, <1>4, OthersKeepClaims
  <2>. HIDE DEF h
  <2>3. served'[q].host = h
    BY <1>1 DEF h
  <2>. QED
    BY <1>1, <1>3, <2>1, <2>2, <2>3
<1>5. CASE h # o.host
  <2>1. hostToRoute'[h] = hostToRoute[h]
    BY <1>2, <1>5
  <2>2. served'[q].host = h
    BY <1>1
  <2>. HIDE DEF h
  <2>. QED
    BY <1>1, <1>3, <2>1, <2>2
<1>. QED
  BY <1>4, <1>5

\* The names of the routes that a route displaces are names of routes.
LEMMA DisplacedNames ==
    ASSUME Inv, NEW o \in Objects
    PROVE  Displaced(o) \in SUBSET Routes
<1>1. hostToRoute[o.host] \in Seq(Objects)
  BY DEF Inv, TypeOK, Objects
<1>2. \A i \in DOMAIN hostToRoute[o.host] : hostToRoute[o.host][i].name \in Routes
  <2>1. \A i \in DOMAIN hostToRoute[o.host] : hostToRoute[o.host][i] \in Objects
    BY <1>1
  <2>. QED
    BY <2>1 DEF Objects
<1>. QED
  BY <1>2 DEF Displaced, ToSet, Rival

\* A key is popped, and its route let through or not.
LEMMA HandleRouteStep ==
    ASSUME Inv, HandleRoute
    PROVE  Inv'
<1>0. PICK r, o, type : r = Head(queue) /\ o = store[r] /\ type = events[r]
  OBVIOUS
<1>1. /\ r \in Routes /\ o \in Objects /\ o.name = r
      /\ queue' \in Seq(Routes)
      /\ store' \in [Routes -> Objects \cup {Nothing}]
      /\ events' \in [Routes -> EventTypes \cup {"none"}]
      /\ \A q \in Routes : events'[q] # "none" => q \in ToSet(queue') /\ store'[q] # Nothing
      /\ events'[r] = "none"
      /\ type # "Deleted" => store'[r] = o
      /\ \A q \in Routes \ {r} : events'[q] = events[q] /\ store'[q] = store[q]
      /\ \A q \in Routes : store'[q] = Nothing \/ store'[q] = store[q]
      /\ UNCHANGED <<route, watching, sent, allowed, selections>>
  BY <1>0, PopSound
<1>2. o.host \in Hosts /\ o # Nothing
  BY <1>1, StoredAssumption DEF Objects
<1>3. ClaimsOK
  BY DEF Inv, TypeOK, ClaimsOK
<1>4. /\ Claimed(o) \in Seq(Objects) /\ IsClaim(Claimed(o)) /\ o \in ToSet(Claimed(o))
      /\ ToSet(Claimed(o)) \subseteq ToSet(hostToRoute[o.host]) \cup {o}
      /\ \A c \in ToSet(hostToRoute[o.host]) :
           c \in ToSet(Claimed(o)) \/ c.name = o.name \/ c.name \in Displaced(o)
      /\ Unclaimed(o) \in Seq(Objects) /\ IsClaim(Unclaimed(o))
      /\ Displaced(o) \in SUBSET Routes
  BY <1>1, <1>3, ClaimedElements, UnclaimedElements, DisplacedNames
<1>5. /\ hostToRoute \in [Hosts -> Seq(Objects)]
      /\ \A h \in Hosts : IsClaim(hostToRoute[h])
      /\ routeToHost \in [Routes -> Hosts \cup {Nothing}]
      /\ served \in [Routes -> Objects \cup {Nothing}]
      /\ refused \in SUBSET Routes /\ left \in SUBSET Hosts
      /\ changes \in 0..MaxChanges /\ faults \in 0..MaxFaults
  BY DEF Inv, TypeOK
<1>6. SUFFICES /\ hostToRoute' \in [Hosts -> Seq(Objects)]
               /\ \A h \in Hosts : IsClaim(hostToRoute'[h])
               /\ routeToHost' \in [Routes -> Hosts \cup {Nothing}]
               /\ served' \in [Routes -> Objects \cup {Nothing}]
               /\ served'[r] \in {Nothing, served[r], o}
               /\ \A q \in Routes \ {r} : served'[q] \in {Nothing, served[q]}
               /\ refused' \in SUBSET Routes /\ left' \in SUBSET Hosts
               /\ changes' \in 0..MaxChanges /\ faults' \in 0..MaxFaults
               /\ \A q \in Routes \ {r} : q \in refused => q \in refused'
               /\ \/ r \in refused' \/ served'[r] = Nothing
                  \/ r \notin refused /\ type = "none" /\ served'[r] = served[r]
                  \/ type \in {"Added", "Modified"} /\ served'[r] = o
               /\ ClaimsAreSound'
  <2>1. TypeOK'
    BY <1>1, <1>6 DEF Inv, TypeOK
  <2>2. NamesAgree'
    BY <1>1, <1>6 DEF Inv, AdmissionIsSound, NamesAgree
  <2>3. \A q, n : Lives(q, n)' <=> Lives(q, n)
    BY <1>1, LivesUnchanged
  <2>4. WatchIsSound'
    <3>1. watching => \A q \in Routes : Lives(q, 1) => store'[q] # Nothing
      BY <1>0, <1>1, <1>2 DEF Inv, AdmissionIsSound, WatchIsSound
    <3>. QED
      BY <1>1, <2>3, <3>1 DEF Inv, AdmissionIsSound, WatchIsSound
  <2>5. ServedIsKnown'
    <3>1. ASSUME NEW q \in Routes \ refused', served'[q] # Nothing
          PROVE  /\ events'[q] # "Added"
                 /\ events'[q] = "none" => served'[q] = store'[q]
                 /\ watching /\ events'[q] # "Deleted" => Lives(q, 1)
      <4>1. CASE q # r
        BY <1>1, <1>6, <3>1, <4>1 DEF Inv, AdmissionIsSound, ServedIsKnown
      <4>2. CASE q = r /\ r \notin refused /\ type = "none" /\ served'[r] = served[r]
        BY <1>0, <1>1, <3>1, <4>2 DEF Inv, AdmissionIsSound, ServedIsKnown
      <4>3. CASE q = r /\ type \in {"Added", "Modified"} /\ served'[r] = o
        BY <1>0, <1>1, <4>3 DEF Inv, AdmissionIsSound, WatchIsSound
      <4>. QED
        BY <1>6, <3>1, <4>1, <4>2, <4>3
    <3>. QED
      BY <1>1, <2>3, <3>1 DEF ServedIsKnown
  <2>. QED
    BY <1>6, <2>1, <2>2, <2>4, <2>5 DEF Inv, AdmissionIsSound
<1>7. CASE Refuse(o, type)
  <2>1. /\ UNCHANGED <<hostToRoute, routeToHost, served, left, changes, faults>>
        /\ refused' = IF type = "none" THEN refused ELSE refused \cup {r}
    BY <1>1, <1>7 DEF Refuse
  <2>2. ClaimsAreSound'
    BY <2>1 DEF Inv, AdmissionIsSound, ClaimsAreSound
  <2>. QED
    BY <1>1, <1>5, <2>1, <2>2
<1>8. CASE type = "none" /\ ClaimOnly(o)
  <2>1. /\ hostToRoute' = [hostToRoute EXCEPT ![o.host] = Claimed(o)]
        /\ served' = Forgotten(Displaced(o))
        /\ refused' = refused \cup Displaced(o)
        /\ UNCHANGED <<routeToHost, left, changes, faults>>
    BY <1>8 DEF ClaimOnly
  <2>2. \A q \in Routes : served'[q] = IF q \in Displaced(o) THEN Nothing ELSE served[q]
    BY <2>1 DEF Forgotten
  <2>3. hostToRoute' = [h \in Hosts |-> IF h = o.host THEN Claimed(o)
                                        ELSE IF h \in {} THEN <<>> ELSE hostToRoute[h]]
    BY <1>5, <2>1
  <2>4. ClaimsAreSound'
    <3>1. ASSUME NEW q \in Routes, q # r
          PROVE  \/ served'[q] = Nothing \/ served'[q].host \in left'
                 \/ /\ routeToHost'[q] = served'[q].host
                    /\ \E c \in ToSet(hostToRoute'[served'[q].host]) : c.name = q
                    /\ q \notin refused' =>
                         served'[q] \in ToSet(hostToRoute'[served'[q].host])
      <4>1. /\ left' = left \cup {} /\ o.host \notin {} /\ {} \in SUBSET Hosts
            /\ q \in refused => q \in refused'
            /\ routeToHost'[q] = routeToHost[q]
            /\ Claimed(o) \in {Claimed(o), Unclaimed(o)}
        BY <2>1
      <4>. QED
        BY <1>1, <1>2, <2>2, <2>3, <3>1, <4>1, OthersSound
    <3>2. ASSUME served'[r] # Nothing, served'[r].host \notin left'
          PROVE  /\ routeToHost'[r] = served'[r].host
                 /\ \E c \in ToSet(hostToRoute'[served'[r].host]) : c.name = r
                 /\ r \notin refused' =>
                      served'[r] \in ToSet(hostToRoute'[served'[r].host])
      <4>1. served'[r] = served[r] /\ r \notin Displaced(o)
        BY <1>1, <2>2, <3>2
      <4>2. served[r] \in Objects /\ served[r].host \in Hosts
        BY <1>1, <1>5, <3>2, <4>1 DEF Objects
      <4>3. /\ routeToHost[r] = served[r].host
            /\ \E c \in ToSet(hostToRoute[served[r].host]) : c.name = r
            /\ r \notin refused => served[r] \in ToSet(hostToRoute[served[r].host])
        BY <1>1, <2>1, <3>2, <4>1 DEF Inv, AdmissionIsSound, ClaimsAreSound
      <4>4. CASE served[r].host = o.host
        <5>1. r \notin refused' => served[r] = o
          BY <1>0, <1>1, <1>8, <2>1, <3>2, <4>1 DEF Inv, AdmissionIsSound, ServedIsKnown
        <5>2. hostToRoute'[o.host] = Claimed(o)
          BY <1>2, <2>3
        <5>. QED
          BY <1>1, <1>4, <2>1, <4>1, <4>3, <4>4, <5>1, <5>2
      <4>5. CASE served[r].host # o.host
        <5>1. hostToRoute'[served[r].host] = hostToRoute[served[r].host]
          BY <2>3, <4>2, <4>5
        <5>. QED
          BY <2>1, <4>1, <4>3, <5>1
      <4>. QED
        BY <4>4, <4>5
    <3>. QED
      BY <3>1, <3>2 DEF ClaimsAreSound
  <2>5. hostToRoute' \in [Hosts -> Seq(Objects)] /\ \A h \in Hosts : IsClaim(hostToRoute'[h])
    BY <1>4, <1>5, <2>3
  <2>6. served' \in [Routes -> Objects \cup {Nothing}]
    BY <1>5, <2>1 DEF Forgotten
  <2>. QED
    BY <1>1, <1>4, <1>5, <1>8, <2>1, <2>2, <2>4, <2>5, <2>6
<1>9. CASE type \in {"Added", "Modified"} /\ Admit(o)
  <2>1. /\ hostToRoute' = [h \in Hosts |->
             IF h = o.host THEN Claimed(o)
             ELSE IF h \in Dropped(o) THEN <<>> ELSE hostToRoute[h]]
        /\ left' = left \cup Dropped(o)
        /\ routeToHost' = [routeToHost EXCEPT ![r] = o.host]
        /\ \/ /\ served' = [Forgotten(Displaced(o)) EXCEPT ![r] = o]
              /\ refused' = (refused \cup Displaced(o)) \ {r}
              /\ UNCHANGED <<changes, faults>>
           \/ /\ Fault
              /\ served' = Forgotten(Displaced(o))
              /\ refused' = refused \cup Displaced(o) \cup {r}
    BY <1>1, <1>9 DEF Admit
  <2>2. Dropped(o) \in SUBSET Hosts /\ o.host \notin Dropped(o)
    BY <1>1, <1>5 DEF Dropped
  <2>3. /\ served' \in [Routes -> Objects \cup {Nothing}]
        /\ \A q \in Routes \ {r} : served'[q] = IF q \in Displaced(o) THEN Nothing ELSE served[q]
        /\ \/ served'[r] = o
           \/ served'[r] \in {Nothing, served[r]} /\ r \in refused'
    <3>. DEFINE f == Forgotten(Displaced(o))
    <3>1. /\ f \in [Routes -> Objects \cup {Nothing}]
          /\ \A q \in Routes : f[q] = IF q \in Displaced(o) THEN Nothing ELSE served[q]
      BY <1>5 DEF Forgotten
    <3>. HIDE DEF f
    <3>2. CASE served' = [f EXCEPT ![r] = o]
      BY <1>1, <1>5, <3>1, <3>2
    <3>3. CASE served' = f /\ r \in refused'
      BY <1>1, <3>1, <3>3
    <3>. QED
      BY <2>1, <3>2, <3>3 DEF f
  <2>4. changes' \in 0..MaxChanges /\ faults' \in 0..MaxFaults
    BY <1>5, <2>1, BoundsAssumption DEF Fault, Happens
  <2>5. /\ routeToHost' \in [Routes -> Hosts \cup {Nothing}]
        /\ routeToHost'[r] = o.host
        /\ \A q \in Routes \ {r} : routeToHost'[q] = routeToHost[q]
    BY <1>1, <1>2, <1>5, <2>1
  <2>6. hostToRoute' \in [Hosts -> Seq(Objects)] /\ \A h \in Hosts : IsClaim(hostToRoute'[h])
    BY <1>4, <1>5, <2>1 DEF IsClaim
  <2>7. ClaimsAreSound'
    <3>1. ASSUME NEW q \in Routes, q # r
          PROVE  \/ served'[q] = Nothing \/ served'[q].host \in left'
                 \/ /\ routeToHost'[q] = served'[q].host
                    /\ \E c \in ToSet(hostToRoute'[served'[q].host]) : c.name = q
                    /\ q \notin refused' =>
                         served'[q] \in ToSet(hostToRoute'[served'[q].host])
      <4>1. /\ q \in refused => q \in refused'
            /\ routeToHost'[q] = routeToHost[q]
            /\ Claimed(o) \in {Claimed(o), Unclaimed(o)}
            /\ served'[q] = IF q \in Displaced(o) THEN Nothing ELSE served[q]
        BY <2>1, <2>3, <2>5, <3>1
      <4>. QED
        BY <1>1, <1>2, <2>1, <2>2, <3>1, <4>1, OthersSound
    <3>2. hostToRoute'[o.host] = Claimed(o)
      BY <1>2, <2>1
    <3>3. ASSUME served'[r] = o
          PROVE  /\ routeToHost'[r] = served'[r].host
                 /\ \E c \in ToSet(hostToRoute'[served'[r].host]) : c.name = r
                 /\ served'[r] \in ToSet(hostToRoute'[served'[r].host])
      BY <1>1, <1>4, <2>5, <3>2, <3>3
    <3>4. ASSUME served'[r] = served[r], r \in refused', served[r] # Nothing,
                 served[r].host \notin left'
          PROVE  /\ routeToHost'[r] = served'[r].host
                 /\ \E c \in ToSet(hostToRoute'[served'[r].host]) : c.name = r
      <4>1. routeToHost[r] = served[r].host
        BY <1>1, <2>1, <3>4 DEF Inv, AdmissionIsSound, ClaimsAreSound
      <4>2. served[r].host = o.host
        <5>1. served[r].host # Nothing
          <6>1. served[r] \in Objects
            BY <1>1, <1>5, <3>4
          <6>. QED
            BY <6>1, StoredAssumption DEF Objects
        <5>. QED
          BY <1>1, <2>1, <3>4, <4>1, <5>1 DEF Dropped
      <4>. QED
        BY <1>1, <1>4, <2>5, <3>2, <3>4, <4>2
    <3>. QED
      BY <2>3, <3>1, <3>3, <3>4 DEF ClaimsAreSound
  <2>. QED
    BY <1>1, <1>4, <1>5, <1>9, <2>1, <2>2, <2>3, <2>4, <2>5, <2>6, <2>7
<1>10. CASE Forget(o)
  <2>1. /\ hostToRoute' = [hostToRoute EXCEPT ![o.host] = Unclaimed(o)]
        /\ routeToHost' = [routeToHost EXCEPT ![r] = Nothing]
        /\ served' = Forgotten(Displaced(o) \cup {r})
        /\ refused' = (refused \cup Displaced(o)) \ {r}
        /\ UNCHANGED <<left, changes, faults>>
    BY <1>1, <1>10 DEF Forget
  <2>2. /\ served' \in [Routes -> Objects \cup {Nothing}]
        /\ served'[r] = Nothing
        /\ \A q \in Routes \ {r} : served'[q] = IF q \in Displaced(o) THEN Nothing ELSE served[q]
    BY <1>1, <1>5, <2>1 DEF Forgotten
  <2>3. hostToRoute' = [h \in Hosts |-> IF h = o.host THEN Unclaimed(o)
                                        ELSE IF h \in {} THEN <<>> ELSE hostToRoute[h]]
    BY <1>5, <2>1
  <2>4. hostToRoute' \in [Hosts -> Seq(Objects)] /\ \A h \in Hosts : IsClaim(hostToRoute'[h])
    BY <1>4, <1>5, <2>3
  <2>5. /\ routeToHost' \in [Routes -> Hosts \cup {Nothing}]
        /\ \A q \in Routes \ {r} : routeToHost'[q] = routeToHost[q]
    BY <1>1, <1>5, <2>1
  <2>6. ASSUME NEW q \in Routes, q # r
        PROVE  \/ served'[q] = Nothing \/ served'[q].host \in left'
               \/ /\ routeToHost'[q] = served'[q].host
                  /\ \E c \in ToSet(hostToRoute'[served'[q].host]) : c.name = q
                  /\ q \notin refused' =>
                       served'[q] \in ToSet(hostToRoute'[served'[q].host])
    <3>1. /\ left' = left \cup {} /\ o.host \notin {} /\ {} \in SUBSET Hosts
          /\ q \in refused => q \in refused'
          /\ routeToHost'[q] = routeToHost[q]
          /\ Unclaimed(o) \in {Claimed(o), Unclaimed(o)}
          /\ served'[q] = IF q \in Displaced(o) THEN Nothing ELSE served[q]
      BY <2>1, <2>2, <2>5, <2>6
    <3>. QED
      BY <1>1, <1>2, <2>3, <2>6, <3>1, OthersSound
  <2>7. ClaimsAreSound'
    BY <2>2, <2>6 DEF ClaimsAreSound
  <2>. QED
    BY <1>1, <1>4, <1>5, <2>1, <2>2, <2>4, <2>5, <2>7
<1>. QED
  BY <1>0, <1>7, <1>8, <1>9, <1>10 DEF HandleRoute

\* The namespaces that are served change: who goes on being served had no claim among
\* those that go, because the claims of a host are of one namespace.
LEMMA HandleNamespacesStep ==
    ASSUME Inv, HandleNamespaces
    PROVE  Inv'
<1>. DEFINE goes(h) == /\ hostToRoute[h] # <<>>
                       /\ NamespaceOf(hostToRoute[h][1].name) \notin allowed'
            gone == {h \in Hosts : goes(h)}
            out == {r \in Routes : served[r] # Nothing /\ NamespaceOf(r) \notin allowed'}
            loses(r) == \E h \in gone : \E c \in ToSet(hostToRoute[h]) : c.name = r
<1>1. /\ changes' \in 0..MaxChanges /\ selections' \in 0..MaxSelections
      /\ allowed' \in SUBSET Namespaces
  <2>1. /\ changes < MaxChanges /\ changes' = changes + 1
        /\ selections < MaxSelections /\ selections' = selections + 1
        /\ allowed' \in SUBSET Namespaces
    BY DEF HandleNamespaces, Happens
  <2>2. changes \in 0..MaxChanges /\ selections \in 0..MaxSelections
    BY DEF Inv, TypeOK
  <2>. QED
    BY <2>1, <2>2, BoundsAssumption
<1>2. /\ hostToRoute' = [h \in Hosts |-> IF h \in gone THEN <<>> ELSE hostToRoute[h]]
      /\ routeToHost' = [r \in Routes |-> IF loses(r) THEN Nothing ELSE routeToHost[r]]
      /\ \/ served' = Forgotten(out) /\ refused' = refused \cup out
         \/ gone = {} /\ served' = served /\ refused' = refused
      /\ UNCHANGED <<route, watching, sent, queue, events, store, left, faults>>
  BY DEF HandleNamespaces, queueVars
<1>3. /\ hostToRoute \in [Hosts -> Seq(Objects)]
      /\ \A h \in Hosts : IsClaim(hostToRoute[h])
      /\ routeToHost \in [Routes -> Hosts \cup {Nothing}]
      /\ served \in [Routes -> Objects \cup {Nothing}]
      /\ refused \in SUBSET Routes
  BY DEF Inv, TypeOK
<1>4. ASSUME NEW h \in gone, NEW c \in ToSet(hostToRoute[h])
      PROVE  NamespaceOf(c.name) \notin allowed'
  <2>1. hostToRoute[h] \in Seq(Objects) /\ IsClaim(hostToRoute[h])
    BY <1>3
  <2>2. PICK i \in DOMAIN hostToRoute[h] : hostToRoute[h][i] = c
    BY <2>1, ToSetOfSeq
  <2>3. 1 \in DOMAIN hostToRoute[h]
    BY <2>1, <2>2
  <2>. QED
    BY <2>1, <2>2, <2>3 DEF IsClaim
<1>5. /\ served' \in [Routes -> Objects \cup {Nothing}]
      /\ refused' \in SUBSET Routes
      /\ \A r \in Routes : served'[r] = Nothing \/ served'[r] = served[r]
      /\ \A r \in Routes : r \in refused => r \in refused'
      /\ \A r \in Routes : served'[r] # Nothing =>
           gone = {} \/ NamespaceOf(r) \in allowed'
  BY <1>2, <1>3 DEF Forgotten
<1>6. \A r \in Routes : served'[r] # Nothing => ~loses(r)
  BY <1>4, <1>5
<1>7. TypeOK'
  <2>1. /\ hostToRoute' \in [Hosts -> Seq(Objects)]
        /\ \A h \in Hosts : IsClaim(hostToRoute'[h])
    BY <1>2, <1>3 DEF IsClaim
  <2>2. routeToHost' \in [Routes -> Hosts \cup {Nothing}]
    <3>. HIDE DEF loses
    <3>. QED
      BY <1>2, <1>3
  <2>. HIDE DEF gone, out, loses
  <2>. QED
    BY <1>1, <1>2, <1>5, <2>1, <2>2 DEF Inv, TypeOK
<1>8. NamesAgree'
  BY <1>2, <1>5 DEF Inv, AdmissionIsSound, NamesAgree
<1>9. \A q, n : Lives(q, n)' <=> Lives(q, n)
  BY <1>2, LivesUnchanged
<1>10. WatchIsSound'
  BY <1>2, <1>9 DEF Inv, AdmissionIsSound, WatchIsSound
<1>11. ServedIsKnown'
  BY <1>2, <1>5, <1>9 DEF Inv, AdmissionIsSound, ServedIsKnown
<1>12. ASSUME NEW r \in Routes, served'[r] # Nothing, served'[r].host \notin left'
       PROVE  /\ routeToHost'[r] = served'[r].host
              /\ \E c \in ToSet(hostToRoute'[served'[r].host]) : c.name = r
              /\ r \notin refused' => served'[r] \in ToSet(hostToRoute'[served'[r].host])
  <2>1. served'[r] = served[r] /\ served[r].host \in Hosts
    BY <1>3, <1>5, <1>12 DEF Objects
  <2>2. /\ routeToHost[r] = served[r].host
        /\ \E c \in ToSet(hostToRoute[served[r].host]) : c.name = r
        /\ r \notin refused => served[r] \in ToSet(hostToRoute[served[r].host])
    BY <1>2, <1>12, <2>1 DEF Inv, AdmissionIsSound, ClaimsAreSound
  <2>3. ~loses(r)
    BY <1>6, <1>12
  <2>4. served[r].host \notin gone
    BY <2>1, <2>2, <2>3
  <2>. HIDE DEF gone, loses
  <2>5. hostToRoute'[served[r].host] = hostToRoute[served[r].host]
    BY <1>2, <2>1, <2>4
  <2>6. routeToHost'[r] = routeToHost[r]
    BY <1>2, <2>3
  <2>. QED
    BY <1>5, <2>1, <2>2, <2>5, <2>6
<1>13. ClaimsAreSound'
  BY <1>12 DEF ClaimsAreSound
<1>. QED
  BY <1>7, <1>8, <1>10, <1>11, <1>13 DEF Inv, AdmissionIsSound

LEMMA StutterStep ==
    ASSUME Inv, UNCHANGED vars
    PROVE  Inv'
<1>1. UNCHANGED <<route, watching, sent, queue, events, store, hostToRoute, routeToHost,
                  allowed, served, refused, left, changes, selections, faults>>
  BY DEF vars, queueVars, admission
<1>2. \A q, n : Lives(q, n)' <=> Lives(q, n)
  BY <1>1, LivesUnchanged
<1>3. TypeOK' /\ NamesAgree' /\ ClaimsAreSound'
  BY <1>1 DEF Inv, TypeOK, AdmissionIsSound, NamesAgree, ClaimsAreSound
<1>4. WatchIsSound' /\ ServedIsKnown'
  BY <1>1, <1>2 DEF Inv, AdmissionIsSound, WatchIsSound, ServedIsKnown
<1>. QED
  BY <1>3, <1>4 DEF Inv, AdmissionIsSound

-------------------------------------------------------------------------------
(* Theorems *)

\* In every behaviour the router's maps have their types, the claims of a host are of
\* one namespace and of different paths, every event that waits has a key in the queue
\* and a state in its store, and the invariant that the rest follows from holds.
THEOREM AdmissionSound == Spec => [](TypeOK /\ AdmissionIsSound)
<1>1. Init => Inv
  BY InitSound
<1>2. Inv /\ [Next]_vars => Inv'
  <2>. SUFFICES ASSUME Inv, [Next]_vars PROVE Inv'
    OBVIOUS
  <2>1. CASE Users
    BY <2>1, UsersStep
  <2>2. CASE WatchBreaks
    BY <2>2, WatchBreaksStep
  <2>3. CASE Replace
    BY <2>3, ReplaceStep
  <2>4. CASE HandleEvent
    BY <2>4, HandleEventStep
  <2>5. CASE Resync
    BY <2>5, ResyncStep
  <2>6. CASE HandleRoute
    BY <2>6, HandleRouteStep
  <2>7. CASE HandleNamespaces
    BY <2>7, HandleNamespacesStep
  <2>8. CASE Restart \/ Panic
    BY <2>8, StartsStep
  <2>9. CASE UNCHANGED vars
    BY <2>9, StutterStep
  <2>. QED
    BY <2>1, <2>2, <2>3, <2>4, <2>5, <2>6, <2>7, <2>8, <2>9 DEF Next
<1>3. Inv => TypeOK /\ AdmissionIsSound
  BY DEF Inv
<1>. QED
  BY <1>1, <1>2, <1>3, PTL DEF Spec

THEOREM TypeCorrect == Spec => []TypeOK
<1>1. TypeOK /\ AdmissionIsSound => TypeOK
  OBVIOUS
<1>. QED
  BY <1>1, AdmissionSound, PTL

\* What the router serves at a host that no route has left is of one namespace, claimed
\* there, and two routes of which it was told are served at different paths.
LEMMA SoundIsOwned == TypeOK /\ AdmissionIsSound => HostsAreOwned
<1>. SUFFICES ASSUME TypeOK, AdmissionIsSound, NEW h \in Hosts \ left
              PROVE  OneNamespaceServes(h) /\ OneRouteServesAPath(h) /\ ServedIsClaimed(h)
  BY DEF HostsAreOwned
<1>. DEFINE claims == hostToRoute[h]
<1>1. claims \in Seq(Objects) /\ IsClaim(claims)
  BY DEF TypeOK
<1>2. \A r \in ServedAt(h) :
        /\ r \in Routes /\ served[r].name = r
        /\ \E c \in ToSet(claims) : c.name = r
        /\ r \notin refused => served[r] \in ToSet(claims)
  BY DEF ServedAt, AdmissionIsSound, ClaimsAreSound, NamesAgree
<1>. HIDE DEF claims
<1>3. \A c \in ToSet(claims) : \E i \in DOMAIN claims : claims[i] = c
  BY <1>1, ToSetOfSeq
<1>4. OneNamespaceServes(h)
  BY <1>1, <1>2, <1>3 DEF OneNamespaceServes, IsClaim
<1>5. OneRouteServesAPath(h)
  <2>. SUFFICES ASSUME NEW r \in ServedAt(h) \ refused, NEW s \in ServedAt(h) \ refused, r # s
                PROVE  served[r].path # served[s].path
    BY DEF OneRouteServesAPath
  <2>1. PICK i, j \in DOMAIN claims : claims[i] = served[r] /\ claims[j] = served[s]
    BY <1>2, <1>3
  <2>2. i # j
    BY <1>2, <2>1
  <2>. QED
    BY <1>1, <2>1, <2>2 DEF IsClaim
<1>6. ServedIsClaimed(h)
  BY <1>2 DEF ServedIsClaimed, claims
<1>. QED
  BY <1>4, <1>5, <1>6

\* Hosts are claimed by one namespace at a time (unique_host.go:126), in every behaviour.
THEOREM HostsOwned == Spec => []HostsAreOwned
BY AdmissionSound, SoundIsOwned, PTL
===============================================================================
