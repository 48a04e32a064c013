--------------------------- MODULE IngressIPs_proofs ---------------------------
(***************************************************************************)
(* Proofs about IngressIPs, for every finite set of services, every range,  *)
(* whatever the services ask for and any amount of interference.            *)
(***************************************************************************)
EXTENDS IngressIPs, FiniteSetTheorems, SequenceTheorems, WellFoundedInduction, TLAPS

Inv == TypeOK /\ IngressIsSound

Event == [svc : Services, obj : Objects]

-------------------------------------------------------------------------------
(* Sequences *)

LEMMA AppendFacts ==
    ASSUME NEW S, NEW q \in Seq(S), NEW x \in S, NEW r, r = Append(q, x)
    PROVE  /\ r \in Seq(S) /\ Len(r) = Len(q) + 1 /\ Len(q) \in Nat
           /\ DOMAIN q = 1..Len(q) /\ DOMAIN r = 1..(Len(q) + 1)
           /\ \A i \in DOMAIN q : r[i] = q[i]
           /\ r[Len(q) + 1] = x
BY AppendProperties, LenProperties

LEMMA TailFacts ==
    ASSUME NEW S, NEW q \in Seq(S), q # <<>>, NEW r, r = Tail(q)
    PROVE  /\ r \in Seq(S) /\ Len(r) = Len(q) - 1 /\ Len(q) \in Nat \ {0}
           /\ DOMAIN q = 1..Len(q) /\ DOMAIN r = 1..(Len(q) - 1)
           /\ q[1] \in S /\ Head(q) = q[1]
           /\ \A i \in DOMAIN r : r[i] = q[i + 1]
<1>1. Len(q) \in Nat \ {0} /\ Head(q) = q[1]
  BY EmptySeq
<1>. QED
  BY <1>1, HeadTailProperties, LenProperties

LEMMA RemoveFacts ==
    ASSUME NEW S, NEW q \in Seq(S), NEW i \in DOMAIN q, NEW r, r = RemoveAt(q, i)
    PROVE  /\ r \in Seq(S) /\ Len(r) = Len(q) - 1 /\ Len(q) \in Nat
           /\ DOMAIN q = 1..Len(q) /\ DOMAIN r = 1..(Len(q) - 1)
           /\ q[i] \in S
           /\ \A j \in DOMAIN r : r[j] = IF j < i THEN q[j] ELSE q[j + 1]
<1>. DEFINE u == SubSeq(q, 1, i - 1)
            v == SubSeq(q, i + 1, Len(q))
<1>1. Len(q) \in Nat /\ DOMAIN q = 1..Len(q) /\ i \in 1..Len(q) /\ \A j \in 1..Len(q) : q[j] \in S
  BY LenProperties, ElementOfSeq
<1>2. /\ u \in Seq(S) /\ Len(u) = i - 1
      /\ \A j \in 1..(i - 1) : u[j] = q[j]
  <2>1. \A j \in 1..(i - 1) : q[j] \in S
    BY <1>1
  <2>2. /\ u \in Seq(S)
        /\ Len(u) = IF 1 <= i - 1 THEN (i - 1) - 1 + 1 ELSE 0
        /\ \A j \in 1..((i - 1) - 1 + 1) : u[j] = q[1 + j - 1]
    BY <1>1, <2>1, SubSeqProperties
  <2>. QED
    BY <1>1, <2>2
<1>3. /\ v \in Seq(S) /\ Len(v) = Len(q) - i
      /\ \A j \in 1..(Len(q) - i) : v[j] = q[i + j]
  <2>1. \A j \in (i + 1)..Len(q) : q[j] \in S
    BY <1>1
  <2>2. /\ v \in Seq(S)
        /\ Len(v) = IF i + 1 <= Len(q) THEN Len(q) - (i + 1) + 1 ELSE 0
        /\ \A j \in 1..(Len(q) - (i + 1) + 1) : v[j] = q[(i + 1) + j - 1]
    BY <1>1, <2>1, SubSeqProperties
  <2>. HIDE DEF u, v
  <2>3. Len(v) = Len(q) - i
    BY <1>1, <2>2
  <2>4. ASSUME NEW j \in 1..(Len(q) - i) PROVE v[j] = q[i + j]
    <3>1. j \in 1..(Len(q) - (i + 1) + 1) /\ (i + 1) + j - 1 = i + j
      BY <1>1
    <3>. QED
      BY <2>2, <3>1
  <2>. QED
    BY <2>2, <2>3, <2>4
<1>4. r = u \o v
  BY DEF RemoveAt
<1>5. /\ r \in Seq(S) /\ Len(r) = Len(u) + Len(v)
      /\ \A j \in 1..(Len(u) + Len(v)) : r[j] = IF j <= Len(u) THEN u[j] ELSE v[j - Len(u)]
  <2>. HIDE DEF u, v
  <2>1. u \in Seq(S) /\ v \in Seq(S)
    BY <1>2, <1>3
  <2>2. u \o v \in Seq(S) /\ Len(u \o v) = Len(u) + Len(v)
    BY <2>1, ConcatProperties
  <2>3. \A j \in 1..(Len(u) + Len(v)) :
          (u \o v)[j] = IF j <= Len(u) THEN u[j] ELSE v[j - Len(u)]
    BY <2>1, ConcatProperties
  <2>. QED
    BY <1>4, <2>2, <2>3
<1>6. DOMAIN r = 1..(Len(q) - 1) /\ Len(r) = Len(q) - 1
  BY <1>1, <1>2, <1>3, <1>5, LenProperties
<1>7. ASSUME NEW j \in DOMAIN r PROVE r[j] = IF j < i THEN q[j] ELSE q[j + 1]
  <2>. HIDE DEF u, v
  <2>1. r[j] = IF j <= i - 1 THEN u[j] ELSE v[j - (i - 1)]
    BY <1>1, <1>2, <1>3, <1>5, <1>6
  <2>2. CASE j < i
    BY <1>1, <1>2, <1>6, <2>1, <2>2
  <2>3. CASE ~(j < i)
    <3>1. j - (i - 1) \in 1..(Len(q) - i) /\ i + (j - (i - 1)) = j + 1
      BY <1>1, <1>6, <2>3
    <3>. QED
      BY <1>1, <1>3, <1>6, <2>1, <2>3, <3>1
  <2>. QED
    BY <2>2, <2>3
<1>. QED
  BY <1>1, <1>5, <1>6, <1>7

\* The changes of a service that found the range full.
Marked(q, s) == {i \in DOMAIN q : q[i].svc = s /\ q[i].flagged}

Alone(q, s) == \A i, j \in Marked(q, s) : i = j

LEMMA MarkedAppend ==
    ASSUME NEW q \in Seq(Changes), NEW x \in Changes, NEW r, r = Append(q, x), NEW s
    PROVE  /\ ~(x.svc = s /\ x.flagged) =>
                (Marked(r, s) = {} <=> Marked(q, s) = {}) /\ (Alone(q, s) => Alone(r, s))
           /\ x.svc = s /\ x.flagged =>
                Marked(r, s) # {} /\ (Marked(q, s) = {} => Alone(r, s))
<1>1. /\ Len(q) \in Nat /\ DOMAIN q = 1..Len(q) /\ DOMAIN r = 1..(Len(q) + 1)
      /\ \A i \in DOMAIN q : r[i] = q[i]
      /\ r[Len(q) + 1] = x
  BY AppendFacts
<1>2. Marked(r, s) = Marked(q, s) \cup (IF x.svc = s /\ x.flagged THEN {Len(q) + 1} ELSE {})
  BY <1>1 DEF Marked
<1>. QED
  BY <1>2 DEF Alone

LEMMA MarkedTail ==
    ASSUME NEW q \in Seq(Changes), q # <<>>, NEW r, r = Tail(q), NEW s
    PROVE  /\ ~(q[1].svc = s /\ q[1].flagged) =>
                (Marked(r, s) = {} <=> Marked(q, s) = {}) /\ (Alone(q, s) => Alone(r, s))
           /\ q[1].svc = s /\ q[1].flagged =>
                Marked(q, s) # {} /\ (Alone(q, s) => Marked(r, s) = {} /\ Alone(r, s))
<1>1. /\ Len(q) \in Nat \ {0} /\ DOMAIN q = 1..Len(q) /\ DOMAIN r = 1..(Len(q) - 1)
      /\ \A i \in DOMAIN r : r[i] = q[i + 1]
  BY TailFacts
<1>2. \A i \in Marked(r, s) : i \in Nat \ {0} /\ i + 1 \in Marked(q, s)
  BY <1>1 DEF Marked
<1>3. \A i \in Marked(q, s) : i = 1 \/ (i - 1 \in Marked(r, s) /\ i \in Nat)
  BY <1>1 DEF Marked
<1>4. 1 \in Marked(q, s) <=> (q[1].svc = s /\ q[1].flagged)
  BY <1>1 DEF Marked
<1>. QED
  BY <1>2, <1>3, <1>4 DEF Alone

LEMMA MarkedRemove ==
    ASSUME NEW q \in Seq(Changes), NEW k \in DOMAIN q, NEW r, r = RemoveAt(q, k), NEW s
    PROVE  /\ ~(q[k].svc = s /\ q[k].flagged) =>
                (Marked(r, s) = {} <=> Marked(q, s) = {}) /\ (Alone(q, s) => Alone(r, s))
           /\ q[k].svc = s /\ q[k].flagged =>
                Marked(q, s) # {} /\ (Alone(q, s) => Marked(r, s) = {} /\ Alone(r, s))
<1>1. /\ Len(q) \in Nat /\ DOMAIN q = 1..Len(q) /\ DOMAIN r = 1..(Len(q) - 1) /\ k \in 1..Len(q)
      /\ \A i \in DOMAIN r : r[i] = IF i < k THEN q[i] ELSE q[i + 1]
  BY RemoveFacts
<1>2. \A i \in Marked(r, s) : i \in Nat /\ IF i < k THEN i \in Marked(q, s) ELSE i + 1 \in Marked(q, s)
  BY <1>1 DEF Marked
<1>3. \A i \in Marked(q, s) :
        i \in Nat /\ (i = k \/ (i < k /\ i \in Marked(r, s)) \/ (i > k /\ i - 1 \in Marked(r, s)))
  <2>. TAKE i \in Marked(q, s)
  <2>1. i \in 1..Len(q) /\ q[i].svc = s /\ q[i].flagged
    BY <1>1 DEF Marked
  <2>2. CASE i < k
    <3>1. i \in DOMAIN r /\ r[i] = q[i]
      BY <1>1, <2>1, <2>2
    <3>. QED
      BY <2>1, <2>2, <3>1 DEF Marked
  <2>3. CASE i > k
    <3>1. i - 1 \in DOMAIN r /\ r[i - 1] = q[i]
      BY <1>1, <2>1, <2>3
    <3>. QED
      BY <2>1, <2>3, <3>1 DEF Marked
  <2>. QED
    BY <1>1, <2>1, <2>2, <2>3
<1>4. k \in Marked(q, s) <=> (q[k].svc = s /\ q[k].flagged)
  BY <1>1 DEF Marked
<1>5. k \in Nat
  BY <1>1
<1>. QED
  BY <1>2, <1>3, <1>4, <1>5 DEF Alone

-------------------------------------------------------------------------------
(* The types *)

LEMMA ConstantFacts ==
    /\ Outside \notin IpRange /\ None \notin IpRange /\ None # Outside /\ None \notin Services
    /\ Addresses = IpRange \cup {Outside} /\ None \notin Addresses
    /\ MaxInterference \in Nat /\ MaxLag \in Nat
BY NamesAssumption, BoundsAssumption DEF Addresses

LEMMA ObjectFacts ==
    /\ Absent \in Objects /\ New(None) \in Objects /\ New(Outside) \in Objects
    /\ ~Absent.exists /\ Absent.ip = None /\ Absent.external = {}
    /\ New(Outside).external = {}
    /\ New(None).exists /\ New(None).ip = None /\ New(None).external = {}
    /\ \A o \in Objects :
         /\ AllocationOf(o) \in Addresses \cup {None}
         /\ AllocationOf(o) \in IpRange => o.exists /\ o.lb /\ o.ip = AllocationOf(o)
         /\ o.ip \in Addresses \cup {None} /\ o.external \in SUBSET Addresses
         /\ o.exists \in BOOLEAN /\ o.lb \in BOOLEAN
         /\ ~o.exists => AllocationOf(o) = None
         /\ o.ip = None => AllocationOf(o) = None
BY ConstantFacts DEF Objects, Absent, New, AllocationOf

LEMMA JobFacts ==
    ASSUME TypeOK
    PROVE  /\ Working => /\ job \in [change : Changes, ip : Addresses \cup {None},
                                     fresh : BOOLEAN, plan : Seq(Steps) \ {<<>>}]
                         /\ job.change \in Changes /\ job.change.svc \in Services
                         /\ Todo = Head(job.plan)
           /\ ~Working => job = Idle /\ job.change.svc = None /\ Todo = "nothing"
                          /\ job.change.svc \notin Services
           /\ Working <=> job.change.svc # None
<1>1. NoChange \notin Changes
  BY ConstantFacts DEF NoChange, Changes
<1>. QED
  BY <1>1, ConstantFacts DEF TypeOK, Working, Todo, Idle, NoChange, Changes

LEMMA PlanFacts ==
    ASSUME NEW p \in Plans
    PROVE  /\ p \in Seq(Steps) \ {<<>>} /\ Head(p) \in Steps
           /\ Head(p) = "remove_external" => Tail(p) \in Plans /\ Head(Tail(p)) = "clear_status"
           /\ Head(p) = "clear_status" => Tail(p) \in {<<"allocate">>, <<"forget">>}
           /\ Head(p) = "set_status" => Tail(p) = <<"add_external">>
           /\ Head(p) = "add_external" => Tail(p) = <<>>
<1>1. /\ \A a \in Steps : <<a>> \in Seq(Steps) \ {<<>>} /\ Head(<<a>>) = a /\ Tail(<<a>>) = <<>>
      /\ \A a, b \in Steps : /\ <<a, b>> \in Seq(Steps) \ {<<>>} /\ Head(<<a, b>>) = a
                            /\ Tail(<<a, b>>) = <<b>>
      /\ \A a, b, c \in Steps : /\ <<a, b, c>> \in Seq(Steps) \ {<<>>}
                               /\ Head(<<a, b, c>>) = a /\ Tail(<<a, b, c>>) = <<b, c>>
  OBVIOUS
<1>2. /\ "remove_external" \in Steps /\ "clear_status" \in Steps /\ "set_status" \in Steps
      /\ "add_external" \in Steps /\ "allocate" \in Steps /\ "forget" \in Steps
  BY DEF Steps, Writes
<1>3. /\ <<"clear_status", "allocate">> \in Plans /\ <<"clear_status", "forget">> \in Plans
  BY DEF Plans
<1>4. CASE p = <<"remove_external", "clear_status", "allocate">>
  <2>1. /\ p \in Seq(Steps) \ {<<>>} /\ Head(p) = "remove_external"
        /\ Tail(p) = <<"clear_status", "allocate">> /\ Head(Tail(p)) = "clear_status"
    BY <1>1, <1>2, <1>4
  <2>. QED
    BY <1>2, <1>3, <2>1
<1>5. CASE p = <<"clear_status", "allocate">>
  <2>1. /\ p \in Seq(Steps) \ {<<>>} /\ Head(p) = "clear_status"
        /\ Tail(p) = <<"allocate">> /\ Head(Tail(p)) = "allocate"
    BY <1>1, <1>2, <1>5
  <2>. QED
    BY <1>2, <1>3, <2>1
<1>6. CASE p = <<"allocate">>
  <2>1. /\ p \in Seq(Steps) \ {<<>>} /\ Head(p) = "allocate"
        /\ Tail(p) = <<>>
    BY <1>1, <1>2, <1>6
  <2>. QED
    BY <1>2, <1>3, <2>1
<1>7. CASE p = <<"set_status", "add_external">>
  <2>1. /\ p \in Seq(Steps) \ {<<>>} /\ Head(p) = "set_status"
        /\ Tail(p) = <<"add_external">> /\ Head(Tail(p)) = "add_external"
    BY <1>1, <1>2, <1>7
  <2>. QED
    BY <1>2, <1>3, <2>1
<1>8. CASE p = <<"add_external">>
  <2>1. /\ p \in Seq(Steps) \ {<<>>} /\ Head(p) = "add_external"
        /\ Tail(p) = <<>>
    BY <1>1, <1>2, <1>8
  <2>. QED
    BY <1>2, <1>3, <2>1
<1>9. CASE p = <<"remove_external", "clear_status", "forget">>
  <2>1. /\ p \in Seq(Steps) \ {<<>>} /\ Head(p) = "remove_external"
        /\ Tail(p) = <<"clear_status", "forget">> /\ Head(Tail(p)) = "clear_status"
    BY <1>1, <1>2, <1>9
  <2>. QED
    BY <1>2, <1>3, <2>1
<1>10. CASE p = <<"clear_status", "forget">>
  <2>1. /\ p \in Seq(Steps) \ {<<>>} /\ Head(p) = "clear_status"
        /\ Tail(p) = <<"forget">> /\ Head(Tail(p)) = "forget"
    BY <1>1, <1>2, <1>10
  <2>. QED
    BY <1>2, <1>3, <2>1
<1>11. CASE p = <<"forget">>
  <2>1. /\ p \in Seq(Steps) \ {<<>>} /\ Head(p) = "forget"
        /\ Tail(p) = <<>>
    BY <1>1, <1>2, <1>11
  <2>. QED
    BY <1>2, <1>3, <2>1
<1>. QED
  BY <1>4, <1>5, <1>6, <1>7, <1>8, <1>9, <1>10, <1>11 DEF Plans

-------------------------------------------------------------------------------
(* The events of a service *)

LEMMA FollowsNext ==
    ASSUME \A s \in Services : Follows(s)'
    PROVE  EventsFollow'
BY DEF EventsFollow

\* Without an event the informer knows what is stored.
LEMMA NoEvent ==
    ASSUME TypeOK, EventsFollow, NEW s \in Services, \A i \in DOMAIN events : events[i].svc # s
    PROVE  cache[s] = service[s]
<1>1. Len(events) \in Nat /\ DOMAIN events = 1..Len(events)
  BY LenProperties DEF TypeOK
<1>2. 0 \in 0..Len(events) /\ Tells(s, 0) /\ Told(s, 0) = cache[s]
  BY <1>1 DEF Tells, Told
<1>3. \A j \in (0 + 1)..Len(events) : ~Tells(s, j)
  BY <1>1 DEF Tells
<1>. QED
  BY <1>2, <1>3 DEF EventsFollow, Follows

LEMMA StoreFollows ==
    ASSUME TypeOK, EventsFollow, NEW s \in Services, NEW obj \in Objects, Store(s, obj),
           UNCHANGED cache, ~service[s].exists => obj.ip = None
    PROVE  /\ service' \in [Services -> Objects] /\ service'[s] = obj
           /\ \A q \in Services \ {s} : service'[q] = service[q]
           /\ events' \in Seq(Event)
           /\ \A i \in DOMAIN events : \E j \in DOMAIN events' : events'[j] = events[i]
           /\ \E i \in DOMAIN events' : events'[i].svc = s
           /\ EventsFollow'
<1>. DEFINE n == Len(events)
            x == [svc |-> s, obj |-> obj]
<1>1. x \in Event /\ events \in Seq(Event) /\ events' = Append(events, x)
  BY DEF TypeOK, Store, Event
<1>2. /\ events' \in Seq(Event) /\ Len(events') = n + 1 /\ n \in Nat
      /\ DOMAIN events = 1..n /\ DOMAIN events' = 1..(n + 1)
      /\ \A i \in 1..n : events'[i] = events[i]
      /\ events'[n + 1] = x
  <2>. HIDE DEF x
  <2>. QED
    BY <1>1, AppendFacts
<1>3. /\ service' \in [Services -> Objects] /\ service'[s] = obj
      /\ \A q \in Services \ {s} : service'[q] = service[q]
  BY DEF TypeOK, Store
<1>4. ASSUME NEW q \in Services PROVE Follows(q)'
  <2>1. \A i \in 0..n : (Tells(q, i)' <=> Tells(q, i)) /\ Told(q, i)' = Told(q, i)
    BY <1>2 DEF Tells, Told
  <2>. PICK m \in Nat : m = n + 1
    BY <1>2
  <2>2. (Tells(q, m)' <=> q = s) /\ Told(q, m)' = obj
    BY <1>2 DEF Tells, Told
  <2>3. ASSUME NEW i \in 0..(n + 1), Tells(q, i)', \A j \in (i + 1)..(n + 1) : ~Tells(q, j)'
        PROVE  Told(q, i)' = service'[q]
    <3>1. CASE i = n + 1
      BY <1>3, <2>2, <2>3, <3>1
    <3>2. CASE i \in 0..n
      <4>1. n + 1 \in (i + 1)..(n + 1)
        BY <1>2, <3>2
      <4>2. q # s
        BY <2>2, <2>3, <4>1
      <4>3. \A j \in (i + 1)..n : ~Tells(q, j)
        BY <1>2, <2>1, <2>3, <3>2
      <4>. QED
        BY <1>3, <2>1, <2>3, <3>2, <4>2, <4>3 DEF EventsFollow, Follows
    <3>. QED
      BY <1>2, <3>1, <3>2
  <2>4. ASSUME NEW i \in 0..(n + 1), Tells(q, i)', ~Told(q, i)'.exists,
               NEW k \in (i + 1)..(n + 1), Tells(q, k)',
               \A j \in (i + 1)..(k - 1) : ~Tells(q, j)'
        PROVE  Told(q, k)'.ip = None
    <3>1. i \in 0..n /\ Tells(q, i) /\ ~Told(q, i).exists
      BY <1>2, <2>1, <2>4
    <3>2. \A j \in (i + 1)..(k - 1) : ~Tells(q, j)
      BY <1>2, <2>1, <2>4
    <3>3. CASE k \in 0..n
      BY <1>2, <2>1, <2>4, <3>1, <3>2, <3>3 DEF EventsFollow, Follows
    <3>4. CASE k = n + 1
      <4>1. q = s
        BY <2>2, <2>4, <3>4
      <4>2. \A j \in (i + 1)..n : ~Tells(q, j)
        BY <1>2, <3>2, <3>4
      <4>3. Told(q, i) = service[q]
        BY <3>1, <4>2 DEF EventsFollow, Follows
      <4>. QED
        BY <2>2, <3>1, <3>4, <4>1, <4>3
    <3>. QED
      BY <1>2, <3>3, <3>4
  <2>. QED
    BY <1>2, <2>3, <2>4 DEF Follows
<1>5. /\ \A i \in DOMAIN events : \E j \in DOMAIN events' : events'[j] = events[i]
      /\ \E i \in DOMAIN events' : events'[i].svc = s
  <2>1. n + 1 \in DOMAIN events' /\ \A i \in 1..n : i \in DOMAIN events'
    BY <1>2
  <2>. QED
    BY <1>2, <2>1
<1>. QED
  BY <1>2, <1>3, <1>4, <1>5, FollowsNext

LEMMA DeliverFollows ==
    ASSUME TypeOK, EventsFollow, Deliver
    PROVE  \E e \in Event :
             /\ e = events[1] /\ 1 \in DOMAIN events
             /\ cache' \in [Services -> Objects] /\ cache'[e.svc] = e.obj
             /\ \A q \in Services \ {e.svc} : cache'[q] = cache[q]
             /\ events' \in Seq(Event)
             /\ \A i \in DOMAIN events :
                  events[i] = e \/ \E j \in DOMAIN events' : events'[j] = events[i]
             /\ ~cache[e.svc].exists => e.obj.ip = None
             /\ queue' = Append(queue, ChangeOf(e.svc, cache[e.svc], e.obj))
             /\ EventsFollow'
<1>. DEFINE n == Len(events)
            e == events[1]
<1>1. events \in Seq(Event) /\ events # <<>> /\ events' = Tail(events) /\ service' = service
  BY DEF TypeOK, Event, Deliver, storeVars
<1>2. /\ events' \in Seq(Event) /\ Len(events') = n - 1 /\ n \in Nat \ {0}
      /\ DOMAIN events = 1..n /\ DOMAIN events' = 1..(n - 1)
      /\ e \in Event /\ Head(events) = e
      /\ \A i \in 1..(n - 1) : events'[i] = events[i + 1]
  BY <1>1, TailFacts
<1>3. /\ cache' = [cache EXCEPT ![e.svc] = e.obj]
      /\ queue' = Append(queue, ChangeOf(e.svc, cache[e.svc], e.obj))
  BY <1>2 DEF Deliver
<1>4. e.svc \in Services /\ e.obj \in Objects
  BY <1>2 DEF Event
<1>. HIDE DEF e
<1>5. /\ cache' \in [Services -> Objects] /\ cache'[e.svc] = e.obj
      /\ \A q \in Services \ {e.svc} : cache'[q] = cache[q]
  BY <1>3, <1>4 DEF TypeOK
<1>6. /\ Told(e.svc, 1) = e.obj /\ Tells(e.svc, 1) /\ \A q \in Services \ {e.svc} : ~Tells(q, 1)
      /\ \A q \in Services : Tells(q, 0) /\ Told(q, 0) = cache[q] /\ Told(q, 0)' = cache'[q]
                             /\ Tells(q, 0)'
  BY DEF Told, Tells, e
<1>7. \A q \in Services : \A i \in 1..(n - 1) :
         (Tells(q, i)' <=> Tells(q, i + 1)) /\ Told(q, i)' = Told(q, i + 1)
  BY <1>2 DEF Told, Tells
<1>8. ~cache[e.svc].exists => e.obj.ip = None
  <2>1. 1 \in (0 + 1)..n /\ 0 \in 0..n /\ \A j \in (0 + 1)..(1 - 1) : ~Tells(e.svc, j)
    BY <1>2
  <2>. QED
    BY <1>4, <1>6, <2>1 DEF EventsFollow, Follows
<1>9. ASSUME NEW q \in Services PROVE Follows(q)'
  <2>1. ASSUME NEW i \in 0..(n - 1), Tells(q, i)'
        PROVE  \E o \in 0..n :
                 /\ Tells(q, o) /\ Told(q, o) = Told(q, i)' /\ o <= i + 1
                 /\ \A j \in (o + 1)..n : j - 1 \in (i + 1)..(n - 1) \/ ~Tells(q, j)
    <3>1. CASE i # 0
      BY <1>2, <1>7, <2>1, <3>1
    <3>2. CASE i = 0 /\ q = e.svc
      <4>1. /\ 1 \in 0..n /\ Tells(q, 1) /\ Told(q, 1) = Told(q, i)' /\ 1 <= i + 1
            /\ \A j \in (1 + 1)..n : j - 1 \in (i + 1)..(n - 1)
        BY <1>2, <1>5, <1>6, <3>2
      <4>. QED
        BY <4>1
    <3>3. CASE i = 0 /\ q # e.svc
      <4>1. /\ 0 \in 0..n /\ Tells(q, 0) /\ Told(q, 0) = Told(q, i)' /\ 0 <= i + 1
        BY <1>2, <1>5, <1>6, <3>3
      <4>2. \A j \in (0 + 1)..n : j - 1 \in (i + 1)..(n - 1) \/ ~Tells(q, j)
        BY <1>2, <1>6, <3>3
      <4>. QED
        BY <4>1, <4>2
    <3>. QED
      BY <3>1, <3>2, <3>3
  <2>2. ASSUME NEW i \in 0..(n - 1), Tells(q, i)', \A j \in (i + 1)..(n - 1) : ~Tells(q, j)'
        PROVE  Told(q, i)' = service'[q]
    <3>1. PICK o \in 0..n :
                 /\ Tells(q, o) /\ Told(q, o) = Told(q, i)' /\ o <= i + 1
                 /\ \A j \in (o + 1)..n : j - 1 \in (i + 1)..(n - 1) \/ ~Tells(q, j)
      BY <2>1, <2>2
    <3>2. ASSUME NEW j \in (o + 1)..n PROVE ~Tells(q, j)
      <4>1. CASE j - 1 \in (i + 1)..(n - 1)
        <5>1. j - 1 \in 1..(n - 1) /\ (j - 1) + 1 = j
          BY <1>2, <4>1
        <5>. QED
          BY <1>7, <2>2, <4>1, <5>1
      <4>. QED
        BY <3>1, <4>1
    <3>. QED
      BY <1>1, <3>1, <3>2 DEF EventsFollow, Follows
  <2>3. ASSUME NEW i \in 0..(n - 1), Tells(q, i)', ~Told(q, i)'.exists,
               NEW k \in (i + 1)..(n - 1), Tells(q, k)',
               \A j \in (i + 1)..(k - 1) : ~Tells(q, j)'
        PROVE  Told(q, k)'.ip = None
    <3>1. PICK o \in 0..n :
                 /\ Tells(q, o) /\ Told(q, o) = Told(q, i)' /\ o <= i + 1
                 /\ \A j \in (o + 1)..n : j - 1 \in (i + 1)..(n - 1) \/ ~Tells(q, j)
      BY <2>1, <2>3
    <3>2. k \in 1..(n - 1) /\ k + 1 \in (o + 1)..n /\ Tells(q, k + 1) /\ Told(q, k)' = Told(q, k + 1)
      BY <1>2, <1>7, <2>3, <3>1
    <3>3. ASSUME NEW j \in (o + 1)..((k + 1) - 1) PROVE ~Tells(q, j)
      <4>1. j \in (o + 1)..n
        BY <1>2, <3>2
      <4>2. CASE j - 1 \in (i + 1)..(n - 1)
        <5>1. j - 1 \in 1..(n - 1) /\ (j - 1) + 1 = j /\ j - 1 \in (i + 1)..(k - 1)
          BY <1>2, <3>2, <4>2
        <5>. QED
          BY <1>7, <2>3, <5>1
      <4>. QED
        BY <3>1, <4>1, <4>2
    <3>. QED
      BY <2>3, <3>1, <3>2, <3>3 DEF EventsFollow, Follows
  <2>. QED
    BY <1>2, <2>2, <2>3 DEF Follows
<1>10. \A i \in DOMAIN events :
          events[i] = e \/ \E j \in DOMAIN events' : events'[j] = events[i]
  <2>1. \A i \in 1..n : i = 1 \/ (i - 1 \in 1..(n - 1) /\ (i - 1) + 1 = i)
    BY <1>2
  <2>. QED
    BY <1>2, <2>1 DEF e
<1>11. 1 \in DOMAIN events
  BY <1>2
<1>. QED
  BY <1>2, <1>3, <1>5, <1>8, <1>9, <1>10, <1>11, FollowsNext DEF e

-------------------------------------------------------------------------------
(* What is still to be processed *)

LEMMA AppendKeeps ==
    ASSUME NEW S, NEW q \in Seq(S), NEW x \in S, NEW r, r = Append(q, x)
    PROVE  /\ \A i \in DOMAIN q : \E j \in DOMAIN r : r[j] = q[i]
           /\ \E j \in DOMAIN r : r[j] = x
           /\ \A j \in DOMAIN r : r[j] = x \/ \E i \in DOMAIN q : q[i] = r[j]
           /\ r \in Seq(S)
<1>1. /\ r \in Seq(S) /\ Len(q) \in Nat /\ DOMAIN q = 1..Len(q) /\ DOMAIN r = 1..(Len(q) + 1)
      /\ \A i \in DOMAIN q : r[i] = q[i]
      /\ r[Len(q) + 1] = x
  BY AppendFacts
<1>2. Len(q) + 1 \in DOMAIN r /\ \A i \in DOMAIN q : i \in DOMAIN r
  BY <1>1
<1>3. \A j \in DOMAIN r : j = Len(q) + 1 \/ j \in DOMAIN q
  BY <1>1
<1>. QED
  BY <1>1, <1>2, <1>3

LEMMA QueueKeeps ==
    ASSUME queue \in Seq(Changes), NEW x \in Changes, queue' = Append(queue, x)
    PROVE  /\ queue' \in Seq(Changes)
           /\ \A i \in DOMAIN queue : \E j \in DOMAIN queue' : queue'[j] = queue[i]
           /\ \E j \in DOMAIN queue' : queue'[j] = x
<1>1. PICK r : r = Append(queue, x)
  OBVIOUS
<1>2. \A i \in DOMAIN queue : \E j \in DOMAIN r : r[j] = queue[i]
  BY <1>1, AppendKeeps
<1>3. \E j \in DOMAIN r : r[j] = x
  BY <1>1, AppendKeeps
<1>4. r \in Seq(Changes)
  BY <1>1, AppendKeeps
<1>. QED
  BY <1>1, <1>2, <1>3, <1>4

LEMMA TailKeeps ==
    ASSUME NEW S, NEW q \in Seq(S), q # <<>>, NEW r, r = Tail(q)
    PROVE  /\ \A i \in DOMAIN q : q[i] = q[1] \/ \E j \in DOMAIN r : r[j] = q[i]
           /\ \A j \in DOMAIN r : \E i \in DOMAIN q : q[i] = r[j]
           /\ 1 \in DOMAIN q
<1>1. /\ Len(q) \in Nat \ {0} /\ DOMAIN q = 1..Len(q) /\ DOMAIN r = 1..(Len(q) - 1)
      /\ \A i \in DOMAIN r : r[i] = q[i + 1]
  BY TailFacts
<1>2. \A i \in DOMAIN q : i = 1 \/ (i - 1 \in DOMAIN r /\ (i - 1) + 1 = i)
  BY <1>1
<1>3. \A j \in DOMAIN r : j + 1 \in DOMAIN q
  BY <1>1
<1>4. 1 \in DOMAIN q
  BY <1>1
<1>. QED
  BY <1>1, <1>2, <1>3, <1>4

LEMMA RemoveKeeps ==
    ASSUME NEW S, NEW q \in Seq(S), NEW k \in DOMAIN q, NEW r, r = RemoveAt(q, k)
    PROVE  /\ \A i \in DOMAIN q : q[i] = q[k] \/ \E j \in DOMAIN r : r[j] = q[i]
           /\ \A j \in DOMAIN r : \E i \in DOMAIN q : q[i] = r[j]
<1>1. /\ Len(q) \in Nat /\ DOMAIN q = 1..Len(q) /\ DOMAIN r = 1..(Len(q) - 1)
      /\ \A j \in DOMAIN r : r[j] = IF j < k THEN q[j] ELSE q[j + 1]
  BY RemoveFacts
<1>2. \A j \in DOMAIN r : j \in DOMAIN q /\ j + 1 \in DOMAIN q
  BY <1>1
<1>3. ASSUME NEW i \in DOMAIN q, i # k PROVE \E j \in DOMAIN r : r[j] = q[i]
  <2>1. CASE i < k
    <3>1. i \in DOMAIN r
      BY <1>1, <2>1
    <3>. QED
      BY <1>1, <2>1, <3>1
  <2>2. CASE i > k
    <3>1. i - 1 \in DOMAIN r /\ ~(i - 1 < k) /\ (i - 1) + 1 = i
      BY <1>1, <2>2
    <3>. QED
      BY <1>1, <3>1
  <2>. QED
    BY <1>1, <1>3, <2>1, <2>2
<1>. QED
  BY <1>1, <1>2, <1>3

\* A step that leaves what is to be processed of s where it is, or delayed no more.
Undisturbed(s) ==
    /\ \A i \in DOMAIN events : events[i].svc = s =>
         \E j \in DOMAIN events' : events'[j] = events[i]
    /\ \A i \in DOMAIN queue : queue[i].svc = s =>
         \E j \in DOMAIN queue' : queue'[j] = queue[i]
    /\ \A i \in DOMAIN delayed : delayed[i].svc = s =>
         \/ \E j \in DOMAIN delayed' : delayed'[j] = delayed[i]
         \/ \E j \in DOMAIN queue' :
              /\ queue'[j].svc = delayed[i].svc /\ queue'[j].update = delayed[i].update

LEMMA StillToDo ==
    ASSUME NEW s, Undisturbed(s)
    PROVE  /\ Edited(s) => Edited(s)'
           /\ Pending(s) => Pending(s)' \/ job.change.svc = s
           /\ (cache'[s] = cache[s] /\ IsOvertaken(s)) => IsOvertaken(s)'
<1>1. Edited(s) => Edited(s)'
  BY DEF Undisturbed, Edited
<1>2. Pending(s) => Pending(s)' \/ job.change.svc = s
  BY DEF Undisturbed, Pending
<1>3. (cache'[s] = cache[s] /\ IsOvertaken(s)) => IsOvertaken(s)'
  BY DEF Undisturbed, IsOvertaken, HasAddress
<1>. QED
  BY <1>1, <1>2, <1>3

LEMMA EditedIsPending == \A s : Edited(s) => Pending(s)
BY DEF Edited, Pending

\* What is recorded of a service whose state a step leaves alone.
LEMMA OthersRecorded ==
    ASSUME NEW s \in Services, IsRecorded(s), Undisturbed(s), service'[s] = service[s],
           UNCHANGED <<synced, disputed>>,
           job.change.svc = s => job'.change = job.change,
           \A a \in IpRange : local.owner[a] = s => local'.owner[a] = s
    PROVE  IsRecorded(s)'
<1>1. Pending(s) => Pending(s)'
  <2>1. job.change.svc = s => Pending(s)'
    BY DEF Pending
  <2>. QED
    BY <2>1, StillToDo
<1>2. Edited(s) => Edited(s)'
  BY StillToDo
<1>3. AllocationOf(service'[s]) = AllocationOf(service[s])
  OBVIOUS
<1>. QED
  BY <1>1, <1>2, <1>3 DEF IsRecorded

\* Nothing is said of a service with an edit to be processed, or without an address.
LEMMA EditedRecorded ==
    ASSUME NEW s, Edited(s)' \/ AllocationOf(service'[s]) \notin IpRange
    PROVE  IsRecorded(s)'
<1>1. Edited(s)' => Pending(s)'
  BY DEF Edited, Pending
<1>. QED
  BY <1>1 DEF IsRecorded

LEMMA SameEvents ==
    ASSUME UNCHANGED <<service, events, cache>>, EventsFollow
    PROVE  EventsFollow'
BY DEF EventsFollow, Follows, Tells, Told

LEMMA QueueAppend ==
    ASSUME queue \in Seq(Changes), QueueIsSound, NEW x \in Changes,
           queue' = Append(queue, x),
           ~x.update => x.old = None,
           x.named \/ ~HasAddress(cache'[x.svc]),
           \A s \in Services : HasAddress(cache'[s]) =>
              HasAddress(cache[s]) \/ (x.svc = s /\ x.update)
    PROVE  QueueIsSound'
<1>. DEFINE n == Len(queue)
<1>1. /\ n \in Nat /\ DOMAIN queue = 1..n /\ DOMAIN queue' = 1..(n + 1)
      /\ \A i \in 1..n : queue'[i] = queue[i] /\ queue[i] \in Changes
      /\ queue'[n + 1] = x
  BY AppendFacts, ElementOfSeq, LenProperties
<1>2. \A i \in 1..n : queue[i].svc \in Services
  BY <1>1 DEF Changes
<1>. SUFFICES ASSUME NEW i \in DOMAIN queue'
              PROVE  /\ ~queue'[i].update => queue'[i].old = None
                     /\ ~queue'[i].named /\ HasAddress(cache'[queue'[i].svc]) =>
                          \E j \in DOMAIN queue' :
                             j > i /\ queue'[j].svc = queue'[i].svc /\ queue'[j].update
  BY DEF QueueIsSound, HasAddress
<1>3. CASE i = n + 1
  BY <1>1, <1>3
<1>4. CASE i \in 1..n
  <2>1. ~queue'[i].update => queue'[i].old = None
    BY <1>1, <1>4 DEF QueueIsSound
  <2>2. ASSUME ~queue'[i].named, HasAddress(cache'[queue'[i].svc])
        PROVE  \E j \in DOMAIN queue' :
                 j > i /\ queue'[j].svc = queue'[i].svc /\ queue'[j].update
    <3>1. n + 1 \in DOMAIN queue' /\ n + 1 > i /\ \A j \in 1..n : j \in DOMAIN queue'
      BY <1>1, <1>4
    <3>2. CASE x.svc = queue[i].svc /\ x.update
      BY <1>1, <1>4, <3>1, <3>2
    <3>3. CASE HasAddress(cache[queue[i].svc])
      <4>1. PICK j \in 1..n : j > i /\ queue[j].svc = queue[i].svc /\ queue[j].update
        BY <1>1, <1>4, <2>2, <3>3 DEF QueueIsSound
      <4>. QED
        BY <1>1, <1>4, <3>1, <4>1
    <3>. QED
      BY <1>1, <1>2, <1>4, <2>2, <3>2, <3>3
  <2>. QED
    BY <2>1, <2>2
<1>. QED
  BY <1>1, <1>3, <1>4

\* Until the sync the queue only grows, by what found no range full.
LEMMA SyncAppend ==
    ASSUME queue \in Seq(Changes), WaitsForSync, NEW x \in Changes, ~x.flagged,
           queue' = Append(queue, x), UNCHANGED <<synced, delayed, requeued, local, job, disputed>>,
           \A s \in Services : cache'[s].exists => cache[s].exists \/ x.svc = s,
           \A s \in Services : HasAddress(service'[s]) => HasAddress(service[s])
    PROVE  WaitsForSync'
<1>. DEFINE n == Len(queue)
<1>1. /\ n \in Nat /\ DOMAIN queue = 1..n /\ DOMAIN queue' = 1..(n + 1)
      /\ \A i \in 1..n : queue'[i] = queue[i]
      /\ queue'[n + 1] = x
  BY AppendFacts
<1>. SUFFICES ASSUME ~synced PROVE WaitsForSync'
  BY DEF WaitsForSync
<1>2. \A i \in DOMAIN queue' : ~queue'[i].flagged
  BY <1>1 DEF WaitsForSync
<1>3. ASSUME NEW s \in Services, cache'[s].exists
      PROVE  \E i \in DOMAIN queue' : queue'[i].svc = s
  <2>1. n + 1 \in DOMAIN queue' /\ \A i \in 1..n : i \in DOMAIN queue'
    BY <1>1
  <2>. QED
    BY <1>1, <1>3, <2>1 DEF WaitsForSync
<1>4. ASSUME NEW s \in Services, HasAddress(service'[s])
      PROVE  \E i \in DOMAIN queue' :
               queue'[i].svc = s /\ \A j \in 1..i : ~queue'[j].update
  <2>1. PICK i \in 1..n : queue[i].svc = s /\ \A j \in 1..i : ~queue[j].update
    BY <1>1, <1>4 DEF WaitsForSync
  <2>2. i \in DOMAIN queue' /\ \A j \in 1..i : j \in 1..n
    BY <1>1
  <2>. QED
    BY <1>1, <2>1, <2>2
<1>. QED
  BY <1>2, <1>3, <1>4 DEF WaitsForSync, Nothing, HasAddress

\* OneRequeuedChange of one service.
RequeuedOnce(s) ==
    /\ Alone(queue, s) /\ Alone(delayed, s)
    /\ Marked(queue, s) = {} \/ Marked(delayed, s) = {}
    /\ s \in requeued <=> ~(Marked(queue, s) = {} /\ Marked(delayed, s) = {})

LEMMA RequeuedIs == RequeuedIsSound <=> \A s \in Services : RequeuedOnce(s)
BY DEF RequeuedIsSound, RequeuedOnce, Alone, Marked, InCirculation, Postponed

LEMMA RequeuedIsNext == RequeuedIsSound' <=> \A s \in Services : RequeuedOnce(s)'
BY DEF RequeuedIsSound, RequeuedOnce, Alone, Marked, InCirculation, Postponed

LEMMA RequeuedAppend ==
    ASSUME queue \in Seq(Changes), RequeuedIsSound, NEW x \in Changes, ~x.flagged,
           queue' = Append(queue, x), UNCHANGED <<delayed, requeued>>
    PROVE  RequeuedIsSound'
<1>1. ASSUME NEW s \in Services PROVE RequeuedOnce(s)'
  <2>1. RequeuedOnce(s)
    BY RequeuedIs
  <2>2. (Marked(queue', s) = {} <=> Marked(queue, s) = {}) /\ (Alone(queue, s) => Alone(queue', s))
    BY MarkedAppend
  <2>3. /\ Marked(queue, s)' = Marked(queue', s) /\ (Alone(queue, s)' <=> Alone(queue', s))
        /\ Marked(delayed, s)' = Marked(delayed, s) /\ (Alone(delayed, s)' <=> Alone(delayed, s))
    BY DEF Marked, Alone
  <2>. QED
    BY <2>1, <2>2, <2>3 DEF RequeuedOnce
<1>. QED
  BY <1>1, RequeuedIsNext

LEMMA RequeuedSame ==
    ASSUME RequeuedIsSound, UNCHANGED <<queue, delayed, requeued>>
    PROVE  RequeuedIsSound'
BY DEF RequeuedIsSound, InCirculation, Postponed

LEMMA AllocatorSame ==
    ASSUME AllocatorIsExact, UNCHANGED local, Todo' = Todo, job'.ip = job.ip
    PROVE  AllocatorIsExact'
BY DEF AllocatorIsExact

LEMMA InvIs ==
    Inv <=> /\ TypeOK /\ WaitsForSync /\ EventsFollow /\ QueueIsSound /\ DelayedIsSound
            /\ JobIsSound /\ AllocatorIsExact /\ RequeuedIsSound
            /\ \A s \in Services : IsRecorded(s)
            /\ ExternalOnlyWithStatus
BY DEF Inv, IngressIsSound, StoredIsRecorded

LEMMA InvIsNext ==
    Inv' <=> /\ TypeOK' /\ WaitsForSync' /\ EventsFollow' /\ QueueIsSound' /\ DelayedIsSound'
             /\ JobIsSound' /\ AllocatorIsExact' /\ RequeuedIsSound'
             /\ \A s \in Services : IsRecorded(s)'
             /\ ExternalOnlyWithStatus'
BY DEF Inv, IngressIsSound, StoredIsRecorded

LEMMA SeqFacts ==
    ASSUME TypeOK
    PROVE  /\ events \in Seq(Event) /\ queue \in Seq(Changes) /\ delayed \in Seq(Changes)
           /\ \A i \in DOMAIN queue : queue[i] \in Changes
           /\ \A i \in DOMAIN delayed : delayed[i] \in Changes
           /\ \A c \in Changes : c.svc \in Services /\ c.svc # None
<1>1. events \in Seq(Event) /\ queue \in Seq(Changes) /\ delayed \in Seq(Changes)
  BY DEF TypeOK, Event
<1>2. /\ \A i \in DOMAIN queue : queue[i] \in Changes
      /\ \A i \in DOMAIN delayed : delayed[i] \in Changes
  BY <1>1, LenProperties, ElementOfSeq
<1>3. \A c \in Changes : c.svc \in Services /\ c.svc # None
  BY ConstantFacts DEF Changes
<1>. QED
  BY <1>1, <1>2, <1>3

-------------------------------------------------------------------------------
(* Users *)

LEMMA EditStep ==
    ASSUME Inv, NEW s \in Services, NEW obj \in Objects, Edit(s, obj),
           ~service[s].exists => obj.ip = None,
           obj.external \subseteq {obj.ip}, obj.ip \in {None, service[s].ip}
    PROVE  Inv'
<1>. USE InvIs
<1>1. /\ Store(s, obj)
      /\ job' = IF job.change.svc = s THEN [job EXCEPT !.fresh = FALSE] ELSE job
      /\ used < MaxInterference /\ used' = used + 1
      /\ cache' = cache /\ queue' = queue /\ delayed' = delayed /\ synced' = synced
      /\ local' = local /\ requeued' = requeued /\ disputed' = disputed
  BY DEF Edit, Interferes, queueVars
<1>2. /\ service' \in [Services -> Objects] /\ service'[s] = obj
      /\ \A q \in Services \ {s} : service'[q] = service[q]
      /\ events' \in Seq(Event)
      /\ \A i \in DOMAIN events : \E j \in DOMAIN events' : events'[j] = events[i]
      /\ \E i \in DOMAIN events' : events'[i].svc = s
      /\ EventsFollow'
  BY <1>1, StoreFollows
<1>3. /\ job'.change = job.change /\ job'.plan = job.plan /\ job'.ip = job.ip
      /\ (Working' <=> Working) /\ Todo' = Todo
      /\ job'.fresh = IF job.change.svc = s THEN FALSE ELSE job.fresh
      /\ job.change.svc # s => job' = job
      /\ ~Working => job' = job
  <2>1. CASE Working
    <3>1. job \in [change : Changes, ip : Addresses \cup {None}, fresh : BOOLEAN,
                   plan : Seq(Steps) \ {<<>>}]
      BY <2>1, JobFacts
    <3>2. /\ job'.change = job.change /\ job'.plan = job.plan /\ job'.ip = job.ip
          /\ job'.fresh = IF job.change.svc = s THEN FALSE ELSE job.fresh
          /\ job.change.svc # s => job' = job
      BY <1>1, <3>1
    <3>. QED
      BY <2>1, <3>2 DEF Working, Todo
  <2>2. CASE ~Working
    <3>1. job' = job
      BY <1>1, <2>2, JobFacts
    <3>. QED
      BY <2>2, <3>1, JobFacts DEF Working, Todo
  <2>. QED
    BY <2>1, <2>2
<1>4. TypeOK'
  <2>1. job' = Idle \/ job' \in [change : Changes, ip : Addresses \cup {None}, fresh : BOOLEAN,
                                 plan : Seq(Steps) \ {<<>>}]
    BY <1>1, <1>3, JobFacts
  <2>2. used' \in 0..MaxInterference
    BY <1>1, ConstantFacts DEF TypeOK
  <2>. QED
    BY <1>1, <1>2, <2>1, <2>2 DEF TypeOK, Event
<1>5. WaitsForSync'
  <2>1. ~synced => job' = Idle
    BY <1>3, JobFacts DEF WaitsForSync, Working, Idle
  <2>2. \A q \in Services : HasAddress(service'[q]) => HasAddress(service[q])
    BY <1>2 DEF HasAddress
  <2>. QED
    BY <1>1, <2>1, <2>2 DEF WaitsForSync, Nothing, HasAddress
<1>6. QueueIsSound' /\ DelayedIsSound'
  BY <1>1 DEF QueueIsSound, DelayedIsSound
<1>7. \A q : Undisturbed(q)
  BY <1>1, <1>2 DEF Undisturbed
<1>8. JobIsSound'
  <2>. DEFINE p == job.change.svc
  <2>. SUFFICES ASSUME Working
                PROVE  /\ job.change.named /\ (~job.change.update => job.change.old = None)
                       /\ job.plan \in Plans
                       /\ IF job'.fresh THEN CopyIsStored(p)' ELSE IsOvertaken(p)'
    BY <1>3 DEF JobIsSound
  <2>0. p \in Services /\ p' = p
    BY <1>3, JobFacts
  <2>. HIDE DEF p
  <2>1. CASE p = s
    <3>1. IsOvertaken(s)'
      BY <1>2 DEF IsOvertaken
    <3>2. IsOvertaken(p)'
      BY <2>0, <2>1, <3>1 DEF IsOvertaken
    <3>. QED
      BY <1>3, <2>1, <3>2 DEF JobIsSound, p
  <2>2. CASE p # s
    <3>1. job' = job /\ service'[p] = service[p]
      BY <1>2, <1>3, <2>0, <2>2 DEF p
    <3>2. job.fresh => CopyIsStored(p)'
      BY <1>1, <1>3, <2>0, <3>1 DEF JobIsSound, CopyIsStored, p
    <3>3. ~job.fresh => IsOvertaken(p)'
      <4>1. IsOvertaken(p) => IsOvertaken(p)'
        BY <1>1, <1>2, <2>0 DEF IsOvertaken
      <4>. QED
        BY <4>1 DEF JobIsSound, p
    <3>. QED
      BY <3>1, <3>2, <3>3 DEF JobIsSound
  <2>. QED
    BY <2>1, <2>2
<1>9. AllocatorIsExact' /\ RequeuedIsSound'
  BY <1>1, <1>3, AllocatorSame, RequeuedSame
<1>10. ASSUME NEW q \in Services PROVE IsRecorded(q)'
  <2>1. CASE q = s
    <3>1. Edited(q)'
      BY <1>2, <2>1 DEF Edited
    <3>. QED
      BY <3>1, EditedRecorded
  <2>2. CASE q # s
    BY <1>1, <1>2, <1>3, <1>7, <2>2, OthersRecorded
  <2>. QED
    BY <2>1, <2>2
<1>11. ExternalOnlyWithStatus'
  BY <1>2 DEF ExternalOnlyWithStatus
<1>. QED
  BY <1>2, <1>4, <1>5, <1>6, <1>8, <1>9, <1>10, <1>11, InvIsNext

LEMMA UserSteps ==
    ASSUME Inv, NEW s \in Services, Create(s) \/ Delete(s) \/ ChangeType(s)
    PROVE  Inv'
<1>1. service[s] \in Objects /\ service[s].external \subseteq {service[s].ip}
  BY InvIs DEF TypeOK, ExternalOnlyWithStatus
<1>2. CASE Create(s)
  BY <1>2, EditStep, ObjectFacts DEF Create
<1>3. CASE Delete(s)
  BY <1>3, EditStep, ObjectFacts DEF Delete
<1>4. CASE ChangeType(s)
  <2>. DEFINE obj == [service[s] EXCEPT !.lb = ~@]
  <2>1. /\ obj \in Objects /\ obj.ip = service[s].ip /\ obj.external = service[s].external
    BY <1>1 DEF Objects
  <2>2. service[s].exists /\ Edit(s, obj)
    BY <1>4 DEF ChangeType
  <2>. HIDE DEF obj
  <2>. QED
    BY <1>1, <2>1, <2>2, EditStep
<1>. QED
  BY <1>2, <1>3, <1>4

-------------------------------------------------------------------------------
(* The informer and the delays *)

LEMMA JobStays ==
    ASSUME TypeOK, JobIsSound, UNCHANGED <<job, service, local>>,
           \A p \in Services : IsOvertaken(p) => IsOvertaken(p)'
    PROVE  JobIsSound'
<1>. SUFFICES ASSUME Working
              PROVE  IF job.fresh THEN CopyIsStored(job.change.svc)' ELSE IsOvertaken(job.change.svc)'
  BY DEF JobIsSound, Working
<1>1. PICK p \in Services : p = job.change.svc
  BY JobFacts
<1>2. job.fresh => CopyIsStored(job.change.svc)'
  BY DEF JobIsSound, CopyIsStored, Todo, Working
<1>3. ~job.fresh => IsOvertaken(p)'
  BY <1>1 DEF JobIsSound
<1>4. IsOvertaken(p)' => IsOvertaken(job.change.svc)'
  BY <1>1 DEF IsOvertaken
<1>. QED
  BY <1>2, <1>3, <1>4

LEMMA ChangeOfFacts ==
    ASSUME NEW s \in Services, NEW old \in Objects, NEW new \in Objects
    PROVE  /\ ChangeOf(s, old, new) \in Changes
           /\ ChangeOf(s, old, new).svc = s
           /\ ChangeOf(s, old, new).named = new.exists
           /\ ChangeOf(s, old, new).update = old.exists
           /\ ~ChangeOf(s, old, new).flagged
           /\ ~old.exists => ChangeOf(s, old, new).old = None
BY ObjectFacts DEF ChangeOf, Changes

LEMMA DeliverStep ==
    ASSUME Inv, Deliver
    PROVE  Inv'
<1>. USE InvIs
<1>1. PICK e \in Event :
        /\ e = events[1] /\ 1 \in DOMAIN events
        /\ cache' \in [Services -> Objects] /\ cache'[e.svc] = e.obj
        /\ \A q \in Services \ {e.svc} : cache'[q] = cache[q]
        /\ events' \in Seq(Event)
        /\ \A i \in DOMAIN events :
             events[i] = e \/ \E j \in DOMAIN events' : events'[j] = events[i]
        /\ ~cache[e.svc].exists => e.obj.ip = None
        /\ queue' = Append(queue, ChangeOf(e.svc, cache[e.svc], e.obj))
        /\ EventsFollow'
  BY DeliverFollows
<1>2. e.svc \in Services /\ e.obj \in Objects /\ cache[e.svc] \in Objects
  BY DEF Event, TypeOK
<1>3. PICK x \in Changes : x = ChangeOf(e.svc, cache[e.svc], e.obj)
  BY <1>2, ChangeOfFacts
<1>4. /\ x.svc = e.svc /\ x.named = e.obj.exists /\ x.update = cache[e.svc].exists /\ ~x.flagged
      /\ ~x.update => x.old = None
  BY <1>2, <1>3, ChangeOfFacts
<1>5. /\ service' = service /\ delayed' = delayed /\ synced' = synced /\ local' = local
      /\ requeued' = requeued /\ job' = job /\ used' = used /\ disputed' = disputed
  BY DEF Deliver
<1>6. queue' = Append(queue, x) /\ queue \in Seq(Changes)
  BY <1>1, <1>3, SeqFacts
<1>7. /\ queue' \in Seq(Changes)
      /\ \A i \in DOMAIN queue : \E j \in DOMAIN queue' : queue'[j] = queue[i]
      /\ \E j \in DOMAIN queue' : queue'[j] = x
  BY <1>6, QueueKeeps
<1>8. TypeOK'
  BY <1>1, <1>5, <1>7 DEF TypeOK, Event
<1>9. WaitsForSync'
  <2>1. \A s \in Services : cache'[s].exists => cache[s].exists \/ x.svc = s
    BY <1>1, <1>4
  <2>. QED
    BY <1>4, <1>5, <1>6, <2>1, SyncAppend
<1>10. QueueIsSound'
  <2>1. x.named \/ ~HasAddress(cache'[x.svc])
    BY <1>1, <1>4 DEF HasAddress
  <2>2. \A s \in Services : HasAddress(cache'[s]) => HasAddress(cache[s]) \/ (x.svc = s /\ x.update)
    BY <1>1, <1>2, <1>4 DEF HasAddress
  <2>. QED
    BY <1>4, <1>6, <2>1, <2>2, QueueAppend
<1>11. DelayedIsSound'
  BY <1>5 DEF DelayedIsSound
<1>12. \A q \in Services \ {e.svc} : Undisturbed(q)
  BY <1>1, <1>5, <1>7 DEF Undisturbed
<1>13. JobIsSound'
  <2>1. ASSUME NEW p \in Services, IsOvertaken(p) PROVE IsOvertaken(p)'
    <3>1. CASE p = e.svc
      <4>1. HasAddress(cache'[p]) => x.update
        BY <1>1, <1>2, <1>4, <3>1 DEF HasAddress
      <4>. QED
        BY <1>4, <1>7, <3>1, <4>1 DEF IsOvertaken
    <3>2. CASE p # e.svc
      BY <1>1, <1>12, <2>1, <3>2, StillToDo
    <3>. QED
      BY <3>1, <3>2
  <2>. QED
    BY <1>5, <2>1, JobStays
<1>14. AllocatorIsExact'
  BY <1>5, AllocatorSame DEF Todo, Working
<1>15. RequeuedIsSound'
  BY <1>4, <1>5, <1>6, RequeuedAppend
<1>16. ASSUME NEW q \in Services PROVE IsRecorded(q)'
  <2>1. CASE q = e.svc
    <3>1. Pending(q)'
      BY <1>4, <1>7, <2>1 DEF Pending
    <3>2. ASSUME ~Edited(q)' PROVE AllocationOf(service'[q]) \notin IpRange
      <4>1. ~x.update
        BY <1>4, <1>7, <2>1, <3>2 DEF Edited
      <4>2. \A i \in DOMAIN events' : events'[i].svc # q
        BY <3>2 DEF Edited
      <4>3. cache'[q] = service'[q]
        <5>1. Len(events') \in Nat /\ DOMAIN events' = 1..Len(events')
          BY <1>1, LenProperties
        <5>2. 0 \in 0..Len(events') /\ \A j \in (0 + 1)..Len(events') : j \in DOMAIN events'
          BY <5>1
        <5>3. Follows(q)'
          BY <1>1 DEF EventsFollow
        <5>. QED
          BY <4>2, <5>2, <5>3 DEF Follows, Tells, Told
      <4>. QED
        BY <1>1, <1>2, <1>4, <2>1, <4>1, <4>3, ObjectFacts, ConstantFacts
    <3>. QED
      BY <3>1, <3>2, EditedRecorded DEF IsRecorded
  <2>2. CASE q # e.svc
    BY <1>5, <1>12, <2>2, OthersRecorded
  <2>. QED
    BY <2>1, <2>2
<1>17. ExternalOnlyWithStatus'
  BY <1>5 DEF ExternalOnlyWithStatus
<1>. QED
  BY <1>1, <1>8, <1>9, <1>10, <1>11, <1>13, <1>14, <1>15, <1>16, <1>17, InvIsNext

LEMMA ResyncStep ==
    ASSUME Inv, Resync
    PROVE  Inv'
<1>. USE InvIs
<1>1. PICK s \in Services :
        cache[s].exists /\ queue' = Append(queue, ChangeOf(s, cache[s], cache[s]))
  BY DEF Resync
<1>2. PICK x \in Changes : x = ChangeOf(s, cache[s], cache[s])
  BY ChangeOfFacts DEF TypeOK
<1>3. x.svc = s /\ x.named /\ x.update /\ ~x.flagged
  BY <1>1, <1>2, ChangeOfFacts DEF TypeOK
<1>4. /\ used < MaxInterference /\ used' = used + 1
      /\ service' = service /\ events' = events /\ cache' = cache /\ delayed' = delayed
      /\ synced' = synced /\ local' = local /\ requeued' = requeued /\ job' = job
      /\ disputed' = disputed
  BY DEF Resync, Interferes, storeVars
<1>5. queue' = Append(queue, x) /\ queue \in Seq(Changes)
  BY <1>1, <1>2, SeqFacts
<1>6. /\ queue' \in Seq(Changes)
      /\ \A i \in DOMAIN queue : \E j \in DOMAIN queue' : queue'[j] = queue[i]
  BY <1>5, QueueKeeps
<1>7. TypeOK'
  <2>1. used' \in 0..MaxInterference
    BY <1>4, ConstantFacts DEF TypeOK
  <2>. QED
    BY <1>4, <1>6, <2>1 DEF TypeOK
<1>8. WaitsForSync' /\ QueueIsSound' /\ RequeuedIsSound'
  BY <1>3, <1>4, <1>5, SyncAppend, QueueAppend, RequeuedAppend
<1>9. \A q \in Services : Undisturbed(q)
  BY <1>4, <1>6 DEF Undisturbed
<1>10. JobIsSound' /\ \A q \in Services : IsRecorded(q)'
  BY <1>4, <1>9, StillToDo, JobStays, OthersRecorded
<1>11. EventsFollow' /\ DelayedIsSound' /\ AllocatorIsExact' /\ ExternalOnlyWithStatus'
  BY <1>4, SameEvents, AllocatorSame DEF DelayedIsSound, Todo, Working, ExternalOnlyWithStatus
<1>. QED
  BY <1>7, <1>8, <1>10, <1>11, InvIsNext

LEMMA ComesBackStep ==
    ASSUME Inv, NEW k \in DOMAIN delayed, ComesBack(k)
    PROVE  Inv'
<1>. USE InvIs
<1>1. PICK x \in Changes : x = delayed[k]
  BY SeqFacts
<1>2. /\ queue' = Append(queue, x) /\ delayed' = RemoveAt(delayed, k)
      /\ queue \in Seq(Changes) /\ delayed \in Seq(Changes)
      /\ service' = service /\ events' = events /\ cache' = cache /\ used' = used
      /\ synced' = synced /\ local' = local /\ requeued' = requeued /\ job' = job
      /\ disputed' = disputed
  BY <1>1, SeqFacts DEF ComesBack, storeVars
<1>3. x.named /\ (~x.update => x.old = None)
  BY <1>1 DEF DelayedIsSound
<1>4. /\ queue' \in Seq(Changes)
      /\ \A i \in DOMAIN queue : \E j \in DOMAIN queue' : queue'[j] = queue[i]
      /\ \E j \in DOMAIN queue' : queue'[j] = x
  BY <1>2, QueueKeeps
<1>5. /\ delayed' \in Seq(Changes)
      /\ \A i \in DOMAIN delayed :
           delayed[i] = x \/ \E j \in DOMAIN delayed' : delayed'[j] = delayed[i]
      /\ \A j \in DOMAIN delayed' : \E i \in DOMAIN delayed : delayed[i] = delayed'[j]
  BY <1>1, <1>2, RemoveFacts, RemoveKeeps
<1>6. TypeOK'
  BY <1>2, <1>4, <1>5 DEF TypeOK
<1>7. WaitsForSync'
  <2>1. synced
    BY LenProperties DEF WaitsForSync
  <2>. QED
    BY <1>2, <2>1 DEF WaitsForSync
<1>8. QueueIsSound'
  BY <1>2, <1>3, QueueAppend
<1>9. DelayedIsSound'
  <2>. SUFFICES ASSUME NEW j \in DOMAIN delayed'
                PROVE  delayed'[j].named /\ (~delayed'[j].update => delayed'[j].old = None)
    BY DEF DelayedIsSound
  <2>1. PICK i \in DOMAIN delayed : delayed[i] = delayed'[j]
    BY <1>5
  <2>. QED
    BY <2>1 DEF DelayedIsSound
<1>10. ASSUME NEW s \in Services PROVE RequeuedOnce(s)'
  <2>1. RequeuedOnce(s)
    BY RequeuedIs
  <2>2. /\ ~(x.svc = s /\ x.flagged) =>
             /\ (Marked(queue', s) = {} <=> Marked(queue, s) = {})
             /\ (Alone(queue, s) => Alone(queue', s))
        /\ x.svc = s /\ x.flagged =>
             Marked(queue', s) # {} /\ (Marked(queue, s) = {} => Alone(queue', s))
    <3>1. queue \in Seq(Changes) /\ queue' = Append(queue, x)
      BY <1>2
    <3>. HIDE InvIs
    <3>. QED
      BY <3>1, MarkedAppend
  <2>3. /\ ~(x.svc = s /\ x.flagged) =>
             /\ (Marked(delayed', s) = {} <=> Marked(delayed, s) = {})
             /\ (Alone(delayed, s) => Alone(delayed', s))
        /\ x.svc = s /\ x.flagged =>
             /\ Marked(delayed, s) # {}
             /\ (Alone(delayed, s) => Marked(delayed', s) = {} /\ Alone(delayed', s))
    BY <1>1, <1>2, MarkedRemove
  <2>4. /\ Marked(queue, s)' = Marked(queue', s) /\ (Alone(queue, s)' <=> Alone(queue', s))
        /\ Marked(delayed, s)' = Marked(delayed', s) /\ (Alone(delayed, s)' <=> Alone(delayed', s))
    BY DEF Marked, Alone
  <2>. QED
    BY <1>2, <2>1, <2>2, <2>3, <2>4 DEF RequeuedOnce
<1>11. ASSUME NEW q \in Services PROVE Undisturbed(q)
  <2>1. \A i \in DOMAIN delayed :
           \/ \E j \in DOMAIN delayed' : delayed'[j] = delayed[i]
           \/ \E j \in DOMAIN queue' : queue'[j] = delayed[i]
    BY <1>4, <1>5
  <2>2. \A i \in DOMAIN delayed :
           \/ \E j \in DOMAIN delayed' : delayed'[j] = delayed[i]
           \/ \E j \in DOMAIN queue' :
                /\ queue'[j].svc = delayed[i].svc /\ queue'[j].update = delayed[i].update
    BY <2>1
  <2>. QED
    BY <1>2, <1>4, <2>2 DEF Undisturbed
<1>12. JobIsSound' /\ \A q \in Services : IsRecorded(q)'
  BY <1>2, <1>11, StillToDo, JobStays, OthersRecorded
<1>13. EventsFollow' /\ AllocatorIsExact' /\ ExternalOnlyWithStatus'
  BY <1>2, SameEvents, AllocatorSame DEF Todo, Working, ExternalOnlyWithStatus
<1>. QED
  BY <1>6, <1>7, <1>8, <1>9, <1>10, <1>12, <1>13, RequeuedIsNext, InvIsNext

-------------------------------------------------------------------------------
(* The start of the controller *)

LEMMA SetToSeqsFacts ==
    ASSUME NEW S, IsFiniteSet(S), NEW ss \in SetToSeqs(S)
    PROVE  /\ Len(ss) \in Nat /\ DOMAIN ss = 1..Len(ss)
           /\ \A i \in DOMAIN ss : ss[i] \in S
           /\ \A s \in S : \E i \in DOMAIN ss : ss[i] = s
<1>1. Cardinality(S) \in Nat
  BY FS_CardinalityType
<1>2. IsFiniteSet(1..Cardinality(S)) /\ Cardinality(1..Cardinality(S)) = Cardinality(S)
  BY <1>1, FS_Interval
<1>3. ss \in Injection(1..Cardinality(S), S)
  BY DEF SetToSeqs, Injection, IsInjective
<1>4. ss \in Surjection(1..Cardinality(S), S)
  BY <1>2, <1>3, FS_Injection
<1>5. ss \in [1..Cardinality(S) -> S]
  BY DEF SetToSeqs
<1>6. ss \in Seq(S) /\ Len(ss) = Cardinality(S)
  BY <1>1, <1>5
<1>. QED
  BY <1>1, <1>4, <1>5, <1>6 DEF Surjection

LEMMA AdditionFacts ==
    ASSUME NEW s \in Services
    PROVE  /\ Addition(s) \in Changes /\ Addition(s).svc = s /\ Addition(s).named
           /\ ~Addition(s).update /\ Addition(s).old = None /\ ~Addition(s).flagged
BY DEF Addition, Changes

AreAdditions(qs, S) ==
    /\ \A i \in DOMAIN qs :
         /\ qs[i] \in Changes /\ qs[i].svc \in S /\ qs[i].named
         /\ ~qs[i].update /\ qs[i].old = None /\ ~qs[i].flagged
    /\ \A s \in S : \E i \in DOMAIN qs : qs[i].svc = s

LEMMA AdditionsOf ==
    ASSUME NEW S \in SUBSET Services, NEW ss \in SetToSeqs(S),
           NEW qs, qs = [i \in DOMAIN ss |-> Addition(ss[i])]
    PROVE  qs \in Seq(Changes) /\ AreAdditions(qs, S)
<1>1. IsFiniteSet(S)
  BY ServicesAssumption, FS_Subset
<1>2. /\ Len(ss) \in Nat /\ DOMAIN ss = 1..Len(ss)
      /\ \A i \in DOMAIN ss : ss[i] \in S
      /\ \A s \in S : \E i \in DOMAIN ss : ss[i] = s
  BY <1>1, SetToSeqsFacts
<1>3. DOMAIN qs = 1..Len(ss) /\ \A i \in DOMAIN qs : qs[i] = Addition(ss[i])
  BY <1>2
<1>4. \A i \in DOMAIN qs : qs[i] \in Changes
  BY <1>2, <1>3, AdditionFacts
<1>5. qs \in [1..Len(ss) -> Changes]
  BY <1>2, <1>4
<1>6. qs \in Seq(Changes) /\ Len(qs) = Len(ss)
  BY <1>2, <1>5
<1>. QED
  BY <1>2, <1>3, <1>4, <1>6, AdditionFacts DEF AreAdditions

LEMMA AdditionsFacts ==
    ASSUME NEW objs, NEW qs, Additions(objs, qs)
    PROVE  /\ qs \in Seq(Changes)
           /\ \A i \in DOMAIN qs :
                /\ qs[i] \in Changes /\ qs[i].svc \in Services /\ qs[i].named
                /\ ~qs[i].update /\ qs[i].old = None /\ ~qs[i].flagged
           /\ \A s \in Services : objs[s].exists => \E i \in DOMAIN qs : qs[i].svc = s
<1>. DEFINE S == {s \in Services : objs[s].exists}
<1>1. PICK ss \in SetToSeqs(S) : qs = [i \in DOMAIN ss |-> Addition(ss[i])]
  BY DEF Additions
<1>2. S \in SUBSET Services
  OBVIOUS
<1>3. \A s \in Services : objs[s].exists => s \in S
  OBVIOUS
<1>. HIDE DEF S
<1>4. /\ qs \in Seq(Changes)
      /\ \A i \in DOMAIN qs :
           /\ qs[i] \in Changes /\ qs[i].svc \in S /\ qs[i].named
           /\ ~qs[i].update /\ qs[i].old = None /\ ~qs[i].flagged
      /\ \A s \in S : \E i \in DOMAIN qs : qs[i].svc = s
  BY <1>1, <1>2, AdditionsOf DEF AreAdditions
<1>. QED
  BY <1>2, <1>3, <1>4

\* The state in which the controller starts.
Started ==
    /\ service \in [Services -> Objects] /\ ExternalOnlyWithStatus
    /\ cache = service /\ events = <<>> /\ Additions(service, queue) /\ delayed = <<>>
    /\ ~synced /\ synced \in BOOLEAN /\ local = Nothing /\ requeued = {} /\ job = Idle
    /\ used \in 0..MaxInterference /\ disputed = {}

LEMMA StartedSound == Started => Inv
<1>. SUFFICES ASSUME Started PROVE Inv
  OBVIOUS
<1>. USE DEF Started
<1>1. /\ queue \in Seq(Changes)
      /\ \A i \in DOMAIN queue :
           /\ queue[i] \in Changes /\ queue[i].svc \in Services /\ queue[i].named
           /\ ~queue[i].update /\ queue[i].old = None /\ ~queue[i].flagged
      /\ \A s \in Services : service[s].exists => \E i \in DOMAIN queue : queue[i].svc = s
  BY AdditionsFacts
<1>2. /\ events = <<>> /\ delayed = <<>> /\ Len(events) = 0
      /\ DOMAIN events = {} /\ DOMAIN delayed = {}
  OBVIOUS
<1>3. ~Working /\ Todo = "nothing" /\ job.change.svc = None
  BY DEF Idle, Working, Todo, NoChange
<1>4. TypeOK
  <2>1. local \in [taken : SUBSET IpRange, owner : [IpRange -> Services \cup {None}]]
    BY DEF Nothing
  <2>. QED
    BY <1>1, <2>1 DEF TypeOK
<1>5. WaitsForSync
  <2>1. DOMAIN queue = 1..Len(queue) /\ Len(queue) \in Nat
    BY <1>1, LenProperties
  <2>2. \A i \in DOMAIN queue : \A j \in 1..i : j \in DOMAIN queue
    BY <2>1
  <2>. QED
    BY <1>1, <2>2 DEF WaitsForSync, HasAddress
<1>6. EventsFollow
  BY <1>2 DEF EventsFollow, Follows, Told, Tells
<1>7. QueueIsSound /\ DelayedIsSound /\ JobIsSound
  BY <1>1, <1>2, <1>3 DEF QueueIsSound, DelayedIsSound, JobIsSound
<1>8. AllocatorIsExact
  BY <1>3 DEF AllocatorIsExact, Nothing
<1>9. RequeuedIsSound
  <2>1. \A s \in Services : Marked(queue, s) = {} /\ Marked(delayed, s) = {}
    BY <1>1, <1>2 DEF Marked
  <2>. QED
    BY <2>1, RequeuedIs DEF RequeuedOnce, Alone
<1>10. ASSUME NEW s \in Services PROVE IsRecorded(s)
  <2>1. service[s].exists => Pending(s)
    BY <1>1 DEF Pending
  <2>2. ~service[s].exists => AllocationOf(service[s]) \notin IpRange
    BY ConstantFacts DEF AllocationOf
  <2>. QED
    BY <2>1, <2>2 DEF IsRecorded
<1>. QED
  BY <1>4, <1>5, <1>6, <1>7, <1>8, <1>9, <1>10, InvIs

LEMMA StartedNext == Started' => Inv'
BY StartedSound, PTL

LEMMA Initially == Init => Inv
<1>. SUFFICES ASSUME Init PROVE Started
  BY StartedSound
<1>1. \A s \in Services : service[s] \in {Absent, New(None), New(Outside)}
  BY DEF Init
<1>2. \A s \in Services : service[s] \in Objects /\ service[s].external = {}
  BY <1>1, ObjectFacts
<1>3. service \in [Services -> Objects]
  BY <1>2 DEF Init
<1>4. ExternalOnlyWithStatus
  BY <1>2 DEF ExternalOnlyWithStatus
<1>. QED
  <2>1. 0 \in 0..MaxInterference
    BY ConstantFacts
  <2>. QED
    BY <1>3, <1>4, <2>1 DEF Init, Started

LEMMA RestartStep ==
    ASSUME Inv, Restart
    PROVE  Inv'
<1>1. /\ used' \in 0..MaxInterference /\ service' = service
      /\ service \in [Services -> Objects] /\ ExternalOnlyWithStatus
  BY InvIs, ConstantFacts DEF TypeOK, Restart, Interferes
<1>2. ExternalOnlyWithStatus'
  BY <1>1 DEF ExternalOnlyWithStatus
<1>3. /\ cache' = service /\ events' = <<>> /\ Additions(service, queue') /\ delayed' = <<>>
      /\ synced' = FALSE /\ local' = Nothing /\ requeued' = {} /\ job' = Idle /\ disputed' = {}
  BY DEF Restart, Starts
<1>4. Additions(service, queue)'
  BY <1>1, <1>3 DEF Additions
<1>. QED
  BY <1>1, <1>2, <1>3, <1>4, StartedNext DEF Started, Nothing, Idle, NoChange

-------------------------------------------------------------------------------
(* The initial sync *)

LEMMA LeastExists ==
    ASSUME NEW n \in Nat, NEW S, S \subseteq 0..n, S # {}
    PROVE  \E i \in S : \A j \in S : i <= j
<1>. DEFINE All == SUBSET (0..n)
            Below == {0..i : i \in S}
<1>1. FiniteSubsetsOf(0..n) = All
  <2>1. IsFiniteSet(0..n)
    BY FS_Interval
  <2>. QED
    BY <2>1, FS_FiniteSubsetsOfFinite
<1>2. IsWellFoundedOn(StrictSubsetOrdering(0..n), All)
  BY <1>1, FS_StrictSubsetOrderingWellFounded
<1>3. Below \subseteq All /\ Below # {}
  <2>1. \A i \in S : 0..i \subseteq 0..n
    OBVIOUS
  <2>. QED
    BY <2>1
<1>4. PICK x \in Below : \A y \in Below : <<y, x>> \notin StrictSubsetOrdering(0..n)
  <2>. HIDE DEF All, Below
  <2>. QED
    BY <1>2, <1>3, WFMin
<1>5. PICK i \in S : x = 0..i
  BY <1>4
<1>6. ASSUME NEW j \in S, ~(i <= j)
      PROVE  FALSE
  <2>1. 0..j \in Below /\ 0..j \in All /\ 0..i \in All
    BY <1>3
  <2>2. 0..j \subseteq 0..i /\ i \in 0..i /\ i \notin 0..j
    BY <1>6
  <2>3. <<0..j, 0..i>> \in StrictSubsetOrdering(0..n)
    BY <2>1, <2>2 DEF StrictSubsetOrdering
  <2>. QED
    BY <1>4, <1>5, <2>1, <2>3
<1>. QED
  BY <1>6

LEMMA FirstUpdateFacts ==
    ASSUME queue \in Seq(Changes)
    PROVE  /\ FirstUpdate \in 1..(Len(queue) + 1) /\ Len(queue) \in Nat
           /\ \A j \in 1..(FirstUpdate - 1) : j \in DOMAIN queue
           /\ \A i \in DOMAIN queue :
                (\A j \in 1..i : ~queue[j].update) => i \in 1..(FirstUpdate - 1)
<1>. DEFINE n == Len(queue)
            S == {i \in 1..n : queue[i].update}
<1>1. n \in Nat /\ DOMAIN queue = 1..n
  BY LenProperties
<1>2. CASE S = {}
  <2>1. FirstUpdate = n + 1
    BY <1>1, <1>2 DEF FirstUpdate
  <2>. QED
    BY <1>1, <2>1
<1>3. CASE S # {}
  <2>1. S \subseteq 0..n
    BY <1>1
  <2>2. PICK i \in S : \A j \in S : i <= j
    <3>. HIDE DEF S
    <3>. QED
      BY <1>1, <1>3, <2>1, LeastExists
  <2>3. i \in DOMAIN queue /\ queue[i].update /\ \A j \in 1..(i - 1) : ~queue[j].update
    BY <1>1, <2>2
  <2>4. FirstUpdate \in DOMAIN queue /\ queue[FirstUpdate].update
    BY <1>1, <2>3 DEF FirstUpdate
  <2>5. \A k \in DOMAIN queue : (\A j \in 1..k : ~queue[j].update) => ~(FirstUpdate <= k)
    BY <1>1, <2>4
  <2>. QED
    BY <1>1, <2>4, <2>5
<1>. QED
  BY <1>2, <1>3

\* The sequence r is A and then the rest of q, in order.
Rebuilt(r, A, q) ==
    /\ \A i \in DOMAIN A : i \in DOMAIN r /\ r[i] = A[i]
    /\ \A i \in DOMAIN r :
         \/ i \in DOMAIN A /\ r[i] = A[i]
         \/ \E k \in DOMAIN q :
              /\ r[i] = q[k]
              /\ \A l \in DOMAIN q : l > k => \E j \in DOMAIN r : j > i /\ r[j] = q[l]

LEMMA RebuiltQueue ==
    ASSUME NEW S, NEW A \in Seq(S), NEW q \in Seq(S), NEW f \in 1..(Len(q) + 1),
           NEW r, r = A \o SubSeq(q, f, Len(q))
    PROVE  r \in Seq(S) /\ Rebuilt(r, A, q)
<1>1. PICK n \in Nat : n = Len(q) /\ DOMAIN q = 1..n /\ \A i \in 1..n : q[i] \in S
  BY LenProperties, ElementOfSeq
<1>2. PICK m \in Nat : m = Len(A) /\ DOMAIN A = 1..m
  BY LenProperties
<1>3. PICK B : B = SubSeq(q, f, n)
  OBVIOUS
<1>4. /\ B \in Seq(S) /\ Len(B) = n + 1 - f
      /\ \A i \in 1..(n + 1 - f) : B[i] = q[f + i - 1]
  <2>1. f \in Int /\ n \in Int /\ \A i \in f..n : q[i] \in S
    BY <1>1
  <2>2. /\ B \in Seq(S)
        /\ Len(B) = IF f <= n THEN n - f + 1 ELSE 0
        /\ \A i \in 1..(n - f + 1) : B[i] = q[f + i - 1]
    BY <1>3, <2>1, SubSeqProperties
  <2>. QED
    BY <1>1, <2>2
<1>5. PICK c \in Nat : c = n + 1 - f
  <2>1. n + 1 - f \in Nat
    BY <1>1
  <2>. QED
    BY <2>1
<1>6. r = A \o B
  BY <1>1, <1>3
<1>7. /\ r \in Seq(S) /\ Len(r) = Len(A) + Len(B)
      /\ \A i \in 1..(Len(A) + Len(B)) : r[i] = IF i <= Len(A) THEN A[i] ELSE B[i - Len(A)]
  <2>1. B \in Seq(S)
    BY <1>4
  <2>2. A \o B \in Seq(S) /\ Len(A \o B) = Len(A) + Len(B)
    BY <2>1, ConcatProperties
  <2>3. \A i \in 1..(Len(A) + Len(B)) : (A \o B)[i] = IF i <= Len(A) THEN A[i] ELSE B[i - Len(A)]
    BY <2>1, ConcatProperties
  <2>. QED
    BY <1>6, <2>2, <2>3
<1>8. /\ DOMAIN r = 1..(m + c)
      /\ \A i \in 1..(m + c) : r[i] = IF i <= m THEN A[i] ELSE B[i - m]
  BY <1>2, <1>4, <1>5, <1>7, LenProperties
<1>9. \A i \in 1..m : i \in DOMAIN r /\ r[i] = A[i]
  <2>1. \A i \in 1..m : i \in 1..(m + c) /\ i <= m
    OBVIOUS
  <2>. QED
    BY <1>8, <2>1
<1>10. f \in 1..(n + 1) /\ f + c = n + 1
  BY <1>1, <1>5
<1>11. ASSUME NEW k \in f..n
       PROVE  m + (k + 1 - f) \in DOMAIN r /\ r[m + (k + 1 - f)] = q[k]
  <2>1. PICK d \in 1..c : d = k + 1 - f
    BY <1>10
  <2>2. m + d \in 1..(m + c) /\ ~(m + d <= m) /\ (m + d) - m = d /\ f + d - 1 = k
    BY <1>10, <2>1
  <2>. QED
    BY <1>4, <1>5, <1>8, <2>1, <2>2
<1>12. ASSUME NEW i \in DOMAIN r, ~(i <= m)
       PROVE  \E k \in DOMAIN q :
                /\ r[i] = q[k]
                /\ \A l \in DOMAIN q : l > k => \E j \in DOMAIN r : j > i /\ r[j] = q[l]
  <2>1. PICK k \in Int : k = i - m + f - 1
    BY <1>8, <1>10
  <2>2. k \in f..n /\ m + (k + 1 - f) = i /\ k \in DOMAIN q
    <3>1. i \in 1..(m + c) /\ f \in Nat /\ f > 0
      BY <1>8, <1>10, <1>12
    <3>2. k \in f..n /\ k \in 1..n
      BY <1>10, <1>12, <2>1, <3>1
    <3>3. m + (k + 1 - f) = i
      <4>1. \A a, b, x \in Int : b + ((a - b + x - 1) + 1 - x) = a
        OBVIOUS
      <4>. QED
        BY <2>1, <3>1, <4>1
    <3>. QED
      BY <1>1, <3>2, <3>3
  <2>3. ASSUME NEW l \in DOMAIN q, l > k
        PROVE  \E j \in DOMAIN r : j > i /\ r[j] = q[l]
    <3>1. l \in f..n /\ m + (l + 1 - f) > i
      <4>1. l \in 1..n /\ f \in Nat /\ k \in Int /\ i \in Int
        BY <1>1, <1>10, <2>1, <2>2
      <4>2. l \in f..n
        BY <1>10, <2>2, <2>3, <4>1
      <4>3. \A a, b, x, y \in Int : b > a => y + (b + 1 - x) > y + (a + 1 - x)
        OBVIOUS
      <4>4. l \in Int /\ f \in Int /\ m \in Int
        BY <4>1
      <4>5. m + (l + 1 - f) > m + (k + 1 - f)
        BY <2>3, <4>1, <4>3, <4>4
      <4>. QED
        BY <2>2, <4>2, <4>5
    <3>. QED
      BY <1>11, <3>1
  <2>. QED
    BY <1>11, <2>2, <2>3
<1>13. \A i \in DOMAIN r : i <= m => i \in 1..m
  BY <1>8
<1>. QED
  BY <1>2, <1>7, <1>9, <1>12, <1>13 DEF Rebuilt

\* The queue that the initial sync leaves: additions, then what came after the list.
Synced(r, q, S) ==
    /\ \A s \in S : \E i \in DOMAIN r : r[i].svc = s
    /\ \A i \in DOMAIN r :
         \/ r[i].named /\ ~r[i].update /\ r[i].old = None /\ ~r[i].flagged
         \/ \E k \in DOMAIN q :
              /\ r[i] = q[k]
              /\ \A l \in DOMAIN q : l > k => \E j \in DOMAIN r : j > i /\ r[j] = q[l]

LEMMA SyncedQueue ==
    ASSUME queue \in Seq(Changes), NEW ss \in SetToSeqs(Listed),
           queue' = [i \in DOMAIN ss |-> Addition(ss[i])] \o SubSeq(queue, FirstUpdate, Len(queue))
    PROVE  queue' \in Seq(Changes) /\ Synced(queue', queue, Listed)
<1>1. PICK S \in SUBSET Services : S = Listed
  BY DEF Listed
<1>2. PICK A : A = [i \in DOMAIN ss |-> Addition(ss[i])]
  OBVIOUS
<1>3. A \in Seq(Changes) /\ AreAdditions(A, S)
  BY <1>1, <1>2, AdditionsOf
<1>4. PICK f \in 1..(Len(queue) + 1) : f = FirstUpdate
  BY FirstUpdateFacts
<1>5. PICK r : r = A \o SubSeq(queue, f, Len(queue)) /\ r = queue'
  BY <1>2, <1>4
<1>6. r \in Seq(Changes) /\ Rebuilt(r, A, queue)
  BY <1>3, <1>4, <1>5, RebuiltQueue
<1>7. ASSUME NEW s \in S PROVE \E i \in DOMAIN r : r[i].svc = s
  <2>1. PICK i \in DOMAIN A : A[i].svc = s
    BY <1>3 DEF AreAdditions
  <2>2. i \in DOMAIN r /\ r[i] = A[i]
    BY <1>6 DEF Rebuilt
  <2>. QED
    BY <2>1, <2>2
<1>8. ASSUME NEW i \in DOMAIN r
      PROVE  \/ r[i].named /\ ~r[i].update /\ r[i].old = None /\ ~r[i].flagged
             \/ \E k \in DOMAIN queue :
                  /\ r[i] = queue[k]
                  /\ \A l \in DOMAIN queue : l > k =>
                       \E j \in DOMAIN r : j > i /\ r[j] = queue[l]
  <2>1. CASE i \in DOMAIN A /\ r[i] = A[i]
    BY <1>3, <2>1 DEF AreAdditions
  <2>2. CASE ~(i \in DOMAIN A /\ r[i] = A[i])
    BY <1>6, <2>2 DEF Rebuilt
  <2>. QED
    BY <2>1, <2>2
<1>9. Synced(r, queue, S)
  BY <1>7, <1>8 DEF Synced
<1>. QED
  BY <1>1, <1>5, <1>6, <1>9

\* A service whose address the informer knows is listed.
LEMMA ListedFacts ==
    ASSUME Inv, ~synced, NEW s \in Services, AllocationOf(service[s]) \in IpRange,
           \A i \in DOMAIN events : events[i].svc # s
    PROVE  s \in Listed /\ cache[s] = service[s] /\ cache[s].ip = AllocationOf(service[s])
<1>. USE InvIs
<1>1. cache[s] = service[s] /\ service[s] \in Objects
  BY NoEvent DEF TypeOK
<1>2. /\ service[s].exists /\ service[s].lb /\ service[s].ip = AllocationOf(service[s])
      /\ service[s].ip # None
  BY <1>1, ObjectFacts, ConstantFacts
<1>3. PICK i \in DOMAIN queue : queue[i].svc = s /\ \A j \in 1..i : ~queue[j].update
  BY <1>2 DEF WaitsForSync, HasAddress
<1>4. queue \in Seq(Changes)
  BY SeqFacts
<1>5. i \in 1..(FirstUpdate - 1)
  BY <1>3, <1>4, FirstUpdateFacts
<1>. QED
  BY <1>1, <1>2, <1>3, <1>5 DEF Listed

LEMMA SyncStep ==
    ASSUME Inv, ProcessInitialSync
    PROVE  Inv'
<1>. USE InvIs
<1>1. /\ ~synced /\ synced' = TRUE
      /\ service' = service /\ events' = events /\ cache' = cache /\ delayed' = delayed
      /\ requeued' = requeued /\ job' = job /\ used' = used
      /\ disputed' = {a \in IpRange : \E s, t \in Listed :
                                       s # t /\ cache[s].ip = a /\ cache[t].ip = a}
  BY DEF ProcessInitialSync, storeVars
<1>2. local' = [taken |-> {cache[s].ip : s \in Holders},
                owner |-> [a \in IpRange |->
                             IF \E s \in Holders : cache[s].ip = a
                             THEN CHOOSE s \in Holders : cache[s].ip = a
                             ELSE None]]
  BY DEF ProcessInitialSync
<1>3. queue' \in Seq(Changes) /\ Synced(queue', queue, Listed)
  <2>1. PICK ss \in SetToSeqs(Listed) :
          queue' = [i \in DOMAIN ss |-> Addition(ss[i])] \o SubSeq(queue, FirstUpdate, Len(queue))
    BY DEF ProcessInitialSync
  <2>. QED
    BY <2>1, SeqFacts, SyncedQueue
<1>4. job = Idle /\ delayed = <<>> /\ requeued = {} /\ \A i \in DOMAIN queue : ~queue[i].flagged
  BY <1>1 DEF WaitsForSync
<1>5. ~Working' /\ Todo' = "nothing" /\ job.change.svc = None
  BY <1>1, <1>4 DEF Working, Todo, Idle, NoChange
<1>6. /\ \A a \in IpRange : \/ local'.owner[a] \in Holders /\ cache[local'.owner[a]].ip = a
                            \/ local'.owner[a] = None /\ \A s \in Holders : cache[s].ip # a
      /\ local'.taken = {cache[s].ip : s \in Holders}
      /\ Holders \subseteq Listed /\ Listed \subseteq Services
      /\ \A s \in Holders : cache[s].ip \in IpRange
  <2>1. \A a \in IpRange : \/ local'.owner[a] \in Holders /\ cache[local'.owner[a]].ip = a
                           \/ local'.owner[a] = None /\ \A s \in Holders : cache[s].ip # a
    BY <1>2
  <2>2. local'.taken = {cache[s].ip : s \in Holders}
    BY <1>2
  <2>. QED
    BY <2>1, <2>2 DEF Holders, Listed
<1>7. TypeOK'
  <2>1. local' \in [taken : SUBSET IpRange, owner : [IpRange -> Services \cup {None}]]
    <3>1. local'.taken \in SUBSET IpRange
      BY <1>6
    <3>2. \A a \in IpRange : local'.owner[a] \in Services \cup {None}
      BY <1>6
    <3>3. local' = [taken |-> local'.taken, owner |-> [a \in IpRange |-> local'.owner[a]]]
      BY <1>2
    <3>. QED
      BY <3>1, <3>2, <3>3
  <2>. QED
    BY <1>1, <1>3, <2>1 DEF TypeOK
<1>8. WaitsForSync' /\ DelayedIsSound' /\ JobIsSound'
  BY <1>1, <1>5 DEF WaitsForSync, DelayedIsSound, JobIsSound
<1>9. QueueIsSound'
  <2>. SUFFICES ASSUME NEW i \in DOMAIN queue'
                PROVE  /\ ~queue'[i].update => queue'[i].old = None
                       /\ ~queue'[i].named /\ HasAddress(cache[queue'[i].svc]) =>
                            \E j \in DOMAIN queue' :
                               j > i /\ queue'[j].svc = queue'[i].svc /\ queue'[j].update
    BY <1>1 DEF QueueIsSound, HasAddress
  <2>1. CASE queue'[i].named /\ ~queue'[i].update /\ queue'[i].old = None
    BY <2>1
  <2>2. CASE \E k \in DOMAIN queue :
               /\ queue'[i] = queue[k]
               /\ \A l \in DOMAIN queue :
                    l > k => \E j \in DOMAIN queue' : j > i /\ queue'[j] = queue[l]
    <3>1. PICK k \in DOMAIN queue :
               /\ queue'[i] = queue[k]
               /\ \A l \in DOMAIN queue :
                    l > k => \E j \in DOMAIN queue' : j > i /\ queue'[j] = queue[l]
      BY <2>2
    <3>2. ~queue[k].update => queue[k].old = None
      BY DEF QueueIsSound
    <3>3. ASSUME ~queue[k].named, HasAddress(cache[queue[k].svc])
          PROVE  \E j \in DOMAIN queue' :
                   j > i /\ queue'[j].svc = queue[k].svc /\ queue'[j].update
      <4>1. PICK l \in DOMAIN queue : l > k /\ queue[l].svc = queue[k].svc /\ queue[l].update
        BY <3>3 DEF QueueIsSound
      <4>. QED
        BY <3>1, <4>1
    <3>. QED
      BY <3>1, <3>2, <3>3
  <2>. QED
    BY <1>3, <2>1, <2>2 DEF Synced
<1>10. AllocatorIsExact'
  <2>1. local'.taken = {a \in IpRange : local'.owner[a] # None}
    <3>1. \A a \in IpRange : a \in local'.taken <=> local'.owner[a] # None
      BY <1>6, ConstantFacts
    <3>2. local'.taken \subseteq IpRange
      BY <1>6
    <3>. QED
      BY <3>1, <3>2
  <2>. QED
    BY <1>5, <2>1 DEF AllocatorIsExact
<1>11. RequeuedIsSound'
  <2>1. \A i \in DOMAIN queue' : ~queue'[i].flagged
    BY <1>3, <1>4 DEF Synced
  <2>2. \A s \in Services : Marked(queue', s) = {} /\ Marked(delayed', s) = {}
    BY <1>1, <1>4, <2>1 DEF Marked
  <2>. QED
    BY <1>1, <1>4, <2>2, RequeuedIsNext DEF RequeuedOnce, Alone, Marked
<1>12. ASSUME NEW s \in Services PROVE IsRecorded(s)'
  <2>. DEFINE a == AllocationOf(service[s])
  <2>. SUFFICES ASSUME a \in IpRange, \A i \in DOMAIN events : events[i].svc # s
                PROVE  Pending(s)' /\ (a \notin disputed' => local'.owner[a] = s)
    <3>1. (\E i \in DOMAIN events : events[i].svc = s) => Edited(s)'
      BY <1>1 DEF Edited
    <3>. QED
      BY <1>1, <3>1, EditedRecorded DEF IsRecorded
  <2>1. s \in Listed /\ cache[s] = service[s] /\ cache[s].ip = a
    BY <1>1, ListedFacts
  <2>. HIDE DEF a
  <2>2. Pending(s)'
    BY <1>3, <2>1 DEF Synced, Pending
  <2>3. ASSUME a \notin disputed' PROVE local'.owner[a] = s
    <3>1. \A t \in Listed \ {s} : cache[t].ip # a
      BY <1>1, <2>1, <2>3
    <3>2. s \in Holders
      BY <2>1, <3>1 DEF Holders
    <3>. QED
      BY <1>6, <2>1, <3>1, <3>2
  <2>. QED
    BY <2>2, <2>3
<1>13. EventsFollow' /\ ExternalOnlyWithStatus'
  BY <1>1, SameEvents DEF ExternalOnlyWithStatus
<1>. QED
  BY <1>7, <1>8, <1>9, <1>10, <1>11, <1>12, <1>13, InvIsNext

-------------------------------------------------------------------------------
(* The allocations in memory *)

Locals == [taken : SUBSET IpRange, owner : [IpRange -> Services \cup {None}]]

Exact(l) == \A a \in IpRange : a \in l.taken <=> l.owner[a] # None

LEMMA ExactIs ==
    ASSUME TypeOK
    PROVE  /\ local \in Locals
           /\ Todo # "set_status" => (AllocatorIsExact <=> Exact(local))
<1>1. local \in Locals /\ local.taken \subseteq IpRange
  BY DEF TypeOK, Locals
<1>. QED
  BY <1>1 DEF AllocatorIsExact, Exact

LEMMA ClearedFacts ==
    ASSUME NEW l \in Locals, Exact(l), NEW s \in Services, NEW x
    PROVE  /\ Cleared(l, s, x) \in Locals /\ Exact(Cleared(l, s, x))
           /\ \A a \in IpRange : \/ Cleared(l, s, x).owner[a] = l.owner[a]
                                 \/ l.owner[a] = s /\ Cleared(l, s, x).owner[a] = None /\ a = x
<1>1. CASE x \in IpRange /\ l.owner[x] = s
  <2>1. Cleared(l, s, x) = [taken |-> l.taken \ {x}, owner |-> [l.owner EXCEPT ![x] = None]]
    BY <1>1 DEF Cleared
  <2>2. \A a \in IpRange : Cleared(l, s, x).owner[a] = IF a = x THEN None ELSE l.owner[a]
    BY <2>1 DEF Locals
  <2>3. Cleared(l, s, x) \in Locals
    <3>1. [l.owner EXCEPT ![x] = None] \in [IpRange -> Services \cup {None}]
      BY DEF Locals
    <3>2. l.taken \ {x} \in SUBSET IpRange
      BY DEF Locals
    <3>. QED
      BY <2>1, <3>1, <3>2 DEF Locals
  <2>4. Cleared(l, s, x).taken = l.taken \ {x}
    BY <2>1
  <2>5. Exact(Cleared(l, s, x))
    BY <2>2, <2>4 DEF Exact
  <2>. QED
    BY <1>1, <2>2, <2>3, <2>5
<1>2. CASE ~(x \in IpRange /\ l.owner[x] = s)
  BY <1>2 DEF Cleared
<1>. QED
  BY <1>1, <1>2

LEMMA WithFacts ==
    ASSUME NEW l \in Locals, NEW s \in Services, NEW a \in IpRange
    PROVE  /\ With(l, s, a) \in Locals
           /\ With(l, s, a).taken = l.taken \cup {a}
           /\ \A b \in IpRange : With(l, s, a).owner[b] = IF b = a THEN s ELSE l.owner[b]
BY DEF With, Locals

LEMMA RecordedFacts ==
    ASSUME NEW l \in Locals, Exact(l), NEW s \in Services, NEW a \in Addresses
    PROVE  /\ Recorded(l, s, a) \in Locals /\ Exact(Recorded(l, s, a))
           /\ RecordLocal(l, s, a) # "error"
           /\ RecordLocal(l, s, a) = "reallocate" =>
                /\ Recorded(l, s, a) = l
                /\ a \in IpRange => l.owner[a] \notin {s, None}
           /\ RecordLocal(l, s, a) # "reallocate" =>
                a \in IpRange /\ Recorded(l, s, a).owner[a] = s
           /\ \A b \in IpRange : \/ Recorded(l, s, a).owner[b] = l.owner[b]
                                 \/ l.owner[b] = None /\ Recorded(l, s, a).owner[b] = s
<1>1. CASE a = Outside
  BY <1>1, ConstantFacts DEF RecordLocal, Recorded
<1>2. CASE a \in IpRange /\ l.owner[a] # None
  BY <1>2, ConstantFacts DEF RecordLocal, Recorded
<1>3. CASE a \in IpRange /\ l.owner[a] = None
  <2>1. a \notin l.taken /\ a # Outside /\ l.owner[a] # s /\ s # None
    BY <1>3, ConstantFacts DEF Exact
  <2>2. RecordLocal(l, s, a) = "record" /\ Recorded(l, s, a) = With(l, s, a)
    BY <1>3, <2>1 DEF RecordLocal, Recorded, Free
  <2>3. Exact(With(l, s, a))
    BY <1>3, <2>1, WithFacts DEF Exact
  <2>. QED
    BY <1>3, <2>2, <2>3, WithFacts
<1>. QED
  BY <1>1, <1>2, <1>3, ConstantFacts

-------------------------------------------------------------------------------
(* A change is taken *)

LEMMA TupleConcat ==
    ASSUME NEW a, NEW b, NEW c
    PROVE  /\ <<>> \o <<a>> = <<a>>
           /\ <<a>> \o <<b>> = <<a, b>>
           /\ <<a, b>> \o <<c>> = <<a, b, c>>
<1>. DEFINE S == {a, b, c}
<1>1. /\ <<a>> \in Seq(S) /\ <<b>> \in Seq(S) /\ <<c>> \in Seq(S)
      /\ <<a, b>> \in Seq(S) /\ <<a, b, c>> \in Seq(S)
  OBVIOUS
<1>. HIDE DEF S
<1>2. <<>> \o <<a>> = <<a>>
  BY <1>1, ConcatEmptySeq
<1>3. <<a>> \o <<b>> = <<a, b>>
  <2>1. /\ <<a>> \o <<b>> \in Seq(S) /\ Len(<<a>> \o <<b>>) = 1 + 1
        /\ \A i \in 1..(1 + 1) : (<<a>> \o <<b>>)[i] = IF i <= 1 THEN <<a>>[i] ELSE <<b>>[i - 1]
    BY <1>1, ConcatProperties
  <2>2. PICK r \in Seq(S) : r = <<a>> \o <<b>>
    BY <2>1
  <2>3. Len(r) = 2 /\ r[1] = a /\ r[2] = b
    BY <2>1, <2>2
  <2>4. Len(<<a, b>>) = Len(r) /\ \A i \in 1..Len(r) : r[i] = <<a, b>>[i]
    BY <2>3
  <2>. QED
    BY <1>1, <2>2, <2>4, SeqEqual
<1>4. <<a, b>> \o <<c>> = <<a, b, c>>
  <2>1. /\ <<a, b>> \o <<c>> \in Seq(S) /\ Len(<<a, b>> \o <<c>>) = 2 + 1
        /\ \A i \in 1..(2 + 1) : (<<a, b>> \o <<c>>)[i] = IF i <= 2 THEN <<a, b>>[i] ELSE <<c>>[i - 2]
    BY <1>1, ConcatProperties
  <2>2. PICK r \in Seq(S) : r = <<a, b>> \o <<c>>
    BY <2>1
  <2>3. Len(r) = 3 /\ r[1] = a /\ r[2] = b /\ r[3] = c
    BY <2>1, <2>2
  <2>4. Len(<<a, b, c>>) = Len(r) /\ \A i \in 1..Len(r) : r[i] = <<a, b, c>>[i]
    BY <2>3
  <2>. QED
    BY <1>1, <2>2, <2>4, SeqEqual
<1>. QED
  BY <1>2, <1>3, <1>4

\* How an address is taken away.
LEMMA ClearPersistedIs ==
    ASSUME NEW obj
    PROVE  ClearPersisted(obj) = IF obj.ip \in obj.external
                                 THEN <<"remove_external", "clear_status">>
                                 ELSE <<"clear_status">>
BY TupleConcat DEF ClearPersisted

LEMMA PlanForFacts ==
    ASSUME NEW l, NEW s, NEW obj \in Objects, NEW p, p = PlanFor(l, s, obj), p # <<>>
    PROVE  /\ p \in Plans /\ obj.exists
           /\ Head(p) = "clear_status" =>
                /\ obj.ip \notin obj.external
                /\ obj.lb => RecordLocal(l, s, obj.ip) = "reallocate"
           /\ Head(p) = "allocate" => obj.ip = None
           /\ Head(p) = "add_external" => obj.ip # None
           /\ Head(p) \notin {"set_status", "forget"}
<1>1. obj.exists
  BY DEF PlanFor
<1>2. CASE obj.lb /\ obj.ip = None
  <2>1. p = <<"allocate">>
    BY <1>1, <1>2 DEF PlanFor
  <2>. QED
    BY <1>1, <1>2, <2>1 DEF Plans
<1>3. CASE obj.lb /\ obj.ip # None /\ RecordLocal(l, s, obj.ip) # "reallocate"
  <2>1. p = EnsureExternal(obj, obj.ip)
    BY <1>1, <1>3 DEF PlanFor
  <2>2. p = <<"add_external">>
    BY <2>1 DEF EnsureExternal
  <2>. QED
    BY <1>1, <1>3, <2>2 DEF Plans
<1>4. CASE obj.ip # None /\ (~obj.lb \/ RecordLocal(l, s, obj.ip) = "reallocate")
  <2>1. PICK z \in {"allocate", "forget"} : p = ClearPersisted(obj) \o <<z>>
    BY <1>1, <1>4 DEF PlanFor
  <2>2. CASE obj.ip \in obj.external
    <3>1. p = <<"remove_external", "clear_status">> \o <<z>>
      BY <2>1, <2>2, ClearPersistedIs
    <3>2. p = <<"remove_external", "clear_status", z>>
      BY <3>1, TupleConcat
    <3>3. p \in Plans /\ Head(p) = "remove_external"
      BY <3>2 DEF Plans
    <3>. QED
      BY <1>1, <3>3
  <2>3. CASE obj.ip \notin obj.external
    <3>1. p = <<"clear_status">> \o <<z>>
      BY <2>1, <2>3, ClearPersistedIs
    <3>2. p = <<"clear_status", z>>
      BY <3>1, TupleConcat
    <3>3. p \in Plans /\ Head(p) = "clear_status"
      BY <3>2 DEF Plans
    <3>. QED
      BY <1>1, <1>4, <2>3, <3>3
  <2>. QED
    BY <2>2, <2>3
<1>5. CASE ~obj.lb /\ obj.ip = None
  BY <1>1, <1>5 DEF PlanFor
<1>. QED
  BY <1>2, <1>3, <1>4, <1>5

\* An address that has to be replaced makes a plan.
LEMMA ReallocatePlans ==
    ASSUME NEW l, NEW s, NEW obj \in Objects, obj.exists, obj.lb, obj.ip # None,
           RecordLocal(l, s, obj.ip) = "reallocate"
    PROVE  PlanFor(l, s, obj) # <<>>
<1>1. PlanFor(l, s, obj) = ClearPersisted(obj) \o <<"allocate">>
  BY DEF PlanFor
<1>2. ClearPersisted(obj) \in Seq(Steps)
  <2>1. "remove_external" \in Steps /\ "clear_status" \in Steps
    BY DEF Steps, Writes
  <2>2. <<"remove_external", "clear_status">> \in Seq(Steps) /\ <<"clear_status">> \in Seq(Steps)
    BY <2>1
  <2>. QED
    BY <2>2, ClearPersistedIs
<1>3. <<"allocate">> \in Seq(Steps) /\ <<"allocate">> # <<>>
  BY DEF Steps
<1>. QED
  BY <1>1, <1>2, <1>3, ConcatEqualIffEmpty

\* What a worker does when it takes the change h of the service s.
Taken(h, s, c, obj, l, p) ==
    /\ queue \in Seq(Changes) /\ queue # <<>> /\ h = queue[1] /\ s = h.svc
    /\ c.svc = s /\ c.named = h.named /\ c.update = h.update /\ c.old = h.old
    /\ ~c.update => c.old = None
    /\ obj = (IF c.named THEN cache[s] ELSE Absent)
    /\ p = PlanFor(l, s, obj)
    /\ Exact(l) /\ (c.old = None => l = local)
    /\ \A b \in IpRange :
         \/ l.owner[b] = local.owner[b]
         \/ local.owner[b] = s /\ l.owner[b] = None
    /\ synced /\ ~Working
    /\ queue' = Tail(queue) /\ requeued' = (IF h.flagged THEN requeued \ {s} ELSE requeued)
    /\ local' = (IF AllocationOf(obj) = None THEN l ELSE Recorded(l, s, AllocationOf(obj)))
    /\ job' = IF p = <<>> THEN Idle
              ELSE [change |-> c, ip |-> obj.ip, plan |-> p,
                    fresh |-> \A i \in DOMAIN events : events[i].svc # s]
    /\ service' = service /\ events' = events /\ cache' = cache /\ delayed' = delayed
    /\ synced' = synced /\ used' = used /\ disputed' = disputed

LEMMA WorkTakes ==
    ASSUME Inv, Work
    PROVE  \E h \in Changes, s \in Services, c \in Changes, obj \in Objects, l \in Locals :
              \E p : Taken(h, s, c, obj, l, p)
<1>. USE InvIs
<1>1. /\ synced /\ ~Working /\ queue # <<>> /\ queue' = Tail(queue)
      /\ service' = service /\ events' = events /\ cache' = cache
      /\ synced' = synced /\ used' = used /\ disputed' = disputed
  BY DEF Work, storeVars
<1>2. queue \in Seq(Changes)
  BY SeqFacts
<1>3. PICK h \in Changes : h = Head(queue) /\ h = queue[1]
  BY <1>1, <1>2, TailFacts
<1>4. PICK s \in Services : s = h.svc
  BY <1>3, SeqFacts
<1>5. PICK c \in Changes : c = [Head(queue) EXCEPT !.flagged = FALSE]
  BY <1>3 DEF Changes
<1>6. /\ c.svc = s /\ c.named = h.named /\ c.update = h.update /\ c.old = h.old
      /\ c.named \in BOOLEAN
  BY <1>3, <1>4, <1>5 DEF Changes
<1>7. ~c.update => c.old = None
  <2>1. 1 \in DOMAIN queue
    BY <1>1, <1>2, TailKeeps
  <2>. QED
    BY <1>3, <1>6, <2>1 DEF QueueIsSound
<1>8. PICK obj \in Objects : obj = IF c.named THEN cache[c.svc] ELSE Absent
  BY <1>6, ObjectFacts DEF TypeOK
<1>9. PICK a \in Addresses \cup {None} : a = AllocationOf(obj)
  BY ObjectFacts
<1>10. PICK l : l = IF c.old \notin {None, a} THEN Cleared(local, c.svc, c.old) ELSE local
  OBVIOUS
<1>11. local \in Locals /\ Exact(local)
  BY <1>1, ExactIs, JobFacts
<1>12. /\ l \in Locals /\ Exact(l) /\ (c.old = None => l = local)
       /\ \A b \in IpRange : \/ l.owner[b] = local.owner[b]
                             \/ local.owner[b] = s /\ l.owner[b] = None
  <2>1. CASE c.old \notin {None, a}
    BY <1>6, <1>10, <1>11, <2>1, ClearedFacts
  <2>2. CASE c.old \in {None, a}
    BY <1>10, <1>11, <2>2
  <2>. QED
    BY <2>1, <2>2
<1>13. PICK p : p = PlanFor(l, c.svc, obj)
  OBVIOUS
<1>14. ~(a # None /\ RecordLocal(l, c.svc, a) = "error")
  BY <1>6, <1>9, <1>12, RecordedFacts
<1>15. PICK k : k = IF Head(queue).flagged THEN requeued \ {c.svc} ELSE requeued
  OBVIOUS
<1>16. /\ local' = IF a = None THEN l ELSE Recorded(l, c.svc, a)
       /\ IF a # None /\ RecordLocal(l, c.svc, a) = "error"
          THEN job' = Idle /\ Fails(c, FALSE, k)
          ELSE /\ job' = IF p = <<>> THEN Idle
                         ELSE [change |-> c, ip |-> obj.ip, plan |-> p,
                               fresh |-> \A i \in DOMAIN events : events[i].svc # c.svc]
               /\ requeued' = k
               /\ delayed' = delayed
  <2>. DEFINE change == [Head(queue) EXCEPT !.flagged = FALSE]
              o == IF change.named THEN cache[change.svc] ELSE Absent
              x == AllocationOf(o)
              m == IF change.old \notin {None, x} THEN Cleared(local, change.svc, change.old)
                   ELSE local
              plan == PlanFor(m, change.svc, o)
              keys == IF Head(queue).flagged THEN requeued \ {change.svc} ELSE requeued
  <2>1. /\ local' = IF x = None THEN m ELSE Recorded(m, change.svc, x)
        /\ IF x # None /\ RecordLocal(m, change.svc, x) = "error"
           THEN job' = Idle /\ Fails(change, FALSE, keys)
           ELSE /\ job' = IF plan = <<>> THEN Idle
                          ELSE [change |-> change, ip |-> o.ip, plan |-> plan,
                                fresh |-> \A i \in DOMAIN events : events[i].svc # change.svc]
                /\ requeued' = keys
                /\ delayed' = delayed
    BY DEF Work
  <2>2. change = c
    BY <1>5
  <2>. HIDE DEF change
  <2>3. o = obj
    BY <1>8, <2>2
  <2>. HIDE DEF o
  <2>4. x = a
    BY <1>9, <2>3
  <2>. HIDE DEF x
  <2>5. m = l
    BY <1>10, <2>2, <2>4
  <2>. HIDE DEF m
  <2>6. plan = p /\ keys = k
    BY <1>13, <1>15, <2>2, <2>3, <2>5
  <2>. HIDE DEF plan, keys
  <2>. QED
    BY <2>1, <2>2, <2>3, <2>4, <2>5, <2>6
<1>17. Taken(h, s, c, obj, l, p)
  BY <1>1, <1>2, <1>3, <1>4, <1>6, <1>7, <1>8, <1>9, <1>12, <1>13, <1>14, <1>15, <1>16 DEF Taken
<1>. QED
  BY <1>17, <1>12

\* The rest of the queue.
LEMMA WorkQueue ==
    ASSUME TypeOK, QueueIsSound, NEW h, NEW s, NEW c, NEW obj, NEW l, NEW p,
           Taken(h, s, c, obj, l, p)
    PROVE  /\ queue' \in Seq(Changes) /\ QueueIsSound'
           /\ \A i \in DOMAIN queue : queue[i] = h \/ \E j \in DOMAIN queue' : queue'[j] = queue[i]
           /\ ~h.named /\ HasAddress(cache[s]) =>
                \E j \in DOMAIN queue' : queue'[j].svc = s /\ queue'[j].update
<1>1. PICK q \in Seq(Changes) : q = queue /\ q # <<>> /\ h = q[1] /\ s = h.svc
  BY DEF Taken
<1>2. PICK r : r = Tail(q) /\ r = queue'
  BY <1>1 DEF Taken
<1>. PICK n \in Nat \ {0} : n = Len(q)
  BY <1>1, TailFacts
<1>3. /\ r \in Seq(Changes) /\ DOMAIN q = 1..n /\ DOMAIN r = 1..(n - 1)
      /\ \A i \in DOMAIN r : r[i] = q[i + 1]
  BY <1>1, <1>2, TailFacts
<1>4. \A i \in DOMAIN q : q[i] = q[1] \/ \E j \in DOMAIN r : r[j] = q[i]
  <2>1. \A i \in DOMAIN q : i = 1 \/ (i - 1 \in DOMAIN r /\ (i - 1) + 1 = i)
    BY <1>3
  <2>. QED
    BY <1>3, <2>1
<1>5. ASSUME NEW i \in DOMAIN q, ~q[i].named, HasAddress(cache[q[i].svc])
      PROVE  \E j \in DOMAIN q : j > i /\ q[j].svc = q[i].svc /\ q[j].update
  BY <1>1, <1>5 DEF QueueIsSound
<1>6. ASSUME NEW i \in DOMAIN q, ~q[i].named, HasAddress(cache[q[i].svc])
      PROVE  \E j \in DOMAIN r : j > i - 1 /\ r[j].svc = q[i].svc /\ r[j].update
  <2>1. PICK j \in DOMAIN q : j > i /\ q[j].svc = q[i].svc /\ q[j].update
    BY <1>5, <1>6
  <2>2. j - 1 \in DOMAIN r /\ (j - 1) + 1 = j /\ j - 1 > i - 1
    BY <1>3, <2>1
  <2>. QED
    BY <1>3, <2>1, <2>2
<1>7. QueueIsSound'
  <2>. SUFFICES ASSUME NEW i \in DOMAIN r
                PROVE  /\ ~r[i].update => r[i].old = None
                       /\ ~r[i].named /\ HasAddress(cache[r[i].svc]) =>
                            \E j \in DOMAIN r : j > i /\ r[j].svc = r[i].svc /\ r[j].update
    <3>1. cache' = cache
      BY DEF Taken
    <3>. QED
      BY <1>2, <3>1 DEF QueueIsSound, HasAddress
  <2>1. i + 1 \in DOMAIN q /\ r[i] = q[i + 1] /\ (i + 1) - 1 = i
    BY <1>3
  <2>2. ~r[i].update => r[i].old = None
    BY <1>1, <2>1 DEF QueueIsSound
  <2>. QED
    BY <1>6, <2>1, <2>2
<1>8. ASSUME ~h.named, HasAddress(cache[s])
      PROVE  \E j \in DOMAIN r : r[j].svc = s /\ r[j].update
  <2>1. 1 \in DOMAIN q /\ q[1] = h /\ q[1].svc = s
    BY <1>1, <1>3
  <2>2. ~q[1].named /\ HasAddress(cache[q[1].svc])
    BY <1>8, <2>1
  <2>3. \E j \in DOMAIN r : j > 1 - 1 /\ r[j].svc = q[1].svc /\ r[j].update
    BY <1>6, <2>1, <2>2
  <2>. QED
    BY <2>1, <2>3
<1>. QED
  BY <1>1, <1>2, <1>3, <1>4, <1>7, <1>8

\* The plan that is made is one for what is stored, unless there is an event.
LEMMA WorkJob ==
    ASSUME Inv, NEW h \in Changes, NEW s \in Services, NEW c \in Changes, NEW obj \in Objects,
           NEW l \in Locals, NEW p, Taken(h, s, c, obj, l, p)
    PROVE  /\ JobIsSound' /\ Todo' # "set_status"
           /\ job' = Idle \/ job' \in [change : Changes, ip : Addresses \cup {None},
                                       fresh : BOOLEAN, plan : Seq(Steps) \ {<<>>}]
           /\ p # <<>> => job'.change = c
           /\ p = <<>> => job'.change.svc = None
<1>. USE InvIs
<1>1. CASE p = <<>>
  <2>1. job' = Idle
    BY <1>1 DEF Taken
  <2>2. ~Working' /\ Todo' = "nothing" /\ job'.change.svc = None
    BY <2>1 DEF Idle, NoChange, Working, Todo
  <2>. QED
    BY <1>1, <2>1, <2>2 DEF JobIsSound
<1>2. CASE p # <<>>
  <2>. PICK f \in BOOLEAN : f <=> \A i \in DOMAIN events : events[i].svc # s
    OBVIOUS
  <2>1. job' = [change |-> c, ip |-> obj.ip, plan |-> p, fresh |-> f]
    BY <1>2 DEF Taken
  <2>2. /\ p \in Plans /\ obj.exists
        /\ Head(p) = "clear_status" =>
             /\ obj.ip \notin obj.external
             /\ obj.lb => RecordLocal(l, s, obj.ip) = "reallocate"
        /\ Head(p) = "allocate" => obj.ip = None
        /\ Head(p) = "add_external" => obj.ip # None
        /\ Head(p) \notin {"set_status", "forget"}
    BY <1>2, PlanForFacts DEF Taken
  <2>3. p \in Seq(Steps) \ {<<>>}
    BY <2>2, PlanFacts
  <2>4. c.svc = s /\ c.svc # None /\ obj.ip \in Addresses \cup {None}
    BY SeqFacts, ObjectFacts DEF Taken
  <2>5. Working' /\ Todo' = Head(p)
    BY <2>1, <2>4 DEF Working, NoChange, Todo
  <2>6. c.named /\ obj = cache[s]
    BY <2>2, ObjectFacts DEF Taken
  <2>7. ASSUME f PROVE CopyIsStored(s)'
    <3>1. obj = service[s] /\ service'[s] = service[s]
      BY <2>6, <2>7, NoEvent DEF Taken
    <3>2. Head(p) = "clear_status" => service[s].external = {}
      BY <2>2, <3>1 DEF ExternalOnlyWithStatus
    <3>3. ASSUME Head(p) = "clear_status", obj.lb, obj.ip \in IpRange
          PROVE  local'.owner[obj.ip] \notin {s, None}
      <4>1. AllocationOf(obj) = obj.ip /\ obj.ip \in Addresses /\ obj.ip # None
        BY <2>2, <3>3, ConstantFacts DEF AllocationOf
      <4>2. RecordLocal(l, s, obj.ip) = "reallocate"
        BY <2>2, <3>3
      <4>3. Exact(l)
        BY DEF Taken
      <4>4. Recorded(l, s, obj.ip) = l /\ l.owner[obj.ip] \notin {s, None}
        BY <3>3, <4>1, <4>2, <4>3, RecordedFacts
      <4>5. local' = Recorded(l, s, obj.ip)
        BY <4>1 DEF Taken
      <4>. QED
        BY <4>4, <4>5
    <3>4. job'.ip = obj.ip
      BY <2>1
    <3>. QED
      BY <2>2, <2>5, <3>1, <3>2, <3>3, <3>4 DEF CopyIsStored
  <2>8. ASSUME ~f PROVE IsOvertaken(s)'
    BY <2>8 DEF IsOvertaken, Taken
  <2>9. JobIsSound'
    <3>1. job'.change = c /\ job'.plan = p /\ job'.fresh = f
      BY <2>1
    <3>2. ~c.update => c.old = None
      BY DEF Taken
    <3>3. IF job'.fresh THEN CopyIsStored(job.change.svc)' ELSE IsOvertaken(job.change.svc)'
      BY <2>4, <2>7, <2>8, <3>1 DEF CopyIsStored, IsOvertaken
    <3>. QED
      BY <2>2, <2>6, <3>1, <3>2, <3>3 DEF JobIsSound
  <2>. QED
    BY <1>2, <2>1, <2>2, <2>3, <2>4, <2>5, <2>9
<1>. QED
  BY <1>1, <1>2

LEMMA WorkStep ==
    ASSUME Inv, Work
    PROVE  Inv'
<1>. USE InvIs
<1>0. PICK h \in Changes, s \in Services, c \in Changes, obj \in Objects, l \in Locals :
             \E p : Taken(h, s, c, obj, l, p)
  BY WorkTakes
<1>1. PICK p : Taken(h, s, c, obj, l, p)
  BY <1>0
<1>2. /\ queue' \in Seq(Changes) /\ QueueIsSound'
      /\ \A i \in DOMAIN queue : queue[i] = h \/ \E j \in DOMAIN queue' : queue'[j] = queue[i]
      /\ ~h.named /\ HasAddress(cache[s]) =>
           \E j \in DOMAIN queue' : queue'[j].svc = s /\ queue'[j].update
  BY <1>1, WorkQueue
<1>3. /\ JobIsSound' /\ Todo' # "set_status"
      /\ job' = Idle \/ job' \in [change : Changes, ip : Addresses \cup {None},
                                  fresh : BOOLEAN, plan : Seq(Steps) \ {<<>>}]
      /\ p # <<>> => job'.change = c
      /\ p = <<>> => job'.change.svc = None
  BY <1>1, WorkJob
<1>4. /\ service' = service /\ events' = events /\ cache' = cache /\ delayed' = delayed
      /\ synced' = synced /\ used' = used /\ disputed' = disputed /\ synced /\ ~Working
      /\ h.svc = s /\ c.svc = s /\ c.update = h.update
      /\ requeued' = (IF h.flagged THEN requeued \ {s} ELSE requeued)
  BY <1>1 DEF Taken
<1>5. PICK a \in Addresses \cup {None} : a = AllocationOf(obj)
  BY ObjectFacts
<1>6. /\ Exact(l) /\ local' = (IF a = None THEN l ELSE Recorded(l, s, a))
      /\ \A b \in IpRange : \/ l.owner[b] = local.owner[b]
                            \/ local.owner[b] = s /\ l.owner[b] = None
  BY <1>1, <1>5 DEF Taken
<1>7. /\ local' \in Locals /\ Exact(local')
      /\ \A b \in IpRange : \/ local'.owner[b] = l.owner[b]
                            \/ l.owner[b] = None /\ local'.owner[b] = s
  <2>1. CASE a = None
    BY <1>6, <2>1
  <2>2. CASE a \in Addresses
    BY <1>6, <2>2, ConstantFacts, RecordedFacts
  <2>. QED
    BY <1>5, <2>1, <2>2
<1>8. TypeOK'
  BY <1>2, <1>3, <1>4, <1>7 DEF TypeOK, Locals
<1>9. WaitsForSync' /\ EventsFollow' /\ DelayedIsSound' /\ ExternalOnlyWithStatus'
  BY <1>4, SameEvents DEF WaitsForSync, DelayedIsSound, ExternalOnlyWithStatus
<1>10. AllocatorIsExact'
  <2>1. local'.taken \subseteq IpRange
    BY <1>7 DEF Locals
  <2>. QED
    BY <1>3, <1>7, <2>1 DEF AllocatorIsExact, Exact
<1>11. ASSUME NEW q \in Services PROVE RequeuedOnce(q)'
  <2>1. RequeuedOnce(q)
    BY RequeuedIs
  <2>2. queue \in Seq(Changes) /\ queue # <<>> /\ queue' = Tail(queue) /\ h = queue[1]
    BY <1>1 DEF Taken
  <2>3. /\ ~(h.svc = q /\ h.flagged) =>
             /\ (Marked(queue', q) = {} <=> Marked(queue, q) = {})
             /\ (Alone(queue, q) => Alone(queue', q))
        /\ h.svc = q /\ h.flagged =>
             /\ Marked(queue, q) # {}
             /\ (Alone(queue, q) => Marked(queue', q) = {} /\ Alone(queue', q))
    BY <2>2, MarkedTail
  <2>4. /\ Marked(queue, q)' = Marked(queue', q) /\ (Alone(queue, q)' <=> Alone(queue', q))
        /\ Marked(delayed, q)' = Marked(delayed', q) /\ (Alone(delayed, q)' <=> Alone(delayed', q))
    BY DEF Marked, Alone
  <2>. QED
    BY <1>4, <2>1, <2>3, <2>4 DEF RequeuedOnce
<1>12. job.change.svc \notin Services
  BY <1>4, JobFacts
<1>13. ASSUME NEW q \in Services, q # s PROVE IsRecorded(q)'
  <2>1. Undisturbed(q)
    BY <1>2, <1>4, <1>13 DEF Undisturbed
  <2>2. \A b \in IpRange : local.owner[b] = q => local'.owner[b] = q
    BY <1>6, <1>7, <1>13, ConstantFacts
  <2>. QED
    BY <1>4, <1>12, <2>1, <2>2, OthersRecorded
<1>14. IsRecorded(s)'
  <2>. SUFFICES ASSUME ~Edited(s)', AllocationOf(service[s]) \in IpRange
                PROVE  IsRecorded(s)'
    BY <1>4, EditedRecorded
  <2>1. cache[s] = service[s] /\ HasAddress(cache[s])
    <3>1. \A i \in DOMAIN events : events[i].svc # s
      BY <1>4 DEF Edited
    <3>2. cache[s] = service[s] /\ service[s] \in Objects
      BY <3>1, NoEvent DEF TypeOK
    <3>. QED
      BY <3>2, ObjectFacts, ConstantFacts DEF HasAddress
  <2>2. obj = service[s] /\ a = AllocationOf(service[s])
    <3>1. c.named
      BY <1>1, <1>2, <2>1 DEF Edited, Taken
    <3>. QED
      BY <1>1, <1>5, <2>1, <3>1 DEF Taken
  <2>3. a \in Addresses /\ a \in IpRange /\ a # None /\ local' = Recorded(l, s, a)
    BY <1>6, <2>2, ConstantFacts
  <2>4. CASE RecordLocal(l, s, a) # "reallocate"
    <3>1. local'.owner[a] = s
      BY <1>6, <2>3, <2>4, RecordedFacts
    <3>. QED
      BY <1>4, <2>2, <3>1 DEF IsRecorded
  <2>5. CASE RecordLocal(l, s, a) = "reallocate"
    <3>1. l.owner[a] \notin {s, None}
      BY <1>6, <2>3, <2>5, RecordedFacts
    <3>2. p # <<>>
      <4>1. obj.exists /\ obj.lb /\ obj.ip = a
        BY <2>2, <2>3, ObjectFacts
      <4>. QED
        BY <1>1, <2>3, <2>5, <4>1, ReallocatePlans DEF Taken
    <3>3. job'.change.svc = s /\ job'.change.update = c.update
      BY <1>3, <1>4, <3>2
    <3>4. Pending(s)'
      BY <3>3 DEF Pending
    <3>5. ASSUME ~c.update, a \notin disputed PROVE FALSE
      <4>1. l = local
        BY <1>1, <3>5 DEF Taken
      <4>2. ~Edited(s)
        BY <1>2, <1>4, <3>5 DEF Edited
      <4>3. job.change.svc # s
        BY <1>12
      <4>4. local.owner[a] = s
        BY <1>4, <2>2, <2>3, <3>5, <4>2, <4>3 DEF IsRecorded
      <4>. QED
        BY <3>1, <4>1, <4>4
    <3>. QED
      BY <1>4, <2>2, <3>3, <3>4, <3>5 DEF IsRecorded
  <2>. QED
    BY <2>4, <2>5
<1>15. RequeuedIsSound'
  BY <1>11, RequeuedIsNext
<1>. QED
  BY <1>2, <1>3, <1>8, <1>9, <1>10, <1>13, <1>14, <1>15, InvIsNext

-------------------------------------------------------------------------------
(* What is left of a change is done *)

JobRecords == [change : Changes, ip : Addresses \cup {None}, fresh : BOOLEAN,
               plan : Seq(Steps) \ {<<>>}]

LEMMA Busy ==
    ASSUME Inv, Working
    PROVE  /\ synced /\ job \in JobRecords /\ job.change \in Changes
           /\ job.change.svc \in Services /\ job.change.svc # None
           /\ job.change.named /\ (~job.change.update => job.change.old = None)
           /\ job.plan \in Plans /\ Todo = Head(job.plan)
           /\ job.fresh => CopyIsStored(job.change.svc)
           /\ ~job.fresh => IsOvertaken(job.change.svc)
<1>1. job # Idle
  BY DEF Working, Idle
<1>. QED
  BY <1>1, InvIs, JobFacts DEF WaitsForSync, JobIsSound, JobRecords, Working

LEMMA TodoWorks == Todo # "nothing" => Working
BY DEF Todo

\* What is known of a change that was overtaken: the service has no address, or
\* was edited.
LEMMA OvertakenEdited ==
    ASSUME Inv, NEW s \in Services, IsOvertaken(s), AllocationOf(service[s]) \in IpRange
    PROVE  Edited(s)
<1>. USE InvIs
<1>. SUFFICES ASSUME \A i \in DOMAIN events : events[i].svc # s PROVE Edited(s)
  BY DEF Edited
<1>1. cache[s] = service[s] /\ service[s] \in Objects
  BY NoEvent DEF TypeOK
<1>2. HasAddress(cache[s])
  BY <1>1, ObjectFacts, ConstantFacts DEF HasAddress
<1>. QED
  BY <1>2 DEF IsOvertaken, Edited

\* What fails comes back, or another change of the service does.
LEMMA FailsFacts ==
    ASSUME Inv, NEW c \in Changes, c.named, ~c.update => c.old = None,
           NEW full \in BOOLEAN, Fails(c, full, requeued), queue' = queue
    PROVE  /\ delayed' \in Seq(Changes) /\ requeued' \in SUBSET Services
           /\ \A i \in DOMAIN delayed : \E j \in DOMAIN delayed' : delayed'[j] = delayed[i]
           /\ ~full => \E j \in DOMAIN delayed' :
                         delayed'[j].svc = c.svc /\ delayed'[j].update = c.update
           /\ Pending(c.svc)'
           /\ DelayedIsSound' /\ RequeuedIsSound'
<1>. USE InvIs
<1>. PICK s \in Services : s = c.svc
  BY SeqFacts
<1>1. /\ delayed \in Seq(Changes) /\ requeued \in SUBSET Services
      /\ \A q \in Services : RequeuedOnce(q)
  BY SeqFacts, RequeuedIs DEF TypeOK
<1>2. CASE full /\ s \in requeued
  <2>1. delayed' = delayed /\ requeued' = requeued
    BY <1>2 DEF Fails
  <2>2. Pending(s)'
    <3>1. Marked(queue, s) # {} \/ Marked(delayed, s) # {}
      BY <1>1, <1>2 DEF RequeuedOnce
    <3>. QED
      BY <2>1, <3>1 DEF Pending, Marked
  <2>3. Pending(c.svc)'
    BY <2>2 DEF Pending
  <2>4. DelayedIsSound' /\ RequeuedIsSound'
    BY <2>1, RequeuedSame DEF DelayedIsSound
  <2>. QED
    BY <1>1, <1>2, <2>1, <2>3, <2>4
<1>3. CASE ~(full /\ s \in requeued)
  <2>1. PICK x \in Changes : x = [c EXCEPT !.flagged = full]
    BY DEF Changes
  <2>2. x.svc = s /\ x.named /\ x.update = c.update /\ x.old = c.old /\ (x.flagged <=> full)
    BY <2>1 DEF Changes
  <2>3. /\ delayed' = Append(delayed, x)
        /\ requeued' = IF full THEN requeued \cup {s} ELSE requeued
    BY <1>3, <2>1 DEF Fails
  <2>4. PICK r : r = Append(delayed, x) /\ r = delayed'
    BY <2>3
  <2>5. /\ \A i \in DOMAIN delayed : \E j \in DOMAIN r : r[j] = delayed[i]
        /\ \E j \in DOMAIN r : r[j] = x
        /\ \A j \in DOMAIN r : r[j] = x \/ \E i \in DOMAIN delayed : delayed[i] = r[j]
        /\ r \in Seq(Changes)
    <3>. delayed \in Seq(Changes) /\ r = Append(delayed, x)
      BY <1>1, <2>4
    <3>1. \A i \in DOMAIN delayed : \E j \in DOMAIN r : r[j] = delayed[i]
      BY AppendKeeps
    <3>2. \E j \in DOMAIN r : r[j] = x
      BY AppendKeeps
    <3>3. \A j \in DOMAIN r : r[j] = x \/ \E i \in DOMAIN delayed : delayed[i] = r[j]
      BY AppendKeeps
    <3>4. r \in Seq(Changes)
      BY AppendKeeps
    <3>. QED
      BY <3>1, <3>2, <3>3, <3>4
  <2>6. Pending(c.svc)'
    BY <2>2, <2>4, <2>5 DEF Pending
  <2>7. DelayedIsSound'
    <3>. SUFFICES ASSUME NEW j \in DOMAIN r
                  PROVE  r[j].named /\ (~r[j].update => r[j].old = None)
      BY <2>4 DEF DelayedIsSound
    <3>1. CASE r[j] = x
      BY <2>2, <3>1
    <3>2. CASE \E i \in DOMAIN delayed : delayed[i] = r[j]
      BY <3>2 DEF DelayedIsSound
    <3>. QED
      BY <2>5, <3>1, <3>2
  <2>8. ASSUME NEW q \in Services PROVE RequeuedOnce(q)'
    <3>1. RequeuedOnce(q)
      BY <1>1
    <3>2. /\ ~(x.svc = q /\ x.flagged) =>
               /\ (Marked(r, q) = {} <=> Marked(delayed, q) = {})
               /\ (Alone(delayed, q) => Alone(r, q))
          /\ x.svc = q /\ x.flagged =>
               Marked(r, q) # {} /\ (Marked(delayed, q) = {} => Alone(r, q))
      BY <1>1, <2>4, MarkedAppend
    <3>3. /\ Marked(queue, q)' = Marked(queue, q) /\ (Alone(queue, q)' <=> Alone(queue, q))
          /\ Marked(delayed, q)' = Marked(r, q) /\ (Alone(delayed, q)' <=> Alone(r, q))
      BY <2>4 DEF Marked, Alone
    <3>. QED
      BY <1>3, <2>2, <2>3, <3>1, <3>2, <3>3 DEF RequeuedOnce
  <2>9. RequeuedIsSound'
    BY <2>8, RequeuedIsNext
  <2>. QED
    BY <1>1, <2>2, <2>3, <2>4, <2>5, <2>6, <2>7, <2>9
<1>. QED
  BY <1>2, <1>3

\* What is said of services other than the one that is worked on, or of all of
\* them if nothing is said of that one.
LEMMA AllRecorded ==
    ASSUME Inv, NEW s \in Services, job.change.svc = s, IsRecorded(s)',
           \A q : Undisturbed(q), UNCHANGED <<synced, disputed>>,
           \A q \in Services \ {s} : service'[q] = service[q],
           \A b \in IpRange : local'.owner[b] = local.owner[b] \/ local.owner[b] \in {s, None}
    PROVE  \A q \in Services : IsRecorded(q)'
<1>. SUFFICES ASSUME NEW q \in Services, q # s PROVE IsRecorded(q)'
  OBVIOUS
<1>1. \A b \in IpRange : local.owner[b] = q => local'.owner[b] = q
  BY ConstantFacts
<1>2. IsRecorded(q) /\ Undisturbed(q)
  BY InvIs
<1>. QED
  BY <1>1, <1>2, OthersRecorded

LEMMA LocalFacts ==
    ASSUME Inv
    PROVE  /\ local \in Locals /\ local.taken \subseteq IpRange
           /\ \A b \in IpRange : local.owner[b] \in Services \cup {None}
           /\ Todo # "set_status" => Exact(local)
           /\ Todo = "set_status" =>
                /\ job.ip \in IpRange /\ local.owner[job.ip] = None
                /\ \A b \in IpRange : b \in local.taken <=> b = job.ip \/ local.owner[b] # None
<1>. USE InvIs
<1>1. local \in Locals
  BY ExactIs
<1>2. local.taken \subseteq IpRange /\ \A b \in IpRange : local.owner[b] \in Services \cup {None}
  BY <1>1 DEF Locals
<1>. QED
  BY <1>1, <1>2, ExactIs DEF AllocatorIsExact

ToStore(a, plan) == [job EXCEPT !.ip = a, !.plan = plan]

LEMMA AllocateIs ==
    ASSUME Allocate
    PROVE  /\ Todo = "allocate"
           /\ service' = service /\ events' = events /\ cache' = cache /\ queue' = queue
           /\ synced' = synced /\ used' = used /\ disputed' = disputed
           /\ \/ job' = Idle /\ Fails(job.change, TRUE, requeued) /\ local' = local
              \/ \E a \in Free(local) : \E p :
                   /\ p = <<"set_status", "add_external">>
                   /\ local' = [local EXCEPT !.taken = @ \cup {a}]
                   /\ job' = ToStore(a, p)
                   /\ delayed' = delayed /\ requeued' = requeued
<1>1. Todo = "allocate"
  BY Zenon DEF Allocate
<1>2. UNCHANGED <<storeVars, cache, queue, synced, used, disputed>>
  BY Zenon DEF Allocate
<1>3. \/ job' = Idle /\ Fails(job.change, TRUE, requeued) /\ local' = local
      \/ \E a \in Free(local) : \E p :
            /\ p = <<"set_status", "add_external">>
            /\ local' = [local EXCEPT !.taken = @ \cup {a}]
            /\ job' = ToStore(a, p)
            /\ delayed' = delayed /\ requeued' = requeued
  BY Zenon DEF Allocate, ToStore
<1>. QED
  BY <1>1, <1>2, <1>3 DEF storeVars

LEMMA AllocateStep ==
    ASSUME Inv, Allocate
    PROVE  Inv'
<1>. USE InvIs
<1>1. Working /\ Todo = "allocate"
  BY AllocateIs, TodoWorks
<1>2. /\ synced /\ job \in JobRecords /\ job.change \in Changes
      /\ job.change.svc # None
      /\ job.change.named /\ (~job.change.update => job.change.old = None)
      /\ job.plan \in Plans /\ Todo = Head(job.plan)
      /\ job.fresh => CopyIsStored(job.change.svc)
      /\ ~job.fresh => IsOvertaken(job.change.svc)
  BY <1>1, Busy
<1>. PICK s \in Services : s = job.change.svc
  BY <1>1, Busy
<1>3. /\ service' = service /\ events' = events /\ cache' = cache /\ queue' = queue
      /\ synced' = synced /\ used' = used /\ disputed' = disputed
  BY AllocateIs
<1>4. WaitsForSync' /\ EventsFollow' /\ QueueIsSound' /\ ExternalOnlyWithStatus'
  BY <1>2, <1>3, SameEvents DEF WaitsForSync, QueueIsSound, ExternalOnlyWithStatus
<1>5. local \in Locals /\ Exact(local)
  BY <1>1, LocalFacts
<1>6. ASSUME \A q : Undisturbed(q), \A b \in IpRange : local'.owner[b] = local.owner[b]
      PROVE  \A q \in Services : IsRecorded(q)'
  <2>1. IsRecorded(s)'
    <3>1. CASE job.fresh
      <4>1. service[s].ip = None
        BY <1>1, <1>2, <3>1 DEF CopyIsStored
      <4>2. AllocationOf(service[s]) \notin IpRange
        BY <4>1, ConstantFacts DEF AllocationOf
      <4>. QED
        BY <1>3, <4>2, EditedRecorded
    <3>2. CASE ~job.fresh
      <4>1. AllocationOf(service[s]) \in IpRange => Edited(s)
        BY <1>2, <3>2, OvertakenEdited
      <4>2. Edited(s) => Edited(s)'
        BY <1>6, StillToDo
      <4>. QED
        BY <1>3, <4>1, <4>2, EditedRecorded
    <3>. QED
      BY <3>1, <3>2
  <2>. QED
    BY <1>3, <1>6, <2>1, AllRecorded
<1>7. CASE job' = Idle /\ Fails(job.change, TRUE, requeued) /\ local' = local
  <2>. PICK full \in BOOLEAN : full = TRUE
    OBVIOUS
  <2>1. /\ delayed' \in Seq(Changes) /\ requeued' \in SUBSET Services
        /\ \A i \in DOMAIN delayed : \E j \in DOMAIN delayed' : delayed'[j] = delayed[i]
        /\ DelayedIsSound' /\ RequeuedIsSound'
    BY <1>2, <1>3, <1>7, FailsFacts
  <2>2. ~Working' /\ Todo' = "nothing"
    BY <1>7 DEF Working, Todo, Idle, NoChange
  <2>3. TypeOK'
    BY <1>3, <1>7, <2>1 DEF TypeOK
  <2>4. JobIsSound' /\ AllocatorIsExact'
    <3>1. local.taken = {b \in IpRange : local.owner[b] # None}
      BY <1>1 DEF AllocatorIsExact
    <3>. QED
      BY <1>7, <2>2, <3>1 DEF JobIsSound, AllocatorIsExact
  <2>5. \A q : Undisturbed(q)
    BY <1>3, <2>1 DEF Undisturbed
  <2>. QED
    BY <1>4, <1>6, <1>7, <2>1, <2>3, <2>4, <2>5, InvIsNext
<1>8. CASE \E a \in Free(local) : \E p :
             /\ p = <<"set_status", "add_external">>
             /\ local' = [local EXCEPT !.taken = @ \cup {a}]
             /\ job' = ToStore(a, p)
             /\ delayed' = delayed /\ requeued' = requeued
  <2>0. PICK a \in IpRange : \E p :
             /\ p = <<"set_status", "add_external">>
             /\ a \notin local.taken
             /\ local' = [local EXCEPT !.taken = @ \cup {a}]
             /\ job' = ToStore(a, p)
             /\ delayed' = delayed /\ requeued' = requeued
    BY <1>8 DEF Free
  <2>1. PICK p :
             /\ p = <<"set_status", "add_external">>
             /\ a \notin local.taken
             /\ local' = [local EXCEPT !.taken = @ \cup {a}]
             /\ job' = ToStore(a, p)
             /\ delayed' = delayed /\ requeued' = requeued
    BY <2>0
  <2>2. p \in Plans /\ p \in Seq(Steps) \ {<<>>} /\ Head(p) = "set_status"
    <3>1. p \in Plans
      BY <2>1 DEF Plans
    <3>2. p \in Seq(Steps) \ {<<>>}
      BY <3>1, PlanFacts
    <3>. QED
      BY <2>1, <3>1, <3>2
  <2>3. /\ job' \in JobRecords /\ job'.change = job.change /\ job'.fresh = job.fresh
        /\ job'.ip = a /\ job'.plan = p
    <3>1. a \in Addresses \cup {None} /\ p \in Seq(Steps) \ {<<>>}
      BY <2>2, ConstantFacts
    <3>2. job' = [job EXCEPT !.ip = a, !.plan = p]
      BY <2>1 DEF ToStore
    <3>. QED
      BY <1>2, <3>1, <3>2 DEF JobRecords
  <2>4. Working' /\ Todo' = "set_status"
    BY <1>1, <2>2, <2>3 DEF Working, Todo
  <2>5. /\ local' \in Locals /\ local'.taken = local.taken \cup {a} /\ local'.owner = local.owner
    BY <1>5, <2>1 DEF Locals
  <2>6. TypeOK'
    BY <1>3, <2>1, <2>3, <2>5 DEF TypeOK, JobRecords, Locals
  <2>7. JobIsSound'
    <3>1. job.fresh => CopyIsStored(s)'
      BY <1>1, <1>2, <1>3, <2>4 DEF CopyIsStored
    <3>2. ~job.fresh => IsOvertaken(s)'
      BY <1>2, <1>3 DEF IsOvertaken, HasAddress
    <3>3. IF job'.fresh THEN CopyIsStored(job.change.svc)' ELSE IsOvertaken(job.change.svc)'
      BY <2>3, <3>1, <3>2 DEF CopyIsStored, IsOvertaken
    <3>. QED
      BY <1>2, <2>2, <2>3, <3>3 DEF JobIsSound
  <2>8. AllocatorIsExact'
    <3>1. \A b \in IpRange : b \in local.taken <=> local.owner[b] # None
      BY <1>5 DEF Exact
    <3>2. local.taken \subseteq IpRange
      BY LocalFacts
    <3>. QED
      BY <2>1, <2>3, <2>4, <2>5, <3>1, <3>2 DEF AllocatorIsExact
  <2>9. DelayedIsSound' /\ RequeuedIsSound'
    BY <1>3, <2>1, RequeuedSame DEF DelayedIsSound
  <2>10. \A q : Undisturbed(q)
    BY <1>3, <2>1 DEF Undisturbed
  <2>11. \A q \in Services : IsRecorded(q)'
    BY <1>6, <2>5, <2>10
  <2>. QED
    BY <1>4, <2>6, <2>7, <2>8, <2>9, <2>11, InvIsNext
<1>. QED
  BY <1>7, <1>8, AllocateIs

\* What is stored makes sense whichever write it is.
LEMMA WrittenFacts ==
    ASSUME Inv, Todo \in Writes, job.fresh, NEW s \in Services, s = job.change.svc,
           NEW o, o = Written(service[s], job.ip)
    PROVE  o \in Objects /\ o.external \subseteq {o.ip} /\ service[s].exists
<1>. USE InvIs
<1>1. Working
  BY TodoWorks DEF Writes
<1>2. /\ job \in JobRecords /\ CopyIsStored(s)
  BY <1>1, Busy
<1>3. PICK old \in Objects : old = service[s]
  BY DEF TypeOK
<1>4. /\ old.external \subseteq {old.ip} /\ old.exists
      /\ old.external \subseteq Addresses /\ None \notin Addresses
      /\ old.ip \in Addresses \cup {None} /\ job.ip \in Addresses \cup {None}
  BY <1>2, <1>3, ObjectFacts, ConstantFacts DEF ExternalOnlyWithStatus, CopyIsStored, JobRecords
<1>5. CASE Todo = "remove_external"
  <2>1. o = [old EXCEPT !.external = @ \ {job.ip}]
    BY <1>3, <1>5 DEF Written
  <2>2. o \in Objects /\ o.ip = old.ip /\ o.external = old.external \ {job.ip}
    BY <1>4, <2>1 DEF Objects
  <2>. QED
    BY <1>3, <1>4, <2>2
<1>6. CASE Todo = "clear_status"
  <2>1. o = [old EXCEPT !.ip = None]
    BY <1>3, <1>6 DEF Written
  <2>2. o \in Objects /\ o.external = old.external
    BY <1>4, <2>1 DEF Objects
  <2>3. old.external = {}
    BY <1>2, <1>3, <1>6 DEF CopyIsStored
  <2>. QED
    BY <1>3, <1>4, <2>2, <2>3
<1>7. CASE Todo = "set_status"
  <2>1. o = [old EXCEPT !.ip = job.ip]
    BY <1>3, <1>7 DEF Written
  <2>2. o \in Objects /\ o.external = old.external
    BY <1>4, <2>1 DEF Objects
  <2>3. old.ip = None
    BY <1>2, <1>3, <1>7 DEF CopyIsStored
  <2>4. old.external = {}
    BY <1>4, <2>3
  <2>. QED
    BY <1>3, <1>4, <2>2, <2>4
<1>8. CASE Todo = "add_external"
  <2>1. o = [old EXCEPT !.external = @ \cup {job.ip}]
    BY <1>3, <1>8 DEF Written
  <2>2. job.ip \in Addresses /\ old.ip = job.ip
    BY <1>2, <1>3, <1>4, <1>8 DEF CopyIsStored
  <2>3. o \in Objects /\ o.ip = old.ip /\ o.external = old.external \cup {job.ip}
    BY <1>4, <2>1, <2>2 DEF Objects
  <2>. QED
    BY <1>3, <1>4, <2>2, <2>3
<1>. QED
  BY <1>5, <1>6, <1>7, <1>8 DEF Writes

LEMMA PersistFacts ==
    ASSUME Inv, Todo \in Writes, Persist \/ UNCHANGED storeVars, cache' = cache,
           NEW s \in Services, s = job.change.svc
    PROVE  /\ service' \in [Services -> Objects] /\ events' \in Seq(Event)
           /\ \A q \in Services \ {s} : service'[q] = service[q]
           /\ \A i \in DOMAIN events : \E j \in DOMAIN events' : events'[j] = events[i]
           /\ EventsFollow' /\ ExternalOnlyWithStatus'
           /\ \/ service' = service /\ events' = events /\ (job.fresh => ~Persist)
              \/ job.fresh /\ \E i \in DOMAIN events' : events'[i].svc = s
<1>. USE InvIs
<1>1. CASE UNCHANGED storeVars /\ (job.fresh => ~Persist)
  <2>1. service' = service /\ events' = events
    BY <1>1 DEF storeVars
  <2>. QED
    BY <1>1, <2>1, SameEvents, SeqFacts DEF TypeOK, ExternalOnlyWithStatus
<1>2. CASE job.fresh /\ Persist
  <2>1. PICK o : o = Written(service[s], job.ip)
    OBVIOUS
  <2>2. o \in Objects /\ o.external \subseteq {o.ip} /\ service[s].exists
    BY <1>2, <2>1, WrittenFacts
  <2>3. Store(s, o)
    BY <1>2, <2>1 DEF Persist
  <2>4. /\ service' \in [Services -> Objects] /\ service'[s] = o
        /\ \A q \in Services \ {s} : service'[q] = service[q]
        /\ events' \in Seq(Event)
        /\ \A i \in DOMAIN events : \E j \in DOMAIN events' : events'[j] = events[i]
        /\ \E i \in DOMAIN events' : events'[i].svc = s
        /\ EventsFollow'
    BY <2>2, <2>3, StoreFollows
  <2>5. ExternalOnlyWithStatus'
    <3>. SUFFICES ASSUME NEW q \in Services
                  PROVE  service'[q].external \subseteq {service'[q].ip}
      BY DEF ExternalOnlyWithStatus
    <3>1. CASE q = s
      BY <2>2, <2>4, <3>1
    <3>2. CASE q # s
      BY <2>4, <3>2 DEF ExternalOnlyWithStatus
    <3>. QED
      BY <3>1, <3>2
  <2>. QED
    BY <1>2, <2>4, <2>5
<1>3. ~job.fresh /\ Persist => UNCHANGED storeVars
  BY DEF Persist
<1>. QED
  BY <1>1, <1>2, <1>3

Continued(rest) == [job EXCEPT !.plan = rest, !.fresh = FALSE]

LEMMA WriteDoneIs ==
    ASSUME WriteDone
    PROVE  /\ Todo \in Writes /\ Persist
           /\ local' = IF Todo = "set_status" THEN With(local, job.change.svc, job.ip) ELSE local
           /\ \E rest : /\ rest = Tail(job.plan)
                        /\ job' = IF rest = <<>> THEN Idle ELSE Continued(rest)
           /\ cache' = cache /\ queue' = queue /\ delayed' = delayed /\ synced' = synced
           /\ requeued' = requeued /\ used' = used /\ disputed' = disputed
<1>1. Todo \in Writes /\ Persist
  BY Zenon DEF WriteDone
<1>2. local' = IF Todo = "set_status" THEN With(local, job.change.svc, job.ip) ELSE local
  BY Zenon DEF WriteDone
<1>3. job' = IF Tail(job.plan) = <<>> THEN Idle ELSE Continued(Tail(job.plan))
  BY Zenon DEF WriteDone, Continued
<1>4. UNCHANGED <<cache, queueVars, synced, requeued, used, disputed>>
  BY Zenon DEF WriteDone
<1>5. \E rest : /\ rest = Tail(job.plan)
                /\ job' = IF rest = <<>> THEN Idle ELSE Continued(rest)
  BY <1>3
<1>. QED
  BY <1>1, <1>2, <1>4, <1>5 DEF queueVars

LEMMA WriteDoneStep ==
    ASSUME Inv, WriteDone
    PROVE  Inv'
<1>. USE InvIs
<1>1. /\ Todo \in Writes /\ Persist
      /\ local' = IF Todo = "set_status" THEN With(local, job.change.svc, job.ip) ELSE local
      /\ cache' = cache /\ queue' = queue /\ delayed' = delayed /\ synced' = synced
      /\ requeued' = requeued /\ used' = used /\ disputed' = disputed
  BY WriteDoneIs
<1>2. Working
  BY <1>1, TodoWorks DEF Writes
<1>3. /\ synced /\ job \in JobRecords /\ job.change \in Changes
      /\ job.change.svc # None
      /\ job.change.named /\ (~job.change.update => job.change.old = None)
      /\ job.plan \in Plans /\ Todo = Head(job.plan)
      /\ job.fresh => CopyIsStored(job.change.svc)
      /\ ~job.fresh => IsOvertaken(job.change.svc)
  BY <1>2, Busy
<1>. PICK s \in Services : s = job.change.svc
  BY <1>2, Busy
<1>4. /\ service' \in [Services -> Objects] /\ events' \in Seq(Event)
      /\ \A q \in Services \ {s} : service'[q] = service[q]
      /\ \A i \in DOMAIN events : \E j \in DOMAIN events' : events'[j] = events[i]
      /\ EventsFollow' /\ ExternalOnlyWithStatus'
      /\ \/ service' = service /\ events' = events /\ ~job.fresh
         \/ job.fresh /\ \E i \in DOMAIN events' : events'[i].svc = s
  BY <1>1, PersistFacts
<1>5. PICK rest : /\ rest = Tail(job.plan)
                  /\ job' = IF rest = <<>> THEN Idle ELSE Continued(rest)
  BY WriteDoneIs
<1>6. rest # <<>> => rest \in Plans /\ Head(rest) # "set_status"
  <2>1. job.plan \in Plans /\ Todo = Head(job.plan)
    BY <1>3
  <2>2. CASE Todo = "remove_external"
    BY <1>5, <2>1, <2>2, PlanFacts
  <2>3. CASE Todo = "clear_status"
    <3>1. rest \in {<<"allocate">>, <<"forget">>}
      BY <1>5, <2>1, <2>3, PlanFacts
    <3>. QED
      BY <3>1 DEF Plans
  <2>4. CASE Todo = "set_status"
    <3>1. rest = <<"add_external">>
      BY <1>5, <2>1, <2>4, PlanFacts
    <3>. QED
      BY <3>1 DEF Plans
  <2>5. CASE Todo = "add_external"
    BY <1>5, <2>1, <2>5, PlanFacts
  <2>. QED
    BY <1>1, <2>2, <2>3, <2>4, <2>5 DEF Writes
<1>7. \/ job' = Idle /\ ~Working' /\ Todo' = "nothing"
      \/ /\ job' \in JobRecords /\ job'.change = job.change /\ ~job'.fresh
         /\ job'.plan \in Plans /\ Working' /\ Todo' # "set_status"
  <2>1. CASE rest = <<>>
    BY <1>5, <2>1 DEF Working, Todo, Idle, NoChange
  <2>2. CASE rest # <<>>
    <3>1. rest \in Plans /\ rest \in Seq(Steps) \ {<<>>} /\ job' = Continued(rest)
      BY <1>5, <1>6, <2>2, PlanFacts
    <3>2. /\ job' \in JobRecords /\ job'.change = job.change /\ job'.plan = rest
          /\ ~job'.fresh
      BY <1>3, <3>1 DEF Continued, JobRecords
    <3>3. Working' /\ Todo' = Head(rest)
      BY <1>2, <3>2 DEF Working, Todo
    <3>. QED
      BY <1>6, <2>2, <3>1, <3>2, <3>3
  <2>. QED
    BY <2>1, <2>2
<1>8. local \in Locals /\ local.taken \subseteq IpRange
  BY LocalFacts
<1>9. /\ local' \in Locals /\ Exact(local')
      /\ \A b \in IpRange : local'.owner[b] = local.owner[b] \/ local.owner[b] = None
  <2>1. CASE Todo = "set_status"
    <3>1. PICK a \in IpRange : a = job.ip
      BY <2>1, LocalFacts
    <3>2. /\ local.owner[a] = None
          /\ \A b \in IpRange : b \in local.taken <=> b = a \/ local.owner[b] # None
      BY <2>1, <3>1, LocalFacts
    <3>3. local' = With(local, s, a)
      BY <1>1, <2>1, <3>1
    <3>4. /\ local' \in Locals /\ local'.taken = local.taken \cup {a}
          /\ \A b \in IpRange : local'.owner[b] = IF b = a THEN s ELSE local.owner[b]
      BY <1>8, <3>3, WithFacts
    <3>. QED
      BY <3>2, <3>4, ConstantFacts DEF Exact
  <2>2. CASE Todo # "set_status"
    BY <1>1, <1>8, <2>2, LocalFacts
  <2>. QED
    BY <2>1, <2>2
<1>10. TypeOK'
  BY <1>1, <1>4, <1>7, <1>9 DEF TypeOK, JobRecords, Locals, Event
<1>11. WaitsForSync' /\ QueueIsSound' /\ DelayedIsSound' /\ RequeuedIsSound'
  BY <1>1, <1>3, RequeuedSame DEF WaitsForSync, QueueIsSound, DelayedIsSound
<1>12. \A q : Undisturbed(q)
  BY <1>1, <1>4 DEF Undisturbed
<1>13. IsOvertaken(s)'
  <2>1. CASE job.fresh
    BY <1>4, <2>1 DEF IsOvertaken
  <2>2. CASE ~job.fresh
    BY <1>1, <1>3, <1>12, <2>2, StillToDo
  <2>. QED
    BY <2>1, <2>2
<1>14. JobIsSound'
  <2>1. CASE ~Working'
    BY <2>1 DEF JobIsSound
  <2>2. CASE Working'
    <3>1. job'.change = job.change /\ ~job'.fresh /\ job'.plan \in Plans
      BY <1>7, <2>2
    <3>2. IsOvertaken(job.change.svc)'
      BY <1>13, <3>1 DEF IsOvertaken
    <3>. QED
      BY <1>3, <3>1, <3>2 DEF JobIsSound
  <2>. QED
    BY <2>1, <2>2
<1>15. AllocatorIsExact'
  <2>1. local'.taken \subseteq IpRange /\ Todo' # "set_status"
    BY <1>7, <1>9 DEF Locals
  <2>. QED
    BY <1>9, <2>1 DEF AllocatorIsExact, Exact
<1>16. IsRecorded(s)'
  <2>1. CASE job.fresh
    <3>1. Edited(s)'
      BY <1>4, <2>1 DEF Edited
    <3>. QED
      BY <3>1, EditedRecorded
  <2>2. CASE ~job.fresh
    <3>1. AllocationOf(service[s]) \in IpRange => Edited(s)
      BY <1>3, <2>2, OvertakenEdited
    <3>2. Edited(s) => Edited(s)'
      BY <1>12, StillToDo
    <3>3. service' = service
      BY <1>4, <2>2
    <3>. QED
      BY <3>1, <3>2, <3>3, EditedRecorded
  <2>. QED
    BY <2>1, <2>2
<1>17. \A q \in Services : IsRecorded(q)'
  BY <1>1, <1>4, <1>9, <1>12, <1>16, AllRecorded
<1>. QED
  BY <1>4, <1>10, <1>11, <1>14, <1>15, <1>17, InvIsNext

LEMMA WriteFailsIs ==
    ASSUME WriteFails
    PROVE  /\ Todo \in Writes /\ (Persist \/ UNCHANGED storeVars)
           /\ used < MaxInterference /\ used' = used + 1
           /\ local' = IF Todo = "set_status"
                       THEN [local EXCEPT !.taken = @ \ {job.ip}] ELSE local
           /\ job' = Idle /\ Fails(job.change, FALSE, requeued)
           /\ cache' = cache /\ queue' = queue /\ synced' = synced /\ disputed' = disputed
BY Zenon DEF WriteFails, Interferes

LEMMA WriteFailsStep ==
    ASSUME Inv, WriteFails
    PROVE  Inv'
<1>. USE InvIs
<1>1. /\ Todo \in Writes /\ (Persist \/ UNCHANGED storeVars)
      /\ used < MaxInterference /\ used' = used + 1
      /\ local' = IF Todo = "set_status"
                  THEN [local EXCEPT !.taken = @ \ {job.ip}] ELSE local
      /\ job' = Idle /\ Fails(job.change, FALSE, requeued)
      /\ cache' = cache /\ queue' = queue /\ synced' = synced /\ disputed' = disputed
  BY WriteFailsIs
<1>2. Working
  BY <1>1, TodoWorks DEF Writes
<1>3. /\ synced /\ job \in JobRecords /\ job.change \in Changes
      /\ job.change.svc # None
      /\ job.change.named /\ (~job.change.update => job.change.old = None)
      /\ job.fresh => CopyIsStored(job.change.svc)
      /\ ~job.fresh => IsOvertaken(job.change.svc)
  BY <1>2, Busy
<1>. PICK s \in Services : s = job.change.svc
  BY <1>2, Busy
<1>4. /\ service' \in [Services -> Objects] /\ events' \in Seq(Event)
      /\ \A q \in Services \ {s} : service'[q] = service[q]
      /\ \A i \in DOMAIN events : \E j \in DOMAIN events' : events'[j] = events[i]
      /\ EventsFollow' /\ ExternalOnlyWithStatus'
      /\ \/ service' = service /\ events' = events
         \/ job.fresh /\ \E i \in DOMAIN events' : events'[i].svc = s
  BY <1>1, PersistFacts
<1>. PICK full \in BOOLEAN : full = FALSE
  OBVIOUS
<1>5. /\ delayed' \in Seq(Changes) /\ requeued' \in SUBSET Services
      /\ \A i \in DOMAIN delayed : \E j \in DOMAIN delayed' : delayed'[j] = delayed[i]
      /\ \E j \in DOMAIN delayed' :
           delayed'[j].svc = s /\ delayed'[j].update = job.change.update
      /\ DelayedIsSound' /\ RequeuedIsSound'
  BY <1>1, <1>3, FailsFacts
<1>6. ~Working' /\ Todo' = "nothing"
  BY <1>1 DEF Working, Todo, Idle, NoChange
<1>7. local \in Locals /\ local.taken \subseteq IpRange
  BY LocalFacts
<1>8. local' \in Locals /\ Exact(local') /\ local'.owner = local.owner
  <2>1. CASE Todo = "set_status"
    <3>1. PICK a \in IpRange : a = job.ip
      BY <2>1, LocalFacts
    <3>2. /\ local.owner[a] = None
          /\ \A b \in IpRange : b \in local.taken <=> b = a \/ local.owner[b] # None
      BY <2>1, <3>1, LocalFacts
    <3>3. /\ local' \in Locals /\ local'.owner = local.owner
          /\ local'.taken = local.taken \ {a}
      BY <1>1, <1>7, <2>1, <3>1 DEF Locals
    <3>. QED
      BY <3>2, <3>3 DEF Exact
  <2>2. CASE Todo # "set_status"
    BY <1>1, <1>7, <2>2, LocalFacts
  <2>. QED
    BY <2>1, <2>2
<1>9. TypeOK'
  <2>1. used' \in 0..MaxInterference
    BY <1>1, ConstantFacts DEF TypeOK
  <2>. QED
    BY <1>1, <1>4, <1>5, <1>8, <2>1 DEF TypeOK, Locals, Event
<1>10. WaitsForSync' /\ QueueIsSound' /\ JobIsSound'
  BY <1>1, <1>3, <1>6 DEF WaitsForSync, QueueIsSound, JobIsSound, HasAddress
<1>11. AllocatorIsExact'
  <2>1. local'.taken \subseteq IpRange
    BY <1>8 DEF Locals
  <2>. QED
    BY <1>6, <1>8, <2>1 DEF AllocatorIsExact, Exact
<1>12. \A q : Undisturbed(q)
  BY <1>1, <1>4, <1>5 DEF Undisturbed
<1>13. IsRecorded(s)'
  <2>1. CASE job.fresh /\ \E i \in DOMAIN events' : events'[i].svc = s
    <3>1. Edited(s)'
      BY <2>1 DEF Edited
    <3>. QED
      BY <3>1, EditedRecorded
  <2>2. CASE service' = service /\ events' = events
    <3>1. Pending(s)'
      BY <1>5 DEF Pending
    <3>2. Edited(s) \/ job.change.update => Edited(s)'
      <4>1. job.change.update => Edited(s)'
        BY <1>5 DEF Edited
      <4>. QED
        BY <1>12, <4>1, StillToDo
    <3>3. IsRecorded(s) /\ AllocationOf(service'[s]) = AllocationOf(service[s])
      BY <2>2
    <3>. QED
      BY <1>1, <1>8, <3>1, <3>2, <3>3 DEF IsRecorded
  <2>. QED
    BY <1>4, <2>1, <2>2
<1>14. \A q \in Services : IsRecorded(q)'
  BY <1>1, <1>4, <1>8, <1>12, <1>13, AllRecorded
<1>. QED
  BY <1>4, <1>5, <1>9, <1>10, <1>11, <1>14, InvIsNext

LEMMA ForgetStep ==
    ASSUME Inv, Forget
    PROVE  Inv'
<1>. USE InvIs
<1>1. /\ Todo = "forget" /\ job' = Idle
      /\ local' = Cleared(local, job.change.svc, job.ip)
      /\ service' = service /\ events' = events /\ cache' = cache /\ queue' = queue
      /\ delayed' = delayed /\ synced' = synced /\ requeued' = requeued /\ used' = used
      /\ disputed' = disputed
  BY DEF Forget, storeVars, queueVars
<1>2. Working
  BY <1>1, TodoWorks
<1>3. /\ synced /\ ~job.fresh /\ IsOvertaken(job.change.svc)
  BY <1>1, <1>2, Busy DEF CopyIsStored
<1>. PICK s \in Services : s = job.change.svc
  BY <1>2, Busy
<1>4. ~Working' /\ Todo' = "nothing"
  BY <1>1 DEF Working, Todo, Idle, NoChange
<1>5. local \in Locals /\ Exact(local)
  BY <1>1, LocalFacts
<1>6. /\ local' \in Locals /\ Exact(local')
      /\ \A b \in IpRange : local'.owner[b] = local.owner[b] \/ local.owner[b] = s
  BY <1>1, <1>5, ClearedFacts
<1>7. TypeOK'
  BY <1>1, <1>6 DEF TypeOK, Locals
<1>8. /\ WaitsForSync' /\ EventsFollow' /\ QueueIsSound' /\ DelayedIsSound' /\ JobIsSound'
      /\ RequeuedIsSound' /\ ExternalOnlyWithStatus'
  BY <1>1, <1>3, <1>4, SameEvents, RequeuedSame
     DEF WaitsForSync, QueueIsSound, DelayedIsSound, JobIsSound, ExternalOnlyWithStatus
<1>9. AllocatorIsExact'
  <2>1. local'.taken \subseteq IpRange
    BY <1>6 DEF Locals
  <2>. QED
    BY <1>4, <1>6, <2>1 DEF AllocatorIsExact, Exact
<1>10. \A q : Undisturbed(q)
  BY <1>1 DEF Undisturbed
<1>11. IsRecorded(s)'
  <2>1. AllocationOf(service[s]) \in IpRange => Edited(s)
    BY <1>3, OvertakenEdited
  <2>2. Edited(s) => Edited(s)'
    BY <1>10, StillToDo
  <2>. QED
    BY <1>1, <2>1, <2>2, EditedRecorded
<1>12. \A q \in Services : IsRecorded(q)'
  BY <1>1, <1>6, <1>10, <1>11, AllRecorded
<1>. QED
  BY <1>7, <1>8, <1>9, <1>12, InvIsNext

-------------------------------------------------------------------------------
(* The theorems *)

LEMMA StepKeeps ==
    ASSUME Inv, [Next]_vars
    PROVE  Inv'
<1>1. CASE \E s \in Services : Create(s) \/ Delete(s) \/ ChangeType(s)
  BY <1>1, UserSteps
<1>2. CASE Deliver
  BY <1>2, DeliverStep
<1>3. CASE Resync
  BY <1>3, ResyncStep
<1>4. CASE Restart
  BY <1>4, RestartStep
<1>5. CASE Work
  BY <1>5, WorkStep
<1>6. CASE Allocate
  BY <1>6, AllocateStep
<1>7. CASE WriteDone
  BY <1>7, WriteDoneStep
<1>8. CASE WriteFails
  BY <1>8, WriteFailsStep
<1>9. CASE Forget
  BY <1>9, ForgetStep
<1>10. CASE ProcessInitialSync
  BY <1>10, SyncStep
<1>11. CASE \E i \in DOMAIN delayed : ComesBack(i)
  BY <1>11, ComesBackStep
<1>12. CASE UNCHANGED vars
  <2>1. /\ service' = service /\ events' = events /\ cache' = cache /\ queue' = queue
        /\ delayed' = delayed /\ synced' = synced /\ local' = local /\ requeued' = requeued
        /\ job' = job /\ used' = used /\ disputed' = disputed
    BY <1>12 DEF vars, storeVars, queueVars
  <2>2. \A q \in Services : IsRecorded(q)'
    <3>1. \A q \in Services : IsRecorded(q) /\ Undisturbed(q)
      BY <2>1, InvIs DEF Undisturbed
    <3>. QED
      BY <2>1, <3>1, OthersRecorded
  <2>3. EventsFollow' /\ AllocatorIsExact' /\ RequeuedIsSound'
    BY <2>1, InvIs, SameEvents, AllocatorSame, RequeuedSame DEF Todo, Working
  <2>4. JobIsSound'
    <3>1. \A p \in Services : IsOvertaken(p) => IsOvertaken(p)'
      BY <2>1 DEF IsOvertaken, HasAddress
    <3>. QED
      BY <2>1, <3>1, InvIs, JobStays
  <2>5. TypeOK' /\ QueueIsSound' /\ DelayedIsSound' /\ ExternalOnlyWithStatus'
    BY <2>1, InvIs DEF TypeOK, QueueIsSound, DelayedIsSound, ExternalOnlyWithStatus
  <2>6. WaitsForSync'
    BY <2>1, InvIs DEF WaitsForSync, Nothing, HasAddress
  <2>. QED
    BY <2>2, <2>3, <2>4, <2>5, <2>6, InvIsNext
<1>. QED
  BY <1>1, <1>2, <1>3, <1>4, <1>5, <1>6, <1>7, <1>8, <1>9, <1>10, <1>11, <1>12
     DEF Next, Worker

LEMMA InvHolds == Spec => []Inv
<1>1. Inv /\ [Next]_vars => Inv'
  BY StepKeeps
<1>. QED
  BY Initially, <1>1, PTL DEF Spec

\* The variables have their types.
THEOREM TypeCorrect == Spec => []TypeOK
<1>1. Inv => TypeOK
  BY DEF Inv
<1>. QED
  BY InvHolds, <1>1, PTL

\* The inductive invariant: the events lead to what is stored, what is stored is
\* recorded or still to be processed, and the copy that is written is the stored
\* one or overtaken by a change that comes.
THEOREM IngressSound == Spec => []IngressIsSound
<1>1. Inv => IngressIsSound
  BY DEF Inv
<1>. QED
  BY InvHolds, <1>1, PTL

\* An address is taken in ipAllocator exactly if allocationMap has a service for
\* it, between two changes, whatever writes failed.
THEOREM AllocatorExact == Spec => []AllocatorAgrees
<1>1. Inv => AllocatorAgrees
  <2>. SUFFICES ASSUME Inv, ~Working PROVE local.taken = {a \in IpRange : local.owner[a] # None}
    BY DEF AllocatorAgrees
  <2>1. Todo # "set_status"
    BY DEF Todo
  <2>. QED
    BY <2>1, InvIs DEF AllocatorIsExact
<1>. QED
  BY InvHolds, <1>1, PTL

\* Two services of the type store one address only while a change of one of them
\* is to be processed, and the external ips of a service are what its status has.
THEOREM StoredSound == Spec => []StoredIsSound
<1>1. Inv => StoredIsSound
  <2>. SUFFICES ASSUME Inv PROVE SharedOnlyForNow
    BY InvIs DEF StoredIsSound
  <2>. SUFFICES ASSUME NEW s \in Services, NEW t \in Services, s # t,
                       AllocationOf(service[s]) \in IpRange,
                       AllocationOf(service[s]) = AllocationOf(service[t]),
                       ~Pending(s), ~Pending(t)
                PROVE  FALSE
    BY DEF SharedOnlyForNow
  <2>1. local.owner[AllocationOf(service[s])] = s
    BY InvIs DEF IsRecorded
  <2>2. local.owner[AllocationOf(service[t])] = t
    BY InvIs DEF IsRecorded
  <2>. QED
    BY <2>1, <2>2
<1>. QED
  BY InvHolds, <1>1, PTL

LEMMA AtMostOne ==
    ASSUME NEW S, \A i, j \in S : i = j
    PROVE  Cardinality(S) = IF S = {} THEN 0 ELSE 1
<1>1. CASE S = {}
  BY <1>1, FS_EmptySet
<1>2. CASE S # {}
  <2>1. PICK i \in S : S = {i}
    BY <1>2
  <2>. QED
    BY <1>2, <2>1, FS_Singleton
<1>. QED
  BY <1>1, <1>2

\* requeuedAllocations has a service exactly if one of its changes that found the
\* range full is in the queue or delayed, and there is never a second one.
THEOREM OneRequeued == Spec => []OneRequeuedChange
<1>1. Inv => OneRequeuedChange
  <2>. SUFFICES ASSUME Inv, NEW s \in Services
                PROVE  Cardinality(InCirculation(s)) + Cardinality(Postponed(s))
                         = IF s \in requeued THEN 1 ELSE 0
    BY DEF OneRequeuedChange, Postponed
  <2>1. /\ \A i, j \in InCirculation(s) : i = j
        /\ \A i, j \in Postponed(s) : i = j
        /\ InCirculation(s) = {} \/ Postponed(s) = {}
        /\ s \in requeued <=> ~(InCirculation(s) = {} /\ Postponed(s) = {})
    BY InvIs DEF RequeuedIsSound
  <2>2. /\ Cardinality(InCirculation(s)) = IF InCirculation(s) = {} THEN 0 ELSE 1
        /\ Cardinality(Postponed(s)) = IF Postponed(s) = {} THEN 0 ELSE 1
    BY <2>1, AtMostOne
  <2>. QED
    BY <2>1, <2>2
<1>. QED
  BY InvHolds, <1>1, PTL

\* A status is written for the service of the job, from the copy that is stored.
StatusIsWritten(s) ==
    /\ Working /\ job.change.svc = s /\ CopyIsStored(s) /\ synced
    /\ \/ Todo = "clear_status" /\ service'[s].ip = None
       \/ Todo = "set_status" /\ service'[s].ip = job.ip

LEMMA UserChanges ==
    ASSUME Inv, NEW p \in Services, Create(p) \/ Delete(p) \/ ChangeType(p), NEW s \in Services,
           service'[s].ip # service[s].ip
    PROVE  service'[s].ip = None /\ ~(service[s].exists /\ service'[s].exists)
<1>1. PICK obj : /\ Edit(p, obj)
                 /\ \/ ~service[p].exists /\ obj = New(None)
                    \/ obj = Absent
                    \/ obj.ip = service[p].ip
  <2>1. CASE Create(p)
    BY <2>1 DEF Create
  <2>2. CASE Delete(p)
    BY <2>2 DEF Delete
  <2>3. CASE ChangeType(p)
    <3>1. PICK o \in Objects : o = service[p]
      BY InvIs DEF TypeOK
    <3>2. [o EXCEPT !.lb = ~@].ip = o.ip
      BY <3>1 DEF Objects
    <3>. QED
      BY <2>3, <3>1, <3>2 DEF ChangeType
  <2>. QED
    BY <2>1, <2>2, <2>3
<1>2. service' = [service EXCEPT ![p] = obj]
  BY <1>1 DEF Edit, Store
<1>3. s = p /\ service'[s] = obj
  BY <1>2, InvIs DEF TypeOK
<1>. QED
  BY <1>1, <1>3, ObjectFacts

LEMMA WriteChanges ==
    ASSUME Inv, Todo \in Writes, Persist \/ UNCHANGED storeVars, NEW s \in Services,
           service'[s].ip # service[s].ip
    PROVE  StatusIsWritten(s)
<1>1. Working
  BY TodoWorks DEF Writes
<1>2. PICK p \in Services : p = job.change.svc
  BY <1>1, Busy
<1>3. job.fresh /\ Store(p, Written(service[p], job.ip))
  BY <1>2 DEF Persist, storeVars
<1>4. service' = [service EXCEPT ![p] = Written(service[p], job.ip)]
  BY <1>3 DEF Store
<1>5. s = p /\ service'[s] = Written(service[s], job.ip)
  BY <1>4, InvIs DEF TypeOK
<1>6. synced /\ CopyIsStored(s)
  BY <1>1, <1>2, <1>3, <1>5, Busy
<1>7. PICK old \in Objects : old = service[s]
  BY InvIs DEF TypeOK
<1>8. CASE Todo = "remove_external"
  <2>1. service'[s] = [old EXCEPT !.external = @ \ {job.ip}]
    BY <1>5, <1>7, <1>8 DEF Written
  <2>. QED
    BY <1>7, <2>1 DEF Objects
<1>9. CASE Todo = "add_external"
  <2>1. service'[s] = [old EXCEPT !.external = @ \cup {job.ip}]
    BY <1>5, <1>7, <1>9 DEF Written
  <2>. QED
    BY <1>7, <2>1 DEF Objects
<1>10. CASE Todo = "clear_status"
  <2>1. service'[s] = [old EXCEPT !.ip = None]
    BY <1>5, <1>7, <1>10 DEF Written
  <2>2. service'[s].ip = None
    BY <2>1 DEF Objects
  <2>. QED
    BY <1>1, <1>2, <1>5, <1>6, <1>10, <2>2 DEF StatusIsWritten
<1>11. CASE Todo = "set_status"
  <2>1. service'[s] = [old EXCEPT !.ip = job.ip]
    BY <1>5, <1>7, <1>11 DEF Written
  <2>2. service'[s].ip = job.ip
    BY <2>1 DEF Objects
  <2>. QED
    BY <1>1, <1>2, <1>5, <1>6, <1>11, <2>2 DEF StatusIsWritten
<1>. QED
  BY <1>8, <1>9, <1>10, <1>11 DEF Writes

\* Only a service that comes or goes, or whose status is written, changes its address.
LEMMA AddressChanges ==
    ASSUME Inv, [Next]_vars, NEW s \in Services, service'[s].ip # service[s].ip
    PROVE  \/ service'[s].ip = None /\ ~(service[s].exists /\ service'[s].exists)
           \/ StatusIsWritten(s)
<1>1. CASE \E p \in Services : Create(p) \/ Delete(p) \/ ChangeType(p)
  BY <1>1, UserChanges
<1>2. CASE WriteDone \/ WriteFails
  BY <1>2, WriteDoneIs, WriteFailsIs, WriteChanges
<1>3. Deliver => service' = service
  BY DEF Deliver
<1>4. Resync => service' = service
  BY DEF Resync, storeVars
<1>5. Restart => service' = service
  BY DEF Restart
<1>6. Work => service' = service
  BY Zenon DEF Work, storeVars
<1>7. Allocate => service' = service
  BY AllocateIs
<1>8. Forget => service' = service
  BY DEF Forget, storeVars
<1>9. ProcessInitialSync => service' = service
  BY DEF ProcessInitialSync, storeVars
<1>10. (\E i \in DOMAIN delayed : ComesBack(i)) => service' = service
  BY DEF ComesBack, storeVars
<1>11. UNCHANGED vars => service' = service
  BY DEF vars, storeVars
<1>. QED
  BY <1>1, <1>2, <1>3, <1>4, <1>5, <1>6, <1>7, <1>8, <1>9, <1>10, <1>11 DEF Next, Worker

\* A service of the type loses an address of the range only if the address is
\* recorded for another service.
THEOREM AddressesKept == Spec => AddressIsKept
<1>. DEFINE Keeps ==
       \A s \in Services :
          /\ Working /\ service[s].exists /\ service[s].lb
          /\ service[s].ip \in IpRange /\ service'[s].exists
          /\ service'[s].ip # service[s].ip
          => local.owner[service[s].ip] \notin {s, None}
<1>1. Inv /\ [Next]_vars => Keeps
  <2>. SUFFICES ASSUME Inv, [Next]_vars, NEW s \in Services,
                       service[s].exists, service[s].lb, service[s].ip \in IpRange,
                       service'[s].exists, service'[s].ip # service[s].ip
                PROVE  local.owner[service[s].ip] \notin {s, None}
    OBVIOUS
  <2>1. StatusIsWritten(s)
    BY AddressChanges
  <2>. QED
    BY <2>1, ConstantFacts DEF StatusIsWritten, CopyIsStored
<1>. QED
  BY InvHolds, <1>1, PTL DEF Spec, AddressIsKept

\* An address is stored for a service only if no other service of the type has it,
\* except one that was edited, and one that shared it when the controller started.
THEOREM NewAddressesFree == Spec => NewAddressIsFree
<1>. DEFINE IsFree ==
       \A s, t \in Services :
          /\ s # t /\ Working
          /\ service'[s].ip \notin {None, service[s].ip} \cup disputed
          /\ AllocationOf(service[t]) = service'[s].ip
          => Edited(t)
<1>1. Inv /\ [Next]_vars => IsFree
  <2>. SUFFICES ASSUME Inv, [Next]_vars, NEW s \in Services, NEW t \in Services, s # t,
                       service'[s].ip \notin {None, service[s].ip} \cup disputed,
                       AllocationOf(service[t]) = service'[s].ip, ~Edited(t)
                PROVE  FALSE
    OBVIOUS
  <2>1. StatusIsWritten(s) /\ Todo = "set_status" /\ service'[s].ip = job.ip
    BY AddressChanges DEF StatusIsWritten
  <2>2. job.ip \in IpRange /\ local.owner[job.ip] = None
    BY <2>1, LocalFacts
  <2>3. local.owner[job.ip] = t
    BY <2>1, <2>2, InvIs DEF IsRecorded, StatusIsWritten
  <2>. QED
    BY <2>2, <2>3, ConstantFacts
<1>. QED
  BY InvHolds, <1>1, PTL DEF Spec, NewAddressIsFree
===============================================================================
