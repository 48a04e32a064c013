--------------------------- MODULE EventQueue_proofs ---------------------------
(***************************************************************************)
(* Proofs about EventQueue, for every set of keys and whatever objects the *)
(* module that composes it stores: what that module needs to know of the   *)
(* steps of a queue.                                                       *)
(***************************************************************************)
EXTENDS EventQueue, SequenceTheorems, TLAPS

\* The steps of a queue of such objects: a write, what the reflector does and a restart,
\* or a delta that the handler takes.  To delete what is not there is no step.
QueueRuns(Known) ==
    \/ \E k \in Keys : \E new \in Known \cup {Nothing} :
         ~(objects[k] = Nothing /\ new = Nothing) /\ Write(k, new)
    \/ Break \/ List \/ Replace \/ Resync
    \/ \E k \in Keys : Deliver(k)
    \/ Reset /\ UNCHANGED objects
    \/ UNCHANGED <<objects, queueVars>>

QueueNext(Known) == QueueRuns(Known) \/ \E k \in Keys : Pop(k)

\* A handler alters its copy of an object, and may have what it made of it stored.
Alters(k, copy, Known) ==
    /\ AlterKnown(k, copy)
    /\ \/ UNCHANGED <<objects, sent>>
       \/ \E new \in Known : Stored(k, new)

QueueTyped(Known) ==
    /\ objects \in [Keys -> Known \cup {Nothing}]
    /\ QueueTypeOK(Known)

QueueSound(Known) ==
    /\ QueueTyped(Known)
    /\ \A k \in Keys : IsTold(k)

DeltasOf(Known) == [type : DeltaTypes, obj : Known]
EventsOf(Known) == [type : WatchTypes, obj : Known]

-------------------------------------------------------------------------------
(* Deltas *)

LEMMA DeltaFacts ==
    ASSUME NEW Known, Nothing \notin Known
    PROVE  /\ NoDelta \notin DeltasOf(Known)
           /\ NoDelta.type \notin DeltaTypes
           /\ \A d \in DeltasOf(Known) :
                /\ d.type \in DeltaTypes /\ d.obj \in Known
                /\ After(d) \in Known \cup {Nothing}
                /\ After(d) = Nothing <=> d.type = "Deleted"
           /\ \A e \in EventsOf(Known) : e \in DeltasOf(Known) /\ e.type # "Sync"
BY DEF DeltasOf, EventsOf, DeltaTypes, WatchTypes, NoDelta, After

\* What becomes of a delta in the queue is a delta or none.  It leaves of the object what
\* the new one leaves, unless that is a list's and the old one a deletion.
LEMMA ResultsType ==
    ASSUME NEW Known, Nothing \notin Known,
           NEW item \in DeltasOf(Known) \cup {NoDelta}, NEW delta \in DeltasOf(Known),
           NEW r \in Results(item, delta)
    PROVE  /\ r \in DeltasOf(Known) \cup {NoDelta}
           /\ r = NoDelta => item.type = "Added" /\ delta.type = "Deleted"
           /\ r # NoDelta => \/ After(r) = After(delta)
                             \/ item.type = "Deleted" /\ delta.type = "Sync" /\ r = item
           /\ r # NoDelta /\ r.type = "Added" =>
                \/ item.type = "Added"
                \/ item = NoDelta /\ delta.type = "Added"
<1>1. CASE item = NoDelta
  BY <1>1, DeltaFacts DEF Results, DeltasOf, EventsOf, DeltaTypes, WatchTypes, NoDelta
<1>2. CASE item # NoDelta /\ Ignored(item, delta.type)
  <2>1. r = item /\ item.type = "Deleted" /\ delta.type \in {"Sync", "Deleted"}
    BY <1>2 DEF Results, Ignored
  <2>. QED
    BY <1>2, <2>1 DEF After
<1>3. CASE item # NoDelta /\ ~Ignored(item, delta.type)
  <2>1. PICK a \in DeltaActions :
               /\ a[1] = item.type /\ a[2] = delta.type
               /\ r = IF a[3] = "none" THEN NoDelta ELSE [type |-> a[3], obj |-> delta.obj]
    BY <1>3 DEF Results
  <2>2. /\ a[3] = "none" => a[1] = "Added" /\ a[2] = "Deleted"
        /\ a[3] # "none" => a[3] \in DeltaTypes
        /\ a[3] = "Deleted" <=> a[2] = "Deleted" /\ a[1] # "Added"
        /\ a[3] = "Added" => a[1] = "Added"
    BY DEF DeltaActions, DeltaTypes, WatchTypes
  <2>3. delta.obj \in Known
    BY DEF DeltasOf, EventsOf
  <2>4. CASE a[3] = "none"
    BY <2>1, <2>2, <2>4
  <2>5. CASE a[3] # "none"
    <3>1. r = [type |-> a[3], obj |-> delta.obj] /\ r \in DeltasOf(Known)
      BY <2>1, <2>2, <2>3, <2>5 DEF DeltasOf, EventsOf
    <3>2. After(r) = After(delta)
      <4>1. a[1] # "Added" \/ a[2] # "Deleted"
        BY <2>5 DEF DeltaActions
      <4>. QED
        BY <2>1, <2>2, <3>1, <4>1 DEF After
    <3>3. r # NoDelta
      BY <3>1, DeltaFacts
    <3>. QED
      BY <2>1, <2>2, <3>1, <3>2, <3>3
  <2>. QED
    BY <2>4, <2>5
<1>. QED
  BY <1>1, <1>2, <1>3

LEMMA SentFacts ==
    ASSUME NEW Known, QueueTyped(Known), NEW k \in Keys
    PROVE  /\ sent \in [Keys -> Seq(EventsOf(Known))]
           /\ sent[k] \in Seq(EventsOf(Known))
<1>1. sent \in [Keys -> Seq(EventsOf(Known))]
  BY DEF QueueTyped, QueueTypeOK, DeltasOf, EventsOf
<1>. QED
  BY <1>1

LEMMA TailFacts ==
    ASSUME NEW S, NEW s \in Seq(S), s # <<>>
    PROVE  /\ Len(s) \in Nat \ {0} /\ Head(s) = s[1] /\ s[1] \in S
           /\ Tail(s) \in Seq(S)
           /\ Len(Tail(s)) = Len(s) - 1
           /\ \A i \in 1..(Len(s) - 1) : Tail(s)[i] = s[i + 1]
           /\ Tail(s) = <<>> <=> Len(s) = 1
<1>1. Len(s) \in Nat \ {0} /\ Head(s) = s[1] /\ s[1] \in S
  OBVIOUS
<1>2. Tail(s) \in Seq(S) /\ Len(Tail(s)) = Len(s) - 1
  OBVIOUS
<1>3. \A i \in 1..(Len(s) - 1) : Tail(s)[i] = s[i + 1]
  OBVIOUS
<1>4. Tail(s) = <<>> <=> Len(Tail(s)) = 0
  <2>. DEFINE t == Tail(s)
  <2>1. t \in Seq(S)
    BY <1>2
  <2>. HIDE DEF t
  <2>2. t = <<>> <=> Len(t) = 0
    BY <2>1, EmptySeq
  <2>. QED
    BY <2>2 DEF t
<1>. QED
  BY <1>1, <1>2, <1>3, <1>4

-------------------------------------------------------------------------------
(* Where the watch leads *)

\* A write goes on where the watch led.
LEMMA LeadsAppend ==
    ASSUME NEW Known, Nothing \notin Known, QueueSound(Known),
           NEW k \in Keys, NEW new \in Known \cup {Nothing},
           ~(objects[k] = Nothing /\ new = Nothing), Write(k, new), reflector # "broken",
           NEW from, Leads(from, k)
    PROVE  Leads(from, k)'
<1>. DEFINE e == EventOf(objects[k], new)
            s == sent[k]
<1>1. /\ objects'[k] = new
      /\ sent'[k] = Append(s, e)
  BY DEF Write, Stored, QueueSound, QueueTyped, QueueTypeOK
<1>2. /\ s \in Seq(EventsOf(Known)) /\ Len(s) \in Nat
      /\ s # <<>> => Len(s) \in DOMAIN s
  BY SentFacts DEF QueueSound
<1>3. /\ Len(sent'[k]) = Len(s) + 1 /\ sent'[k] # <<>>
      /\ sent'[k][Len(s) + 1] = e
      /\ \A i \in 1..Len(s) : sent'[k][i] = s[i]
  BY <1>1, <1>2
<1>4. /\ e.type = "Added" <=> objects[k] = Nothing
      /\ After(e) = new
  BY DEF EventOf, After
<1>. HIDE DEF e
<1>5. CASE s = <<>>
  <2>1. from = objects[k] /\ Len(s) = 0
    BY <1>5 DEF Leads
  <2>2. from = Nothing <=> sent'[k][1].type = "Added"
    BY <1>3, <1>4, <2>1
  <2>. QED
    BY <1>1, <1>3, <1>4, <2>1, <2>2 DEF Leads
<1>6. CASE s # <<>>
  <2>1. /\ from = Nothing <=> s[1].type = "Added"
        /\ \A i \in 2..Len(s) : After(s[i - 1]) = Nothing <=> s[i].type = "Added"
        /\ After(s[Len(s)]) = objects[k]
    BY <1>6 DEF Leads
  <2>2. sent'[k][1] = s[1] /\ sent'[k][Len(s)] = s[Len(s)]
    BY <1>2, <1>3, <1>6
  <2>3. ASSUME NEW i \in 2..(Len(s) + 1)
        PROVE  After(sent'[k][i - 1]) = Nothing <=> sent'[k][i].type = "Added"
    <3>1. CASE i = Len(s) + 1
      <4>1. i - 1 = Len(s)
        BY <1>2, <3>1
      <4>. QED
        BY <1>3, <1>4, <2>1, <2>2, <3>1, <4>1
    <3>2. CASE i # Len(s) + 1
      <4>1. i \in 2..Len(s) /\ i \in 1..Len(s) /\ i - 1 \in 1..Len(s)
        BY <1>2, <3>2
      <4>. QED
        BY <1>3, <2>1, <4>1
    <3>. QED
      BY <3>1, <3>2
  <2>. QED
    BY <1>1, <1>3, <1>4, <2>1, <2>2, <2>3 DEF Leads
<1>. QED
  BY <1>5, <1>6

\* When the first event has been read the watch leads on from what it left.
LEMMA LeadsTail ==
    ASSUME NEW Known, Nothing \notin Known, QueueSound(Known),
           NEW k \in Keys, sent[k] # <<>>,
           sent' = [sent EXCEPT ![k] = Tail(sent[k])], UNCHANGED objects,
           NEW from, Leads(from, k),
           NEW e, e = Head(sent[k])
    PROVE  Leads(After(e), k)'
<1>. DEFINE s == sent[k]
<1>1. /\ s \in Seq(EventsOf(Known)) /\ Len(s) \in Nat \ {0} /\ e = s[1]
      /\ sent'[k] = Tail(s)
  BY SentFacts, TailFacts DEF QueueSound
<1>2. /\ Len(sent'[k]) = Len(s) - 1
      /\ \A i \in 1..(Len(s) - 1) : sent'[k][i] = s[i + 1]
      /\ sent'[k] = <<>> <=> Len(s) = 1
  BY <1>1, TailFacts
<1>3. /\ \A i \in 2..Len(s) : After(s[i - 1]) = Nothing <=> s[i].type = "Added"
      /\ After(s[Len(s)]) = objects[k]
  BY DEF Leads
<1>. HIDE DEF s
<1>4. CASE Len(s) = 1
  BY <1>1, <1>2, <1>3, <1>4 DEF Leads
<1>5. CASE Len(s) # 1
  <2>1. /\ 2 \in 2..Len(s) /\ sent'[k][1] = s[2] /\ s[2 - 1] = e
        /\ sent'[k][Len(s) - 1] = s[Len(s)]
    BY <1>1, <1>2, <1>5
  <2>2. After(e) = Nothing <=> sent'[k][1].type = "Added"
    BY <1>3, <2>1
  <2>3. ASSUME NEW i \in 2..(Len(s) - 1)
        PROVE  After(sent'[k][i - 1]) = Nothing <=> sent'[k][i].type = "Added"
    <3>1. /\ i + 1 \in 2..Len(s) /\ sent'[k][i] = s[i + 1]
          /\ sent'[k][i - 1] = s[(i + 1) - 1]
      <4>1. /\ i + 1 \in 2..Len(s) /\ i \in 1..(Len(s) - 1) /\ i - 1 \in 1..(Len(s) - 1)
            /\ (i - 1) + 1 = (i + 1) - 1
        BY <1>1
      <4>. QED
        BY <1>2, <4>1
    <3>. QED
      BY <1>3, <3>1
  <2>. QED
    BY <1>1, <1>2, <1>3, <1>5, <2>1, <2>2, <2>3 DEF Leads
<1>. QED
  BY <1>4, <1>5

LEMMA LeadsUnchanged ==
    ASSUME UNCHANGED objects, NEW k, sent'[k] = sent[k]
    PROVE  \A from : Leads(from, k)' <=> Leads(from, k)
BY DEF Leads

-------------------------------------------------------------------------------
(* The steps *)

LEMMA EventOfType ==
    ASSUME NEW Known, NEW old \in Known \cup {Nothing}, NEW new \in Known \cup {Nothing},
           ~(old = Nothing /\ new = Nothing)
    PROVE  EventOf(old, new) \in EventsOf(Known)
BY DEF EventOf, EventsOf, WatchTypes

\* What a list makes of a key that the queue does not misread.
LEMMA ListResults ==
    ASSUME NEW Known, Nothing \notin Known, QueueTyped(Known),
           NEW k \in Keys, NEW r \in ResultsOfList(k)
    PROVE  /\ r \in DeltasOf(Known) \cup {NoDelta}
           /\ ~Misread(k) =>
                /\ list[k] = IF r = NoDelta THEN known[k] ELSE After(r)
                /\ r.type = "Added" => known[k] = Nothing
<1>1. /\ list[k] \in Known \cup {Nothing} /\ known[k] \in Known \cup {Nothing}
      /\ items[k] \in DeltasOf(Known) \cup {NoDelta}
  BY DEF QueueTyped, QueueTypeOK, DeltasOf, EventsOf
<1>2. /\ NoDelta \notin DeltasOf(Known) /\ NoDelta.type = "none"
      /\ \A d \in DeltasOf(Known) : d.type \in DeltaTypes /\ (After(d) = Nothing <=> d.type = "Deleted")
  BY DeltaFacts DEF NoDelta
<1>3. CASE FromList(k) = {}
  <2>1. r = items[k] /\ list[k] = Nothing /\ known[k] = Nothing
    BY <1>3 DEF ResultsOfList, FromList
  <2>2. ~Misread(k) => items[k].type \notin {"Added", "Updated", "Sync"}
    BY <2>1 DEF Misread, DeltaTypes, WatchTypes
  <2>. QED
    BY <1>1, <1>2, <2>1, <2>2 DEF DeltaTypes, WatchTypes
<1>4. CASE FromList(k) # {}
  <2>1. PICK d \in FromList(k) : r \in Results(items[k], d)
    BY <1>4 DEF ResultsOfList
  <2>2. /\ d \in DeltasOf(Known) /\ After(d) = list[k]
        /\ list[k] # Nothing => d.type = "Sync"
        /\ list[k] = Nothing => d.type = "Deleted" /\ known[k] # Nothing
    BY <1>1, <2>1 DEF FromList, DeltasOf, EventsOf, DeltaTypes, WatchTypes, After
  <2>3. /\ r \in DeltasOf(Known) \cup {NoDelta}
        /\ r = NoDelta => items[k].type = "Added" /\ d.type = "Deleted"
        /\ r # NoDelta => \/ After(r) = After(d)
                          \/ items[k].type = "Deleted" /\ d.type = "Sync"
        /\ r # NoDelta /\ r.type = "Added" =>
             \/ items[k].type = "Added"
             \/ items[k] = NoDelta /\ d.type = "Added"
    BY <1>1, <2>1, <2>2, ResultsType
  <2>4. ASSUME ~Misread(k)
        PROVE  /\ list[k] # Nothing => items[k].type # "Deleted"
               /\ items[k].type = "Added" => known[k] = Nothing
    BY <2>4 DEF Misread
  <2>. QED
    BY <1>2, <2>2, <2>3, <2>4
<1>. QED
  BY <1>3, <1>4

LEMMA StoredTyped ==
    ASSUME NEW Known, QueueTyped(Known),
           NEW k \in Keys, NEW new \in Known \cup {Nothing},
           ~(objects[k] = Nothing /\ new = Nothing), Stored(k, new)
    PROVE  /\ objects' \in [Keys -> Known \cup {Nothing}]
           /\ sent' \in [Keys -> Seq(EventsOf(Known))]
<1>1. objects \in [Keys -> Known \cup {Nothing}]
  BY DEF QueueTyped
<1>2. sent[k] \in Seq(EventsOf(Known)) /\ EventOf(objects[k], new) \in EventsOf(Known)
  BY <1>1, SentFacts, EventOfType
<1>3. Append(sent[k], EventOf(objects[k], new)) \in Seq(EventsOf(Known))
  BY <1>2, AppendProperties
<1>. QED
  BY <1>1, <1>3, SentFacts DEF Stored

LEMMA WriteTyped ==
    ASSUME NEW Known, QueueTyped(Known),
           NEW k \in Keys, NEW new \in Known \cup {Nothing},
           ~(objects[k] = Nothing /\ new = Nothing), Write(k, new)
    PROVE  QueueTyped(Known)'
<1>1. /\ objects' \in [Keys -> Known \cup {Nothing}]
      /\ sent' \in [Keys -> Seq(EventsOf(Known))]
      /\ UNCHANGED <<reflector, list, items, known, skewed>>
  BY StoredTyped DEF Write
<1>. QED
  BY <1>1 DEF QueueTyped, QueueTypeOK, EventsOf

LEMMA AltersTyped ==
    ASSUME NEW Known, QueueTyped(Known), Nothing \notin Known,
           NEW k \in Keys, NEW copy \in Known, Alters(k, copy, Known)
    PROVE  QueueTyped(Known)'
<1>1. /\ known' = [known EXCEPT ![k] = copy]
      /\ UNCHANGED <<reflector, list, items, skewed>>
  BY DEF Alters, AlterKnown
<1>2. known' \in [Keys -> Known \cup {Nothing}]
  BY <1>1 DEF QueueTyped, QueueTypeOK
<1>3. /\ objects' \in [Keys -> Known \cup {Nothing}]
      /\ sent' \in [Keys -> Seq(EventsOf(Known))]
  <2>1. CASE UNCHANGED <<objects, sent>>
    BY <2>1, SentFacts DEF QueueTyped
  <2>2. CASE \E new \in Known : Stored(k, new)
    BY <2>2, StoredTyped
  <2>. QED
    BY <2>1, <2>2 DEF Alters
<1>. QED
  BY <1>1, <1>2, <1>3 DEF QueueTyped, QueueTypeOK, EventsOf

LEMMA EmptyTyped ==
    ASSUME NEW Known
    PROVE  /\ NoEvents \in [Keys -> Seq(EventsOf(Known))]
           /\ Empty \in [Keys -> Known \cup {Nothing}]
BY <<>> \in Seq(EventsOf(Known)) DEF NoEvents, Empty

LEMMA ReplaceTyped ==
    ASSUME NEW Known, Nothing \notin Known, QueueTyped(Known), Replace
    PROVE  QueueTyped(Known)'
<1>1. /\ reflector' = "watching" /\ list' = Empty /\ skewed' \in SUBSET Keys
      /\ items' = [k \in Keys |-> CHOOSE r \in ResultsOfList(k) : TRUE]
      /\ UNCHANGED <<objects, sent, known>>
  BY DEF Replace
<1>2. \A k \in Keys : items'[k] \in ResultsOfList(k)
  BY <1>1 DEF Replace
<1>3. \A k \in Keys : items'[k] \in DeltasOf(Known) \cup {NoDelta}
  BY <1>2, ListResults
<1>4. items' \in [Keys -> DeltasOf(Known) \cup {NoDelta}]
  BY <1>1, <1>3
<1>. QED
  BY <1>1, <1>4, EmptyTyped DEF QueueTyped, QueueTypeOK, DeltasOf

LEMMA ResyncTyped ==
    ASSUME NEW Known, QueueTyped(Known), Resync
    PROVE  QueueTyped(Known)'
<1>1. /\ items' = [k \in Keys |-> IF known[k] = Nothing THEN NoDelta
                                  ELSE [type |-> "Sync", obj |-> known[k]]]
      /\ UNCHANGED <<objects, reflector, list, sent, known, skewed>>
  BY DEF Resync
<1>2. items' \in [Keys -> DeltasOf(Known) \cup {NoDelta}]
  BY <1>1 DEF QueueTyped, QueueTypeOK, DeltasOf, DeltaTypes
<1>. QED
  BY <1>1, <1>2 DEF QueueTyped, QueueTypeOK, DeltasOf

LEMMA DeliverTyped ==
    ASSUME NEW Known, Nothing \notin Known, QueueTyped(Known), NEW k \in Keys, Deliver(k)
    PROVE  QueueTyped(Known)'
<1>1. /\ sent[k] # <<>> /\ sent' = [sent EXCEPT ![k] = Tail(sent[k])]
      /\ UNCHANGED <<objects, reflector, list, known, skewed>>
  BY DEF Deliver
<1>2. PICK r : /\ r \in ResultsOfEvent(k, Head(sent[k]))
               /\ items' = [items EXCEPT ![k] = r]
  BY DEF Deliver
<1>3. /\ Head(sent[k]) \in DeltasOf(Known)
      /\ Tail(sent[k]) \in Seq(EventsOf(Known))
  BY <1>1, SentFacts, TailFacts, DeltaFacts
<1>4. items \in [Keys -> DeltasOf(Known) \cup {NoDelta}]
  BY DEF QueueTyped, QueueTypeOK, DeltasOf
<1>5. r \in DeltasOf(Known) \cup {NoDelta}
  BY <1>2, <1>3, <1>4, ResultsType DEF ResultsOfEvent
<1>6. /\ items' \in [Keys -> DeltasOf(Known) \cup {NoDelta}]
      /\ sent' \in [Keys -> Seq(EventsOf(Known))]
  BY <1>1, <1>2, <1>3, <1>4, <1>5, SentFacts
<1>. QED
  BY <1>1, <1>6 DEF QueueTyped, QueueTypeOK, DeltasOf, EventsOf

LEMMA PopTyped ==
    ASSUME NEW Known, Nothing \notin Known, QueueTyped(Known), NEW k \in Keys, Pop(k)
    PROVE  QueueTyped(Known)'
<1>1. /\ items[k] # NoDelta
      /\ items' = [items EXCEPT ![k] = NoDelta]
      /\ known' = [known EXCEPT ![k] = After(items[k])]
      /\ UNCHANGED <<objects, reflector, list, sent, skewed>>
  BY DEF Pop
<1>2. /\ items \in [Keys -> DeltasOf(Known) \cup {NoDelta}]
      /\ known \in [Keys -> Known \cup {Nothing}]
  BY DEF QueueTyped, QueueTypeOK, DeltasOf
<1>3. After(items[k]) \in Known \cup {Nothing}
  BY <1>1, <1>2, DeltaFacts
<1>4. /\ items' \in [Keys -> DeltasOf(Known) \cup {NoDelta}]
      /\ known' \in [Keys -> Known \cup {Nothing}]
  BY <1>1, <1>2, <1>3
<1>. QED
  BY <1>1, <1>4 DEF QueueTyped, QueueTypeOK, DeltasOf

\* Every step of a queue keeps its types.
LEMMA TypedStep ==
    ASSUME NEW Known, Nothing \notin Known, QueueTyped(Known), QueueNext(Known)
    PROVE  QueueTyped(Known)'
<1>1. ASSUME Break \/ (Reset /\ UNCHANGED objects)
      PROVE  QueueTyped(Known)'
  <2>1. /\ reflector' = "broken" /\ list' = Empty /\ sent' = NoEvents /\ UNCHANGED objects
        /\ \/ UNCHANGED <<items, known, skewed>>
           \/ items' = [k \in Keys |-> NoDelta] /\ known' = Empty /\ skewed' = {}
    BY <1>1 DEF Break, Reset
  <2>. QED
    BY <2>1, EmptyTyped DEF QueueTyped, QueueTypeOK, EventsOf
<1>2. ASSUME List
      PROVE  QueueTyped(Known)'
  BY <1>2 DEF List, QueueTyped, QueueTypeOK
<1>3. ASSUME UNCHANGED <<objects, queueVars>>
      PROVE  QueueTyped(Known)'
  BY <1>3 DEF queueVars, QueueTyped, QueueTypeOK
<1>. QED
  BY <1>1, <1>2, <1>3, WriteTyped, ReplaceTyped, ResyncTyped, DeliverTyped, PopTyped
     DEF QueueNext, QueueRuns

LEMMA WriteSound ==
    ASSUME NEW Known, Nothing \notin Known, QueueSound(Known),
           NEW k \in Keys, NEW new \in Known \cup {Nothing},
           ~(objects[k] = Nothing /\ new = Nothing), Write(k, new)
    PROVE  \A j \in Keys : IsTold(j)'
<1>1. /\ objects' = [objects EXCEPT ![k] = new]
      /\ UNCHANGED <<reflector, list, items, known, skewed>>
  BY DEF Write, Stored
<1>2. /\ sent \in [Keys -> Seq(EventsOf(Known))]
      /\ EventOf(objects[k], new) \in EventsOf(Known)
  BY SentFacts, EventOfType DEF QueueSound, QueueTyped
<1>3. ASSUME NEW j \in Keys
      PROVE  IsTold(j)'
  <2>1. IsTold(j)
    BY DEF QueueSound
  <2>2. CASE reflector = "broken"
    BY <1>1, <2>1, <2>2 DEF IsTold, Write, Stored
  <2>3. CASE reflector # "broken" /\ j = k
    <3>1. \A from : Leads(from, k) => Leads(from, k)'
      BY <2>3, LeadsAppend
    <3>2. /\ list' = list /\ Outcome(k)' = Outcome(k)
      BY <1>1 DEF Outcome
    <3>3. reflector = "listed" => Leads(list[k], k)'
      BY <2>1, <2>3, <3>1, <3>2 DEF IsTold
    <3>4. reflector = "watching" /\ k \notin skewed => Leads(Outcome(k), k)'
      BY <2>1, <2>3, <3>1, <3>2 DEF IsTold
    <3>. QED
      BY <1>1, <2>1, <2>3, <3>2, <3>3, <3>4 DEF IsTold
  <2>4. CASE reflector # "broken" /\ j # k
    <3>1. sent'[j] = sent[j] /\ objects'[j] = objects[j]
      BY <1>1, <1>2, <2>4 DEF Write, Stored, QueueSound, QueueTyped
    <3>2. \A from : Leads(from, j)' <=> Leads(from, j)
      BY <3>1 DEF Leads
    <3>3. Outcome(j)' = Outcome(j)
      BY <1>1 DEF Outcome
    <3>. QED
      BY <1>1, <2>1, <3>1, <3>2, <3>3 DEF IsTold
  <2>. QED
    BY <2>2, <2>3, <2>4
<1>. QED
  BY <1>3

LEMMA BreakSound ==
    ASSUME NEW Known, QueueSound(Known), Break
    PROVE  \A j \in Keys : IsTold(j)'
<1>1. /\ reflector' = "broken" /\ list' = Empty /\ sent' = NoEvents
      /\ UNCHANGED <<objects, items, known, skewed>>
  BY DEF Break
<1>. QED
  BY <1>1 DEF IsTold, NoEvents, Empty

LEMMA ResetSound ==
    ASSUME NEW Known, QueueSound(Known), Reset, UNCHANGED objects
    PROVE  \A j \in Keys : IsTold(j)'
<1>1. /\ reflector' = "broken" /\ list' = Empty /\ sent' = NoEvents
      /\ items' = [k \in Keys |-> NoDelta] /\ known' = Empty /\ skewed' = {}
  BY DEF Reset
<1>. QED
  BY <1>1 DEF IsTold, NoEvents, Empty

LEMMA ListSound ==
    ASSUME NEW Known, QueueSound(Known), List
    PROVE  \A j \in Keys : IsTold(j)'
<1>1. /\ reflector = "broken" /\ reflector' = "listed" /\ list' = objects
      /\ UNCHANGED <<objects, sent, items, known, skewed>>
  BY DEF List
<1>2. ASSUME NEW k \in Keys
      PROVE  IsTold(k)'
  <2>1. sent'[k] = <<>>
    BY <1>1 DEF QueueSound, IsTold
  <2>. QED
    BY <1>1, <2>1 DEF IsTold, Leads
<1>. QED
  BY <1>2

LEMMA ReplaceSound ==
    ASSUME NEW Known, Nothing \notin Known, QueueSound(Known), Replace
    PROVE  \A j \in Keys : IsTold(j)'
<1>1. /\ reflector = "listed" /\ reflector' = "watching" /\ list' = Empty
      /\ items' = [k \in Keys |-> CHOOSE r \in ResultsOfList(k) : TRUE]
      /\ skewed' = {k \in Keys : Misread(k)}
      /\ UNCHANGED <<objects, sent, known>>
  BY DEF Replace
<1>2. \A k \in Keys : items'[k] \in ResultsOfList(k)
  BY <1>1 DEF Replace
<1>3. \A k \in Keys :
        /\ items'[k] \in DeltasOf(Known) \cup {NoDelta}
        /\ ~Misread(k) =>
             /\ list[k] = Outcome(k)'
             /\ items'[k].type = "Added" => known[k] = Nothing
  BY <1>1, <1>2, ListResults DEF Outcome, After, QueueSound
<1>4. ASSUME NEW k \in Keys
      PROVE  IsTold(k)'
  <2>1. \A from : Leads(from, k)' <=> Leads(from, k)
    BY <1>1, LeadsUnchanged
  <2>2. Leads(list[k], k)
    BY <1>1 DEF QueueSound, IsTold
  <2>3. k \notin skewed' => Leads(Outcome(k), k)'
    BY <1>1, <1>3, <2>1, <2>2
  <2>. QED
    BY <1>1, <1>3, <2>3 DEF IsTold, Empty
<1>. QED
  BY <1>4

LEMMA ResyncSound ==
    ASSUME NEW Known, Nothing \notin Known, QueueSound(Known), Resync
    PROVE  \A j \in Keys : IsTold(j)'
<1>1. /\ reflector = "watching"
      /\ items = [k \in Keys |-> NoDelta]
      /\ items' = [k \in Keys |-> IF known[k] = Nothing THEN NoDelta
                                  ELSE [type |-> "Sync", obj |-> known[k]]]
      /\ UNCHANGED <<objects, reflector, list, sent, known, skewed>>
  BY DEF Resync
<1>2. known \in [Keys -> Known \cup {Nothing}]
  BY DEF QueueSound, QueueTyped, QueueTypeOK
<1>3. \A k \in Keys :
        /\ items'[k] \in DeltasOf(Known) \cup {NoDelta}
        /\ Outcome(k)' = Outcome(k) /\ items'[k].type # "Added"
  BY <1>1, <1>2, DeltaFacts DEF Outcome, After, DeltasOf, EventsOf, DeltaTypes, WatchTypes, NoDelta
<1>4. ASSUME NEW k \in Keys
      PROVE  IsTold(k)'
  <2>1. \A from : Leads(from, k)' <=> Leads(from, k)
    BY <1>1, LeadsUnchanged
  <2>. QED
    BY <1>1, <1>3, <2>1 DEF QueueSound, IsTold
<1>. QED
  BY <1>4

LEMMA DeliverSound ==
    ASSUME NEW Known, Nothing \notin Known, QueueSound(Known), NEW k \in Keys, Deliver(k)
    PROVE  \A j \in Keys : IsTold(j)'
<1>1. /\ reflector = "watching" /\ sent[k] # <<>>
      /\ sent' = [sent EXCEPT ![k] = Tail(sent[k])]
      /\ UNCHANGED <<objects, reflector, list, known, skewed>>
  BY DEF Deliver
<1>2. PICK e, r : /\ e = Head(sent[k]) /\ r \in ResultsOfEvent(k, e)
                  /\ items' = [items EXCEPT ![k] = r]
  BY DEF Deliver
<1>3. /\ sent \in [Keys -> Seq(EventsOf(Known))]
      /\ items \in [Keys -> DeltasOf(Known) \cup {NoDelta}]
      /\ known[k] \in Known \cup {Nothing}
  BY SentFacts DEF QueueSound, QueueTyped, QueueTypeOK, DeltasOf, EventsOf
<1>4. /\ e \in EventsOf(Known) /\ e \in DeltasOf(Known) /\ e = sent[k][1]
      /\ Tail(sent[k]) \in Seq(EventsOf(Known))
  BY <1>1, <1>2, <1>3, TailFacts, DeltaFacts
<1>5. ASSUME ~Dropped(k, e)
      PROVE  /\ r \in DeltasOf(Known) \cup {NoDelta}
             /\ r = NoDelta => items[k].type = "Added" /\ e.type = "Deleted"
             /\ r # NoDelta =>
                  \/ After(r) = After(e)
                  \/ items[k].type = "Deleted" /\ e.type = "Sync" /\ r = items[k]
             /\ r # NoDelta /\ r.type = "Added" =>
                  \/ items[k].type = "Added"
                  \/ items[k] = NoDelta /\ e.type = "Added"
  BY <1>2, <1>3, <1>4, <1>5, ResultsType DEF ResultsOfEvent
<1>6. ASSUME NEW j \in Keys
      PROVE  IsTold(j)'
  <2>1. IsTold(j)
    BY DEF QueueSound
  <2>2. CASE j # k
    <3>1. items'[j] = items[j] /\ sent'[j] = sent[j]
      BY <1>1, <1>2, <1>3, <2>2
    <3>2. \A from : Leads(from, j)' <=> Leads(from, j)
      BY <1>1, <3>1, LeadsUnchanged
    <3>3. Outcome(j)' = Outcome(j)
      BY <1>1, <3>1 DEF Outcome
    <3>. QED
      BY <1>1, <2>1, <3>1, <3>2, <3>3 DEF IsTold
  <2>3. CASE j = k /\ k \notin skewed
    <3>1. /\ Leads(Outcome(k), k)
          /\ items[k].type = "Added" => known[k] = Nothing
      BY <1>1, <2>1, <2>3 DEF IsTold
    <3>2. Leads(After(e), k)'
      BY <1>1, <1>2, <3>1, LeadsTail
    <3>3. items'[k] = r /\ known'[k] = known[k]
      BY <1>1, <1>2, <1>3
    <3>4. Outcome(k) = Nothing <=> e.type = "Added"
      BY <1>1, <1>4, <3>1 DEF Leads
    <3>5. /\ NoDelta.type \notin DeltaTypes /\ items[k].type = "Deleted" => items[k] # NoDelta
          /\ After(e) = Nothing <=> e.type = "Deleted"
      BY <1>4, DeltaFacts DEF NoDelta
    <3>6. e.type # "Sync"
      BY <1>4, DeltaFacts
    <3>7. ~Dropped(k, e)
      BY <3>4 DEF Dropped, Outcome
    <3>8. Outcome(k)' = After(e)
      BY <1>5, <3>1, <3>3, <3>5, <3>6, <3>7 DEF Outcome
    <3>9. r.type = "Added" => known[k] = Nothing
      BY <1>5, <3>1, <3>4, <3>5, <3>7 DEF Outcome, NoDelta
    <3>. QED
      BY <1>1, <2>1, <2>3, <3>2, <3>3, <3>8, <3>9 DEF IsTold
  <2>4. CASE j = k /\ k \in skewed
    BY <1>1, <2>1, <2>4 DEF IsTold
  <2>. QED
    BY <2>2, <2>3, <2>4
<1>. QED
  BY <1>6

LEMMA PopSound ==
    ASSUME NEW Known, Nothing \notin Known, QueueSound(Known), NEW k \in Keys, Pop(k)
    PROVE  \A j \in Keys : IsTold(j)'
<1>1. /\ items[k] # NoDelta
      /\ items' = [items EXCEPT ![k] = NoDelta]
      /\ known' = [known EXCEPT ![k] = After(items[k])]
      /\ UNCHANGED <<objects, reflector, list, sent, skewed>>
  BY DEF Pop
<1>2. /\ items \in [Keys -> DeltasOf(Known) \cup {NoDelta}]
      /\ known \in [Keys -> Known \cup {Nothing}]
  BY DEF QueueSound, QueueTyped, QueueTypeOK, DeltasOf, EventsOf
<1>3. ASSUME NEW j \in Keys
      PROVE  IsTold(j)'
  <2>1. IsTold(j)
    BY DEF QueueSound
  <2>2. \A from : Leads(from, j)' <=> Leads(from, j)
    BY <1>1, LeadsUnchanged
  <2>3. Outcome(j)' = Outcome(j)
    BY <1>1, <1>2 DEF Outcome
  <2>4. items'[j].type = "Added" => items[j].type = "Added" /\ known'[j] = known[j]
    BY <1>1, <1>2 DEF NoDelta
  <2>. QED
    BY <1>1, <2>1, <2>2, <2>3, <2>4 DEF IsTold
<1>. QED
  BY <1>3

LEMMA StutterSound ==
    ASSUME NEW Known, QueueSound(Known), UNCHANGED <<objects, queueVars>>
    PROVE  \A k \in Keys : IsTold(k)'
<1>1. UNCHANGED <<objects, reflector, list, sent, items, known, skewed>>
  BY DEF queueVars
<1>2. \A k \in Keys : IsTold(k)' <=> IsTold(k)
  BY <1>1 DEF IsTold, Leads, Outcome
<1>. QED
  BY <1>2 DEF QueueSound

-------------------------------------------------------------------------------
(* What the module that composes a queue knows of it *)

\* A queue begins sound, new or with nothing under way: deltaFIFO and reflector of
\* eventqueue.go when the master has just started, or has been running for a while.
LEMMA BeginsSound ==
    ASSUME NEW Known, objects \in [Keys -> Known \cup {Nothing}],
           QueueInit \/ QueueSettled
    PROVE  QueueSound(Known)
<1>1. sent \in [Keys -> Seq(EventsOf(Known))]
  BY <<>> \in Seq(EventsOf(Known)) DEF QueueInit, QueueSettled, NoEvents
<1>2. QueueTypeOK(Known)
  BY <1>1 DEF QueueInit, QueueSettled, QueueTypeOK, EventsOf, Empty
<1>3. ASSUME NEW k \in Keys
      PROVE  IsTold(k)
  <2>1. /\ sent[k] = <<>> /\ list[k] = Nothing
        /\ items[k] = NoDelta /\ NoDelta.type = "none"
    BY DEF QueueInit, QueueSettled, NoEvents, NoDelta, Empty
  <2>2. reflector = "broken" \/ (reflector = "watching" /\ known = objects)
    BY DEF QueueInit, QueueSettled
  <2>. QED
    BY <2>1, <2>2 DEF IsTold, Leads, Outcome
<1>. QED
  BY <1>2, <1>3 DEF QueueSound, QueueTyped

\* Every step of a queue keeps it sound, whatever is written meanwhile, whenever the
\* watch breaks and however often it lists again.
THEOREM QueueStep ==
    ASSUME NEW Known, Nothing \notin Known, QueueSound(Known), QueueNext(Known)
    PROVE  QueueSound(Known)'
<1>1. QueueTyped(Known)'
  BY TypedStep DEF QueueSound
<1>2. \A j \in Keys : IsTold(j)'
  BY WriteSound, BreakSound, ListSound, ReplaceSound, ResyncSound, DeliverSound, PopSound,
     ResetSound, StutterSound
     DEF QueueNext, QueueRuns
<1>. QED
  BY <1>1, <1>2 DEF QueueSound

\* A sound queue has told its handlers the truth about every key that it has nothing
\* more to say about, but for those whose list it misread.
THEOREM QueueTells ==
    ASSUME NEW Known, QueueSound(Known)
    PROVE  \A k \in Keys \ skewed : Learned(k)
BY DEF QueueSound, IsTold, Learned, Quiet, Leads, Outcome

-------------------------------------------------------------------------------
(* What a queue carries *)

LEMMA ResultsCarry ==
    ASSUME NEW item, NEW delta, NEW r \in Results(item, delta)
    PROVE  r.obj \in {item.obj, delta.obj, Nothing}
<1>1. CASE item = NoDelta
  BY <1>1 DEF Results
<1>2. CASE item # NoDelta /\ Ignored(item, delta.type)
  BY <1>2 DEF Results
<1>3. CASE item # NoDelta /\ ~Ignored(item, delta.type)
  <2>1. PICK a \in DeltaActions :
               r = IF a[3] = "none" THEN NoDelta ELSE [type |-> a[3], obj |-> delta.obj]
    BY <1>3 DEF Results
  <2>. QED
    BY <2>1 DEF NoDelta
<1>. QED
  BY <1>1, <1>2, <1>3

LEMMA StoredCarries ==
    ASSUME NEW Known, QueueTyped(Known), NEW Allowed, Carries(Allowed),
           NEW k \in Keys, NEW new \in Known \cup {Nothing},
           ~(objects[k] = Nothing /\ new = Nothing), Stored(k, new),
           \A j \in Keys : objects'[j] \in Allowed[j] \cup {Nothing}
    PROVE  \A j \in Keys : \A i \in 1..Len(sent'[j]) : sent'[j][i].obj \in Allowed[j]
<1>. USE DEF Carries
<1>. DEFINE e == EventOf(objects[k], new)
<1>1. /\ objects \in [Keys -> Known \cup {Nothing}]
      /\ sent \in [Keys -> Seq(EventsOf(Known))]
      /\ objects' = [objects EXCEPT ![k] = new]
      /\ sent' = sent \/ sent' = [sent EXCEPT ![k] = Append(sent[k], e)]
  BY SentFacts DEF QueueTyped, Stored
<1>2. e.obj \in Allowed[k]
  BY <1>1 DEF EventOf
<1>3. e \in EventsOf(Known)
  BY <1>1, EventOfType
<1>. HIDE DEF e
<1>4. CASE sent' = sent
  BY <1>4
<1>5. CASE sent' = [sent EXCEPT ![k] = Append(sent[k], e)]
  <2>1. sent[k] \in Seq(EventsOf(Known)) /\ sent'[k] = Append(sent[k], e)
    BY <1>1, <1>5
  <2>2. /\ Len(sent'[k]) = Len(sent[k]) + 1 /\ Len(sent[k]) \in Nat
        /\ sent'[k][Len(sent[k]) + 1] = e
        /\ \A i \in 1..Len(sent[k]) : sent'[k][i] = sent[k][i]
    BY <1>3, <2>1
  <2>3. \A i \in 1..Len(sent'[k]) : i \in 1..Len(sent[k]) \/ i = Len(sent[k]) + 1
    BY <2>2
  <2>4. \A j \in Keys \ {k} : sent'[j] = sent[j]
    BY <1>1, <1>5
  <2>. QED
    BY <1>2, <2>2, <2>3, <2>4
<1>. QED
  BY <1>1, <1>4, <1>5

\* What is stored, listed or known, and what is said of it, is what was written once.
LEMMA QueueCarries ==
    ASSUME NEW Known, Nothing \notin Known, QueueTyped(Known), QueueNext(Known),
           NEW Allowed, Carries(Allowed),
           \A k \in Keys : objects'[k] \in Allowed[k] \cup {Nothing}
    PROVE  Carries(Allowed)'
<1>. USE DEF Carries
<1>0. /\ sent \in [Keys -> Seq(EventsOf(Known))]
      /\ items \in [Keys -> DeltasOf(Known) \cup {NoDelta}]
      /\ known \in [Keys -> Known \cup {Nothing}]
      /\ objects \in [Keys -> Known \cup {Nothing}]
  BY SentFacts DEF QueueTyped, QueueTypeOK, DeltasOf, EventsOf
<1>1. ASSUME NEW k \in Keys, NEW new \in Known \cup {Nothing},
             ~(objects[k] = Nothing /\ new = Nothing), Write(k, new)
      PROVE  Carries(Allowed)'
  <2>1. /\ UNCHANGED <<reflector, list, items, known, skewed>>
        /\ \A j \in Keys : \A i \in 1..Len(sent'[j]) : sent'[j][i].obj \in Allowed[j]
    BY <1>1, StoredCarries DEF Write
  <2>. QED
    BY <2>1
<1>2. ASSUME Break \/ (Reset /\ UNCHANGED objects)
      PROVE  Carries(Allowed)'
  <2>1. /\ list' = Empty /\ sent' = NoEvents
        /\ UNCHANGED <<items, known>> \/ (known' = Empty /\ items' = [k \in Keys |-> NoDelta])
    BY <1>2 DEF Break, Reset
  <2>2. \A k \in Keys : sent'[k] = <<>> /\ list'[k] = Nothing
    BY <2>1 DEF NoEvents, Empty
  <2>3. \A k \in Keys : {known'[k], items'[k].obj} \subseteq Allowed[k] \cup {Nothing}
    BY <2>1 DEF NoDelta, Empty
  <2>. QED
    BY <2>2, <2>3
<1>3. ASSUME List
      PROVE  Carries(Allowed)'
  BY <1>3 DEF List
<1>4. ASSUME Replace
      PROVE  Carries(Allowed)'
  <2>1. /\ list' = Empty /\ UNCHANGED <<sent, known>>
        /\ items' = [k \in Keys |-> CHOOSE r \in ResultsOfList(k) : TRUE]
    BY <1>4 DEF Replace
  <2>2. \A k \in Keys : items'[k] \in ResultsOfList(k)
    BY <1>4, <2>1 DEF Replace
  <2>3. ASSUME NEW k \in Keys
        PROVE  items'[k].obj \in {items[k].obj, list[k], known[k], Nothing}
    <3>1. CASE FromList(k) = {}
      BY <2>2, <3>1 DEF ResultsOfList
    <3>2. CASE FromList(k) # {}
      <4>1. PICK d \in FromList(k) : items'[k] \in Results(items[k], d)
        BY <2>2, <3>2 DEF ResultsOfList
      <4>2. d.obj \in {list[k], known[k]}
        BY <4>1 DEF FromList
      <4>. QED
        BY <4>1, <4>2, ResultsCarry
    <3>. QED
      BY <3>1, <3>2
  <2>4. \A k \in Keys : items'[k].obj \in Allowed[k] \cup {Nothing}
    BY <2>3
  <2>5. \A k \in Keys : list'[k] = Nothing
    BY <2>1 DEF Empty
  <2>. QED
    BY <2>1, <2>4, <2>5
<1>5. ASSUME Resync
      PROVE  Carries(Allowed)'
  <2>1. /\ UNCHANGED <<list, sent, known>>
        /\ \A k \in Keys : items'[k].obj \in {known[k], Nothing}
    BY <1>5 DEF Resync, NoDelta
  <2>. QED
    BY <2>1
<1>6. ASSUME NEW k \in Keys, Deliver(k)
      PROVE  Carries(Allowed)'
  <2>1. /\ UNCHANGED <<objects, list, known>>
        /\ sent[k] # <<>> /\ sent' = [sent EXCEPT ![k] = Tail(sent[k])]
    BY <1>6 DEF Deliver
  <2>2. PICK r : /\ r \in ResultsOfEvent(k, Head(sent[k]))
                 /\ items' = [items EXCEPT ![k] = r]
    BY <1>6 DEF Deliver
  <2>3. /\ Head(sent[k]) = sent[k][1] /\ Len(sent[k]) \in Nat \ {0}
        /\ Len(Tail(sent[k])) = Len(sent[k]) - 1
        /\ \A i \in 1..(Len(sent[k]) - 1) : Tail(sent[k])[i] = sent[k][i + 1]
    BY <1>0, <2>1, TailFacts
  <2>4. sent[k][1].obj \in Allowed[k]
    BY <2>3
  <2>5. \A i \in 1..Len(Tail(sent[k])) : i + 1 \in 1..Len(sent[k])
    BY <2>3
  <2>6. r.obj \in Allowed[k] \cup {Nothing}
    BY <2>2, <2>3, <2>4, ResultsCarry DEF ResultsOfEvent, NoDelta
  <2>7. /\ \A j \in Keys \ {k} : sent'[j] = sent[j] /\ items'[j] = items[j]
        /\ sent'[k] = Tail(sent[k]) /\ items'[k] = r
    BY <1>0, <2>1, <2>2
  <2>. QED
    BY <2>1, <2>3, <2>5, <2>6, <2>7
<1>7. ASSUME NEW k \in Keys, Pop(k)
      PROVE  Carries(Allowed)'
  <2>1. /\ UNCHANGED <<list, sent>>
        /\ items' = [items EXCEPT ![k] = NoDelta]
        /\ known' = [known EXCEPT ![k] = After(items[k])]
    BY <1>7 DEF Pop
  <2>2. After(items[k]) \in {items[k].obj, Nothing} /\ NoDelta.obj = Nothing
    BY DEF After, NoDelta
  <2>3. \A j \in Keys : /\ items'[j].obj \in {items[j].obj, Nothing}
                        /\ known'[j] \in {known[j], items[j].obj, Nothing}
    BY <1>0, <2>1, <2>2
  <2>. QED
    BY <2>1, <2>3
<1>8. ASSUME UNCHANGED <<objects, queueVars>>
      PROVE  Carries(Allowed)'
  BY <1>8 DEF queueVars
<1>. QED
  BY <1>1, <1>2, <1>3, <1>4, <1>5, <1>6, <1>7, <1>8 DEF QueueNext, QueueRuns

\* So is what a handler makes of its copy, if that is allowed.
LEMMA AltersCarry ==
    ASSUME NEW Known, Nothing \notin Known, QueueTyped(Known),
           NEW Allowed, Carries(Allowed),
           NEW k \in Keys, NEW copy \in Known, Alters(k, copy, Known),
           copy \in Allowed[k],
           \A j \in Keys : objects'[j] \in Allowed[j] \cup {Nothing}
    PROVE  Carries(Allowed)'
<1>1. /\ known \in [Keys -> Known \cup {Nothing}]
      /\ known' = [known EXCEPT ![k] = copy]
      /\ UNCHANGED <<list, items>>
  BY DEF Alters, AlterKnown, QueueTyped, QueueTypeOK
<1>2. \A j \in Keys : \A i \in 1..Len(sent'[j]) : sent'[j][i].obj \in Allowed[j]
  <2>1. CASE UNCHANGED <<objects, sent>>
    BY <2>1 DEF Carries
  <2>2. CASE \E new \in Known : Stored(k, new)
    BY <2>2, StoredCarries
  <2>. QED
    BY <2>1, <2>2 DEF Alters
<1>3. \A j \in Keys : known'[j] \in Allowed[j] \cup {Nothing}
  BY <1>1 DEF Carries
<1>. QED
  BY <1>1, <1>2, <1>3 DEF Carries

LEMMA BeginsCarrying ==
    ASSUME NEW Allowed, QueueInit \/ QueueSettled,
           \A k \in Keys : objects[k] \in Allowed[k] \cup {Nothing}
    PROVE  Carries(Allowed)
<1>1. ASSUME NEW k \in Keys
      PROVE  /\ sent[k] = <<>> /\ items[k].obj = Nothing /\ list[k] = Nothing
             /\ known[k] \in {objects[k], Nothing}
  BY DEF QueueInit, QueueSettled, NoEvents, NoDelta, Empty
<1>2. ASSUME NEW k \in Keys
      PROVE  {objects[k], list[k], known[k], items[k].obj} \subseteq Allowed[k] \cup {Nothing}
  BY <1>1
<1>3. ASSUME NEW k \in Keys
      PROVE  1..Len(sent[k]) = {}
  BY <1>1
<1>. QED
  BY <1>2, <1>3 DEF Carries

-------------------------------------------------------------------------------
(* What is deleted *)

LEMMA MentionedStep ==
    ASSUME NEW Known, Nothing \notin Known, QueueSound(Known), QueueNext(Known)
    PROVE  \A k \in Keys : Mentioned(k)' \subseteq Mentioned(k) \cup {objects'[k], Nothing}
<1>1. PICK A : A = [k \in Keys |-> (Mentioned(k) \cup {objects'[k]}) \ {Nothing}]
  OBVIOUS
<1>2. \A k \in Keys : A[k] = (Mentioned(k) \cup {objects'[k]}) \ {Nothing}
  BY <1>1
<1>3. Carries(A)
  <2>. SUFFICES ASSUME NEW k \in Keys
                PROVE  /\ {objects[k], list[k], known[k], items[k].obj} \subseteq A[k] \cup {Nothing}
                       /\ \A i \in 1..Len(sent[k]) : sent[k][i].obj \in A[k]
    BY DEF Carries
  <2>1. ASSUME NEW i \in 1..Len(sent[k])
        PROVE  sent[k][i].obj \in Known
    <3>1. sent[k] \in Seq(EventsOf(Known))
      BY SentFacts DEF QueueSound
    <3>2. sent[k][i] \in EventsOf(Known)
      BY <3>1
    <3>. QED
      BY <3>2, DeltaFacts
  <2>. QED
    BY <1>2, <2>1 DEF Mentioned, Ahead
<1>4. Carries(A)'
  BY <1>2, <1>3, QueueCarries DEF QueueSound
<1>5. ASSUME NEW k \in Keys
      PROVE  Mentioned(k)' \subseteq A[k] \cup {Nothing}
  BY <1>4 DEF Carries, Mentioned, Ahead
<1>. QED
  BY <1>2, <1>5

LEMMA ResultsDelete ==
    ASSUME NEW item, NEW delta, NEW r \in Results(item, delta), r.type = "Deleted"
    PROVE  (r = item /\ item # NoDelta) \/ (delta.type = "Deleted" /\ r.obj = delta.obj)
<1>1. CASE item = NoDelta
  BY <1>1 DEF Results
<1>2. CASE item # NoDelta /\ Ignored(item, delta.type)
  BY <1>2 DEF Results
<1>3. CASE item # NoDelta /\ ~Ignored(item, delta.type)
  <2>1. PICK a \in DeltaActions :
               /\ a[2] = delta.type
               /\ r = IF a[3] = "none" THEN NoDelta ELSE [type |-> a[3], obj |-> delta.obj]
    BY <1>3 DEF Results
  <2>2. a[3] = "Deleted" => a[2] = "Deleted"
    BY DEF DeltaActions
  <2>3. NoDelta.type # "Deleted"
    BY DEF NoDelta
  <2>. QED
    BY <2>1, <2>2, <2>3
<1>. QED
  BY <1>1, <1>2, <1>3

\* A write is of a new object, or of what is there.
Fresh(Of, Except, k) ==
    \/ objects'[k] = Nothing
    \/ objects[k] # Nothing /\ Of[objects'[k]] = Of[objects[k]]
    \/ \A gone \in Mentioned(k) : Apart(Of, Except, objects'[k], gone)

LEMMA GoneWrite ==
    ASSUME NEW Known, Nothing \notin Known, QueueSound(Known),
           NEW Of, NEW Except, GoneForGood(Of, Except),
           NEW k \in Keys, NEW new \in Known \cup {Nothing},
           ~(objects[k] = Nothing /\ new = Nothing), Write(k, new),
           Fresh(Of, Except, k)
    PROVE  GoneForGood(Of, Except)'
<1>. DEFINE e == EventOf(objects[k], new)
<1>1. /\ objects' = [objects EXCEPT ![k] = new]
      /\ UNCHANGED <<reflector, list, items, known>>
      /\ sent' = sent \/ sent' = [sent EXCEPT ![k] = Append(sent[k], e)]
  BY DEF Write, Stored
<1>2. /\ sent \in [Keys -> Seq(EventsOf(Known))]
      /\ objects \in [Keys -> Known \cup {Nothing}]
      /\ e \in EventsOf(Known) /\ e.obj \in {objects[k], new}
      /\ e.type = "Deleted" => new = Nothing
  BY SentFacts, EventOfType DEF QueueSound, QueueTyped, EventOf
<1>. HIDE DEF e
<1>3. \A j \in Keys \ {k} : objects'[j] = objects[j] /\ sent'[j] = sent[j]
  BY <1>1, <1>2
<1>4. objects'[k] = new /\ (sent'[k] = sent[k] \/ sent'[k] = Append(sent[k], e))
  BY <1>1, <1>2
<1>5. \A gone \in Mentioned(k) :
         Apart(Of, Except, objects[k], gone) =>
            Apart(Of, Except, new, gone) /\ Apart(Of, Except, e.obj, gone)
  BY <1>2, <1>4 DEF Fresh, Apart
<1>6. sent[k] \in Seq(EventsOf(Known)) /\ Len(sent[k]) \in Nat
  BY <1>2
<1>7. /\ Len(sent'[k]) \in {Len(sent[k]), Len(sent[k]) + 1}
      /\ \A i \in 1..Len(sent[k]) : sent'[k][i] = sent[k][i]
      /\ Len(sent'[k]) = Len(sent[k]) + 1 => sent'[k][Len(sent[k]) + 1] = e
  BY <1>2, <1>4, <1>6
<1>8. /\ \A i \in 1..Len(sent'[k]) : i \in 1..Len(sent[k]) \/ sent'[k][i] = e
      /\ \A i \in 1..Len(sent'[k]) : i \notin 1..Len(sent[k]) => (i + 1)..Len(sent'[k]) = {}
  BY <1>6, <1>7
<1>9. Ahead(k)' \subseteq Ahead(k) \cup {new, e.obj}
  BY <1>4, <1>7, <1>8 DEF Ahead
<1>10. /\ items[k].obj \in Mentioned(k) /\ known[k] \in Mentioned(k)
       /\ objects[k] \in Ahead(k)
       /\ \A i \in 1..Len(sent[k]) : sent[k][i].obj \in Mentioned(k)
  BY DEF Mentioned, Ahead
<1>11. ASSUME items'[k].type = "Deleted"
       PROVE  \A x \in Ahead(k)' \cup {list'[k]} : Apart(Of, Except, x, items'[k].obj)
  <2>1. \A x \in Ahead(k) \cup {list[k]} : Apart(Of, Except, x, items[k].obj)
    BY <1>1, <1>11 DEF GoneForGood, GoneAt
  <2>. QED
    BY <1>1, <1>5, <1>9, <1>10, <2>1
<1>12. ASSUME NEW i \in 1..Len(sent'[k]), sent'[k][i].type = "Deleted"
       PROVE  /\ Apart(Of, Except, objects'[k], sent'[k][i].obj)
              /\ \A j \in (i + 1)..Len(sent'[k]) :
                   Apart(Of, Except, sent'[k][j].obj, sent'[k][i].obj)
  <2>1. CASE i \in 1..Len(sent[k])
    <3>1. /\ Apart(Of, Except, objects[k], sent[k][i].obj)
          /\ \A j \in (i + 1)..Len(sent[k]) :
               Apart(Of, Except, sent[k][j].obj, sent[k][i].obj)
      BY <1>7, <1>12, <2>1 DEF GoneForGood, GoneAt
    <3>2. \A j \in (i + 1)..Len(sent'[k]) : j \in 1..Len(sent'[k])
                   /\ (j \in (i + 1)..Len(sent[k]) \/ j \notin 1..Len(sent[k]))
      BY <1>6, <1>7, <2>1
    <3>. QED
      BY <1>4, <1>5, <1>7, <1>8, <1>10, <2>1, <3>1, <3>2
  <2>2. CASE i \notin 1..Len(sent[k])
    <3>1. sent'[k][i] = e /\ (i + 1)..Len(sent'[k]) = {}
      BY <1>8, <2>2
    <3>2. objects'[k] = Nothing
      BY <1>2, <1>4, <1>12, <3>1
    <3>. QED
      BY <3>1, <3>2 DEF Apart
  <2>. QED
    BY <2>1, <2>2
<1>13. ASSUME reflector' = "listed", list'[k] = Nothing
       PROVE  \A x \in Ahead(k)', gone \in {known'[k], items'[k].obj} : Apart(Of, Except, x, gone)
  <2>1. \A x \in Ahead(k), gone \in {known[k], items[k].obj} : Apart(Of, Except, x, gone)
    BY <1>1, <1>13 DEF GoneForGood, GoneAt
  <2>. QED
    BY <1>1, <1>5, <1>9, <1>10, <2>1
<1>14. GoneAt(Of, Except, k)'
  BY <1>11, <1>12, <1>13 DEF GoneAt
<1>15. ASSUME NEW j \in Keys \ {k}
       PROVE  GoneAt(Of, Except, j)'
  <2>1. Ahead(j)' = Ahead(j) /\ GoneAt(Of, Except, j)
    BY <1>3 DEF Ahead, GoneForGood, GoneAt
  <2>. QED
    BY <1>1, <1>3, <2>1 DEF GoneAt
<1>. QED
  BY <1>14, <1>15 DEF GoneForGood

LEMMA GoneDeliver ==
    ASSUME NEW Known, Nothing \notin Known, QueueSound(Known),
           NEW Of, NEW Except, GoneForGood(Of, Except), NEW k \in Keys, Deliver(k)
    PROVE  GoneForGood(Of, Except)'
<1>1. /\ reflector = "watching" /\ sent[k] # <<>>
      /\ sent' = [sent EXCEPT ![k] = Tail(sent[k])]
      /\ UNCHANGED <<objects, reflector, list, known>>
  BY DEF Deliver
<1>2. PICK e, r : /\ e = Head(sent[k]) /\ r \in ResultsOfEvent(k, e)
                  /\ items' = [items EXCEPT ![k] = r]
  BY DEF Deliver
<1>3. /\ sent \in [Keys -> Seq(EventsOf(Known))]
      /\ items \in [Keys -> DeltasOf(Known) \cup {NoDelta}]
  BY SentFacts DEF QueueSound, QueueTyped, QueueTypeOK, DeltasOf, EventsOf
<1>4. /\ Len(sent[k]) \in Nat \ {0} /\ e = sent[k][1]
      /\ sent'[k] = Tail(sent[k]) /\ items'[k] = r
      /\ Len(sent'[k]) = Len(sent[k]) - 1
      /\ \A i \in 1..(Len(sent[k]) - 1) : sent'[k][i] = sent[k][i + 1]
  BY <1>1, <1>2, <1>3, TailFacts
<1>5. \A j \in Keys \ {k} : sent'[j] = sent[j] /\ items'[j] = items[j]
  BY <1>1, <1>2, <1>3
<1>6. \A i \in 1..Len(sent'[k]) : i + 1 \in 1..Len(sent[k]) /\ i + 1 \in 2..Len(sent[k])
                                  /\ sent'[k][i] = sent[k][i + 1]
  BY <1>4
<1>7. \A i \in 1..Len(sent'[k]) : \A j \in (i + 1)..Len(sent'[k]) :
         j + 1 \in ((i + 1) + 1)..Len(sent[k]) /\ j \in 1..Len(sent'[k])
  BY <1>4
<1>8. Ahead(k)' \subseteq Ahead(k)
  BY <1>1, <1>6 DEF Ahead
<1>9. list[k] = Nothing
  BY <1>1 DEF QueueSound, IsTold
<1>10. ASSUME items'[k].type = "Deleted"
       PROVE  \A x \in Ahead(k)' \cup {list'[k]} : Apart(Of, Except, x, items'[k].obj)
  <2>1. CASE r = items[k]
    <3>1. \A x \in Ahead(k) \cup {list[k]} : Apart(Of, Except, x, items[k].obj)
      BY <1>4, <1>10, <2>1 DEF GoneForGood, GoneAt
    <3>. QED
      BY <1>1, <1>4, <1>8, <2>1, <3>1
  <2>2. CASE e.type = "Deleted" /\ r.obj = e.obj
    <3>1. 1 \in 1..Len(sent[k]) /\ 2 = 1 + 1
      BY <1>4
    <3>2. /\ Apart(Of, Except, objects[k], sent[k][1].obj)
          /\ \A j \in 2..Len(sent[k]) : Apart(Of, Except, sent[k][j].obj, sent[k][1].obj)
      BY <1>4, <2>2, <3>1 DEF GoneForGood, GoneAt
    <3>3. \A x \in Ahead(k)' : x = objects[k] \/ \E j \in 2..Len(sent[k]) : x = sent[k][j].obj
      BY <1>1, <1>6 DEF Ahead
    <3>4. Apart(Of, Except, Nothing, e.obj)
      BY DEF Apart
    <3>. QED
      BY <1>1, <1>4, <1>9, <2>2, <3>2, <3>3, <3>4
  <2>. QED
    BY <1>2, <1>4, <1>10, <2>1, <2>2, ResultsDelete DEF ResultsOfEvent, NoDelta
<1>11. ASSUME NEW i \in 1..Len(sent'[k]), sent'[k][i].type = "Deleted"
       PROVE  /\ Apart(Of, Except, objects'[k], sent'[k][i].obj)
              /\ \A j \in (i + 1)..Len(sent'[k]) :
                   Apart(Of, Except, sent'[k][j].obj, sent'[k][i].obj)
  <2>1. /\ Apart(Of, Except, objects[k], sent[k][i + 1].obj)
        /\ \A j \in ((i + 1) + 1)..Len(sent[k]) :
             Apart(Of, Except, sent[k][j].obj, sent[k][i + 1].obj)
    BY <1>6, <1>11 DEF GoneForGood, GoneAt
  <2>. QED
    BY <1>1, <1>6, <1>7, <2>1
<1>12. GoneAt(Of, Except, k)'
  BY <1>1, <1>10, <1>11 DEF GoneAt
<1>13. ASSUME NEW j \in Keys \ {k}
       PROVE  GoneAt(Of, Except, j)'
  <2>1. Ahead(j)' = Ahead(j)
    BY <1>1, <1>5 DEF Ahead
  <2>2. GoneAt(Of, Except, j)
    BY DEF GoneForGood
  <2>. QED
    BY <1>1, <1>5, <2>1, <2>2 DEF GoneAt
<1>. QED
  BY <1>12, <1>13 DEF GoneForGood

LEMMA GoneReplace ==
    ASSUME NEW Known, Nothing \notin Known, QueueSound(Known),
           NEW Of, NEW Except, GoneForGood(Of, Except), Replace
    PROVE  GoneForGood(Of, Except)'
<1>1. /\ reflector = "listed" /\ reflector' = "watching" /\ list' = Empty
      /\ items' = [k \in Keys |-> CHOOSE r \in ResultsOfList(k) : TRUE]
      /\ UNCHANGED <<objects, sent, known>>
  BY DEF Replace
<1>2. \A k \in Keys : items'[k] \in ResultsOfList(k) /\ list'[k] = Nothing
  BY <1>1 DEF Replace, Empty
<1>3. \A k \in Keys : Ahead(k)' = Ahead(k)
  BY <1>1 DEF Ahead
<1>4. ASSUME NEW k \in Keys, items'[k].type = "Deleted"
      PROVE  \A x \in Ahead(k) : Apart(Of, Except, x, items'[k].obj)
  <2>1. CASE items'[k] = items[k]
    BY <1>4, <2>1 DEF GoneForGood, GoneAt
  <2>2. CASE items'[k] # items[k]
    <3>1. PICK d \in FromList(k) : items'[k] \in Results(items[k], d)
      BY <1>2, <2>2 DEF ResultsOfList
    <3>2. d.type = "Deleted" /\ items'[k].obj = d.obj
      BY <1>4, <2>2, <3>1, ResultsDelete
    <3>3. list[k] = Nothing /\ d.obj = known[k]
      BY <3>1, <3>2 DEF FromList
    <3>. QED
      BY <1>1, <3>2, <3>3 DEF GoneForGood, GoneAt
  <2>. QED
    BY <2>1, <2>2
<1>5. \A k \in Keys : Apart(Of, Except, list'[k], items'[k].obj)
  BY <1>2 DEF Apart
<1>. QED
  BY <1>1, <1>3, <1>4, <1>5 DEF GoneForGood, GoneAt

\* A deletion stays the last that is heard of what is gone, however the watch breaks and
\* whatever is compressed, as long as what is written has never been deleted before.
LEMMA GoneStep ==
    ASSUME NEW Known, Nothing \notin Known, QueueSound(Known), QueueNext(Known),
           NEW Of, NEW Except, GoneForGood(Of, Except),
           \A k \in Keys : Fresh(Of, Except, k)
    PROVE  GoneForGood(Of, Except)'
<1>1. ASSUME Break
      PROVE  GoneForGood(Of, Except)'
  <2>1. /\ reflector' = "broken" /\ list' = Empty /\ sent' = NoEvents
        /\ UNCHANGED <<objects, items, known>>
    BY <1>1 DEF Break
  <2>2. \A k \in Keys : 1..Len(sent'[k]) = {} /\ list'[k] = Nothing
    BY <2>1 DEF NoEvents, Empty
  <2>3. \A k \in Keys : Ahead(k)' = {objects[k]}
    BY <2>1, <2>2 DEF Ahead
  <2>4. \A k \in Keys : objects[k] \in Ahead(k)
    BY DEF Ahead
  <2>5. \A k \in Keys : Apart(Of, Except, list'[k], items'[k].obj)
    BY <2>2 DEF Apart
  <2>. QED
    BY <2>1, <2>2, <2>3, <2>4, <2>5 DEF GoneForGood, GoneAt
<1>2. ASSUME Reset
      PROVE  GoneForGood(Of, Except)'
  <2>1. /\ reflector' = "broken" /\ sent' = NoEvents
        /\ items' = [k \in Keys |-> NoDelta]
    BY <1>2 DEF Reset
  <2>2. \A k \in Keys : 1..Len(sent'[k]) = {} /\ items'[k].type # "Deleted"
    BY <2>1 DEF NoEvents, NoDelta
  <2>. QED
    BY <2>1, <2>2 DEF GoneForGood, GoneAt
<1>3. ASSUME List
      PROVE  GoneForGood(Of, Except)'
  <2>1. /\ reflector = "broken" /\ list' = objects
        /\ UNCHANGED <<objects, sent, items, known>>
    BY <1>3 DEF List
  <2>2. ASSUME NEW k \in Keys
        PROVE  1..Len(sent[k]) = {}
    <3>1. sent[k] = <<>>
      BY <2>1 DEF QueueSound, IsTold
    <3>. QED
      BY <3>1
  <2>3. \A k \in Keys : Ahead(k)' = {objects[k]} /\ Ahead(k) = {objects[k]}
    BY <2>1, <2>2 DEF Ahead
  <2>4. \A gone : Apart(Of, Except, Nothing, gone)
    BY DEF Apart
  <2>5. ASSUME NEW k \in Keys
        PROVE  GoneAt(Of, Except, k)'
    <3>1. GoneAt(Of, Except, k) /\ list'[k] = objects[k]
      BY <2>1 DEF GoneForGood
    <3>. QED
      BY <2>1, <2>2, <2>3, <2>4, <3>1 DEF GoneAt
  <2>. QED
    BY <2>5 DEF GoneForGood
<1>4. ASSUME Resync
      PROVE  GoneForGood(Of, Except)'
  <2>1. /\ reflector' = "watching" /\ UNCHANGED <<objects, sent>>
        /\ \A k \in Keys : items'[k].type # "Deleted"
    BY <1>4 DEF Resync, NoDelta
  <2>. QED
    BY <2>1 DEF GoneForGood, GoneAt, Ahead
<1>5. ASSUME NEW k \in Keys, Pop(k)
      PROVE  GoneForGood(Of, Except)'
  <2>1. /\ UNCHANGED <<objects, reflector, list, sent>>
        /\ items' = [items EXCEPT ![k] = NoDelta]
        /\ known' = [known EXCEPT ![k] = After(items[k])]
    BY <1>5 DEF Pop
  <2>2. items \in [Keys -> DeltasOf(Known) \cup {NoDelta}] /\ known \in [Keys -> Known \cup {Nothing}]
    BY DEF QueueSound, QueueTyped, QueueTypeOK, DeltasOf, EventsOf
  <2>3. \A j \in Keys : /\ Ahead(j)' = Ahead(j)
                        /\ items'[j] = items[j] \/ items'[j] = NoDelta
                        /\ known'[j] \in {known[j], items[j].obj, Nothing}
    BY <2>1, <2>2 DEF Ahead, After
  <2>4. /\ NoDelta.type # "Deleted" /\ NoDelta.obj = Nothing
        /\ \A x : Apart(Of, Except, x, Nothing)
    BY DEF NoDelta, Apart
  <2>5. ASSUME NEW j \in Keys
        PROVE  GoneAt(Of, Except, j)'
    <3>1. GoneAt(Of, Except, j)
      BY DEF GoneForGood
    <3>. QED
      BY <2>1, <2>3, <2>4, <3>1 DEF GoneAt
  <2>. QED
    BY <2>5 DEF GoneForGood
<1>6. ASSUME UNCHANGED <<objects, queueVars>>
      PROVE  GoneForGood(Of, Except)'
  <2>1. UNCHANGED <<objects, reflector, list, sent, items, known>>
    BY <1>6 DEF queueVars
  <2>2. \A k : Ahead(k)' = Ahead(k)
    BY <2>1 DEF Ahead
  <2>. QED
    BY <2>1, <2>2 DEF GoneForGood, GoneAt
<1>. QED
  BY <1>1, <1>2, <1>3, <1>4, <1>5, <1>6, GoneWrite, GoneDeliver, GoneReplace DEF QueueNext, QueueRuns

LEMMA BeginsGone ==
    ASSUME NEW Of, NEW Except, QueueInit \/ QueueSettled
    PROVE  GoneForGood(Of, Except)
<1>1. ASSUME NEW k \in Keys
      PROVE  1..Len(sent[k]) = {} /\ items[k].type # "Deleted" /\ reflector # "listed"
  BY DEF QueueInit, QueueSettled, NoEvents, NoDelta
<1>. QED
  BY <1>1 DEF GoneForGood, GoneAt

\* A deletion that the handler takes is the last that the queue has said of it.
LEMMA PopForgets ==
    ASSUME NEW Known, Nothing \notin Known, QueueSound(Known),
           NEW Of, NEW Except, GoneForGood(Of, Except),
           NEW k \in Keys, Pop(k), items[k].type = "Deleted"
    PROVE  \A x \in Mentioned(k)' : Apart(Of, Except, x, items[k].obj)
<1>1. /\ UNCHANGED <<objects, list, sent>>
      /\ items'[k] = NoDelta /\ known'[k] = Nothing
  BY DEF Pop, After, QueueSound, QueueTyped, QueueTypeOK
<1>2. \A x \in Mentioned(k)' : x \in Ahead(k) \cup {list[k], Nothing}
  BY <1>1 DEF Mentioned, Ahead, NoDelta
<1>3. \A x \in Ahead(k) \cup {list[k]} : Apart(Of, Except, x, items[k].obj)
  BY DEF GoneForGood, GoneAt
<1>4. Apart(Of, Except, Nothing, items[k].obj)
  BY DEF Apart
<1>. QED
  BY <1>2, <1>3, <1>4

LEMMA GoneLess ==
    ASSUME NEW Of, NEW Except, NEW More, Except \subseteq More, GoneForGood(Of, Except)'
    PROVE  GoneForGood(Of, More)'
<1>1. \A x, gone : Apart(Of, Except, x, gone) => Apart(Of, More, x, gone)
  BY DEF Apart
<1>. QED
  BY <1>1 DEF GoneForGood, GoneAt

-------------------------------------------------------------------------------
(* When nothing is under way *)

\* A queue that has nothing to say about a stored object had nothing to say before,
\* unless the handler has just taken the object.
LEMMA QuietRuns ==
    ASSUME NEW Known, Nothing \notin Known, QueueSound(Known), QueueRuns(Known),
           NEW k \in Keys, k \notin skewed', objects'[k] # Nothing, Quiet(k)'
    PROVE  Quiet(k) /\ k \notin skewed /\ objects[k] = objects'[k]
<1>1. QueueSound(Known)'
  BY QueueStep DEF QueueNext
<1>2. known'[k] = objects'[k]
  BY <1>1 DEF QueueSound, IsTold, Quiet, Leads, Outcome
<1>3. /\ sent \in [Keys -> Seq(EventsOf(Known))]
      /\ items \in [Keys -> DeltasOf(Known) \cup {NoDelta}]
      /\ objects \in [Keys -> Known \cup {Nothing}]
  BY SentFacts DEF QueueSound, QueueTyped, QueueTypeOK, DeltasOf, EventsOf
<1>4. reflector' = "watching" /\ sent'[k] = <<>> /\ items'[k] = NoDelta
  BY DEF Quiet
<1>5. ASSUME NEW j \in Keys, NEW new \in Known \cup {Nothing}, Write(j, new),
             ~(objects[j] = Nothing /\ new = Nothing)
      PROVE  Quiet(k) /\ k \notin skewed /\ objects[k] = objects'[k]
  <2>1. /\ objects' = [objects EXCEPT ![j] = new]
        /\ UNCHANGED <<reflector, items, skewed>>
        /\ sent' = [sent EXCEPT ![j] = Append(sent[j], EventOf(objects[j], new))]
    BY <1>4, <1>5 DEF Write, Stored
  <2>. DEFINE e == EventOf(objects[j], new)
  <2>2. sent[j] \in Seq(EventsOf(Known)) /\ e \in EventsOf(Known)
    BY <1>3, <1>5, EventOfType
  <2>3. sent'[j] = Append(sent[j], e)
    BY <1>3, <2>1
  <2>. HIDE DEF e
  <2>4. sent'[j] # <<>>
    BY <2>2, <2>3
  <2>5. j # k
    BY <1>4, <2>4
  <2>. QED
    BY <1>3, <1>4, <2>1, <2>5 DEF Quiet
<1>6. ASSUME Break \/ List \/ (Reset /\ UNCHANGED objects)
      PROVE  FALSE
  BY <1>4, <1>6 DEF Break, List, Reset
<1>7. ASSUME Replace
      PROVE  FALSE
  <2>1. /\ reflector = "listed" /\ UNCHANGED <<objects, sent>>
        /\ items'[k] \in ResultsOfList(k)
    BY <1>7 DEF Replace
  <2>2. list[k] = objects[k] /\ objects[k] # Nothing
    BY <1>4, <2>1 DEF QueueSound, IsTold, Leads
  <2>3. PICK d \in DeltasOf(Known) : d.type = "Sync" /\ NoDelta \in Results(items[k], d)
    <3>1. FromList(k) = {[type |-> "Sync", obj |-> list[k]]}
      BY <2>2 DEF FromList
    <3>2. items'[k] \in Results(items[k], [type |-> "Sync", obj |-> list[k]])
      BY <2>1, <3>1 DEF ResultsOfList
    <3>3. [type |-> "Sync", obj |-> list[k]] \in DeltasOf(Known)
      BY <1>3, <2>2 DEF DeltasOf, DeltaTypes
    <3>. QED
      BY <1>4, <3>2, <3>3
  <2>. QED
    BY <1>3, <2>3, ResultsType
<1>8. ASSUME Resync
      PROVE  FALSE
  <2>1. /\ known' = known
        /\ items'[k] = IF known[k] = Nothing THEN NoDelta ELSE [type |-> "Sync", obj |-> known[k]]
    BY <1>8 DEF Resync
  <2>. QED
    BY <1>2, <1>4, <2>1 DEF NoDelta
<1>9. ASSUME NEW j \in Keys, Deliver(j)
      PROVE  Quiet(k) /\ k \notin skewed /\ objects[k] = objects'[k]
  <2>1. /\ reflector = "watching" /\ sent[j] # <<>>
        /\ sent' = [sent EXCEPT ![j] = Tail(sent[j])]
        /\ UNCHANGED <<objects, known, skewed>>
    BY <1>9 DEF Deliver
  <2>2. PICK r : r \in ResultsOfEvent(j, Head(sent[j])) /\ items' = [items EXCEPT ![j] = r]
    BY <1>9 DEF Deliver
  <2>3. CASE j # k
    BY <1>3, <1>4, <2>1, <2>2, <2>3 DEF Quiet
  <2>4. CASE j = k
    <3>1. Head(sent[k]) \in DeltasOf(Known)
      BY <1>3, <2>1, <2>4, TailFacts, DeltaFacts
    <3>2. \/ Dropped(k, Head(sent[k]))
          \/ NoDelta \in Results(items[k], Head(sent[k]))
      BY <1>3, <1>4, <2>2, <2>4 DEF ResultsOfEvent
    <3>3. Dropped(k, Head(sent[k])) \/ items[k].type = "Added"
      BY <1>3, <3>1, <3>2, ResultsType
    <3>4. known[k] = Nothing
      BY <2>1, <3>3 DEF QueueSound, IsTold, Dropped
    <3>. QED
      BY <1>2, <2>1, <3>4
  <2>. QED
    BY <2>3, <2>4
<1>10. ASSUME UNCHANGED <<objects, queueVars>>
       PROVE  Quiet(k) /\ k \notin skewed /\ objects[k] = objects'[k]
  BY <1>4, <1>10 DEF Quiet, queueVars
<1>. QED
  BY <1>5, <1>6, <1>7, <1>8, <1>9, <1>10 DEF QueueRuns

LEMMA QuietPop ==
    ASSUME NEW Known, Nothing \notin Known, QueueSound(Known), NEW j \in Keys, Pop(j),
           NEW k \in Keys, k \notin skewed', objects'[k] # Nothing, Quiet(k)'
    PROVE  /\ k \notin skewed /\ objects[k] = objects'[k]
           /\ Quiet(k) \/ (j = k /\ items[k].type # "Deleted" /\ items[k].obj = objects[k])
<1>1. QueueSound(Known)'
  BY QueueStep DEF QueueNext
<1>2. known'[k] = objects'[k]
  BY <1>1 DEF QueueSound, IsTold, Quiet, Leads, Outcome
<1>3. /\ items \in [Keys -> DeltasOf(Known) \cup {NoDelta}]
      /\ known \in [Keys -> Known \cup {Nothing}]
  BY DEF QueueSound, QueueTyped, QueueTypeOK, DeltasOf, EventsOf
<1>4. /\ UNCHANGED <<objects, reflector, list, sent, skewed>>
      /\ items' = [items EXCEPT ![j] = NoDelta]
      /\ known' = [known EXCEPT ![j] = After(items[j])]
  BY DEF Pop
<1>5. CASE j # k
  BY <1>3, <1>4, <1>5 DEF Quiet
<1>6. CASE j = k
  <2>1. After(items[k]) = objects[k]
    BY <1>2, <1>3, <1>4, <1>6
  <2>. QED
    BY <1>4, <1>6, <2>1 DEF After
<1>. QED
  BY <1>5, <1>6
===============================================================================
