----------------------------- MODULE NetIDs_proofs -----------------------------
(***************************************************************************)
(* Proofs about NetIDs, for every finite set of namespaces, every range of *)
(* ids and every bound on what happens around the master.                  *)
(***************************************************************************)
EXTENDS NetIDs, FiniteSetTheorems, TLAPS

NP == INSTANCE EventQueue_proofs WITH
    Keys <- Namespaces, objects <- namespace, reflector <- nsReflector, list <- nsList,
    sent <- nsSent, items <- nsItems, known <- nsKnown, skewed <- nsSkewed

TP == INSTANCE EventQueue_proofs WITH
    Keys <- Namespaces, objects <- netns, reflector <- netReflector, list <- netList,
    sent <- netSent, items <- netItems, known <- netKnown, skewed <- netSkewed

Jobs == {Idle} \cup [pc : {"assign", "revoke"}, name : Namespaces] \cup
        [pc : {"update"}, name : Namespaces, read : NetNamespaces]

MemoryOK ==
    /\ ids \in [Names -> IDs \cup {NoID}]
    /\ taken \in SUBSET NetIDRange

HistoryOK ==
    /\ allowRenumbering \in BOOLEAN
    /\ joined \in SUBSET SUBSET Names
    /\ unsettled \in SUBSET Namespaces
    /\ changes \in 0..MaxOfAKind
    /\ requests \in 0..MaxOfAKind
    /\ faults \in 0..MaxFaults

JobsOK == job \in [Threads -> Jobs]

JobJoinsOthers ==
    job["netnamespaces"].pc = "update" =>
        /\ job["netnamespaces"].read \in Asks(job["netnamespaces"].name)
        /\ job["netnamespaces"].read.ask # Nothing

Asked == [n \in Namespaces |-> Asks(n)]

Inv ==
    /\ NP!QueueSound({There})
    /\ TP!QueueTyped(NetNamespaces)
    /\ TP!Carries(Asked)
    /\ MemoryOK
    /\ HistoryOK
    /\ JobsOK
    /\ JobJoinsOthers
    /\ MapIsSound
    /\ SharedInMap

\* A step of the queue of NetNamespaces, or of a handler that alters its copy of one,
\* after which the queue no longer says what is stored but still what may be.
NetStep ==
    \/ TP!QueueNext(NetNamespaces)
    \/ \E n \in Namespaces : \E copy \in Asks(n) : TP!Alters(n, copy, NetNamespaces)

-------------------------------------------------------------------------------
(* The queues are those of EventQueue_proofs *)

LEMMA NamespaceQueueIs ==
    /\ NamespaceQueue!QueueSettled <=> NP!QueueSettled
    /\ NamespaceQueue!QueueInit <=> NP!QueueInit
    /\ NamespaceQueue!Reset <=> NP!Reset
    /\ \A k, new : NamespaceQueue!Write(k, new) <=> NP!Write(k, new)
    /\ NamespaceQueue!Break <=> NP!Break
    /\ NamespaceQueue!List <=> NP!List
    /\ NamespaceQueue!Replace <=> NP!Replace
    /\ NamespaceQueue!Resync <=> NP!Resync
    /\ \A k : NamespaceQueue!Deliver(k) <=> NP!Deliver(k)
    /\ \A k : NamespaceQueue!Pop(k) <=> NP!Pop(k)
BY DEF NamespaceQueue!Stored, NP!Stored, NamespaceQueue!Dropped, NP!Dropped,
       NamespaceQueue!ResultsOfEvent,
       NP!ResultsOfEvent,
       NamespaceQueue!QueueSettled, NP!QueueSettled, NamespaceQueue!QueueInit,
       NP!QueueInit, NamespaceQueue!Reset, NP!Reset, NamespaceQueue!Write,
       NP!Write, NamespaceQueue!Break, NP!Break, NamespaceQueue!List, NP!List,
       NamespaceQueue!Replace, NP!Replace, NamespaceQueue!Resync, NP!Resync,
       NamespaceQueue!Deliver, NP!Deliver, NamespaceQueue!Pop, NP!Pop,
       NamespaceQueue!EventOf, NP!EventOf, NamespaceQueue!ResultsOfList,
       NP!ResultsOfList, NamespaceQueue!FromList, NP!FromList,
       NamespaceQueue!Misread, NP!Misread, NamespaceQueue!Results, NP!Results,
       NamespaceQueue!Ignored, NP!Ignored, NamespaceQueue!DeltaActions,
       NP!DeltaActions, NamespaceQueue!DeltaTypes, NP!DeltaTypes,
       NamespaceQueue!WatchTypes, NP!WatchTypes, NamespaceQueue!After,
       NP!After, NamespaceQueue!Empty, NP!Empty, NamespaceQueue!NoEvents,
       NP!NoEvents, NamespaceQueue!NoDelta, NP!NoDelta

LEMMA NetQueueIs ==
    /\ NetQueue!QueueSettled <=> TP!QueueSettled
    /\ NetQueue!QueueInit <=> TP!QueueInit
    /\ NetQueue!Reset <=> TP!Reset
    /\ \A k, new : NetQueue!Write(k, new) <=> TP!Write(k, new)
    /\ \A k, new : NetQueue!Stored(k, new) <=> TP!Stored(k, new)
    /\ \A k, copy : NetQueue!AlterKnown(k, copy) <=> TP!AlterKnown(k, copy)
    /\ NetQueue!Break <=> TP!Break
    /\ NetQueue!List <=> TP!List
    /\ NetQueue!Replace <=> TP!Replace
    /\ NetQueue!Resync <=> TP!Resync
    /\ \A k : NetQueue!Deliver(k) <=> TP!Deliver(k)
    /\ \A k : NetQueue!Pop(k) <=> TP!Pop(k)
BY DEF NetQueue!Stored, TP!Stored, NetQueue!Dropped, TP!Dropped, NetQueue!ResultsOfEvent,
       TP!ResultsOfEvent, NetQueue!AlterKnown, TP!AlterKnown,
       NetQueue!QueueSettled, TP!QueueSettled, NetQueue!QueueInit,
       TP!QueueInit, NetQueue!Reset, TP!Reset, NetQueue!Write, TP!Write,
       NetQueue!Break, TP!Break, NetQueue!List, TP!List, NetQueue!Replace,
       TP!Replace, NetQueue!Resync, TP!Resync, NetQueue!Deliver, TP!Deliver,
       NetQueue!Pop, TP!Pop, NetQueue!EventOf, TP!EventOf,
       NetQueue!ResultsOfList, TP!ResultsOfList, NetQueue!FromList,
       TP!FromList, NetQueue!Misread, TP!Misread, NetQueue!Results,
       TP!Results, NetQueue!Ignored, TP!Ignored, NetQueue!DeltaActions,
       TP!DeltaActions, NetQueue!DeltaTypes, TP!DeltaTypes,
       NetQueue!WatchTypes, TP!WatchTypes, NetQueue!After, TP!After,
       NetQueue!Empty, TP!Empty, NetQueue!NoEvents, TP!NoEvents,
       NetQueue!NoDelta, TP!NoDelta
-------------------------------------------------------------------------------
(* What the steps have in common *)

LEMMA NothingFacts ==
    /\ Nothing \notin {There} /\ Nothing \notin NetNamespaces /\ Nothing \notin Requests
    /\ NoID \notin IDs /\ GlobalVNID \notin NetIDRange /\ NoID \notin NetIDRange
    /\ NetIDRange \subseteq IDs
    /\ \A n \in Namespaces : n \notin Residents /\ n \in Names
BY NothingAssumption, RangeAssumption, NamesAssumption
   DEF NoID, IDs, GlobalVNID, Names

LEMMA StoredFacts ==
    ASSUME Inv
    PROVE  /\ namespace \in [Namespaces -> {There} \cup {Nothing}]
           /\ netns \in [Namespaces -> NetNamespaces \cup {Nothing}]
           /\ \A n \in Namespaces : netns[n] \in Asks(n) \cup {Nothing}
           /\ \A n \in Namespaces : netItems[n].obj \in Asks(n) \cup {Nothing}
<1>1. \A n \in Namespaces : Asked[n] = Asks(n)
  BY DEF Asked
<1>. QED
  BY <1>1 DEF Inv, NP!QueueSound, NP!QueueTyped, TP!QueueTyped, TP!Carries

LEMMA InvFrom ==
    ASSUME Inv, NP!QueueNext({There}), NetStep,
           \A n \in Namespaces : netns'[n] \in Asks(n) \cup {Nothing},
           MemoryOK', HistoryOK', JobsOK', JobJoinsOthers', MapIsSound', SharedInMap'
    PROVE  Inv'
<1>1. NP!QueueSound({There})'
  BY NP!QueueStep, NothingFacts DEF Inv
<1>2. TP!QueueTyped(NetNamespaces)' /\ TP!Carries(Asked)'
  <2>1. \A n \in Namespaces : netns'[n] \in Asked[n] \cup {Nothing}
    BY DEF Asked
  <2>2. CASE TP!QueueNext(NetNamespaces)
    BY <2>1, <2>2, TP!TypedStep, TP!QueueCarries, NothingFacts DEF Inv
  <2>3. ASSUME NEW n \in Namespaces, NEW copy \in Asks(n),
               TP!Alters(n, copy, NetNamespaces)
        PROVE  TP!QueueTyped(NetNamespaces)' /\ TP!Carries(Asked)'
    <3>1. copy \in NetNamespaces /\ copy \in Asked[n]
      BY DEF Asks, Asked
    <3>. QED
      BY <2>1, <2>3, <3>1, TP!AltersTyped, TP!AltersCarry, NothingFacts DEF Inv
  <2>. QED
    BY <2>2, <2>3 DEF NetStep
<1>. QED
  BY <1>1, <1>2 DEF Inv

\* Neither the map nor what is stored of a namespace without errors has changed.
LEMMA SameMap ==
    ASSUME Inv, UNCHANGED <<ids, taken, joined>>, unsettled \subseteq unsettled',
           \A n \in Names \ unsettled' : StoredID(n)' = StoredID(n)
    PROVE  MapIsSound' /\ SharedInMap'
<1>1. AllocatorAgrees'
  BY DEF Inv, MapIsSound, AllocatorAgrees, Held
<1>2. MapAgrees'
  BY DEF Inv, MapIsSound, MapAgrees
<1>3. SharedInMap'
  BY DEF Inv, SharedInMap
<1>. QED
  BY <1>1, <1>2, <1>3 DEF MapIsSound

LEMMA SameStored ==
    ASSUME UNCHANGED netns
    PROVE  \A n \in Names : StoredID(n)' = StoredID(n)
BY DEF StoredID

LEMMA NamespaceWrite ==
    ASSUME Inv, NEW n \in Namespaces, NEW new \in {There, Nothing},
           ~(namespace[n] = Nothing /\ new = Nothing), NamespaceQueue!Write(n, new)
    PROVE  NP!QueueNext({There})
<1>1. NP!Write(n, new)
  BY NamespaceQueueIs
<1>. QED
  BY <1>1 DEF NP!QueueNext, NP!QueueRuns

LEMMA NetStored ==
    ASSUME Inv, NEW n \in Namespaces, NEW new \in Asks(n) \cup {Nothing},
           NetQueue!Stored(n, new)
    PROVE  /\ \A m \in Namespaces : netns'[m] \in Asks(m) \cup {Nothing}
           /\ \A m \in Names : StoredID(m)' = IF m # n THEN StoredID(m)
                                              ELSE IF new = Nothing THEN NoID ELSE new.id
<1>1. netns' = [netns EXCEPT ![n] = new]
  BY NetQueueIs DEF TP!Stored
<1>2. \A m \in Namespaces : netns'[m] = IF m = n THEN new ELSE netns[m]
  BY <1>1, StoredFacts
<1>3. \A m \in Namespaces : netns'[m] \in Asks(m) \cup {Nothing}
  BY <1>2, StoredFacts
<1>4. ASSUME NEW m \in Names
      PROVE  StoredID(m)' = IF m # n THEN StoredID(m)
                            ELSE IF new = Nothing THEN NoID ELSE new.id
  <2>1. n \notin Residents
    BY NothingFacts
  <2>2. CASE m \in Residents
    BY <2>1, <2>2 DEF StoredID
  <2>3. CASE m \notin Residents
    BY <1>2, <2>1, <2>3 DEF StoredID, Names
  <2>. QED
    BY <2>2, <2>3
<1>. QED
  BY <1>3, <1>4

LEMMA NetWrite ==
    ASSUME Inv, NEW n \in Namespaces, NEW new \in Asks(n) \cup {Nothing},
           ~(netns[n] = Nothing /\ new = Nothing), NetQueue!Write(n, new)
    PROVE  /\ NetStep
           /\ \A m \in Namespaces : netns'[m] \in Asks(m) \cup {Nothing}
           /\ \A m \in Names : StoredID(m)' = IF m # n THEN StoredID(m)
                                              ELSE IF new = Nothing THEN NoID ELSE new.id
<1>1. TP!Write(n, new) /\ new \in NetNamespaces \cup {Nothing}
  BY NetQueueIs DEF Asks
<1>2. NetStep
  BY <1>1 DEF NetStep, TP!QueueNext, TP!QueueRuns
<1>3. NetQueue!Stored(n, new)
  BY <1>1, NetQueueIs DEF TP!Write
<1>. QED
  BY <1>2, <1>3, NetStored

\* What the master sends of an object is without the request; so is its copy.
LEMMA PlainFacts ==
    ASSUME Inv, NEW n \in Namespaces, NEW id \in IDs
    PROVE  /\ Plain(id) \in Asks(n) /\ Plain(id) \in NetNamespaces
           /\ Plain(id) # Nothing /\ Plain(id).id = id
<1>1. Plain(id) \in NetNamespaces /\ Plain(id).id = id /\ Plain(id).ask = Nothing
  BY DEF Plain, NetNamespaces
<1>. QED
  BY <1>1, NothingFacts DEF Asks

\* A handler alters its copy, and the object is stored or left alone.
LEMMA NetAlter ==
    ASSUME Inv, NEW n \in Namespaces, NEW id \in IDs, Alter(n, id),
           job["netnamespaces"].read \in NetNamespaces,
           NetQueue!Stored(n, Plain(id)) \/ UNCHANGED <<netns, netSent>>
    PROVE  /\ NetStep
           /\ \A m \in Namespaces : netns'[m] \in Asks(m) \cup {Nothing}
<1>. DEFINE copy == [id |-> id, ask |-> Nothing, was |-> job["netnamespaces"].read.ask]
<1>1. copy \in Asks(n)
  BY DEF Asks, NetNamespaces
<1>2. TP!AlterKnown(n, copy)
  BY NetQueueIs DEF Alter
<1>. HIDE DEF copy
<1>3. TP!Stored(n, Plain(id)) \/ UNCHANGED <<netns, netSent>>
  BY NetQueueIs
<1>4. Plain(id) \in NetNamespaces /\ Plain(id) \in Asks(n)
  BY PlainFacts
<1>5. TP!Alters(n, copy, NetNamespaces)
  BY <1>2, <1>3, <1>4 DEF TP!Alters
<1>6. CASE UNCHANGED <<netns, netSent>>
  BY <1>1, <1>5, <1>6, StoredFacts DEF NetStep
<1>7. CASE NetQueue!Stored(n, Plain(id))
  BY <1>1, <1>4, <1>5, <1>7, NetStored DEF NetStep
<1>. QED
  BY <1>6, <1>7

LEMMA NetStutter ==
    ASSUME Inv, UNCHANGED netVars
    PROVE  /\ NetStep
           /\ UNCHANGED netns
           /\ \A m \in Namespaces : netns'[m] \in Asks(m) \cup {Nothing}
           /\ \A m \in Names : StoredID(m)' = StoredID(m)
<1>1. UNCHANGED <<netns, TP!queueVars>>
  BY DEF netVars, TP!queueVars
<1>2. NetStep
  BY <1>1 DEF NetStep, TP!QueueNext, TP!QueueRuns
<1>. QED
  BY <1>1, <1>2, StoredFacts, SameStored

LEMMA NamespaceStutter ==
    ASSUME UNCHANGED nsVars
    PROVE  NP!QueueNext({There})
<1>1. UNCHANGED <<namespace, NP!queueVars>>
  BY DEF nsVars, NP!queueVars
<1>. QED
  BY <1>1 DEF NP!QueueNext, NP!QueueRuns

-------------------------------------------------------------------------------
(* The steps that leave the map alone *)

LEMMA UsersStep ==
    ASSUME Inv, NEW n \in Namespaces, Create(n) \/ Remove(n) \/ Ask(n)
    PROVE  Inv'
<1>1. ASSUME NEW new \in {There, Nothing}, NamespaceChanges(n, new),
             ~(namespace[n] = Nothing /\ new = Nothing)
      PROVE  Inv'
  <2>1. /\ NamespaceQueue!Write(n, new)
        /\ UNCHANGED <<netVars, ids, taken, allowRenumbering, job, joined, unsettled,
                       requests, faults>>
        /\ changes < MaxOfAKind /\ changes' = changes + 1
    BY <1>1 DEF NamespaceChanges, More, memory
  <2>2. NP!QueueNext({There})
    BY <1>1, <2>1, NamespaceWrite
  <2>3. MapIsSound' /\ SharedInMap'
    BY <2>1, NetStutter, SameMap
  <2>4. MemoryOK' /\ HistoryOK' /\ JobsOK' /\ JobJoinsOthers'
    BY <2>1, BoundsAssumption DEF Inv, MemoryOK, HistoryOK, JobsOK, JobJoinsOthers
  <2>. QED
    BY <2>1, <2>2, <2>3, <2>4, NetStutter, InvFrom
<1>2. ASSUME Ask(n)
      PROVE  Inv'
  <2>1. /\ netns[n] # Nothing
        /\ UNCHANGED <<nsVars, ids, taken, allowRenumbering, job, joined, unsettled,
                       changes, faults>>
        /\ requests < MaxOfAKind /\ requests' = requests + 1
    BY <1>2 DEF Ask, More, memory
  <2>2. PICK a \in {"global", "isolate", "join"}, to \in Names \cup {Nothing} :
             /\ a = "join" => to \in Names \ {n}
             /\ NetQueue!Write(n, [netns[n] EXCEPT !.ask =
                                    [action |-> a, to |-> to, at |-> requests + 1]])
    BY <1>2 DEF Ask
  <2>. DEFINE ask == [action |-> a, to |-> to, at |-> requests + 1]
              new == [netns[n] EXCEPT !.ask = ask]
  <2>3. ask \in Requests
    BY <2>1, BoundsAssumption DEF Inv, HistoryOK, Requests
  <2>4. netns[n] \in NetNamespaces
    BY <2>1, StoredFacts
  <2>5. new \in NetNamespaces /\ new.ask = ask /\ new.id = netns[n].id
    BY <2>3, <2>4 DEF NetNamespaces
  <2>6. NetQueue!Write(n, new) /\ ask.action = a /\ ask.to = to
    BY <2>2
  <2>. HIDE DEF new, ask
  <2>7. new \in Asks(n)
    BY <2>2, <2>5, <2>6 DEF Asks
  <2>8. /\ NetStep
        /\ \A m \in Namespaces : netns'[m] \in Asks(m) \cup {Nothing}
        /\ \A m \in Names : StoredID(m)' = IF m # n THEN StoredID(m)
                                           ELSE IF new = Nothing THEN NoID ELSE new.id
    BY <2>1, <2>6, <2>7, NetWrite
  <2>9. \A m \in Names : StoredID(m)' = StoredID(m)
    BY <2>1, <2>5, <2>8, NothingFacts DEF StoredID
  <2>10. MapIsSound' /\ SharedInMap'
    BY <2>1, <2>9, SameMap
  <2>11. MemoryOK' /\ HistoryOK' /\ JobsOK' /\ JobJoinsOthers'
    BY <2>1, BoundsAssumption DEF Inv, MemoryOK, HistoryOK, JobsOK, JobJoinsOthers
  <2>. QED
    BY <2>1, <2>8, <2>10, <2>11, NamespaceStutter, InvFrom
<1>. QED
  BY <1>1, <1>2, NothingFacts DEF Create, Remove

\* What the reflectors do and a watch that breaks.
LEMMA ReflectorsStep ==
    ASSUME Inv,
           \/ NamespaceReflector \/ NamespaceResync \/ NamespaceWatchBreaks
           \/ NetReflector \/ NetResync \/ NetWatchBreaks
    PROVE  Inv'
<1>1. /\ UNCHANGED <<ids, taken, allowRenumbering, job, joined, unsettled, changes, requests>>
      /\ faults' = faults \/ (faults < MaxFaults /\ faults' = faults + 1)
      /\ \/ /\ UNCHANGED netVars
            /\ \/ NamespaceQueue!List \/ NamespaceQueue!Replace \/ NamespaceQueue!Resync
               \/ NamespaceQueue!Break
               \/ \E n \in Namespaces : NamespaceQueue!Deliver(n)
         \/ /\ UNCHANGED nsVars
            /\ \/ NetQueue!List \/ NetQueue!Replace \/ NetQueue!Resync
               \/ NetQueue!Break
               \/ \E n \in Namespaces : NetQueue!Deliver(n)
  BY DEF NamespaceReflector, NamespaceResync, NamespaceWatchBreaks, NetReflector, NetResync,
         NetWatchBreaks, history, memory, Fails, Fault
<1>2. UNCHANGED netns
  BY <1>1, NetQueueIs DEF netVars, TP!List, TP!Replace, TP!Resync, TP!Break, TP!Deliver
<1>3. NP!QueueNext({There})
  BY <1>1, NamespaceQueueIs, NamespaceStutter DEF NP!QueueNext, NP!QueueRuns
<1>4. NetStep
  BY <1>1, NetQueueIs, NetStutter DEF NetStep, TP!QueueNext, TP!QueueRuns
<1>5. \A n \in Namespaces : netns'[n] \in Asks(n) \cup {Nothing}
  BY <1>2, StoredFacts
<1>6. MapIsSound' /\ SharedInMap'
  BY <1>1, <1>2, SameStored, SameMap
<1>7. MemoryOK' /\ HistoryOK' /\ JobsOK' /\ JobJoinsOthers'
  BY <1>1, BoundsAssumption DEF Inv, MemoryOK, HistoryOK, JobsOK, JobJoinsOthers
<1>. QED
  BY <1>3, <1>4, <1>5, <1>6, <1>7, InvFrom

LEMMA JobFacts ==
    ASSUME Inv
    PROVE  /\ Idle.pc = "idle" /\ Idle \in Jobs
           /\ "namespaces" \in Threads /\ "netnamespaces" \in Threads
           /\ \A t \in Threads : job[t].pc = "update" =>
                job[t].name \in Namespaces /\ job[t].read \in NetNamespaces
BY DEF Inv, JobsOK, Jobs, Idle, Threads

LEMMA EventsStep ==
    ASSUME Inv, NEW n \in Namespaces, NamespaceEvent(n) \/ NetEvent(n)
    PROVE  Inv'
<1>1. /\ UNCHANGED <<ids, taken, allowRenumbering, joined, unsettled, changes, requests, faults>>
      /\ \/ /\ UNCHANGED netVars /\ NamespaceQueue!Pop(n)
            /\ \E pc \in {"assign", "revoke"} :
                 job' = [job EXCEPT !["namespaces"] = [pc |-> pc, name |-> n]]
         \/ /\ UNCHANGED nsVars /\ NetQueue!Pop(n)
            /\ \/ UNCHANGED job
               \/ /\ netItems[n].type # "Deleted" /\ netItems[n].obj.ask # Nothing
                  /\ job' = [job EXCEPT !["netnamespaces"] =
                        [pc |-> "update", name |-> n, read |-> netItems[n].obj]]
  BY DEF NamespaceEvent, NetEvent, Goto, history, memory
<1>2. UNCHANGED netns
  BY <1>1, NetQueueIs DEF netVars, TP!Pop
<1>3. NP!QueueNext({There})
  BY <1>1, NamespaceQueueIs, NamespaceStutter DEF NP!QueueNext, NP!QueueRuns
<1>4. NetStep
  BY <1>1, NetQueueIs, NetStutter DEF NetStep, TP!QueueNext, TP!QueueRuns
<1>5. \A m \in Namespaces : netns'[m] \in Asks(m) \cup {Nothing}
  BY <1>2, StoredFacts
<1>6. MapIsSound' /\ SharedInMap'
  BY <1>1, <1>2, SameStored, SameMap
<1>7. JobsOK' /\ JobJoinsOthers'
  <2>1. ASSUME NEW pc \in {"assign", "revoke"},
               job' = [job EXCEPT !["namespaces"] = [pc |-> pc, name |-> n]]
        PROVE  JobsOK' /\ JobJoinsOthers'
    <3>1. job'["netnamespaces"] = job["netnamespaces"]
      BY <2>1 DEF Inv, JobsOK, Threads
    <3>2. [pc |-> pc, name |-> n] \in Jobs
      BY DEF Jobs
    <3>3. job' \in [Threads -> Jobs]
      BY <2>1, <3>2 DEF Inv, JobsOK
    <3>. QED
      BY <3>1, <3>3 DEF Inv, JobsOK, JobJoinsOthers
  <2>2. ASSUME NetQueue!Pop(n), netItems[n].type # "Deleted", netItems[n].obj.ask # Nothing,
               job' = [job EXCEPT !["netnamespaces"] =
                        [pc |-> "update", name |-> n, read |-> netItems[n].obj]]
        PROVE  JobsOK' /\ JobJoinsOthers'
    <3>. DEFINE j == [pc |-> "update", name |-> n, read |-> netItems[n].obj]
    <3>1. netItems[n] # TP!NoDelta
      BY <2>2, NetQueueIs DEF TP!Pop
    <3>2. netItems[n] \in TP!DeltasOf(NetNamespaces)
      BY <3>1 DEF Inv, TP!QueueTyped, TP!QueueTypeOK, TP!DeltasOf
    <3>3. netItems[n].obj \in NetNamespaces
      BY <3>2, TP!DeltaFacts, NothingFacts
    <3>4. netItems[n].obj \in Asks(n)
      BY <3>3, StoredFacts, NothingFacts
    <3>5. j \in Jobs /\ j.name = n /\ j.read \in Asks(n) /\ j.read.ask # Nothing
      BY <2>2, <3>3, <3>4 DEF Jobs
    <3>6. job'["netnamespaces"] = j /\ job' \in [Threads -> Jobs]
      BY <2>2, <3>5, JobFacts DEF Inv, JobsOK
    <3>. QED
      BY <3>5, <3>6 DEF JobsOK, JobJoinsOthers
  <2>3. ASSUME UNCHANGED job
        PROVE  JobsOK' /\ JobJoinsOthers'
    BY <2>3 DEF Inv, JobsOK, JobJoinsOthers
  <2>. QED
    BY <1>1, <2>1, <2>2, <2>3
<1>8. MemoryOK' /\ HistoryOK'
  BY <1>1 DEF Inv, MemoryOK, HistoryOK
<1>. QED
  BY <1>3, <1>4, <1>5, <1>6, <1>7, <1>8, InvFrom

-------------------------------------------------------------------------------
(* The steps that change the map *)

LEMMA InitSound == Init => Inv
<1>. SUFFICES ASSUME Init PROVE Inv
  OBVIOUS
<1>1. namespace \in [Namespaces -> {There} \cup {Nothing}]
  BY DEF Init
<1>2. \A n \in Namespaces : netns[n] = IF FirstID(n) = NoID THEN Nothing
                                       ELSE Plain(FirstID(n))
  BY DEF Init
<1>3. \A n \in Namespaces : netns[n] \in Asks(n) \cup {Nothing}
  <2>1. ASSUME NEW n \in Namespaces, FirstID(n) # NoID
        PROVE  netns[n] \in Asks(n)
    <3>1. FirstID(n) \in IDs
      BY <2>1, NamesAssumption DEF IDs
    <3>2. netns[n] = Plain(FirstID(n))
      BY <1>2, <2>1
    <3>. QED
      BY <3>1, <3>2 DEF Asks, NetNamespaces, Plain
  <2>. QED
    BY <1>2, <2>1
<1>4. netns \in [Namespaces -> NetNamespaces \cup {Nothing}]
  BY <1>3 DEF Asks, Init
<1>5. NP!QueueSound({There})
  BY <1>1, NP!BeginsSound, NamespaceQueueIs DEF Init
<1>6. TP!QueueTyped(NetNamespaces)
  BY <1>4, TP!BeginsSound, NetQueueIs DEF Init, TP!QueueSound
<1>7. TP!Carries(Asked)
  <2>1. \A n \in Namespaces : netns[n] \in Asked[n] \cup {Nothing}
    BY <1>3 DEF Asked
  <2>. QED
    BY <2>1, TP!BeginsCarrying, NetQueueIs DEF Init
<1>8. /\ ids = [n \in Names |-> StoredID(n)]
      /\ \A n \in Names : StoredID(n) = FirstID(n) /\ FirstID(n) \in IDs \cup {NoID}
  <2>1. ASSUME NEW n \in Names
        PROVE  StoredID(n) = FirstID(n) /\ FirstID(n) \in IDs \cup {NoID}
    <3>1. CASE n \in Residents
      BY <3>1, NamesAssumption DEF StoredID
    <3>2. CASE n \notin Residents /\ FirstID(n) = NoID
      BY <1>2, <3>2 DEF StoredID, Names
    <3>3. CASE n \notin Residents /\ FirstID(n) # NoID
      <4>1. n \in Namespaces
        BY <3>3 DEF Names
      <4>2. FirstID(n) \in IDs
        BY <3>3, <4>1, NamesAssumption DEF IDs
      <4>3. netns[n] = Plain(FirstID(n))
        BY <1>2, <3>3, <4>1
      <4>4. netns[n] \in NetNamespaces /\ netns[n].id = FirstID(n)
        BY <4>2, <4>3 DEF NetNamespaces, Plain
      <4>. QED
        BY <3>3, <4>2, <4>4, NothingFacts DEF StoredID
    <3>. QED
      BY <3>1, <3>2, <3>3
  <2>. QED
    BY <2>1 DEF Init
<1>9. MemoryOK
  <2>1. \A n \in Names : ids[n] \in IDs \cup {NoID}
    BY <1>8
  <2>. QED
    BY <1>8, <2>1 DEF Init, MemoryOK, Held, IDs
<1>10. HistoryOK
  BY BoundsAssumption DEF Init, HistoryOK
<1>11. JobsOK /\ JobJoinsOthers
  BY DEF Init, JobsOK, Jobs, JobJoinsOthers, Idle, Threads
<1>12. MapIsSound /\ SharedInMap
  BY <1>8, NamesAssumption DEF Init, MapIsSound, AllocatorAgrees, MapAgrees, SharedInMap
<1>. QED
  BY <1>5, <1>6, <1>7, <1>9, <1>10, <1>11, <1>12 DEF Inv

LEMMA SoundIsNeverShared ==
    ASSUME MapAgrees, SharedInMap
    PROVE  NeverShared
BY DEF MapAgrees, SharedInMap, NeverShared

\* A master that starts makes its map of what is stored, where nobody shares an id that
\* was not to.
LEMMA RestartsStep ==
    ASSUME Inv, Restart \/ NamespacePanic \/ NetPanic
    PROVE  Inv'
<1>1. /\ NamespaceQueue!Reset /\ NetQueue!Reset
      /\ ids' = [n \in Names |-> StoredID(n)]
      /\ taken' = Held(ids')
      /\ job' = [t \in Threads |-> Idle]
      /\ UNCHANGED <<namespace, netns, joined, unsettled, changes, requests>>
      /\ allowRenumbering' \in BOOLEAN
      /\ faults' = faults \/ (faults < MaxFaults /\ faults' = faults + 1)
  BY DEF Restart, NamespacePanic, NetPanic, Restarts, history, Fails, Fault, Inv, HistoryOK
<1>2. NP!QueueNext({There})
  BY <1>1, NamespaceQueueIs DEF NP!QueueNext, NP!QueueRuns
<1>3. NetStep
  BY <1>1, NetQueueIs DEF NetStep, TP!QueueNext, TP!QueueRuns
<1>4. \A m \in Namespaces : netns'[m] \in Asks(m) \cup {Nothing}
  BY <1>1, StoredFacts
<1>5. \A n \in Names : StoredID(n)' = StoredID(n)
  BY <1>1, SameStored
<1>6. \A n \in Names : StoredID(n) \in IDs \cup {NoID}
  BY StoredFacts, NamesAssumption DEF StoredID, Names, NetNamespaces
<1>7. MemoryOK'
  <2>1. \A n \in Names : ids'[n] \in IDs \cup {NoID}
    BY <1>1, <1>6
  <2>. QED
    BY <1>1, <2>1 DEF MemoryOK, Held, IDs
<1>8. HistoryOK' /\ JobsOK' /\ JobJoinsOthers'
  BY <1>1, JobFacts, BoundsAssumption DEF Inv, HistoryOK, JobsOK, JobJoinsOthers
<1>9. MapIsSound'
  BY <1>1, <1>5 DEF MapIsSound, AllocatorAgrees, MapAgrees, Held
<1>10. SharedInMap'
  <2>1. NeverShared
    BY SoundIsNeverShared DEF Inv, MapIsSound
  <2>. QED
    BY <1>1, <2>1 DEF NeverShared, SharedInMap
<1>. QED
  BY <1>2, <1>3, <1>4, <1>7, <1>8, <1>9, <1>10, InvFrom

\* The map with n's id set to another one.
LEMMA SetFacts ==
    ASSUME Inv, NEW n \in Namespaces, NEW id, SetVNID(n, id)
    PROVE  /\ ids'[n] = id
           /\ \A m \in Names \ {n} : ids'[m] = ids[m]
           /\ id \in IDs \cup {NoID} => ids' \in [Names -> IDs \cup {NoID}]
           /\ Held(ids') = ({ids[m] : m \in Names \ {n}} \cup {id}) \ {GlobalVNID, NoID}
<1>1. n \in Names /\ ids \in [Names -> IDs \cup {NoID}]
  BY NothingFacts DEF Inv, MemoryOK
<1>2. ids' = [ids EXCEPT ![n] = id]
  BY DEF SetVNID
<1>3. /\ ids'[n] = id
      /\ \A m \in Names \ {n} : ids'[m] = ids[m]
  BY <1>1, <1>2
<1>. QED
  BY <1>1, <1>2, <1>3 DEF Held

LEMMA CountFacts ==
    ASSUME NEW m, NEW id
    PROVE  /\ VNIDCount(m, id) > 0 <=> \E n \in Names : m[n] = id
           /\ VNIDCount(m, id) = 1 =>
                \A n, k \in Names : m[n] = id /\ m[k] = id => n = k
<1>. DEFINE S == {n \in Names : m[n] = id}
<1>1. IsFiniteSet(S) /\ Cardinality(S) \in Nat
  <2>1. S \in SUBSET Names
    OBVIOUS
  <2>. HIDE DEF S
  <2>. QED
    BY <2>1, FS_Subset, FS_CardinalityType, NamesAssumption
<1>2. Cardinality(S) > 0 <=> S # {}
  <2>. HIDE DEF S
  <2>. QED
    BY <1>1, FS_EmptySet
<1>3. Cardinality(S) = 1 => \E x : S = {x}
  <2>. HIDE DEF S
  <2>. QED
    BY <1>1, FS_Singleton
<1>. QED
  BY <1>2, <1>3 DEF VNIDCount

\* releaseNetID keeps the marks of all ids but of the one that n alone held.
LEMMA ReleasedFacts ==
    ASSUME Inv, NEW n \in Namespaces
    PROVE  Released(n) = {ids[m] : m \in Names \ {n}} \ {GlobalVNID, NoID}
<1>1. n \in Names /\ ids \in [Names -> IDs \cup {NoID}]
  BY NothingFacts DEF Inv, MemoryOK
<1>2. taken = {ids[m] : m \in Names} \ {GlobalVNID, NoID}
  BY DEF Inv, MapIsSound, AllocatorAgrees, Held
<1>. DEFINE without == [ids EXCEPT ![n] = NoID]
<1>3. /\ without[n] = NoID
      /\ \A m \in Names \ {n} : without[m] = ids[m]
  BY <1>1
<1>4. VNIDCount(without, ids[n]) > 0 <=> \E m \in Names : without[m] = ids[n]
  BY CountFacts
<1>5. Released(n) = IF ids[n] = GlobalVNID \/ \E m \in Names : without[m] = ids[n] THEN taken
                    ELSE taken \ {ids[n]}
  BY <1>4 DEF Released
<1>. HIDE DEF without
<1>6. CASE ids[n] = GlobalVNID
  BY <1>1, <1>2, <1>5, <1>6
<1>7. CASE ids[n] = NoID
  BY <1>1, <1>2, <1>5, <1>7
<1>8. CASE ids[n] # GlobalVNID /\ ids[n] # NoID
  <2>1. CASE \E m \in Names \ {n} : ids[m] = ids[n]
    BY <1>1, <1>2, <1>3, <1>5, <1>8, <2>1
  <2>2. CASE ~ \E m \in Names \ {n} : ids[m] = ids[n]
    BY <1>1, <1>2, <1>3, <1>5, <1>8, <2>2
  <2>. QED
    BY <2>1, <2>2
<1>. QED
  BY <1>6, <1>7, <1>8

\* What a namespace leaves unsettled may be anything; a pair that may share is kept
\* unless one of the two gets an id of its own.
LEMMA MapStep ==
    ASSUME Inv, NEW n \in Namespaces, NEW id \in IDs \cup {NoID}, SetVNID(n, id),
           taken' = Released(n) \cup ({id} \ {GlobalVNID, NoID}),
           \A m \in Names \ {n} : StoredID(m)' = StoredID(m),
           n \in unsettled' \/ StoredID(n)' = id,
           unsettled \ {n} \subseteq unsettled',
           \A p \in joined : n \notin p => p \in joined',
           \A m \in Names \ {n} : ids[m] = id /\ id \in NetIDRange => {n, m} \in joined'
    PROVE  MapIsSound' /\ SharedInMap'
<1>1. /\ ids'[n] = id /\ \A m \in Names \ {n} : ids'[m] = ids[m]
      /\ Held(ids') = ({ids[m] : m \in Names \ {n}} \cup {id}) \ {GlobalVNID, NoID}
  BY SetFacts
<1>2. AllocatorAgrees'
  <2>1. taken' = Held(ids')
    BY <1>1, ReleasedFacts
  <2>2. Held(ids)' = Held(ids')
    BY DEF Held
  <2>. QED
    BY <2>1, <2>2 DEF AllocatorAgrees
<1>3. MapAgrees'
  BY <1>1 DEF Inv, MapIsSound, MapAgrees
<1>4. SharedInMap'
  <2>. SUFFICES ASSUME NEW l \in Names, NEW m \in Names, l # m, ids'[l] = ids'[m],
                       ids'[m] \in NetIDRange
                PROVE  {l, m} \in joined' \/ {l, m} \cap unsettled' # {}
    BY DEF SharedInMap
  <2>1. CASE l = n
    BY <1>1, <2>1
  <2>2. CASE m = n
    <3>1. {n, l} = {l, m}
      BY <2>2
    <3>. QED
      BY <1>1, <2>2, <3>1
  <2>3. CASE l # n /\ m # n
    <3>1. {l, m} \in joined \/ {l, m} \cap unsettled # {}
      BY <1>1, <2>3 DEF Inv, SharedInMap
    <3>. QED
      BY <2>3, <3>1
  <2>. QED
    BY <2>1, <2>2, <2>3
<1>. QED
  BY <1>2, <1>3, <1>4 DEF MapIsSound

LEMMA DoneFacts ==
    ASSUME Inv, NEW t \in Threads, Done(t)
    PROVE  JobsOK' /\ JobJoinsOthers'
<1>1. job' = [job EXCEPT ![t] = Idle]
  BY DEF Done, Goto
<1>2. job' \in [Threads -> Jobs]
  BY <1>1, JobFacts DEF Inv, JobsOK
<1>3. job'["netnamespaces"] = job["netnamespaces"] \/ job'["netnamespaces"] = Idle
  BY <1>1, JobFacts DEF Inv, JobsOK
<1>. QED
  BY <1>2, <1>3, JobFacts DEF Inv, JobsOK, JobJoinsOthers

LEMMA AssignStep ==
    ASSUME Inv, NEW n \in Namespaces, AssignVNID(n)
    PROVE  Inv'
<1>1. /\ Done("namespaces") /\ UNCHANGED <<nsVars, allowRenumbering, joined>>
      /\ JobsOK' /\ JobJoinsOthers' /\ NP!QueueNext({There})
  BY DoneFacts, JobFacts, NamespaceStutter DEF AssignVNID, history
<1>2. ASSUME ids[n] # NoID \/ taken = NetIDRange,
             UNCHANGED <<netVars, memory, history>>
      PROVE  Inv'
  <2>1. UNCHANGED <<ids, taken, joined, unsettled, changes, requests, faults>>
    BY <1>2 DEF memory, history
  <2>2. MapIsSound' /\ SharedInMap'
    BY <1>2, <2>1, NetStutter, SameMap
  <2>3. MemoryOK' /\ HistoryOK'
    BY <1>1, <2>1 DEF Inv, MemoryOK, HistoryOK
  <2>. QED
    BY <1>1, <1>2, <2>2, <2>3, NetStutter, InvFrom
<1>3. ASSUME ids[n] = NoID, netns[n] = Nothing, NEW id \in NetIDRange \ taken,
             NetQueue!Write(n, Plain(id)),
             \/ /\ SetVNID(n, id) /\ taken' = taken \cup {id}
                /\ unsettled' = unsettled \ {n} /\ NoFault
             \/ Fault /\ unsettled' = unsettled \cup {n} /\ UNCHANGED memory
      PROVE  Inv'
  <2>1. Plain(id) \in Asks(n) /\ Plain(id).id = id
    BY PlainFacts, NothingFacts
  <2>2. Plain(id) # Nothing
    BY PlainFacts, NothingFacts
  <2>3. NetQueue!Write(n, Plain(id))
    BY <1>3
  <2>4. /\ NetStep
        /\ \A m \in Namespaces : netns'[m] \in Asks(m) \cup {Nothing}
        /\ \A m \in Names : StoredID(m)' = IF m # n THEN StoredID(m) ELSE id
    BY <1>3, <2>1, <2>2, <2>3, NetWrite
  <2>5. CASE /\ SetVNID(n, id) /\ taken' = taken \cup {id}
             /\ unsettled' = unsettled \ {n} /\ NoFault
    <3>1. taken = Released(n) /\ \A m \in Names \ {n} : ids[m] # id
      <4>1. taken = {ids[m] : m \in Names} \ {GlobalVNID, NoID}
        BY DEF Inv, MapIsSound, AllocatorAgrees, Held
      <4>2. \A m \in Names : ids[m] # id
        BY <1>3, <4>1, NothingFacts
      <4>. QED
        BY <1>3, <4>1, <4>2, ReleasedFacts
    <3>2. taken' = Released(n) \cup ({id} \ {GlobalVNID, NoID})
      BY <2>5, <3>1, NothingFacts
    <3>3. StoredID(n)' = id /\ \A m \in Names \ {n} : StoredID(m)' = StoredID(m)
      BY <2>4, NothingFacts
    <3>4. unsettled \ {n} \subseteq unsettled' /\ joined' = joined /\ id \in IDs \cup {NoID}
      BY <1>1, <2>5, NothingFacts
    <3>5. MapIsSound' /\ SharedInMap'
      BY <2>5, <3>1, <3>2, <3>3, <3>4, MapStep
    <3>6. MemoryOK' /\ HistoryOK'
      BY <1>1, <2>5, SetFacts, NothingFacts DEF Inv, MemoryOK, HistoryOK, NoFault
    <3>. QED
      BY <1>1, <2>4, <3>5, <3>6, InvFrom
  <2>6. CASE Fault /\ unsettled' = unsettled \cup {n} /\ UNCHANGED memory
    <3>1. \A m \in Names \ unsettled' : StoredID(m)' = StoredID(m)
      BY <2>4, <2>6
    <3>2. MapIsSound' /\ SharedInMap'
      BY <1>1, <2>6, <3>1, SameMap DEF memory
    <3>3. MemoryOK' /\ HistoryOK'
      BY <1>1, <2>6, BoundsAssumption DEF Inv, MemoryOK, HistoryOK, Fault, memory
    <3>. QED
      BY <1>1, <2>4, <3>2, <3>3, InvFrom
  <2>. QED
    BY <1>3, <2>5, <2>6
<1>4. ASSUME ids[n] = NoID, Fault \/ NoFault, unsettled' = unsettled \cup {n},
             UNCHANGED <<netVars, memory>>
      PROVE  Inv'
  <2>1. MapIsSound' /\ SharedInMap'
    BY <1>1, <1>4, NetStutter, SameMap DEF memory
  <2>2. MemoryOK' /\ HistoryOK'
    BY <1>1, <1>4, BoundsAssumption DEF Inv, MemoryOK, HistoryOK, Fault, NoFault, memory
  <2>. QED
    BY <1>1, <1>4, <2>1, <2>2, NetStutter, InvFrom
<1>. QED
  BY <1>2, <1>3, <1>4 DEF AssignVNID

LEMMA RevokeStep ==
    ASSUME Inv, NEW n \in Namespaces, RevokeVNID(n)
    PROVE  Inv'
<1>1. /\ Done("namespaces") /\ UNCHANGED <<nsVars, allowRenumbering>>
      /\ JobsOK' /\ JobJoinsOthers' /\ NP!QueueNext({There})
  BY DoneFacts, JobFacts, NamespaceStutter DEF RevokeVNID
<1>2. ASSUME netns[n] # Nothing, NetQueue!Write(n, Nothing)
      PROVE  /\ NetStep
             /\ \A m \in Namespaces : netns'[m] \in Asks(m) \cup {Nothing}
             /\ \A m \in Names : StoredID(m)' = IF m # n THEN StoredID(m) ELSE NoID
  BY <1>2, NetWrite
<1>3. ASSUME netns[n] # Nothing, NetQueue!Write(n, Nothing),
             IF ids[n] = NoID THEN UNCHANGED memory
             ELSE SetVNID(n, NoID) /\ taken' = Released(n),
             Leaves(n), unsettled' = unsettled \ {n}, NoFault
      PROVE  Inv'
  <2>1. SetVNID(n, NoID) /\ taken' = Released(n) \cup ({NoID} \ {GlobalVNID, NoID})
    <3>1. CASE ids[n] = NoID
      <4>1. ids \in [Names -> IDs \cup {NoID}] /\ n \in Names
        BY NothingFacts DEF Inv, MemoryOK
      <4>2. ids' = ids /\ taken' = taken
        BY <1>3, <3>1 DEF memory
      <4>3. [ids EXCEPT ![n] = NoID] = ids
        BY <3>1, <4>1
      <4>4. Released(n) = taken
        <5>1. taken = {ids[m] : m \in Names} \ {GlobalVNID, NoID}
          BY DEF Inv, MapIsSound, AllocatorAgrees, Held
        <5>. QED
          BY <3>1, <4>1, <5>1, ReleasedFacts
      <4>. QED
        BY <4>2, <4>3, <4>4 DEF SetVNID
    <3>2. CASE ids[n] # NoID
      BY <1>3, <3>2
    <3>. QED
      BY <3>1, <3>2
  <2>2. joined' \subseteq joined /\ \A p \in joined : n \notin p => p \in joined'
    BY <1>3 DEF Leaves
  <2>3. StoredID(n)' = NoID /\ \A m \in Names \ {n} : StoredID(m)' = StoredID(m)
    BY <1>2, <1>3, NothingFacts
  <2>4. NoID \notin NetIDRange /\ unsettled \ {n} \subseteq unsettled'
    BY <1>3, NothingFacts
  <2>5. MapIsSound' /\ SharedInMap'
    BY <2>1, <2>2, <2>3, <2>4, MapStep
  <2>6. MemoryOK'
    BY <2>1, SetFacts, ReleasedFacts DEF Inv, MemoryOK, IDs
  <2>7. HistoryOK'
    BY <1>1, <1>3, <2>2 DEF Inv, HistoryOK, NoFault
  <2>. QED
    BY <1>1, <1>2, <1>3, <2>5, <2>6, <2>7, InvFrom
<1>4. ASSUME netns[n] # Nothing, NetQueue!Write(n, Nothing),
             unsettled' = unsettled \cup {n}, Fault, UNCHANGED <<memory, joined>>
      PROVE  Inv'
  <2>1. MapIsSound' /\ SharedInMap'
    BY <1>2, <1>4, SameMap DEF memory
  <2>2. MemoryOK' /\ HistoryOK'
    BY <1>1, <1>4, BoundsAssumption DEF Inv, MemoryOK, HistoryOK, Fault, memory
  <2>. QED
    BY <1>1, <1>2, <1>4, <2>1, <2>2, InvFrom
<1>5. ASSUME NoFault \/ Fault, UNCHANGED <<netVars, memory, joined, unsettled>>
      PROVE  Inv'
  <2>1. MapIsSound' /\ SharedInMap'
    BY <1>5, NetStutter, SameMap DEF memory
  <2>2. MemoryOK' /\ HistoryOK'
    BY <1>1, <1>5, BoundsAssumption DEF Inv, MemoryOK, HistoryOK, Fault, NoFault, memory
  <2>. QED
    BY <1>1, <1>5, <2>1, <2>2, NetStutter, InvFrom
<1>. QED
  BY <1>3, <1>4, <1>5 DEF RevokeVNID

LEMMA UpdateStep ==
    ASSUME Inv, NEW n \in Namespaces, UpdateVNID(n)
    PROVE  Inv'
<1>. DEFINE read == job["netnamespaces"].read
            ask == read.ask
<1>1. /\ Done("netnamespaces") /\ UNCHANGED <<nsVars, allowRenumbering>>
      /\ JobsOK' /\ JobJoinsOthers' /\ NP!QueueNext({There})
      /\ job["netnamespaces"].pc = "update" /\ job["netnamespaces"].name = n
      /\ ~Refused(n, ask)
  BY DoneFacts, JobFacts, NamespaceStutter DEF UpdateVNID
<1>2. read \in Asks(n) /\ read \in NetNamespaces
  BY <1>1, JobFacts DEF Inv, JobJoinsOthers
<1>3. PICK id : id \in NewIDs(n, ask) /\ UpdateNetID(n, ask, id) /\ Update(n, id)
  BY DEF UpdateVNID
<1>. HIDE DEF read
<1>4. /\ ask \in Requests
      /\ ask.action = "join" => ask.to \in Names \ {n}
  BY <1>1, <1>2 DEF Asks, NetNamespaces, Inv, JobJoinsOthers, read
<1>5. /\ ids \in [Names -> IDs \cup {NoID}] /\ n \in Names
      /\ taken = {ids[m] : m \in Names} \ {GlobalVNID, NoID}
  BY NothingFacts DEF Inv, MemoryOK, MapIsSound, AllocatorAgrees, Held
<1>. HIDE DEF ask
<1>6. /\ id \in IDs
      /\ taken' = Released(n) \cup ({id} \ {GlobalVNID, NoID})
  <2>1. ask.action \in {"global", "join", "isolate"}
    BY <1>4 DEF Requests
  <2>2. id \in IDs
    <3>1. CASE ask.action = "global"
      BY <1>3, <3>1 DEF NewIDs, IDs
    <3>2. CASE ask.action = "join"
      BY <1>1, <1>3, <1>4, <1>5, <3>2 DEF NewIDs, Refused
    <3>3. CASE ask.action = "isolate"
      BY <1>1, <1>3, <1>5, <3>3, NothingFacts DEF NewIDs, Refused
    <3>. QED
      BY <2>1, <3>1, <3>2, <3>3
  <2>3. id # NoID
    BY <2>2, NothingFacts
  <2>4. ASSUME ask.action = "global"
        PROVE  taken' = Released(n) \cup ({id} \ {GlobalVNID, NoID})
    BY <1>3, <2>4 DEF NewIDs, UpdateNetID
  <2>5. ASSUME ask.action = "join"
        PROVE  taken' = Released(n) \cup ({id} \ {GlobalVNID, NoID})
    <3>1. id = ids[ask.to] /\ taken' = Released(n)
      BY <1>3, <2>5 DEF NewIDs, UpdateNetID
    <3>2. {id} \ {GlobalVNID, NoID} \subseteq Released(n)
      BY <1>4, <2>5, <3>1, ReleasedFacts
    <3>. QED
      BY <3>1, <3>2
  <2>6. ASSUME ask.action = "isolate"
        PROVE  taken' = Released(n) \cup ({id} \ {GlobalVNID, NoID})
    BY <1>3, <2>3, <2>6 DEF UpdateNetID
  <2>. QED
    BY <2>1, <2>2, <2>4, <2>5, <2>6
<1>7. /\ SetVNID(n, id)
      /\ joined' = {p \in joined : n \notin p}
                   \cup {{n, m} : m \in {m \in Names \ {n} : ids[m] = id}}
  BY <1>3 DEF UpdateNetID
<1>8. /\ NetStep
      /\ \A m \in Namespaces : netns'[m] \in Asks(m) \cup {Nothing}
      /\ \A m \in Names \ {n} : StoredID(m)' = StoredID(m)
      /\ n \in unsettled' \/ StoredID(n)' = id
      /\ unsettled' \in {unsettled \ {n}, unsettled \cup {n}}
      /\ Fault \/ NoFault
  <2>1. /\ unsettled' \in {unsettled \ {n}, unsettled \cup {n}}
        /\ Fault \/ NoFault
        /\ Alter(n, id)
        /\ \/ NetQueue!Stored(n, Plain(id))
           \/ UNCHANGED <<netns, netSent>> /\ n \in unsettled'
    BY <1>3 DEF Update
  <2>2. NetStep /\ \A m \in Namespaces : netns'[m] \in Asks(m) \cup {Nothing}
    BY <1>2, <1>6, <2>1, NetAlter DEF read
  <2>3. CASE NetQueue!Stored(n, Plain(id))
    BY <1>5, <1>6, <2>1, <2>2, <2>3, PlainFacts, NetStored
  <2>4. CASE UNCHANGED <<netns, netSent>> /\ n \in unsettled'
    BY <2>1, <2>2, <2>4, SameStored
  <2>. QED
    BY <2>1, <2>3, <2>4
<1>9. MapIsSound' /\ SharedInMap'
  <2>1. \A p \in joined : n \notin p => p \in joined'
    BY <1>7
  <2>2. \A m \in Names \ {n} : ids[m] = id => {n, m} \in joined'
    BY <1>7
  <2>3. unsettled \ {n} \subseteq unsettled'
    BY <1>8
  <2>. QED
    BY <1>6, <1>7, <1>8, <2>1, <2>2, <2>3, MapStep
<1>10. MemoryOK'
  <2>1. ids' \in [Names -> IDs \cup {NoID}]
    BY <1>6, <1>7, SetFacts
  <2>2. taken' \subseteq NetIDRange
    BY <1>5, <1>6, ReleasedFacts DEF IDs
  <2>. QED
    BY <2>1, <2>2 DEF MemoryOK
<1>11. HistoryOK'
  <2>1. joined' \in SUBSET SUBSET Names
    BY <1>5, <1>7 DEF Inv, HistoryOK
  <2>2. unsettled' \in SUBSET Namespaces
    BY <1>8 DEF Inv, HistoryOK
  <2>3. changes' = changes /\ requests' = requests
    BY <1>8 DEF Fault, NoFault
  <2>4. faults' \in 0..MaxFaults
    BY <1>8, BoundsAssumption DEF Inv, HistoryOK, Fault, NoFault
  <2>. QED
    BY <1>1, <2>1, <2>2, <2>3, <2>4 DEF Inv, HistoryOK
<1>. QED
  BY <1>1, <1>8, <1>9, <1>10, <1>11, InvFrom

LEMMA RefuseAndDropStep ==
    ASSUME Inv, NEW n \in Namespaces, Refuse(n) \/ DropRequest(n)
    PROVE  Inv'
<1>. DEFINE read == job["netnamespaces"].read
<1>1. /\ Done("netnamespaces") /\ UNCHANGED <<nsVars, memory, allowRenumbering>>
      /\ JobsOK' /\ JobJoinsOthers' /\ NP!QueueNext({There})
      /\ job["netnamespaces"].pc = "update" /\ job["netnamespaces"].name = n
  BY DoneFacts, JobFacts, NamespaceStutter DEF Refuse, DropRequest
<1>2. read \in Asks(n) /\ read \in NetNamespaces
  BY <1>1, JobFacts DEF Inv, JobJoinsOthers
<1>3. /\ UNCHANGED <<joined, unsettled, changes, requests>>
      /\ faults' = faults \/ (faults < MaxFaults /\ faults' = faults + 1)
  BY DEF Refuse, DropRequest, history, Fails, Fault
<1>4. \/ UNCHANGED netVars
      \/ /\ Alter(n, read.id)
         /\ \/ netns[n] = read /\ NetQueue!Stored(n, Plain(read.id))
            \/ UNCHANGED <<netns, netSent>>
  BY DEF Refuse, DropRequest
<1>. HIDE DEF read
<1>5. /\ NetStep
      /\ \A m \in Namespaces : netns'[m] \in Asks(m) \cup {Nothing}
      /\ \A m \in Names : StoredID(m)' = StoredID(m)
  <2>1. read.id \in IDs /\ read # Nothing /\ n \notin Residents
    BY <1>2, NothingFacts DEF NetNamespaces
  <2>2. CASE UNCHANGED netVars
    BY <2>2, NetStutter
  <2>3. ASSUME Alter(n, read.id),
               NetQueue!Stored(n, Plain(read.id)) \/ UNCHANGED <<netns, netSent>>
        PROVE  NetStep /\ \A m \in Namespaces : netns'[m] \in Asks(m) \cup {Nothing}
    BY <1>2, <2>1, <2>3, NetAlter DEF read
  <2>4. ASSUME netns[n] = read, NetQueue!Stored(n, Plain(read.id))
        PROVE  \A m \in Names : StoredID(m)' = StoredID(m)
    <3>1. \A m \in Names : StoredID(m)' = IF m # n THEN StoredID(m) ELSE read.id
      BY <2>1, <2>4, PlainFacts, NetStored
    <3>2. StoredID(n) = read.id
      BY <2>1, <2>4 DEF StoredID
    <3>. QED
      BY <3>1, <3>2
  <2>. QED
    BY <1>4, <2>2, <2>3, <2>4, SameStored
<1>6. MapIsSound' /\ SharedInMap'
  BY <1>1, <1>3, <1>5, SameMap DEF memory
<1>7. MemoryOK' /\ HistoryOK'
  BY <1>1, <1>3, BoundsAssumption DEF Inv, MemoryOK, HistoryOK, memory
<1>. QED
  BY <1>1, <1>5, <1>6, <1>7, InvFrom

LEMMA StutterStep ==
    ASSUME Inv, UNCHANGED vars
    PROVE  Inv'
<1>1. UNCHANGED <<nsVars, netVars, ids, taken, allowRenumbering, job, joined, unsettled,
                  changes, requests, faults>>
  BY DEF vars, memory, history
<1>2. MapIsSound' /\ SharedInMap'
  BY <1>1, NetStutter, SameMap
<1>3. MemoryOK' /\ HistoryOK' /\ JobsOK' /\ JobJoinsOthers'
  BY <1>1 DEF Inv, MemoryOK, HistoryOK, JobsOK, JobJoinsOthers
<1>. QED
  BY <1>1, <1>2, <1>3, NetStutter, NamespaceStutter, InvFrom

-------------------------------------------------------------------------------
(* Theorems *)

LEMMA Invariance == Spec => []Inv
<1>1. Inv /\ [Next]_vars => Inv'
  <2>. SUFFICES ASSUME Inv, [Next]_vars PROVE Inv'
    OBVIOUS
  <2>1. ASSUME NEW n \in Namespaces,
               \/ Create(n) \/ Remove(n) \/ Ask(n)
               \/ NamespaceEvent(n) \/ NetEvent(n)
               \/ AssignVNID(n) \/ RevokeVNID(n)
               \/ Refuse(n) \/ UpdateVNID(n) \/ DropRequest(n)
        PROVE  Inv'
    BY <2>1, UsersStep, EventsStep, AssignStep, RevokeStep, UpdateStep, RefuseAndDropStep
  <2>2. CASE \/ NamespaceReflector \/ NetReflector \/ NamespaceResync \/ NetResync
             \/ NamespaceWatchBreaks \/ NetWatchBreaks
    BY <2>2, ReflectorsStep
  <2>3. CASE Restart \/ NamespacePanic \/ NetPanic
    BY <2>3, RestartsStep
  <2>4. CASE UNCHANGED vars
    BY <2>4, StutterStep
  <2>. QED
    BY <2>1, <2>2, <2>3, <2>4 DEF Next
<1>. QED
  BY <1>1, InitSound, PTL DEF Spec

\* Every variable has its type in every behaviour: what the master's goroutines handle,
\* what their queues hold and what the allocator marks are what the code can make of
\* them (watchNamespaces, watchNetNamespaces, masterVNIDMap of vnids_master.go).
THEOREM TypeCorrect == Spec => []TypeOK
<1>1. Inv => TypeOK
  <2>. SUFFICES ASSUME Inv PROVE TypeOK
    OBVIOUS
  <2>1. NamespaceQueue!QueueTypeOK({There})
    BY DEF Inv, NP!QueueSound, NP!QueueTyped, NP!QueueTypeOK, NP!WatchTypes,
           NP!DeltaTypes, NP!NoDelta,
           NamespaceQueue!QueueTypeOK, NamespaceQueue!WatchTypes, NamespaceQueue!DeltaTypes,
           NamespaceQueue!NoDelta
  <2>2. NetQueue!QueueTypeOK(NetNamespaces)
    BY DEF Inv, TP!QueueTyped, TP!QueueTypeOK, TP!WatchTypes, TP!DeltaTypes, TP!NoDelta,
           NetQueue!QueueTypeOK, NetQueue!WatchTypes, NetQueue!DeltaTypes, NetQueue!NoDelta
  <2>. QED
    BY <2>1, <2>2, StoredFacts DEF Inv, MemoryOK, HistoryOK, JobsOK, Jobs, TypeOK
<1>. QED
  BY <1>1, Invariance, PTL

\* The allocator marks exactly the ids that the map holds, and the map is what is stored
\* but for namespaces whose last call gave an error (assignVNID, revokeVNID and updateVNID).
THEOREM MapSound == Spec => []MapIsSound
<1>1. Inv => MapIsSound
  BY DEF Inv
<1>. QED
  BY <1>1, Invariance, PTL

\* The inductive invariant, as the runs can check it.
THEOREM SharingSound == Spec => []SharingIsSound
<1>1. Inv => SharingIsSound
  <2>. SUFFICES ASSUME Inv PROVE SharingIsSound
    OBVIOUS
  <2>1. NetQueue!Carries(Asked)
    BY DEF Inv, TP!Carries, NetQueue!Carries
  <2>. QED
    BY <2>1 DEF Inv, Asked, SharingIsSound, JoinsOthers, JobJoinsOthers
<1>. QED
  BY <1>1, Invariance, PTL

\* Two namespaces share a network id only when an administrator asked for it, or when a
\* call about one of them gave an error.
THEOREM SharedWhenAsked == Spec => []NeverShared
<1>1. Inv => NeverShared
  BY SoundIsNeverShared DEF Inv, MapIsSound
<1>. QED
  BY <1>1, Invariance, PTL
===============================================================================
