------------------------------- MODULE NetIDs -------------------------------
(***************************************************************************)
(* The master's half of the SDN's isolation of projects: every namespace    *)
(* gets a network id, kept in a NetNamespace, and administrators ask with   *)
(* an annotation to join namespaces, to isolate one or to make it global.   *)
(* Two goroutines take events of namespaces and of NetNamespaces from their *)
(* queues; the map of ids and the allocator have a lock that is held over   *)
(* the calls of the API.                                                    *)
(***************************************************************************)
EXTENDS Integers, FiniteSets, Sequences

CONSTANTS
    Namespaces,
    Residents,    \* namespaces that are there from the start and stay as they are
    FirstID(_),   \* the ids at first; the admin namespaces have the global one
    NetIDRange,   \* the ids that the allocator gives
    Nothing,      \* no object
    MaxChanges,   \* bound on what users and administrators do
    MaxOfAKind,   \* bound on their changes of namespaces, and on their requests
    MaxFaults     \* bound on failed calls, broken watches and restarts

Names == Namespaces \cup Residents
GlobalVNID == 0
NoID == -1
IDs == NetIDRange \cup {GlobalVNID}

ASSUME RangeAssumption == NetIDRange \subseteq Nat \ {0}
ASSUME NamesAssumption ==
    /\ Namespaces \cap Residents = {}
    /\ IsFiniteSet(Names)
    /\ \A r \in Residents : FirstID(r) \in IDs
    /\ \A n \in Namespaces : FirstID(n) \in NetIDRange \cup {NoID}
    /\ \A m, n \in Names : m # n /\ FirstID(m) = FirstID(n) => FirstID(n) \notin NetIDRange
ASSUME BoundsAssumption == {MaxChanges, MaxOfAKind, MaxFaults} \subseteq Nat

VARIABLES
    namespace,  \* the namespaces as stored
    nsReflector, nsList, nsSent, nsItems, nsKnown, nsSkewed,
    netns,      \* the NetNamespaces as stored
    netReflector, netList, netSent, netItems, netKnown, netSkewed,
    ids,        \* the map of ids in memory
    taken,      \* the ids that the allocator marks
    allowRenumbering, \* whether the plugin lets ids change
    job,        \* what each goroutine is handling
    joined,     \* history: the pairs of namespaces that were asked to share
    unsettled,  \* history: the namespaces whose last call gave an error
    changes,    \* how many namespaces were created and removed
    requests,   \* how many requests were made
    faults      \* how much of MaxFaults has happened

NamespaceQueue == INSTANCE EventQueue WITH
    Keys <- Namespaces, objects <- namespace, reflector <- nsReflector, list <- nsList,
    sent <- nsSent, items <- nsItems, known <- nsKnown, skewed <- nsSkewed

NetQueue == INSTANCE EventQueue WITH
    Keys <- Namespaces, objects <- netns, reflector <- netReflector, list <- netList,
    sent <- netSent, items <- netItems, known <- netKnown, skewed <- netSkewed

nsVars == <<namespace, nsReflector, nsList, nsSent, nsItems, nsKnown, nsSkewed>>
netVars == <<netns, netReflector, netList, netSent, netItems, netKnown, netSkewed>>
memory == <<ids, taken>>
history == <<joined, unsettled, changes, requests, faults>>
vars == <<nsVars, netVars, memory, allowRenumbering, job, history>>

There == "there"
Threads == {"namespaces", "netnamespaces"}

\* A request of an administrator; "at" tells apart the versions of an object.
Requests == [action : {"global", "join", "isolate"}, to : Names \cup {Nothing},
             at : 1..MaxOfAKind]
\* "was" is history: the request that the master took off its copy of the object.
NetNamespaces == [id : IDs, ask : Requests \cup {Nothing}, was : Requests \cup {Nothing}]
Plain(id) == [id |-> id, ask |-> Nothing, was |-> Nothing]

ASSUME NothingAssumption == Nothing \notin {There} \cup Requests \cup NetNamespaces

Idle == [pc |-> "idle"]
IsIdle(t) == job[t] = Idle

TypeOK ==
    /\ namespace \in [Namespaces -> {There, Nothing}]
    /\ NamespaceQueue!QueueTypeOK({There})
    /\ netns \in [Namespaces -> NetNamespaces \cup {Nothing}]
    /\ NetQueue!QueueTypeOK(NetNamespaces)
    /\ ids \in [Names -> IDs \cup {NoID}]
    /\ taken \in SUBSET NetIDRange
    /\ allowRenumbering \in BOOLEAN
    /\ job \in [Threads ->
          {Idle} \cup [pc : {"assign", "revoke"}, name : Namespaces] \cup
          [pc : {"update"}, name : Namespaces, read : NetNamespaces]]
    /\ joined \in SUBSET SUBSET Names
    /\ unsettled \in SUBSET Namespaces
    /\ changes \in 0..MaxOfAKind
    /\ requests \in 0..MaxOfAKind
    /\ faults \in 0..MaxFaults

-------------------------------------------------------------------------------
(* The map of ids and the allocator *)

\* The id that is stored for n, which populateVNIDs reads.
StoredID(n) ==
    IF n \in Residents THEN FirstID(n) ELSE IF netns[n] = Nothing THEN NoID ELSE netns[n].id

\* Mutant: populateVNIDs does not skip the global id.
HeldAll(m) == {m[n] : n \in Names} \ {NoID}

\* The ids of a map that the allocator has to mark.
Held(m) == {m[n] : n \in Names} \ {GlobalVNID, NoID}

\* getVNIDCount
VNIDCount(m, id) == Cardinality({n \in Names : m[n] = id})

\* Mutant: the id is released although others hold it.
ReleasedAlways(n) == taken \ {ids[n]}

\* releaseNetID: the ids that stay marked when n gives up its own.
Released(n) ==
    IF ids[n] = GlobalVNID \/ VNIDCount([ids EXCEPT ![n] = NoID], ids[n]) > 0 THEN taken
    ELSE taken \ {ids[n]}

SetVNID(n, id) == ids' = [ids EXCEPT ![n] = id]

\* The history of a namespace that goes a way of its own.
Leaves(n) == joined' = {p \in joined : n \notin p}

\* A master that has been running for a while; Restart has its start.
Init ==
    /\ namespace = [n \in Namespaces |-> IF FirstID(n) = NoID THEN Nothing ELSE There]
    /\ netns = [n \in Namespaces |-> IF FirstID(n) = NoID THEN Nothing
                                     ELSE Plain(FirstID(n))]
    /\ NamespaceQueue!QueueSettled
    /\ NetQueue!QueueSettled
    /\ ids = [n \in Names |-> StoredID(n)]
    /\ taken = Held(ids)
    /\ allowRenumbering = TRUE
    /\ job = [t \in Threads |-> Idle]
    /\ joined = {}
    /\ unsettled = {}
    /\ changes = 0
    /\ requests = 0
    /\ faults = 0

\* One more of what is counted by count.
More(count) == count < MaxOfAKind /\ changes + requests < MaxChanges /\ count' = count + 1
Fault == faults < MaxFaults /\ faults' = faults + 1 /\ UNCHANGED <<changes, requests>>
NoFault == UNCHANGED <<changes, requests, faults>>
Fails == Fault /\ UNCHANGED <<joined, unsettled>>

-------------------------------------------------------------------------------
(* Users and administrators *)

NamespaceChanges(n, obj) ==
    /\ NamespaceQueue!Write(n, obj)
    /\ More(changes)
    /\ UNCHANGED <<joined, unsettled, requests, faults>>
    /\ UNCHANGED <<netVars, memory, allowRenumbering, job>>

Create(n) == namespace[n] = Nothing /\ NamespaceChanges(n, There)
Remove(n) == namespace[n] # Nothing /\ NamespaceChanges(n, Nothing)

\* UpdatePodNetwork, for a plugin that can change networks; join-projects leaves out
\* the project to join.  To join a global one is what "global" does.
Ask(n) ==
    /\ netns[n] # Nothing
    /\ allowRenumbering
    /\ \E a \in {"global", "isolate", "join"} :
         \E to \in IF a = "join" THEN {m \in Names \ {n} : StoredID(m) # GlobalVNID}
                   ELSE {Nothing} :
           NetQueue!Write(n, [netns[n] EXCEPT !.ask =
                                [action |-> a, to |-> to, at |-> requests + 1]])
    /\ More(requests)
    /\ UNCHANGED <<joined, unsettled, changes, faults>>
    /\ UNCHANGED <<nsVars, memory, allowRenumbering, job>>
-------------------------------------------------------------------------------
(* The queues; a goroutine that handles an event holds the lock of its queue *)

NamespaceReflector ==
    /\ \/ NamespaceQueue!List
       \/ IsIdle("namespaces") /\ NamespaceQueue!Replace
       \/ IsIdle("namespaces") /\ \E n \in Namespaces : NamespaceQueue!Deliver(n)
    /\ UNCHANGED <<netVars, memory, allowRenumbering, job, history>>

NamespaceResync ==
    /\ IsIdle("namespaces")
    /\ NamespaceQueue!Resync
    /\ UNCHANGED <<netVars, memory, allowRenumbering, job, history>>

NetReflector ==
    /\ \/ NetQueue!List
       \/ IsIdle("netnamespaces") /\ NetQueue!Replace
       \/ IsIdle("netnamespaces") /\ \E n \in Namespaces : NetQueue!Deliver(n)
    /\ UNCHANGED <<nsVars, memory, allowRenumbering, job, history>>

NetResync ==
    /\ IsIdle("netnamespaces")
    /\ NetQueue!Resync
    /\ UNCHANGED <<nsVars, memory, allowRenumbering, job, history>>

NamespaceWatchBreaks ==
    NamespaceQueue!Break /\ Fails /\ UNCHANGED <<netVars, memory, allowRenumbering, job>>

NetWatchBreaks ==
    NetQueue!Break /\ Fails /\ UNCHANGED <<nsVars, memory, allowRenumbering, job>>

\* VnidStartMaster: the master starts again, perhaps with another plugin.
Restarts ==
    /\ NamespaceQueue!Reset
    /\ NetQueue!Reset
    /\ ids' = [n \in Names |-> StoredID(n)]
    /\ taken' = Held(ids')
    /\ job' = [t \in Threads |-> Idle]
    /\ UNCHANGED <<namespace, netns>>

Restart == Restarts /\ Fails /\ allowRenumbering' \in BOOLEAN

\* A panic of a reflector takes the process down.
NamespacePanic ==
    /\ IsIdle("namespaces") /\ NamespaceQueue!Panics
    /\ Restarts /\ UNCHANGED <<history, allowRenumbering>>

NetPanic ==
    /\ IsIdle("netnamespaces") /\ NetQueue!Panics
    /\ Restarts /\ UNCHANGED <<history, allowRenumbering>>
-------------------------------------------------------------------------------
(* The handlers; each of the three operations runs under the lock of the map *)

Goto(t, j) == job' = [job EXCEPT ![t] = j]
Done(t) == Goto(t, Idle)

NamespaceEvent(n) ==
    /\ IsIdle("namespaces")
    /\ NamespaceQueue!Pop(n)
    /\ Goto("namespaces",
            [pc |-> IF nsItems[n].type = "Deleted" THEN "revoke" ELSE "assign", name |-> n])
    /\ UNCHANGED <<netVars, memory, allowRenumbering, history>>

\* Mutant: what a list or a resync queues is left alone.
NetEventOfWatch(n) ==
    /\ IsIdle("netnamespaces")
    /\ NetQueue!Pop(n)
    /\ IF netItems[n].type \in {"Deleted", "Sync"} \/ netItems[n].obj.ask = Nothing
         THEN UNCHANGED job
         ELSE Goto("netnamespaces", [pc |-> "update", name |-> n, read |-> netItems[n].obj])
    /\ UNCHANGED <<nsVars, memory, allowRenumbering, history>>

NetEvent(n) ==
    /\ IsIdle("netnamespaces")
    /\ NetQueue!Pop(n)
    /\ IF netItems[n].type = "Deleted" \/ netItems[n].obj.ask = Nothing
         THEN UNCHANGED job
         ELSE Goto("netnamespaces", [pc |-> "update", name |-> n, read |-> netItems[n].obj])
    /\ UNCHANGED <<nsVars, memory, allowRenumbering, history>>

\* assignVNID: an id that is in the map is not looked at again; when Create gives an
\* error, one that was lost included, the id is released.
AssignVNID(n) ==
    /\ job["namespaces"] = [pc |-> "assign", name |-> n]
    /\ Done("namespaces")
    /\ \/ /\ ids[n] # NoID \/ taken = NetIDRange
          /\ UNCHANGED <<netVars, memory, history>>
       \/ /\ ids[n] = NoID
          /\ netns[n] = Nothing
          /\ \E id \in NetIDRange \ taken :
               /\ NetQueue!Write(n, Plain(id))
               /\ \/ /\ SetVNID(n, id)
                     /\ taken' = taken \cup {id}
                     /\ unsettled' = unsettled \ {n}
                     /\ NoFault
                  \/ /\ Fault
                     /\ unsettled' = unsettled \cup {n}
                     /\ UNCHANGED memory
          /\ UNCHANGED joined
       \/ /\ ids[n] = NoID
          /\ taken # NetIDRange
          /\ IF netns[n] = Nothing THEN Fault ELSE NoFault
          /\ unsettled' = unsettled \cup {n}
          /\ UNCHANGED <<netVars, memory, joined>>
    /\ UNCHANGED <<nsVars, allowRenumbering>>

\* Mutant: the id is released whatever becomes of the NetNamespace.
RevokeVNIDAnyway(n) ==
    /\ job["namespaces"] = [pc |-> "revoke", name |-> n]
    /\ Done("namespaces")
    /\ IF ids[n] = NoID THEN UNCHANGED memory ELSE SetVNID(n, NoID) /\ taken' = Released(n)
    /\ Leaves(n)
    /\ UNCHANGED unsettled
    /\ \/ netns[n] # Nothing /\ NetQueue!Write(n, Nothing) /\ NoFault
       \/ netns[n] = Nothing /\ NoFault /\ UNCHANGED netVars
       \/ Fault /\ UNCHANGED netVars
    /\ UNCHANGED <<nsVars, allowRenumbering>>

\* revokeVNID: the id is released only when Delete says that the NetNamespace is
\* gone; nothing comes back to an event that failed.
RevokeVNID(n) ==
    /\ job["namespaces"] = [pc |-> "revoke", name |-> n]
    /\ Done("namespaces")
    /\ \/ /\ netns[n] # Nothing
          /\ NetQueue!Write(n, Nothing)
          /\ IF ids[n] = NoID THEN UNCHANGED memory
             ELSE SetVNID(n, NoID) /\ taken' = Released(n)
          /\ Leaves(n)
          /\ unsettled' = unsettled \ {n}
          /\ NoFault
       \/ /\ netns[n] # Nothing
          /\ NetQueue!Write(n, Nothing)
          /\ unsettled' = unsettled \cup {n}
          /\ Fault
          /\ UNCHANGED <<memory, joined>>
       \/ /\ IF netns[n] = Nothing THEN NoFault ELSE Fault
          /\ UNCHANGED <<netVars, memory, joined, unsettled>>
    /\ UNCHANGED <<nsVars, allowRenumbering>>

\* updateNetID cannot do what is asked: the event is dropped with the map as it was.
Refused(n, ask) ==
    \/ ids[n] = NoID
    \/ ask.action = "join" /\ ids[ask.to] = NoID
    \/ ask.action = "isolate" /\ VNIDCount(ids, ids[n]) # 1 /\ taken = NetIDRange

Refuse(n) ==
    /\ allowRenumbering
    /\ job["netnamespaces"].pc = "update"
    /\ job["netnamespaces"].name = n
    /\ Refused(n, job["netnamespaces"].read.ask)
    /\ Done("netnamespaces")
    /\ UNCHANGED <<nsVars, netVars, memory, allowRenumbering, history>>

\* updateNetID, for the ids that it may give n.
NewIDs(n, ask) ==
    CASE ask.action = "global" -> {GlobalVNID}
      [] ask.action = "join" -> {ids[ask.to]}
      [] ask.action = "isolate" ->
           IF VNIDCount(ids, ids[n]) = 1 THEN {ids[n]} ELSE NetIDRange \ taken

\* The id is set and the old one released, whatever becomes of the update.  A namespace
\* that is to be isolated and is the only global one stays global.
UpdateNetID(n, ask, id) ==
    /\ SetVNID(n, id)
    /\ taken' = Released(n) \cup (IF ask.action = "isolate" THEN {id} \ {GlobalVNID} ELSE {})
    /\ joined' = {p \in joined : n \notin p}
                 \cup {{n, m} : m \in {m \in Names \ {n} : ids[m] = id}}

\* The object of the event gets the id and loses the request before it is sent: the
\* queue's handlers share it with knownObjects, so that a resync has no request to bring
\* back, whatever becomes of the call.
Alter(n, id) ==
    NetQueue!AlterKnown(n, [id |-> id, ask |-> Nothing, was |-> job["netnamespaces"].read.ask])

\* What Update stores; an object that has changed since the event is left alone.
Update(n, id) ==
    LET current == netns[n] = job["netnamespaces"].read IN
    /\ Alter(n, id)
    /\ \/ /\ current
          /\ NetQueue!Stored(n, Plain(id))
          /\ unsettled' = unsettled \ {n}
          /\ NoFault
       \/ /\ current
          /\ NetQueue!Stored(n, Plain(id))
          /\ unsettled' = unsettled \cup {n}
          /\ Fault
       \/ /\ IF current THEN Fault ELSE NoFault
          /\ unsettled' = unsettled \cup {n}
          /\ UNCHANGED <<netns, netSent>>

UpdateVNID(n) ==
    /\ allowRenumbering
    /\ job["netnamespaces"].pc = "update"
    /\ job["netnamespaces"].name = n
    /\ ~Refused(n, job["netnamespaces"].read.ask)
    /\ Done("netnamespaces")
    /\ LET ask == job["netnamespaces"].read.ask IN
       \E id \in NewIDs(n, ask) : UpdateNetID(n, ask, id) /\ Update(n, id)
    /\ UNCHANGED <<nsVars, allowRenumbering>>

\* With another plugin the request is taken off, and nobody looks at the answer.
DropRequest(n) ==
    /\ ~allowRenumbering
    /\ job["netnamespaces"].pc = "update"
    /\ job["netnamespaces"].name = n
    /\ Done("netnamespaces")
    /\ LET read == job["netnamespaces"].read IN
       /\ Alter(n, read.id)
       /\ \/ /\ netns[n] = read
             /\ NetQueue!Stored(n, Plain(read.id))
             /\ UNCHANGED history
          \/ /\ IF netns[n] = read THEN Fails ELSE UNCHANGED history
             /\ UNCHANGED <<netns, netSent>>
    /\ UNCHANGED <<nsVars, memory, allowRenumbering>>

Next ==
    \/ \E n \in Namespaces :
         \/ Create(n) \/ Remove(n) \/ Ask(n)
         \/ NamespaceEvent(n) \/ NetEvent(n)
         \/ AssignVNID(n) \/ RevokeVNID(n)
         \/ Refuse(n) \/ UpdateVNID(n) \/ DropRequest(n)
    \/ NamespaceReflector \/ NetReflector
    \/ NamespaceResync \/ NetResync
    \/ NamespaceWatchBreaks \/ NetWatchBreaks
    \/ Restart \/ NamespacePanic \/ NetPanic

Spec == Init /\ [][Next]_vars

\* The goroutines run, their reflectors get the locks now and then, and the resync
\* comes every half hour.
FairSpec ==
    /\ Spec
    /\ SF_vars(NamespaceReflector \/ NamespacePanic)
    /\ SF_vars(NetReflector \/ NetPanic)
    /\ WF_vars(NamespaceResync) /\ WF_vars(NetResync)
    /\ WF_vars(\E n \in Namespaces : NamespaceEvent(n))
    /\ WF_vars(\E n \in Namespaces : NetEvent(n))
    /\ WF_vars(\E n \in Namespaces : AssignVNID(n) \/ RevokeVNID(n))
    /\ WF_vars(\E n \in Namespaces : Refuse(n) \/ UpdateVNID(n) \/ DropRequest(n))
-------------------------------------------------------------------------------
(* Properties *)

\* Two namespaces share a network only when an administrator asked for it: an id is
\* not given again while a NetNamespace that is stored has it, through joins,
\* deletions, restarts and stale events.  Only a namespace whose last call gave an
\* error may share with a stranger (its id was released, its NetNamespace kept it).
NeverShared ==
    \A m, n \in Names :
        /\ m # n
        /\ StoredID(m) = StoredID(n)
        /\ StoredID(n) \in NetIDRange
        => {m, n} \in joined \/ {m, n} \cap unsettled # {}

\* No id is lost and none that is held is free.
AllocatorAgrees == taken = Held(ids)

\* What the master has in memory is what is stored, but for namespaces whose last
\* call gave an error.
MapAgrees == \A n \in Names \ unsettled : ids[n] = StoredID(n)

MapIsSound == AllocatorAgrees /\ MapAgrees

\* What the two follow from: namespaces that share an id in the map were asked to, or had
\* an error, which is what a restart makes of what is stored; and no request, however old,
\* is to join a namespace to itself, which would free the id that it holds.
SharedInMap ==
    \A m, n \in Names :
        m # n /\ ids[m] = ids[n] /\ ids[n] \in NetIDRange
        => {m, n} \in joined \/ {m, n} \cap unsettled # {}

Asks(n) == {obj \in NetNamespaces :
              obj.ask # Nothing /\ obj.ask.action = "join" => obj.ask.to \in Names \ {n}}

JoinsOthers ==
    /\ NetQueue!Carries([n \in Namespaces |-> Asks(n)])
    /\ job["netnamespaces"].pc = "update" =>
         /\ job["netnamespaces"].read \in Asks(job["netnamespaces"].name)
         /\ job["netnamespaces"].read.ask # Nothing

SharingIsSound == MapIsSound /\ SharedInMap /\ JoinsOthers

\* The update of this very request was not done, and the master's copy has lost it: only
\* another change of the object, another list or a restart brings it back.
IsForgotten(n) == netKnown[n] # Nothing /\ netKnown[n].was = netns[n].ask

\* A request is done, or refused as one that cannot be done.
RequestIsDone(n) ==
    \/ netns[n] = Nothing
    \/ netns[n].ask = Nothing
    \/ Refused(n, netns[n].ask)
    \/ IsForgotten(n)
    \/ n \in netSkewed

\* A namespace has its NetNamespace, unless the range is full or the deletion of an
\* earlier one was not answered.
IsServed(n) ==
    \/ namespace[n] = Nothing
    \/ netns[n] # Nothing
    \/ taken = NetIDRange
    \/ n \in unsettled /\ ids[n] # NoID
    \/ n \in nsSkewed

\* The NetNamespace of a namespace that is gone is deleted, if nothing fails.
IsTakenBack(n) == namespace[n] # Nothing \/ netns[n] = Nothing \/ faults > 0

\* In the end the networks are what namespaces and administrators ask for, whatever
\* was refused for being out of date or got lost in a watch before, and whatever failed
\* but the update that a request asks for, which is not tried again.
NetworksFollow == []<>(\A n \in Namespaces : RequestIsDone(n) /\ IsServed(n) /\ IsTakenBack(n))
===============================================================================
