------------------------------- MODULE Subnets -------------------------------
(***************************************************************************)
(* The master's half of the SDN's subnets: every node gets a HostSubnet, a  *)
(* part of the cluster network of its own, and so does every host for which *)
(* the administrator stores an annotated HostSubnet.  Two goroutines take   *)
(* events of nodes and of HostSubnets from their queues, and share the      *)
(* allocator.                                                               *)
(***************************************************************************)
EXTENDS Integers, FiniteSets, Sequences

CONSTANTS
    Nodes,
    Hosts,      \* hosts that are not nodes
    IPs,        \* addresses of nodes and hosts
    FirstIP,    \* the one they begin with
    HostBits,   \* the bits of an address within a subnet
    SubnetBits, \* the bits that tell subnets apart
    Nothing,    \* no object
    MaxChanges, \* bound on what administrators and nodes do
    MaxFaults   \* bound on failed calls, broken watches and restarts

Names == Nodes \cup Hosts

ASSUME NamesAssumption == Nodes \cap Hosts = {} /\ FirstIP \in IPs
ASSUME BitsAssumption == HostBits \in Nat \ {0} /\ SubnetBits \in Nat
ASSUME BoundsAssumption == MaxChanges \in Nat /\ MaxFaults \in Nat

Pow2[n \in Nat] == IF n = 0 THEN 1 ELSE 2 * Pow2[n - 1]

\* GetNetwork: the offset of the n-th subnet in the network.  When the subnet number
\* begins within an octet it is rotated, so that the first subnets have zeros there.
LeftShift(hb, sb) ==
    IF (hb % 8) # 0 /\ (hb - 1) \div 8 # (hb + sb - 1) \div 8 THEN 8 - (hb % 8) ELSE 0

SubnetAt(hb, sb, n) ==
    LET ls == LeftShift(hb, sb)
        shifted == n * Pow2[hb]
    IN  IF ls = 0 THEN shifted
        ELSE ((shifted * Pow2[ls]) % Pow2[hb + sb])
             + (((shifted \div Pow2[sb - ls]) \div Pow2[hb]) % Pow2[ls]) * Pow2[hb]

NumSubnets == Pow2[SubnetBits]
Subnets == {SubnetAt(HostBits, SubnetBits, n) : n \in 0..(NumSubnets - 1)}
NoSubnet == -1

VARIABLES
    node,       \* the nodes as stored
    nodeReflector, nodeList, nodeSent, nodeItems, nodeKnown, nodeSkewed,
    hostSubnet, \* the HostSubnets as stored
    subnetReflector, subnetList, subnetSent, subnetItems, subnetKnown, subnetSkewed,
    taken,      \* the subnets that allocMap marks
    next,       \* where the search for a free subnet begins
    addressOf,  \* nodeAddressMap: the nodes served, by uid and address
    job,        \* what each goroutine is handling
    dropped,    \* history: the subnets freed because an answer was lost
    changes,    \* how much of MaxChanges has happened
    faults      \* how much of MaxFaults has happened

NodeQueue == INSTANCE EventQueue WITH
    Keys <- Nodes, objects <- node, reflector <- nodeReflector, list <- nodeList,
    sent <- nodeSent, items <- nodeItems, known <- nodeKnown, skewed <- nodeSkewed

SubnetQueue == INSTANCE EventQueue WITH
    Keys <- Names, objects <- hostSubnet, reflector <- subnetReflector,
    list <- subnetList, sent <- subnetSent, items <- subnetItems,
    known <- subnetKnown, skewed <- subnetSkewed

nodeVars == <<node, nodeReflector, nodeList, nodeSent, nodeItems, nodeKnown, nodeSkewed>>
subnetVars == <<hostSubnet, subnetReflector, subnetList, subnetSent, subnetItems,
                subnetKnown, subnetSkewed>>
allocator == <<taken, next>>
history == <<dropped, changes, faults>>
vars == <<nodeVars, subnetVars, allocator, addressOf, job, history>>

Threads == {"nodes", "subnets"}
NodeObjects == [uid : 1..(MaxChanges + 1), ip : IPs]
\* An annotated HostSubnet has no subnet yet, and every other one has.
HostSubnets == {sub \in [ip : IPs, subnet : Subnets \cup {NoSubnet}, assign : BOOLEAN] :
                  sub.assign <=> sub.subnet = NoSubnet}

ASSUME NothingAssumption == Nothing \notin NodeObjects \cup HostSubnets

Idle == [pc |-> "idle"]
IsIdle(t) == job[t] = Idle

TypeOK ==
    /\ node \in [Nodes -> NodeObjects \cup {Nothing}]
    /\ NodeQueue!QueueTypeOK(NodeObjects)
    /\ hostSubnet \in [Names -> HostSubnets \cup {Nothing}]
    /\ SubnetQueue!QueueTypeOK(HostSubnets)
    /\ taken \in SUBSET Subnets
    /\ next \in 0..NumSubnets
    /\ addressOf \in SUBSET [name : Nodes, uid : 1..(MaxChanges + 1), ip : IPs]
    /\ job \in [Threads ->
          {Idle} \cup
          [pc : {"remove", "delete", "add"}, name : Names, uid : Nat, ip : IPs] \cup
          [pc : {"create"}, name : Names, uid : Nat, ip : IPs, subnet : Subnets] \cup
          [pc : {"update"}, name : Names, uid : Nat, ip : IPs, read : HostSubnets]]
    /\ dropped \in SUBSET Subnets
    /\ changes \in 0..MaxChanges
    /\ faults \in 0..MaxFaults

Stored == {hostSubnet[h].subnet : h \in {h \in Names : hostSubnet[h] # Nothing}}
          \ {NoSubnet}

\* SubnetStartMaster: the allocator is made from what is stored, then both
\* goroutines start with a queue of their own.
Init ==
    /\ node \in [Nodes -> {[uid |-> 1, ip |-> FirstIP], Nothing}]
    /\ hostSubnet = [h \in Names |-> Nothing]
    /\ NodeQueue!QueueInit
    /\ SubnetQueue!QueueInit
    /\ taken = {}
    /\ next = 0
    /\ addressOf = {}
    /\ job = [t \in Threads |-> Idle]
    /\ dropped = {}
    /\ changes = 0
    /\ faults = 0

Changes == changes < MaxChanges /\ changes' = changes + 1 /\ UNCHANGED <<dropped, faults>>
Fault == faults < MaxFaults /\ faults' = faults + 1
Works == UNCHANGED history
Fails == Fault /\ UNCHANGED <<dropped, changes>>

-------------------------------------------------------------------------------
(* Nodes and administrators *)

NodeChanges(n, obj) ==
    /\ NodeQueue!Write(n, obj)
    /\ Changes
    /\ UNCHANGED <<subnetVars, allocator, addressOf, job>>

\* A node registers under a uid of its own, changes its address or goes away.
Register(n) ==
    node[n] = Nothing /\ \E ip \in IPs : NodeChanges(n, [uid |-> changes + 2, ip |-> ip])

Move(n) ==
    node[n] # Nothing /\ \E ip \in IPs \ {node[n].ip} : NodeChanges(n, [node[n] EXCEPT !.ip = ip])

Leave(n) == node[n] # Nothing /\ NodeChanges(n, Nothing)

\* The kubelet updates the status of its node all the time.
Heartbeat(n) ==
    /\ node[n] # Nothing
    /\ nodeReflector # "broken"
    /\ nodeSent[n] = <<>>
    /\ NodeQueue!Write(n, node[n])
    /\ UNCHANGED <<subnetVars, allocator, addressOf, job, history>>

AdminStores(h, obj) ==
    /\ SubnetQueue!Write(h, obj)
    /\ Changes
    /\ UNCHANGED <<nodeVars, allocator, addressOf, job>>

AskSubnet(h) ==
    /\ hostSubnet[h] = Nothing
    /\ AdminStores(h, [ip |-> FirstIP, subnet |-> NoSubnet, assign |-> TRUE])

DeleteSubnet(h) == hostSubnet[h] # Nothing /\ AdminStores(h, Nothing)
-------------------------------------------------------------------------------
(* The queues; a goroutine that handles an event holds the lock of its queue *)

NodeReflector ==
    /\ \/ NodeQueue!List
       \/ IsIdle("nodes") /\ NodeQueue!Replace
       \/ IsIdle("nodes") /\ \E n \in Nodes : NodeQueue!Deliver(n)
    /\ UNCHANGED <<subnetVars, allocator, addressOf, job, history>>

NodeResync ==
    /\ IsIdle("nodes")
    /\ NodeQueue!Resync
    /\ UNCHANGED <<subnetVars, allocator, addressOf, job, history>>

SubnetReflector ==
    /\ \/ SubnetQueue!List
       \/ IsIdle("subnets") /\ SubnetQueue!Replace
       \/ IsIdle("subnets") /\ \E h \in Names : SubnetQueue!Deliver(h)
    /\ UNCHANGED <<nodeVars, allocator, addressOf, job, history>>

SubnetResync ==
    /\ IsIdle("subnets")
    /\ SubnetQueue!Resync
    /\ UNCHANGED <<nodeVars, allocator, addressOf, job, history>>

NodeWatchBreaks ==
    NodeQueue!Break /\ Fails /\ UNCHANGED <<subnetVars, allocator, addressOf, job>>

SubnetWatchBreaks ==
    SubnetQueue!Break /\ Fails /\ UNCHANGED <<nodeVars, allocator, addressOf, job>>

\* Mutant: the allocator starts empty.
RestartsForgetting ==
    /\ NodeQueue!Reset
    /\ SubnetQueue!Reset
    /\ taken' = {}
    /\ next' = 0
    /\ addressOf' = {}
    /\ job' = [t \in Threads |-> Idle]
    /\ UNCHANGED <<node, hostSubnet>>

\* The master starts again.
Restarts ==
    /\ NodeQueue!Reset
    /\ SubnetQueue!Reset
    /\ taken' = Stored
    /\ next' = 0
    /\ addressOf' = {}
    /\ job' = [t \in Threads |-> Idle]
    /\ UNCHANGED <<node, hostSubnet>>

Restart == Restarts /\ Fails

\* A panic of a reflector takes the process down.
NodePanic == IsIdle("nodes") /\ NodeQueue!Panics /\ Restarts /\ Works

SubnetPanic == IsIdle("subnets") /\ SubnetQueue!Panics /\ Restarts /\ Works
-------------------------------------------------------------------------------
(* The handlers of watchNodes and watchSubnets, and addNode *)

Goto(t, j) == job' = [job EXCEPT ![t] = j]
Done(t) == Goto(t, Idle)

Adding(name, uid, ip) == [pc |-> "add", name |-> name, uid |-> uid, ip |-> ip]

Served(n, obj) == [name |-> n, uid |-> obj.uid, ip |-> obj.ip] \in addressOf

\* Forget a node's uid, or record the address it is served with.
Forget(n, uid) == addressOf' = {a \in addressOf : ~(a.name = n /\ a.uid = uid)}

Record(t) ==
    addressOf' = IF t # "nodes" THEN addressOf
                 ELSE {a \in addressOf : ~(a.name = job[t].name /\ a.uid = job[t].uid)}
                      \cup {[name |-> job[t].name, uid |-> job[t].uid, ip |-> job[t].ip]}

\* Mutant: the address is recorded before the subnet is there.
NodeEventRecordsFirst(n) ==
    /\ IsIdle("nodes")
    /\ NodeQueue!Pop(n)
    /\ LET obj == nodeItems[n].obj IN
       \/ /\ nodeItems[n].type = "Deleted"
          /\ Forget(n, obj.uid)
          /\ Goto("nodes", [Adding(n, obj.uid, obj.ip) EXCEPT !.pc = "delete"])
       \/ /\ nodeItems[n].type # "Deleted"
          /\ IF Served(n, obj) THEN Done("nodes")
             ELSE Goto("nodes", Adding(n, obj.uid, obj.ip))
          /\ addressOf' = {a \in addressOf : ~(a.name = n /\ a.uid = obj.uid)}
                          \cup {[name |-> n, uid |-> obj.uid, ip |-> obj.ip]}
    /\ UNCHANGED <<subnetVars, allocator, history>>

NodeEvent(n) ==
    /\ IsIdle("nodes")
    /\ NodeQueue!Pop(n)
    /\ LET obj == nodeItems[n].obj IN
       \/ /\ nodeItems[n].type = "Deleted"
          /\ Forget(n, obj.uid)
          /\ Goto("nodes", [Adding(n, obj.uid, obj.ip) EXCEPT !.pc = "delete"])
       \/ /\ nodeItems[n].type # "Deleted"
          /\ IF Served(n, obj) THEN Done("nodes")
             ELSE Goto("nodes", Adding(n, obj.uid, obj.ip))
          /\ UNCHANGED addressOf
    /\ UNCHANGED <<subnetVars, allocator, history>>

\* ReleaseNetwork
Release(s) == taken' = taken \ {s} /\ UNCHANGED next

SubnetEvent(h) ==
    /\ IsIdle("subnets")
    /\ SubnetQueue!Pop(h)
    /\ LET obj == subnetItems[h].obj IN
       \/ /\ subnetItems[h].type = "Deleted"
          /\ IF obj.assign THEN UNCHANGED allocator ELSE Release(obj.subnet)
          /\ UNCHANGED job
       \/ /\ subnetItems[h].type # "Deleted"
          /\ IF obj.assign
               THEN Goto("subnets", [Adding(h, 0, obj.ip) EXCEPT !.pc = "remove"])
               ELSE UNCHANGED job
          /\ UNCHANGED allocator
    /\ UNCHANGED <<nodeVars, addressOf, history>>

\* GetNetwork: the first free subnet from next on.
Candidates == {i \in 0..(NumSubnets - 1) :
                 SubnetAt(HostBits, SubnetBits, (i + next) % NumSubnets) \notin taken}

\* Mutant: the position is not taken modulo the number of subnets.
GetNetworkBeyond(t) ==
    IF Candidates = {}
      THEN Done(t) /\ next' = 0 /\ UNCHANGED taken
      ELSE LET i == CHOOSE i \in Candidates : \A j \in Candidates : i <= j
               s == SubnetAt(HostBits, SubnetBits, (i + next) % NumSubnets)
           IN  /\ taken' = taken \cup {s}
               /\ next' = i + next + 1
               /\ Goto(t, [pc |-> "create", name |-> job[t].name, uid |-> job[t].uid,
                           ip |-> job[t].ip, subnet |-> s])

GetNetwork(t) ==
    IF Candidates = {}
      THEN Done(t) /\ next' = 0 /\ UNCHANGED taken
      ELSE LET i == CHOOSE i \in Candidates : \A j \in Candidates : i <= j
               n == (i + next) % NumSubnets
               s == SubnetAt(HostBits, SubnetBits, n)
           IN  /\ taken' = taken \cup {s}
               /\ next' = n + 1
               /\ Goto(t, [pc |-> "create", name |-> job[t].name, uid |-> job[t].uid,
                           ip |-> job[t].ip, subnet |-> s])

\* addNode: whatever error the read gives is taken for "not there".
AddNode(t) ==
    /\ job[t].pc = "add"
    /\ LET sub == hostSubnet[job[t].name] IN
       \/ /\ IF sub = Nothing THEN Works ELSE Fails
          /\ GetNetwork(t)
          /\ UNCHANGED addressOf
       \/ /\ sub # Nothing
          /\ sub.ip = job[t].ip
          /\ Record(t) /\ Done(t)
          /\ Works /\ UNCHANGED allocator
       \/ /\ sub # Nothing
          /\ sub.ip # job[t].ip
          /\ Goto(t, [pc |-> "update", name |-> job[t].name, uid |-> job[t].uid,
                      ip |-> job[t].ip, read |-> sub])
          /\ Works /\ UNCHANGED <<allocator, addressOf>>
    /\ UNCHANGED <<nodeVars, subnetVars>>

Created(t) == [ip |-> job[t].ip, subnet |-> job[t].subnet, assign |-> FALSE]

CreateSubnet(t) ==
    /\ job[t].pc = "create"
    /\ Done(t)
    /\ LET h == job[t].name IN
       \/ /\ hostSubnet[h] = Nothing
          /\ SubnetQueue!Write(h, Created(t))
          /\ Record(t)
          /\ Works /\ UNCHANGED allocator
       \/ /\ IF hostSubnet[h] # Nothing THEN Works ELSE Fails
          /\ Release(job[t].subnet)
          /\ UNCHANGED <<subnetVars, addressOf>>
       \/ /\ hostSubnet[h] = Nothing
          /\ Fault
          /\ SubnetQueue!Write(h, Created(t))
          /\ Release(job[t].subnet)
          /\ dropped' = dropped \cup {job[t].subnet}
          /\ UNCHANGED <<addressOf, changes>>
    /\ UNCHANGED nodeVars

UpdateSubnet(t) ==
    /\ job[t].pc = "update"
    /\ Done(t)
    /\ LET h == job[t].name
           ok == hostSubnet[h] = job[t].read IN
       \/ /\ ok
          /\ SubnetQueue!Write(h, [hostSubnet[h] EXCEPT !.ip = job[t].ip])
          /\ Record(t) /\ Works
       \/ /\ ok
          /\ SubnetQueue!Write(h, [hostSubnet[h] EXCEPT !.ip = job[t].ip])
          /\ Fails /\ UNCHANGED addressOf
       \/ /\ ~ok /\ Works
          /\ UNCHANGED <<subnetVars, addressOf>>
       \/ /\ Fails
          /\ UNCHANGED <<subnetVars, addressOf>>
    /\ UNCHANGED <<nodeVars, allocator>>

\* Mutant: the subnet is released at once, and again when the event comes.
DeleteNodeReleases(t) ==
    /\ job[t].pc = "delete"
    /\ Done(t)
    /\ LET h == job[t].name IN
       \/ hostSubnet[h] # Nothing /\ SubnetQueue!Write(h, Nothing) /\ Works
          /\ Release(hostSubnet[h].subnet)
       \/ hostSubnet[h] = Nothing /\ Works /\ UNCHANGED <<subnetVars, allocator>>
       \/ Fails /\ UNCHANGED <<subnetVars, allocator>>
    /\ UNCHANGED <<nodeVars, addressOf>>

\* deleteNode: an error leaves the HostSubnet, and nothing comes back to it.
DeleteNode(t) ==
    /\ job[t].pc = "delete"
    /\ Done(t)
    /\ LET h == job[t].name IN
       \/ hostSubnet[h] # Nothing /\ SubnetQueue!Write(h, Nothing) /\ Works
       \/ hostSubnet[h] = Nothing /\ Works /\ UNCHANGED subnetVars
       \/ Fails /\ UNCHANGED subnetVars
    /\ UNCHANGED <<nodeVars, allocator, addressOf>>

\* The annotated HostSubnet is deleted, then another one is added in its place.
RemoveAnnotated(t) ==
    /\ job[t].pc = "remove"
    /\ LET h == job[t].name IN
       \/ /\ hostSubnet[h] # Nothing
          /\ SubnetQueue!Write(h, Nothing)
          /\ \/ Goto(t, [job[t] EXCEPT !.pc = "add"]) /\ Works
             \/ Done(t) /\ Fails
       \/ /\ hostSubnet[h] = Nothing
          /\ Done(t) /\ Works /\ UNCHANGED subnetVars
       \/ Done(t) /\ Fails /\ UNCHANGED subnetVars
    /\ UNCHANGED <<nodeVars, allocator, addressOf>>

Handle(t) ==
    \/ AddNode(t)
    \/ CreateSubnet(t)
    \/ UpdateSubnet(t)
    \/ DeleteNode(t)
    \/ RemoveAnnotated(t)

Next ==
    \/ \E n \in Nodes :
         \/ Register(n) \/ Move(n) \/ Leave(n) \/ Heartbeat(n)
         \/ NodeEvent(n)
    \/ \E h \in Hosts : AskSubnet(h)
    \/ \E h \in Names : DeleteSubnet(h) \/ SubnetEvent(h)
    \/ NodeReflector \/ SubnetReflector
    \/ NodeResync \/ SubnetResync
    \/ NodeWatchBreaks \/ SubnetWatchBreaks
    \/ Restart \/ NodePanic \/ SubnetPanic
    \/ \E t \in Threads : Handle(t)

Spec == Init /\ [][Next]_vars

\* The goroutine of the nodes runs, its reflector gets the lock now and then, and
\* kubelets report.
FairSpec ==
    /\ Spec
    /\ SF_vars(NodeReflector \/ NodePanic)
    /\ \A n \in Nodes : WF_vars(NodeEvent(n)) /\ WF_vars(Heartbeat(n))
    /\ WF_vars(Handle("nodes"))
-------------------------------------------------------------------------------
(* Properties *)

\* No subnet is given to two hosts, whatever is handled at the same time, dropped,
\* replayed after a restart or compressed in the queues; but an answer that is lost
\* frees a subnet that is stored, and from then on it may be given again.
NeverShared ==
    \A g, h \in Names :
        /\ g # h
        /\ hostSubnet[g] # Nothing
        /\ hostSubnet[h] # Nothing
        /\ hostSubnet[g].subnet = hostSubnet[h].subnet
        => hostSubnet[g].subnet \in dropped \cup {NoSubnet}

\* The allocator knows every subnet that is stored: it is neither released twice nor
\* by an event about an earlier holder.
StoredIsTaken == Stored \ dropped \subseteq taken

\* The rotation of GetNetwork reaches every subnet of a network, each once.
RotationCovers ==
    \A hb \in 1..9, sb \in 0..9 :
        LET numbers == 0..(Pow2[sb] - 1) IN
        {SubnetAt(hb, sb, n) : n \in numbers} = {n * Pow2[hb] : n \in numbers}

\* The search from next on passes no free subnet by.
FullWhenAllTaken == Candidates = {} => taken = Subnets

\* Every subnet can be given and none that is stored, and none is left when GetNetwork
\* says so.
AllocatorIsSound == StoredIsTaken /\ RotationCovers /\ FullWhenAllTaken

\* What both follow from.  A host owns the subnets that the store, a list, the watch, the
\* queue or the handlers connect with it, a goroutine the one that it is about to store:
\* each is taken and has one owner, and what an event says is deleted does not come back,
\* so that it is released once and not while somebody else has it.
Owned(h) ==
    {sub.subnet : sub \in SubnetQueue!Mentioned(h) \ {Nothing}} \ (dropped \cup {NoSubnet})
Making(t) == IF job[t].pc = "create" THEN {job[t].subnet} \ dropped ELSE {}

OwnersAreSound ==
    /\ \A g, h \in Names : g # h => Owned(g) \cap Owned(h) = {}
    /\ \A h \in Names, t \in Threads : Owned(h) \cap Making(t) = {}
    /\ \A t, u \in Threads : t # u => Making(t) \cap Making(u) = {}
    /\ \A h \in Names : Owned(h) \subseteq taken
    /\ \A t \in Threads : Making(t) \subseteq taken
    /\ SubnetQueue!GoneForGood([sub \in HostSubnets |-> sub.subnet], dropped \cup {NoSubnet})

\* When nothing is under way the handlers have been told the truth about every
\* object, watches that broke included; the only exception are keys for which the
\* queue kept a delta that a list contradicted.
CaughtUp ==
    /\ \A n \in Nodes \ nodeSkewed : NodeQueue!Learned(n)
    /\ \A h \in Names \ subnetSkewed : SubnetQueue!Learned(h)

\* An annotated HostSubnet does not stay as the administrator stored it, unless a
\* call failed.
AnnotatedIsTaken ==
    \A h \in Hosts \ subnetSkewed :
        /\ SubnetQueue!Quiet(h)
        /\ IsIdle("subnets")
        /\ hostSubnet[h] # Nothing
        /\ hostSubnet[h].assign
        => faults > 0

\* What that follows from: the goroutine is at it.
AnnotatedIsSeen ==
    \A h \in Names \ subnetSkewed :
        SubnetQueue!Quiet(h) /\ hostSubnet[h] # Nothing /\ hostSubnet[h].assign
        => faults > 0 \/ (job["subnets"].pc = "remove" /\ job["subnets"].name = h)

\* The goroutine of the nodes handles nodes, and only the other one removes.
JobsAreSound ==
    ~IsIdle("nodes") =>
        /\ job["nodes"].name \in Nodes
        /\ job["nodes"].uid \in 1..(MaxChanges + 1)
        /\ job["nodes"].pc # "remove"

SubnetsAreSound == OwnersAreSound /\ AnnotatedIsSeen /\ JobsAreSound

\* Nothing that happened to an object stays unnoticed.
EventsArrive == CaughtUp /\ AnnotatedIsTaken

\* A node that is not served gets a HostSubnet with its address in the end, whatever
\* failed before, unless it goes away or every subnet is taken.
NodeIsServed ==
    \A n \in Nodes :
        (node[n] # Nothing /\ ~Served(n, node[n])) ~>
            \/ node[n] = Nothing
            \/ hostSubnet[n] # Nothing /\ hostSubnet[n].ip = node[n].ip
            \/ taken = Subnets
===============================================================================
