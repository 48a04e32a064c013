------------------------------ MODULE IngressIPs ------------------------------
(***************************************************************************)
(* The controller that gives an address of a range to every service of type *)
(* LoadBalancer.  It keeps its allocations in memory, stores an address in  *)
(* the status of the service and then among its external ips, and works     *)
(* through a queue of changes, each read from a cache that lags behind.     *)
(***************************************************************************)
EXTENDS Integers, FiniteSets, SequencesExt

CONSTANTS
    Services,
    IpRange,      \* the addresses that may be given
    Outside,    \* an address that an earlier range gave
    None,       \* no address, no service
    Wants,      \* the address a service asks for, or None
    MaxLag,     \* bound on the events undelivered when a user writes
    MaxInterference     \* bound on edits, errors, restarts and resyncs

Addresses == IpRange \cup {Outside}

ASSUME ServicesAssumption == IsFiniteSet(Services)
ASSUME NamesAssumption ==
    Outside \notin IpRange /\ None \notin Addresses /\ None \notin Services
ASSUME WantsAssumption == Wants \in [Services -> IpRange \cup {None}]
ASSUME BoundsAssumption == MaxLag \in Nat /\ MaxInterference \in Nat

VARIABLES
    service,    \* the services as stored
    events,     \* what the watch has still to deliver
    cache,      \* the services as the informer knows them
    queue,      \* the changes to be processed
    delayed,    \* the changes that come back after a while
    synced,     \* the initial sync has been processed
    local,      \* the addresses taken in ipAllocator, and in allocationMap the
                \* services they belong to
    requeued,   \* requeuedAllocations
    job,        \* the change being processed, with what is left to do
    used,       \* how much of MaxInterference has happened
    disputed    \* observed: the addresses that more than one service had when
                \* the existing allocations were recorded

storeVars == <<service, events>>
queueVars == <<queue, delayed>>
vars == <<storeVars, cache, queueVars, synced, local, requeued, job, used,
          disputed>>

Objects == [exists : BOOLEAN, lb : BOOLEAN, ip : Addresses \cup {None},
            external : SUBSET Addresses]
Absent == [exists |-> FALSE, lb |-> FALSE, ip |-> None, external |-> {}]
New(ip) == [exists |-> TRUE, lb |-> TRUE, ip |-> ip, external |-> {}]

\* A change names the service if it is there (key), and had an address if it was
\* there before (oldService).
Changes == [svc : Services, named : BOOLEAN, update : BOOLEAN,
            old : Addresses \cup {None}, flagged : BOOLEAN]

Writes == {"remove_external", "clear_status", "set_status", "add_external"}
Steps == Writes \cup {"allocate", "forget"}

NoChange == [svc |-> None]
Idle == [change |-> NoChange, ip |-> None, fresh |-> FALSE, plan |-> <<>>]
Working == job.change # NoChange

TypeOK ==
    /\ service \in [Services -> Objects]
    /\ cache \in [Services -> Objects]
    /\ events \in Seq([svc : Services, obj : Objects])
    /\ queue \in Seq(Changes)
    /\ delayed \in Seq(Changes)
    /\ synced \in BOOLEAN
    /\ local \in [taken : SUBSET IpRange,
                  owner : [IpRange -> Services \cup {None}]]
    /\ requeued \in SUBSET Services
    /\ \/ job = Idle
       \/ job \in [change : Changes, ip : Addresses \cup {None}, fresh : BOOLEAN,
                   plan : Seq(Steps) \ {<<>>}]
    /\ used \in 0..MaxInterference
    /\ disputed \in SUBSET IpRange

Nothing == [taken |-> {}, owner |-> [a \in IpRange |-> None]]

\* The address a change of a service from this object is about.
AllocationOf(obj) == IF obj.exists /\ obj.lb THEN obj.ip ELSE None

Addition(s) == [svc |-> s, named |-> TRUE, update |-> FALSE, old |-> None,
                flagged |-> FALSE]

\* The services there are, as additions in any order.
Additions(objs, qs) ==
    qs \in {[i \in DOMAIN ss |-> Addition(ss[i])] :
              ss \in SetToSeqs({s \in Services : objs[s].exists})}

\* The process starts, or starts again: it lists the services.
Starts ==
    /\ cache' = service
    /\ events' = <<>>
    /\ Additions(service, queue')
    /\ delayed' = <<>>
    /\ synced' = FALSE
    /\ local' = Nothing
    /\ requeued' = {}
    /\ job' = Idle
    /\ disputed' = {}

\* Services may have addresses of an earlier run, whatever their type is now.
Init ==
    /\ service \in [Services -> {Absent, New(None), New(Outside)}]
    /\ cache = service
    /\ events = <<>>
    /\ Additions(service, queue)
    /\ delayed = <<>>
    /\ synced = FALSE
    /\ local = Nothing
    /\ requeued = {}
    /\ job = Idle
    /\ used = 0
    /\ disputed = {}

Interferes == used < MaxInterference /\ used' = used + 1

-------------------------------------------------------------------------------
(* Users, the API server and the informer *)

\* A write is stored and will be seen; the copy that is being worked on ages.
Store(s, obj) ==
    /\ service' = [service EXCEPT ![s] = obj]
    /\ events' = Append(events, [svc |-> s, obj |-> obj])

Edit(s, obj) ==
    /\ Len(events) < MaxLag
    /\ Interferes
    /\ Store(s, obj)
    /\ job' = IF job.change.svc = s THEN [job EXCEPT !.fresh = FALSE] ELSE job
    /\ UNCHANGED <<cache, queueVars, synced, local, requeued, disputed>>

Create(s) == ~service[s].exists /\ Edit(s, New(None))

Delete(s) == service[s].exists /\ Edit(s, Absent)

\* The status is not a user's to change.
ChangeType(s) ==
    service[s].exists /\ Edit(s, [service[s] EXCEPT !.lb = ~@])

\* enqueueChange, called by the informer with what it knew and what it knows.
ChangeOf(s, old, new) ==
    [svc |-> s, named |-> new.exists, update |-> old.exists,
     old |-> AllocationOf(old), flagged |-> FALSE]

Deliver ==
    /\ events # <<>>
    /\ LET e == Head(events) IN
       /\ events' = Tail(events)
       /\ cache' = [cache EXCEPT ![e.svc] = e.obj]
       /\ queue' = Append(queue, ChangeOf(e.svc, cache[e.svc], e.obj))
    /\ UNCHANGED <<service, delayed, synced, local, requeued, job, used, disputed>>

\* The informer reports everything again.
Resync ==
    /\ Interferes
    /\ \E s \in Services :
         /\ cache[s].exists
         /\ queue' = Append(queue, ChangeOf(s, cache[s], cache[s]))
    /\ UNCHANGED <<storeVars, cache, delayed, synced, local, requeued, job, disputed>>

Restart ==
    /\ Interferes
    /\ Starts
    /\ UNCHANGED service

-------------------------------------------------------------------------------
(* Local allocations *)

\* Mutant: the allocator does not check the range.
FreeAnywhere(l) == Addresses \ l.taken

Free(l) == IpRange \ l.taken

\* Mutant: an address of the service itself counts as another's.
RecordLocalTwice(l, s, a) ==
    IF a = Outside \/ l.owner[a] # None THEN "reallocate" ELSE "record"

\* recordLocalAllocation: an address is the service's already, can become so, or
\* another one has to be allocated.
RecordLocal(l, s, a) ==
    IF a = Outside THEN "reallocate"
    ELSE IF l.owner[a] = s THEN "recorded"
    ELSE IF l.owner[a] # None THEN "reallocate"
    ELSE IF a \in Free(l) THEN "record"
    ELSE "error"

With(l, s, a) == [taken |-> l.taken \cup {a}, owner |-> [l.owner EXCEPT ![a] = s]]

Recorded(l, s, a) == IF RecordLocal(l, s, a) = "record" THEN With(l, s, a) ELSE l

\* clearLocalAllocation: only of an address that belongs to the service.
Cleared(l, s, a) ==
    IF a \in IpRange /\ l.owner[a] = s
    THEN [taken |-> l.taken \ {a}, owner |-> [l.owner EXCEPT ![a] = None]]
    ELSE l

-------------------------------------------------------------------------------
(* The initial sync *)

\* Where the additions of the initial list end in the queue.
FirstUpdate ==
    IF \E i \in DOMAIN queue : queue[i].update
    THEN CHOOSE i \in DOMAIN queue :
           queue[i].update /\ \A j \in 1..(i - 1) : ~queue[j].update
    ELSE Len(queue) + 1

\* The services that were listed as additions and are of the type, with what is
\* cached of them by now.
Listed ==
    {s \in Services : /\ \E i \in 1..(FirstUpdate - 1) : queue[i].svc = s
                      /\ cache[s].exists /\ cache[s].lb}

\* Of those that store one address the first in the list keeps it.
Precedes(s, t) ==
    \E i \in 1..(FirstUpdate - 1) :
      queue[i].svc = s /\ \A j \in 1..(i - 1) : queue[j].svc # t

\* Mutant: the initial sync records nothing.
NoHolders == {}

Holders ==
    {s \in Listed : /\ cache[s].ip \in IpRange
                    /\ \A t \in Listed \ {s} :
                         cache[t].ip = cache[s].ip => Precedes(s, t)}

\* Existing allocations are recorded before anything is allocated; then the
\* additions are queued again, by age, and before what came after the list.
ProcessInitialSync ==
    /\ ~synced
    /\ synced' = TRUE
    /\ local' = [taken |-> {cache[s].ip : s \in Holders},
                 owner |-> [a \in IpRange |->
                              IF \E s \in Holders : cache[s].ip = a
                              THEN CHOOSE s \in Holders : cache[s].ip = a
                              ELSE None]]
    /\ \E ss \in SetToSeqs(Listed) :
         queue' = [i \in DOMAIN ss |-> Addition(ss[i])]
                    \o SubSeq(queue, FirstUpdate, Len(queue))
    /\ disputed' = {a \in IpRange : \E s, t \in Listed :
                                       s # t /\ cache[s].ip = a /\ cache[t].ip = a}
    /\ UNCHANGED <<storeVars, cache, delayed, requeued, job, used>>

-------------------------------------------------------------------------------
(* processChange *)

\* Mutant: the status is cleared first.
ClearStatusFirst(obj) ==
    <<"clear_status">>
        \o (IF obj.ip \in obj.external THEN <<"remove_external">> ELSE <<>>)

\* The writes that take the address of the object away: the external ip first,
\* which is allowed only while the status has it.
ClearPersisted(obj) ==
    (IF obj.ip \in obj.external THEN <<"remove_external">> ELSE <<>>)
        \o <<"clear_status">>

EnsureExternal(obj, a) ==
    IF a \in obj.external THEN <<>> ELSE <<"add_external">>

\* The cases of processChange and of recordAllocation.
PlanFor(l, s, obj) ==
    IF ~obj.exists THEN <<>>
    ELSE IF obj.lb /\ obj.ip = None THEN <<"allocate">>
    ELSE IF obj.lb THEN IF RecordLocal(l, s, obj.ip) = "reallocate"
                        THEN ClearPersisted(obj) \o <<"allocate">>
                        ELSE EnsureExternal(obj, obj.ip)
    ELSE IF obj.ip # None THEN ClearPersisted(obj) \o <<"forget">>
    ELSE <<>>

\* Mutant: every change that finds the range full comes back.
FailsAlways(change, full, keys) ==
    /\ delayed' = Append(delayed, [change EXCEPT !.flagged = full])
    /\ requeued' = IF full THEN keys \cup {change.svc} ELSE keys

\* Mutant: a change that finds the range full is dropped.
FailsUnlessFull(change, full, keys) ==
    /\ delayed' = IF full THEN delayed ELSE Append(delayed, change)
    /\ requeued' = keys

\* An error: the change is to come back, but of those that found the range full
\* only one for each service.
Fails(change, full, keys) ==
    IF full /\ change.svc \in keys
    THEN delayed' = delayed /\ requeued' = keys
    ELSE /\ delayed' = Append(delayed, [change EXCEPT !.flagged = full])
         /\ requeued' = IF full THEN keys \cup {change.svc} ELSE keys

\* A change is taken from the queue.  The service is read from the cache as it is
\* now, whatever the change was about.
Work ==
    /\ synced /\ ~Working /\ queue # <<>>
    /\ queue' = Tail(queue)
    /\ LET change == [Head(queue) EXCEPT !.flagged = FALSE]
           s == change.svc
           obj == IF change.named THEN cache[s] ELSE Absent
           a == AllocationOf(obj)
           l == IF change.old \notin {None, a}
                THEN Cleared(local, s, change.old) ELSE local
           plan == PlanFor(l, s, obj)
           keys == IF Head(queue).flagged THEN requeued \ {s} ELSE requeued
       IN
       /\ local' = IF a = None THEN l ELSE Recorded(l, s, a)
       /\ IF a # None /\ RecordLocal(l, s, a) = "error"
          THEN job' = Idle /\ Fails(change, FALSE, keys)
          ELSE /\ job' = IF plan = <<>> THEN Idle
                         ELSE [change |-> change, ip |-> obj.ip, plan |-> plan,
                               fresh |-> \A i \in DOMAIN events : events[i].svc # s]
               /\ requeued' = keys
               /\ UNCHANGED delayed
    /\ UNCHANGED <<storeVars, cache, synced, used, disputed>>

Todo == IF Working THEN Head(job.plan) ELSE "nothing"

\* allocateIP: the address asked for if it is free, or else any; then the status
\* is to be written.
Allocate ==
    /\ Todo = "allocate"
    /\ \/ /\ Free(local) = {}
          /\ job' = Idle
          /\ Fails(job.change, TRUE, requeued)
          /\ UNCHANGED local
       \/ \E a \in Free(local) :
            /\ Wants[job.change.svc] \in Free(local) => a = Wants[job.change.svc]
            /\ local' = [local EXCEPT !.taken = @ \cup {a}]
            /\ job' = [job EXCEPT !.ip = a,
                                  !.plan = <<"set_status", "add_external">>]
            /\ UNCHANGED <<delayed, requeued>>
    /\ UNCHANGED <<storeVars, cache, queue, synced, used, disputed>>

\* What a write makes of the stored service.
Written(obj, a) ==
    CASE Todo = "remove_external" -> [obj EXCEPT !.external = @ \ {a}]
      [] Todo = "clear_status"    -> [obj EXCEPT !.ip = None]
      [] Todo = "set_status"      -> [obj EXCEPT !.ip = a]
      [] Todo = "add_external"    -> [obj EXCEPT !.external = @ \cup {a}]

\* persistService: a write of the copy.  A conflict, because the service changed
\* since it was read, and a service that is gone count as success.
Persist ==
    LET s == job.change.svc IN
    IF job.fresh
    THEN Store(s, Written(service[s], job.ip))
    ELSE UNCHANGED storeVars

\* A write is done, and the copy keeps the version it had before: allocate puts
\* the address in the map once the status is written.
WriteDone ==
    /\ Todo \in Writes
    /\ Persist
    /\ local' = IF Todo = "set_status"
                THEN With(local, job.change.svc, job.ip) ELSE local
    /\ job' = IF Tail(job.plan) = <<>> THEN Idle
              ELSE [job EXCEPT !.plan = Tail(@), !.fresh = FALSE]
    /\ UNCHANGED <<cache, queueVars, synced, requeued, used, disputed>>

\* Mutant: the address is not released.
WriteFailsTaken ==
    /\ Todo \in Writes
    /\ Interferes
    /\ Persist \/ UNCHANGED storeVars
    /\ job' = Idle
    /\ Fails(job.change, FALSE, requeued)
    /\ UNCHANGED <<cache, queue, synced, local, disputed>>

\* The write fails, applied or not.  An address that was to be stored is released.
WriteFails ==
    /\ Todo \in Writes
    /\ Interferes
    /\ Persist \/ UNCHANGED storeVars
    /\ local' = IF Todo = "set_status"
                THEN [local EXCEPT !.taken = @ \ {job.ip}] ELSE local
    /\ job' = Idle
    /\ Fails(job.change, FALSE, requeued)
    /\ UNCHANGED <<cache, queue, synced, disputed>>

\* deallocate ends: the address is free for others.
Forget ==
    /\ Todo = "forget"
    /\ local' = Cleared(local, job.change.svc, job.ip)
    /\ job' = Idle
    /\ UNCHANGED <<storeVars, cache, queueVars, synced, requeued, used, disputed>>

\* The delay of a change that failed is over.
ComesBack(i) ==
    /\ queue' = Append(queue, delayed[i])
    /\ delayed' = RemoveAt(delayed, i)
    /\ UNCHANGED <<storeVars, cache, synced, local, requeued, job, used, disputed>>

-------------------------------------------------------------------------------
Worker ==
    Work \/ Allocate \/ WriteDone \/ WriteFails \/ Forget \/ ProcessInitialSync

Next ==
    \/ \E s \in Services : Create(s) \/ Delete(s) \/ ChangeType(s)
    \/ Deliver \/ Resync \/ Restart
    \/ Worker
    \/ \E i \in DOMAIN delayed : ComesBack(i)

Spec == Init /\ [][Next]_vars

\* The watch delivers, the worker runs, and delays end.
Fairness ==
    /\ WF_vars(Deliver)
    /\ WF_vars(Work \/ Allocate \/ WriteDone \/ Forget \/ ProcessInitialSync)
    /\ WF_vars(delayed # <<>> /\ ComesBack(1))

FairSpec == Spec /\ Fairness

-------------------------------------------------------------------------------
(* Properties *)

\* Between two changes the allocator and the map agree, whatever failed before.
AllocatorAgrees ==
    ~Working => local.taken = {a \in IpRange : local.owner[a] # None}

\* An address is stored for two services only while a change of one of them is
\* still to be seen or processed: it will be given another.
Pending(s) ==
    \/ \E i \in DOMAIN events : events[i].svc = s
    \/ \E i \in DOMAIN queue : queue[i].svc = s
    \/ \E i \in DOMAIN delayed : delayed[i].svc = s
    \/ job.change.svc = s

SharedOnlyForNow ==
    \A s, t \in Services :
       /\ s # t
       /\ AllocationOf(service[s]) \in IpRange
       /\ AllocationOf(service[s]) = AllocationOf(service[t])
       => Pending(s) \/ Pending(t)

\* The status has an address for as long as the external ips do, though each is
\* written on its own and may be lost.
ExternalOnlyWithStatus ==
    \A s \in Services : service[s].external \subseteq {service[s].ip}

\* What is stored makes sense whichever of the writes of a change have been done.
StoredIsSound == SharedOnlyForNow /\ ExternalOnlyWithStatus

\* At most one change of a service circulates while the range is full.
InCirculation(s) ==
    {i \in DOMAIN queue : queue[i].svc = s /\ queue[i].flagged}

OneRequeuedChange ==
    \A s \in Services :
       Cardinality(InCirculation(s))
         + Cardinality({i \in DOMAIN delayed :
                          delayed[i].svc = s /\ delayed[i].flagged})
       = IF s \in requeued THEN 1 ELSE 0

\* A service keeps the address it has stored, over restarts too, as long as it is
\* of the type: the controller replaces only one that is recorded for another
\* service or is not of the range.
AddressIsKept ==
    [][\A s \in Services :
          /\ Working /\ service[s].exists /\ service[s].lb
          /\ service[s].ip \in IpRange /\ service'[s].exists
          /\ service'[s].ip # service[s].ip
          => local.owner[service[s].ip] \notin {s, None}]_vars

\* The controller stores an address for a service only if no other service of the
\* type stores it, or that one was edited and the edit is still to be processed.
\* Of the services that had one address when the controller started only one is
\* recorded: when that one goes, the address is free for a third, until the change
\* of the others is processed.
Edited(s) ==
    \/ \E i \in DOMAIN events : events[i].svc = s
    \/ \E i \in DOMAIN queue : queue[i].svc = s /\ queue[i].update
    \/ \E i \in DOMAIN delayed : delayed[i].svc = s /\ delayed[i].update

NewAddressIsFree ==
    [][\A s, t \in Services :
          /\ s # t /\ Working
          /\ service'[s].ip \notin {None, service[s].ip} \cup disputed
          /\ AllocationOf(service[t]) = service'[s].ip
          => Edited(t)]_vars

-------------------------------------------------------------------------------
(* Why they hold *)

HasAddress(obj) == obj.exists /\ obj.ip # None

\* Until the initial sync nothing is done, and the services with an address are
\* among the additions that come before any update.
WaitsForSync ==
    ~synced =>
       /\ job = Idle /\ delayed = <<>> /\ requeued = {}
       /\ local = Nothing /\ disputed = {}
       /\ \A i \in DOMAIN queue : ~queue[i].flagged
       /\ \A s \in Services :
            /\ cache[s].exists => \E i \in DOMAIN queue : queue[i].svc = s
            /\ HasAddress(service[s]) =>
                 \E i \in DOMAIN queue :
                   queue[i].svc = s /\ \A j \in 1..i : ~queue[j].update

\* What the informer knew of a service first, and what the i-th event tells it.
Tells(s, i) == i = 0 \/ events[i].svc = s
Told(s, i) == IF i = 0 THEN cache[s] ELSE events[i].obj

\* The events of a service lead to what is stored, and a new one has no address.
Follows(s) ==
    \A i \in 0..Len(events) :
       Tells(s, i) =>
         /\ (\A j \in (i + 1)..Len(events) : ~Tells(s, j)) => Told(s, i) = service[s]
         /\ ~Told(s, i).exists =>
              \A k \in (i + 1)..Len(events) :
                Tells(s, k) /\ (\A j \in (i + 1)..(k - 1) : ~Tells(s, j))
                => Told(s, k).ip = None

EventsFollow == \A s \in Services : Follows(s)

\* A deletion in the queue is out of date once the service has an address again,
\* and the update that gave it comes later.
QueueIsSound ==
    \A i \in DOMAIN queue :
       /\ ~queue[i].update => queue[i].old = None
       /\ ~queue[i].named /\ HasAddress(cache[queue[i].svc]) =>
            \E j \in DOMAIN queue :
               j > i /\ queue[j].svc = queue[i].svc /\ queue[j].update

DelayedIsSound ==
    \A i \in DOMAIN delayed :
       delayed[i].named /\ (~delayed[i].update => delayed[i].old = None)

\* The steps that may be left of a change.
Plans ==
    {<<"remove_external", "clear_status", "allocate">>, <<"clear_status", "allocate">>,
     <<"allocate">>, <<"set_status", "add_external">>, <<"add_external">>,
     <<"remove_external", "clear_status", "forget">>, <<"clear_status", "forget">>,
     <<"forget">>}

\* A fresh copy is what is stored.  An address that is to be replaced is another's.
CopyIsStored(s) ==
    /\ service[s].exists
    /\ Todo = "clear_status" =>
         /\ service[s].external = {}
         /\ service[s].lb /\ service[s].ip \in IpRange =>
              local.owner[service[s].ip] \notin {s, None}
    /\ Todo \in {"allocate", "set_status"} => service[s].ip = None
    /\ Todo = "add_external" => job.ip # None /\ service[s].ip = job.ip
    /\ Todo # "forget"

\* One that is not has been overtaken by an event that is still to be processed.
IsOvertaken(s) ==
    \/ \E i \in DOMAIN events : events[i].svc = s
    \/ \E i \in DOMAIN queue :
         queue[i].svc = s /\ (HasAddress(cache[s]) => queue[i].update)

JobIsSound ==
    Working =>
       /\ job.change.named /\ (~job.change.update => job.change.old = None)
       /\ job.plan \in Plans
       /\ IF job.fresh THEN CopyIsStored(job.change.svc) ELSE IsOvertaken(job.change.svc)

\* While an address is being stored it is taken and nobody's.
AllocatorIsExact ==
    LET owned == {a \in IpRange : local.owner[a] # None} IN
    IF Todo = "set_status"
    THEN /\ job.ip \in IpRange /\ local.owner[job.ip] = None
         /\ local.taken = owned \cup {job.ip}
    ELSE local.taken = owned

\* OneRequeuedChange, without counting.
Postponed(s) == {i \in DOMAIN delayed : delayed[i].svc = s /\ delayed[i].flagged}

RequeuedIsSound ==
    \A s \in Services :
       /\ \A i, j \in InCirculation(s) : i = j
       /\ \A i, j \in Postponed(s) : i = j
       /\ InCirculation(s) = {} \/ Postponed(s) = {}
       /\ s \in requeued <=> ~(InCirculation(s) = {} /\ Postponed(s) = {})

\* An address that is stored is recorded when all is processed, and from the
\* initial sync on if it is nobody else's and not edited.
IsRecorded(s) ==
    LET a == AllocationOf(service[s]) IN
    a \in IpRange =>
       /\ ~Pending(s) => local.owner[a] = s
       /\ /\ synced /\ a \notin disputed /\ ~Edited(s)
          /\ ~(job.change.svc = s /\ job.change.update)
          => local.owner[a] = s

StoredIsRecorded == \A s \in Services : IsRecorded(s)

IngressIsSound ==
    /\ WaitsForSync /\ EventsFollow /\ QueueIsSound /\ DelayedIsSound
    /\ JobIsSound /\ AllocatorIsExact /\ RequeuedIsSound /\ StoredIsRecorded
    /\ ExternalOnlyWithStatus

-------------------------------------------------------------------------------
(* What happens in the end *)

\* A service of the type that lasts, while there is a free address, gets one.
AddressIsGiven ==
    \A s \in Services :
       <>[](service[s].exists /\ service[s].lb /\ Free(local) # {})
         => <>[](service[s].ip # None)

\* In the end the external ips of a service are the address it has.
ExternalFollows ==
    \A s \in Services :
       <>[](service[s].exists /\ service[s].lb /\ service[s].ip \in IpRange)
         => <>[](service[s].external = {service[s].ip})

\* Both follow from the changes that the queue still holds or will get again.
ServicesAreServed == AddressIsGiven /\ ExternalFollows
===============================================================================
