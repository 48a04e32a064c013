--------------------------- MODULE RouteAdmission ---------------------------
(***************************************************************************)
(* How a router decides which routes it serves.  A queue compresses what    *)
(* the watch says of a route; UniqueHost takes its events and lets a host   *)
(* be claimed by the routes of one namespace, each with a path of its own,  *)
(* the oldest first; the routes that it lets through are the state of the   *)
(* template router behind it.                                               *)
(***************************************************************************)
EXTENDS Integers, Sequences, FiniteSets, SequencesExt

CONSTANTS
    Routes,         \* routes by namespace and name
    NamespaceOf(_),
    Hosts,
    Paths,
    Nothing,        \* no route, no host
    Stored,         \* what may be stored at the start
    MaxLag,         \* bound on the watch events that are under way
    MaxChanges,     \* bound on what happens around the router
    MaxSelections,  \* bound on the changes of namespaces among it
    MaxFaults       \* bound on the broken watches, failed calls and restarts among it

Namespaces == {NamespaceOf(r) : r \in Routes}

ASSUME RoutesAssumption == IsFiniteSet(Routes)
ASSUME BoundsAssumption == {MaxLag, MaxChanges, MaxSelections, MaxFaults} \subseteq Nat

VARIABLES
    route,       \* the routes as stored
    watching,    \* whether the reflector has a watch
    sent,        \* the watch events that it has not read
    queue,       \* the keys in the queue
    events,      \* the type of the event of a key, "none" if there is none
    store,       \* the store of the queue, with the last known state of a route
    hostToRoute, \* the routes that claim a host
    routeToHost, \* the host that a route was let through with
    allowed,     \* allowedNamespaces
    served,      \* the state of the template router
    refused,     \* history: the routes of which the template router was not told
    left,        \* history: the hosts whose claims a route that left them has dropped
    changes,     \* how much of MaxChanges has happened
    selections,  \* how much of MaxSelections has happened
    faults       \* how much of MaxFaults has happened

queueVars == <<queue, events, store>>
admission == <<hostToRoute, routeToHost, allowed, served>>
vars == <<route, watching, sent, queueVars, admission, refused, left,
          changes, selections, faults>>

\* uid stands for the age too: RouteLessThan compares times of creation, then uids.
Objects == [name : Routes, uid : 1..(Cardinality(Routes) + MaxChanges),
            host : Hosts, path : Paths]
ASSUME StoredAssumption ==
    /\ Nothing \notin Hosts \cup Objects
    /\ Stored \subseteq [Routes -> Objects \cup {Nothing}]
    /\ \A f \in Stored : \A r \in Routes :
         f[r] # Nothing => f[r] \in Objects /\ f[r].name = r /\ f[r].uid <= Cardinality(Routes)

Nowhere == [r \in Routes |-> Nothing]

\* The elements of a sequence at some of its indices, in their order.
Kept(s, indices) ==
    [n \in 1..Cardinality(indices) |->
       s[CHOOSE i \in indices : Cardinality({j \in indices : j <= i}) = n]]

EventTypes == {"Added", "Modified", "Deleted"}
WatchEvents == [type : EventTypes, obj : Objects]

\* The claims of a host are of one namespace and no two are for one path.
IsClaim(claims) ==
    \A i, j \in DOMAIN claims :
      /\ NamespaceOf(claims[i].name) = NamespaceOf(claims[j].name)
      /\ i # j => claims[i].path # claims[j].path

TypeOK ==
    /\ route \in [Routes -> Objects \cup {Nothing}]
    /\ watching \in BOOLEAN
    /\ sent \in Seq(WatchEvents)
    /\ queue \in Seq(Routes)
    /\ events \in [Routes -> EventTypes \cup {"none"}]
    /\ \A r \in Routes : events[r] # "none" => r \in ToSet(queue) /\ store[r] # Nothing
    /\ store \in [Routes -> Objects \cup {Nothing}]
    /\ hostToRoute \in [Hosts -> Seq(Objects)]
    /\ \A h \in Hosts : IsClaim(hostToRoute[h])
    /\ routeToHost \in [Routes -> Hosts \cup {Nothing}]
    /\ allowed \in SUBSET Namespaces
    /\ served \in [Routes -> Objects \cup {Nothing}]
    /\ refused \in SUBSET Routes
    /\ left \in SUBSET Hosts
    /\ changes \in 0..MaxChanges
    /\ selections \in 0..MaxSelections
    /\ faults \in 0..MaxFaults

Init ==
    /\ route \in Stored
    /\ watching = FALSE
    /\ sent = <<>>
    /\ queue = <<>>
    /\ events = [r \in Routes |-> "none"]
    /\ store = Nowhere
    /\ hostToRoute = [h \in Hosts |-> <<>>]
    /\ routeToHost = Nowhere
    /\ allowed = Namespaces
    /\ served = Nowhere
    /\ refused = {}
    /\ left = {}
    /\ changes = 0
    /\ selections = 0
    /\ faults = 0

Happens == changes < MaxChanges /\ changes' = changes + 1
Fault == Happens /\ faults < MaxFaults /\ faults' = faults + 1

-------------------------------------------------------------------------------
(* Users *)

Write(r, type, obj) ==
    /\ Len(sent) < MaxLag
    /\ Happens
    /\ route' = [route EXCEPT ![r] = IF type = "Deleted" THEN Nothing ELSE obj]
    /\ sent' = IF watching THEN Append(sent, [type |-> type, obj |-> obj]) ELSE sent
    /\ UNCHANGED <<watching, queueVars, admission, refused, left, selections, faults>>

Create(r) ==
    /\ route[r] = Nothing
    /\ \E h \in Hosts, p \in Paths :
         Write(r, "Added", [name |-> r, uid |-> Cardinality(Routes) + changes + 1,
                            host |-> h, path |-> p])

\* ValidateRouteUpdate: the host of a route stays what it is.  The path may stay too,
\* as it does when the router writes the status.
Update(r) ==
    /\ route[r] # Nothing
    /\ \E p \in Paths : Write(r, "Modified", [route[r] EXCEPT !.path = p])

Delete(r) == route[r] # Nothing /\ Write(r, "Deleted", route[r])

-------------------------------------------------------------------------------
(* The reflector and the queue of events *)

WatchBreaks ==
    /\ watching
    /\ Fault
    /\ watching' = FALSE
    /\ sent' = <<>>
    /\ UNCHANGED <<route, queueVars, admission, refused, left, selections>>

\* The reflector lists the routes, the oldest first, and Replace forgets what the queue
\* held: nothing tells that a route is gone.
Replace ==
    /\ ~watching
    /\ watching' = TRUE
    /\ LET listed == {r \in Routes : route[r] # Nothing} IN
       /\ queue' \in {order \in SetToSeqs(listed) : \A i, j \in DOMAIN order :
                        i < j => route[order[i]].uid < route[order[j]].uid}
       /\ events' = [r \in Routes |-> IF r \in listed THEN "Modified" ELSE "none"]
       /\ store' = route
       /\ refused' = refused \cup {r \in Routes \ listed : served[r] # Nothing}
    /\ UNCHANGED <<route, sent, admission, left, changes, selections,
                   faults>>

\* Mutant: what is deleted is taken out of the queue, whatever waited there.
CompressedForgetting ==
    {<<"none", "Added", "Added">>, <<"none", "Modified", "Modified">>,
     <<"none", "Deleted", "Deleted">>,
     <<"Added", "Modified", "Added">>, <<"Added", "Deleted", "none">>,
     <<"Modified", "Modified", "Modified">>, <<"Modified", "Deleted", "none">>}

\* watchEventEffectMatrix and watchEventCompressionMatrix: what becomes of the event of
\* a key when another one comes; "none" takes the key out of the queue.
Compressed ==
    {<<"none", "Added", "Added">>, <<"none", "Modified", "Modified">>,
     <<"none", "Deleted", "Deleted">>,
     <<"Added", "Modified", "Added">>, <<"Added", "Deleted", "none">>,
     <<"Modified", "Modified", "Modified">>, <<"Modified", "Deleted", "Deleted">>}

\* handleEvent.  What is deleted stays in the store, until it is popped, or for good if
\* its key is taken out of the queue.
HandleEvent ==
    /\ watching
    /\ sent # <<>>
    /\ sent' = Tail(sent)
    /\ LET e == Head(sent)
           r == e.obj.name
       IN \E c \in Compressed :
            /\ c[1] = events[r] /\ c[2] = e.type
            /\ events' = [events EXCEPT ![r] = c[3]]
            /\ store' = IF e.type = "Deleted" THEN store ELSE [store EXCEPT ![r] = e.obj]
            /\ queue' = IF c[1] = "none" THEN Append(queue, r)
                        ELSE IF c[3] = "none"
                             THEN Kept(queue, {i \in DOMAIN queue : queue[i] # r})
                        ELSE queue
    /\ UNCHANGED <<route, watching, admission, refused, left, changes,
                   selections, faults>>

\* Every ten minutes the keys of the store that are not in the queue are put there,
\* without an event.
Resync ==
    /\ watching
    /\ LET waiting == {r \in Routes : store[r] # Nothing} \ ToSet(queue) IN
       /\ waiting # {}
       /\ \E added \in SetToSeqs(waiting) : queue' = queue \o added
    /\ UNCHANGED <<route, watching, sent, events, store, admission, refused, left,
                   changes, selections, faults>>

\* The queue gets an event it has no rule for, or a key it has no state for.
Panics ==
    \/ /\ watching /\ sent # <<>>
       /\ ~\E c \in Compressed :
             c[1] = events[Head(sent).obj.name] /\ c[2] = Head(sent).type
    \/ queue # <<>> /\ store[Head(queue)] = Nothing

\* A router that starts again knows nothing but the namespaces it looks up first.
Starts ==
    /\ watching' = FALSE
    /\ sent' = <<>>
    /\ queue' = <<>>
    /\ events' = [r \in Routes |-> "none"]
    /\ store' = Nowhere
    /\ hostToRoute' = [h \in Hosts |-> <<>>]
    /\ routeToHost' = Nowhere
    /\ served' = Nowhere
    /\ refused' = {}
    /\ left' = {}
    /\ UNCHANGED <<route, allowed, selections>>

Restart == Fault /\ Starts
Panic == Panics /\ Starts /\ UNCHANGED <<changes, faults>>

-------------------------------------------------------------------------------
(* UniqueHost *)

\* RouteLessThan
Older(a, b) == a.uid < b.uid
SameNamespace(a, b) == NamespaceOf(a.name) = NamespaceOf(b.name)

\* Mutant: only the route itself is looked for.
RivalOfName(o) ==
    LET old == hostToRoute[o.host] IN
    {i \in DOMAIN old : SameNamespace(old[1], o) /\ old[i].name = o.name
                                                  /\ old[i].path = o.path}

\* The claim that a route competes with for its path.
Rival(o) ==
    LET old == hostToRoute[o.host] IN
    {i \in DOMAIN old : SameNamespace(old[1], o) /\ old[i].path = o.path}

\* A host that another namespace holds is lost to an older claim, a path to an older
\* route of the namespace.
Loses(o) ==
    LET old == hostToRoute[o.host] IN
    /\ old # <<>>
    /\ IF SameNamespace(old[1], o) THEN \E i \in Rival(o) : Older(old[i], o)
       ELSE Older(old[1], o)

\* Mutant: the routes of another namespace go on being served.
DisplacedOfPath(o) == {hostToRoute[o.host][i].name : i \in Rival(o)} \ {o.name}

\* The routes whose claim a route takes, which the template router forgets.
Displaced(o) ==
    LET old == hostToRoute[o.host] IN
    IF old # <<>> /\ ~SameNamespace(old[1], o) THEN {c.name : c \in ToSet(old)}
    ELSE {old[i].name : i \in Rival(o)} \ {o.name}

\* The claims of all routes but this one.
OfOthers(claims, r) == Kept(claims, {i \in DOMAIN claims : claims[i].name # r})

\* The claims of the host when a route has got its own.
Claimed(o) ==
    LET old == hostToRoute[o.host]
        rest == OfOthers(old, o.name)
    IN IF old = <<>> \/ ~SameNamespace(old[1], o) THEN <<o>>
       ELSE IF Rival(o) # {} THEN [i \in DOMAIN old |-> IF i \in Rival(o) THEN o ELSE old[i]]
       ELSE IF rest # <<>> /\ Older(o, rest[1]) THEN <<o>> \o rest
       ELSE Append(rest, o)

\* What is left of them when it is deleted.
Unclaimed(o) ==
    IF Len(Claimed(o)) = 1 THEN <<>> ELSE OfOthers(Claimed(o), o.name)

\* A route that moves takes all claims of the host it was served at with it.
Dropped(o) == {routeToHost[o.name]} \ {Nothing, o.host}

Forgotten(names) == [r \in Routes |-> IF r \in names THEN Nothing ELSE served[r]]

\* An event of a resync changes who claims the host, and nothing else.
ClaimOnly(o) ==
    /\ hostToRoute' = [hostToRoute EXCEPT ![o.host] = Claimed(o)]
    /\ served' = Forgotten(Displaced(o))
    /\ refused' = refused \cup Displaced(o)
    /\ UNCHANGED <<routeToHost, left, changes, faults>>

\* The template router is told, unless the status that says so cannot be written.
Admit(o) ==
    /\ hostToRoute' = [h \in Hosts |->
         IF h = o.host THEN Claimed(o)
         ELSE IF h \in Dropped(o) THEN <<>> ELSE hostToRoute[h]]
    /\ left' = left \cup Dropped(o)
    /\ routeToHost' = [routeToHost EXCEPT ![o.name] = o.host]
    /\ \/ /\ served' = [Forgotten(Displaced(o)) EXCEPT ![o.name] = o]
          /\ refused' = (refused \cup Displaced(o)) \ {o.name}
          /\ UNCHANGED <<changes, faults>>
       \/ /\ Fault
          /\ served' = Forgotten(Displaced(o))
          /\ refused' = refused \cup Displaced(o) \cup {o.name}

\* A route that is deleted claims its host first.
Forget(o) ==
    /\ hostToRoute' = [hostToRoute EXCEPT ![o.host] = Unclaimed(o)]
    /\ routeToHost' = [routeToHost EXCEPT ![o.name] = Nothing]
    /\ served' = Forgotten(Displaced(o) \cup {o.name})
    /\ refused' = (refused \cup Displaced(o)) \ {o.name}
    /\ UNCHANGED <<left, changes, faults>>

Refuse(o, type) ==
    /\ refused' = IF type = "none" THEN refused ELSE refused \cup {o.name}
    /\ UNCHANGED <<hostToRoute, routeToHost, served, left, changes, faults>>

\* Pop and HandleRoute
HandleRoute ==
    /\ queue # <<>>
    /\ store[Head(queue)] # Nothing
    /\ LET r == Head(queue)
           o == store[r]
           type == events[r]
       IN /\ queue' = Tail(queue)
          /\ events' = [events EXCEPT ![r] = "none"]
          /\ store' = IF type = "Deleted" THEN [store EXCEPT ![r] = Nothing] ELSE store
          /\ IF NamespaceOf(r) \notin allowed \/ Loses(o) THEN Refuse(o, type)
             ELSE \/ type = "none" /\ ClaimOnly(o)
                  \/ type \in {"Added", "Modified"} /\ Admit(o)
                  \/ type = "Deleted" /\ Forget(o)
    /\ UNCHANGED <<route, watching, sent, allowed, selections>>

\* The namespaces that the router serves change, by their labels.  The template router
\* is told only if a claim goes, or all namespaces do.
HandleNamespaces ==
    /\ Happens
    /\ selections < MaxSelections
    /\ selections' = selections + 1
    /\ allowed' \in SUBSET Namespaces \ {allowed}
    /\ LET goes(h) == /\ hostToRoute[h] # <<>>
                      /\ NamespaceOf(hostToRoute[h][1].name) \notin allowed'
           gone == {h \in Hosts : goes(h)}
           out == {r \in Routes : served[r] # Nothing /\ NamespaceOf(r) \notin allowed'}
       IN /\ hostToRoute' = [h \in Hosts |-> IF h \in gone THEN <<>> ELSE hostToRoute[h]]
          /\ routeToHost' = [r \in Routes |->
               IF \E h \in gone : \E c \in ToSet(hostToRoute[h]) : c.name = r
               THEN Nothing ELSE routeToHost[r]]
          /\ IF gone # {} \/ allowed' = {}
             THEN served' = Forgotten(out) /\ refused' = refused \cup out
             ELSE UNCHANGED <<served, refused>>
    /\ UNCHANGED <<route, watching, sent, queueVars, left, faults>>

-------------------------------------------------------------------------------
Users == \E r \in Routes : Create(r) \/ Update(r) \/ Delete(r)

Next ==
    \/ Users
    \/ WatchBreaks
    \/ Replace
    \/ HandleEvent
    \/ Resync
    \/ HandleRoute
    \/ HandleNamespaces
    \/ Restart
    \/ Panic

Spec == Init /\ [][Next]_vars

\* The reflector lists, and reads what its watch delivers, the controller takes what is
\* in the queue, and a router that panics is started again.
FairSpec ==
    /\ Spec
    /\ WF_vars(Replace)
    /\ WF_vars(HandleEvent)
    /\ WF_vars(HandleRoute)
    /\ WF_vars(Panic)

-------------------------------------------------------------------------------
(* Properties *)

\* UniqueHost has to "ensure hosts can only be claimed by one namespace at a time"
\* (unique_host.go:126): what is served at a host is of one namespace, and two routes
\* of it are served at different paths.
ServedAt(h) == {r \in Routes : served[r] # Nothing /\ served[r].host = h}

OneNamespaceServes(h) ==
    \A r, s \in ServedAt(h) : NamespaceOf(r) = NamespaceOf(s)

OneRouteServesAPath(h) ==
    \A r, s \in ServedAt(h) \ refused : r # s => served[r].path # served[s].path

\* What is served is claimed, so that no other namespace gets the host.
ServedIsClaimed(h) ==
    \A r \in ServedAt(h) : \E c \in ToSet(hostToRoute[h]) : c.name = r

HostsAreOwned ==
    \A h \in Hosts \ left :
        OneNamespaceServes(h) /\ OneRouteServesAPath(h) /\ ServedIsClaimed(h)

\* Of what HostsAreOwned follows from.  Whether r is there, for who has read the watch up
\* to its n-th event.
Lives(r, n) ==
    \/ \E i \in n..Len(sent) :
         /\ sent[i].obj.name = r /\ sent[i].type # "Added"
         /\ \A j \in n..(i - 1) : sent[j].obj.name # r
    \/ route[r] # Nothing /\ \A i \in n..Len(sent) : sent[i].obj.name # r

\* The watch tells the story of every route, and the queue knows how it began: it keeps
\* the state of a route that is there, and takes none for there that is not.
WatchIsSound ==
    /\ watching =>
         /\ \A n \in DOMAIN sent :
              Lives(sent[n].obj.name, n + 1) <=> sent[n].type # "Deleted"
         /\ \A r \in Routes :
              /\ Lives(r, 1) => store[r] # Nothing /\ events[r] # "Deleted"
              /\ events[r] \in {"Added", "Modified"} => Lives(r, 1)
    /\ ~watching => sent = <<>>

\* The template router has what the queue had, of the routes that it was told of.
ServedIsKnown ==
    \A r \in Routes \ refused :
       \/ served[r] = Nothing
       \/ /\ events[r] # "Added"
          /\ events[r] = "none" => served[r] = store[r]
          /\ watching /\ events[r] # "Deleted" => Lives(r, 1)

\* A route claims where it is served, unless its claims were dropped: with the path it
\* is served at, if the template router was told of its last event.
ClaimsAreSound ==
    \A r \in Routes :
       \/ served[r] = Nothing \/ served[r].host \in left
       \/ /\ routeToHost[r] = served[r].host
          /\ \E c \in ToSet(hostToRoute[served[r].host]) : c.name = r
          /\ r \notin refused => served[r] \in ToSet(hostToRoute[served[r].host])

\* An object is kept under its own name.
NamesAgree ==
    \A r \in Routes : /\ route[r] # Nothing => route[r].name = r
                      /\ store[r] # Nothing => store[r].name = r
                      /\ served[r] # Nothing => served[r].name = r

AdmissionIsSound == NamesAgree /\ WatchIsSound /\ ServedIsKnown /\ ClaimsAreSound

\* The template router comes to serve the routes as they are stored, apart from those
\* of which it was not told because they lost their host or path, their namespace is
\* not served, their status could not be written or a list hid that they are gone.
ServedFollows == []<>(\A r \in Routes \ refused : served[r] = route[r])

\* The same without the exception for hosts that a route has left.
OneNamespacePerHost == \A h \in Hosts : OneNamespaceServes(h)
===============================================================================
