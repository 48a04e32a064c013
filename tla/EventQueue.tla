------------------------------ MODULE EventQueue ------------------------------
(***************************************************************************)
(* The queue between a watch of the API server and the SDN's handlers of    *)
(* events.  A reflector lists the objects and then watches them; what       *)
(* happens to an object while its handler is busy is compressed into one    *)
(* delta.  The composing module owns objects and says when the queue is     *)
(* locked: a handler runs under the lock, and only the watch goes on.       *)
(* The order among keys, in the watch and in the queue, is left open.       *)
(***************************************************************************)
EXTENDS Integers, Sequences

CONSTANTS
    Keys,
    Nothing     \* no object

VARIABLES
    objects,    \* the objects as stored
    reflector,  \* what the reflector does: "broken", "listed" or "watching"
    list,       \* the objects it listed and has not handed over
    sent,       \* per key, the watch events it has not read
    items,      \* per key, the delta in the queue
    known,      \* knownObjects, what the handlers have been told of
    skewed      \* history: the keys whose last list the queue misread

queueVars == <<reflector, list, sent, items, known, skewed>>

WatchTypes == {"Added", "Updated", "Deleted"}
DeltaTypes == WatchTypes \cup {"Sync"}
NoDelta == [type |-> "none", obj |-> Nothing]
\* What a delta leaves of its object.
After(delta) == IF delta.type = "Deleted" THEN Nothing ELSE delta.obj

Empty == [k \in Keys |-> Nothing]
NoEvents == [k \in Keys |-> <<>>]

QueueTypeOK(Objects) ==
    LET Deltas == [type : DeltaTypes, obj : Objects]
        Events == [type : WatchTypes, obj : Objects]
    IN
    /\ reflector \in {"broken", "listed", "watching"}
    /\ list \in [Keys -> Objects \cup {Nothing}]
    /\ sent \in [Keys -> Seq(Events)]
    /\ items \in [Keys -> Deltas \cup {NoDelta}]
    /\ known \in [Keys -> Objects \cup {Nothing}]
    /\ skewed \in SUBSET Keys

\* A new queue, whose reflector has not listed yet.
Reset ==
    /\ reflector' = "broken"
    /\ list' = Empty
    /\ sent' = NoEvents
    /\ items' = [k \in Keys |-> NoDelta]
    /\ known' = Empty
    /\ skewed' = {}

QueueInit ==
    /\ reflector = "broken"
    /\ list = Empty
    /\ sent = NoEvents
    /\ items = [k \in Keys |-> NoDelta]
    /\ known = Empty
    /\ skewed = {}

\* A queue that has handed over everything there is.
QueueSettled ==
    /\ reflector = "watching"
    /\ list = Empty
    /\ sent = NoEvents
    /\ items = [k \in Keys |-> NoDelta]
    /\ known = objects
    /\ skewed = {}

-------------------------------------------------------------------------------
(* What becomes of a delta in the queue when another one comes *)

\* deltaActionMatrix, with "none" where the deltas are dropped: what is not in it
\* is a panic.
DeltaActions ==
    {<<"Added", "Sync", "Added">>, <<"Added", "Updated", "Added">>,
     <<"Added", "Deleted", "none">>,
     <<"Sync", "Sync", "Sync">>, <<"Sync", "Updated", "Sync">>,
     <<"Sync", "Deleted", "Deleted">>,
     <<"Updated", "Updated", "Updated">>, <<"Updated", "Deleted", "Deleted">>,
     <<"Deleted", "Added", "Updated">>, <<"Deleted", "Sync", "Sync">>}

\* queueActionLocked: nothing revives what is about to be deleted but an addition,
\* and of two deletions the first is kept.
Ignored(item, type) == item.type = "Deleted" /\ type \in {"Sync", "Deleted"}

Results(item, delta) ==
    IF item = NoDelta
      THEN {delta}
      ELSE IF Ignored(item, delta.type)
      THEN {item}
      ELSE {IF a[3] = "none" THEN NoDelta ELSE [type |-> a[3], obj |-> delta.obj] :
              a \in {a \in DeltaActions : a[1] = item.type /\ a[2] = delta.type}}

-------------------------------------------------------------------------------
(* The watch and the reflector *)

\* What the watch says of a change of an object.
EventOf(old, new) ==
    [type |-> IF old = Nothing THEN "Added"
              ELSE IF new = Nothing THEN "Deleted" ELSE "Updated",
     obj |-> IF new = Nothing THEN old ELSE new]

\* An object is written: who watches hears of it.
Stored(k, new) ==
    /\ objects' = [objects EXCEPT ![k] = new]
    /\ sent' = IF reflector = "broken" THEN sent
               ELSE [sent EXCEPT ![k] = Append(@, EventOf(objects[k], new))]

Write(k, new) ==
    /\ Stored(k, new)
    /\ UNCHANGED <<reflector, list, items, known, skewed>>

\* A handler changes the object that it was given, which is the one in knownObjects.
AlterKnown(k, copy) ==
    /\ known' = [known EXCEPT ![k] = copy]
    /\ UNCHANGED <<reflector, list, items, skewed>>

\* The watch fails, and what it has not delivered is lost.
Break ==
    /\ reflector # "broken"
    /\ reflector' = "broken"
    /\ list' = Empty
    /\ sent' = NoEvents
    /\ UNCHANGED <<objects, items, known, skewed>>

List ==
    /\ reflector = "broken"
    /\ reflector' = "listed"
    /\ list' = objects
    /\ UNCHANGED <<objects, sent, items, known, skewed>>

\* Mutant: what is not in the list is not looked at.
FromListPresent(k) ==
    IF list[k] # Nothing THEN {[type |-> "Sync", obj |-> list[k]]} ELSE {}

\* The deltas that a list makes: Sync for what is in it, Deleted for what is known
\* and is not.
FromList(k) ==
    IF list[k] # Nothing THEN {[type |-> "Sync", obj |-> list[k]]}
    ELSE IF known[k] # Nothing THEN {[type |-> "Deleted", obj |-> known[k]]}
    ELSE {}

ResultsOfList(k) ==
    IF FromList(k) = {} THEN {items[k]}
    ELSE UNION {Results(items[k], d) : d \in FromList(k)}

\* The list contradicts the delta in the queue, which stays; or that delta calls new
\* what the handlers know, so that they will not be told when it is deleted.
Misread(k) ==
    \/ list[k] # Nothing /\ items[k].type = "Deleted"
    \/ list[k] = Nothing /\ known[k] = Nothing /\ items[k].type \in DeltaTypes \ {"Deleted"}
    \/ known[k] # Nothing /\ items[k].type = "Added"

Replace ==
    /\ reflector = "listed"
    /\ \A k \in Keys : ResultsOfList(k) # {}
    /\ items' = [k \in Keys |-> CHOOSE r \in ResultsOfList(k) : TRUE]
    /\ reflector' = "watching"
    /\ list' = Empty
    /\ skewed' = {k \in Keys : Misread(k)}
    /\ UNCHANGED <<objects, sent, known>>

\* DeltaFIFO drops the deletion of what is neither known nor in the queue.
Dropped(k, event) ==
    event.type = "Deleted" /\ items[k] = NoDelta /\ known[k] = Nothing

ResultsOfEvent(k, event) ==
    IF Dropped(k, event) THEN {NoDelta} ELSE Results(items[k], event)

Deliver(k) ==
    /\ reflector = "watching"
    /\ sent[k] # <<>>
    /\ items' \in {[items EXCEPT ![k] = r] : r \in ResultsOfEvent(k, Head(sent[k]))}
    /\ sent' = [sent EXCEPT ![k] = Tail(@)]
    /\ UNCHANGED <<objects, reflector, list, known, skewed>>

\* The reflector meets a combination of deltas that is not in the matrix.
Panics ==
    \/ reflector = "listed" /\ \E k \in Keys : ResultsOfList(k) = {}
    \/ /\ reflector = "watching"
       /\ \E k \in Keys : sent[k] # <<>> /\ ResultsOfEvent(k, Head(sent[k])) = {}

\* Every half hour the reflector queues again what the handlers know, which may be
\* out of date by then.  It is taken to find the queue empty.
Resync ==
    /\ reflector = "watching"
    /\ known # Empty
    /\ items = [k \in Keys |-> NoDelta]
    /\ items' = [k \in Keys |-> IF known[k] = Nothing THEN NoDelta
                                ELSE [type |-> "Sync", obj |-> known[k]]]
    /\ UNCHANGED <<objects, reflector, list, sent, known, skewed>>

\* The handler takes the delta of a key.
Pop(k) ==
    /\ items[k] # NoDelta
    /\ items' = [items EXCEPT ![k] = NoDelta]
    /\ known' = [known EXCEPT ![k] = After(items[k])]
    /\ UNCHANGED <<objects, reflector, list, sent, skewed>>

Quiet(k) == reflector = "watching" /\ sent[k] = <<>> /\ items[k] = NoDelta

-------------------------------------------------------------------------------
(* What the queue promises *)

\* The handlers are told the truth, once nothing is under way.
Learned(k) == Quiet(k) => known[k] = objects[k]

\* What the handlers will know when they have taken what is in the queue.
Outcome(k) == IF items[k] = NoDelta THEN known[k] ELSE After(items[k])

\* The watch leads from what k was, through all that became of it, to what is stored.
Leads(from, k) ==
    LET last == Len(sent[k]) IN
    IF sent[k] = <<>> THEN from = objects[k]
    ELSE /\ from = Nothing <=> sent[k][1].type = "Added"
         /\ \A i \in 2..last :
              After(sent[k][i - 1]) = Nothing <=> sent[k][i].type = "Added"
         /\ After(sent[k][last]) = objects[k]

\* What Learned follows from: the list, and what is in the queue after it, is where the
\* watch goes on.
IsTold(k) ==
    /\ reflector = "broken" => sent[k] = <<>>
    /\ reflector # "listed" => list[k] = Nothing
    /\ reflector = "listed" => Leads(list[k], k)
    /\ reflector = "watching" /\ k \notin skewed =>
         /\ Leads(Outcome(k), k)
         /\ items[k].type = "Added" => known[k] = Nothing

\* What the queue carries for a key is allowed for that key.
Carries(Allowed) ==
    \A k \in Keys :
        /\ {objects[k], list[k], known[k], items[k].obj} \subseteq Allowed[k] \cup {Nothing}
        /\ \A i \in 1..Len(sent[k]) : sent[k][i].obj \in Allowed[k]

\* What the queue or the store still says about a key, and what is ahead of the queue.
Ahead(k) == {objects[k]} \cup {sent[k][i].obj : i \in 1..Len(sent[k])}
Mentioned(k) == Ahead(k) \cup {list[k], known[k], items[k].obj}

\* x is not the object that is gone, where Of tells objects apart, those in Except aside.
Apart(Of, Except, x, gone) ==
    x = Nothing \/ gone = Nothing \/ Of[gone] \in Except \/ Of[x] # Of[gone]

\* What a deletion says is gone is not heard of again.
GoneAt(Of, Except, k) ==
    /\ items[k].type = "Deleted" =>
         \A x \in Ahead(k) \cup {list[k]} : Apart(Of, Except, x, items[k].obj)
    /\ \A i \in 1..Len(sent[k]) : sent[k][i].type = "Deleted" =>
         /\ Apart(Of, Except, objects[k], sent[k][i].obj)
         /\ \A j \in (i + 1)..Len(sent[k]) :
              Apart(Of, Except, sent[k][j].obj, sent[k][i].obj)
    /\ reflector = "listed" /\ list[k] = Nothing =>
         \A x \in Ahead(k), gone \in {known[k], items[k].obj} : Apart(Of, Except, x, gone)

GoneForGood(Of, Except) == \A k \in Keys : GoneAt(Of, Except, k)
===============================================================================
