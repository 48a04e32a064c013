------------------------------ MODULE LeaderLease ------------------------------
(***************************************************************************)
(* The lease that decides which master runs the controllers.  Every master  *)
(* loops in AcquireAndHold: it creates a key of etcd that expires, renews   *)
(* it with a comparison of value and index, watches it, and ends when it    *)
(* can no longer tell that the key is its own.  Time passes in ticks of the *)
(* interval between two tries; between two ticks a process does all it can. *)
(***************************************************************************)
EXTENDS Integers

CONSTANTS
    Masters,    \* the competing processes
    TTL,        \* the seconds a lease lasts, in ticks
    MaxDelay,   \* no call to etcd is in flight for more ticks than this
    MaxTries,   \* maxRetries of Release
    MaxFaults,  \* bound on what goes wrong, or is asked for by hand
    Nobody,     \* the owner of a key that does not exist
    Gone        \* the owner of a key whose process has ended: ids are random

\* A call may always be in flight when a tick comes.
ASSUME TimeAssumption ==
    TTL \in Nat \ {0} /\ MaxDelay \in Nat \ {0} /\ MaxTries \in Nat \ {0}
ASSUME OwnerAssumption ==
    Nobody \notin Masters /\ Gone \notin Masters /\ Nobody # Gone
ASSUME FaultsAssumption == MaxFaults \in Nat

VARIABLES
    lease,      \* the key in etcd: its owner, and the ticks until it expires
    loop,       \* where AcquireAndHold is
    timer,      \* the ticks its sleep, or the poll it is in, has left
    call,       \* what has become of its call to etcd
    age,        \* the ticks the call has been in flight
    held,       \* the ttl it computes its waits from
    current,    \* the index it knows is that of the key
    news,       \* the key has ended since the index it watches from
    lost,       \* the channel that its watch closes
    release,    \* the tries Release has left, 0 when it is not running
    deletion,   \* what has become of the call of Release, and its age
    started,    \* who started the controllers of this process
    over,       \* observer: ticks that they ran without the lease
    used        \* how many of MaxFaults have happened

leaseVars == <<lease, current, news>>
loopVars == <<loop, timer, call, age, held, lost>>
stopVars == <<release, deletion>>
vars == <<leaseVars, loopVars, stopVars, started, over, used>>

InFlight == {"acquiring", "reading", "renewing", "last_try"}

\* What a leader may run on after its lease has expired: the last renewal that
\* succeeded was answered late, the tries of the poll before the last and the
\* last one take a delay each, and Release takes one per try.
Grace == (3 + MaxTries) * MaxDelay

TypeOK ==
    /\ lease \in [owner : Masters \cup {Nobody, Gone}, left : 0..TTL]
    /\ lease.owner = Nobody <=> lease.left = 0
    /\ loop \in [Masters -> InFlight \cup {"pausing", "waiting", "holding",
                                           "polling", "due", "ended", "down"}]
    /\ timer \in [Masters -> 0..TTL]
    /\ call \in [Masters -> {"none", "sent", "ok", "exists", "own", "missing",
                             "failed"}]
    /\ age \in [Masters -> 0..MaxDelay]
    /\ held \in [Masters -> 0..TTL]
    /\ current \in [Masters -> BOOLEAN]
    /\ news \in [Masters -> BOOLEAN]
    /\ lost \in [Masters -> BOOLEAN]
    /\ release \in [Masters -> 0..MaxTries]
    /\ deletion \in [Masters -> [at : {"none", "sent", "ok"}, age : 0..MaxDelay]]
    /\ started \in [Masters -> {"no", "lease", "hand"}]
    /\ over \in [Masters -> 0..(Grace + 1)]
    /\ used \in 0..MaxFaults

NoCall == [at |-> "none", age |-> 0]

Init ==
    /\ lease = [owner |-> Nobody, left |-> 0]
    /\ loop = [p \in Masters |-> "pausing"]
    /\ timer = [p \in Masters |-> 0]
    /\ call = [p \in Masters |-> "none"]
    /\ age = [p \in Masters |-> 0]
    /\ held = [p \in Masters |-> 0]
    /\ current = [p \in Masters |-> FALSE]
    /\ news = [p \in Masters |-> FALSE]
    /\ lost = [p \in Masters |-> FALSE]
    /\ release = [p \in Masters |-> 0]
    /\ deletion = [p \in Masters |-> NoCall]
    /\ started = [p \in Masters |-> "no"]
    /\ over = [p \in Masters |-> 0]
    /\ used = 0

-------------------------------------------------------------------------------
(* Steps that several operations share *)

AFault == used < MaxFaults /\ used' = used + 1

\* The loop goes on to a place where no call is in flight.
Go(p, place, ticks) ==
    /\ loop' = [loop EXCEPT ![p] = place]
    /\ timer' = [timer EXCEPT ![p] = ticks]
    /\ call' = [call EXCEPT ![p] = "none"]
    /\ age' = [age EXCEPT ![p] = 0]

\* The loop makes a call; the poll it may be in goes on.
Send(p, place) ==
    /\ loop' = [loop EXCEPT ![p] = place]
    /\ call' = [call EXCEPT ![p] = "sent"]
    /\ age' = [age EXCEPT ![p] = 0]
    /\ UNCHANGED timer

\* The wait before a renewal: waitFraction of the ttl the lease was taken with.
After(ttl) == (66 * ttl) \div 100

\* tryHold begins, or begins its next round.
Hold(p, ttl) ==
    /\ Go(p, "holding", After(ttl))
    /\ held' = [held EXCEPT ![p] = ttl]

\* The lease is acquired: Run starts the controllers, and tryHold watches the
\* key from the index after its own.
StartHolding(p, ttl) ==
    /\ Hold(p, ttl)
    /\ lost' = [lost EXCEPT ![p] = FALSE]
    /\ started' = [started EXCEPT ![p] = "lease"]
    /\ UNCHANGED <<leaseVars, stopVars, over, used>>

\* The call of Release, made for the first time or again.
BeginDelete(p, tries) ==
    /\ release' = [release EXCEPT ![p] = tries]
    /\ deletion' = [deletion EXCEPT ![p] = [at |-> "sent", age |-> 0]]

\* Mutant: the loop becomes a candidate again, and its controllers run on.
StopHoldingAsCandidate(p) ==
    /\ Go(p, "pausing", 1)
    /\ UNCHANGED <<stopVars, lease, news, held, lost, started, over>>

\* Mutant: Run returns without stopping the plug.
StopHoldingOnly(p) ==
    /\ Go(p, "ended", 0)
    /\ UNCHANGED <<stopVars, lease, news, held, lost, started, over>>

\* Mutant: Release counts its tries up to maxRetries inclusive.
StopHoldingWithOneTryMore(p) ==
    /\ Go(p, "ended", 0)
    /\ IF release[p] = 0 THEN BeginDelete(p, MaxTries + 1) ELSE UNCHANGED stopVars
    /\ UNCHANGED <<lease, news, held, lost, started, over>>

\* tryHold returns an error: Run returns too, and its deferred Stop releases
\* the lease before it stops the plug.
StopHolding(p) ==
    /\ Go(p, "ended", 0)
    /\ IF release[p] = 0 THEN BeginDelete(p, MaxTries) ELSE UNCHANGED stopVars
    /\ UNCHANGED <<lease, news, held, lost, started, over>>

\* Mutant: an expiry is not among the events that end a watch.
KeyEndsUnnoticed ==
    /\ lease' = [owner |-> Nobody, left |-> 0]
    /\ current' = [p \in Masters |-> FALSE]
    /\ UNCHANGED news

\* The key is gone from etcd; every watch of it will be told.
KeyEnds ==
    /\ lease' = [owner |-> Nobody, left |-> 0]
    /\ news' = [p \in Masters |-> TRUE]
    /\ current' = [p \in Masters |-> FALSE]

\* etcd stores p in the key: an index other than this one is out of date.
KeySet(p) ==
    /\ lease' = [owner |-> p, left |-> TTL]
    /\ current' = [q \in Masters |-> q = p]

-------------------------------------------------------------------------------
(* tryAcquire *)

Acquire(p) ==
    /\ loop[p] = "pausing" /\ timer[p] = 0
    /\ Send(p, "acquiring")
    /\ UNCHANGED <<leaseVars, held, lost, stopVars, started, over, used>>

\* etcd creates the key if there is none.
EtcdCreates(p) ==
    /\ loop[p] = "acquiring" /\ call[p] = "sent"
    /\ IF lease.owner = Nobody
       THEN /\ KeySet(p)
            /\ news' = [news EXCEPT ![p] = FALSE]
            /\ call' = [call EXCEPT ![p] = "ok"]
       ELSE /\ call' = [call EXCEPT ![p] = "exists"]
            /\ UNCHANGED leaseVars
    /\ UNCHANGED <<loop, timer, age, held, lost, stopVars, started, over, used>>

Acquired(p) ==
    /\ loop[p] = "acquiring" /\ call[p] = "ok"
    /\ StartHolding(p, TTL)

ReadKey(p) ==
    /\ loop[p] = "acquiring" /\ call[p] = "exists"
    /\ Send(p, "reading")
    /\ UNCHANGED <<leaseVars, held, lost, stopVars, started, over, used>>

\* etcd reads the key; what ends it from now on is news to the watch.
EtcdReads(p) ==
    /\ loop[p] = "reading" /\ call[p] = "sent"
    /\ call' = [call EXCEPT ![p] = IF lease.owner = Nobody THEN "missing"
                                   ELSE IF lease.owner = p THEN "own"
                                   ELSE "exists"]
    /\ held' = [held EXCEPT ![p] = lease.left]
    /\ current' = [current EXCEPT ![p] = lease.owner # Nobody]
    /\ news' = [news EXCEPT ![p] = FALSE]
    /\ UNCHANGED <<lease, loop, timer, age, lost, stopVars, started, over, used>>

\* The key is already this process's: the answer to its creation was lost.
AlreadyHeld(p) ==
    /\ loop[p] = "reading" /\ call[p] = "own"
    /\ StartHolding(p, held[p])

WaitForExpiration(p) ==
    /\ loop[p] = "reading" /\ call[p] = "exists"
    /\ Go(p, "waiting", 0)
    /\ UNCHANGED <<leaseVars, held, lost, stopVars, started, over, used>>

\* The key is missing by now: an error like any other, after which
\* AcquireAndHold pauses.
KeyIsMissing(p) ==
    /\ loop[p] = "reading" /\ call[p] = "missing"
    /\ Go(p, "pausing", 1)
    /\ UNCHANGED <<leaseVars, held, lost, stopVars, started, over, used>>

\* The watch of a candidate reports the end of the key.
CandidateWakes(p) ==
    /\ loop[p] = "waiting" /\ news[p]
    /\ Go(p, "pausing", 1)
    /\ news' = [news EXCEPT ![p] = FALSE]
    /\ UNCHANGED <<lease, current, held, lost, stopVars, started, over, used>>

\* A call of tryAcquire, or the watch it waits in, fails.  etcd may have applied
\* the call or not.
AcquireFails(p) ==
    /\ loop[p] \in {"acquiring", "reading", "waiting"}
    /\ AFault
    /\ Go(p, "pausing", 1)
    /\ current' = [current EXCEPT ![p] = FALSE]
    /\ UNCHANGED <<lease, news, held, lost, stopVars, started, over>>

-------------------------------------------------------------------------------
(* tryHold *)

\* The watch of the holder reports the end of the key.
WatchReports(p) ==
    /\ loop[p] \in {"holding", "polling", "due", "renewing", "last_try"}
    /\ news[p]
    /\ news' = [news EXCEPT ![p] = FALSE]
    /\ lost' = [lost EXCEPT ![p] = TRUE]
    /\ UNCHANGED <<lease, current, loop, timer, call, age, held, stopVars,
                   started, over, used>>

\* The watch failed, or etcd has forgotten what came after its index: it goes on
\* from the current one, and what happened before is not reported.
WatchMisses(p) ==
    /\ loop[p] \in {"holding", "polling", "due", "renewing", "last_try"}
    /\ news[p]
    /\ AFault
    /\ news' = [news EXCEPT ![p] = FALSE]
    /\ UNCHANGED <<lease, current, loopVars, stopVars, started, over>>

\* The select between the timer and the channel, ready both or one of them.
SeesLost(p) ==
    /\ loop[p] = "holding" /\ lost[p]
    /\ StopHolding(p)
    /\ UNCHANGED <<current, used>>

BeginPoll(p) ==
    /\ loop[p] = "holding" /\ timer[p] = 0
    /\ Go(p, "polling", held[p] - After(held[p]))
    /\ UNCHANGED <<leaseVars, held, lost, stopVars, started, over, used>>

\* A tick of the poll, or its end, after which the condition is tried once more.
Renew(p) ==
    /\ loop[p] = "due"
    /\ Send(p, IF timer[p] > 0 THEN "renewing" ELSE "last_try")
    /\ UNCHANGED <<leaseVars, held, lost, stopVars, started, over, used>>

\* etcd compares the value and the index that it stores with the caller's.
MayRenew(p) == lease.owner = p /\ current[p]

EtcdRenews(p) ==
    /\ loop[p] \in {"renewing", "last_try"} /\ call[p] = "sent"
    /\ IF MayRenew(p)
       THEN /\ KeySet(p)
            /\ call' = [call EXCEPT ![p] = "ok"]
       ELSE /\ call' = [call EXCEPT ![p] = "failed"]
            /\ UNCHANGED <<lease, current>>
    /\ UNCHANGED <<news, loop, timer, age, held, lost, stopVars, started, over,
                   used>>

\* Mutant: the index of the answer is not kept.
RenewedAtOldIndex(p) ==
    /\ loop[p] \in {"renewing", "last_try"} /\ call[p] = "ok"
    /\ Hold(p, held[p])
    /\ current' = [current EXCEPT ![p] = FALSE]
    /\ UNCHANGED <<lease, news, lost, stopVars, started, over, used>>

Renewed(p) ==
    /\ loop[p] \in {"renewing", "last_try"} /\ call[p] = "ok"
    /\ Hold(p, held[p])
    /\ UNCHANGED <<leaseVars, lost, stopVars, started, over, used>>

\* The comparison failed or the key is missing: the lease is given up.
RenewalRefused(p) ==
    /\ loop[p] \in {"renewing", "last_try"} /\ call[p] = "failed"
    /\ StopHolding(p)
    /\ UNCHANGED <<current, used>>

\* The next try, or none if this was the one after the end of the poll.
TryAgain(p) ==
    IF loop[p] = "last_try"
    THEN StopHolding(p)
    ELSE /\ Go(p, IF timer[p] > 0 THEN "polling" ELSE "due", timer[p])
         /\ UNCHANGED <<stopVars, lease, news, held, lost, started, over>>

\* The call fails on its way, whether etcd applied it or not.  The index stays the
\* one of the renewal before.
RenewalFails(p) ==
    /\ loop[p] \in {"renewing", "last_try"}
    /\ AFault
    /\ TryAgain(p)
    /\ current' = [current EXCEPT ![p] = @ /\ call[p] = "sent"]

\* etcd refuses the call, for want of a leader say.  The index becomes that of all
\* of etcd, by chance the one that the comparison asks for.
EtcdErrs(p) ==
    /\ loop[p] \in {"renewing", "last_try"} /\ call[p] = "sent"
    /\ AFault
    /\ TryAgain(p)
    /\ \E match \in BOOLEAN : current' = [current EXCEPT ![p] = match]

-------------------------------------------------------------------------------
(* Release, the plug and the process *)

\* DELETE /controllers stops the plug by hand, whatever the loop is doing.
StopRequest(p) ==
    /\ loop[p] # "down" /\ release[p] = 0
    /\ AFault
    /\ BeginDelete(p, MaxTries)
    /\ UNCHANGED <<leaseVars, loopVars, started, over>>

\* PUT /controllers starts the plug by hand: the embedded Start asks for no lease.
StartRequest(p) ==
    /\ loop[p] # "down" /\ started[p] = "no"
    /\ AFault
    /\ started' = [started EXCEPT ![p] = "hand"]
    /\ UNCHANGED <<leaseVars, loopVars, stopVars, over>>

MayDelete(p) == lease.owner = p

\* etcd deletes the key if it still has the caller's value.  A comparison that
\* fails ends Release like a success does.
EtcdDeletes(p) ==
    /\ deletion[p].at = "sent"
    /\ IF MayDelete(p) THEN KeyEnds ELSE UNCHANGED leaseVars
    /\ deletion' = [deletion EXCEPT ![p].at = "ok"]
    /\ UNCHANGED <<loopVars, release, started, over, used>>

\* The process exits or dies; what it had in flight is forgotten.
Ends(p) ==
    /\ Go(p, "down", 0)
    /\ held' = [held EXCEPT ![p] = 0]
    /\ lost' = [lost EXCEPT ![p] = FALSE]
    /\ news' = [news EXCEPT ![p] = FALSE]
    /\ current' = [current EXCEPT ![p] = FALSE]
    /\ lease' = IF lease.owner = p THEN [lease EXCEPT !.owner = Gone] ELSE lease
    /\ release' = [release EXCEPT ![p] = 0]
    /\ deletion' = [deletion EXCEPT ![p] = NoCall]
    /\ started' = [started EXCEPT ![p] = "no"]
    /\ over' = [over EXCEPT ![p] = 0]

\* Release is done: the plug stops, and the process exits.
Released(p) ==
    /\ deletion[p].at = "ok"
    /\ Ends(p)
    /\ UNCHANGED used

\* The call of Release fails; after maxRetries of them the plug stops all the same.
ReleaseFails(p) ==
    /\ release[p] > 0
    /\ AFault
    /\ IF release[p] = 1
       THEN Ends(p)
       ELSE /\ BeginDelete(p, release[p] - 1)
            /\ UNCHANGED <<leaseVars, loopVars, started, over>>

Crash(p) ==
    /\ loop[p] # "down"
    /\ AFault
    /\ Ends(p)

\* A process manager starts the master again, with a new id.
Restart(p) ==
    /\ loop[p] = "down"
    /\ Go(p, "pausing", 0)
    /\ UNCHANGED <<leaseVars, held, lost, stopVars, started, over, used>>

-------------------------------------------------------------------------------
(* Time *)

\* What a process does without waiting is done before the next tick, and no call
\* is in flight longer than MaxDelay.
Waits(p) ==
    /\ loop[p] # "due"
    /\ loop[p] \in {"pausing", "holding"} => timer[p] > 0
    /\ loop[p] \in InFlight => age[p] < MaxDelay
    /\ release[p] > 0 => deletion[p].age < MaxDelay

Less(n) == IF n > 0 THEN n - 1 ELSE 0

\* The ticker of a poll, if the loop is waiting for it.
AtTick(place) == IF place = "polling" THEN "due" ELSE place

Overrun(p) ==
    IF started[p] = "lease" /\ lease'.owner # p
    THEN IF over[p] > Grace THEN over[p] ELSE over[p] + 1
    ELSE 0

Tick ==
    /\ \A p \in Masters : Waits(p)
    /\ IF lease.left = 1
       THEN KeyEnds
       ELSE /\ lease' = [lease EXCEPT !.left = Less(@)]
            /\ UNCHANGED <<current, news>>
    /\ loop' = [p \in Masters |-> AtTick(loop[p])]
    /\ timer' = [p \in Masters |-> Less(timer[p])]
    /\ age' = [p \in Masters |-> IF loop[p] \in InFlight THEN age[p] + 1 ELSE 0]
    /\ deletion' = [p \in Masters |->
                       IF release[p] > 0
                       THEN [deletion[p] EXCEPT !.age = @ + 1] ELSE deletion[p]]
    /\ over' = [p \in Masters |-> Overrun(p)]
    /\ UNCHANGED <<call, held, lost, release, started, used>>

-------------------------------------------------------------------------------
AcquireStep(p) ==
    \/ Acquire(p) \/ EtcdCreates(p) \/ Acquired(p) \/ ReadKey(p) \/ EtcdReads(p)
    \/ AlreadyHeld(p) \/ WaitForExpiration(p) \/ KeyIsMissing(p) \/ CandidateWakes(p)

HoldStep(p) ==
    \/ SeesLost(p) \/ BeginPoll(p) \/ Renew(p) \/ EtcdRenews(p)
    \/ Renewed(p) \/ RenewalRefused(p)

StopStep(p) == EtcdDeletes(p) \/ Released(p) \/ Restart(p)

Fault(p) ==
    \/ AcquireFails(p) \/ WatchMisses(p) \/ RenewalFails(p) \/ EtcdErrs(p)
    \/ StopRequest(p) \/ StartRequest(p) \/ ReleaseFails(p) \/ Crash(p)

Next ==
    \/ Tick
    \/ \E p \in Masters :
         AcquireStep(p) \/ HoldStep(p) \/ WatchReports(p) \/ StopStep(p) \/ Fault(p)

Spec == Init /\ [][Next]_vars

\* Time passes, processes run, calls are answered, masters are restarted.
Fairness ==
    /\ WF_vars(Tick)
    /\ \A p \in Masters : /\ WF_vars(AcquireStep(p)) /\ WF_vars(HoldStep(p))
                          /\ WF_vars(WatchReports(p)) /\ WF_vars(StopStep(p))

FairSpec == Spec /\ Fairness

-------------------------------------------------------------------------------
(* Properties *)

\* Two masters run the controllers together for no longer than Grace after the
\* lease of the first has ended, however calls are delayed and lost.
OverlapIsBounded == \A p \in Masters : over[p] <= Grace

\* When no call fails, no process dies and nobody stops it, a leader renews in
\* time, if the delays leave room for it: it never runs without the lease.
OnlyFaultsEndALease ==
    used = 0 /\ After(TTL) + 1 + 2 * MaxDelay < TTL =>
       \A p \in Masters : started[p] = "lease" => lease.owner = p

\* What both follow from.  At most as many ticks as this are left for a loop that holds
\* the lease until it gives up, or has it renewed once more.
Leading(p) == loop[p] \in {"holding", "polling", "due", "renewing", "last_try"}

LeftInLoop(p) ==
    LET lastTries == 2 * MaxDelay - 1 IN
    IF loop[p] = "holding" THEN timer[p] + (held[p] - After(held[p])) + lastTries
    ELSE IF loop[p] \in InFlight /\ call[p] = "ok"
    THEN (MaxDelay - age[p]) + held[p] + lastTries
    ELSE IF loop[p] = "last_try" THEN MaxDelay - age[p]
    ELSE IF timer[p] > 0 THEN timer[p] + lastTries
    ELSE IF loop[p] = "due" THEN MaxDelay
    ELSE 2 * MaxDelay - age[p]

\* And as many until its controllers stop.
LeftToRun(p) ==
    IF release[p] > 0 THEN release[p] * MaxDelay - deletion[p].age
    ELSE LeftInLoop(p) + MaxTries * MaxDelay

\* The ttl that p was told is still there, or as old as the call.
TtlIsRecent(p, ttl) == ttl <= age[p] + (IF lease.owner = p THEN lease.left ELSE 0)

\* Where a loop is tells whether it has a call, whether its controllers run, and
\* whether it is stopping.
LoopIsSound(p) ==
    /\ loop[p] \notin InFlight => call[p] = "none" /\ age[p] = 0
    /\ Leading(p) => started[p] = "lease"
    /\ started[p] = "lease" => Leading(p) \/ loop[p] = "ended"
    /\ loop[p] = "ended" => release[p] > 0
    /\ deletion[p].at # "none" <=> release[p] > 0
    /\ over[p] > 0 => started[p] = "lease" /\ lease.owner # p
    /\ Leading(p) => held[p] > 0 /\ timer[p] <= held[p]
    /\ loop[p] = "holding" => timer[p] <= After(held[p])
    /\ loop[p] = "polling" => timer[p] > 0

\* It runs out before Grace does.
RunIsBounded(p) ==
    /\ loop[p] = "acquiring" /\ call[p] = "ok" /\ release[p] = 0 => TtlIsRecent(p, TTL)
    /\ loop[p] = "reading" /\ call[p] = "own" =>
         held[p] > 0 /\ (release[p] = 0 => TtlIsRecent(p, held[p]))
    /\ started[p] = "lease" =>
         over[p] + LeftToRun(p) <= Grace + (IF lease.owner = p THEN lease.left - 1 ELSE 0)

\* When nothing fails a leader renews when this much is left of the lease.
LeastLeft(p) ==
    IF call[p] = "ok" THEN TTL - age[p]
    ELSE IF loop[p] = "holding" THEN TTL - MaxDelay - (After(TTL) - timer[p])
    ELSE IF loop[p] = "polling" THEN TTL - MaxDelay - After(TTL)
    ELSE TTL - MaxDelay - After(TTL) - 1 - age[p]

\* The lease was created or will be renewed in time.
InTime(p) ==
    /\ release[p] = 0
    /\ loop[p] \notin {"ended", "down", "last_try"}
    /\ lease.owner = p <=> Leading(p) \/ (loop[p] = "acquiring" /\ call[p] = "ok")
    /\ lease.owner = p => current[p] /\ ~news[p] /\ lease.left >= LeastLeft(p)
    /\ Leading(p) => ~lost[p] /\ held[p] = TTL /\ call[p] # "failed"
    /\ loop[p] = "polling" => timer[p] = TTL - After(TTL)
    /\ loop[p] = "due" => timer[p] = TTL - After(TTL) - 1
    /\ loop[p] = "reading" => call[p] # "own"

LeasesAreSound ==
    \A p \in Masters :
        /\ LoopIsSound(p)
        /\ RunIsBounded(p)
        /\ used = 0 /\ After(TTL) + 1 + 2 * MaxDelay < TTL => InTime(p)

\* A lease that ended, or whose process ended, is held again by a master that
\* runs the controllers.
LeaseIsTakenAgain ==
    lease.owner \in {Nobody, Gone} ~>
       \E p \in Masters : lease.owner = p /\ started[p] = "lease"

\* A master whose lease is gone stops its controllers, or has the lease again.
LoserStops ==
    \A p \in Masters :
       started[p] = "lease" /\ lease.owner # p ~>
          started[p] = "no" \/ lease.owner = p
===============================================================================
