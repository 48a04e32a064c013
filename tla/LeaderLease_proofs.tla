------------------------- MODULE LeaderLease_proofs -------------------------
(***************************************************************************)
(* Proofs about LeaderLease, for every set of masters, every ttl, every     *)
(* delay and any number of faults.                                          *)
(***************************************************************************)
EXTENDS LeaderLease, TLAPS

Inv == TypeOK /\ LeasesAreSound

\* The delays leave room for the renewals of a lease, when nothing fails.
Roomy == After(TTL) + 1 + 2 * MaxDelay < TTL

Sound(p) == LoopIsSound(p) /\ RunIsBounded(p) /\ (used = 0 /\ Roomy => InTime(p))

\* A step of another master: q's part of the state stays, and the lease if it is q's.
Apart(q) ==
    /\ loop'[q] = loop[q] /\ timer'[q] = timer[q] /\ call'[q] = call[q]
    /\ age'[q] = age[q] /\ held'[q] = held[q] /\ lost'[q] = lost[q]
    /\ release'[q] = release[q] /\ deletion'[q] = deletion[q]
    /\ started'[q] = started[q] /\ over'[q] = over[q]
    /\ lease'.owner = q <=> lease.owner = q
    /\ lease.owner = q =>
         lease'.left = lease.left /\ current'[q] = current[q] /\ news'[q] = news[q]
    /\ used' = 0 => used = 0

-------------------------------------------------------------------------------
(* Arithmetic *)

\* The tries of Release that are left last from MaxDelay to what all of them do.
LEMMA TriesFacts ==
    /\ MaxTries * MaxDelay \in Nat
    /\ Grace = 3 * MaxDelay + MaxTries * MaxDelay
    /\ \A r \in 1..MaxTries :
         /\ r * MaxDelay \in Nat
         /\ MaxDelay <= r * MaxDelay /\ r * MaxDelay <= MaxTries * MaxDelay
         /\ (r - 1) * MaxDelay = r * MaxDelay - MaxDelay
<1>1. /\ MaxTries \in Nat /\ MaxTries > 0 /\ MaxDelay \in Nat /\ MaxDelay > 0
  BY TimeAssumption
<1>2. Grace = 3 * MaxDelay + MaxTries * MaxDelay
  BY <1>1 DEF Grace
<1>3. ASSUME NEW r \in 1..MaxTries
      PROVE  /\ r * MaxDelay \in Nat
             /\ MaxDelay <= r * MaxDelay /\ r * MaxDelay <= MaxTries * MaxDelay
             /\ (r - 1) * MaxDelay = r * MaxDelay - MaxDelay
  <2>1. (r - 1) * MaxDelay = r * MaxDelay - MaxDelay
    BY <1>1
  <2>2. (MaxTries - r) * MaxDelay = MaxTries * MaxDelay - r * MaxDelay
    BY <1>1
  <2>3. \A a, b \in Nat : a * b \in Nat
    OBVIOUS
  <2>4. r \in Nat /\ r - 1 \in Nat /\ MaxTries - r \in Nat
    BY <1>1
  <2>5. r * MaxDelay \in Nat /\ (r - 1) * MaxDelay \in Nat /\ (MaxTries - r) * MaxDelay \in Nat
        /\ MaxTries * MaxDelay \in Nat
    BY <1>1, <2>3, <2>4
  <2>. QED
    BY <1>1, <2>1, <2>2, <2>5
<1>. QED
  BY <1>1, <1>2, <1>3

\* The wait before a renewal is shorter than the ttl.
LEMMA AfterFacts == \A h \in Nat \ {0} : After(h) \in Nat /\ After(h) < h
BY DEF After

LEMMA ConstantFacts ==
    /\ TTL \in Nat /\ TTL > 0 /\ MaxDelay \in Nat /\ MaxDelay > 0
    /\ MaxTries \in Nat /\ MaxTries > 0 /\ MaxFaults \in Nat
    /\ Nobody \notin Masters /\ Gone \notin Masters /\ Nobody # Gone
    /\ Grace \in Nat
    /\ After(TTL) \in Nat /\ After(TTL) < TTL
BY TimeAssumption, OwnerAssumption, FaultsAssumption, TriesFacts, AfterFacts

-------------------------------------------------------------------------------
(* What the steps have in common *)

\* What TypeOK says of one master.
LEMMA TypeFacts ==
    ASSUME TypeOK, NEW p \in Masters
    PROVE  /\ timer[p] \in 0..TTL /\ age[p] \in 0..MaxDelay /\ held[p] \in 0..TTL
           /\ release[p] \in 0..MaxTries /\ over[p] \in 0..(Grace + 1)
           /\ deletion[p] \in [at : {"none", "sent", "ok"}, age : 0..MaxDelay]
           /\ deletion[p].age \in 0..MaxDelay
           /\ lease.left \in 0..TTL /\ used \in 0..MaxFaults
           /\ lease.owner = p => lease.left > 0
BY OwnerAssumption, ConstantFacts DEF TypeOK

LEMMA InvIs == Inv <=> TypeOK /\ \A p \in Masters : Sound(p)
BY DEF Inv, LeasesAreSound, Sound, Roomy

LEMMA InvIsNext == Inv' <=> TypeOK' /\ \A p \in Masters : Sound(p)'
BY DEF Inv, LeasesAreSound, Sound, Roomy

LEMMA LeftOfOthers ==
    ASSUME NEW q, Apart(q)
    PROVE  /\ LeftToRun(q)' = LeftToRun(q)
           /\ \A ttl : TtlIsRecent(q, ttl)' <=> TtlIsRecent(q, ttl)
           /\ LeastLeft(q)' = LeastLeft(q)
           /\ Leading(q)' <=> Leading(q)
<1>1. LeftInLoop(q)' = LeftInLoop(q)
  BY DEF Apart, LeftInLoop
<1>2. LeftToRun(q)' = LeftToRun(q)
  BY <1>1 DEF Apart, LeftToRun
<1>. QED
  BY <1>2 DEF Apart, TtlIsRecent, LeastLeft, Leading

LEMMA OthersSound ==
    ASSUME NEW q, Apart(q), Sound(q)
    PROVE  Sound(q)'
<1>1. LoopIsSound(q)'
  BY LeftOfOthers DEF Apart, Sound, LoopIsSound
<1>2. RunIsBounded(q)'
  <2>1. /\ TtlIsRecent(q, TTL)' <=> TtlIsRecent(q, TTL)
        /\ TtlIsRecent(q, held[q])' <=> TtlIsRecent(q, held[q])
    BY LeftOfOthers DEF Apart, TtlIsRecent
  <2>. QED
    BY <2>1, LeftOfOthers DEF Apart, Sound, RunIsBounded
<1>3. used' = 0 /\ Roomy => InTime(q)'
  BY LeftOfOthers DEF Apart, Sound, InTime
<1>. QED
  BY <1>1, <1>2, <1>3 DEF Sound, Roomy

\* A step of p keeps the invariant if it keeps p's part of it.
LEMMA StepOf ==
    ASSUME Inv, NEW p \in Masters, TypeOK', \A q \in Masters \ {p} : Apart(q), Sound(p)'
    PROVE  Inv'
BY InvIs, InvIsNext, OthersSound

LEMMA Initially == Init => Inv
<1> SUFFICES ASSUME Init PROVE Inv
  OBVIOUS
<1>1. TypeOK
  BY ConstantFacts DEF Init, TypeOK, InFlight, NoCall
<1>2. ASSUME NEW p \in Masters PROVE Sound(p)
  BY ConstantFacts DEF Init, Sound, LoopIsSound, RunIsBounded, InTime, Leading, InFlight, NoCall
<1>. QED
  BY <1>1, <1>2, InvIs

-------------------------------------------------------------------------------
(* The parts the steps are made of *)

Places == InFlight \cup {"pausing", "waiting", "holding", "polling", "due", "ended", "down"}

Calls == {"none", "sent", "ok", "exists", "own", "missing", "failed"}

\* A step changes this of p only.
Moves(p) ==
    /\ loop' \in [Masters -> Places] /\ timer' \in [Masters -> 0..TTL]
    /\ call' \in [Masters -> Calls] /\ age' \in [Masters -> 0..MaxDelay]
    /\ \A q \in Masters \ {p} : /\ loop'[q] = loop[q] /\ timer'[q] = timer[q]
                                /\ call'[q] = call[q] /\ age'[q] = age[q]

LEMMA GoFacts ==
    ASSUME TypeOK, NEW p \in Masters, NEW place \in Places, NEW ticks \in 0..TTL,
           Go(p, place, ticks)
    PROVE  /\ Moves(p)
           /\ loop'[p] = place /\ timer'[p] = ticks /\ call'[p] = "none" /\ age'[p] = 0
<1>1. /\ loop \in [Masters -> Places] /\ timer \in [Masters -> 0..TTL]
      /\ call \in [Masters -> Calls] /\ age \in [Masters -> 0..MaxDelay]
  BY DEF TypeOK, Places, Calls
<1>2. "none" \in Calls /\ 0 \in 0..MaxDelay
  BY ConstantFacts DEF Calls
<1>. QED
  BY <1>1, <1>2 DEF Go, Moves

LEMMA SendFacts ==
    ASSUME TypeOK, NEW p \in Masters, NEW place \in Places, Send(p, place)
    PROVE  /\ Moves(p)
           /\ loop'[p] = place /\ timer'[p] = timer[p] /\ call'[p] = "sent" /\ age'[p] = 0
<1>1. /\ loop \in [Masters -> Places] /\ timer \in [Masters -> 0..TTL]
      /\ call \in [Masters -> Calls] /\ age \in [Masters -> 0..MaxDelay]
  BY DEF TypeOK, Places, Calls
<1>2. "sent" \in Calls /\ 0 \in 0..MaxDelay
  BY ConstantFacts DEF Calls
<1>. QED
  BY <1>1, <1>2 DEF Send, Moves

\* etcd answers the call of p.
LEMMA AnswerFacts ==
    ASSUME TypeOK, NEW p \in Masters, NEW answer \in Calls,
           call' = [call EXCEPT ![p] = answer], UNCHANGED <<loop, timer, age>>
    PROVE  Moves(p) /\ call'[p] = answer
BY DEF TypeOK, Places, Calls, Moves

LEMMA SameLoop ==
    ASSUME TypeOK, UNCHANGED <<loop, timer, call, age>>
    PROVE  \A p \in Masters : Moves(p)
BY DEF TypeOK, Places, Calls, Moves

LEMMA BeginDeleteFacts ==
    ASSUME TypeOK, NEW p \in Masters, NEW tries \in 0..MaxTries, BeginDelete(p, tries)
    PROVE  /\ release' \in [Masters -> 0..MaxTries]
           /\ deletion' \in [Masters -> [at : {"none", "sent", "ok"}, age : 0..MaxDelay]]
           /\ release'[p] = tries /\ deletion'[p].at = "sent" /\ deletion'[p].age = 0
           /\ \A q \in Masters \ {p} : release'[q] = release[q] /\ deletion'[q] = deletion[q]
<1>1. [at |-> "sent", age |-> 0] \in [at : {"none", "sent", "ok"}, age : 0..MaxDelay]
  BY ConstantFacts
<1>. QED
  BY <1>1 DEF BeginDelete, TypeOK

LEMMA KeySetFacts ==
    ASSUME TypeOK, NEW p \in Masters, KeySet(p)
    PROVE  /\ lease' \in [owner : Masters \cup {Nobody, Gone}, left : 0..TTL]
           /\ lease'.owner = p /\ lease'.left = TTL /\ lease'.owner # Nobody
           /\ current' \in [Masters -> BOOLEAN] /\ current'[p]
<1>1. current' \in [Masters -> BOOLEAN] /\ current'[p]
  BY Zenon DEF KeySet
<1>. QED
  BY <1>1, ConstantFacts DEF KeySet

LEMMA KeyEndsFacts ==
    ASSUME KeyEnds
    PROVE  /\ lease' \in [owner : Masters \cup {Nobody, Gone}, left : 0..TTL]
           /\ lease'.owner = Nobody /\ lease'.left = 0
           /\ current' \in [Masters -> BOOLEAN] /\ news' \in [Masters -> BOOLEAN]
BY ConstantFacts DEF KeyEnds

\* A wait is over in no more ticks than the lease lasts.
LEMMA AfterType == ASSUME NEW h \in 0..TTL PROVE After(h) \in 0..TTL /\ h - After(h) \in 0..TTL
<1>1. CASE h = 0
  <2>1. After(0) = 0
    BY DEF After
  <2>. QED
    BY <1>1, <2>1, ConstantFacts
<1>2. CASE h # 0
  BY <1>2, AfterFacts, ConstantFacts
<1>. QED
  BY <1>1, <1>2

\* LeftInLoop, place by place.
LEMMA LeftByPlace ==
    ASSUME NEW p
    PROVE  /\ loop[p] = "holding" =>
                LeftInLoop(p) = timer[p] + (held[p] - After(held[p])) + (2 * MaxDelay - 1)
           /\ loop[p] \in {"renewing", "last_try"} /\ call[p] = "ok" =>
                LeftInLoop(p) = (MaxDelay - age[p]) + held[p] + (2 * MaxDelay - 1)
           /\ loop[p] = "last_try" /\ call[p] # "ok" => LeftInLoop(p) = MaxDelay - age[p]
           /\ (\/ loop[p] \in {"polling", "due"}
               \/ loop[p] = "renewing" /\ call[p] # "ok") /\ timer[p] > 0 =>
                LeftInLoop(p) = timer[p] + (2 * MaxDelay - 1)
           /\ loop[p] = "due" /\ ~(timer[p] > 0) => LeftInLoop(p) = MaxDelay
           /\ loop[p] = "renewing" /\ call[p] # "ok" /\ ~(timer[p] > 0) =>
                LeftInLoop(p) = 2 * MaxDelay - age[p]
<1>1. /\ "holding" \notin InFlight /\ "polling" \notin InFlight /\ "due" \notin InFlight
      /\ "renewing" \in InFlight /\ "last_try" \in InFlight
  BY DEF InFlight
<1>. QED
  BY <1>1 DEF LeftInLoop

LEMMA LeftByPlaceNext ==
    ASSUME NEW p
    PROVE  /\ loop'[p] = "holding" =>
                LeftInLoop(p)' = timer'[p] + (held'[p] - After(held'[p])) + (2 * MaxDelay - 1)
           /\ loop'[p] \in {"renewing", "last_try"} /\ call'[p] = "ok" =>
                LeftInLoop(p)' = (MaxDelay - age'[p]) + held'[p] + (2 * MaxDelay - 1)
           /\ loop'[p] = "last_try" /\ call'[p] # "ok" => LeftInLoop(p)' = MaxDelay - age'[p]
           /\ (\/ loop'[p] \in {"polling", "due"}
               \/ loop'[p] = "renewing" /\ call'[p] # "ok") /\ timer'[p] > 0 =>
                LeftInLoop(p)' = timer'[p] + (2 * MaxDelay - 1)
           /\ loop'[p] = "due" /\ ~(timer'[p] > 0) => LeftInLoop(p)' = MaxDelay
           /\ loop'[p] = "renewing" /\ call'[p] # "ok" /\ ~(timer'[p] > 0) =>
                LeftInLoop(p)' = 2 * MaxDelay - age'[p]
<1>1. /\ "holding" \notin InFlight /\ "polling" \notin InFlight /\ "due" \notin InFlight
      /\ "renewing" \in InFlight /\ "last_try" \in InFlight
  BY DEF InFlight
<1>. QED
  BY <1>1 DEF LeftInLoop

\* While p's controllers run they have a number of ticks left, not less than 0.
HasLeft(p) ==
    TypeOK /\ LoopIsSound(p) =>
      /\ Leading(p) => LeftInLoop(p) \in Nat
      /\ release[p] > 0 =>
           /\ LeftToRun(p) = release[p] * MaxDelay - deletion[p].age
           /\ LeftToRun(p) \in Nat /\ LeftToRun(p) <= MaxTries * MaxDelay
      /\ Leading(p) /\ release[p] = 0 =>
           /\ LeftToRun(p) = LeftInLoop(p) + MaxTries * MaxDelay
           /\ LeftToRun(p) \in Nat

LEMMA EachHasLeft == \A p \in Masters : HasLeft(p)
<1> SUFFICES ASSUME NEW p \in Masters, TypeOK, LoopIsSound(p)
             PROVE  /\ Leading(p) => LeftInLoop(p) \in Nat
                    /\ release[p] > 0 =>
                         /\ LeftToRun(p) = release[p] * MaxDelay - deletion[p].age
                         /\ LeftToRun(p) \in Nat /\ LeftToRun(p) <= MaxTries * MaxDelay
                    /\ Leading(p) /\ release[p] = 0 =>
                         /\ LeftToRun(p) = LeftInLoop(p) + MaxTries * MaxDelay
                         /\ LeftToRun(p) \in Nat
  BY DEF HasLeft
<1>1. /\ timer[p] \in 0..TTL /\ age[p] \in 0..MaxDelay /\ held[p] \in 0..TTL
      /\ release[p] \in 0..MaxTries /\ deletion[p].age \in 0..MaxDelay
  BY TypeFacts
<1>2. ASSUME Leading(p) PROVE LeftInLoop(p) \in Nat
  <2>1. held[p] > 0 /\ After(held[p]) \in Nat /\ After(held[p]) < held[p]
    BY <1>1, <1>2, AfterFacts DEF LoopIsSound
  <2>2. /\ held[p] \in Nat /\ timer[p] \in Nat /\ age[p] \in Nat /\ age[p] <= MaxDelay
        /\ MaxDelay \in Nat /\ MaxDelay > 0
    BY <1>1, ConstantFacts
  <2>3. CASE loop[p] = "holding"
    <3>1. LeftInLoop(p) = timer[p] + (held[p] - After(held[p])) + (2 * MaxDelay - 1)
      BY <2>3, LeftByPlace
    <3>. QED
      BY <2>1, <2>2, <3>1
  <2>4. CASE loop[p] \in {"renewing", "last_try"} /\ call[p] = "ok"
    <3>1. LeftInLoop(p) = (MaxDelay - age[p]) + held[p] + (2 * MaxDelay - 1)
      BY <2>4, LeftByPlace
    <3>. QED
      BY <2>2, <3>1
  <2>5. CASE loop[p] = "last_try" /\ call[p] # "ok"
    <3>1. LeftInLoop(p) = MaxDelay - age[p]
      BY <2>5, LeftByPlace
    <3>. QED
      BY <2>2, <3>1
  <2>6. CASE loop[p] \in {"polling", "due"} \/ (loop[p] = "renewing" /\ call[p] # "ok")
    <3>1. \/ LeftInLoop(p) = timer[p] + (2 * MaxDelay - 1)
          \/ LeftInLoop(p) = MaxDelay
          \/ LeftInLoop(p) = 2 * MaxDelay - age[p]
      BY <1>2, <2>6, LeftByPlace DEF LoopIsSound
    <3>. QED
      BY <2>2, <3>1
  <2>. QED
    BY <1>2, <2>3, <2>4, <2>5, <2>6 DEF Leading
<1>3. ASSUME release[p] > 0
      PROVE  /\ LeftToRun(p) = release[p] * MaxDelay - deletion[p].age
             /\ LeftToRun(p) \in Nat /\ LeftToRun(p) <= MaxTries * MaxDelay
  <2>1. /\ release[p] * MaxDelay \in Nat /\ MaxDelay <= release[p] * MaxDelay
        /\ release[p] * MaxDelay <= MaxTries * MaxDelay /\ MaxTries * MaxDelay \in Nat
    BY <1>1, <1>3, TriesFacts
  <2>. QED
    BY <1>1, <1>3, <2>1, ConstantFacts DEF LeftToRun
<1>4. ASSUME Leading(p), release[p] = 0
      PROVE  /\ LeftToRun(p) = LeftInLoop(p) + MaxTries * MaxDelay
             /\ LeftToRun(p) \in Nat
  BY <1>1, <1>2, <1>4, TriesFacts DEF LeftToRun
<1>. QED
  BY <1>2, <1>3, <1>4

LEMMA EachHasLeftNext == (\A p \in Masters : HasLeft(p))'
BY EachHasLeft, PTL

\* What p may still do is no more than before, and the lease is no worse.
LEMMA BoundKept ==
    ASSUME TypeOK, TypeOK', NEW p \in Masters, LoopIsSound(p), RunIsBounded(p),
           started[p] = "lease", LeftToRun(p) \in Nat, LeftToRun(p)' \in Nat,
           LeftToRun(p)' <= LeftToRun(p), over'[p] = over[p],
           lease'.owner = p <=> lease.owner = p, lease.owner = p => lease'.left = lease.left
    PROVE  over'[p] + LeftToRun(p)' <= Grace + (IF lease'.owner = p THEN lease'.left - 1 ELSE 0)
<1>1. over[p] \in Nat /\ lease.left \in Nat /\ Grace \in Nat
  BY TypeFacts, ConstantFacts
<1>2. over[p] + LeftToRun(p) <= Grace + (IF lease.owner = p THEN lease.left - 1 ELSE 0)
  BY DEF RunIsBounded
<1>. QED
  BY <1>1, <1>2

-------------------------------------------------------------------------------
(* Candidates *)

\* A candidate makes a call, or waits or pauses without one.
LEMMA CandidateStep ==
    ASSUME Inv, NEW p \in Masters, ~Leading(p), loop[p] # "ended", TypeOK', Moves(p),
           loop'[p] \in {"acquiring", "reading", "waiting", "pausing"},
           loop'[p] \in {"acquiring", "reading"} => call'[p] = "sent",
           loop'[p] \in {"waiting", "pausing"} => call'[p] = "none" /\ age'[p] = 0,
           UNCHANGED <<lease, held, lost, stopVars, started, over>>,
           \A q \in Masters \ {p} : current'[q] = current[q] /\ news'[q] = news[q],
           used' = 0 => used = 0 /\ ~(loop[p] = "acquiring" /\ call[p] = "ok")
    PROVE  Inv'
<1>1. TypeOK /\ Sound(p)
  BY InvIs
<1>2. started[p] # "lease" /\ ~Leading(p)'
  BY <1>1 DEF Sound, LoopIsSound, Leading
<1>3. \A q \in Masters \ {p} : Apart(q)
  BY DEF Moves, stopVars, Apart
<1>4. LoopIsSound(p)'
  BY <1>1, <1>2 DEF Sound, LoopIsSound, InFlight, stopVars
<1>5. RunIsBounded(p)'
  BY <1>2 DEF RunIsBounded
<1>6. used' = 0 /\ Roomy => InTime(p)'
  BY <1>1, <1>2 DEF Sound, InTime, stopVars
<1>. QED
  BY <1>3, <1>4, <1>5, <1>6, StepOf DEF Sound, Roomy

LEMMA AcquireSound == ASSUME Inv, NEW p \in Masters, Acquire(p) PROVE Inv'
<1>1. TypeOK
  BY DEF Inv
<1>2. Moves(p) /\ loop'[p] = "acquiring" /\ call'[p] = "sent"
  BY <1>1, SendFacts DEF Acquire, Places, InFlight
<1>3. TypeOK'
  BY <1>1, <1>2 DEF Acquire, Moves, Places, Calls, TypeOK, leaseVars, stopVars
<1>. QED
  BY <1>2, <1>3, CandidateStep DEF Acquire, Leading, leaseVars

LEMMA ReadKeySound == ASSUME Inv, NEW p \in Masters, ReadKey(p) PROVE Inv'
<1>1. TypeOK
  BY DEF Inv
<1>2. Moves(p) /\ loop'[p] = "reading" /\ call'[p] = "sent"
  BY <1>1, SendFacts DEF ReadKey, Places, InFlight
<1>3. TypeOK'
  BY <1>1, <1>2 DEF ReadKey, Moves, Places, Calls, TypeOK, leaseVars, stopVars
<1>. QED
  BY <1>2, <1>3, CandidateStep DEF ReadKey, Leading, leaseVars

\* A candidate waits or pauses.
LEMMA CandidateGoes ==
    ASSUME Inv, NEW p \in Masters, NEW place \in {"waiting", "pausing"},
           NEW ticks \in {0, 1}, Go(p, place, ticks), ~Leading(p), loop[p] # "ended",
           UNCHANGED <<lease, held, lost, stopVars, started, over>>,
           current' \in [Masters -> BOOLEAN], news' \in [Masters -> BOOLEAN],
           \A q \in Masters \ {p} : current'[q] = current[q] /\ news'[q] = news[q],
           used' \in 0..MaxFaults,
           used' = 0 => used = 0 /\ ~(loop[p] = "acquiring" /\ call[p] = "ok")
    PROVE  Inv'
<1>1. TypeOK
  BY DEF Inv
<1>2. Moves(p) /\ loop'[p] = place /\ call'[p] = "none" /\ age'[p] = 0
  <2>1. place \in Places /\ ticks \in 0..TTL
    BY ConstantFacts DEF Places
  <2>. QED
    BY <1>1, <2>1, GoFacts
<1>3. TypeOK'
  BY <1>1, <1>2 DEF Moves, Places, Calls, TypeOK, stopVars
<1>. QED
  BY <1>2, <1>3, CandidateStep

LEMMA CandidatesGo ==
    ASSUME Inv, NEW p \in Masters,
           WaitForExpiration(p) \/ KeyIsMissing(p) \/ CandidateWakes(p) \/ Restart(p)
    PROVE  Inv'
<1>1. /\ current \in [Masters -> BOOLEAN] /\ news \in [Masters -> BOOLEAN]
      /\ used \in 0..MaxFaults
  BY DEF Inv, TypeOK
<1>2. CASE WaitForExpiration(p)
  BY <1>1, <1>2, CandidateGoes DEF WaitForExpiration, Leading, leaseVars
<1>3. CASE KeyIsMissing(p)
  BY <1>1, <1>3, CandidateGoes DEF KeyIsMissing, Leading, leaseVars
<1>4. CASE CandidateWakes(p)
  <2>1. /\ news' \in [Masters -> BOOLEAN] /\ \A q \in Masters \ {p} : news'[q] = news[q]
    BY <1>1, <1>4 DEF CandidateWakes
  <2>. QED
    BY <1>1, <1>4, <2>1, CandidateGoes DEF CandidateWakes, Leading
<1>5. CASE Restart(p)
  BY <1>1, <1>5, CandidateGoes DEF Restart, Leading, leaseVars
<1>. QED
  BY <1>2, <1>3, <1>4, <1>5

LEMMA FaultFacts ==
    ASSUME TypeOK, AFault
    PROVE  used' \in 0..MaxFaults /\ used' # 0
BY ConstantFacts DEF AFault, TypeOK

LEMMA AcquireFailsSound == ASSUME Inv, NEW p \in Masters, AcquireFails(p) PROVE Inv'
<1>1. /\ current \in [Masters -> BOOLEAN] /\ news \in [Masters -> BOOLEAN]
  BY DEF Inv, TypeOK
<1>2. used' \in 0..MaxFaults /\ used' # 0
  BY FaultFacts DEF Inv, AcquireFails
<1>3. /\ current' \in [Masters -> BOOLEAN]
      /\ \A q \in Masters \ {p} : current'[q] = current[q]
  BY <1>1 DEF AcquireFails
<1>. QED
  BY <1>1, <1>2, <1>3, CandidateGoes DEF AcquireFails, Leading

\* etcd stores the key for p, or tells it that there is one.
LEMMA EtcdCreatesSound == ASSUME Inv, NEW p \in Masters, EtcdCreates(p) PROVE Inv'
<1>1. TypeOK /\ Sound(p)
  BY InvIs
<1>2. /\ loop[p] = "acquiring" /\ call[p] = "sent" /\ started[p] # "lease"
      /\ UNCHANGED <<loop, timer, age, held, lost, stopVars, started, over, used>>
  BY <1>1 DEF EtcdCreates, Sound, LoopIsSound, Leading
<1>3. ~Leading(p)'
  BY <1>2 DEF Leading
<1>4. CASE lease.owner = Nobody
  <2>1. KeySet(p) /\ news' = [news EXCEPT ![p] = FALSE] /\ call' = [call EXCEPT ![p] = "ok"]
    BY <1>4 DEF EtcdCreates
  <2>2. Moves(p) /\ call'[p] = "ok"
    BY <1>1, <1>2, <2>1, AnswerFacts DEF Calls
  <2>3. /\ lease' \in [owner : Masters \cup {Nobody, Gone}, left : 0..TTL]
        /\ lease'.owner = p /\ lease'.left = TTL /\ lease'.owner # Nobody
        /\ current' \in [Masters -> BOOLEAN] /\ current'[p]
    BY <1>1, <2>1, KeySetFacts
  <2>4. news' \in [Masters -> BOOLEAN] /\ ~news'[p]
    BY <1>1, <2>1 DEF TypeOK
  <2>5. TypeOK'
    BY <1>1, <1>2, <2>2, <2>3, <2>4, ConstantFacts
    DEF TypeOK, Moves, Places, Calls, stopVars
  <2>6. \A q \in Masters \ {p} : Apart(q)
    BY <1>2, <1>4, <2>2, <2>3, OwnerAssumption DEF Moves, Apart, stopVars
  <2>7. LoopIsSound(p)'
    BY <1>1, <1>2, <1>3 DEF Sound, LoopIsSound, InFlight, stopVars
  <2>8. RunIsBounded(p)'
    <3>1. age[p] \in Nat /\ age'[p] \in Nat
      BY <1>1, <1>2, TypeFacts
    <3>2. TTL <= age'[p] + TTL
      BY <3>1, ConstantFacts
    <3>. QED
      BY <1>2, <2>3, <3>2 DEF RunIsBounded, TtlIsRecent
  <2>9. used' = 0 /\ Roomy => InTime(p)'
    <3>1. TTL >= TTL - age'[p]
      BY <1>1, <1>2, TypeFacts, ConstantFacts
    <3>2. LeastLeft(p)' = TTL - age'[p]
      BY <2>2 DEF LeastLeft
    <3>. QED
      BY <1>1, <1>2, <1>3, <2>2, <2>3, <2>4, <3>1, <3>2 DEF Sound, InTime, stopVars
  <2>. QED
    BY <2>5, <2>6, <2>7, <2>8, <2>9, StepOf DEF Sound, Roomy
<1>5. CASE lease.owner # Nobody
  <2>1. call' = [call EXCEPT ![p] = "exists"] /\ UNCHANGED leaseVars
    BY <1>5 DEF EtcdCreates
  <2>2. Moves(p) /\ call'[p] = "exists"
    BY <1>1, <1>2, <2>1, AnswerFacts DEF Calls
  <2>3. TypeOK'
    BY <1>1, <1>2, <2>1, <2>2 DEF TypeOK, Moves, Places, Calls, leaseVars, stopVars
  <2>4. \A q \in Masters \ {p} : Apart(q)
    BY <1>2, <2>1, <2>2 DEF Moves, Apart, leaseVars, stopVars
  <2>5. LoopIsSound(p)'
    BY <1>1, <1>2, <1>3 DEF Sound, LoopIsSound, InFlight, stopVars
  <2>6. RunIsBounded(p)'
    BY <1>2, <2>2 DEF RunIsBounded
  <2>7. used' = 0 /\ Roomy => InTime(p)'
    BY <1>1, <1>2, <1>3, <2>1, <2>2 DEF Sound, InTime, Leading, leaseVars, stopVars
  <2>. QED
    BY <2>3, <2>4, <2>5, <2>6, <2>7, StepOf DEF Sound, Roomy
<1>. QED
  BY <1>4, <1>5

\* etcd tells p whose the key is, and for how long.
LEMMA EtcdReadsSound == ASSUME Inv, NEW p \in Masters, EtcdReads(p) PROVE Inv'
<1>1. TypeOK /\ Sound(p)
  BY InvIs
<1>2. /\ loop[p] = "reading" /\ call[p] = "sent" /\ started[p] # "lease"
      /\ UNCHANGED <<lease, loop, timer, age, lost, stopVars, started, over, used>>
  BY <1>1 DEF EtcdReads, Sound, LoopIsSound, Leading
<1>3. ~Leading(p)'
  BY <1>2 DEF Leading
<1>4. PICK answer \in {"missing", "own", "exists"} :
        /\ call' = [call EXCEPT ![p] = answer]
        /\ answer = "own" <=> lease.owner = p
  <2>1. p # Nobody
    BY OwnerAssumption
  <2>. QED
    BY <1>2, <2>1 DEF EtcdReads
<1>5. Moves(p) /\ call'[p] = answer
  BY <1>1, <1>2, <1>4, AnswerFacts DEF Calls
<1>6. lease.left \in 0..TTL /\ (lease.owner = p => lease.left > 0)
  BY <1>1, TypeFacts
<1>7. /\ held' \in [Masters -> 0..TTL] /\ held'[p] = lease.left
      /\ \A q \in Masters \ {p} : held'[q] = held[q]
  BY <1>1, <1>6 DEF EtcdReads, TypeOK
<1>8. /\ current' \in [Masters -> BOOLEAN] /\ news' \in [Masters -> BOOLEAN]
      /\ \A q \in Masters \ {p} : current'[q] = current[q] /\ news'[q] = news[q]
  BY <1>1 DEF EtcdReads, TypeOK
<1>9. TypeOK'
  BY <1>1, <1>2, <1>5, <1>7, <1>8 DEF TypeOK, Moves, Places, Calls, stopVars
<1>10. \A q \in Masters \ {p} : Apart(q)
  BY <1>2, <1>5, <1>7, <1>8 DEF Moves, Apart, stopVars
<1>11. LoopIsSound(p)'
  BY <1>1, <1>2, <1>3 DEF Sound, LoopIsSound, InFlight, stopVars
<1>12. RunIsBounded(p)'
  <2>1. lease.owner = p => TtlIsRecent(p, held[p])'
    <3>1. lease.left <= age[p] + lease.left
      BY <1>1, <1>6, TypeFacts
    <3>. QED
      BY <1>2, <1>7, <3>1 DEF TtlIsRecent
  <2>. QED
    BY <1>2, <1>4, <1>5, <1>6, <1>7, <2>1 DEF RunIsBounded
<1>13. used' = 0 /\ Roomy => InTime(p)'
  BY <1>1, <1>2, <1>3, <1>4, <1>5 DEF Sound, InTime, Leading, stopVars
<1>. QED
  BY <1>9, <1>10, <1>11, <1>12, <1>13, StepOf DEF Sound, Roomy

-------------------------------------------------------------------------------
(* The holder *)

LEMMA HoldFacts ==
    ASSUME TypeOK, NEW p \in Masters, NEW ttl \in 0..TTL, ttl > 0, Hold(p, ttl)
    PROVE  /\ Moves(p)
           /\ loop'[p] = "holding" /\ timer'[p] = After(ttl) /\ call'[p] = "none" /\ age'[p] = 0
           /\ held' \in [Masters -> 0..TTL] /\ held'[p] = ttl
           /\ \A q \in Masters \ {p} : held'[q] = held[q]
           /\ After(ttl) \in Nat /\ After(ttl) < ttl
           /\ LeftInLoop(p)' = ttl + (2 * MaxDelay - 1)
<1>1. After(ttl) \in 0..TTL /\ After(ttl) \in Nat /\ After(ttl) < ttl
  BY AfterType, AfterFacts
<1>2. "holding" \in Places
  BY DEF Places
<1>3. /\ Moves(p)
      /\ loop'[p] = "holding" /\ timer'[p] = After(ttl) /\ call'[p] = "none" /\ age'[p] = 0
  BY <1>1, <1>2, GoFacts DEF Hold
<1>4. /\ held' \in [Masters -> 0..TTL] /\ held'[p] = ttl
      /\ \A q \in Masters \ {p} : held'[q] = held[q]
  BY DEF Hold, TypeOK
<1>5. LeftInLoop(p)' = After(ttl) + (ttl - After(ttl)) + (2 * MaxDelay - 1)
  BY <1>3, <1>4, LeftByPlaceNext
<1>. QED
  BY <1>1, <1>3, <1>4, <1>5, ConstantFacts

\* A loop that has the lease by now watches it; its ttl is as old as the call was.
LEMMA StartHoldingSound ==
    ASSUME Inv, NEW p \in Masters, NEW ttl \in 0..TTL, ttl > 0, StartHolding(p, ttl),
           loop[p] \in {"acquiring", "reading"}, release[p] = 0 => TtlIsRecent(p, ttl),
           used = 0 /\ Roomy => ttl = TTL /\ loop[p] = "acquiring" /\ call[p] = "ok"
    PROVE  Inv'
<1>1. TypeOK /\ Sound(p)
  BY InvIs
<1>2. /\ started[p] # "lease" /\ loop[p] # "ended"
      /\ UNCHANGED <<lease, current, news, release, deletion, over, used>>
  BY <1>1 DEF StartHolding, Sound, LoopIsSound, Leading, leaseVars, stopVars
<1>3. /\ Moves(p)
      /\ loop'[p] = "holding" /\ timer'[p] = After(ttl) /\ call'[p] = "none" /\ age'[p] = 0
      /\ held' \in [Masters -> 0..TTL] /\ held'[p] = ttl
      /\ \A q \in Masters \ {p} : held'[q] = held[q]
      /\ After(ttl) \in Nat /\ After(ttl) < ttl
      /\ LeftInLoop(p)' = ttl + (2 * MaxDelay - 1)
  BY <1>1, HoldFacts DEF StartHolding
<1>4. /\ lost' \in [Masters -> BOOLEAN] /\ ~lost'[p]
      /\ \A q \in Masters \ {p} : lost'[q] = lost[q]
  BY <1>1 DEF StartHolding, TypeOK
<1>5. /\ started' \in [Masters -> {"no", "lease", "hand"}] /\ started'[p] = "lease"
      /\ \A q \in Masters \ {p} : started'[q] = started[q]
  BY <1>1 DEF StartHolding, TypeOK
<1>6. TypeOK'
  BY <1>1, <1>2, <1>3, <1>4, <1>5 DEF TypeOK, Moves, Places, Calls
<1>7. \A q \in Masters \ {p} : Apart(q)
  BY <1>2, <1>3, <1>4, <1>5 DEF Moves, Apart
<1>8. Leading(p)'
  BY <1>3 DEF Leading
<1>9. over[p] = 0
  BY <1>1, <1>2, TypeFacts, ConstantFacts DEF Sound, LoopIsSound
<1>10. LoopIsSound(p)'
  <2>1. After(ttl) <= ttl /\ After(ttl) <= After(ttl) /\ ~(over'[p] > 0)
    BY <1>2, <1>3, <1>9
  <2>2. deletion'[p].at # "none" <=> release'[p] > 0
    BY <1>1, <1>2 DEF Sound, LoopIsSound
  <2>. QED
    BY <1>3, <1>5, <1>8, <2>1, <2>2 DEF LoopIsSound
<1>11. over'[p] + LeftToRun(p)' <= Grace + (IF lease'.owner = p THEN lease'.left - 1 ELSE 0)
  <2>1. /\ age[p] \in 0..MaxDelay /\ lease.left \in Nat /\ (lease.owner = p => lease.left > 0)
        /\ release[p] \in 0..MaxTries
    BY <1>1, TypeFacts
  <2>2. MaxTries * MaxDelay \in Nat /\ Grace = 3 * MaxDelay + MaxTries * MaxDelay
    BY TriesFacts
  <2>3. CASE release[p] = 0
    <3>1. LeftToRun(p)' = ttl + (2 * MaxDelay - 1) + MaxTries * MaxDelay
      BY <1>2, <1>3, <2>3 DEF LeftToRun
    <3>2. ttl <= age[p] + (IF lease.owner = p THEN lease.left ELSE 0)
      BY <2>3 DEF TtlIsRecent
    <3>. QED
      BY <1>2, <1>9, <2>1, <2>2, <3>1, <3>2, ConstantFacts
  <2>4. CASE release[p] > 0
    <3>1. LeftToRun(p)' \in Nat /\ LeftToRun(p)' <= MaxTries * MaxDelay
      <4>1. LeftToRun(p)' = release[p] * MaxDelay - deletion[p].age
        BY <1>2, <2>4 DEF LeftToRun
      <4>. QED
        BY <1>1, <2>4, <4>1, EachHasLeft DEF Sound, HasLeft
    <3>. QED
      BY <1>2, <1>9, <2>1, <2>2, <3>1, ConstantFacts
  <2>. QED
    BY <2>1, <2>3, <2>4
<1>12. RunIsBounded(p)'
  BY <1>3, <1>11 DEF RunIsBounded
<1>13. used' = 0 /\ Roomy => InTime(p)'
  <2>1. SUFFICES ASSUME used = 0, Roomy PROVE InTime(p)'
    BY <1>2
  <2>2. ttl = TTL /\ loop[p] = "acquiring" /\ call[p] = "ok" /\ InTime(p)
    BY <1>1, <2>1 DEF Sound
  <2>3. LeastLeft(p) = TTL - age[p]
    BY <2>2 DEF LeastLeft
  <2>4. /\ release[p] = 0 /\ lease.owner = p /\ current[p] /\ ~news[p]
        /\ lease.left >= TTL - age[p]
    BY <2>2, <2>3 DEF InTime
  <2>5. LeastLeft(p)' = TTL - MaxDelay - (After(TTL) - After(TTL))
    BY <1>3, <2>2 DEF LeastLeft
  <2>6. lease.left >= LeastLeft(p)'
    BY <1>1, <1>3, <2>4, <2>5, TypeFacts, ConstantFacts
  <2>. QED
    BY <1>2, <1>3, <1>4, <1>8, <2>2, <2>4, <2>6 DEF InTime
<1>. QED
  BY <1>6, <1>7, <1>10, <1>12, <1>13, StepOf DEF Sound, Roomy

LEMMA LeaseIsHeld == ASSUME Inv, NEW p \in Masters, Acquired(p) \/ AlreadyHeld(p) PROVE Inv'
<1>1. TypeOK /\ Sound(p)
  BY InvIs
<1>2. CASE Acquired(p)
  <2>1. TTL \in 0..TTL /\ TTL > 0
    BY ConstantFacts
  <2>. QED
    BY <1>1, <1>2, <2>1, StartHoldingSound DEF Acquired, Sound, RunIsBounded
<1>3. CASE AlreadyHeld(p)
  <2>1. held[p] \in 0..TTL /\ held[p] > 0 /\ (release[p] = 0 => TtlIsRecent(p, held[p]))
    BY <1>1, <1>3, TypeFacts DEF AlreadyHeld, Sound, RunIsBounded
  <2>2. ~(used = 0 /\ Roomy)
    BY <1>1, <1>3 DEF AlreadyHeld, Sound, InTime
  <2>. QED
    BY <1>3, <2>1, <2>2, StartHoldingSound DEF AlreadyHeld
<1>. QED
  BY <1>2, <1>3

\* The loop holds on, and has no more ticks left than before.
LEMMA HolderStep ==
    ASSUME Inv, NEW p \in Masters, Leading(p), Leading(p)', TypeOK',
           \A q \in Masters \ {p} : Apart(q), LoopIsSound(p)',
           UNCHANGED <<lease, release, deletion, started, over>>,
           LeftInLoop(p)' <= LeftInLoop(p), used' = 0 /\ Roomy => InTime(p)'
    PROVE  Inv'
<1>1. TypeOK /\ Sound(p) /\ LoopIsSound(p)
  BY InvIs DEF Sound
<1>2. started[p] = "lease"
  BY <1>1 DEF LoopIsSound
<1>3. release[p] \in Nat
  BY <1>1, TypeFacts
<1>4. LeftToRun(p) \in Nat /\ LeftToRun(p)' \in Nat
  BY <1>1, <1>3, EachHasLeft, EachHasLeftNext DEF HasLeft
<1>5. LeftToRun(p)' <= LeftToRun(p)
  <2>1. CASE release[p] > 0
    <3>1. LeftToRun(p)' = LeftToRun(p)
      BY <2>1 DEF LeftToRun
    <3>. QED
      BY <1>4, <3>1
  <2>2. CASE release[p] = 0
    <3>1. /\ LeftInLoop(p) \in Nat /\ LeftInLoop(p)' \in Nat
          /\ LeftToRun(p) = LeftInLoop(p) + MaxTries * MaxDelay
          /\ LeftToRun(p)' = LeftInLoop(p)' + MaxTries * MaxDelay
      BY <1>1, <2>2, EachHasLeft, EachHasLeftNext DEF HasLeft
    <3>. QED
      BY <3>1, TriesFacts
  <2>. QED
    BY <1>3, <2>1, <2>2
<1>6. over'[p] + LeftToRun(p)' <= Grace + (IF lease'.owner = p THEN lease'.left - 1 ELSE 0)
  BY <1>1, <1>2, <1>4, <1>5, BoundKept DEF Sound
<1>7. RunIsBounded(p)'
  BY <1>6 DEF RunIsBounded, Leading
<1>. QED
  BY <1>7, StepOf DEF Sound, Roomy

LEMMA BeginPollSound == ASSUME Inv, NEW p \in Masters, BeginPoll(p) PROVE Inv'
<1>1. TypeOK /\ Sound(p) /\ LoopIsSound(p)
  BY InvIs DEF Sound
<1>2. /\ loop[p] = "holding" /\ timer[p] = 0
      /\ UNCHANGED <<lease, current, news, held, lost, release, deletion, started, over, used>>
  BY DEF BeginPoll, leaseVars, stopVars
<1>3. /\ held[p] \in 0..TTL /\ held[p] > 0 /\ held[p] - After(held[p]) \in 0..TTL
      /\ After(held[p]) \in Nat /\ After(held[p]) < held[p]
  BY <1>1, <1>2, TypeFacts, AfterType, AfterFacts DEF LoopIsSound, Leading
<1>4. /\ Moves(p) /\ loop'[p] = "polling" /\ timer'[p] = held[p] - After(held[p])
      /\ call'[p] = "none" /\ age'[p] = 0
  BY <1>1, <1>3, GoFacts DEF BeginPoll, Places
<1>5. Leading(p) /\ Leading(p)'
  BY <1>2, <1>4 DEF Leading
<1>6. TypeOK'
  BY <1>1, <1>2, <1>4 DEF TypeOK, Moves, Places, Calls
<1>7. \A q \in Masters \ {p} : Apart(q)
  BY <1>2, <1>4 DEF Moves, Apart
<1>8. timer'[p] > 0 /\ timer'[p] <= held[p]
  BY <1>3, <1>4
<1>9. LoopIsSound(p)'
  BY <1>1, <1>2, <1>4, <1>5, <1>8 DEF LoopIsSound
<1>10. LeftInLoop(p)' <= LeftInLoop(p)
  <2>1. LeftInLoop(p)' = (held[p] - After(held[p])) + (2 * MaxDelay - 1)
    BY <1>4, <1>8, LeftByPlaceNext
  <2>2. LeftInLoop(p) = 0 + (held[p] - After(held[p])) + (2 * MaxDelay - 1)
    BY <1>2, LeftByPlace
  <2>. QED
    BY <1>3, <2>1, <2>2, ConstantFacts
<1>11. used' = 0 /\ Roomy => InTime(p)'
  <2>1. SUFFICES ASSUME used = 0, Roomy PROVE InTime(p)'
    BY <1>2
  <2>2. InTime(p)
    BY <1>1, <2>1 DEF Sound
  <2>3. LeastLeft(p) = TTL - MaxDelay - (After(TTL) - 0)
    BY <1>1, <1>2 DEF LeastLeft, LoopIsSound, InFlight
  <2>4. LeastLeft(p)' = TTL - MaxDelay - After(TTL)
    BY <1>4 DEF LeastLeft
  <2>5. LeastLeft(p)' = LeastLeft(p)
    BY <2>3, <2>4, ConstantFacts
  <2>. QED
    BY <1>2, <1>4, <1>5, <2>2, <2>5 DEF InTime
<1>. QED
  BY <1>2, <1>5, <1>6, <1>7, <1>9, <1>10, <1>11, HolderStep

LEMMA RenewSound == ASSUME Inv, NEW p \in Masters, Renew(p) PROVE Inv'
<1>1. TypeOK /\ Sound(p) /\ LoopIsSound(p)
  BY InvIs DEF Sound
<1>2. /\ loop[p] = "due" /\ call[p] = "none" /\ age[p] = 0 /\ timer[p] \in Nat
      /\ UNCHANGED <<lease, current, news, held, lost, release, deletion, started, over, used>>
  <2>1. timer[p] \in Nat
    BY <1>1, TypeFacts
  <2>. QED
    BY <1>1, <2>1 DEF Renew, LoopIsSound, InFlight, leaseVars, stopVars
<1>3. /\ Moves(p) /\ timer'[p] = timer[p] /\ call'[p] = "sent" /\ age'[p] = 0
      /\ loop'[p] = IF timer[p] > 0 THEN "renewing" ELSE "last_try"
  BY <1>1, SendFacts DEF Renew, Places, InFlight
<1>4. Leading(p) /\ Leading(p)'
  BY <1>2, <1>3 DEF Leading
<1>5. TypeOK'
  BY <1>1, <1>2, <1>3 DEF TypeOK, Moves, Places, Calls
<1>6. \A q \in Masters \ {p} : Apart(q)
  BY <1>2, <1>3 DEF Moves, Apart
<1>7. LoopIsSound(p)'
  BY <1>1, <1>2, <1>3, <1>4 DEF LoopIsSound, InFlight
<1>8. LeftInLoop(p)' <= LeftInLoop(p)
  <2>1. CASE timer[p] > 0
    <3>1. LeftInLoop(p)' = LeftInLoop(p) /\ LeftInLoop(p) = timer[p] + (2 * MaxDelay - 1)
      BY <1>2, <1>3, <2>1, LeftByPlace, LeftByPlaceNext
    <3>. QED
      BY <1>2, <3>1, ConstantFacts
  <2>2. CASE ~(timer[p] > 0)
    <3>1. LeftInLoop(p)' = MaxDelay - 0 /\ LeftInLoop(p) = MaxDelay
      BY <1>2, <1>3, <2>2, LeftByPlace, LeftByPlaceNext
    <3>. QED
      BY <3>1, ConstantFacts
  <2>. QED
    BY <2>1, <2>2
<1>9. used' = 0 /\ Roomy => InTime(p)'
  <2>1. SUFFICES ASSUME used = 0, Roomy PROVE InTime(p)'
    BY <1>2
  <2>2. InTime(p)
    BY <1>1, <2>1 DEF Sound
  <2>3. timer[p] > 0
    <3>1. timer[p] = TTL - After(TTL) - 1
      BY <1>2, <2>2 DEF InTime
    <3>. QED
      BY <2>1, <3>1, ConstantFacts DEF Roomy
  <2>4. LeastLeft(p)' = LeastLeft(p)
    BY <1>2, <1>3, <2>3 DEF LeastLeft
  <2>. QED
    BY <1>2, <1>3, <1>4, <2>2, <2>3, <2>4 DEF InTime
<1>. QED
  BY <1>2, <1>4, <1>5, <1>6, <1>7, <1>8, <1>9, HolderStep

LEMMA RenewedSound == ASSUME Inv, NEW p \in Masters, Renewed(p) PROVE Inv'
<1>1. TypeOK /\ Sound(p) /\ LoopIsSound(p)
  BY InvIs DEF Sound
<1>2. /\ loop[p] \in {"renewing", "last_try"} /\ call[p] = "ok" /\ Leading(p)
      /\ UNCHANGED <<lease, current, news, lost, release, deletion, started, over, used>>
  BY DEF Renewed, Leading, leaseVars, stopVars
<1>3. held[p] \in 0..TTL /\ held[p] > 0 /\ age[p] \in 0..MaxDelay /\ lease.left \in Nat
  <2>1. held[p] \in 0..TTL /\ age[p] \in 0..MaxDelay /\ lease.left \in 0..TTL
    BY <1>1, TypeFacts
  <2>2. held[p] > 0
    BY <1>1, <1>2 DEF LoopIsSound
  <2>. QED
    BY <2>1, <2>2, ConstantFacts
<1>4. /\ Moves(p)
      /\ loop'[p] = "holding" /\ timer'[p] = After(held[p]) /\ call'[p] = "none" /\ age'[p] = 0
      /\ held' \in [Masters -> 0..TTL] /\ held'[p] = held[p]
      /\ \A q \in Masters \ {p} : held'[q] = held[q]
      /\ After(held[p]) \in Nat /\ After(held[p]) < held[p]
      /\ LeftInLoop(p)' = held[p] + (2 * MaxDelay - 1)
  <2>1. PICK ttl \in 0..TTL : ttl = held[p]
    BY <1>3
  <2>. QED
    BY <1>1, <1>3, <2>1, HoldFacts DEF Renewed
<1>5. Leading(p)'
  BY <1>4 DEF Leading
<1>6. TypeOK'
  BY <1>1, <1>2, <1>4 DEF TypeOK, Moves, Places, Calls
<1>7. \A q \in Masters \ {p} : Apart(q)
  BY <1>2, <1>4 DEF Moves, Apart
<1>8. LoopIsSound(p)'
  <2>1. After(held[p]) <= held[p] /\ After(held[p]) <= After(held[p])
    BY <1>3, <1>4
  <2>. QED
    BY <1>1, <1>2, <1>4, <1>5, <2>1 DEF LoopIsSound
<1>9. LeftInLoop(p)' <= LeftInLoop(p)
  <2>1. LeftInLoop(p) = (MaxDelay - age[p]) + held[p] + (2 * MaxDelay - 1)
    BY <1>2, LeftByPlace
  <2>. QED
    BY <1>3, <1>4, <2>1, ConstantFacts
<1>10. used' = 0 /\ Roomy => InTime(p)'
  <2>1. SUFFICES ASSUME used = 0, Roomy PROVE InTime(p)'
    BY <1>2
  <2>2. InTime(p)
    BY <1>1, <2>1 DEF Sound
  <2>3. held[p] = TTL /\ lease.owner = p /\ LeastLeft(p) = TTL - age[p] /\ lease.left >= LeastLeft(p)
    BY <1>2, <2>2 DEF InTime, LeastLeft
  <2>4. LeastLeft(p)' = TTL - MaxDelay - (After(TTL) - After(TTL))
    BY <1>4, <2>3 DEF LeastLeft
  <2>5. lease.left >= LeastLeft(p)'
    BY <1>3, <2>3, <2>4, ConstantFacts
  <2>. QED
    BY <1>2, <1>4, <1>5, <2>2, <2>3, <2>5 DEF InTime
<1>. QED
  BY <1>2, <1>5, <1>6, <1>7, <1>8, <1>9, <1>10, HolderStep

\* etcd renews the lease, or tells p that it is not p's.
LEMMA EtcdRenewsSound == ASSUME Inv, NEW p \in Masters, EtcdRenews(p) PROVE Inv'
<1>1. TypeOK /\ Sound(p) /\ LoopIsSound(p)
  BY InvIs DEF Sound
<1>2. /\ loop[p] \in {"renewing", "last_try"} /\ call[p] = "sent" /\ Leading(p)
      /\ UNCHANGED <<news, loop, timer, age, held, lost, release, deletion, started, over, used>>
  BY DEF EtcdRenews, Leading, stopVars
<1>3. Leading(p)'
  BY <1>2 DEF Leading
<1>4. CASE MayRenew(p)
  <2>1. KeySet(p) /\ call' = [call EXCEPT ![p] = "ok"] /\ lease.owner = p /\ current[p]
    BY <1>4 DEF EtcdRenews, MayRenew
  <2>2. Moves(p) /\ call'[p] = "ok"
    BY <1>1, <1>2, <2>1, AnswerFacts DEF Calls
  <2>3. /\ lease' \in [owner : Masters \cup {Nobody, Gone}, left : 0..TTL]
        /\ lease'.owner = p /\ lease'.left = TTL /\ lease'.owner # Nobody
        /\ current' \in [Masters -> BOOLEAN] /\ current'[p]
    BY <1>1, <2>1, KeySetFacts
  <2>4. TypeOK'
    <3>1. lease'.owner = Nobody <=> lease'.left = 0
      BY <2>3, ConstantFacts
    <3>. QED
      BY <1>1, <1>2, <2>2, <2>3, <3>1 DEF TypeOK, Moves, Places, Calls
  <2>5. \A q \in Masters \ {p} : Apart(q)
    BY <1>2, <2>1, <2>2, <2>3 DEF Moves, Apart
  <2>6. over[p] = 0
    BY <1>1, <2>1, TypeFacts, ConstantFacts DEF LoopIsSound
  <2>7. LoopIsSound(p)'
    <3>1. over'[p] = 0
      BY <1>2, <2>6
    <3>. QED
      BY <1>1, <1>2, <1>3, <3>1 DEF LoopIsSound, InFlight
  <2>8. over'[p] + LeftToRun(p)' <= Grace + (IF lease'.owner = p THEN lease'.left - 1 ELSE 0)
    <3>1. /\ age[p] \in 0..MaxDelay /\ held[p] \in 0..TTL /\ release[p] \in 0..MaxTries
      BY <1>1, TypeFacts
    <3>2. MaxTries * MaxDelay \in Nat /\ Grace = 3 * MaxDelay + MaxTries * MaxDelay
      BY TriesFacts
    <3>3. LeftToRun(p)' \in Nat
      <4>1. release[p] = 0 \/ release[p] > 0
        BY <3>1
      <4>. QED
        BY <1>2, <1>3, <2>4, <2>7, <4>1, EachHasLeftNext DEF HasLeft
    <3>4. LeftToRun(p)' <= MaxTries * MaxDelay + 3 * MaxDelay + TTL - 1
      <4>1. CASE release[p] = 0
        <5>1. /\ LeftToRun(p)' = LeftInLoop(p)' + MaxTries * MaxDelay
              /\ LeftInLoop(p)' = (MaxDelay - age[p]) + held[p] + (2 * MaxDelay - 1)
          BY <1>2, <1>3, <2>2, <2>4, <2>7, <4>1, EachHasLeftNext, LeftByPlaceNext DEF HasLeft
        <5>. QED
          BY <3>1, <3>2, <5>1, ConstantFacts
      <4>2. CASE release[p] > 0
        <5>1. LeftToRun(p)' <= MaxTries * MaxDelay
          BY <1>2, <2>4, <2>7, <4>2, EachHasLeftNext DEF HasLeft
        <5>. QED
          BY <3>2, <3>3, <5>1, ConstantFacts
      <4>. QED
        BY <3>1, <4>1, <4>2
    <3>. QED
      <4>1. over'[p] = 0 /\ (IF lease'.owner = p THEN lease'.left - 1 ELSE 0) = TTL - 1
        BY <1>2, <2>3, <2>6
      <4>2. 0 + LeftToRun(p)' <= Grace + (TTL - 1)
        BY <3>2, <3>3, <3>4, ConstantFacts
      <4>. QED
        BY <4>1, <4>2
  <2>9. RunIsBounded(p)'
    BY <1>2, <2>8 DEF RunIsBounded
  <2>10. used' = 0 /\ Roomy => InTime(p)'
    <3>1. TTL >= TTL - age'[p]
      <4>1. age[p] \in Nat /\ age'[p] = age[p]
        <5>1. age[p] \in 0..MaxDelay
          BY <1>1, TypeFacts
        <5>. QED
          BY <1>2, <5>1, ConstantFacts
      <4>. QED
        BY <4>1, ConstantFacts
    <3>2. LeastLeft(p)' = TTL - age'[p]
      BY <2>2 DEF LeastLeft
    <3>3. used = 0 /\ Roomy => ~news[p]
      BY <1>1, <1>2, <2>1 DEF Sound, InTime
    <3>. QED
      BY <1>1, <1>2, <1>3, <2>2, <2>3, <3>1, <3>2, <3>3 DEF Sound, InTime
  <2>. QED
    BY <2>4, <2>5, <2>7, <2>9, <2>10, StepOf DEF Sound, Roomy
<1>5. CASE ~MayRenew(p)
  <2>1. call' = [call EXCEPT ![p] = "failed"] /\ UNCHANGED <<lease, current>>
    BY <1>5 DEF EtcdRenews
  <2>2. Moves(p) /\ call'[p] = "failed"
    BY <1>1, <1>2, <2>1, AnswerFacts DEF Calls
  <2>3. TypeOK'
    BY <1>1, <1>2, <2>1, <2>2 DEF TypeOK, Moves, Places, Calls
  <2>4. \A q \in Masters \ {p} : Apart(q)
    BY <1>2, <2>1, <2>2 DEF Moves, Apart
  <2>5. LoopIsSound(p)'
    BY <1>1, <1>2, <1>3, <2>1 DEF LoopIsSound, InFlight
  <2>6. LeftInLoop(p)' <= LeftInLoop(p)
    <3>1. LeftInLoop(p)' = LeftInLoop(p)
      BY <1>2, <2>2 DEF LeftInLoop
    <3>2. LeftInLoop(p) \in Nat
      BY <1>1, <1>2, EachHasLeft DEF HasLeft
    <3>. QED
      BY <3>1, <3>2
  <2>7. used' = 0 /\ Roomy => InTime(p)'
    BY <1>1, <1>2, <1>5 DEF Sound, InTime, MayRenew
  <2>. QED
    BY <1>2, <1>3, <2>1, <2>3, <2>4, <2>5, <2>6, <2>7, HolderStep
<1>. QED
  BY <1>4, <1>5

\* The watch of the holder reports, or misses, the end of the key.
LEMMA WatchSound == ASSUME Inv, NEW p \in Masters, WatchReports(p) \/ WatchMisses(p) PROVE Inv'
<1>1. TypeOK /\ Sound(p) /\ LoopIsSound(p)
  BY InvIs DEF Sound
<1>2. /\ Leading(p) /\ news[p] /\ news' = [news EXCEPT ![p] = FALSE]
      /\ UNCHANGED <<lease, current, loop, timer, call, age, held, release, deletion, started, over>>
  BY DEF WatchReports, WatchMisses, Leading, loopVars, stopVars
<1>3. used' \in 0..MaxFaults /\ (used' = 0 => used = 0)
  BY <1>1, FaultFacts DEF WatchReports, WatchMisses, TypeOK
<1>4. lost' \in [Masters -> BOOLEAN] /\ \A q \in Masters \ {p} : lost'[q] = lost[q]
  BY <1>1 DEF WatchReports, WatchMisses, TypeOK, loopVars
<1>5. news' \in [Masters -> BOOLEAN] /\ \A q \in Masters \ {p} : news'[q] = news[q]
  BY <1>1, <1>2 DEF TypeOK
<1>6. Leading(p)'
  BY <1>2 DEF Leading
<1>7. TypeOK'
  BY <1>1, <1>2, <1>3, <1>4, <1>5 DEF TypeOK
<1>8. \A q \in Masters \ {p} : Apart(q)
  BY <1>2, <1>3, <1>4, <1>5 DEF Apart
<1>9. LoopIsSound(p)'
  BY <1>1, <1>2, <1>6 DEF LoopIsSound
<1>10. LeftInLoop(p)' <= LeftInLoop(p)
  <2>1. LeftInLoop(p)' = LeftInLoop(p)
    BY <1>2 DEF LeftInLoop
  <2>2. LeftInLoop(p) \in Nat
    BY <1>1, <1>2, EachHasLeft DEF HasLeft
  <2>. QED
    BY <2>1, <2>2
<1>11. ~(used' = 0 /\ Roomy)
  BY <1>1, <1>2, <1>3 DEF Sound, InTime
<1>. QED
  BY <1>2, <1>6, <1>7, <1>8, <1>9, <1>10, <1>11, HolderStep

\* The loop gives the lease up: all the tries of Release are left, and no more.
LEMMA StopHoldingSound ==
    ASSUME Inv, NEW p \in Masters, Leading(p), StopHolding(p), current' \in [Masters -> BOOLEAN],
           \A q \in Masters \ {p} : current'[q] = current[q], used' \in 0..MaxFaults,
           used' = 0 => used = 0, ~(used' = 0 /\ Roomy)
    PROVE  Inv'
<1>1. TypeOK /\ Sound(p) /\ LoopIsSound(p)
  BY InvIs DEF Sound
<1>2. UNCHANGED <<lease, news, held, lost, started, over>>
  BY DEF StopHolding
<1>3. Moves(p) /\ loop'[p] = "ended" /\ timer'[p] = 0 /\ call'[p] = "none" /\ age'[p] = 0
  BY <1>1, GoFacts, ConstantFacts DEF StopHolding, Places
<1>4. /\ release' \in [Masters -> 0..MaxTries]
      /\ deletion' \in [Masters -> [at : {"none", "sent", "ok"}, age : 0..MaxDelay]]
      /\ \A q \in Masters \ {p} : release'[q] = release[q] /\ deletion'[q] = deletion[q]
      /\ release'[p] > 0 /\ deletion'[p].at # "none"
      /\ \/ release'[p] = release[p] /\ deletion'[p] = deletion[p]
         \/ release[p] = 0 /\ release'[p] = MaxTries /\ deletion'[p].age = 0
  <2>1. release[p] \in Nat
    BY <1>1, TypeFacts
  <2>2. CASE release[p] = 0
    BY <1>1, <2>2, BeginDeleteFacts, ConstantFacts DEF StopHolding
  <2>3. CASE release[p] # 0
    BY <1>1, <2>1, <2>3 DEF StopHolding, stopVars, TypeOK, LoopIsSound
  <2>. QED
    BY <2>2, <2>3
<1>5. TypeOK'
  BY <1>1, <1>2, <1>3, <1>4 DEF TypeOK, Moves, Places, Calls
<1>6. \A q \in Masters \ {p} : Apart(q)
  BY <1>2, <1>3, <1>4 DEF Moves, Apart
<1>7. ~Leading(p)' /\ started[p] = "lease"
  BY <1>1, <1>3 DEF Leading, LoopIsSound
<1>8. LoopIsSound(p)'
  BY <1>1, <1>2, <1>3, <1>4, <1>7 DEF LoopIsSound
<1>9. LeftToRun(p) \in Nat /\ LeftToRun(p)' \in Nat /\ LeftToRun(p)' <= LeftToRun(p)
  <2>1. release[p] \in Nat
    BY <1>1, TypeFacts
  <2>2. LeftToRun(p) \in Nat /\ LeftToRun(p)' \in Nat
    BY <1>1, <1>4, <1>5, <1>8, <2>1, EachHasLeft, EachHasLeftNext DEF HasLeft
  <2>3. CASE release'[p] = release[p] /\ deletion'[p] = deletion[p]
    <3>1. LeftToRun(p)' = LeftToRun(p)
      BY <1>4, <2>3 DEF LeftToRun
    <3>. QED
      BY <2>2, <3>1
  <2>4. CASE release[p] = 0 /\ release'[p] = MaxTries /\ deletion'[p].age = 0
    <3>1. /\ LeftInLoop(p) \in Nat /\ LeftToRun(p) = LeftInLoop(p) + MaxTries * MaxDelay
          /\ LeftToRun(p)' <= MaxTries * MaxDelay
      BY <1>1, <1>4, <1>5, <1>8, <2>4, EachHasLeft, EachHasLeftNext DEF HasLeft
    <3>. QED
      BY <2>2, <3>1, TriesFacts
  <2>. QED
    BY <1>4, <2>2, <2>3, <2>4
<1>10. over'[p] + LeftToRun(p)' <= Grace + (IF lease'.owner = p THEN lease'.left - 1 ELSE 0)
  BY <1>1, <1>2, <1>5, <1>7, <1>9, BoundKept DEF Sound
<1>11. RunIsBounded(p)'
  BY <1>3, <1>10 DEF RunIsBounded
<1>. QED
  BY <1>5, <1>6, <1>8, <1>11, StepOf DEF Sound, Roomy

LEMMA LeaseIsGivenUp == ASSUME Inv, NEW p \in Masters, SeesLost(p) \/ RenewalRefused(p) PROVE Inv'
<1>1. TypeOK /\ Sound(p)
  BY InvIs
<1>2. /\ Leading(p) /\ StopHolding(p) /\ UNCHANGED <<current, used>>
      /\ lost[p] \/ call[p] = "failed"
  BY DEF SeesLost, RenewalRefused, Leading
<1>3. ~(used' = 0 /\ Roomy)
  BY <1>1, <1>2 DEF Sound, InTime
<1>. QED
  BY <1>1, <1>2, <1>3, StopHoldingSound DEF TypeOK

\* The index p knows changes, and nobody else's.
IndexChanges(p) ==
    /\ current' \in [Masters -> BOOLEAN]
    /\ \A q \in Masters \ {p} : current'[q] = current[q]

\* A try fails, and the loop goes on with the next or gives up.
LEMMA TryAgainSound ==
    ASSUME Inv, NEW p \in Masters, loop[p] \in {"renewing", "last_try"}, TryAgain(p),
           IndexChanges(p), used' \in 0..MaxFaults /\ used' # 0
    PROVE  Inv'
<1>1. TypeOK /\ Sound(p) /\ LoopIsSound(p)
  BY InvIs DEF Sound
<1>2. Leading(p)
  BY DEF Leading
<1>3. CASE loop[p] = "last_try"
  BY <1>2, <1>3, StopHoldingSound DEF TryAgain, IndexChanges
<1>4. CASE loop[p] = "renewing"
  <2>1. UNCHANGED <<release, deletion, lease, news, held, lost, started, over>>
    BY <1>4 DEF TryAgain, stopVars
  <2>2. /\ timer[p] \in 0..TTL /\ timer[p] \in Nat /\ age[p] \in 0..MaxDelay
        /\ held[p] \in 0..TTL /\ held[p] > 0 /\ timer[p] <= held[p]
    <3>1. timer[p] \in 0..TTL /\ age[p] \in 0..MaxDelay /\ held[p] \in 0..TTL
      BY <1>1, TypeFacts
    <3>2. held[p] > 0 /\ timer[p] <= held[p]
      BY <1>1, <1>2 DEF LoopIsSound
    <3>3. timer[p] \in Nat
      BY <3>1, ConstantFacts
    <3>. QED
      BY <3>1, <3>2, <3>3
  <2>3. /\ Moves(p) /\ timer'[p] = timer[p] /\ call'[p] = "none" /\ age'[p] = 0
        /\ loop'[p] = IF timer[p] > 0 THEN "polling" ELSE "due"
    <3>1. PICK place \in {"polling", "due"} : place = IF timer[p] > 0 THEN "polling" ELSE "due"
      OBVIOUS
    <3>2. PICK ticks \in 0..TTL : ticks = timer[p]
      BY <2>2
    <3>3. Go(p, place, ticks)
      BY <1>4, <3>1, <3>2 DEF TryAgain
    <3>. QED
      BY <1>1, <3>1, <3>2, <3>3, GoFacts DEF Places
  <2>4. Leading(p)'
    BY <2>3 DEF Leading
  <2>5. TypeOK'
    BY <1>1, <2>1, <2>3 DEF TypeOK, Moves, Places, Calls, IndexChanges
  <2>6. \A q \in Masters \ {p} : Apart(q)
    BY <2>1, <2>3 DEF Moves, Apart, IndexChanges
  <2>7. LoopIsSound(p)'
    BY <1>1, <1>2, <2>1, <2>2, <2>3, <2>4 DEF LoopIsSound
  <2>8. LeftInLoop(p)' <= LeftInLoop(p)
    <3>1. CASE timer[p] > 0
      <4>1. LeftInLoop(p)' = timer[p] + (2 * MaxDelay - 1)
        BY <2>3, <3>1, LeftByPlaceNext
      <4>2. \/ LeftInLoop(p) = timer[p] + (2 * MaxDelay - 1)
            \/ LeftInLoop(p) = (MaxDelay - age[p]) + held[p] + (2 * MaxDelay - 1)
        BY <1>4, <3>1, LeftByPlace
      <4>3. timer[p] + (2 * MaxDelay - 1) <= timer[p] + (2 * MaxDelay - 1)
            /\ timer[p] + (2 * MaxDelay - 1) <= (MaxDelay - age[p]) + held[p] + (2 * MaxDelay - 1)
        BY <2>2, TimeAssumption
      <4>. QED
        BY <4>1, <4>2, <4>3
    <3>2. CASE ~(timer[p] > 0)
      <4>1. LeftInLoop(p)' = MaxDelay
        BY <2>3, <3>2, LeftByPlaceNext
      <4>2. \/ LeftInLoop(p) = 2 * MaxDelay - age[p]
            \/ LeftInLoop(p) = (MaxDelay - age[p]) + held[p] + (2 * MaxDelay - 1)
        BY <1>4, <3>2, LeftByPlace
      <4>3. MaxDelay <= 2 * MaxDelay - age[p]
            /\ MaxDelay <= (MaxDelay - age[p]) + held[p] + (2 * MaxDelay - 1)
        BY <2>2, TimeAssumption
      <4>. QED
        BY <4>1, <4>2, <4>3
    <3>. QED
      BY <3>1, <3>2
  <2>. QED
    BY <1>2, <2>1, <2>4, <2>5, <2>6, <2>7, <2>8, HolderStep
<1>. QED
  BY <1>3, <1>4

LEMMA RenewalErrs == ASSUME Inv, NEW p \in Masters, RenewalFails(p) \/ EtcdErrs(p) PROVE Inv'
<1>1. TypeOK
  BY DEF Inv
<1>2. loop[p] \in {"renewing", "last_try"} /\ TryAgain(p) /\ used' \in 0..MaxFaults /\ used' # 0
  BY <1>1, FaultFacts DEF RenewalFails, EtcdErrs
<1>3. current \in [Masters -> BOOLEAN]
  BY <1>1 DEF TypeOK
<1>4. PICK match \in BOOLEAN : current' = [current EXCEPT ![p] = match]
  <2>1. CASE RenewalFails(p)
    <3>1. (current[p] /\ call[p] = "sent") \in BOOLEAN
      OBVIOUS
    <3>. QED
      BY <2>1, <3>1 DEF RenewalFails
  <2>2. CASE EtcdErrs(p)
    BY <2>2 DEF EtcdErrs
  <2>. QED
    BY <2>1, <2>2
<1>5. current' \in [Masters -> BOOLEAN] /\ \A q \in Masters \ {p} : current'[q] = current[q]
  BY <1>3, <1>4
<1>. QED
  BY <1>2, <1>5, TryAgainSound DEF IndexChanges

-------------------------------------------------------------------------------
(* Release, the plug and the process *)

\* Release makes its call, for the first time or again: the controllers run no longer
\* than they did.
LEMMA ReleaseGoesOn ==
    ASSUME Inv, NEW p \in Masters, NEW tries \in 1..MaxTries, BeginDelete(p, tries),
           \/ release[p] = 0 /\ tries = MaxTries
           \/ release[p] = tries + 1,
           UNCHANGED <<leaseVars, loopVars, started, over>>, used' \in 0..MaxFaults, used' # 0
    PROVE  Inv'
<1>1. TypeOK /\ Sound(p) /\ LoopIsSound(p)
  BY InvIs DEF Sound
<1>2. UNCHANGED <<lease, current, news, loop, timer, call, age, held, lost, started, over>>
  BY DEF leaseVars, loopVars
<1>3. tries \in 0..MaxTries /\ tries > 0
  BY ConstantFacts
<1>4. /\ release' \in [Masters -> 0..MaxTries]
      /\ deletion' \in [Masters -> [at : {"none", "sent", "ok"}, age : 0..MaxDelay]]
      /\ release'[p] = tries /\ deletion'[p].at = "sent" /\ deletion'[p].age = 0
      /\ \A q \in Masters \ {p} : release'[q] = release[q] /\ deletion'[q] = deletion[q]
  BY <1>1, <1>3, BeginDeleteFacts
<1>5. TypeOK'
  BY <1>1, <1>2, <1>4 DEF TypeOK
<1>6. \A q \in Masters \ {p} : Apart(q)
  BY <1>2, <1>4 DEF Apart
<1>7. Leading(p)' <=> Leading(p)
  BY <1>2 DEF Leading
<1>8. LoopIsSound(p)'
  BY <1>1, <1>2, <1>3, <1>4, <1>7 DEF LoopIsSound
<1>9. ASSUME started[p] = "lease"
      PROVE  over'[p] + LeftToRun(p)' <= Grace + (IF lease'.owner = p THEN lease'.left - 1 ELSE 0)
  <2>1. /\ LeftToRun(p)' \in Nat /\ LeftToRun(p)' = tries * MaxDelay - deletion'[p].age
        /\ LeftToRun(p)' <= MaxTries * MaxDelay
    BY <1>3, <1>4, <1>5, <1>8, EachHasLeftNext DEF HasLeft
  <2>2. CASE release[p] = 0
    <3>1. /\ LeftInLoop(p) \in Nat /\ LeftToRun(p) = LeftInLoop(p) + MaxTries * MaxDelay
          /\ LeftToRun(p) \in Nat
      BY <1>1, <1>9, <2>2, EachHasLeft DEF HasLeft, LoopIsSound
    <3>2. LeftToRun(p)' <= LeftToRun(p)
      BY <2>1, <3>1, TriesFacts
    <3>. QED
      BY <1>1, <1>2, <1>5, <1>9, <2>1, <3>1, <3>2, BoundKept DEF Sound
  <2>3. CASE release[p] = tries + 1
    <3>1. release[p] \in 1..MaxTries /\ release[p] > 0
      BY <1>1, <1>3, <2>3, TypeFacts
    <3>2. LeftToRun(p) \in Nat /\ LeftToRun(p) = release[p] * MaxDelay - deletion[p].age
      BY <1>1, <3>1, EachHasLeft DEF HasLeft
    <3>3. (release[p] - 1) * MaxDelay = release[p] * MaxDelay - MaxDelay
          /\ release[p] * MaxDelay \in Nat
      BY <3>1, TriesFacts
    <3>4. LeftToRun(p)' = release[p] * MaxDelay - MaxDelay
      <4>1. release[p] - 1 = tries
        BY <2>3
      <4>2. tries * MaxDelay = release[p] * MaxDelay - MaxDelay
        BY <3>3, <4>1
      <4>. QED
        BY <1>4, <2>1, <3>3, <4>2, ConstantFacts
    <3>5. deletion[p].age \in 0..MaxDelay
      BY <1>1, TypeFacts
    <3>6. LeftToRun(p)' <= LeftToRun(p)
      BY <3>2, <3>3, <3>4, <3>5, ConstantFacts
    <3>. QED
      BY <1>1, <1>2, <1>5, <1>9, <2>1, <3>2, <3>6, BoundKept DEF Sound
  <2>. QED
    BY <2>2, <2>3
<1>10. RunIsBounded(p)'
  <2>1. release'[p] # 0
    BY <1>3, <1>4
  <2>2. loop[p] = "reading" /\ call[p] = "own" => held[p] > 0
    BY <1>1 DEF Sound, RunIsBounded
  <2>. QED
    BY <1>2, <1>9, <2>1, <2>2 DEF RunIsBounded
<1>. QED
  BY <1>5, <1>6, <1>8, <1>10, StepOf DEF Sound, Roomy

\* The process is gone, and with it all it knew.
LEMMA EndsSound ==
    ASSUME Inv, NEW p \in Masters, Ends(p), used' \in 0..MaxFaults, used' = 0 => used = 0,
           ~(used' = 0 /\ Roomy)
    PROVE  Inv'
<1>1. TypeOK
  BY DEF Inv
<1>2. Moves(p) /\ loop'[p] = "down" /\ timer'[p] = 0 /\ call'[p] = "none" /\ age'[p] = 0
  <2>1. "down" \in Places /\ 0 \in 0..TTL /\ Go(p, "down", 0)
    BY ConstantFacts DEF Ends, Places
  <2>. QED
    BY <1>1, <2>1, GoFacts
<1>3. /\ held' \in [Masters -> 0..TTL] /\ release' \in [Masters -> 0..MaxTries]
      /\ over' \in [Masters -> 0..(Grace + 1)] /\ release'[p] = 0 /\ over'[p] = 0
      /\ \A q \in Masters \ {p} :
           held'[q] = held[q] /\ release'[q] = release[q] /\ over'[q] = over[q]
  BY <1>1, ConstantFacts DEF Ends, TypeOK
<1>4. /\ deletion' \in [Masters -> [at : {"none", "sent", "ok"}, age : 0..MaxDelay]]
      /\ deletion'[p].at = "none"
      /\ \A q \in Masters \ {p} : deletion'[q] = deletion[q]
  <2>1. NoCall \in [at : {"none", "sent", "ok"}, age : 0..MaxDelay] /\ NoCall.at = "none"
    BY ConstantFacts DEF NoCall
  <2>. QED
    BY <1>1, <2>1 DEF Ends, TypeOK
<1>5. /\ lost' \in [Masters -> BOOLEAN] /\ news' \in [Masters -> BOOLEAN]
      /\ current' \in [Masters -> BOOLEAN]
      /\ \A q \in Masters \ {p} :
           lost'[q] = lost[q] /\ news'[q] = news[q] /\ current'[q] = current[q]
  BY <1>1 DEF Ends, TypeOK
<1>6. /\ started' \in [Masters -> {"no", "lease", "hand"}] /\ started'[p] = "no"
      /\ \A q \in Masters \ {p} : started'[q] = started[q]
  BY <1>1 DEF Ends, TypeOK
<1>7. /\ lease' \in [owner : Masters \cup {Nobody, Gone}, left : 0..TTL]
      /\ lease'.left = lease.left /\ (lease'.owner = Nobody <=> lease.owner = Nobody)
      /\ \A q \in Masters \ {p} : lease'.owner = q <=> lease.owner = q
  <2>1. CASE lease.owner = p
    <3>1. lease' = [lease EXCEPT !.owner = Gone]
      BY <2>1 DEF Ends
    <3>. QED
      BY <1>1, <2>1, <3>1, OwnerAssumption DEF TypeOK
  <2>2. CASE lease.owner # p
    BY <1>1, <2>2 DEF Ends, TypeOK
  <2>. QED
    BY <2>1, <2>2
<1>8. TypeOK'
  BY <1>1, <1>2, <1>3, <1>4, <1>5, <1>6, <1>7 DEF TypeOK, Moves, Places, Calls
<1>9. \A q \in Masters \ {p} : Apart(q)
  BY <1>2, <1>3, <1>4, <1>5, <1>6, <1>7 DEF Moves, Apart
<1>10. LoopIsSound(p)'
  BY <1>2, <1>3, <1>4, <1>6 DEF LoopIsSound, Leading
<1>11. RunIsBounded(p)'
  BY <1>2, <1>6 DEF RunIsBounded
<1>. QED
  BY <1>8, <1>9, <1>10, <1>11, StepOf DEF Sound, Roomy

LEMMA ProcessEnds ==
    ASSUME Inv, NEW p \in Masters, Released(p) \/ Crash(p)
    PROVE  Inv'
<1>1. TypeOK /\ Sound(p)
  BY InvIs
<1>2. CASE Released(p)
  <2>1. release[p] > 0 /\ used' = used /\ Ends(p)
    BY <1>1, <1>2 DEF Released, Sound, LoopIsSound
  <2>2. ~(used' = 0 /\ Roomy)
    BY <1>1, <2>1 DEF Sound, InTime
  <2>. QED
    BY <1>1, <2>1, <2>2, EndsSound DEF TypeOK
<1>3. CASE Crash(p)
  <2>1. Ends(p) /\ used' \in 0..MaxFaults /\ used' # 0
    BY <1>1, <1>3, FaultFacts DEF Crash
  <2>. QED
    BY <2>1, EndsSound
<1>. QED
  BY <1>2, <1>3

LEMMA ReleaseBegins ==
    ASSUME Inv, NEW p \in Masters, StopRequest(p) \/ ReleaseFails(p)
    PROVE  Inv'
<1>1. TypeOK
  BY DEF Inv
<1>2. used' \in 0..MaxFaults /\ used' # 0
  BY <1>1, FaultFacts DEF StopRequest, ReleaseFails
<1>3. CASE StopRequest(p)
  <2>1. MaxTries \in 1..MaxTries
    BY ConstantFacts
  <2>. QED
    BY <1>2, <1>3, <2>1, ReleaseGoesOn DEF StopRequest
<1>4. CASE ReleaseFails(p)
  <2>1. release[p] \in 0..MaxTries
    BY <1>1, TypeFacts
  <2>2. CASE release[p] = 1
    BY <1>2, <1>4, <2>2, EndsSound DEF ReleaseFails
  <2>3. CASE release[p] # 1
    <3>1. PICK tries \in 1..MaxTries : tries = release[p] - 1
      BY <1>4, <2>1, <2>3, ConstantFacts DEF ReleaseFails
    <3>2. release[p] = tries + 1
      BY <2>1, <3>1
    <3>3. BeginDelete(p, tries) /\ UNCHANGED <<leaseVars, loopVars, started, over>>
      BY <1>4, <2>3, <3>1 DEF ReleaseFails
    <3>. QED
      BY <1>2, <3>2, <3>3, ReleaseGoesOn
  <2>. QED
    BY <2>2, <2>3
<1>. QED
  BY <1>3, <1>4

LEMMA StartRequestSound == ASSUME Inv, NEW p \in Masters, StartRequest(p) PROVE Inv'
<1>1. TypeOK /\ Sound(p) /\ LoopIsSound(p)
  BY InvIs DEF Sound
<1>2. /\ loop[p] # "down" /\ started[p] = "no"
      /\ UNCHANGED <<lease, current, news, loop, timer, call, age, held, lost, release, deletion,
                     over>>
  BY DEF StartRequest, leaseVars, loopVars, stopVars
<1>3. used' \in 0..MaxFaults /\ used' # 0
  BY <1>1, FaultFacts DEF StartRequest
<1>4. /\ started' \in [Masters -> {"no", "lease", "hand"}] /\ started'[p] = "hand"
      /\ \A q \in Masters \ {p} : started'[q] = started[q]
  BY <1>1 DEF StartRequest, TypeOK
<1>5. ~Leading(p) /\ ~Leading(p)'
  BY <1>1, <1>2 DEF LoopIsSound, Leading
<1>6. TypeOK'
  BY <1>1, <1>2, <1>3, <1>4 DEF TypeOK
<1>7. \A q \in Masters \ {p} : Apart(q)
  BY <1>2, <1>3, <1>4 DEF Apart
<1>8. LoopIsSound(p)'
  BY <1>1, <1>2, <1>4, <1>5 DEF LoopIsSound
<1>9. RunIsBounded(p)'
  <2>1. /\ TtlIsRecent(p, TTL)' <=> TtlIsRecent(p, TTL)
        /\ TtlIsRecent(p, held[p])' <=> TtlIsRecent(p, held[p])
    BY <1>2 DEF TtlIsRecent
  <2>. QED
    BY <1>1, <1>2, <1>4, <2>1 DEF Sound, RunIsBounded
<1>. QED
  BY <1>3, <1>6, <1>7, <1>8, <1>9, StepOf DEF Sound, Roomy

\* etcd deletes the key for a leader that stops: its controllers run on without it.
LEMMA EtcdDeletesSound == ASSUME Inv, NEW p \in Masters, EtcdDeletes(p) PROVE Inv'
<1>1. TypeOK /\ Sound(p) /\ LoopIsSound(p)
  BY InvIs DEF Sound
<1>2. /\ deletion[p].at = "sent"
      /\ UNCHANGED <<loop, timer, call, age, held, lost, release, started, over, used>>
  BY DEF EtcdDeletes, loopVars
<1>3. release[p] > 0 /\ release[p] # 0
  BY <1>1, <1>2, TypeFacts DEF LoopIsSound
<1>4. deletion[p] \in [at : {"none", "sent", "ok"}, age : 0..MaxDelay]
  BY <1>1 DEF TypeOK
<1>5. /\ deletion' \in [Masters -> [at : {"none", "sent", "ok"}, age : 0..MaxDelay]]
      /\ deletion'[p].at = "ok" /\ deletion'[p].age = deletion[p].age
      /\ \A q \in Masters \ {p} : deletion'[q] = deletion[q]
  BY <1>1, <1>4 DEF EtcdDeletes, TypeOK
<1>6. /\ lease' \in [owner : Masters \cup {Nobody, Gone}, left : 0..TTL]
      /\ lease'.owner = Nobody <=> lease'.left = 0
      /\ current' \in [Masters -> BOOLEAN] /\ news' \in [Masters -> BOOLEAN]
      /\ \/ lease.owner = p /\ lease'.owner = Nobody
         \/ lease.owner # p /\ UNCHANGED <<lease, current, news>>
  <2>1. CASE MayDelete(p)
    BY <2>1, KeyEndsFacts DEF EtcdDeletes, MayDelete
  <2>2. CASE ~MayDelete(p)
    BY <1>1, <2>2 DEF EtcdDeletes, MayDelete, TypeOK, leaseVars
  <2>. QED
    BY <2>1, <2>2
<1>7. TypeOK'
  BY <1>1, <1>2, <1>5, <1>6 DEF TypeOK
<1>8. \A q \in Masters \ {p} : Apart(q)
  BY <1>2, <1>5, <1>6, OwnerAssumption DEF Apart
<1>9. Leading(p)' <=> Leading(p)
  BY <1>2 DEF Leading
<1>10. lease'.owner = p => lease.owner = p
  BY <1>6, OwnerAssumption
<1>11. LoopIsSound(p)'
  BY <1>1, <1>2, <1>3, <1>5, <1>9, <1>10 DEF LoopIsSound
<1>12. ASSUME started[p] = "lease"
       PROVE  over'[p] + LeftToRun(p)' <= Grace + (IF lease'.owner = p THEN lease'.left - 1 ELSE 0)
  <2>1. LeftToRun(p) \in Nat /\ LeftToRun(p) <= MaxTries * MaxDelay
    BY <1>1, <1>3, EachHasLeft DEF HasLeft
  <2>2. LeftToRun(p)' = LeftToRun(p)
    BY <1>2, <1>3, <1>5 DEF LeftToRun
  <2>3. CASE lease.owner = p /\ lease'.owner = Nobody
    <3>1. over[p] = 0
      BY <1>1, <2>3, TypeFacts, ConstantFacts DEF LoopIsSound
    <3>2. 0 + LeftToRun(p) <= Grace + 0
      BY <2>1, TriesFacts, TimeAssumption
    <3>. QED
      BY <1>2, <2>2, <2>3, <3>1, <3>2, OwnerAssumption
  <2>4. CASE lease.owner # p /\ UNCHANGED <<lease, current, news>>
    BY <1>1, <1>2, <1>12, <2>2, <2>4 DEF Sound, RunIsBounded
  <2>. QED
    BY <1>6, <2>3, <2>4
<1>13. RunIsBounded(p)'
  <2>1. loop[p] = "reading" /\ call[p] = "own" => held[p] > 0
    BY <1>1 DEF Sound, RunIsBounded
  <2>. QED
    BY <1>2, <1>3, <1>12, <2>1 DEF RunIsBounded
<1>14. ~(used' = 0 /\ Roomy)
  BY <1>1, <1>2, <1>3 DEF Sound, InTime
<1>. QED
  BY <1>7, <1>8, <1>11, <1>13, <1>14, StepOf DEF Sound, Roomy

-------------------------------------------------------------------------------
(* Time *)

\* The lease runs out, or is a tick shorter.
LEMMA LeaseTicks ==
    ASSUME TypeOK, Tick
    PROVE  /\ lease' \in [owner : Masters \cup {Nobody, Gone}, left : 0..TTL]
           /\ lease'.owner = Nobody <=> lease'.left = 0
           /\ current' \in [Masters -> BOOLEAN] /\ news' \in [Masters -> BOOLEAN]
           /\ \A p \in Masters :
                /\ lease'.owner = p =>
                     /\ lease.owner = p /\ lease'.left = lease.left - 1
                     /\ current'[p] = current[p] /\ news'[p] = news[p]
                /\ lease.owner = p /\ lease'.owner # p => lease.left = 1
<1>1. /\ lease \in [owner : Masters \cup {Nobody, Gone}, left : 0..TTL]
      /\ lease.owner = Nobody <=> lease.left = 0
      /\ current \in [Masters -> BOOLEAN] /\ news \in [Masters -> BOOLEAN]
      /\ lease.left \in 0..TTL
  BY DEF TypeOK
<1>2. CASE lease.left = 1
  <2>1. KeyEnds
    BY <1>2 DEF Tick
  <2>. QED
    BY <1>2, <2>1, KeyEndsFacts, OwnerAssumption
<1>3. CASE lease.left # 1
  <2>1. lease' = [lease EXCEPT !.left = Less(lease.left)] /\ UNCHANGED <<current, news>>
    BY <1>3 DEF Tick
  <2>2. Less(lease.left) \in 0..TTL /\ (Less(lease.left) = 0 <=> lease.left = 0)
    BY <1>1, <1>3, ConstantFacts DEF Less
  <2>3. /\ lease'.owner = lease.owner /\ lease'.left = Less(lease.left)
        /\ lease' \in [owner : Masters \cup {Nobody, Gone}, left : 0..TTL]
    BY <1>1, <2>1, <2>2
  <2>4. lease.left # 0 => lease'.left = lease.left - 1
    BY <1>1, <2>3 DEF Less
  <2>. QED
    BY <1>1, <2>1, <2>2, <2>3, <2>4, OwnerAssumption
<1>. QED
  BY <1>2, <1>3

\* What a tick does to p, which is waiting for it.
LEMMA TickOf ==
    ASSUME TypeOK, Tick, NEW p \in Masters
    PROVE  /\ loop[p] # "due" /\ loop'[p] = IF loop[p] = "polling" THEN "due" ELSE loop[p]
           /\ timer[p] \in 0..TTL /\ timer'[p] = IF timer[p] > 0 THEN timer[p] - 1 ELSE 0
           /\ loop[p] \in {"pausing", "holding"} => timer[p] > 0
           /\ age[p] \in 0..MaxDelay
           /\ loop[p] \in InFlight => age[p] < MaxDelay /\ age'[p] = age[p] + 1
           /\ loop[p] \notin InFlight => age'[p] = 0
           /\ deletion[p].age \in 0..MaxDelay /\ deletion'[p].at = deletion[p].at
           /\ release[p] > 0 =>
                deletion[p].age < MaxDelay /\ deletion'[p].age = deletion[p].age + 1
           /\ over'[p] = Overrun(p)
           /\ UNCHANGED <<call, held, lost, release, started, used>>
<1>1. Waits(p)
  BY DEF Tick
<1>2. timer[p] \in 0..TTL /\ age[p] \in 0..MaxDelay /\ deletion[p].age \in 0..MaxDelay
  BY TypeFacts
<1>3. deletion[p] \in [at : {"none", "sent", "ok"}, age : 0..MaxDelay]
  BY TypeFacts
<1>4. /\ loop'[p] = AtTick(loop[p]) /\ timer'[p] = Less(timer[p])
      /\ age'[p] = IF loop[p] \in InFlight THEN age[p] + 1 ELSE 0
      /\ deletion'[p] = IF release[p] > 0
                        THEN [deletion[p] EXCEPT !.age = deletion[p].age + 1] ELSE deletion[p]
      /\ over'[p] = Overrun(p)
      /\ UNCHANGED <<call, held, lost, release, started, used>>
  BY DEF Tick
<1>5. deletion'[p].at = deletion[p].at
  BY <1>3, <1>4
<1>6. release[p] > 0 => deletion'[p].age = deletion[p].age + 1
  BY <1>3, <1>4
<1>. QED
  BY <1>1, <1>2, <1>4, <1>5, <1>6 DEF Waits, AtTick, Less

LEMMA TickTypes == ASSUME Inv, Tick PROVE TypeOK'
<1>1. TypeOK
  BY DEF Inv
<1>2. ASSUME NEW p \in Masters
      PROVE  /\ AtTick(loop[p]) \in Places /\ Less(timer[p]) \in 0..TTL
             /\ (IF loop[p] \in InFlight THEN age[p] + 1 ELSE 0) \in 0..MaxDelay
             /\ (IF release[p] > 0
                 THEN [deletion[p] EXCEPT !.age = @ + 1] ELSE deletion[p])
                  \in [at : {"none", "sent", "ok"}, age : 0..MaxDelay]
             /\ Overrun(p) \in 0..(Grace + 1)
  <2>1. /\ loop[p] \in Places /\ timer[p] \in 0..TTL /\ age[p] \in 0..MaxDelay
        /\ deletion[p] \in [at : {"none", "sent", "ok"}, age : 0..MaxDelay]
        /\ over[p] \in 0..(Grace + 1) /\ Waits(p)
    BY <1>1, TypeFacts DEF TypeOK, Places, Tick
  <2>2. AtTick(loop[p]) \in Places
    BY <2>1 DEF AtTick, Places
  <2>3. Less(timer[p]) \in 0..TTL
    BY <2>1, ConstantFacts DEF Less
  <2>4. (IF loop[p] \in InFlight THEN age[p] + 1 ELSE 0) \in 0..MaxDelay
    BY <2>1, ConstantFacts DEF Waits
  <2>5. (IF release[p] > 0 THEN [deletion[p] EXCEPT !.age = @ + 1] ELSE deletion[p])
          \in [at : {"none", "sent", "ok"}, age : 0..MaxDelay]
    <3>1. release[p] > 0 => deletion[p].age + 1 \in 0..MaxDelay
      BY <2>1, ConstantFacts DEF Waits
    <3>. QED
      BY <2>1, <3>1
  <2>6. Overrun(p) \in 0..(Grace + 1)
    BY <2>1, ConstantFacts DEF Overrun
  <2>. QED
    BY <2>2, <2>3, <2>4, <2>5, <2>6
<1>3. /\ loop' \in [Masters -> Places] /\ timer' \in [Masters -> 0..TTL]
      /\ age' \in [Masters -> 0..MaxDelay]
      /\ deletion' \in [Masters -> [at : {"none", "sent", "ok"}, age : 0..MaxDelay]]
      /\ over' \in [Masters -> 0..(Grace + 1)]
  BY <1>2 DEF Tick
<1>4. UNCHANGED <<call, held, lost, release, started, used>>
  BY DEF Tick
<1>. QED
  BY <1>1, <1>3, <1>4, LeaseTicks DEF TypeOK, Places

LEMMA TickLoop == ASSUME Inv, Tick, NEW p \in Masters PROVE LoopIsSound(p)'
<1>1. TypeOK /\ LoopIsSound(p)
  BY InvIs DEF Sound
<1>2. Leading(p)' <=> Leading(p)
  BY <1>1, TickOf DEF Leading
<1>3. over'[p] > 0 => started'[p] = "lease" /\ lease'.owner # p
  BY <1>1, TickOf DEF Overrun
<1>4. Leading(p)' => held'[p] > 0 /\ timer'[p] <= held'[p]
  <2>1. held[p] \in 0..TTL /\ timer[p] \in 0..TTL
    BY <1>1, TypeFacts
  <2>2. Leading(p) => held[p] > 0 /\ timer[p] <= held[p]
    BY <1>1 DEF LoopIsSound
  <2>. QED
    BY <1>1, <1>2, <2>1, <2>2, ConstantFacts, TickOf
<1>5. loop'[p] = "holding" => timer'[p] <= After(held'[p])
  <2>1. held[p] \in 0..TTL /\ timer[p] \in 0..TTL
    BY <1>1, TypeFacts
  <2>2. loop[p] = "holding" => After(held[p]) \in Nat /\ timer[p] <= After(held[p])
    BY <1>1, <2>1, AfterFacts DEF LoopIsSound, Leading
  <2>3. loop'[p] = "holding" => loop[p] = "holding"
    BY <1>1, TickOf
  <2>. QED
    BY <1>1, <2>1, <2>2, <2>3, ConstantFacts, TickOf
<1>6. loop'[p] \notin InFlight => call'[p] = "none" /\ age'[p] = 0
  <2>1. loop[p] \in InFlight => loop'[p] \in InFlight
    BY <1>1, TickOf DEF InFlight
  <2>. QED
    BY <1>1, <2>1, TickOf DEF LoopIsSound
<1>7. /\ started'[p] = "lease" => Leading(p)' \/ loop'[p] = "ended"
      /\ Leading(p)' => started'[p] = "lease"
      /\ loop'[p] = "ended" => release'[p] > 0
      /\ deletion'[p].at # "none" <=> release'[p] > 0
      /\ loop'[p] # "polling"
  BY <1>1, <1>2, TickOf DEF LoopIsSound
<1>. QED
  BY <1>3, <1>4, <1>5, <1>6, <1>7 DEF LoopIsSound

\* A tick is one of the ticks that were left.
LEMMA TickTakesOne ==
    ASSUME Inv, Tick, NEW p \in Masters, started[p] = "lease"
    PROVE  /\ LeftToRun(p) \in Nat /\ LeftToRun(p)' \in Nat
           /\ LeftToRun(p)' <= LeftToRun(p) - 1
<1>1. TypeOK /\ LoopIsSound(p) /\ TypeOK' /\ LoopIsSound(p)'
  BY InvIs, TickTypes, TickLoop DEF Sound
<1>2. release[p] \in Nat /\ release'[p] = release[p] /\ started'[p] = "lease"
  BY <1>1, TypeFacts, TickOf
<1>3. CASE release[p] > 0
  <2>1. /\ LeftToRun(p) \in Nat /\ LeftToRun(p) = release[p] * MaxDelay - deletion[p].age
        /\ LeftToRun(p)' \in Nat /\ LeftToRun(p)' = release'[p] * MaxDelay - deletion'[p].age
    BY <1>1, <1>2, <1>3, EachHasLeft, EachHasLeftNext DEF HasLeft
  <2>2. deletion'[p].age = deletion[p].age + 1 /\ deletion[p].age \in Nat
    BY <1>1, <1>3, TickOf, ConstantFacts
  <2>3. release[p] * MaxDelay \in Nat
    BY <1>1, <1>3, TypeFacts, TriesFacts
  <2>. QED
    BY <1>2, <2>1, <2>2, <2>3
<1>4. CASE release[p] = 0
  <2>1. Leading(p) /\ Leading(p)'
    BY <1>1, <1>2, <1>4 DEF LoopIsSound
  <2>2. /\ LeftInLoop(p) \in Nat /\ LeftInLoop(p)' \in Nat
        /\ LeftToRun(p) = LeftInLoop(p) + MaxTries * MaxDelay /\ LeftToRun(p) \in Nat
        /\ LeftToRun(p)' = LeftInLoop(p)' + MaxTries * MaxDelay /\ LeftToRun(p)' \in Nat
    BY <1>1, <1>2, <1>4, <2>1, EachHasLeft, EachHasLeftNext DEF HasLeft
  <2>3. /\ timer[p] \in Nat /\ age[p] \in Nat /\ held[p] \in Nat /\ After(held[p]) \in Nat
        /\ MaxDelay \in Nat /\ MaxDelay > 0 /\ held'[p] = held[p] /\ call'[p] = call[p]
    <3>1. timer[p] \in 0..TTL /\ age[p] \in 0..MaxDelay /\ held[p] \in 0..TTL
      BY <1>1, TypeFacts
    <3>2. held'[p] = held[p] /\ call'[p] = call[p]
      BY <1>1, TickOf
    <3>3. After(held[p]) \in 0..TTL
      BY <3>1, AfterType
    <3>. QED
      BY <3>1, <3>2, <3>3, ConstantFacts
  <2>4. LeftInLoop(p)' <= LeftInLoop(p) - 1
    <3>1. CASE loop[p] = "holding"
      <4>1. timer[p] > 0 /\ loop'[p] = "holding" /\ timer'[p] = timer[p] - 1
        BY <1>1, <3>1, TickOf
      <4>2. /\ LeftInLoop(p) = timer[p] + (held[p] - After(held[p])) + (2 * MaxDelay - 1)
            /\ LeftInLoop(p)' = (timer[p] - 1) + (held[p] - After(held[p])) + (2 * MaxDelay - 1)
        BY <2>3, <3>1, <4>1, LeftByPlace, LeftByPlaceNext
      <4>. QED
        BY <2>3, <4>2
    <3>2. CASE loop[p] \in {"renewing", "last_try"} /\ call[p] = "ok"
      <4>1. loop'[p] = loop[p] /\ age'[p] = age[p] + 1
        BY <1>1, <3>2, TickOf DEF InFlight
      <4>2. /\ LeftInLoop(p) = (MaxDelay - age[p]) + held[p] + (2 * MaxDelay - 1)
            /\ LeftInLoop(p)' = (MaxDelay - (age[p] + 1)) + held[p] + (2 * MaxDelay - 1)
        BY <2>3, <3>2, <4>1, LeftByPlace, LeftByPlaceNext
      <4>. QED
        BY <2>3, <4>2
    <3>3. CASE loop[p] = "last_try" /\ call[p] # "ok"
      <4>1. loop'[p] = loop[p] /\ age'[p] = age[p] + 1
        BY <1>1, <3>3, TickOf DEF InFlight
      <4>2. LeftInLoop(p) = MaxDelay - age[p] /\ LeftInLoop(p)' = MaxDelay - (age[p] + 1)
        BY <2>3, <3>3, <4>1, LeftByPlace, LeftByPlaceNext
      <4>. QED
        BY <2>3, <4>2
    <3>4. CASE loop[p] = "renewing" /\ call[p] # "ok"
      <4>1. loop'[p] = loop[p] /\ age'[p] = age[p] + 1
        BY <1>1, <3>4, TickOf DEF InFlight
      <4>2. CASE timer[p] > 0
        <5>1. timer'[p] = timer[p] - 1
          BY <1>1, <4>2, TickOf
        <5>2. LeftInLoop(p) = timer[p] + (2 * MaxDelay - 1)
          BY <3>4, <4>2, LeftByPlace
        <5>3. \/ LeftInLoop(p)' = (timer[p] - 1) + (2 * MaxDelay - 1)
              \/ LeftInLoop(p)' = 2 * MaxDelay - (age[p] + 1)
          BY <2>3, <3>4, <4>1, <5>1, LeftByPlaceNext
        <5>. QED
          BY <2>3, <4>2, <5>2, <5>3
      <4>3. CASE ~(timer[p] > 0)
        <5>1. ~(timer'[p] > 0)
          BY <1>1, <4>3, TickOf
        <5>2. /\ LeftInLoop(p) = 2 * MaxDelay - age[p]
              /\ LeftInLoop(p)' = 2 * MaxDelay - (age[p] + 1)
          BY <2>3, <3>4, <4>1, <4>3, <5>1, LeftByPlace, LeftByPlaceNext
        <5>. QED
          BY <2>3, <5>2
      <4>. QED
        BY <4>2, <4>3
    <3>5. CASE loop[p] = "polling"
      <4>1. timer[p] > 0 /\ loop'[p] = "due" /\ timer'[p] = timer[p] - 1
        BY <1>1, <3>5, TickOf DEF LoopIsSound
      <4>2. LeftInLoop(p) = timer[p] + (2 * MaxDelay - 1)
        BY <3>5, <4>1, LeftByPlace
      <4>3. \/ LeftInLoop(p)' = (timer[p] - 1) + (2 * MaxDelay - 1)
            \/ LeftInLoop(p)' = MaxDelay
        BY <4>1, LeftByPlaceNext
      <4>. QED
        BY <2>3, <4>1, <4>2, <4>3
    <3>6. loop[p] # "due"
      BY <1>1, TickOf
    <3>. QED
      BY <2>1, <3>1, <3>2, <3>3, <3>4, <3>5, <3>6 DEF Leading
  <2>. QED
    BY <2>2, <2>4, TriesFacts
<1>. QED
  BY <1>2, <1>3, <1>4

LEMMA TickBounded == ASSUME Inv, Tick, NEW p \in Masters PROVE RunIsBounded(p)'
<1>1. TypeOK /\ Sound(p)
  BY InvIs
<1>2. /\ age[p] \in 0..MaxDelay /\ held[p] \in 0..TTL /\ lease.left \in 0..TTL
      /\ over[p] \in 0..(Grace + 1) /\ (lease.owner = p => lease.left > 0)
  BY <1>1, TypeFacts
<1>3. /\ lease'.owner = p => lease.owner = p /\ lease'.left = lease.left - 1
      /\ lease.owner = p /\ lease'.owner # p => lease.left = 1
  BY <1>1, LeaseTicks
<1>4. ASSUME NEW ttl \in 0..TTL, loop[p] \in InFlight, TtlIsRecent(p, ttl)
      PROVE  ttl <= age'[p] + (IF lease'.owner = p THEN lease'.left ELSE 0)
  <2>1. age'[p] = age[p] + 1
    BY <1>1, <1>4, TickOf
  <2>2. ttl <= age[p] + (IF lease.owner = p THEN lease.left ELSE 0)
    BY <1>4 DEF TtlIsRecent
  <2>. QED
    BY <1>2, <1>3, <2>1, <2>2, ConstantFacts
<1>5. loop'[p] = "acquiring" /\ call'[p] = "ok" /\ release'[p] = 0 => TtlIsRecent(p, TTL)'
  <2>1. SUFFICES ASSUME loop'[p] = "acquiring", call'[p] = "ok", release'[p] = 0
                 PROVE  TtlIsRecent(p, TTL)'
    OBVIOUS
  <2>2. loop[p] = "acquiring" /\ call[p] = "ok" /\ release[p] = 0 /\ loop[p] \in InFlight
    BY <1>1, <2>1, TickOf DEF InFlight
  <2>3. TtlIsRecent(p, TTL)
    BY <1>1, <2>2 DEF Sound, RunIsBounded
  <2>4. TTL \in 0..TTL
    BY ConstantFacts
  <2>. QED
    BY <1>4, <2>2, <2>3, <2>4 DEF TtlIsRecent
<1>6. loop'[p] = "reading" /\ call'[p] = "own" =>
        held'[p] > 0 /\ (release'[p] = 0 => TtlIsRecent(p, held[p])')
  <2>1. SUFFICES ASSUME loop'[p] = "reading", call'[p] = "own"
                 PROVE  held'[p] > 0 /\ (release'[p] = 0 => TtlIsRecent(p, held[p])')
    OBVIOUS
  <2>2. /\ loop[p] = "reading" /\ call[p] = "own" /\ loop[p] \in InFlight
        /\ held'[p] = held[p] /\ release'[p] = release[p]
    BY <1>1, <2>1, TickOf DEF InFlight
  <2>3. held[p] > 0 /\ (release[p] = 0 => TtlIsRecent(p, held[p]))
    BY <1>1, <2>2 DEF Sound, RunIsBounded
  <2>4. release[p] = 0 => held[p] <= age'[p] + (IF lease'.owner = p THEN lease'.left ELSE 0)
    BY <1>2, <1>4, <2>2, <2>3
  <2>. QED
    BY <2>2, <2>3, <2>4 DEF TtlIsRecent
<1>7. started'[p] = "lease" =>
        over'[p] + LeftToRun(p)' <= Grace + (IF lease'.owner = p THEN lease'.left - 1 ELSE 0)
  <2>1. SUFFICES ASSUME started[p] = "lease"
                 PROVE  over'[p] + LeftToRun(p)' <=
                          Grace + (IF lease'.owner = p THEN lease'.left - 1 ELSE 0)
    BY <1>1, TickOf
  <2>2. LeftToRun(p) \in Nat /\ LeftToRun(p)' \in Nat /\ LeftToRun(p)' <= LeftToRun(p) - 1
    BY <2>1, TickTakesOne
  <2>3. over[p] + LeftToRun(p) <= Grace + (IF lease.owner = p THEN lease.left - 1 ELSE 0)
    BY <1>1, <2>1 DEF Sound, RunIsBounded
  <2>4. over[p] > 0 => lease.owner # p
    BY <1>1 DEF Sound, LoopIsSound
  <2>5. over'[p] = IF lease'.owner # p THEN (IF over[p] > Grace THEN over[p] ELSE over[p] + 1)
                   ELSE 0
    BY <1>1, <2>1, TickOf DEF Overrun
  <2>6. over[p] \in Nat /\ lease.left \in Nat /\ Grace \in Nat
    BY <1>2, ConstantFacts
  <2>7. CASE lease'.owner = p
    BY <1>3, <2>2, <2>3, <2>4, <2>5, <2>6, <2>7
  <2>8. CASE lease'.owner # p /\ lease.owner = p
    BY <1>3, <2>2, <2>3, <2>4, <2>5, <2>6, <2>8
  <2>9. CASE lease'.owner # p /\ lease.owner # p
    BY <2>2, <2>3, <2>5, <2>6, <2>9
  <2>. QED
    BY <2>7, <2>8, <2>9
<1>. QED
  BY <1>5, <1>6, <1>7 DEF RunIsBounded

\* When nothing fails the lease never runs out: a tick takes one of what is left of it, and
\* the renewal is due in time.
LEMMA TickInTime == ASSUME Inv, Tick, NEW p \in Masters, used' = 0, Roomy PROVE InTime(p)'
<1>1. TypeOK /\ LoopIsSound(p) /\ InTime(p)
  <2>1. used = 0
    BY DEF Tick
  <2>. QED
    BY <2>1, InvIs DEF Sound
<1>2. Leading(p)' <=> Leading(p)
  BY <1>1, TickOf DEF Leading
<1>3. /\ age[p] \in Nat /\ timer[p] \in Nat /\ lease.left \in Nat
      /\ TTL \in Nat /\ MaxDelay \in Nat /\ After(TTL) \in Nat
  <2>1. age[p] \in 0..MaxDelay /\ timer[p] \in 0..TTL /\ lease.left \in 0..TTL
    BY <1>1, TypeFacts
  <2>. QED
    BY <2>1, ConstantFacts
<1>4. ASSUME lease.owner = p
      PROVE  LeastLeft(p) \in Int /\ LeastLeft(p) >= 2 /\ LeastLeft(p)' = LeastLeft(p) - 1
  <2>1. Leading(p) \/ (loop[p] = "acquiring" /\ call[p] = "ok")
    BY <1>1, <1>4 DEF InTime
  <2>2. After(TTL) + 1 + 2 * MaxDelay < TTL
    BY DEF Roomy
  <2>3. CASE call[p] = "ok"
    <3>1. loop[p] \in InFlight
      BY <1>1, <2>3 DEF LoopIsSound
    <3>2. age[p] < MaxDelay /\ age'[p] = age[p] + 1 /\ call'[p] = "ok"
      BY <1>1, <2>3, <3>1, TickOf
    <3>3. LeastLeft(p) = TTL - age[p] /\ LeastLeft(p)' = TTL - (age[p] + 1)
      BY <2>3, <3>2 DEF LeastLeft
    <3>. QED
      BY <1>3, <2>2, <3>2, <3>3
  <2>4. CASE loop[p] = "holding"
    <3>1. /\ timer[p] > 0 /\ timer'[p] = timer[p] - 1 /\ loop'[p] = "holding"
          /\ call[p] = "none" /\ call'[p] = "none"
      BY <1>1, <2>4, TickOf DEF LoopIsSound, InFlight
    <3>2. /\ LeastLeft(p) = TTL - MaxDelay - (After(TTL) - timer[p])
          /\ LeastLeft(p)' = TTL - MaxDelay - (After(TTL) - (timer[p] - 1))
      BY <2>4, <3>1 DEF LeastLeft
    <3>. QED
      BY <1>3, <2>2, <3>1, <3>2
  <2>5. CASE loop[p] = "polling"
    <3>1. /\ loop'[p] = "due" /\ age'[p] = 0 /\ call[p] = "none" /\ call'[p] = "none"
      BY <1>1, <2>5, TickOf DEF LoopIsSound, InFlight
    <3>2. /\ LeastLeft(p) = TTL - MaxDelay - After(TTL)
          /\ LeastLeft(p)' = TTL - MaxDelay - After(TTL) - 1 - 0
      BY <2>5, <3>1 DEF LeastLeft
    <3>. QED
      BY <1>3, <2>2, <3>2
  <2>6. CASE loop[p] = "renewing" /\ call[p] # "ok"
    <3>1. /\ loop'[p] = "renewing" /\ age[p] < MaxDelay /\ age'[p] = age[p] + 1
          /\ call'[p] # "ok"
      BY <1>1, <2>6, TickOf DEF InFlight
    <3>2. /\ LeastLeft(p) = TTL - MaxDelay - After(TTL) - 1 - age[p]
          /\ LeastLeft(p)' = TTL - MaxDelay - After(TTL) - 1 - (age[p] + 1)
      BY <2>6, <3>1 DEF LeastLeft
    <3>. QED
      BY <1>3, <2>2, <3>1, <3>2
  <2>7. loop[p] # "due" /\ loop[p] # "last_try"
    BY <1>1, TickOf DEF InTime
  <2>. QED
    BY <2>1, <2>3, <2>4, <2>5, <2>6, <2>7 DEF Leading
<1>5. lease'.owner = p <=> lease.owner = p
  BY <1>1, <1>3, <1>4, LeaseTicks DEF InTime
<1>6. lease'.owner = p => current'[p] /\ ~news'[p] /\ lease'.left >= LeastLeft(p)'
  <2>1. SUFFICES ASSUME lease'.owner = p
                 PROVE  current'[p] /\ ~news'[p] /\ lease'.left >= LeastLeft(p)'
    OBVIOUS
  <2>2. lease.owner = p /\ lease'.left = lease.left - 1 /\ current'[p] = current[p]
        /\ news'[p] = news[p]
    BY <1>1, <2>1, LeaseTicks
  <2>3. current[p] /\ ~news[p] /\ lease.left >= LeastLeft(p)
    BY <1>1, <2>2 DEF InTime
  <2>4. lease'.left >= LeastLeft(p)'
    BY <1>3, <1>4, <2>2, <2>3
  <2>. QED
    BY <2>2, <2>3, <2>4
<1>7. /\ loop'[p] # "polling"
      /\ loop'[p] = "due" => timer'[p] = TTL - After(TTL) - 1
  <2>1. loop'[p] = "due" => loop[p] = "polling" /\ timer[p] > 0 /\ timer[p] = TTL - After(TTL)
    BY <1>1, TickOf DEF LoopIsSound, InTime
  <2>. QED
    BY <1>1, <1>3, <2>1, TickOf
<1>8. /\ release'[p] = 0 /\ loop'[p] \notin {"ended", "down", "last_try"}
      /\ loop'[p] = "acquiring" <=> loop[p] = "acquiring"
      /\ loop'[p] = "reading" => call'[p] # "own"
      /\ UNCHANGED <<call, held, lost>>
  BY <1>1, TickOf DEF InTime
<1>. QED
  BY <1>1, <1>2, <1>5, <1>6, <1>7, <1>8 DEF InTime

LEMMA TickSound == ASSUME Inv, Tick PROVE Inv'
<1>1. \A p \in Masters : used' = 0 /\ Roomy => InTime(p)'
  BY TickInTime
<1>. QED
  BY <1>1, InvIsNext, TickTypes, TickLoop, TickBounded DEF Sound, Roomy

-------------------------------------------------------------------------------
(* The invariant and what follows from it *)

LEMMA Stutters == ASSUME Inv, UNCHANGED vars PROVE Inv'
<1>1. \A q \in Masters : Apart(q)
  BY DEF vars, leaseVars, loopVars, stopVars, Apart
<1>2. TypeOK'
  BY DEF Inv, TypeOK, vars, leaseVars, loopVars, stopVars
<1>. QED
  BY <1>1, <1>2, InvIs, InvIsNext, OthersSound

LEMMA Inductive == Inv /\ [Next]_vars => Inv'
<1> SUFFICES ASSUME Inv, [Next]_vars PROVE Inv'
  OBVIOUS
<1>1. CASE Tick
  BY <1>1, TickSound
<1>2. ASSUME NEW p \in Masters, AcquireStep(p) PROVE Inv'
  BY <1>2, AcquireSound, EtcdCreatesSound, LeaseIsHeld, ReadKeySound, EtcdReadsSound,
     CandidatesGo DEF AcquireStep
<1>3. ASSUME NEW p \in Masters, HoldStep(p) PROVE Inv'
  BY <1>3, LeaseIsGivenUp, BeginPollSound, RenewSound, EtcdRenewsSound, RenewedSound DEF HoldStep
<1>4. ASSUME NEW p \in Masters, WatchReports(p) PROVE Inv'
  BY <1>4, WatchSound
<1>5. ASSUME NEW p \in Masters, StopStep(p) PROVE Inv'
  BY <1>5, EtcdDeletesSound, ProcessEnds, CandidatesGo DEF StopStep
<1>6. ASSUME NEW p \in Masters, Fault(p) PROVE Inv'
  BY <1>6, AcquireFailsSound, WatchSound, RenewalErrs, ReleaseBegins, StartRequestSound,
     ProcessEnds DEF Fault
<1>7. CASE UNCHANGED vars
  BY <1>7, Stutters
<1>. QED
  BY <1>1, <1>2, <1>3, <1>4, <1>5, <1>6, <1>7 DEF Next

LEMMA InvAlways == Spec => []Inv
BY Initially, Inductive, PTL DEF Spec

\* Every variable keeps its type; the observer of a leader without a lease counts to the
\* grace of OverlapIsBounded and one more.
THEOREM TypeCorrect == Spec => []TypeOK
<1>1. Inv => TypeOK
  BY DEF Inv
<1>. QED
  BY <1>1, InvAlways, PTL

\* Where every loop is, the ticks it has left and the lease agree at all times: the
\* argument for the two theorems below, as a property of the code in AcquireAndHold, tryHold and
\* Release.
THEOREM LeasesSound == Spec => []LeasesAreSound
<1>1. Inv => LeasesAreSound
  BY DEF Inv
<1>. QED
  BY <1>1, InvAlways, PTL

\* However calls are delayed and lost, processes die and leases are given up, a master
\* that was elected runs the controllers of plug.go for no more than Grace ticks
\* after its lease has ended, for every ttl, delay, number of masters and of faults.
THEOREM OverlapBounded == Spec => []OverlapIsBounded
<1>1. ASSUME Inv PROVE OverlapIsBounded
  <2> SUFFICES ASSUME NEW p \in Masters PROVE over[p] <= Grace
    BY DEF OverlapIsBounded
  <2>1. TypeOK /\ Sound(p)
    BY <1>1, InvIs
  <2>2. over[p] \in 0..(Grace + 1) /\ release[p] \in 0..MaxTries
    BY <2>1, TypeFacts
  <2>3. CASE over[p] > 0
    <3>1. /\ started[p] = "lease" /\ lease.owner # p
          /\ Leading(p) \/ release[p] > 0
      BY <2>1, <2>3 DEF Sound, LoopIsSound
    <3>2. over[p] + LeftToRun(p) <= Grace
      <4>1. over[p] + LeftToRun(p) <= Grace + 0
        BY <2>1, <3>1 DEF Sound, RunIsBounded
      <4>2. Grace + 0 = Grace
        BY ConstantFacts
      <4>. QED
        BY <4>1, <4>2
    <3>3. LeftToRun(p) \in Nat
      BY <2>1, <2>2, <3>1, EachHasLeft DEF Sound, HasLeft
    <3>. QED
      BY <2>2, <3>2, <3>3, ConstantFacts
  <2>4. CASE ~(over[p] > 0)
    BY <2>2, <2>4, ConstantFacts
  <2>. QED
    BY <2>3, <2>4
<1>. QED
  BY <1>1, InvAlways, PTL

\* When nothing fails, is stopped by hand or dies, and the delays leave room for a renewal, a
\* leader that tryHold keeps has the lease at all times.
THEOREM OnlyFaults == Spec => []OnlyFaultsEndALease
<1>1. ASSUME Inv PROVE OnlyFaultsEndALease
  <2>1. ASSUME used = 0, Roomy, NEW p \in Masters, started[p] = "lease"
        PROVE  lease.owner = p
    <3>1. LoopIsSound(p) /\ InTime(p)
      BY <1>1, <2>1, InvIs DEF Sound
    <3>. QED
      BY <2>1, <3>1 DEF LoopIsSound, InTime
  <2>. QED
    BY <2>1 DEF OnlyFaultsEndALease, Roomy
<1>. QED
  BY <1>1, InvAlways, PTL
===============================================================================
