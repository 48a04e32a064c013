---------------------------- MODULE Rollouts_proofs ----------------------------
(***************************************************************************)
(* Theorems about Rollouts: its types, and that the deployment config       *)
(* controller ends only what is superseded and scales up only what is       *)
(* complete, from two caches that may both be old.                          *)
(***************************************************************************)
EXTENDS Rollouts, FiniteSetTheorems, SequenceTheorems, WellFoundedInduction, TLAPS

USE DEF Versions

-------------------------------------------------------------------------------
(* Highest and lowest versions *)

LEMMA LeastExists ==
    ASSUME NEW n \in Nat, NEW S, S \subseteq 0..n, S # {}
    PROVE  \E i \in S : \A j \in S : i <= j
<1>. DEFINE All == SUBSET (0..n)
            Below == {0..i : i \in S}
<1>1. FiniteSubsetsOf(0..n) = All
  <2>1. IsFiniteSet(0..n)
    BY FS_Interval
  <2>. QED
    BY <2>1, FS_FiniteSubsetsOfFinite
<1>2. IsWellFoundedOn(StrictSubsetOrdering(0..n), All)
  BY <1>1, FS_StrictSubsetOrderingWellFounded
<1>3. Below \subseteq All /\ Below # {}
  <2>1. \A i \in S : 0..i \subseteq 0..n
    OBVIOUS
  <2>. QED
    BY <2>1
<1>4. PICK x \in Below : \A y \in Below : <<y, x>> \notin StrictSubsetOrdering(0..n)
  <2>. HIDE DEF All, Below
  <2>. QED
    BY <1>2, <1>3, WFMin
<1>5. PICK i \in S : x = 0..i
  BY <1>4
<1>6. ASSUME NEW j \in S, ~(i <= j)
      PROVE  FALSE
  <2>1. 0..j \in Below /\ 0..j \in All /\ 0..i \in All
    BY <1>3
  <2>2. 0..j \subseteq 0..i /\ i \in 0..i /\ i \notin 0..j
    BY <1>6
  <2>3. <<0..j, 0..i>> \in StrictSubsetOrdering(0..n)
    BY <2>1, <2>2 DEF StrictSubsetOrdering
  <2>. QED
    BY <1>4, <1>5, <2>1, <2>3
<1>. QED
  BY <1>6

LEMMA MaxIsNat == MaxVersion \in Nat
  BY ConfigsAssumption

\* The highest of some versions is one of them, and none is higher.
LEMMA HighestIsOne ==
    ASSUME NEW S, S \subseteq Versions, S # {}
    PROVE  HighestOf(S) \in S /\ \A w \in S : w <= HighestOf(S)
<1>. DEFINE T == {MaxVersion - v : v \in S}
<1>1. T \subseteq 0..MaxVersion /\ T # {}
  BY MaxIsNat
<1>2. PICK i \in T : \A j \in T : i <= j
  <2>. HIDE DEF T
  <2>. QED
    BY <1>1, MaxIsNat, LeastExists
<1>3. PICK v \in S : i = MaxVersion - v
  BY <1>2
<1>4. \A w \in S : w <= v
  <2>. SUFFICES ASSUME NEW w \in S PROVE w <= v
    OBVIOUS
  <2>1. i <= MaxVersion - w
    BY <1>2
  <2>2. v \in Int /\ w \in Int /\ MaxVersion \in Int
    BY MaxIsNat
  <2>. QED
    BY <1>3, <2>1, <2>2
<1>. QED
  BY <1>4 DEF HighestOf

LEMMA LowestIsOne ==
    ASSUME NEW S, S \subseteq Versions, S # {}
    PROVE  (CHOOSE v \in S : \A w \in S : v <= w) \in S
<1>1. S \subseteq 0..MaxVersion
  BY MaxIsNat
<1>2. \E i \in S : \A j \in S : i <= j
  BY <1>1, MaxIsNat, LeastExists
<1>. QED
  BY <1>2

\* The active deployment is a complete one, or there is none.
LEMMA ActiveIsComplete ==
    ASSUME NEW view, DOMAIN view = Versions
    PROVE  \/ ActiveVersion(view) = 0
           \/ ActiveVersion(view) \in Versions /\ view[ActiveVersion(view)].phase = "Complete"
<1>1. CompleteVersions(view) \subseteq Versions
  BY DEF CompleteVersions
<1>2. CASE CompleteVersions(view) = {}
  BY <1>2 DEF ActiveVersion
<1>3. CASE CompleteVersions(view) # {}
  <2>1. HighestOf(CompleteVersions(view)) \in CompleteVersions(view)
    BY <1>1, <1>3, HighestIsOne
  <2>. QED
    BY <1>1, <1>3, <2>1 DEF ActiveVersion, CompleteVersions
<1>. QED
  BY <1>2, <1>3

\* Nothing that is pruned is the latest version, or newer than the config.
LEMMA PrunedIsBehind ==
    ASSUME NEW view, DOMAIN view = Versions, NEW config, config.lv \in Nat,
           \A v \in Versions : Exists(view[v]) => v <= config.lv,
           NEW v \in ToPrune(config, view)
    PROVE  v \in Versions /\ Exists(view[v]) /\ v < config.lv
<1>1. v \in DeploymentsForCleanup(config.lv, view)
  BY DEF ToPrune, Prunable
<1>2. v \in Versions /\ Exists(view[v])
  BY <1>1 DEF DeploymentsForCleanup, Existing, Exists
<1>3. v \in Int
  BY <1>2, MaxIsNat
<1>4. CASE ActiveVersion(view) = 0
  <2>1. v # config.lv
    BY <1>1, <1>4 DEF DeploymentsForCleanup
  <2>. QED
    BY <1>2, <1>3, <2>1
<1>5. CASE ActiveVersion(view) # 0
  <2>1. v < ActiveVersion(view)
    BY <1>1, <1>5 DEF DeploymentsForCleanup
  <2>2. ActiveVersion(view) \in Versions /\ Exists(view[ActiveVersion(view)])
    BY <1>5, ActiveIsComplete DEF Exists
  <2>3. ActiveVersion(view) \in Int /\ ActiveVersion(view) <= config.lv
    BY <2>2, MaxIsNat
  <2>. QED
    BY <1>2, <1>3, <2>1, <2>3
<1>. QED
  BY <1>4, <1>5

-------------------------------------------------------------------------------
(* Types *)

LEMMA Constants ==
    /\ SomeTemplate \in Templates /\ NoRc \in Deployment
    /\ NoRcs \in [Versions -> Deployment] /\ NoConfig \in Config /\ NoWork \in Work
    /\ ~Exists(NoRc) /\ 0 \in 0..MaxVersion
<1>1. SomeTemplate \in Templates
  BY ConfigsAssumption DEF SomeTemplate
<1>2. NoRc \in Deployment /\ ~Exists(NoRc)
  BY <1>1 DEF NoRc, Deployment, RcPhases, Exists
<1>3. NoRcs \in [Versions -> Deployment]
  BY <1>2 DEF NoRcs
<1>4. NoConfig \in Config /\ 0 \in 0..MaxVersion
  BY <1>1, MaxIsNat DEF NoConfig, Config, Progress
<1>5. NoWork \in Work
  BY <1>3, <1>4 DEF NoWork, Work, Steps, Progress
<1>. QED
  BY <1>1, <1>2, <1>3, <1>4, <1>5

LEMMA MadeIsDeployment ==
    ASSUME NEW t \in Templates
    PROVE  NewRc(t) \in Deployment /\ Exists(NewRc(t)) /\ NewRc(t).phase = "New"
                                  /\ NewRc(t).replicas = 0 /\ ~NewRc(t).cancelled
  BY DEF NewRc, Deployment, RcPhases, Exists

LEMMA StoreDcTypes ==
    ASSUME StoreTypeOK, NEW c \in Config, StoreDc(c)
    PROVE  dc' \in Config /\ dcEvents' \in Seq(Config) /\ upToDate' \subseteq Holders
  BY AppendProperties DEF StoreTypeOK, StoreDc

LEMMA StoreRcTypes ==
    ASSUME StoreTypeOK, NEW v \in Versions, NEW o \in Deployment, StoreRc(v, o)
    PROVE  /\ rc' \in [Versions -> Deployment]
           /\ rcEvents' \in Seq([key : Versions, object : Deployment])
  BY AppendProperties DEF StoreTypeOK, StoreRc

LEMMA SpendTypes ==
    ASSUME StoreTypeOK, NEW limit \in LimitNames, Spend(limit)
    PROVE  spent' \in [LimitNames -> Nat]
<1>1. spent \in [LimitNames -> Nat] /\ "total" \in LimitNames
  BY DEF StoreTypeOK, LimitNames
<1>. QED
  BY <1>1 DEF Spend

LEMMA BumpedTypes ==
    ASSUME StoreTypeOK, dc.lv < MaxVersion
    PROVE  Bumped \in Config /\ dc.lv <= Bumped.lv
<1>1. dc.lv \in 0..MaxVersion /\ dc \in Config
  BY DEF StoreTypeOK, Config
<1>2. dc.lv + 1 \in 0..MaxVersion
  BY <1>1, MaxIsNat
<1>3. Bumped \in Config
  BY <1>1, <1>2 DEF Bumped, Config
<1>4. Bumped.lv = dc.lv + 1
  BY <1>1 DEF Bumped, Config
<1>. QED
  BY <1>1, <1>3, <1>4

-------------------------------------------------------------------------------
(* What a step does to each of the objects *)

\* The config: nothing, a write that takes no version back, a delivery, a restart.
ConfigStep ==
    \/ UNCHANGED <<dc, dcEvents, dcCache>>
    \/ dcCache' = dcCache /\ \E c \in Config : dc.lv <= c.lv /\ StoreDc(c)
    \/ /\ dcEvents # <<>>
       /\ dcCache' = Head(dcEvents) /\ dcEvents' = Tail(dcEvents) /\ dc' = dc
    \/ dcCache' = dc /\ dcEvents' = <<>> /\ dc' = dc

\* A write of a deployment makes none but the version the worker is to create, and a
\* complete one is only taken away by a user or when it is pruned.
MayStore(v, o) ==
    /\ Exists(o) /\ ~Exists(rc[v]) =>
         work.step = "create" /\ v = work.config.lv /\ o.phase = "New"
    /\ Limits["removals"] = 0 /\ rc[v].phase = "Complete" =>
         \/ o.phase = "Complete"
         \/ ~Exists(o) /\ v < work.config.lv /\ work'.step # "create"

RcStep ==
    \/ UNCHANGED <<rc, rcEvents, rcCache>>
    \/ /\ rcCache' = rcCache
       /\ \E v \in Versions, o \in Deployment : StoreRc(v, o) /\ MayStore(v, o)
    \/ /\ rcEvents # <<>>
       /\ rcCache' = [rcCache EXCEPT ![Head(rcEvents).key] = Head(rcEvents).object]
       /\ rcEvents' = Tail(rcEvents) /\ rc' = rc
    \/ rcCache' = rc /\ rcEvents' = <<>> /\ rc' = rc

\* The worker: nothing, an end, a beginning, a call.
Begins ==
    /\ work.step = "idle"
    /\ UNCHANGED <<dc, dcEvents, dcCache, rcCache>>
    /\ work'.config = dcCache
    /\ work'.listed \in {NoRcs, rcCache}
    /\ \A v \in Versions : work'.active = v => rcCache[v].phase = "Complete"
    /\ "controller" \in upToDate' => dcEvents = <<>>

Listed ==
    \E v \in Versions, n \in {0, 1} :
       Exists(rcCache[v])
       /\ work'.listed = [work.listed EXCEPT ![v] = [rcCache[v] EXCEPT !.replicas = n]]
       /\ v <= work.config.lv

Calls ==
    /\ work.step # "idle"
    /\ UNCHANGED <<dcCache, rcCache>>
    /\ work'.config = work.config /\ work'.step # "create"
    /\ work'.active \in {work.active, 0}
    /\ work'.listed \in {work.listed, NoRcs} \/ Listed

WorkStep ==
    \/ work' = work
    \/ work' = NoWork
    \/ Begins \/ Calls

\* Whoever may write the config has read it since it was last written.
CopyStep ==
    "controller" \in upToDate' => (dc' = dc /\ "controller" \in upToDate) \/ Begins

Inv == TypeOK /\ RolloutIsSound

\* What is in hand before a call.
WorkAhead ==
    /\ work'.step = "create" => work'.config.lv # 0
    /\ work'.step = "scale" =>
         work'.todo # {} /\ \A v \in work'.todo : v <= work'.config.lv
    /\ work'.step \in {"cancel", "prune"} => \A v \in work'.todo : v < work'.config.lv
    /\ work'.step = "prune" => work'.todo # {}

\* A step as far as the invariants are concerned.
SoundStep == ConfigStep /\ RcStep /\ WorkStep /\ CopyStep /\ WorkAhead

-------------------------------------------------------------------------------
(* A sound step keeps the invariant *)

LEMMA ConfigKept ==
    ASSUME StoreTypeOK, ConfigFollows, ConfigStep
    PROVE  ConfigFollows' /\ dcCache.lv <= dcCache'.lv /\ dc.lv <= dc'.lv
                          /\ dcCache.lv <= dc.lv
<1>. DEFINE n == Len(dcEvents)
<1>1. /\ n \in Nat /\ DOMAIN dcEvents = 1..n
      /\ \A i \in 1..n : dcEvents[i] \in Config /\ dcEvents[i].lv \in Nat
      /\ dcEvents = <<>> <=> n = 0
  <2>1. dcEvents \in Seq(Config)
    BY DEF StoreTypeOK
  <2>2. /\ n \in Nat /\ DOMAIN dcEvents = 1..n /\ \A i \in 1..n : dcEvents[i] \in Config
        /\ dcEvents = <<>> <=> n = 0
    BY <2>1, LenProperties, EmptySeq
  <2>3. \A c \in Config : c.lv \in Nat
    BY MaxIsNat DEF Config
  <2>. QED
    BY <2>2, <2>3
<1>2. dc.lv \in Nat /\ dcCache.lv \in Nat
  BY MaxIsNat DEF StoreTypeOK, Config
<1>3. dcCache.lv <= dc.lv /\ \A i \in 1..n : dcEvents[i].lv <= dc.lv
  <2>1. CASE n = 0
    BY <1>1, <1>2, <2>1 DEF ConfigFollows
  <2>2. CASE n # 0
    <3>1. n \in 1..n /\ dc = dcEvents[n]
      BY <1>1, <2>2 DEF ConfigFollows
    <3>. QED
      BY <1>1, <1>2, <3>1 DEF ConfigFollows
  <2>. QED
    BY <2>1, <2>2
<1>4. CASE UNCHANGED <<dc, dcEvents, dcCache>>
  BY <1>2, <1>3, <1>4 DEF ConfigFollows
<1>5. CASE dcCache' = dcCache /\ \E c \in Config : dc.lv <= c.lv /\ StoreDc(c)
  <2>1. PICK c \in Config : dc.lv <= c.lv /\ dc' = c /\ dcEvents' = Append(dcEvents, c)
    BY <1>5 DEF StoreDc
  <2>2. /\ Len(dcEvents') = n + 1 /\ DOMAIN dcEvents' = 1..(n + 1)
        /\ \A i \in 1..n : dcEvents'[i] = dcEvents[i]
        /\ dcEvents'[n + 1] = c /\ dcEvents' # <<>>
    <3>1. dcEvents \in Seq(Config)
      BY DEF StoreTypeOK
    <3>. QED
      BY <1>1, <2>1, <3>1, AppendProperties
  <2>3. c.lv \in Nat
    BY MaxIsNat DEF Config
  <2>4. \A i \in 1..(n + 1) : i \in 1..n \/ i = n + 1
    BY <1>1
  <2>5. \A i \in 1..(n + 1) : dcCache.lv <= dcEvents'[i].lv
    BY <1>1, <1>2, <1>3, <2>1, <2>2, <2>3, <2>4 DEF ConfigFollows
  <2>6. \A i, j \in 1..(n + 1) : i <= j => dcEvents'[i].lv <= dcEvents'[j].lv
    <3>. SUFFICES ASSUME NEW i \in 1..(n + 1), NEW j \in 1..(n + 1), i <= j
                  PROVE  dcEvents'[i].lv <= dcEvents'[j].lv
      OBVIOUS
    <3>1. CASE j = n + 1 /\ i \in 1..n
      BY <1>1, <1>2, <1>3, <2>1, <2>2, <2>3, <3>1
    <3>2. CASE j = n + 1 /\ i = n + 1
      BY <2>2, <2>3, <3>2
    <3>3. CASE j \in 1..n
      <4>1. i \in 1..n
        BY <1>1, <3>3
      <4>. QED
        BY <1>1, <2>2, <3>3, <4>1 DEF ConfigFollows
    <3>. QED
      BY <2>4, <3>1, <3>2, <3>3
  <2>7. dc' = dcEvents'[Len(dcEvents')]
    BY <2>1, <2>2
  <2>. QED
    BY <1>2, <1>3, <1>5, <2>1, <2>2, <2>5, <2>6, <2>7 DEF ConfigFollows
<1>6. CASE /\ dcEvents # <<>>
           /\ dcCache' = Head(dcEvents) /\ dcEvents' = Tail(dcEvents) /\ dc' = dc
  <2>1. /\ Len(dcEvents') = n - 1 /\ DOMAIN dcEvents' = 1..(n - 1)
        /\ \A i \in 1..(n - 1) : dcEvents'[i] = dcEvents[i + 1]
        /\ dcCache' = dcEvents[1] /\ 1 \in 1..n
    <3>1. dcEvents \in Seq(Config)
      BY DEF StoreTypeOK
    <3>2. dcEvents' \in Seq(Config) /\ Len(dcEvents') = n - 1
      BY <1>6, <3>1, HeadTailProperties
    <3>3. \A i \in 1..(n - 1) : dcEvents'[i] = dcEvents[i + 1]
      BY <1>6, <3>1, <3>2, HeadTailProperties
    <3>. QED
      BY <1>1, <1>6, <3>1, <3>2, <3>3, HeadTailProperties, LenProperties
  <2>2. \A i \in 1..(n - 1) : i + 1 \in 1..n
    BY <1>1
  <2>3. dcEvents' = <<>> => n = 1
    BY <1>1, <1>6, <2>1
  <2>4. dc' = IF dcEvents' = <<>> THEN dcCache' ELSE dcEvents'[Len(dcEvents')]
    <3>1. CASE n = 1
      <4>1. dcEvents' = <<>>
        BY <2>1, <3>1, <1>6, EmptySeq DEF StoreTypeOK
      <4>. QED
        BY <1>1, <1>6, <2>1, <3>1, <4>1 DEF ConfigFollows
    <3>2. CASE n # 1
      <4>1. n - 1 \in 1..(n - 1)
        BY <1>1, <1>6, <3>2
      <4>2. dcEvents'[n - 1] = dcEvents[n]
        BY <1>1, <2>1, <4>1
      <4>. QED
        BY <1>6, <2>1, <2>3, <3>2, <4>2 DEF ConfigFollows
    <3>. QED
      BY <3>1, <3>2
  <2>5. \A i \in 1..(n - 1) : dcCache'.lv <= dcEvents'[i].lv
    <3>. SUFFICES ASSUME NEW i \in 1..(n - 1) PROVE dcEvents[1].lv <= dcEvents[i + 1].lv
      BY <2>1
    <3>1. i + 1 \in 1..n /\ 1 \in 1..n /\ 1 <= i + 1
      BY <1>1, <2>1
    <3>. QED
      BY <1>1, <3>1 DEF ConfigFollows
  <2>6. \A i, j \in 1..(n - 1) : i <= j => dcEvents'[i].lv <= dcEvents'[j].lv
    <3>. SUFFICES ASSUME NEW i \in 1..(n - 1), NEW j \in 1..(n - 1), i <= j
                  PROVE  dcEvents'[i].lv <= dcEvents'[j].lv
      OBVIOUS
    <3>1. i + 1 \in 1..n /\ j + 1 \in 1..n /\ i + 1 <= j + 1
      BY <1>1
    <3>. QED
      BY <1>1, <2>1, <3>1 DEF ConfigFollows
  <2>. QED
    BY <1>1, <1>2, <1>3, <1>6, <2>1, <2>4, <2>5, <2>6 DEF ConfigFollows
<1>7. CASE dcCache' = dc /\ dcEvents' = <<>> /\ dc' = dc
  BY <1>2, <1>3, <1>7 DEF ConfigFollows
<1>. QED
  BY <1>4, <1>5, <1>6, <1>7 DEF ConfigStep

Event == [key : Versions, object : Deployment]

LEMMA EventFacts ==
    ASSUME StoreTypeOK
    PROVE  /\ rcEvents \in Seq(Event) /\ Len(rcEvents) \in Nat
           /\ DOMAIN rcEvents = 1..Len(rcEvents)
           /\ \A i \in DOMAIN rcEvents :
                /\ rcEvents[i] \in Event
                /\ rcEvents[i].key \in Versions /\ rcEvents[i].object \in Deployment
<1>1. rcEvents \in Seq(Event)
  BY DEF StoreTypeOK, Event
<1>2. \A e \in Event : e.key \in Versions /\ e.object \in Deployment
  BY DEF Event
<1>. QED
  BY <1>1, <1>2, LenProperties

LEMMA StoredEvents ==
    ASSUME StoreTypeOK, NEW v \in Versions, NEW o \in Deployment, StoreRc(v, o)
    PROVE  /\ rc' = [rc EXCEPT ![v] = o] /\ Len(rcEvents') = Len(rcEvents) + 1
           /\ DOMAIN rcEvents' = 1..(Len(rcEvents) + 1)
           /\ \A i \in 1..Len(rcEvents) : rcEvents'[i] = rcEvents[i]
           /\ rcEvents'[Len(rcEvents) + 1] = [key |-> v, object |-> o]
  BY EventFacts, AppendProperties DEF StoreRc, Event

LEMMA DeliveredEvents ==
    ASSUME StoreTypeOK, rcEvents # <<>>, rcEvents' = Tail(rcEvents)
    PROVE  /\ Head(rcEvents) = rcEvents[1] /\ 1 \in DOMAIN rcEvents
           /\ DOMAIN rcEvents' = 1..(Len(rcEvents) - 1)
           /\ \A i \in 1..(Len(rcEvents) - 1) :
                i + 1 \in DOMAIN rcEvents /\ rcEvents'[i] = rcEvents[i + 1]
<1>1. /\ rcEvents \in Seq(Event) /\ Len(rcEvents) \in Nat /\ Len(rcEvents) # 0
      /\ DOMAIN rcEvents = 1..Len(rcEvents)
  BY EventFacts, EmptySeq
<1>2. rcEvents' \in Seq(Event) /\ Len(rcEvents') = Len(rcEvents) - 1
      /\ \A i \in 1..(Len(rcEvents) - 1) : rcEvents'[i] = rcEvents[i + 1]
  BY <1>1, HeadTailProperties
<1>. QED
  BY <1>1, <1>2, HeadTailProperties, LenProperties

\* What is cached was cached, stored or told; what is told was told or is stored.
LEMMA Provenance ==
    ASSUME StoreTypeOK, RcStep
    PROVE  /\ \A v \in Versions :
                \/ rcCache'[v] \in {rcCache[v], rc[v]}
                \/ \E i \in DOMAIN rcEvents :
                     rcEvents[i].key = v /\ rcEvents[i].object = rcCache'[v]
           /\ \A i \in DOMAIN rcEvents' :
                \/ \E j \in DOMAIN rcEvents : rcEvents'[i] = rcEvents[j]
                \/ /\ rcEvents'[i].key \in Versions
                   /\ rcEvents'[i].object = rc'[rcEvents'[i].key]
<1>1. CASE UNCHANGED <<rc, rcEvents, rcCache>>
  BY <1>1
<1>2. CASE rcCache' = rcCache /\ \E v \in Versions, o \in Deployment : StoreRc(v, o)
  <2>1. PICK v \in Versions, o \in Deployment : StoreRc(v, o)
    BY <1>2
  <2>2. \A i \in DOMAIN rcEvents' : i \in DOMAIN rcEvents \/ i = Len(rcEvents) + 1
    <3>1. DOMAIN rcEvents' = 1..(Len(rcEvents) + 1) /\ DOMAIN rcEvents = 1..Len(rcEvents)
          /\ Len(rcEvents) \in Nat
      BY <2>1, StoredEvents, EventFacts
    <3>. QED
      BY <3>1
  <2>3. rc' = [rc EXCEPT ![v] = o] /\ rc \in [Versions -> Deployment]
    BY <2>1, StoredEvents DEF StoreTypeOK
  <2>4. \A i \in DOMAIN rcEvents : rcEvents'[i] = rcEvents[i]
    BY <2>1, StoredEvents, EventFacts
  <2>5. rcEvents'[Len(rcEvents) + 1] = [key |-> v, object |-> o]
    BY <2>1, StoredEvents
  <2>. QED
    BY <1>2, <2>2, <2>3, <2>4, <2>5
<1>3. CASE /\ rcEvents # <<>>
           /\ rcCache' = [rcCache EXCEPT ![Head(rcEvents).key] = Head(rcEvents).object]
           /\ rcEvents' = Tail(rcEvents) /\ rc' = rc
  <2>1. rcCache \in [Versions -> Deployment]
    BY DEF StoreTypeOK
  <2>. QED
    BY <1>3, <2>1, DeliveredEvents, EventFacts
<1>4. CASE rcCache' = rc /\ rcEvents' = <<>> /\ rc' = rc
  <2>1. DOMAIN rcEvents' = {}
    BY <1>4, EmptySeq
  <2>. QED
    BY <1>4, <2>1
<1>. QED
  BY <1>1, <1>2, <1>3, <1>4 DEF RcStep

LEMMA DeploymentsKept ==
    ASSUME StoreTypeOK, DeploymentsFollow, RcStep
    PROVE  DeploymentsFollow'
<1>. DEFINE n == Len(rcEvents)
            Last(i) == \A j \in DOMAIN rcEvents : i < j => rcEvents[j].key # rcEvents[i].key
<1>0. /\ rc \in [Versions -> Deployment] /\ rcCache \in [Versions -> Deployment]
      /\ n \in Nat /\ DOMAIN rcEvents = 1..n
  BY EventFacts DEF StoreTypeOK
<1>1. CASE UNCHANGED <<rc, rcEvents, rcCache>>
  BY <1>1 DEF DeploymentsFollow, Fresh
<1>2. CASE rcCache' = rcCache /\ \E v \in Versions, o \in Deployment : StoreRc(v, o)
  <2>1. PICK v \in Versions, o \in Deployment : StoreRc(v, o)
    BY <1>2
  <2>2. /\ rc' = [rc EXCEPT ![v] = o] /\ DOMAIN rcEvents' = 1..(n + 1)
        /\ \A i \in 1..n : rcEvents'[i] = rcEvents[i]
        /\ rcEvents'[n + 1] = [key |-> v, object |-> o]
    BY <2>1, StoredEvents
  <2>3. ASSUME NEW w \in Versions, Fresh(w)' PROVE rcCache'[w] = rc'[w]
    <3>1. n + 1 \in DOMAIN rcEvents' /\ \A i \in DOMAIN rcEvents : i \in DOMAIN rcEvents'
      BY <1>0, <2>2
    <3>2. w # v /\ \A i \in DOMAIN rcEvents : rcEvents[i].key # w
      BY <1>0, <2>2, <2>3, <3>1 DEF Fresh
    <3>. QED
      BY <1>0, <1>2, <2>2, <3>2 DEF DeploymentsFollow, Fresh
  <2>4. ASSUME NEW i \in DOMAIN rcEvents',
               \A j \in DOMAIN rcEvents' : i < j => rcEvents'[j].key # rcEvents'[i].key
        PROVE  rcEvents'[i].object = rc'[rcEvents'[i].key]
    <3>1. CASE i = n + 1
      BY <1>0, <2>2, <3>1
    <3>2. CASE i \in 1..n
      <4>1. n + 1 \in DOMAIN rcEvents' /\ i < n + 1
        BY <1>0, <2>2, <3>2
      <4>2. rcEvents[i].key # v
        BY <2>2, <2>4, <3>2, <4>1
      <4>3. \A j \in 1..n : i < j => rcEvents[j].key # rcEvents[i].key
        BY <1>0, <2>2, <2>4, <3>2
      <4>4. rcEvents[i].object = rc[rcEvents[i].key] /\ rcEvents[i].key \in Versions
        BY <1>0, <3>2, <4>3, EventFacts DEF DeploymentsFollow
      <4>. QED
        BY <1>0, <2>2, <3>2, <4>2, <4>4
    <3>. QED
      BY <1>0, <2>2, <3>1, <3>2
  <2>. QED
    BY <2>3, <2>4 DEF DeploymentsFollow
<1>3. CASE /\ rcEvents # <<>>
           /\ rcCache' = [rcCache EXCEPT ![Head(rcEvents).key] = Head(rcEvents).object]
           /\ rcEvents' = Tail(rcEvents) /\ rc' = rc
  <2>. DEFINE k == rcEvents[1].key
  <2>1. /\ 1 \in 1..n /\ DOMAIN rcEvents' = 1..(n - 1)
        /\ \A i \in 1..(n - 1) : i + 1 \in 1..n /\ rcEvents'[i] = rcEvents[i + 1]
        /\ rcCache' = [rcCache EXCEPT ![k] = rcEvents[1].object]
        /\ k \in Versions
    BY <1>0, <1>3, DeliveredEvents, EventFacts
  <2>2. \A j \in 1..n : 1 < j => j - 1 \in 1..(n - 1) /\ rcEvents'[j - 1] = rcEvents[j]
    <3>. SUFFICES ASSUME NEW j \in 1..n, 1 < j
                  PROVE  j - 1 \in 1..(n - 1) /\ rcEvents'[j - 1] = rcEvents[j]
      OBVIOUS
    <3>1. j - 1 \in 1..(n - 1) /\ (j - 1) + 1 = j
      BY <1>0
    <3>. QED
      BY <2>1, <3>1
  <2>3. ASSUME NEW w \in Versions, Fresh(w)' PROVE rcCache'[w] = rc'[w]
    <3>1. \A j \in 1..n : 1 < j => rcEvents[j].key # w
      BY <2>1, <2>2, <2>3 DEF Fresh
    <3>2. CASE w = k
      <4>1. rcEvents[1].object = rc[k]
        BY <1>0, <2>1, <3>1, <3>2 DEF DeploymentsFollow
      <4>. QED
        BY <1>0, <1>3, <2>1, <3>2, <4>1
    <3>3. CASE w # k
      <4>1. \A j \in 1..n : j = 1 \/ 1 < j
        BY <1>0
      <4>2. Fresh(w)
        BY <1>0, <3>1, <3>3, <4>1 DEF Fresh
      <4>. QED
        BY <1>0, <1>3, <2>1, <3>3, <4>2 DEF DeploymentsFollow
    <3>. QED
      BY <3>2, <3>3
  <2>4. ASSUME NEW i \in DOMAIN rcEvents',
               \A j \in DOMAIN rcEvents' : i < j => rcEvents'[j].key # rcEvents'[i].key
        PROVE  rcEvents'[i].object = rc'[rcEvents'[i].key]
    <3>1. i + 1 \in 1..n /\ rcEvents'[i] = rcEvents[i + 1]
      BY <2>1
    <3>2. ASSUME NEW j \in 1..n, i + 1 < j PROVE rcEvents[j].key # rcEvents[i + 1].key
      <4>1. 1 < j /\ i < j - 1
        BY <1>0, <2>1, <3>2
      <4>. QED
        BY <2>1, <2>2, <2>4, <3>1, <4>1
    <3>. QED
      BY <1>0, <1>3, <3>1, <3>2 DEF DeploymentsFollow
  <2>. QED
    BY <2>3, <2>4 DEF DeploymentsFollow
<1>4. CASE rcCache' = rc /\ rcEvents' = <<>> /\ rc' = rc
  <2>1. DOMAIN rcEvents' = {}
    BY <1>4, EmptySeq
  <2>. QED
    BY <1>4, <2>1 DEF DeploymentsFollow, Fresh
<1>. QED
  BY <1>1, <1>2, <1>3, <1>4 DEF RcStep

LEMMA Numbers ==
    ASSUME TypeOK
    PROVE  /\ dc.lv \in Nat /\ dcCache.lv \in Nat /\ work.config.lv \in Nat
           /\ \A v \in Versions : v \in Nat
  BY MaxIsNat DEF TypeOK, StoreTypeOK, ControllerTypeOK, Work, Config

\* What becomes of one deployment.
LEMMA RcOfStep ==
    ASSUME StoreTypeOK, RcStep, NEW v \in Versions
    PROVE  rc'[v] = rc[v] \/ MayStore(v, rc'[v])
<1>1. ASSUME NEW w \in Versions, NEW o \in Deployment, StoreRc(w, o), MayStore(w, o)
      PROVE  rc'[v] = rc[v] \/ MayStore(v, rc'[v])
  <2>1. rc' = [rc EXCEPT ![w] = o] /\ rc \in [Versions -> Deployment]
    BY <1>1, StoredEvents DEF StoreTypeOK
  <2>2. CASE v = w
    <3>1. rc'[v] = o
      BY <2>1, <2>2
    <3>. QED
      BY <1>1, <2>2, <3>1
  <2>. QED
    BY <2>1, <2>2
<1>. QED
  BY <1>1 DEF RcStep

LEMMA VersionsKept ==
    ASSUME Inv, TypeOK', SoundStep
    PROVE  VersionsAreSeen'
<1>1. /\ StoreTypeOK /\ ConfigStep /\ RcStep /\ WorkStep /\ VersionsAreSeen /\ ConfigFollows
      /\ TypeOK
  BY DEF Inv, TypeOK, RolloutIsSound, SoundStep
<1>2. dcCache.lv <= dcCache'.lv
  BY <1>1, ConfigKept
<1>3. dcCache.lv \in Nat /\ dcCache'.lv \in Nat /\ \A v \in Versions : v \in Nat
  <2>1. dcCache'.lv \in Nat
    BY MaxIsNat DEF TypeOK, StoreTypeOK, Config
  <2>. QED
    BY <1>1, <2>1, Numbers
<1>4. \A v \in Versions : v <= dcCache.lv => v <= dcCache'.lv
  BY <1>2, <1>3
<1>5. work'.config.lv <= dcCache'.lv
  <2>1. work'.config \in {work.config, dcCache, NoConfig}
    BY <1>1 DEF WorkStep, Begins, Calls, NoWork
  <2>2. work.config.lv <= dcCache.lv /\ work.config.lv \in Nat /\ NoConfig.lv = 0
    BY <1>1, Numbers DEF VersionsAreSeen, NoConfig
  <2>. QED
    BY <1>2, <1>3, <2>1, <2>2
<1>6. ASSUME NEW v \in Versions, Exists(rc'[v]) PROVE v <= dcCache.lv
  <2>1. CASE Exists(rc[v])
    BY <1>1, <2>1 DEF VersionsAreSeen, Seen
  <2>2. CASE ~Exists(rc[v])
    <3>1. v = work.config.lv
      BY <1>1, <1>6, <2>2, RcOfStep DEF MayStore
    <3>. QED
      BY <1>1, <3>1 DEF VersionsAreSeen
  <2>. QED
    BY <2>1, <2>2
<1>7. ASSUME NEW i \in DOMAIN rcEvents, Exists(rcEvents[i].object)
      PROVE  rcEvents[i].key <= dcCache.lv /\ rcEvents[i].key \in Versions
  BY <1>1, <1>7, EventFacts DEF VersionsAreSeen, Seen
<1>8. ASSUME NEW v \in Versions, Exists(rcCache'[v]) PROVE v <= dcCache.lv
  <2>1. CASE rcCache'[v] \in {rcCache[v], rc[v]}
    BY <1>1, <1>8, <2>1 DEF VersionsAreSeen, Seen
  <2>2. CASE \E i \in DOMAIN rcEvents : rcEvents[i].key = v /\ rcEvents[i].object = rcCache'[v]
    BY <1>7, <1>8, <2>2
  <2>. QED
    BY <1>1, <2>1, <2>2, Provenance
<1>9. ASSUME NEW i \in DOMAIN rcEvents', Exists(rcEvents'[i].object)
      PROVE  rcEvents'[i].key \in Versions /\ rcEvents'[i].key <= dcCache.lv
  <2>1. CASE \E j \in DOMAIN rcEvents : rcEvents'[i] = rcEvents[j]
    BY <1>7, <1>9, <2>1
  <2>2. CASE rcEvents'[i].key \in Versions /\ rcEvents'[i].object = rc'[rcEvents'[i].key]
    BY <1>6, <1>9, <2>2
  <2>. QED
    BY <1>1, <2>1, <2>2, Provenance
<1>. QED
  BY <1>4, <1>5, <1>6, <1>8, <1>9 DEF VersionsAreSeen, Seen, Exists

LEMMA WorkKept ==
    ASSUME Inv, TypeOK', SoundStep
    PROVE  WorkIsSound'
<1>1. /\ StoreTypeOK /\ WorkStep /\ CopyStep /\ WorkAhead /\ VersionsAreSeen /\ ConfigFollows
      /\ WorkIsSound /\ TypeOK
  BY DEF Inv, TypeOK, RolloutIsSound, SoundStep
<1>2. work'.step # "idle" /\ "controller" \in upToDate' => work'.config = dc'
  <2>. SUFFICES ASSUME work'.step # "idle", "controller" \in upToDate' PROVE work'.config = dc'
    OBVIOUS
  <2>1. CASE Begins
    BY <1>1, <2>1 DEF Begins, ConfigFollows
  <2>2. CASE ~Begins
    <3>1. dc' = dc /\ "controller" \in upToDate
      BY <1>1, <2>2 DEF CopyStep
    <3>2. work.step # "idle" /\ work'.config = work.config
      BY <1>1, <2>2 DEF WorkStep, Calls, NoWork
    <3>. QED
      BY <1>1, <3>1, <3>2 DEF WorkIsSound
  <2>. QED
    BY <2>1, <2>2
<1>3. ASSUME NEW v \in Versions, Exists(work'.listed[v]) PROVE v <= work'.config.lv
  <2>0. /\ work.listed \in [Versions -> Deployment] /\ rcCache \in [Versions -> Deployment]
        /\ ~Exists(NoRcs[v])
    BY <1>1, Constants DEF TypeOK, StoreTypeOK, ControllerTypeOK, Work, NoRcs
  <2>1. CASE work' = work
    BY <1>1, <1>3, <2>1 DEF WorkIsSound
  <2>2. CASE work' = NoWork
    BY <1>3, <2>0, <2>2 DEF NoWork
  <2>3. CASE Begins
    BY <1>1, <1>3, <2>0, <2>3 DEF Begins, VersionsAreSeen, Seen
  <2>4. CASE Calls
    <3>1. CASE work'.listed \in {work.listed, NoRcs}
      BY <1>1, <1>3, <2>0, <2>4, <3>1 DEF Calls, WorkIsSound
    <3>2. CASE Listed
      <4>1. PICK w \in Versions, n \in {0, 1} :
              /\ work'.listed = [work.listed EXCEPT ![w] = [rcCache[w] EXCEPT !.replicas = n]]
              /\ w <= work.config.lv
        BY <3>2 DEF Listed
      <4>2. v = w \/ Exists(work.listed[v])
        BY <1>3, <2>0, <4>1
      <4>. QED
        BY <1>1, <2>4, <4>1, <4>2 DEF Calls, WorkIsSound
    <3>. QED
      BY <2>4, <3>1, <3>2 DEF Calls
  <2>. QED
    BY <1>1, <2>1, <2>2, <2>3, <2>4 DEF WorkStep
<1>. QED
  BY <1>1, <1>2, <1>3 DEF WorkIsSound, WorkAhead, Exists

\* What is complete stays so, or is gone for good.
LEMMA StaysStays ==
    ASSUME Inv, TypeOK', SoundStep, Limits["removals"] = 0, NEW v \in Versions, StaysComplete(v)
    PROVE  StaysComplete(v)'
<1>1. /\ StoreTypeOK /\ ConfigStep /\ RcStep /\ WorkStep /\ VersionsAreSeen /\ ConfigFollows
      /\ TypeOK
  BY DEF Inv, TypeOK, RolloutIsSound, SoundStep
<1>2. dcCache.lv <= dcCache'.lv /\ work.config.lv <= dcCache.lv
  BY <1>1, ConfigKept DEF VersionsAreSeen
<1>3. /\ dcCache.lv \in Nat /\ dcCache'.lv \in Nat /\ v \in Nat
      /\ work.config.lv \in Nat
  <2>1. dcCache'.lv \in Nat
    BY MaxIsNat DEF TypeOK, StoreTypeOK, Config
  <2>. QED
    BY <1>1, <2>1, Numbers
<1>4. CASE rc[v].phase = "Complete"
  <2>1. CASE rc'[v].phase = "Complete"
    BY <2>1 DEF StaysComplete
  <2>2. CASE rc'[v].phase # "Complete"
    <3>1. ~Exists(rc'[v]) /\ v < work.config.lv /\ work'.step # "create"
      BY <1>1, <1>4, <2>2, RcOfStep DEF MayStore
    <3>2. v < dcCache'.lv
      BY <1>2, <1>3, <3>1
    <3>. QED
      BY <3>1, <3>2 DEF StaysComplete, Exists
  <2>. QED
    BY <2>1, <2>2
<1>5. CASE rc[v].phase # "Complete"
  <2>1. ~Exists(rc[v]) /\ v < dcCache.lv /\ (work.step = "create" => v < work.config.lv)
    BY <1>5 DEF StaysComplete
  <2>2. ~Exists(rc'[v])
    BY <1>1, <1>3, <2>1, RcOfStep DEF MayStore
  <2>3. v < dcCache'.lv
    BY <1>2, <1>3, <2>1
  <2>4. work'.step = "create" => v < work'.config.lv
    BY <1>1, <2>1 DEF WorkStep, Begins, Calls, NoWork
  <2>. QED
    BY <2>2, <2>3, <2>4 DEF StaysComplete, Exists
<1>. QED
  BY <1>4, <1>5

LEMMA CompleteKept ==
    ASSUME Inv, TypeOK', SoundStep
    PROVE  CompleteStays'
<1>. SUFFICES ASSUME Limits["removals"] = 0
              PROVE  /\ \A v \in Versions :
                          rcCache'[v].phase = "Complete" \/ work'.active = v
                          => StaysComplete(v)'
                     /\ \A i \in DOMAIN rcEvents', v \in Versions :
                          rcEvents'[i].object.phase = "Complete" /\ rcEvents'[i].key = v
                          => StaysComplete(v)'
  <2>1. \A i \in DOMAIN rcEvents' : rcEvents'[i].key \in Versions
    <3>1. StoreTypeOK /\ RcStep
      BY DEF Inv, TypeOK, SoundStep
    <3>. QED
      BY <3>1, EventFacts, Provenance
  <2>. QED
    BY <2>1 DEF CompleteStays, StaysComplete
<1>1. /\ StoreTypeOK /\ RcStep /\ WorkStep /\ CompleteStays /\ TypeOK
  BY DEF Inv, TypeOK, RolloutIsSound, SoundStep
<1>2. \A v \in Versions : rc[v].phase = "Complete" \/ rcCache[v].phase = "Complete"
                            \/ work.active = v => StaysComplete(v)
  BY <1>1 DEF CompleteStays, StaysComplete
<1>3. \A i \in DOMAIN rcEvents : rcEvents[i].object.phase = "Complete"
        => StaysComplete(rcEvents[i].key) /\ rcEvents[i].key \in Versions
  BY <1>1, EventFacts DEF CompleteStays
<1>4. \A v \in Versions : StaysComplete(v) => StaysComplete(v)'
  BY StaysStays
<1>5. ASSUME NEW v \in Versions, rcCache'[v].phase = "Complete" PROVE StaysComplete(v)'
  <2>1. StaysComplete(v)
    BY <1>1, <1>2, <1>3, <1>5, Provenance
  <2>. QED
    BY <1>4, <2>1
<1>6. ASSUME NEW v \in Versions, work'.active = v PROVE StaysComplete(v)'
  <2>1. work.active = v \/ rcCache[v].phase = "Complete"
    <3>1. v # 0
      BY MaxIsNat
    <3>. QED
      BY <1>1, <1>6, <3>1 DEF WorkStep, Begins, Calls, NoWork
  <2>. QED
    BY <1>2, <1>4, <2>1
<1>7. ASSUME NEW i \in DOMAIN rcEvents', NEW v \in Versions,
             rcEvents'[i].object.phase = "Complete", rcEvents'[i].key = v
      PROVE  StaysComplete(v)'
  <2>1. CASE \E j \in DOMAIN rcEvents : rcEvents'[i] = rcEvents[j]
    BY <1>3, <1>4, <1>7, <2>1
  <2>2. CASE rcEvents'[i].key \in Versions /\ rcEvents'[i].object = rc'[rcEvents'[i].key]
    BY <1>7, <2>2 DEF StaysComplete
  <2>. QED
    BY <1>1, <2>1, <2>2, Provenance
<1>. QED
  BY <1>5, <1>6, <1>7

LEMMA SoundStepKeeps ==
    ASSUME Inv, TypeOK', SoundStep
    PROVE  Inv'
<1>1. StoreTypeOK /\ ConfigFollows /\ DeploymentsFollow /\ ConfigStep /\ RcStep
  BY DEF Inv, TypeOK, RolloutIsSound, SoundStep
<1>. QED
  BY <1>1, ConfigKept, DeploymentsKept, VersionsKept, WorkKept, CompleteKept
  DEF Inv, RolloutIsSound

-------------------------------------------------------------------------------
(* What actions have in common *)

LEMMA SameWork ==
    ASSUME Inv, work' = work
    PROVE  WorkStep /\ WorkAhead
  BY DEF Inv, RolloutIsSound, WorkIsSound, WorkStep, WorkAhead

LEMMA NoMoreWork ==
    ASSUME work' = NoWork
    PROVE  WorkStep /\ WorkAhead
  BY DEF WorkStep, WorkAhead, NoWork

LEMMA SameConfig ==
    ASSUME UNCHANGED <<configVars, dcCache>>
    PROVE  ConfigStep /\ CopyStep
  BY DEF ConfigStep, CopyStep, configVars

LEMMA NewConfig ==
    ASSUME NEW c \in Config, dc.lv <= c.lv, StoreDc(c), dcCache' = dcCache
    PROVE  ConfigStep /\ CopyStep
  BY DEF ConfigStep, CopyStep, StoreDc

LEMMA SameDeployments ==
    ASSUME UNCHANGED <<deploymentVars, rcCache>>
    PROVE  RcStep
  BY DEF RcStep, deploymentVars

LEMMA NewDeployment ==
    ASSUME NEW v \in Versions, NEW o \in Deployment, StoreRc(v, o), MayStore(v, o),
           rcCache' = rcCache
    PROVE  RcStep
  BY DEF RcStep

LEMMA SameTypes ==
    ASSUME StoreTypeOK, UNCHANGED <<configVars, cacheVars>>
    PROVE  /\ dc' \in Config /\ dcCache' \in Config /\ dcEvents' \in Seq(Config)
           /\ rcCache' \in [Versions -> Deployment] /\ upToDate' \subseteq Holders
  BY DEF StoreTypeOK, configVars, cacheVars

LEMMA QueueTypes ==
    ASSUME ControllerTypeOK, Succeed \/ Fail \/ (\E next \in Work : Goto(next))
    PROVE  ControllerTypeOK'
<1>1. queued \in BOOLEAN /\ delayed \in BOOLEAN /\ requeues \in 0..MaxRetries /\ MaxRetries \in Nat
  BY ControllerAssumption DEF ControllerTypeOK
<1>2. work' \in Work
  BY Constants DEF Succeed, Fail, Done, Goto
<1>3. queued' \in BOOLEAN /\ delayed' \in BOOLEAN
  BY <1>1 DEF Succeed, Fail, Done, Goto
<1>4. requeues' \in 0..MaxRetries
  BY <1>1 DEF Succeed, Fail, Done, Goto
<1>. QED
  BY <1>2, <1>3, <1>4 DEF ControllerTypeOK

LEMMA TriggerTypes ==
    ASSUME TriggerTypeOK, triggerQueued' \in BOOLEAN, TriggerSucceeds \/ TriggerFails
    PROVE  TriggerTypeOK'
<1>1. triggerDelayed \in BOOLEAN /\ triggerRequeues \in 0..MaxTriggerRetries
      /\ MaxTriggerRetries \in Nat
  BY TriggerAssumption DEF TriggerTypeOK
<1>2. triggerDelayed' \in BOOLEAN
  BY <1>1 DEF TriggerSucceeds, TriggerFails
<1>3. triggerRequeues' \in 0..MaxTriggerRetries
  BY <1>1 DEF TriggerSucceeds, TriggerFails
<1>. QED
  BY <1>2, <1>3 DEF TriggerTypeOK

-------------------------------------------------------------------------------
(* Watches, restarts, clients *)

LEMMA ConfigDeliveredKept ==
    ASSUME Inv, ConfigDelivered
    PROVE  TypeOK' /\ SoundStep
<1>1. StoreTypeOK /\ ControllerTypeOK /\ TriggerTypeOK
  BY DEF Inv, TypeOK
<1>2. dcCache' \in Config /\ dcEvents' \in Seq(Config)
  BY <1>1, HeadTailProperties, EmptySeq DEF ConfigDelivered, DeliverDc, StoreTypeOK
<1>3. StoreTypeOK'
  BY <1>1, <1>2 DEF ConfigDelivered, DeliverDc, StoreTypeOK, deploymentVars
<1>4. ControllerTypeOK' /\ work' = work
  BY <1>1 DEF ConfigDelivered, ConfigSeen, Enqueue, ControllerTypeOK
<1>5. TriggerTypeOK'
  <2>1. triggerQueued' \in BOOLEAN
    BY <1>1 DEF ConfigDelivered, TriggerSeesConfig, TriggerTypeOK
  <2>. QED
    BY <1>1, <2>1 DEF ConfigDelivered, TriggerSeesConfig, TriggerTypeOK
<1>6. ConfigStep /\ CopyStep
  BY DEF ConfigDelivered, DeliverDc, ConfigStep, CopyStep
<1>7. RcStep
  BY SameDeployments DEF ConfigDelivered, DeliverDc
<1>. QED
  BY <1>3, <1>4, <1>5, <1>6, <1>7, SameWork DEF TypeOK, SoundStep

LEMMA DeploymentDeliveredKept ==
    ASSUME Inv, DeploymentDelivered
    PROVE  TypeOK' /\ SoundStep
<1>1. StoreTypeOK /\ ControllerTypeOK /\ TriggerTypeOK
  BY DEF Inv, TypeOK
<1>2. /\ rcEvents # <<>>
      /\ rcCache' = [rcCache EXCEPT ![Head(rcEvents).key] = Head(rcEvents).object]
      /\ rcEvents' = Tail(rcEvents) /\ rc' = rc
      /\ UNCHANGED <<configVars, dcCache, rollout, spent, triggerVars>>
  BY DEF DeploymentDelivered, DeliverRc
<1>3. rcEvents' \in Seq(Event) /\ Head(rcEvents) \in Event
  BY <1>1, <1>2, EventFacts, HeadTailProperties, EmptySeq, DeliveredEvents
<1>4. Head(rcEvents).object \in Deployment
  BY <1>3 DEF Event
<1>5. rcCache' \in [Versions -> Deployment]
  BY <1>1, <1>2, <1>4 DEF StoreTypeOK
<1>6. StoreTypeOK'
  BY <1>1, <1>2, <1>3, <1>5 DEF StoreTypeOK, configVars, Event
<1>7. ControllerTypeOK' /\ work' = work
  BY <1>1 DEF DeploymentDelivered, DeploymentSeen, Enqueue, ControllerTypeOK, controllerVars
<1>8. TriggerTypeOK'
  BY <1>1, <1>2 DEF TriggerTypeOK, triggerVars
<1>9. RcStep
  BY <1>2 DEF RcStep
<1>. QED
  BY <1>2, <1>6, <1>7, <1>8, <1>9, SameWork, SameConfig DEF TypeOK, SoundStep

LEMMA MasterRestartsKept ==
    ASSUME Inv, MasterRestarts
    PROVE  TypeOK' /\ SoundStep
<1>1. StoreTypeOK /\ ControllerTypeOK /\ TriggerTypeOK
  BY DEF Inv, TypeOK
<1>2. spent' \in [LimitNames -> Nat]
  BY <1>1, SpendTypes DEF MasterRestarts, Relist, LimitNames
<1>3. StoreTypeOK'
  BY <1>1, <1>2, EmptySeq DEF MasterRestarts, Relist, StoreTypeOK
<1>4. ControllerTypeOK' /\ work' = NoWork
  <2>1. 0 \in 0..MaxRetries
    BY ControllerAssumption
  <2>. QED
    BY <2>1, Constants DEF MasterRestarts, ControllerRestarts, ControllerTypeOK
<1>5. TriggerTypeOK'
  <2>1. MayTrigger(dc) \in BOOLEAN
    BY <1>1 DEF MayTrigger, StoreTypeOK, Config
  <2>2. 0 \in 0..MaxTriggerRetries
    BY TriggerAssumption
  <2>. QED
    BY <2>1, <2>2 DEF MasterRestarts, TriggerRestarts, TriggerTypeOK
<1>6. ConfigStep /\ CopyStep
  BY DEF MasterRestarts, Relist, ConfigStep, CopyStep
<1>7. RcStep
  BY DEF MasterRestarts, Relist, RcStep
<1>. QED
  BY <1>3, <1>4, <1>5, <1>6, <1>7, NoMoreWork DEF TypeOK, SoundStep

\* What others than the two controllers do, to the config or to a deployment.
LEMMA OthersKept ==
    ASSUME Inv, UNCHANGED <<controllerVars, triggerVars>>, StoreTypeOK', ConfigStep, CopyStep,
           RcStep
    PROVE  TypeOK' /\ SoundStep
<1>1. ControllerTypeOK /\ TriggerTypeOK
  BY DEF Inv, TypeOK
<1>2. ControllerTypeOK' /\ TriggerTypeOK' /\ work' = work
  BY <1>1 DEF controllerVars, triggerVars, ControllerTypeOK, TriggerTypeOK
<1>. QED
  BY <1>2, SameWork DEF TypeOK, SoundStep

LEMMA EditKept ==
    ASSUME Inv, NEW c \in Config, c.lv = dc.lv, Edit(c), UNCHANGED <<controllerVars, triggerVars>>
    PROVE  TypeOK' /\ SoundStep
<1>. DEFINE stored == [c EXCEPT !.synced = FALSE]
<1>1. StoreTypeOK /\ dc.lv \in Nat
  BY Numbers DEF Inv, TypeOK
<1>2. stored \in Config /\ stored.lv = dc.lv
  BY DEF Config
<1>3. StoreDc(stored) /\ Spend("edits") /\ UNCHANGED <<deploymentVars, cacheVars, rollout>>
  BY DEF Edit
<1>4. spent' \in [LimitNames -> Nat]
  BY <1>1, <1>3, SpendTypes DEF LimitNames
<1>5. StoreTypeOK'
  BY <1>1, <1>2, <1>3, <1>4, StoreDcTypes DEF StoreTypeOK, deploymentVars, cacheVars
<1>6. ConfigStep /\ CopyStep
  <2>1. dc.lv <= stored.lv
    BY <1>1, <1>2
  <2>. HIDE DEF stored
  <2>. QED
    BY <1>2, <1>3, <2>1, NewConfig DEF cacheVars
<1>. QED
  BY <1>3, <1>5, <1>6, SameDeployments, OthersKept DEF cacheVars

LEMMA EditsKept ==
    ASSUME Inv, EditSpec \/ MarkDeleting, UNCHANGED <<controllerVars, triggerVars>>
    PROVE  TypeOK' /\ SoundStep
<1>1. dc \in Config
  BY DEF Inv, TypeOK, StoreTypeOK
<1>2. CASE \E t \in Templates : Edit([dc EXCEPT !.tmpl = t])
  <2>1. PICK t \in Templates : Edit([dc EXCEPT !.tmpl = t])
    BY <1>2
  <2>2. [dc EXCEPT !.tmpl = t] \in Config /\ [dc EXCEPT !.tmpl = t].lv = dc.lv
    BY <1>1 DEF Config
  <2>. QED
    BY <2>1, <2>2, EditKept
<1>3. CASE \E n \in {0, 1} : Edit([dc EXCEPT !.replicas = n])
  <2>1. PICK n \in {0, 1} : Edit([dc EXCEPT !.replicas = n])
    BY <1>3
  <2>2. [dc EXCEPT !.replicas = n] \in Config /\ [dc EXCEPT !.replicas = n].lv = dc.lv
    BY <1>1 DEF Config
  <2>. QED
    BY <2>1, <2>2, EditKept
<1>4. CASE \E p \in BOOLEAN : Edit([dc EXCEPT !.paused = p])
  <2>1. PICK p \in BOOLEAN : Edit([dc EXCEPT !.paused = p])
    BY <1>4
  <2>2. [dc EXCEPT !.paused = p] \in Config /\ [dc EXCEPT !.paused = p].lv = dc.lv
    BY <1>1 DEF Config
  <2>. QED
    BY <2>1, <2>2, EditKept
<1>5. CASE MarkDeleting
  <2>1. [dc EXCEPT !.deleting = TRUE] \in Config /\ [dc EXCEPT !.deleting = TRUE].lv = dc.lv
    BY <1>1 DEF Config
  <2>. QED
    BY <1>5, <2>1, EditKept DEF MarkDeleting
<1>. QED
  BY <1>2, <1>3, <1>4, <1>5 DEF EditSpec

\* The instantiate endpoint takes no version back.
LEMMA InstantiateKept ==
    ASSUME StoreTypeOK, NEW force \in BOOLEAN, Instantiate(force), dcCache' = dcCache
    PROVE  /\ ConfigStep /\ CopyStep
           /\ dc' \in Config /\ dcEvents' \in Seq(Config) /\ upToDate' \subseteq Holders
<1>1. CASE UNCHANGED configVars
  BY <1>1, SameConfig DEF StoreTypeOK, configVars
<1>2. CASE dc.lv < MaxVersion /\ StoreDc(Bumped)
  BY <1>2, BumpedTypes, StoreDcTypes, NewConfig
<1>. QED
  BY <1>1, <1>2 DEF Instantiate

LEMMA ClientKept ==
    ASSUME Inv, RolloutReads \/ RolloutAsks, UNCHANGED <<controllerVars, triggerVars>>
    PROVE  TypeOK' /\ SoundStep
<1>1. StoreTypeOK
  BY DEF Inv, TypeOK
<1>2. CASE RolloutReads
  <2>1. spent' \in [LimitNames -> Nat]
    BY <1>1, <1>2, SpendTypes DEF RolloutReads, LimitNames
  <2>2. StoreTypeOK'
    BY <1>1, <1>2, <2>1 DEF RolloutReads, StoreTypeOK, deploymentVars, cacheVars, Holders
  <2>3. ConfigStep /\ CopyStep
    BY <1>2 DEF RolloutReads, ConfigStep, CopyStep, cacheVars
  <2>. QED
    BY <1>2, <2>2, <2>3, SameDeployments, OthersKept DEF RolloutReads, cacheVars
<1>3. CASE RolloutAsks
  <2>1. rollout' = "idle" /\ UNCHANGED <<deploymentVars, cacheVars, spent>>
    BY <1>3 DEF RolloutAsks
  <2>2. /\ ConfigStep /\ CopyStep
        /\ dc' \in Config /\ dcEvents' \in Seq(Config) /\ upToDate' \subseteq Holders
    <3>1. CASE Instantiate(TRUE)
      BY <1>1, <2>1, <3>1, InstantiateKept DEF cacheVars
    <3>2. CASE UNCHANGED configVars
      BY <1>1, <2>1, <3>2, SameConfig DEF StoreTypeOK, configVars, cacheVars
    <3>3. CASE dc.lv < MaxVersion /\ StoreDc(Bumped)
      BY <1>1, <2>1, <3>3, BumpedTypes, StoreDcTypes, NewConfig DEF cacheVars
    <3>. QED
      BY <1>3, <3>1, <3>2, <3>3 DEF RolloutAsks
  <2>3. StoreTypeOK'
    BY <1>1, <2>1, <2>2 DEF StoreTypeOK, deploymentVars, cacheVars
  <2>. QED
    BY <2>1, <2>2, <2>3, SameDeployments, OthersKept DEF cacheVars
<1>. QED
  BY <1>2, <1>3

-------------------------------------------------------------------------------
(* Deployments, as others change them *)

LEMMA WriteRcKept ==
    ASSUME Inv, NEW v \in Versions, NEW o \in Deployment, WriteRc(v, o), MayStore(v, o),
           spent' \in [LimitNames -> Nat], UNCHANGED <<controllerVars, triggerVars>>
    PROVE  TypeOK' /\ SoundStep
<1>1. StoreTypeOK
  BY DEF Inv, TypeOK
<1>2. StoreRc(v, o) /\ UNCHANGED <<configVars, cacheVars, rollout>>
  BY DEF WriteRc
<1>3. StoreTypeOK'
  BY <1>1, <1>2, SameTypes, StoreRcTypes DEF StoreTypeOK
<1>. QED
  BY <1>2, <1>3, SameConfig, NewDeployment, OthersKept DEF cacheVars

LEMMA RcEndsKept ==
    ASSUME Inv, NEW v \in Versions, RcEnds(v), UNCHANGED <<controllerVars, triggerVars>>
    PROVE  TypeOK' /\ SoundStep
<1>1. /\ rc[v] \in Deployment /\ spent \in [LimitNames -> Nat] /\ spent' = spent
      /\ IsInFlightPhase(rc[v].phase)
  BY DEF Inv, TypeOK, StoreTypeOK, RcEnds
<1>2. PICK n \in {0, 1} :
        \/ WriteRc(v, [rc[v] EXCEPT !.phase = "Complete", !.cancelled = FALSE, !.replicas = n])
        \/ WriteRc(v, [rc[v] EXCEPT !.phase = "Failed", !.replicas = n])
  BY DEF RcEnds
<1>3. \A o \in Deployment : MayStore(v, o)
  BY <1>1 DEF MayStore, IsInFlightPhase, Exists
<1>4. /\ [rc[v] EXCEPT !.phase = "Complete", !.cancelled = FALSE, !.replicas = n] \in Deployment
      /\ [rc[v] EXCEPT !.phase = "Failed", !.replicas = n] \in Deployment
  BY <1>1 DEF Deployment, RcPhases
<1>. QED
  BY <1>1, <1>2, <1>3, <1>4, WriteRcKept

LEMMA RcRetriedKept ==
    ASSUME Inv, NEW v \in Versions, RcRetried(v), UNCHANGED <<controllerVars, triggerVars>>
    PROVE  TypeOK' /\ SoundStep
<1>. DEFINE o == [rc[v] EXCEPT !.phase = "New", !.cancelled = FALSE]
<1>1. rc[v] \in Deployment /\ rc[v].phase = "Failed" /\ StoreTypeOK
  BY DEF Inv, TypeOK, StoreTypeOK, RcRetried
<1>2. spent' \in [LimitNames -> Nat]
  BY <1>1, SpendTypes DEF RcRetried, LimitNames
<1>3. o \in Deployment /\ MayStore(v, o)
  BY <1>1 DEF Deployment, RcPhases, MayStore, Exists
<1>. QED
  BY <1>2, <1>3, WriteRcKept DEF RcRetried

LEMMA RcScaledKept ==
    ASSUME Inv, NEW v \in Versions, RcScaled(v), UNCHANGED <<controllerVars, triggerVars>>
    PROVE  TypeOK' /\ SoundStep
<1>. DEFINE o == [rc[v] EXCEPT !.replicas = 1 - rc[v].replicas]
<1>1. rc[v] \in Deployment /\ Exists(rc[v]) /\ StoreTypeOK /\ WriteRc(v, o)
  BY DEF Inv, TypeOK, StoreTypeOK, RcScaled
<1>2. spent' \in [LimitNames -> Nat]
  BY <1>1, SpendTypes DEF RcScaled, LimitNames
<1>3. 1 - rc[v].replicas \in {0, 1}
  BY <1>1 DEF Deployment
<1>4. o \in Deployment /\ o.phase = rc[v].phase
  BY <1>1, <1>3 DEF Deployment
<1>5. MayStore(v, o)
  BY <1>1, <1>4 DEF MayStore
<1>. QED
  BY <1>1, <1>2, <1>4, <1>5, WriteRcKept

LEMMA RcRemovedKept ==
    ASSUME Inv, NEW v \in Versions, RcRemoved(v), UNCHANGED <<controllerVars, triggerVars>>
    PROVE  TypeOK' /\ SoundStep
<1>1. StoreTypeOK /\ Spend("removals") /\ "removals" \in LimitNames
  BY DEF Inv, TypeOK, RcRemoved, LimitNames
<1>2. spent' \in [LimitNames -> Nat]
  BY <1>1, SpendTypes
<1>3. Limits["removals"] # 0
  <2>1. spent["removals"] \in Nat /\ spent["removals"] < Limits["removals"]
    BY <1>1 DEF StoreTypeOK, Spend
  <2>. QED
    BY <2>1
<1>4. NoRc \in Deployment /\ MayStore(v, NoRc)
  BY <1>3, Constants DEF MayStore
<1>. QED
  BY <1>2, <1>4, WriteRcKept DEF RcRemoved

LEMMA EnvironmentKept ==
    ASSUME Inv, EnvironmentStep
    PROVE  TypeOK' /\ SoundStep
  BY EditsKept, ClientKept, RcEndsKept, RcRetriedKept, RcScaledKept, RcRemovedKept
  DEF EnvironmentStep, Environment

-------------------------------------------------------------------------------
(* The trigger controller *)

LEMMA TriggerKept ==
    ASSUME Inv, TriggerStep
    PROVE  TypeOK' /\ SoundStep
<1>1. StoreTypeOK /\ ControllerTypeOK /\ TriggerTypeOK
  BY DEF Inv, TypeOK
<1>2. ControllerTypeOK' /\ work' = work
  BY <1>1 DEF TriggerStep, controllerVars, ControllerTypeOK
<1>3. CASE TriggerDelayElapses
  <2>1. StoreTypeOK' /\ TriggerTypeOK'
    BY <1>1, <1>3 DEF TriggerDelayElapses, TriggerTypeOK, StoreTypeOK, storeVars, configVars,
                      deploymentVars, cacheVars
  <2>2. UNCHANGED <<configVars, deploymentVars, cacheVars>>
    BY <1>3 DEF TriggerDelayElapses, storeVars
  <2>. QED
    BY <1>2, <2>1, <2>2, SameConfig, SameDeployments, SameWork DEF cacheVars, TypeOK, SoundStep
<1>4. CASE HandleTrigger
  <2>1. triggerQueued' = FALSE /\ UNCHANGED <<deploymentVars, cacheVars, rollout>>
    BY <1>4 DEF HandleTrigger
  <2>2. TriggerSucceeds \/ TriggerFails
    BY <1>4 DEF HandleTrigger
  <2>3. spent' \in [LimitNames -> Nat]
    <3>1. spent' = spent \/ Spend("errors")
      BY <1>4 DEF HandleTrigger
    <3>. QED
      BY <1>1, <3>1, SpendTypes DEF StoreTypeOK, LimitNames
  <2>4. /\ ConfigStep /\ CopyStep
        /\ dc' \in Config /\ dcEvents' \in Seq(Config) /\ upToDate' \subseteq Holders
    <3>1. UNCHANGED configVars \/ Instantiate(FALSE)
      BY <1>4 DEF HandleTrigger
    <3>2. CASE UNCHANGED configVars
      BY <1>1, <2>1, <3>2, SameConfig DEF StoreTypeOK, configVars, cacheVars
    <3>3. CASE Instantiate(FALSE)
      BY <1>1, <2>1, <3>3, InstantiateKept DEF cacheVars
    <3>. QED
      BY <3>1, <3>2, <3>3
  <2>5. StoreTypeOK'
    BY <1>1, <2>1, <2>3, <2>4 DEF StoreTypeOK, deploymentVars, cacheVars
  <2>6. TriggerTypeOK'
    BY <1>1, <2>1, <2>2, TriggerTypes
  <2>. QED
    BY <1>2, <2>1, <2>4, <2>5, <2>6, SameDeployments, SameWork DEF cacheVars, TypeOK, SoundStep
<1>. QED
  BY <1>3, <1>4 DEF TriggerStep

-------------------------------------------------------------------------------
(* Handle: its first call *)

\* Whatever a worker begins with is in order if what it is to write is.
LEMMA StartKept ==
    ASSUME Inv, NEW next \in Work, Start(next), UNCHANGED triggerVars,
           next.config = dcCache, next.listed \in {NoRcs, rcCache},
           \A v \in Versions : next.active = v => rcCache[v].phase = "Complete",
           next.step = "create" => dcCache.lv # 0,
           next.step = "scale" =>
             next.todo # {} /\ \A v \in next.todo : v <= dcCache.lv,
           next.step \in {"cancel", "prune"} => \A v \in next.todo : v < dcCache.lv,
           next.step = "prune" => next.todo # {}
    PROVE  TypeOK' /\ SoundStep
<1>1. StoreTypeOK /\ ControllerTypeOK /\ TriggerTypeOK
  BY DEF Inv, TypeOK
<1>2. /\ work.step = "idle" /\ work' = next /\ queued' = FALSE
      /\ upToDate' = (upToDate \ {"controller"})
                       \cup (IF dcEvents = <<>> THEN {"controller"} ELSE {})
      /\ UNCHANGED <<dc, dcEvents, deploymentVars, cacheVars, rollout, spent, delayed, requeues>>
  BY DEF Start
<1>3. StoreTypeOK'
  BY <1>1, <1>2 DEF StoreTypeOK, deploymentVars, cacheVars, Holders
<1>4. ControllerTypeOK'
  BY <1>1, <1>2 DEF ControllerTypeOK
<1>5. TriggerTypeOK'
  BY <1>1 DEF TriggerTypeOK, triggerVars
<1>6. Begins
  BY <1>2 DEF Begins, cacheVars
<1>7. ConfigStep /\ CopyStep /\ WorkStep
  BY <1>2, <1>6 DEF ConfigStep, CopyStep, WorkStep, cacheVars
<1>8. RcStep
  BY <1>2, SameDeployments DEF cacheVars
<1>9. WorkAhead
  BY <1>2 DEF WorkAhead
<1>. QED
  BY <1>3, <1>4, <1>5, <1>7, <1>8, <1>9 DEF TypeOK, SoundStep

LEMMA ProgressTypes ==
    ASSUME NEW config \in Config, NEW view \in [Versions -> Deployment],
           NEW p \in ProgressOf(config, view)
    PROVE  p \in Progress
<1>1. CASE ~LatestIsDeployed(config.lv, view)
  BY <1>1 DEF ProgressOf, Config
<1>2. CASE LatestIsDeployed(config.lv, view)
  <2>1. config.lv \in Versions
    BY <1>2, MaxIsNat DEF LatestIsDeployed, Config
  <2>2. view[config.lv].phase \in RcPhases
    BY <2>1 DEF Deployment
  <2>3. Existing(view) \subseteq Versions /\ Existing(view) # {}
        /\ HighestOf(Existing(view)) = config.lv
    BY <1>2 DEF Existing, LatestIsDeployed
  <2>4. config.lv \in Existing(view)
    BY <2>3, HighestIsOne
  <2>5. view[config.lv].phase # "Absent"
    BY <2>4 DEF Existing
  <2>. QED
    BY <1>2, <2>2, <2>5 DEF ProgressOf, Config, Progress, RcPhases, IsInFlightPhase
<1>. QED
  BY <1>1, <1>2

LEMMA LastCallsTypes ==
    ASSUME NEW config \in Config, NEW old, old \subseteq Versions, NEW p \in Progress
    PROVE  LastCalls(config, old, p) \in Work
  BY Constants DEF LastCalls, Work, Steps

LEMMA StartLastKept ==
    ASSUME Inv, NEW listed \in [Versions -> Deployment], NEW old,
           old \subseteq Versions, \A v \in old : v < dcCache.lv,
           StartLast(listed, old), UNCHANGED triggerVars
    PROVE  TypeOK' /\ SoundStep
<1>1. dcCache \in Config
  BY DEF Inv, TypeOK, StoreTypeOK
<1>2. PICK p \in ProgressOf(dcCache, listed) : Start(LastCalls(dcCache, old, p))
  BY DEF StartLast
<1>3. p \in Progress
  BY <1>1, ProgressTypes
<1>. DEFINE next == LastCalls(dcCache, old, p)
<1>4. /\ next \in Work /\ next.config = dcCache /\ next.listed = NoRcs /\ next.todo = old
      /\ next.active = 0 /\ 0 \notin Versions
      /\ old = {} => next.step = "status"
      /\ old # {} => next.step = "prune"
  <2>1. next \in Work
    BY <1>1, <1>3, LastCallsTypes
  <2>2. 0 \notin Versions
    BY MaxIsNat
  <2>. QED
    BY <2>1, <2>2 DEF LastCalls
<1>5. Start(next)
  BY <1>2
<1>. HIDE DEF next
<1>. QED
  BY <1>4, <1>5, StartKept

LEMMA StartWithKept ==
    ASSUME Inv, NEW step \in {"cancel", "scale", "create"}, NEW listed \in {NoRcs, rcCache},
           NEW active \in {0, ActiveVersion(rcCache)},
           NEW todo, todo \subseteq Versions, StartWith(step, listed, active, todo),
           UNCHANGED triggerVars,
           step = "create" => dcCache.lv # 0,
           step = "scale" => todo # {} /\ \A v \in todo : v <= dcCache.lv,
           step = "cancel" => \A v \in todo : v < dcCache.lv
    PROVE  TypeOK' /\ SoundStep
<1>. DEFINE next == [step |-> step, config |-> dcCache, listed |-> listed, active |-> active,
                     todo |-> todo, progress |-> "none"]
<1>0. DOMAIN rcCache = Versions /\ 0 \in 0..MaxVersion /\ 0 \notin Versions
      /\ Versions \subseteq 0..MaxVersion
  BY MaxIsNat, Constants DEF Inv, TypeOK, StoreTypeOK
<1>1. dcCache \in Config /\ listed \in [Versions -> Deployment] /\ active \in 0..MaxVersion
  BY <1>0, ActiveIsComplete, Constants DEF Inv, TypeOK, StoreTypeOK
<1>2. next \in Work
  BY <1>1 DEF Work, Steps, Progress
<1>3. Start(next)
  BY DEF StartWith
<1>4. /\ next.step = step /\ next.config = dcCache /\ next.listed = listed
      /\ next.active = active /\ next.todo = todo
  OBVIOUS
<1>5. \A v \in Versions : active = v => rcCache[v].phase = "Complete"
  BY <1>0, ActiveIsComplete
<1>. HIDE DEF next
<1>. QED
  BY <1>2, <1>3, <1>4, <1>5, StartKept

\* What the cache shows is not ahead of the config in it.
LEMMA ShownIsSeen ==
    ASSUME Inv
    PROVE  /\ rcCache \in [Versions -> Deployment] /\ dcCache \in Config /\ dcCache.lv \in Nat
           /\ \A v \in Versions : Exists(rcCache[v]) => v <= dcCache.lv
  BY Numbers DEF Inv, TypeOK, StoreTypeOK, RolloutIsSound, VersionsAreSeen, Seen

\* Nothing in the cache is the latest version if that is not deployed.
LEMMA NotDeployed ==
    ASSUME Inv, Active, ~IsDeployed, NEW v \in Versions, Exists(rcCache[v])
    PROVE  v < dcCache.lv
<1>. DEFINE h == HighestOf(Existing(rcCache))
<1>1. Existing(rcCache) \subseteq Versions /\ v \in Existing(rcCache)
  BY ShownIsSeen DEF Existing, Exists
<1>2. h \in Existing(rcCache) /\ v <= h
  BY <1>1, HighestIsOne
<1>3. h \in Versions /\ Exists(rcCache[h])
  BY <1>1, <1>2 DEF Existing, Exists
<1>4. h <= dcCache.lv /\ h # dcCache.lv
  BY <1>1, <1>3, ShownIsSeen DEF Active, IsDeployed, LatestIsDeployed
<1>5. h \in Nat /\ v \in Nat /\ dcCache.lv \in Nat
  BY <1>3, MaxIsNat, ShownIsSeen
<1>. HIDE DEF h
<1>. QED
  BY <1>2, <1>4, <1>5

LEMMA PrunedAhead ==
    ASSUME Inv
    PROVE  /\ ToPrune(dcCache, rcCache) \subseteq Versions
           /\ \A v \in ToPrune(dcCache, rcCache) : v < dcCache.lv
  BY ShownIsSeen, PrunedIsBehind

LEMMA BeginKept ==
    ASSUME Inv, Begin, UNCHANGED triggerVars
    PROVE  TypeOK' /\ SoundStep
<1>1. CASE HandleInactive
  <2>1. NoRcs \in [Versions -> Deployment]
    BY Constants
  <2>. QED
    BY <1>1, <2>1, ShownIsSeen, StartLastKept DEF HandleInactive
<1>2. CASE HandleSuperseded
  <2>. DEFINE todo == {v \in InFlight(rcCache) : ~rcCache[v].cancelled}
  <2>1. todo \subseteq Versions /\ \A v \in todo : Exists(rcCache[v])
    BY ShownIsSeen DEF InFlight, Exists, IsInFlightPhase
  <2>2. \A v \in todo : v < dcCache.lv
    BY <1>2, <2>1, NotDeployed DEF HandleSuperseded
  <2>3. StartWith("cancel", NoRcs, 0, todo)
    BY <1>2 DEF HandleSuperseded
  <2>. HIDE DEF todo
  <2>. QED
    BY <2>1, <2>2, <2>3, StartWithKept
<1>3. CASE HandlePaused
  BY <1>3, ShownIsSeen, PrunedAhead, StartLastKept DEF HandlePaused
<1>4. CASE HandleNewVersion
  <2>1. StartWith("create", rcCache, 0, {}) /\ dcCache.lv # 0
    BY <1>4 DEF HandleNewVersion, Active
  <2>. QED
    BY <2>1, StartWithKept
<1>5. CASE HandleRunning
  BY <1>5, ShownIsSeen, StartLastKept DEF HandleRunning
<1>6. CASE HandleEnded
  <2>. DEFINE diverging == Diverging(dcCache, rcCache)
  <2>1. CASE diverging = {}
    <3>1. StartLast(rcCache, ToPrune(dcCache, rcCache))
      BY <1>6, <2>1 DEF HandleEnded
    <3>. QED
      BY <3>1, ShownIsSeen, PrunedAhead, StartLastKept
  <2>2. CASE diverging # {}
    <3>1. StartWith("scale", rcCache, ActiveVersion(rcCache), diverging)
      BY <1>6, <2>2 DEF HandleEnded
    <3>2. diverging \subseteq Versions /\ \A v \in diverging : v <= dcCache.lv
      BY ShownIsSeen DEF Diverging, Existing, Exists
    <3>. HIDE DEF diverging
    <3>. QED
      BY <2>2, <3>1, <3>2, StartWithKept
  <2>. QED
    BY <2>1, <2>2
<1>. QED
  BY <1>1, <1>2, <1>3, <1>4, <1>5, <1>6 DEF Begin

-------------------------------------------------------------------------------
(* Handle: its calls *)

LEMMA WorkTypes ==
    ASSUME Inv
    PROVE  /\ work \in Work /\ work.config \in Config /\ work.config.lv \in Nat
           /\ work.listed \in [Versions -> Deployment] /\ work.todo \subseteq Versions
           /\ work.progress \in Progress
           /\ StoreTypeOK /\ ControllerTypeOK /\ TriggerTypeOK
           /\ rc \in [Versions -> Deployment] /\ rcCache \in [Versions -> Deployment]
  BY Numbers DEF Inv, TypeOK, StoreTypeOK, ControllerTypeOK, Work

\* Whatever a call does, the step is sound if what it writes and what is left are.
LEMMA CallKept ==
    ASSUME Inv, work.step # "idle", UNCHANGED <<cacheVars, rollout, triggerVars>>,
           ConfigStep, CopyStep, RcStep, ControllerTypeOK',
           dc' \in Config, dcEvents' \in Seq(Config), upToDate' \subseteq Holders,
           rc' \in [Versions -> Deployment],
           rcEvents' \in Seq([key : Versions, object : Deployment]),
           spent' \in [LimitNames -> Nat],
           \/ work' = NoWork
           \/ /\ work'.config = work.config /\ work'.step # "create"
              /\ work'.active \in {work.active, 0}
              /\ work'.listed \in {work.listed, NoRcs} \/ Listed
              /\ WorkAhead
    PROVE  TypeOK' /\ SoundStep
<1>1. StoreTypeOK /\ TriggerTypeOK
  BY DEF Inv, TypeOK
<1>2. StoreTypeOK' /\ TriggerTypeOK'
  BY <1>1 DEF StoreTypeOK, cacheVars, TriggerTypeOK, triggerVars
<1>3. WorkStep /\ WorkAhead
  BY NoMoreWork DEF WorkStep, Calls, cacheVars
<1>. QED
  BY <1>2, <1>3 DEF TypeOK, SoundStep

\* An update made from the cached copy changes what it is to change.
LEMMA FreshIsStored ==
    ASSUME Inv, NEW v \in Versions, CanWrite(v)
    PROVE  rcCache[v] = rc[v] /\ Exists(rc[v])
  BY DEF Inv, RolloutIsSound, DeploymentsFollow, CanWrite

LEMMA SpendKept ==
    ASSUME Inv, spent' = spent \/ Spend("errors")
    PROVE  spent' \in [LimitNames -> Nat]
  BY SpendTypes DEF Inv, TypeOK, StoreTypeOK, LimitNames

LEMMA ConfigVarsTypes ==
    ASSUME Inv, UNCHANGED <<configVars, dcCache>>
    PROVE  /\ ConfigStep /\ CopyStep
           /\ dc' \in Config /\ dcEvents' \in Seq(Config) /\ upToDate' \subseteq Holders
  BY SameConfig DEF Inv, TypeOK, StoreTypeOK, configVars

LEMMA DeploymentVarsTypes ==
    ASSUME Inv, UNCHANGED <<deploymentVars, rcCache>>
    PROVE  /\ RcStep
           /\ rc' \in [Versions -> Deployment]
           /\ rcEvents' \in Seq([key : Versions, object : Deployment])
  BY SameDeployments DEF Inv, TypeOK, StoreTypeOK, deploymentVars

LEMMA StoreTypes ==
    ASSUME Inv, NEW v \in Versions, NEW o \in Deployment, StoreRc(v, o), MayStore(v, o),
           rcCache' = rcCache
    PROVE  /\ RcStep
           /\ rc' \in [Versions -> Deployment]
           /\ rcEvents' \in Seq([key : Versions, object : Deployment])
  BY NewDeployment, StoreRcTypes DEF Inv, TypeOK

LEMMA CancelOneKept ==
    ASSUME Inv, CancelOne, UNCHANGED triggerVars
    PROVE  TypeOK' /\ SoundStep
<1>. DEFINE next == [work EXCEPT !.todo = work.todo \ {Turn}]
<1>1. /\ work.step = "cancel" /\ work.todo # {} /\ Goto(next)
      /\ UNCHANGED <<configVars, cacheVars, rollout>>
  BY DEF CancelOne
<1>2. Turn \in work.todo /\ Turn \in Versions
  BY <1>1, WorkTypes, HighestIsOne DEF Turn
<1>3. next \in Work /\ next.step = "cancel" /\ next.config = work.config
      /\ next.listed = work.listed /\ next.active = work.active /\ next.todo \subseteq work.todo
  BY <1>1, WorkTypes DEF Work
<1>4. ControllerTypeOK' /\ work' = next
  BY <1>1, <1>3, WorkTypes, QueueTypes DEF Goto
<1>. HIDE DEF next
<1>5. WorkAhead
  <2>1. \A v \in work.todo : v < work.config.lv
    BY <1>1 DEF Inv, RolloutIsSound, WorkIsSound
  <2>. QED
    BY <1>3, <1>4, <2>1 DEF WorkAhead
<1>6. spent' = spent \/ Spend("errors")
  BY DEF CancelOne
<1>7. /\ RcStep /\ rc' \in [Versions -> Deployment]
      /\ rcEvents' \in Seq([key : Versions, object : Deployment])
  <2>. DEFINE o == [rcCache[Turn] EXCEPT !.cancelled = TRUE]
  <2>1. CASE UNCHANGED deploymentVars
    BY <1>1, <2>1, DeploymentVarsTypes DEF cacheVars
  <2>2. CASE CanWrite(Turn) /\ StoreRc(Turn, o)
    <3>1. rcCache[Turn] = rc[Turn] /\ Exists(rc[Turn]) /\ rcCache[Turn] \in Deployment
      BY <1>2, <2>2, FreshIsStored, WorkTypes
    <3>2. o \in Deployment /\ o.phase = rc[Turn].phase
      BY <3>1 DEF Deployment
    <3>3. MayStore(Turn, o)
      BY <3>1, <3>2 DEF MayStore
    <3>. HIDE DEF o
    <3>. QED
      BY <1>1, <1>2, <2>2, <3>2, <3>3, StoreTypes DEF cacheVars
  <2>. QED
    BY <2>1, <2>2 DEF CancelOne
<1>8. /\ ConfigStep /\ CopyStep
      /\ dc' \in Config /\ dcEvents' \in Seq(Config) /\ upToDate' \subseteq Holders
  BY <1>1, ConfigVarsTypes DEF cacheVars
<1>9. spent' \in [LimitNames -> Nat]
  BY <1>6, SpendKept
<1>. QED
  BY <1>1, <1>3, <1>4, <1>5, <1>7, <1>8, <1>9, CallKept

LEMMA AwaitKept ==
    ASSUME Inv, AwaitCancellations, UNCHANGED triggerVars
    PROVE  TypeOK' /\ SoundStep
<1>1. /\ work.step # "idle" /\ Fail /\ work' = NoWork
      /\ UNCHANGED <<configVars, deploymentVars, cacheVars, rollout, spent>>
  BY DEF AwaitCancellations, Fail, Done, storeVars
<1>2. ControllerTypeOK'
  BY <1>1, WorkTypes, QueueTypes
<1>3. spent' \in [LimitNames -> Nat]
  BY <1>1, SpendKept
<1>. QED
  BY <1>1, <1>2, <1>3, ConfigVarsTypes, DeploymentVarsTypes, CallKept DEF cacheVars

\* The last calls follow from what is listed.
LEMMA LastCallsAhead ==
    ASSUME Inv, NEW old, old \subseteq Versions, \A v \in old : v < work.config.lv,
           NEW p \in Progress, Goto(LastCalls(work.config, old, p))
    PROVE  /\ ControllerTypeOK' /\ WorkAhead /\ work'.active = 0
           /\ work'.config = work.config /\ work'.step # "create" /\ work'.listed = NoRcs
<1>1. LastCalls(work.config, old, p) \in Work
  BY WorkTypes, LastCallsTypes
<1>2. ControllerTypeOK'
  BY <1>1, WorkTypes, QueueTypes
<1>3. /\ work'.config = work.config /\ work'.listed = NoRcs /\ work'.todo = old
      /\ work'.active = 0
      /\ work'.step = IF old = {} THEN "status" ELSE "prune"
  BY DEF Goto, LastCalls
<1>. QED
  BY <1>2, <1>3 DEF WorkAhead

LEMMA TargetTypes ==
    ASSUME NEW config \in Config, NEW active, NEW v
    PROVE  Target(config, active, v) \in {0, 1}
  BY DEF Target, Config

LEMMA ScaleOneKept ==
    ASSUME Inv, ScaleOne, UNCHANGED triggerVars
    PROVE  TypeOK' /\ SoundStep
<1>. DEFINE n == Target(work.config, work.active, Turn)
            scaled == [rcCache[Turn] EXCEPT !.replicas = n]
            listed == [work.listed EXCEPT ![Turn] = scaled]
<1>1. /\ work.step = "scale" /\ work.todo # {}
      /\ UNCHANGED <<configVars, cacheVars, rollout>>
  BY DEF ScaleOne
<1>2. Turn \in work.todo /\ Turn \in Versions
  BY <1>1, WorkTypes, HighestIsOne DEF Turn
<1>3. n \in {0, 1}
  BY WorkTypes, TargetTypes
<1>4. /\ \A v \in work.todo : v <= work.config.lv
      /\ \A v \in Versions : Exists(work.listed[v]) => v <= work.config.lv
  BY <1>1 DEF Inv, RolloutIsSound, WorkIsSound
<1>5. /\ ConfigStep /\ CopyStep
      /\ dc' \in Config /\ dcEvents' \in Seq(Config) /\ upToDate' \subseteq Holders
  BY <1>1, ConfigVarsTypes DEF cacheVars
<1>6. CASE Fail /\ UNCHANGED deploymentVars /\ (spent' = spent \/ Spend("errors"))
  <2>1. ControllerTypeOK' /\ work' = NoWork
    BY <1>6, WorkTypes, QueueTypes DEF Fail, Done
  <2>2. spent' \in [LimitNames -> Nat]
    BY <1>6, SpendKept
  <2>. QED
    BY <1>1, <1>5, <1>6, <2>1, <2>2, DeploymentVarsTypes, CallKept DEF cacheVars
<1>7. CASE /\ CanWrite(Turn) /\ StoreRc(Turn, scaled) /\ spent' = spent
           /\ IF work.todo # {Turn}
              THEN Goto([work EXCEPT !.todo = work.todo \ {Turn}, !.listed = listed])
              ELSE \E progress \in ProgressOf(work.config, listed) :
                     Goto(LastCalls(work.config, ToPrune(work.config, listed), progress))
  <2>1. rcCache[Turn] = rc[Turn] /\ Exists(rc[Turn]) /\ rcCache[Turn] \in Deployment
    BY <1>2, <1>7, FreshIsStored, WorkTypes
  <2>2. scaled \in Deployment /\ scaled.phase = rc[Turn].phase
    BY <1>3, <2>1 DEF Deployment
  <2>3. MayStore(Turn, scaled)
    BY <2>1, <2>2 DEF MayStore
  <2>4. listed \in [Versions -> Deployment] /\ DOMAIN listed = Versions
    BY <2>2, WorkTypes
  <2>5. \A v \in Versions : Exists(listed[v]) => v <= work.config.lv
    BY <1>2, <1>4, WorkTypes
  <2>6. /\ RcStep /\ rc' \in [Versions -> Deployment]
        /\ rcEvents' \in Seq([key : Versions, object : Deployment])
    <3>. HIDE DEF scaled
    <3>. QED
      BY <1>1, <1>2, <1>7, <2>2, <2>3, StoreTypes DEF cacheVars
  <2>7. spent' \in [LimitNames -> Nat]
    BY <1>7, SpendKept
  <2>8. CASE work.todo # {Turn}
    <3>. DEFINE next == [work EXCEPT !.todo = work.todo \ {Turn}, !.listed = listed]
    <3>1. /\ next \in Work /\ next.step = "scale" /\ next.config = work.config
          /\ next.todo = work.todo \ {Turn} /\ next.listed = listed
          /\ next.active = work.active
      <4>. HIDE DEF listed
      <4>. QED
        BY <1>1, <2>4, WorkTypes DEF Work
    <3>2. Goto(next)
      BY <1>7, <2>8
    <3>3. ControllerTypeOK' /\ work' = next
      BY <3>1, <3>2, WorkTypes, QueueTypes DEF Goto
    <3>4. Listed
      <4>1. work'.listed = listed
        BY <3>1, <3>3
      <4>. QED
        BY <1>2, <1>3, <1>4, <1>7, <4>1 DEF Listed, CanWrite
    <3>5. WorkAhead
      <4>1. work'.todo # {} /\ \A v \in work'.todo : v <= work'.config.lv
        BY <1>2, <1>4, <2>8, <3>1, <3>3
      <4>2. work'.step = "scale"
        BY <3>1, <3>3
      <4>. QED
        BY <4>1, <4>2 DEF WorkAhead
    <3>6. work'.config = work.config /\ work'.step # "create" /\ work'.active = work.active
      BY <3>1, <3>3
    <3>. QED
      BY <1>1, <1>5, <2>6, <2>7, <3>3, <3>4, <3>5, <3>6, CallKept
  <2>9. CASE work.todo = {Turn}
    <3>1. PICK p \in ProgressOf(work.config, listed) :
            Goto(LastCalls(work.config, ToPrune(work.config, listed), p))
      BY <1>7, <2>9
    <3>. DEFINE old == ToPrune(work.config, listed)
    <3>. HIDE DEF listed
    <3>2. old \subseteq Versions /\ \A v \in old : v < work.config.lv
      BY <2>4, <2>5, WorkTypes, PrunedIsBehind
    <3>3. p \in Progress
      BY <2>4, WorkTypes, ProgressTypes
    <3>4. /\ ControllerTypeOK' /\ WorkAhead /\ work'.active = 0
          /\ work'.config = work.config /\ work'.step # "create" /\ work'.listed = NoRcs
      BY <3>1, <3>2, <3>3, LastCallsAhead
    <3>. QED
      BY <1>1, <1>5, <2>6, <2>7, <3>4, CallKept
  <2>. QED
    BY <2>8, <2>9
<1>. QED
  BY <1>6, <1>7 DEF ScaleOne

LEMMA PruneOneKept ==
    ASSUME Inv, PruneOne, UNCHANGED triggerVars
    PROVE  TypeOK' /\ SoundStep
<1>. DEFINE v == CHOOSE v \in work.todo : \A w \in work.todo : v <= w
            old == work.todo \ {v}
<1>1. /\ work.step = "prune" /\ Goto(LastCalls(work.config, old, work.progress))
      /\ UNCHANGED <<configVars, cacheVars, rollout>>
      /\ \/ StoreRc(v, NoRc) /\ UNCHANGED spent
         \/ UNCHANGED <<deploymentVars, spent>>
         \/ Spend("errors") /\ UNCHANGED deploymentVars
  BY DEF PruneOne
<1>2. /\ work.todo # {} /\ work.todo \subseteq Versions
      /\ \A w \in work.todo : w < work.config.lv
  BY <1>1, WorkTypes DEF Inv, RolloutIsSound, WorkIsSound
<1>3. v \in work.todo /\ v \in Versions
  BY <1>2, LowestIsOne
<1>4. old \subseteq Versions /\ \A w \in old : w < work.config.lv
  BY <1>2
<1>. HIDE DEF v, old
<1>5. /\ ControllerTypeOK' /\ WorkAhead /\ work'.active = 0
      /\ work'.config = work.config /\ work'.step # "create" /\ work'.listed = NoRcs
  BY <1>1, <1>4, WorkTypes, LastCallsAhead
<1>6. spent' \in [LimitNames -> Nat]
  BY <1>1, SpendKept
<1>7. /\ RcStep /\ rc' \in [Versions -> Deployment]
      /\ rcEvents' \in Seq([key : Versions, object : Deployment])
  <2>1. CASE UNCHANGED deploymentVars
    BY <1>1, <2>1, DeploymentVarsTypes DEF cacheVars
  <2>2. CASE StoreRc(v, NoRc)
    <3>1. MayStore(v, NoRc)
      BY <1>2, <1>3, <1>5, Constants DEF MayStore
    <3>. QED
      BY <1>1, <1>3, <2>2, <3>1, Constants, StoreTypes DEF cacheVars
  <2>. QED
    BY <1>1, <2>1, <2>2
<1>8. /\ ConfigStep /\ CopyStep
      /\ dc' \in Config /\ dcEvents' \in Seq(Config) /\ upToDate' \subseteq Holders
  BY <1>1, ConfigVarsTypes DEF cacheVars
<1>. QED
  BY <1>1, <1>5, <1>6, <1>7, <1>8, CallKept

\* The status is written from the copy that is stored, so that it takes no version back.
LEMMA StatusKept ==
    ASSUME Inv, work.step # "idle", NEW p \in Progress,
           StatusWritten(p) \/ UNCHANGED configVars, dcCache' = dcCache
    PROVE  /\ ConfigStep /\ CopyStep
           /\ dc' \in Config /\ dcEvents' \in Seq(Config) /\ upToDate' \subseteq Holders
<1>. DEFINE c == [dc EXCEPT !.lv = work.config.lv, !.synced = TRUE, !.progress = p]
<1>1. CASE UNCHANGED configVars
  BY <1>1, ConfigVarsTypes
<1>2. CASE "controller" \in upToDate /\ StoreDc(c)
  <2>1. work.config = dc /\ dc \in Config /\ StoreTypeOK /\ dc.lv \in Nat
    BY <1>2, Numbers DEF Inv, TypeOK, StoreTypeOK, RolloutIsSound, WorkIsSound
  <2>2. c \in Config /\ c.lv = dc.lv
    BY <2>1 DEF Config
  <2>3. dc.lv <= c.lv
    BY <2>1, <2>2
  <2>. HIDE DEF c
  <2>. QED
    BY <1>2, <2>1, <2>2, <2>3, StoreDcTypes, NewConfig
<1>. QED
  BY <1>1, <1>2 DEF StatusWritten

LEMMA CreateKept ==
    ASSUME Inv, Create, UNCHANGED triggerVars
    PROVE  TypeOK' /\ SoundStep
<1>. DEFINE v == work.config.lv
            made == NewRc(work.config.tmpl)
            listed == [work.listed EXCEPT ![v] = made]
<1>1. work.step = "create" /\ UNCHANGED <<cacheVars, rollout>>
  BY DEF Create
<1>2. /\ v \in Versions /\ v \in Nat /\ work.config.tmpl \in Templates
      /\ \A w \in Versions : Exists(work.listed[w]) => w <= work.config.lv
  <2>1. v # 0 /\ v \in 0..MaxVersion /\ work.config.tmpl \in Templates
    BY <1>1, WorkTypes DEF Inv, RolloutIsSound, WorkIsSound, Config
  <2>2. \A w \in Versions : Exists(work.listed[w]) => w <= work.config.lv
    BY DEF Inv, RolloutIsSound, WorkIsSound
  <2>. QED
    BY <2>1, <2>2, MaxIsNat
<1>3. made \in Deployment /\ Exists(made) /\ made.phase = "New"
  BY <1>2, MadeIsDeployment
<1>4. listed \in [Versions -> Deployment] /\ DOMAIN listed = Versions
  BY <1>3, WorkTypes
<1>5. \A w \in Versions : Exists(listed[w]) => w <= work.config.lv
  BY <1>2, WorkTypes
<1>. HIDE DEF made
<1>6. CASE /\ ~Exists(rc[v]) /\ StoreRc(v, made)
           /\ Goto(LastCalls(work.config, ToPrune(work.config, listed), "created"))
           /\ UNCHANGED <<configVars, spent>>
  <2>. DEFINE old == ToPrune(work.config, listed)
  <2>. HIDE DEF listed
  <2>1. old \subseteq Versions /\ \A w \in old : w < work.config.lv
    BY <1>4, <1>5, WorkTypes, PrunedIsBehind
  <2>2. /\ ControllerTypeOK' /\ WorkAhead /\ work'.active = 0
        /\ work'.config = work.config /\ work'.step # "create" /\ work'.listed = NoRcs
    <3>1. "created" \in Progress
      BY DEF Progress
    <3>. QED
      BY <1>6, <2>1, <3>1, LastCallsAhead
  <2>3. MayStore(v, made)
    BY <1>1, <1>3, <1>6 DEF MayStore, Exists
  <2>4. /\ RcStep /\ rc' \in [Versions -> Deployment]
        /\ rcEvents' \in Seq([key : Versions, object : Deployment])
    BY <1>1, <1>2, <1>3, <1>6, <2>3, StoreTypes DEF cacheVars
  <2>5. spent' \in [LimitNames -> Nat]
    BY <1>6, SpendKept
  <2>6. /\ ConfigStep /\ CopyStep
        /\ dc' \in Config /\ dcEvents' \in Seq(Config) /\ upToDate' \subseteq Holders
    BY <1>1, <1>6, ConfigVarsTypes DEF cacheVars
  <2>. QED
    BY <1>1, <2>2, <2>4, <2>5, <2>6, CallKept
<1>7. CASE /\ Goto(LastCalls(work.config, {}, work.config.progress))
           /\ UNCHANGED <<configVars, deploymentVars, spent>>
  <2>1. work.config.progress \in Progress
    BY WorkTypes DEF Config
  <2>2. /\ ControllerTypeOK' /\ WorkAhead /\ work'.active = 0
        /\ work'.config = work.config /\ work'.step # "create" /\ work'.listed = NoRcs
    BY <1>7, <2>1, LastCallsAhead
  <2>3. spent' \in [LimitNames -> Nat]
    BY <1>7, SpendKept
  <2>. QED
    BY <1>1, <1>7, <2>2, <2>3, ConfigVarsTypes, DeploymentVarsTypes, CallKept DEF cacheVars
<1>8. CASE /\ Spend("errors") /\ Fail /\ UNCHANGED deploymentVars
           /\ IF StatusChanges("rejected") THEN StatusWritten("rejected")
              ELSE UNCHANGED configVars
  <2>1. /\ ConfigStep /\ CopyStep
        /\ dc' \in Config /\ dcEvents' \in Seq(Config) /\ upToDate' \subseteq Holders
    <3>1. "rejected" \in Progress
      BY DEF Progress
    <3>. QED
      BY <1>1, <1>8, <3>1, StatusKept DEF cacheVars
  <2>2. ControllerTypeOK' /\ work' = NoWork
    BY <1>8, WorkTypes, QueueTypes DEF Fail, Done
  <2>3. spent' \in [LimitNames -> Nat]
    BY <1>8, SpendKept
  <2>. QED
    BY <1>1, <1>8, <2>1, <2>2, <2>3, DeploymentVarsTypes, CallKept DEF cacheVars
<1>. QED
  BY <1>6, <1>7, <1>8 DEF Create, made

LEMMA WriteStatusKept ==
    ASSUME Inv, WriteStatus, UNCHANGED triggerVars
    PROVE  TypeOK' /\ SoundStep
<1>1. work.step = "status" /\ UNCHANGED <<deploymentVars, cacheVars, rollout>>
  BY DEF WriteStatus
<1>2. Succeed \/ Fail
  BY DEF WriteStatus
<1>3. ControllerTypeOK' /\ work' = NoWork
  BY <1>2, WorkTypes, QueueTypes DEF Succeed, Fail, Done
<1>4. spent' \in [LimitNames -> Nat]
  BY SpendKept DEF WriteStatus
<1>5. /\ ConfigStep /\ CopyStep
      /\ dc' \in Config /\ dcEvents' \in Seq(Config) /\ upToDate' \subseteq Holders
  <2>1. StatusWritten(work.progress) \/ UNCHANGED configVars
    BY DEF WriteStatus
  <2>. QED
    BY <1>1, <2>1, WorkTypes, StatusKept DEF cacheVars
<1>. QED
  BY <1>1, <1>3, <1>4, <1>5, DeploymentVarsTypes, CallKept DEF cacheVars

LEMMA ControllerKept ==
    ASSUME Inv, ControllerStep
    PROVE  TypeOK' /\ SoundStep
<1>1. UNCHANGED triggerVars /\ (Handle \/ DelayElapses \/ PodSeen)
  BY DEF ControllerStep
<1>2. CASE Handle
  BY <1>1, <1>2, BeginKept, CancelOneKept, AwaitKept, ScaleOneKept, CreateKept, PruneOneKept,
     WriteStatusKept DEF Handle
<1>3. CASE DelayElapses \/ PodSeen
  <2>1. UNCHANGED <<configVars, deploymentVars, cacheVars, rollout, work>>
    BY <1>3 DEF DelayElapses, PodSeen, Enqueue, storeVars
  <2>2. spent' \in [LimitNames -> Nat]
    BY <1>3, WorkTypes, SpendTypes DEF DelayElapses, PodSeen, storeVars, LimitNames, StoreTypeOK
  <2>3. StoreTypeOK' /\ ControllerTypeOK' /\ TriggerTypeOK'
    <3>1. queued' \in BOOLEAN /\ delayed' \in BOOLEAN /\ requeues' = requeues
      BY <1>3, WorkTypes DEF DelayElapses, PodSeen, Enqueue, ControllerTypeOK
    <3>. QED
      BY <1>1, <2>1, <2>2, <3>1, WorkTypes
      DEF StoreTypeOK, ControllerTypeOK, TriggerTypeOK, configVars, deploymentVars, cacheVars,
          triggerVars
  <2>. QED
    BY <2>1, <2>3, SameWork, SameConfig, SameDeployments DEF TypeOK, SoundStep, cacheVars
<1>. QED
  BY <1>1, <1>2, <1>3

LEMMA NextKept ==
    ASSUME Inv, Next
    PROVE  TypeOK' /\ SoundStep
  BY ConfigDeliveredKept, DeploymentDeliveredKept, MasterRestartsKept, ControllerKept,
     TriggerKept, EnvironmentKept
  DEF Next

LEMMA SameState ==
    ASSUME Inv, UNCHANGED vars
    PROVE  TypeOK' /\ SoundStep
<1>1. UNCHANGED <<dc, dcEvents, upToDate, rc, rcEvents, dcCache, rcCache, rollout, spent,
                  controllerVars, triggerVars>>
  BY DEF vars, storeVars, configVars, deploymentVars, cacheVars
<1>2. StoreTypeOK' /\ ControllerTypeOK' /\ TriggerTypeOK'
  BY <1>1 DEF Inv, TypeOK, StoreTypeOK, ControllerTypeOK, TriggerTypeOK, controllerVars,
              triggerVars
<1>3. ConfigStep /\ CopyStep /\ RcStep
  BY <1>1, SameConfig, SameDeployments DEF deploymentVars, configVars
<1>4. work' = work
  BY <1>1 DEF controllerVars
<1>. QED
  BY <1>2, <1>3, <1>4, SameWork DEF TypeOK, SoundStep

-------------------------------------------------------------------------------
(* The invariant *)

LEMMA InitTypes ==
    ASSUME Init
    PROVE  TypeOK
<1>1. dc \in Config
  BY Constants DEF Init, StoreInit, Config, Progress
<1>2. StoreTypeOK
  BY <1>1, Constants, EmptySeq DEF Init, StoreInit, StoreTypeOK, LimitNames, Holders
<1>3. ControllerTypeOK
  <2>1. 0 \in 0..MaxRetries
    BY ControllerAssumption
  <2>. QED
    BY <2>1, Constants DEF Init, ControllerInit, ControllerTypeOK
<1>4. TriggerTypeOK
  <2>1. 0 \in 0..MaxTriggerRetries
    BY TriggerAssumption
  <2>. QED
    BY <2>1 DEF Init, TriggerInit, TriggerTypeOK
<1>. QED
  BY <1>2, <1>3, <1>4 DEF TypeOK

LEMMA InitSound == Init => Inv
<1>. SUFFICES ASSUME Init PROVE Inv
  OBVIOUS
<1>1. TypeOK
  BY InitTypes
<1>2. /\ dcCache = dc /\ rcCache = rc /\ dcEvents = <<>> /\ rcEvents = <<>>
      /\ rc = NoRcs /\ upToDate = {} /\ work = NoWork
  BY DEF Init, StoreInit, ControllerInit
<1>3. \A v \in Versions : rc[v] = NoRc /\ NoRcs[v] = NoRc
  BY <1>2 DEF NoRcs
<1>4. DOMAIN dcEvents = {} /\ DOMAIN rcEvents = {}
  BY <1>2
<1>5. NoRc.phase # "Complete" /\ ~Exists(NoRc)
  BY DEF NoRc, Exists
<1>6. /\ work.step = "idle" /\ work.config = NoConfig /\ work.listed = NoRcs
      /\ work.active = 0 /\ 0 \notin Versions
      /\ work.config.lv = 0 /\ dcCache.lv \in Nat
  BY <1>1, <1>2, MaxIsNat, Numbers DEF NoWork, NoConfig
<1>7. ConfigFollows
  BY <1>2, <1>4 DEF ConfigFollows
<1>8. DeploymentsFollow
  BY <1>2, <1>4 DEF DeploymentsFollow
<1>9. VersionsAreSeen
  BY <1>2, <1>3, <1>4, <1>5, <1>6 DEF VersionsAreSeen
<1>10. WorkIsSound
  BY <1>2, <1>3, <1>5, <1>6 DEF WorkIsSound
<1>11. CompleteStays
  BY <1>2, <1>3, <1>4, <1>5, <1>6 DEF CompleteStays
<1>. QED
  BY <1>1, <1>7, <1>8, <1>9, <1>10, <1>11 DEF Inv, RolloutIsSound

LEMMA InvHolds == Spec => []Inv
<1>1. Inv /\ [Next]_vars => Inv'
  BY NextKept, SameState, SoundStepKeeps
<1>. QED
  BY InitSound, <1>1, PTL DEF Spec

\* The types of all variables are invariant for all templates, versions and limits:
\* neither controller counts a retry too many (handleErr) before it drops the key.
THEOREM TypeCorrect == Spec => []TypeOK
<1>1. Inv => TypeOK
  BY DEF Inv
<1>. QED
  BY InvHolds, <1>1, PTL

\* The inductive invariant: the events lead from each cache to what is stored; a
\* deployment is made only for a version its controller has seen, so that what is
\* listed is never ahead of the config the worker copied; what the worker is to cancel
\* or prune is behind that config; and a deployment that was seen complete is still
\* complete, or pruned for good, if users remove none.
THEOREM RolloutSound == Spec => []RolloutIsSound
<1>1. Inv => RolloutIsSound
  BY DEF Inv
<1>. QED
  BY InvHolds, <1>1, PTL

-------------------------------------------------------------------------------
(* What the controller writes *)

\* A call writes one deployment: it cancels or prunes one behind its config, scales
\* one that is there, or makes one that is not.
MayWrite(v, o) ==
    \/ v < work.config.lv /\ o = [rc[v] EXCEPT !.cancelled = TRUE]
    \/ v < work.config.lv /\ o = NoRc
    \/ /\ work.step = "scale" /\ Exists(rc[v]) /\ Exists(o)
       /\ o = [rc[v] EXCEPT !.replicas = Target(work.config, work.active, v)]
    \/ ~Exists(rc[v]) /\ o = NewRc(work.config.tmpl)

ControllerWrites ==
    \/ rc' = rc
    \/ \E v \in Versions : \E o \in Deployment : rc' = [rc EXCEPT ![v] = o] /\ MayWrite(v, o)

LEMMA CancelWrites ==
    ASSUME Inv, CancelOne
    PROVE  ControllerWrites
<1>. DEFINE o == [rcCache[Turn] EXCEPT !.cancelled = TRUE]
<1>1. CASE UNCHANGED deploymentVars
  BY <1>1 DEF ControllerWrites, deploymentVars
<1>2. CASE CanWrite(Turn) /\ StoreRc(Turn, o)
  <2>1. /\ work.step = "cancel" /\ Turn \in work.todo /\ Turn \in Versions
    BY WorkTypes, HighestIsOne DEF CancelOne, Turn
  <2>2. Turn < work.config.lv
    BY <2>1 DEF Inv, RolloutIsSound, WorkIsSound
  <2>3. rcCache[Turn] = rc[Turn] /\ rc[Turn] \in Deployment
    BY <1>2, <2>1, FreshIsStored, WorkTypes
  <2>4. o \in Deployment /\ o = [rc[Turn] EXCEPT !.cancelled = TRUE]
    BY <2>3 DEF Deployment
  <2>5. rc' = [rc EXCEPT ![Turn] = o]
    BY <1>2 DEF StoreRc
  <2>6. MayWrite(Turn, o)
    BY <2>2, <2>4 DEF MayWrite
  <2>. QED
    BY <2>1, <2>4, <2>5, <2>6 DEF ControllerWrites
<1>. QED
  BY <1>1, <1>2 DEF CancelOne

LEMMA ScaleWrites ==
    ASSUME Inv, ScaleOne
    PROVE  ControllerWrites
<1>. DEFINE n == Target(work.config, work.active, Turn)
            o == [rcCache[Turn] EXCEPT !.replicas = n]
<1>1. CASE UNCHANGED deploymentVars
  BY <1>1 DEF ControllerWrites, deploymentVars
<1>2. CASE CanWrite(Turn) /\ StoreRc(Turn, o)
  <2>1. /\ work.step = "scale" /\ Turn \in work.todo /\ Turn \in Versions
    BY WorkTypes, HighestIsOne DEF ScaleOne, Turn
  <2>2. rcCache[Turn] = rc[Turn] /\ Exists(rc[Turn]) /\ rc[Turn] \in Deployment
    BY <1>2, <2>1, FreshIsStored, WorkTypes
  <2>3. n \in {0, 1}
    BY WorkTypes, TargetTypes
  <2>4. o = [rc[Turn] EXCEPT !.replicas = n]
    BY <2>2
  <2>5. o \in Deployment /\ Exists(o)
    BY <2>2, <2>3, <2>4 DEF Deployment, Exists
  <2>6. rc' = [rc EXCEPT ![Turn] = o]
    BY <1>2 DEF StoreRc
  <2>7. MayWrite(Turn, o)
    BY <2>1, <2>2, <2>4, <2>5 DEF MayWrite
  <2>. QED
    BY <2>1, <2>5, <2>6, <2>7 DEF ControllerWrites
<1>. QED
  BY <1>1, <1>2 DEF ScaleOne

LEMMA PruneWrites ==
    ASSUME Inv, PruneOne
    PROVE  ControllerWrites
<1>. DEFINE v == CHOOSE v \in work.todo : \A w \in work.todo : v <= w
<1>1. CASE UNCHANGED deploymentVars
  BY <1>1 DEF ControllerWrites, deploymentVars
<1>2. CASE StoreRc(v, NoRc)
  <2>1. /\ work.step = "prune" /\ work.todo # {} /\ work.todo \subseteq Versions
        /\ \A w \in work.todo : w < work.config.lv
    BY WorkTypes DEF PruneOne, Inv, RolloutIsSound, WorkIsSound
  <2>2. v \in work.todo
    BY <2>1, LowestIsOne
  <2>. HIDE DEF v
  <2>3. v \in Versions /\ MayWrite(v, NoRc)
    BY <2>1, <2>2 DEF MayWrite
  <2>4. rc' = [rc EXCEPT ![v] = NoRc]
    BY <1>2 DEF StoreRc
  <2>. QED
    BY <2>3, <2>4, Constants DEF ControllerWrites
<1>. QED
  BY <1>1, <1>2 DEF PruneOne

LEMMA CreateWrites ==
    ASSUME Inv, Create
    PROVE  ControllerWrites
<1>. DEFINE v == work.config.lv
            o == NewRc(work.config.tmpl)
<1>1. CASE UNCHANGED deploymentVars
  BY <1>1 DEF ControllerWrites, deploymentVars
<1>2. CASE ~Exists(rc[v]) /\ StoreRc(v, o)
  <2>1. v # 0 /\ v \in 0..MaxVersion /\ work.config.tmpl \in Templates
    BY WorkTypes DEF Create, Inv, RolloutIsSound, WorkIsSound, Config
  <2>2. v \in Versions /\ o \in Deployment
    BY <2>1, MaxIsNat, MadeIsDeployment
  <2>3. rc' = [rc EXCEPT ![v] = o] /\ MayWrite(v, o)
    BY <1>2 DEF StoreRc, MayWrite
  <2>. QED
    BY <2>2, <2>3 DEF ControllerWrites
<1>. QED
  BY <1>1, <1>2 DEF Create

\* Only calls of the controller move its worker, but for a restart, which writes nothing.
LEMMA WritesOfController ==
    ASSUME Inv, [Next]_vars, ByController
    PROVE  ControllerWrites
<1>1. work' # work
  BY DEF ByController
<1>2. CASE Handle
  <2>1. CASE Begin \/ AwaitCancellations \/ WriteStatus
    <3>1. rc' = rc
      BY <2>1 DEF Begin, HandleInactive, HandleSuperseded, HandlePaused, HandleNewVersion,
                  HandleRunning, HandleEnded, StartLast, StartWith, Start, AwaitCancellations,
                  WriteStatus, storeVars, deploymentVars
    <3>. QED
      BY <3>1 DEF ControllerWrites
  <2>. QED
    BY <1>2, <2>1, CancelWrites, ScaleWrites, PruneWrites, CreateWrites DEF Handle
<1>3. CASE MasterRestarts
  BY <1>3 DEF MasterRestarts, Relist, ControllerWrites
<1>4. CASE UNCHANGED vars
  BY <1>1, <1>4 DEF vars, controllerVars
<1>5. CASE ConfigDelivered \/ DeploymentDelivered \/ TriggerStep \/ EnvironmentStep
  BY <1>1, <1>5 DEF ConfigDelivered, ConfigSeen, DeploymentDelivered, DeploymentSeen, Enqueue,
                    TriggerStep, EnvironmentStep, controllerVars
<1>6. CASE DelayElapses \/ PodSeen
  BY <1>1, <1>6 DEF DelayElapses, PodSeen, Enqueue
<1>. QED
  BY <1>2, <1>3, <1>4, <1>5, <1>6 DEF Next, ControllerStep

\* The config in hand is never ahead of the stored one.
LEMMA InHandIsBehind ==
    ASSUME Inv
    PROVE  work.config.lv <= dc.lv
<1>1. work.config.lv <= dcCache.lv
  BY DEF Inv, RolloutIsSound, VersionsAreSeen
<1>2. dcCache.lv <= dc.lv
  <2>1. dcEvents \in Seq(Config) /\ ConfigFollows
    BY DEF Inv, TypeOK, StoreTypeOK, RolloutIsSound
  <2>2. CASE dcEvents = <<>>
    BY <2>1, <2>2, Numbers DEF Inv, ConfigFollows
  <2>3. CASE dcEvents # <<>>
    <3>1. Len(dcEvents) \in DOMAIN dcEvents
      BY <2>1, <2>3, LenProperties, EmptySeq
    <3>. QED
      BY <2>1, <2>3, <3>1 DEF ConfigFollows
  <2>. QED
    BY <2>2, <2>3
<1>. QED
  BY <1>1, <1>2, Numbers DEF Inv

\* The controller cancels (Handle) or prunes (cleanupOldDeployments) only deployments
\* that a newer version of the stored config supersedes, whatever the age of the config
\* and of the list it works from.
THEOREM SupersededOnly == Spec => OnlySupersededIsEnded
<1>. DEFINE Superseded == \A v \in Versions : ByController /\ Ends(v) => v < dc.lv
<1>1. Inv /\ [Next]_vars => Superseded
  <2>. SUFFICES ASSUME Inv, [Next]_vars, NEW v \in Versions, ByController, Ends(v)
                PROVE  v < dc.lv
    OBVIOUS
  <2>1. PICK w \in Versions, o \in Deployment : rc' = [rc EXCEPT ![w] = o] /\ MayWrite(w, o)
    <3>1. rc' # rc
      BY DEF Ends
    <3>. QED
      BY <3>1, WritesOfController DEF ControllerWrites
  <2>2. w = v /\ rc'[v] = o /\ rc[v] \in Deployment
    BY <2>1, WorkTypes DEF Ends
  <2>3. CASE v < work.config.lv
    BY <2>3, InHandIsBehind, Numbers DEF Inv
  <2>4. CASE /\ Exists(rc[v]) /\ Exists(o)
             /\ o = [rc[v] EXCEPT !.replicas = Target(work.config, work.active, v)]
    <3>1. o.cancelled = rc[v].cancelled
      BY <2>2, <2>4 DEF Deployment
    <3>. QED
      BY <2>2, <2>4, <3>1 DEF Ends
  <2>5. CASE ~Exists(rc[v]) /\ o = NewRc(work.config.tmpl)
    <3>1. ~o.cancelled
      BY <2>5 DEF NewRc
    <3>. QED
      BY <2>2, <2>5, <3>1 DEF Ends
  <2>. QED
    BY <2>1, <2>2, <2>3, <2>4, <2>5 DEF MayWrite
<1>. QED
  BY InvHolds, <1>1, PTL DEF Spec, OnlySupersededIsEnded

\* The config that the worker has copied knows of every deployment: what is made meanwhile
\* is made by the worker itself.
WorkKnows ==
    work.step # "idle" => \A v \in Versions : Exists(rc[v]) => v <= work.config.lv

LEMMA WorkKnowsKept ==
    ASSUME Inv, WorkKnows, SoundStep
    PROVE  WorkKnows'
<1>1. /\ StoreTypeOK /\ RcStep /\ WorkStep /\ VersionsAreSeen /\ TypeOK
  BY DEF Inv, TypeOK, RolloutIsSound, SoundStep
<1>. SUFFICES ASSUME work'.step # "idle", NEW v \in Versions, Exists(rc'[v])
              PROVE  v <= work'.config.lv
  BY DEF WorkKnows, Exists
<1>2. Exists(rc[v]) \/ (work.step = "create" /\ v = work.config.lv)
  BY <1>1, RcOfStep DEF MayStore
<1>3. v \in Nat
  BY <1>1, Numbers
<1>4. CASE Begins
  BY <1>1, <1>2, <1>4 DEF Begins, VersionsAreSeen, Seen
<1>5. CASE work' = work \/ Calls
  <2>1. work.step # "idle" /\ work'.config = work.config
    BY <1>5 DEF Calls
  <2>. QED
    BY <1>2, <1>3, <2>1 DEF WorkKnows
<1>6. CASE work' = NoWork
  BY <1>6 DEF NoWork
<1>. QED
  BY <1>1, <1>4, <1>5, <1>6 DEF WorkStep

\* Versions only go up: updateStatus takes none back although it writes the version that
\* it has read, and Handle makes the deployments in the order of their versions, over
\* restarts, removals and errors.  With SupersededOnly, what is superseded remains so.
THEOREM VersionsOrdered == Spec => VersionsSupersede
<1>. DEFINE Up ==
       /\ dc.lv <= dc'.lv
       /\ \A u, v \in Versions :
            Exists(rc[u]) /\ ~Exists(rc[v]) /\ Exists(rc'[v]) => u < v
<1>1. Init => WorkKnows
  BY DEF Init, ControllerInit, NoWork, WorkKnows
<1>2. Inv /\ [Next]_vars => SoundStep
  BY NextKept, SameState
<1>3. Inv /\ WorkKnows /\ [Next]_vars => WorkKnows'
  BY <1>2, WorkKnowsKept
<1>4. Inv /\ WorkKnows /\ [Next]_vars => Up
  <2>. SUFFICES ASSUME Inv, WorkKnows, [Next]_vars PROVE Up
    OBVIOUS
  <2>1. StoreTypeOK /\ TypeOK /\ ConfigFollows /\ ConfigStep /\ RcStep
    BY <1>2 DEF Inv, TypeOK, RolloutIsSound, SoundStep
  <2>2. dc.lv <= dc'.lv
    BY <2>1, ConfigKept
  <2>3. ASSUME NEW u \in Versions, NEW v \in Versions,
               Exists(rc[u]), ~Exists(rc[v]), Exists(rc'[v])
        PROVE  u < v
    <3>1. work.step = "create" /\ v = work.config.lv
      BY <2>1, <2>3, RcOfStep DEF MayStore
    <3>2. u <= v /\ u # v
      BY <2>3, <3>1 DEF WorkKnows
    <3>. QED
      BY <2>1, <3>2, Numbers
  <2>. QED
    BY <2>2, <2>3
<1>. QED
  BY InvHolds, SupersededOnly, <1>1, <1>3, <1>4, PTL
  DEF Spec, VersionsSupersede, VersionsGoUp

\* The controller scales up only deployments that are complete, though
\* reconcileDeployments chooses the active deployment from those it listed and writes the
\* replicas into a later copy, as long as users remove no deployment behind its back.
THEOREM CompleteOnly ==
    ASSUME Limits["removals"] = 0
    PROVE  Spec => OnlyCompleteIsScaledUp
<1>. DEFINE Complete ==
       \A v \in Versions :
          ByController /\ rc[v].replicas = 0 /\ rc'[v].replicas = 1
            => rc[v].phase = "Complete"
<1>1. Inv /\ [Next]_vars => Complete
  <2>. SUFFICES ASSUME Inv, [Next]_vars, NEW v \in Versions, ByController,
                       rc[v].replicas = 0, rc'[v].replicas = 1
                PROVE  rc[v].phase = "Complete"
    OBVIOUS
  <2>1. PICK w \in Versions, o \in Deployment : rc' = [rc EXCEPT ![w] = o] /\ MayWrite(w, o)
    <3>1. rc' # rc
      OBVIOUS
    <3>. QED
      BY <3>1, WritesOfController DEF ControllerWrites
  <2>2. w = v /\ rc'[v] = o /\ rc[v] \in Deployment
    BY <2>1, WorkTypes
  <2>3. o # NoRc /\ o # NewRc(work.config.tmpl)
    BY <2>2 DEF NoRc, NewRc
  <2>4. o # [rc[v] EXCEPT !.cancelled = TRUE]
    BY <2>2 DEF Deployment
  <2>5. /\ work.step = "scale" /\ Exists(rc[v])
        /\ o = [rc[v] EXCEPT !.replicas = Target(work.config, work.active, v)]
    BY <2>1, <2>2, <2>3, <2>4 DEF MayWrite
  <2>6. v = work.active
    <3>1. Target(work.config, work.active, v) = 1
      BY <2>2, <2>5 DEF Deployment
    <3>. QED
      BY <3>1 DEF Target
  <2>7. StaysComplete(v)
    BY <2>6 DEF Inv, RolloutIsSound, CompleteStays
  <2>. QED
    BY <2>5, <2>7 DEF StaysComplete
<1>. QED
  BY InvHolds, <1>1, PTL DEF Spec, OnlyCompleteIsScaledUp

===============================================================================
