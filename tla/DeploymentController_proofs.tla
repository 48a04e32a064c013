--------------------- MODULE DeploymentController_proofs ---------------------
(***************************************************************************)
(* Proofs about DeploymentController, for every set of deployments and     *)
(* every bound on what their environment does.                             *)
(***************************************************************************)
EXTENDS DeploymentController, TLAPS

-------------------------------------------------------------------------------
\* The building blocks of the actions keep the types.

RcEvent == [key : Deployments, object : RcObject]
PodEvent == [key : Deployments, kind : PodKinds, object : PodObject]

\* At most two events are appended, in a fixed order.
LEMMA AppendUpToTwo ==
    ASSUME NEW S, NEW s \in Seq(S), NEW P, NEW Q, NEW a, NEW b,
           P => a \in S, Q => b \in S
    PROVE  s \o (IF P THEN <<a>> ELSE <<>>) \o (IF Q THEN <<b>> ELSE <<>>)
             \in Seq(S)
<1>1. (IF P THEN <<a>> ELSE <<>>) \in Seq(S)
  <2>1. CASE P
    <3>1. <<a>> \in Seq(S)
      BY <2>1
    <3>. QED
      BY <2>1, <3>1
  <2>2. CASE ~P
    BY <2>2
  <2>. QED
    BY <2>1, <2>2
<1>2. (IF Q THEN <<b>> ELSE <<>>) \in Seq(S)
  <2>1. CASE Q
    <3>1. <<b>> \in Seq(S)
      BY <2>1
    <3>. QED
      BY <2>1, <3>1
  <2>2. CASE ~Q
    BY <2>2
  <2>. QED
    BY <2>1, <2>2
<1>3. \A t, u \in Seq(S) : s \o t \o u \in Seq(S)
  OBVIOUS
<1>. QED
  BY <1>1, <1>2, <1>3

LEMMA SpendType ==
    ASSUME TypeOK, NEW limit \in LimitNames, Spend(limit)
    PROVE  spent' \in [LimitNames -> Nat]
BY DEF TypeOK, Spend

LEMMA RequeueType ==
    ASSUME TypeOK, NEW d \in Deployments, Requeue(d) \/ Forget(d)
    PROVE  /\ requeues' \in [Deployments -> 0..MaxRequeues]
           /\ delayed' \subseteq Deployments
BY BoundsAssumption DEF TypeOK, Requeue, Forget

LEMMA StoreRcType ==
    ASSUME TypeOK, NEW d \in Deployments, NEW object \in RcObject,
           StoreRc(d, object)
    PROVE  /\ rc' \in [Deployments -> RcObject]
           /\ rcEvents' \in Seq(RcEvent)
BY DEF TypeOK, StoreRc, RcEvent

LEMMA StorePodsType ==
    ASSUME TypeOK, NEW d \in Deployments, NEW ks \in SUBSET PodKinds,
           NEW objects \in [PodKinds -> PodObject], StorePods(d, ks, objects)
    PROVE  /\ pod' \in [Deployments -> [PodKinds -> PodObject]]
           /\ podEvents' \in Seq(PodEvent)
<1>. DEFINE event(k) == [key |-> d, kind |-> k, object |-> objects[k]]
<1>1. \A k \in PodKinds : event(k) \in PodEvent
  BY DEF PodEvent
<1>2. "deployer" \in PodKinds /\ "hook" \in PodKinds
  BY DEF PodKinds
<1>3. podEvents \in Seq(PodEvent)
  BY DEF TypeOK, PodEvent
<1>4. podEvents' = podEvents
        \o (IF "deployer" \in ks THEN <<event("deployer")>> ELSE <<>>)
        \o (IF "hook" \in ks THEN <<event("hook")>> ELSE <<>>)
  BY DEF StorePods
<1>5. podEvents' \in Seq(PodEvent)
  <2>. HIDE DEF event
  <2>. QED
    BY <1>1, <1>2, <1>3, <1>4, AppendUpToTwo
<1>6. pod' \in [Deployments -> [PodKinds -> PodObject]]
  <2>1. [k \in PodKinds |-> IF k \in ks THEN objects[k] ELSE pod[d][k]]
           \in [PodKinds -> PodObject]
    BY DEF TypeOK
  <2>. QED
    BY <2>1 DEF StorePods, TypeOK
<1>. QED
  BY <1>5, <1>6

LEMMA StorePodType ==
    ASSUME TypeOK, NEW d \in Deployments, NEW k \in PodKinds,
           NEW object \in PodObject, StorePod(d, k, object)
    PROVE  /\ pod' \in [Deployments -> [PodKinds -> PodObject]]
           /\ podEvents' \in Seq(PodEvent)
<1>1. [kind \in PodKinds |-> object] \in [PodKinds -> PodObject]
  OBVIOUS
<1>. QED
  BY <1>1, StorePodsType DEF StorePod

LEMMA DeletePodsType ==
    ASSUME TypeOK, NEW d \in Deployments, NEW ks \in SUBSET PodKinds,
           DeletePods(d, ks)
    PROVE  /\ pod' \in [Deployments -> [PodKinds -> PodObject]]
           /\ podEvents' \in Seq(PodEvent)
<1>1. \A object \in PodObject : [object EXCEPT !.deleting = TRUE] \in PodObject
  BY DEF PodObject
<1>2. [k \in PodKinds |-> [pod[d][k] EXCEPT !.deleting = TRUE]]
         \in [PodKinds -> PodObject]
  BY <1>1 DEF TypeOK
<1>3. Marked(d, ks) \in SUBSET PodKinds
  BY DEF Marked
<1>. QED
  BY <1>2, <1>3, StorePodsType DEF DeletePods

LEMMA RemovePodsType ==
    ASSUME TypeOK, NEW d \in Deployments, NEW ks \in SUBSET PodKinds,
           RemovePods(d, ks)
    PROVE  /\ pod' \in [Deployments -> [PodKinds -> PodObject]]
           /\ podEvents' \in Seq(PodEvent)
<1>1. [k \in PodKinds |-> NoPod] \in [PodKinds -> PodObject]
  BY DEF NoPod, PodObject
<1>. QED
  BY <1>1, StorePodsType DEF RemovePods

LEMMA FromDeployerPhase ==
    ASSUME TypeOK, NEW d \in Deployments, Exists(rcCache[d])
    PROVE  FromDeployer(d) \in Phases
BY DEF TypeOK, FromDeployer, Deployer, StatusOf, Exists, PodObject, PodPhases,
       PodKinds, RcObject, Phases

LEMMA TransitionedType ==
    ASSUME TypeOK, NEW d \in Deployments, NEW next \in Phases
    PROVE  Transitioned(d, next) \in RcObject
<1>1. Annotated(d) \in RcObject
  <2>1. rcCache[d] \in RcObject
    BY DEF TypeOK
  <2>2. \A object \in RcObject :
          [object EXCEPT !.cancelled = FALSE, !.desired = FALSE] \in RcObject
    BY DEF RcObject
  <2>. QED
    BY <2>1, <2>2 DEF Annotated
<1>. QED
  BY <1>1 DEF Transitioned, RcObject

LEMMA UpdatePhaseType ==
    ASSUME TypeOK, NEW d \in Deployments, NEW next \in Phases,
           UpdatePhase(d, next)
    PROVE  /\ rc' \in [Deployments -> RcObject]
           /\ rcEvents' \in Seq(RcEvent)
           /\ requeues' \in [Deployments -> 0..MaxRequeues]
           /\ delayed' \subseteq Deployments
           /\ spent' \in [LimitNames -> Nat]
<1>1. CASE UNCHANGED <<rc, rcEvents>> /\ (Requeue(d) \/ Forget(d))
             /\ (UNCHANGED spent \/ Spend("errors"))
  <2>1. spent' \in [LimitNames -> Nat]
    BY <1>1, SpendType DEF LimitNames, TypeOK
  <2>. QED
    BY <1>1, <2>1, RequeueType DEF TypeOK, RcEvent
<1>2. CASE StoreRc(d, Transitioned(d, next)) /\ Forget(d) /\ UNCHANGED spent
  BY <1>2, TransitionedType, StoreRcType, RequeueType DEF TypeOK
<1>. QED
  BY <1>1, <1>2 DEF UpdatePhase

LEMMA CleanupThenUpdateType ==
    ASSUME TypeOK, NEW d \in Deployments, NEW next \in Phases,
           CleanupThenUpdate(d, next)
    PROVE  /\ rc' \in [Deployments -> RcObject]
           /\ rcEvents' \in Seq(RcEvent)
           /\ pod' \in [Deployments -> [PodKinds -> PodObject]]
           /\ podEvents' \in Seq(PodEvent)
           /\ requeues' \in [Deployments -> 0..MaxRequeues]
           /\ delayed' \subseteq Deployments
           /\ spent' \in [LimitNames -> Nat]
<1>1. CachedPods(d) \in SUBSET PodKinds
  BY DEF CachedPods
<1>2. CASE DeletePods(d, CachedPods(d)) /\ UpdatePhase(d, next)
  BY <1>1, <1>2, DeletePodsType, UpdatePhaseType
<1>3. CASE CleanupFails(d)
  <2>1. PICK failed \in SUBSET CachedPods(d) :
          DeletePods(d, CachedPods(d) \ failed)
    BY <1>3 DEF CleanupFails
  <2>2. CachedPods(d) \ failed \in SUBSET PodKinds
    BY <1>1
  <2>3. /\ pod' \in [Deployments -> [PodKinds -> PodObject]]
        /\ podEvents' \in Seq(PodEvent)
    BY <2>1, <2>2, DeletePodsType
  <2>4. Spend("errors") /\ Requeue(d) /\ UNCHANGED <<rc, rcEvents>>
    BY <1>3 DEF CleanupFails
  <2>5. "errors" \in LimitNames
    BY DEF LimitNames
  <2>. QED
    BY <2>3, <2>4, <2>5, SpendType, RequeueType DEF TypeOK, RcEvent
<1>. QED
  BY <1>2, <1>3 DEF CleanupThenUpdate

\* Every operation of the controller on a deployment it knows keeps the types.
LEMMA HandlingType ==
    ASSUME TypeOK, NEW d \in Deployments, Handling(d),
           succeeded' = succeeded, attempted' \in [Deployments -> BOOLEAN],
           rc' \in [Deployments -> RcObject],
           rcEvents' \in Seq(RcEvent),
           pod' \in [Deployments -> [PodKinds -> PodObject]],
           podEvents' \in Seq(PodEvent),
           requeues' \in [Deployments -> 0..MaxRequeues],
           delayed' \subseteq Deployments,
           spent' \in [LimitNames -> Nat]
    PROVE  TypeOK'
BY DEF TypeOK, Handling, clients, RcEvent, PodEvent

\* The end of Handle when no pod is written.
LEMMA OnlyUpdateType ==
    ASSUME TypeOK, NEW d \in Deployments, NEW next \in Phases, Handling(d),
           UpdatePhase(d, next), UNCHANGED <<pod, podEvents>>,
           UNCHANGED observed
    PROVE  TypeOK'
<1>1. /\ pod' \in [Deployments -> [PodKinds -> PodObject]]
      /\ podEvents' \in Seq(PodEvent)
      /\ succeeded' = succeeded
      /\ attempted' \in [Deployments -> BOOLEAN]
  BY DEF TypeOK, PodEvent, observed
<1>. QED
  BY <1>1, UpdatePhaseType, HandlingType

LEMMA CleanupType ==
    ASSUME TypeOK, NEW d \in Deployments, NEW next \in Phases, Handling(d),
           CleanupThenUpdate(d, next), UNCHANGED observed
    PROVE  TypeOK'
<1>1. succeeded' = succeeded /\ attempted' \in [Deployments -> BOOLEAN]
  BY DEF TypeOK, observed
<1>. QED
  BY <1>1, CleanupThenUpdateType, HandlingType

LEMMA HandleNewStartType ==
    ASSUME TypeOK, NEW d \in Deployments, HandleNewStart(d)
    PROVE  TypeOK'
<1>1. Handling(d)
  BY DEF HandleNewStart
<1>. USE <1>1
<1>2. CASE Forget(d) /\ UNCHANGED <<stored, spent, observed>>
  BY <1>2, RequeueType, HandlingType DEF TypeOK, stored, observed, RcEvent, PodEvent
<1>3. CASE /\ StorePod(d, "deployer", NewPod)
           /\ attempted' = [attempted EXCEPT ![d] = TRUE]
           /\ UpdatePhase(d, "Pending")
           /\ UNCHANGED succeeded
  <2>1. NewPod \in PodObject /\ "deployer" \in PodKinds /\ "Pending" \in Phases
    BY DEF NewPod, PodObject, PodPhases, PodKinds, Phases
  <2>2. attempted' \in [Deployments -> BOOLEAN]
    BY <1>3 DEF TypeOK
  <2>. QED
    BY <1>3, <2>1, <2>2, StorePodType, UpdatePhaseType, HandlingType
<1>4. CASE /\ UNCHANGED spent \/ Spend("errors")
           /\ Requeue(d)
           /\ UNCHANGED <<stored, observed>>
  <2>1. spent' \in [LimitNames -> Nat]
    BY <1>4, SpendType DEF LimitNames, TypeOK
  <2>. QED
    BY <1>4, <2>1, RequeueType, HandlingType
    DEF TypeOK, stored, observed, RcEvent, PodEvent
<1>. QED
  BY <1>2, <1>3, <1>4 DEF HandleNewStart

LEMMA HandleType ==
    ASSUME TypeOK, NEW d \in Deployments, Handle(d)
    PROVE  TypeOK'
<1>1. CASE HandleMissing(d)
  BY <1>1 DEF HandleMissing, TypeOK, stored, clients, observed
<1>2. CASE HandleNewCancelled(d)
  <2>1. Handling(d) /\ CleanupThenUpdate(d, "Pending") /\ UNCHANGED observed
    BY <1>2 DEF HandleNewCancelled
  <2>2. "Pending" \in Phases
    BY DEF Phases
  <2>. QED
    BY <2>1, <2>2, CleanupType
<1>3. CASE HandleNewStart(d)
  BY <1>3, HandleNewStartType
<1>4. CASE HandleNewFound(d)
  <2>1. Handling(d) /\ Exists(rcCache[d])
    BY <1>4 DEF HandleNewFound, Handling
  <2>2. FromDeployer(d) \in Phases
    BY <2>1, FromDeployerPhase
  <2>3. \A next \in Phases : NextStatusComp(next, "Pending") \in Phases
    BY DEF NextStatusComp, Phases
  <2>4. "Failed" \in Phases
    BY DEF Phases
  <2>5. PICK next \in Phases : UpdatePhase(d, next)
    BY <1>4, <2>2, <2>3, <2>4 DEF HandleNewFound
  <2>. QED
    BY <1>4, <2>1, <2>5, OnlyUpdateType DEF HandleNewFound, observed
<1>5. CASE HandleInFlight(d)
  <2>1. Handling(d) /\ Exists(rcCache[d]) /\ UNCHANGED observed
    BY <1>5 DEF HandleInFlight, Handling
  <2>2. FromDeployer(d) \in Phases /\ "Failed" \in Phases
    BY <2>1, FromDeployerPhase DEF Phases
  <2>3. \E next \in Phases :
          \/ UpdatePhase(d, next) /\ UNCHANGED <<pod, podEvents>>
          \/ CleanupThenUpdate(d, next)
    BY <1>5, <2>2 DEF HandleInFlight
  <2>. QED
    BY <2>1, <2>3, OnlyUpdateType, CleanupType
<1>6. CASE HandleTerminated(d)
  <2>1. Handling(d) /\ Exists(rcCache[d]) /\ UNCHANGED observed
    BY <1>6 DEF HandleTerminated, Handling
  <2>2. FromDeployer(d) \in Phases
    BY <2>1, FromDeployerPhase
  <2>3. \/ UpdatePhase(d, FromDeployer(d)) /\ UNCHANGED <<pod, podEvents>>
        \/ CleanupThenUpdate(d, FromDeployer(d))
    BY <1>6 DEF HandleTerminated
  <2>. QED
    BY <2>1, <2>2, <2>3, OnlyUpdateType, CleanupType
<1>. QED
  BY <1>1, <1>2, <1>3, <1>4, <1>5, <1>6 DEF Handle

LEMMA InformersType ==
    ASSUME TypeOK, DeliverRc \/ DeliverPod \/ Restart
    PROVE  TypeOK'
<1>1. CASE DeliverRc
  <2>1. /\ rcEvents \in Seq(RcEvent) /\ rcEvents # <<>>
        /\ rcEvents' = Tail(rcEvents)
    BY <1>1 DEF DeliverRc, TypeOK, RcEvent
  <2>2. Head(rcEvents) \in RcEvent /\ rcEvents' \in Seq(RcEvent)
    BY <2>1
  <2>3. rcCache' \in [Deployments -> RcObject] /\ queue' \subseteq Deployments
    BY <1>1, <2>2 DEF DeliverRc, TypeOK, RcEvent
  <2>. QED
    BY <1>1, <2>2, <2>3 DEF DeliverRc, TypeOK, RcEvent, clients, observed
<1>2. CASE DeliverPod
  <2>1. /\ podEvents \in Seq(PodEvent) /\ podEvents # <<>>
        /\ podEvents' = Tail(podEvents)
    BY <1>2 DEF DeliverPod, TypeOK, PodEvent
  <2>2. Head(podEvents) \in PodEvent /\ podEvents' \in Seq(PodEvent)
    BY <2>1
  <2>3. /\ podCache' \in [Deployments -> [PodKinds -> PodObject]]
        /\ queue' \subseteq Deployments
    BY <1>2, <2>2 DEF DeliverPod, TypeOK, PodEvent
  <2>. QED
    BY <1>2, <2>2, <2>3 DEF DeliverPod, TypeOK, PodEvent, clients, observed
<1>3. CASE Restart
  <2>1. spent' \in [LimitNames -> Nat]
    BY <1>3, SpendType DEF Restart, LimitNames
  <2>2. requeues' \in [Deployments -> 0..MaxRequeues]
    BY <1>3, BoundsAssumption DEF Restart
  <2>. QED
    BY <1>3, <2>1, <2>2 DEF Restart, TypeOK, clients, observed
<1>. QED
  BY <1>1, <1>2, <1>3

\* The nodes, the deployer and the other clients leave the controller alone.
LEMMA EnvironmentType ==
    ASSUME TypeOK, NEW d \in Deployments, Environment(d)
    PROVE  TypeOK'
<1>. USE DEF controller, clients, observed
<1>0. rc[d] \in RcObject
  BY DEF TypeOK
<1>1. CASE \E k \in PodKinds :
             PodStarts(d, k) \/ PodFinishes(d, k) \/ PodRemoved(d, k)
  <2>. PICK k \in PodKinds :
         PodStarts(d, k) \/ PodFinishes(d, k) \/ PodRemoved(d, k)
    BY <1>1
  <2>. DEFINE old == pod[d][k]
  <2>1. old \in PodObject /\ NoPod \in PodObject
    BY DEF TypeOK, NoPod, PodObject
  <2>2. \A phase \in PodPhases : [old EXCEPT !.phase = phase] \in PodObject
    BY <2>1 DEF PodObject
  <2>3. PICK object \in PodObject : StorePod(d, k, object)
    BY <2>1, <2>2 DEF PodStarts, PodFinishes, PodRemoved, PodPhases
  <2>4. succeeded' \in [Deployments -> BOOLEAN]
    BY DEF TypeOK, PodStarts, PodFinishes, PodRemoved
  <2>. QED
    BY <2>3, <2>4, StorePodType
    DEF TypeOK, PodStarts, PodFinishes, PodRemoved, PodEvent
<1>2. CASE PodEvicted(d)
  <2>1. DeletePods(d, {"deployer"}) /\ {"deployer"} \in SUBSET PodKinds
    BY <1>2 DEF PodEvicted, PodKinds
  <2>2. spent' \in [LimitNames -> Nat]
    BY <1>2, SpendType DEF PodEvicted, LimitNames
  <2>. QED
    BY <1>2, <2>1, <2>2, DeletePodsType DEF PodEvicted, TypeOK, PodEvent
<1>3. CASE DeployerScales(d)
  <2>1. [rc[d] EXCEPT !.replicas = 1] \in RcObject
    BY <1>0 DEF RcObject
  <2>. QED
    BY <1>3, <2>1, StoreRcType DEF DeployerScales, TypeOK, RcEvent
<1>4. CASE DeployerRunsHook(d)
  <2>1. NewPod \in PodObject /\ "hook" \in PodKinds
    BY DEF NewPod, PodObject, PodPhases, PodKinds
  <2>2. spent' \in [LimitNames -> Nat]
    BY <1>4, SpendType DEF DeployerRunsHook, LimitNames
  <2>. QED
    BY <1>4, <2>1, <2>2, StorePodType DEF DeployerRunsHook, TypeOK, PodEvent
<1>5. CASE RcCreated(d)
  <2>1. NewRc \in RcObject
    BY DEF NewRc, RcObject, Phases
  <2>2. spent' \in [LimitNames -> Nat]
    BY <1>5, SpendType DEF RcCreated, LimitNames
  <2>. QED
    BY <1>5, <2>1, <2>2, StoreRcType DEF RcCreated, TypeOK, RcEvent
<1>6. CASE RcDeleted(d)
  <2>1. NoRc \in RcObject
    BY DEF NoRc, RcObject
  <2>. QED
    BY <1>6, <2>1, StoreRcType DEF RcDeleted, TypeOK, RcEvent
<1>7. CASE CancelReads(d)
  BY <1>7 DEF CancelReads, TypeOK, stored
<1>8. CASE CancelPatches(d)
  <2>1. [rc[d] EXCEPT !.cancelled = TRUE] \in RcObject
    BY <1>0 DEF RcObject
  <2>2. rc' \in [Deployments -> RcObject] /\ rcEvents' \in Seq(RcEvent)
    BY <1>8, <2>1, StoreRcType DEF CancelPatches, TypeOK, RcEvent
  <2>. QED
    BY <1>8, <2>2 DEF CancelPatches, TypeOK, RcEvent
<1>9. CASE Retry(d)
  <2>1. [rc[d] EXCEPT !.phase = "New", !.cancelled = FALSE] \in RcObject
    BY <1>0 DEF RcObject, Phases
  <2>2. rc' \in [Deployments -> RcObject] /\ rcEvents' \in Seq(RcEvent)
    BY <1>9, <2>1, StoreRcType DEF Retry
  <2>3. LabelledPods(d) \in SUBSET PodKinds
    BY DEF LabelledPods
  <2>4. /\ pod' \in [Deployments -> [PodKinds -> PodObject]]
        /\ podEvents' \in Seq(PodEvent)
    BY <1>9, <2>3, RemovePodsType DEF Retry
  <2>5. spent' \in [LimitNames -> Nat]
    BY <1>9, SpendType DEF Retry, LimitNames
  <2>. QED
    BY <1>9, <2>2, <2>4, <2>5 DEF Retry, TypeOK, RcEvent, PodEvent
<1>10. CASE RetryReads(d)
  <2>1. LabelledPods(d) \in SUBSET PodKinds
    BY DEF LabelledPods
  <2>2. /\ pod' \in [Deployments -> [PodKinds -> PodObject]]
        /\ podEvents' \in Seq(PodEvent)
    BY <1>10, <2>1, RemovePodsType DEF RetryReads
  <2>3. spent' \in [LimitNames -> Nat]
    BY <1>10, SpendType DEF RetryReads, LimitNames
  <2>4. retrying' \subseteq Deployments \X BOOLEAN
    BY <1>10 DEF RetryReads, TypeOK, RcObject
  <2>. QED
    BY <1>10, <2>2, <2>3, <2>4 DEF RetryReads, TypeOK, PodEvent
<1>11. CASE RetryPatches(d)
  <2>1. PICK cancelled \in BOOLEAN :
          /\ retrying' = retrying \ {<<d, cancelled>>}
          /\ IF Exists(rc[d])
             THEN /\ StoreRc(d, [rc[d] EXCEPT !.phase = "New",
                                              !.cancelled = @ /\ ~cancelled])
                  /\ attempted' = [attempted EXCEPT ![d] = FALSE]
             ELSE UNCHANGED <<rc, rcEvents, attempted>>
    BY <1>11 DEF RetryPatches
  <2>2. [rc[d] EXCEPT !.phase = "New", !.cancelled = @ /\ ~cancelled] \in RcObject
    BY <1>0 DEF RcObject, Phases
  <2>3. /\ rc' \in [Deployments -> RcObject]
        /\ rcEvents' \in Seq(RcEvent)
        /\ attempted' \in [Deployments -> BOOLEAN]
    BY <2>1, <2>2, StoreRcType DEF TypeOK, RcEvent
  <2>. QED
    BY <1>11, <2>1, <2>3 DEF RetryPatches, TypeOK, RcEvent
<1>. QED
  BY <1>1, <1>2, <1>3, <1>4, <1>5, <1>6, <1>7, <1>8, <1>9, <1>10, <1>11
  DEF Environment

LEMMA InitType == Init => TypeOK
BY BoundsAssumption
DEF Init, TypeOK, NoRc, NoPod, RcObject, PodObject, PodPhases, LimitNames

LEMMA NextType == TypeOK /\ [Next]_vars => TypeOK'
<1>. SUFFICES ASSUME TypeOK, [Next]_vars PROVE TypeOK'
  OBVIOUS
<1>1. CASE DeliverRc \/ DeliverPod \/ Restart
  BY <1>1, InformersType
<1>2. ASSUME NEW d \in Deployments, Handle(d) PROVE TypeOK'
  BY <1>2, HandleType
<1>3. ASSUME NEW d \in Deployments, DelayElapses(d) PROVE TypeOK'
  BY <1>3 DEF DelayElapses, TypeOK, stored, clients, observed
<1>4. ASSUME NEW d \in Deployments, Environment(d) PROVE TypeOK'
  BY <1>4, EnvironmentType
<1>5. CASE UNCHANGED vars
  BY <1>5 DEF vars, stored, controller, clients, observed, TypeOK
<1>. QED
  BY <1>1, <1>2, <1>3, <1>4, <1>5 DEF Next

\* Every variable keeps its type: the queue names known deployments and no key
\* is requeued more often than handleErr allows.
THEOREM TypeCorrect == Spec => []TypeOK
<1>1. Init => TypeOK
  BY InitType
<1>2. TypeOK /\ [Next]_vars => TypeOK'
  BY NextType
<1>. QED
  BY <1>1, <1>2, PTL DEF Spec

-------------------------------------------------------------------------------
\* The stream of the deployments and their cached copies.

LEMMA StoreRcView ==
    ASSUME TypeOK, LastEventIsCurrent, FreshIsCurrent,
           NEW d \in Deployments, NEW object \in RcObject,
           StoreRc(d, object), rcCache' = rcCache
    PROVE  LastEventIsCurrent' /\ FreshIsCurrent'
<1>. DEFINE e == [key |-> d, object |-> object]
<1>1. rcEvents \in Seq(RcEvent) /\ e \in RcEvent
  BY DEF TypeOK, RcEvent
<1>2. rcEvents' = Append(rcEvents, e) /\ rc' = [rc EXCEPT ![d] = object]
  BY DEF StoreRc
<1>3. /\ DOMAIN rcEvents = 1..Len(rcEvents) /\ Len(rcEvents) \in Nat
      /\ DOMAIN rcEvents' = 1..(Len(rcEvents) + 1)
      /\ rcEvents'[Len(rcEvents) + 1] = e
      /\ \A i \in DOMAIN rcEvents : rcEvents'[i] = rcEvents[i]
  BY <1>1, <1>2
<1>4. \A i \in DOMAIN rcEvents : rcEvents[i].key \in Deployments
  <2>1. \A i \in DOMAIN rcEvents : rcEvents[i] \in RcEvent
    BY <1>1
  <2>. QED
    BY <2>1 DEF RcEvent
<1>5. LastEventIsCurrent'
  <2>. SUFFICES ASSUME NEW i \in DOMAIN rcEvents',
                       \A j \in DOMAIN rcEvents' :
                         i < j => rcEvents'[j].key # rcEvents'[i].key
                PROVE  rcEvents'[i].object = rc'[rcEvents'[i].key]
    BY DEF LastEventIsCurrent
  <2>1. CASE i = Len(rcEvents) + 1
    BY <2>1, <1>2, <1>3 DEF TypeOK
  <2>2. CASE i \in DOMAIN rcEvents
    <3>1. rcEvents[i].key # d
      BY <2>2, <1>3
    <3>2. rcEvents[i].object = rc[rcEvents[i].key]
      BY <2>2, <1>3 DEF LastEventIsCurrent
    <3>. QED
      BY <2>2, <3>1, <3>2, <1>2, <1>3, <1>4 DEF TypeOK
  <2>. QED
    BY <2>1, <2>2, <1>3
<1>6. FreshIsCurrent'
  <2>. SUFFICES ASSUME NEW x \in Deployments, Fresh(x)'
                PROVE  rcCache'[x] = rc'[x]
    BY DEF FreshIsCurrent
  <2>1. x # d
    BY <1>3 DEF Fresh
  <2>2. Fresh(x)
    BY <1>3 DEF Fresh
  <2>. QED
    BY <2>1, <2>2, <1>2 DEF FreshIsCurrent, TypeOK
<1>. QED
  BY <1>5, <1>6

LEMMA DeliverRcView ==
    ASSUME TypeOK, LastEventIsCurrent, FreshIsCurrent, DeliverRc
    PROVE  LastEventIsCurrent' /\ FreshIsCurrent'
<1>. DEFINE e == Head(rcEvents)
<1>1. /\ rcEvents \in Seq(RcEvent) /\ rcEvents # <<>>
      /\ rcEvents' = Tail(rcEvents) /\ rc' = rc
      /\ rcCache' = [rcCache EXCEPT ![e.key] = e.object]
  BY DEF TypeOK, RcEvent, DeliverRc
<1>2. /\ Len(rcEvents) \in Nat /\ Len(rcEvents) > 0
      /\ DOMAIN rcEvents = 1..Len(rcEvents)
      /\ DOMAIN rcEvents' = 1..(Len(rcEvents) - 1)
      /\ e = rcEvents[1]
      /\ \A i \in DOMAIN rcEvents' : rcEvents'[i] = rcEvents[i + 1]
  BY <1>1
<1>3. e \in RcEvent
  BY <1>1
<1>4. LastEventIsCurrent'
  <2>. SUFFICES ASSUME NEW i \in DOMAIN rcEvents',
                       \A j \in DOMAIN rcEvents' :
                         i < j => rcEvents'[j].key # rcEvents'[i].key
                PROVE  rcEvents'[i].object = rc[rcEvents'[i].key]
    BY <1>1 DEF LastEventIsCurrent
  <2>1. i + 1 \in DOMAIN rcEvents /\ rcEvents'[i] = rcEvents[i + 1]
    BY <1>2
  <2>2. ASSUME NEW j \in DOMAIN rcEvents, i + 1 < j
        PROVE  rcEvents[j].key # rcEvents[i + 1].key
    <3>1. j - 1 \in DOMAIN rcEvents' /\ i < j - 1 /\ (j - 1) + 1 = j
      BY <2>2, <1>2
    <3>. QED
      BY <3>1, <2>1, <1>2
  <2>. QED
    BY <2>1, <2>2 DEF LastEventIsCurrent
<1>5. FreshIsCurrent'
  <2>. SUFFICES ASSUME NEW x \in Deployments, Fresh(x)'
                PROVE  rcCache'[x] = rc[x]
    BY <1>1 DEF FreshIsCurrent
  <2>1. \A j \in DOMAIN rcEvents : 1 < j => rcEvents[j].key # x
    <3>. SUFFICES ASSUME NEW j \in DOMAIN rcEvents, 1 < j
                  PROVE  rcEvents[j].key # x
      OBVIOUS
    <3>1. j - 1 \in DOMAIN rcEvents' /\ (j - 1) + 1 = j
      BY <1>2
    <3>. QED
      BY <3>1, <1>2 DEF Fresh
  <2>2. CASE e.key = x
    <3>1. e.object = rc[x]
      BY <2>1, <2>2, <1>2 DEF LastEventIsCurrent
    <3>. QED
      BY <3>1, <2>2, <1>1 DEF TypeOK
  <2>3. CASE e.key # x
    <3>1. Fresh(x)
      BY <2>1, <2>3, <1>2 DEF Fresh
    <3>. QED
      BY <3>1, <2>3, <1>1, <1>3 DEF FreshIsCurrent, TypeOK, RcEvent
  <2>. QED
    BY <2>2, <2>3
<1>. QED
  BY <1>4, <1>5

-------------------------------------------------------------------------------
\* The pods, their events and their cached copies.

\* The events that show nothing that did not happen.
VouchedEvents(evidence) ==
    {e \in PodEvent : Vouched(evidence, e.key, e.kind, e.object)}

LEMMA VouchedStream ==
    ASSUME NEW evidence, NEW s \in Seq(PodEvent)
    PROVE  (\A i \in DOMAIN s :
              Vouched(evidence, s[i].key, s[i].kind, s[i].object))
             <=> s \in Seq(VouchedEvents(evidence))
<1>1. \A i \in DOMAIN s : s[i] \in PodEvent
  OBVIOUS
<1>2. ASSUME s \in Seq(VouchedEvents(evidence))
      PROVE  \A i \in DOMAIN s : s[i] \in VouchedEvents(evidence)
  BY <1>2
<1>3. ASSUME \A i \in DOMAIN s : s[i] \in VouchedEvents(evidence)
      PROVE  s \in Seq(VouchedEvents(evidence))
  BY <1>3
<1>. QED
  BY <1>1, <1>2, <1>3 DEF VouchedEvents

\* Whatever is vouched for stays so while no evidence is taken back.
LEMMA VouchedPersists ==
    ASSUME NEW old, NEW new, \A d \in Deployments : old[d] => new[d]
    PROVE  /\ \A d \in Deployments : \A k, object :
                Vouched(old, d, k, object) => Vouched(new, d, k, object)
           /\ \A s : s \in Seq(VouchedEvents(old)) => s \in Seq(VouchedEvents(new))
<1>1. \A d \in Deployments : \A k, object :
        Vouched(old, d, k, object) => Vouched(new, d, k, object)
  BY DEF Vouched
<1>2. VouchedEvents(old) \subseteq VouchedEvents(new)
  BY <1>1 DEF VouchedEvents, PodEvent
<1>3. \A S, T : S \subseteq T => \A s \in Seq(S) : s \in Seq(T)
  OBVIOUS
<1>. QED
  BY <1>1, <1>2, <1>3

LEMMA StorePodsView ==
    ASSUME TypeOK, TypeOK', SuccessIsVouched,
           \A x \in Deployments : succeeded[x] => succeeded'[x],
           podCache' = podCache,
           NEW d \in Deployments, NEW ks \in SUBSET PodKinds,
           NEW objects \in [PodKinds -> PodObject],
           \A k \in ks : Vouched(succeeded', d, k, objects[k]),
           StorePods(d, ks, objects)
    PROVE  SuccessIsVouched'
<1>. DEFINE event(k) == [key |-> d, kind |-> k, object |-> objects[k]]
            Good == VouchedEvents(succeeded')
<1>0. podEvents \in Seq(PodEvent) /\ podEvents' \in Seq(PodEvent)
  BY DEF TypeOK, PodEvent
<1>1. podEvents \in Seq(Good)
  BY <1>0, VouchedStream, VouchedPersists DEF SuccessIsVouched
<1>2. \A k \in ks : event(k) \in Good
  BY DEF VouchedEvents, PodEvent
<1>3. podEvents' = podEvents
        \o (IF "deployer" \in ks THEN <<event("deployer")>> ELSE <<>>)
        \o (IF "hook" \in ks THEN <<event("hook")>> ELSE <<>>)
  BY DEF StorePods
<1>4. podEvents' \in Seq(Good)
  <2>. HIDE DEF event, Good
  <2>. QED
    BY <1>1, <1>2, <1>3, AppendUpToTwo
<1>5. \A i \in DOMAIN podEvents' :
        Vouched(succeeded', podEvents'[i].key, podEvents'[i].kind,
                podEvents'[i].object)
  BY <1>0, <1>4, VouchedStream
<1>6. ASSUME NEW x \in Deployments, NEW k \in PodKinds
      PROVE  Vouched(succeeded', x, k, pod'[x][k])
  <2>1. CASE x = d /\ k \in ks
    <3>1. pod'[d][k] = objects[k]
      BY <2>1 DEF StorePods, TypeOK
    <3>. QED
      BY <2>1, <3>1
  <2>2. CASE ~(x = d /\ k \in ks)
    <3>1. pod'[x][k] = pod[x][k]
      BY <2>2 DEF StorePods, TypeOK
    <3>2. Vouched(succeeded, x, k, pod[x][k])
      BY DEF SuccessIsVouched, PodsVouched
    <3>. QED
      BY <3>1, <3>2, VouchedPersists
  <2>. QED
    BY <2>1, <2>2
<1>7. ASSUME NEW x \in Deployments, NEW k \in PodKinds
      PROVE  Vouched(succeeded', x, k, podCache'[x][k])
  <2>1. Vouched(succeeded, x, k, podCache[x][k])
    BY DEF SuccessIsVouched, PodsVouched
  <2>. QED
    BY <2>1, VouchedPersists
<1>. QED
  BY <1>5, <1>6, <1>7 DEF SuccessIsVouched, PodsVouched

\* Marking a pod shows nothing new, and a removed pod shows nothing at all.
LEMMA DeletePodsView ==
    ASSUME TypeOK, TypeOK', SuccessIsVouched,
           succeeded' = succeeded, podCache' = podCache,
           NEW d \in Deployments, NEW ks \in SUBSET PodKinds,
           DeletePods(d, ks) \/ RemovePods(d, ks)
    PROVE  SuccessIsVouched'
<1>1. CASE DeletePods(d, ks)
  <2>. DEFINE objects == [k \in PodKinds |-> [pod[d][k] EXCEPT !.deleting = TRUE]]
  <2>1. \A object \in PodObject :
          /\ [object EXCEPT !.deleting = TRUE] \in PodObject
          /\ [object EXCEPT !.deleting = TRUE].phase = object.phase
          /\ [object EXCEPT !.deleting = TRUE].foreign = object.foreign
    BY DEF PodObject
  <2>2. \A k \in PodKinds : pod[d][k] \in PodObject
    BY DEF TypeOK
  <2>3. objects \in [PodKinds -> PodObject]
    BY <2>1, <2>2
  <2>4. \A k \in PodKinds : Vouched(succeeded', d, k, objects[k])
    <3>1. \A k \in PodKinds : /\ objects[k].foreign = pod[d][k].foreign
                              /\ objects[k].phase = pod[d][k].phase
      BY <2>1, <2>2
    <3>2. \A k \in PodKinds : Vouched(succeeded, d, k, pod[d][k])
      BY DEF SuccessIsVouched, PodsVouched
    <3>. HIDE DEF objects
    <3>. QED
      BY <3>1, <3>2 DEF Vouched
  <2>5. Marked(d, ks) \in SUBSET PodKinds
    BY DEF Marked
  <2>6. StorePods(d, Marked(d, ks), objects)
    BY <1>1 DEF DeletePods
  <2>. HIDE DEF objects
  <2>. QED
    BY <2>3, <2>4, <2>5, <2>6, StorePodsView
<1>2. CASE RemovePods(d, ks)
  <2>. DEFINE objects == [k \in PodKinds |-> NoPod]
  <2>1. objects \in [PodKinds -> PodObject]
    BY DEF NoPod, PodObject
  <2>2. \A k \in PodKinds : Vouched(succeeded', d, k, objects[k])
    BY DEF Vouched, NoPod
  <2>3. StorePods(d, ks, objects)
    BY <1>2 DEF RemovePods
  <2>. HIDE DEF objects
  <2>. QED
    BY <2>1, <2>2, <2>3, StorePodsView
<1>. QED
  BY <1>1, <1>2

LEMMA DeliverPodView ==
    ASSUME TypeOK, TypeOK', SuccessIsVouched, DeliverPod
    PROVE  SuccessIsVouched'
<1>. DEFINE e == Head(podEvents)
<1>1. /\ podEvents \in Seq(PodEvent) /\ podEvents # <<>>
      /\ podEvents' = Tail(podEvents) /\ podEvents' \in Seq(PodEvent)
      /\ pod' = pod /\ succeeded' = succeeded
      /\ podCache' = [podCache EXCEPT ![e.key][e.kind] = e.object]
  BY DEF TypeOK, PodEvent, DeliverPod, observed
<1>2. podEvents \in Seq(VouchedEvents(succeeded))
  BY <1>1, VouchedStream DEF SuccessIsVouched
<1>3. e \in VouchedEvents(succeeded) /\ podEvents' \in Seq(VouchedEvents(succeeded))
  BY <1>1, <1>2
<1>4. \A x \in Deployments, k \in PodKinds :
        podCache'[x][k] = IF x = e.key /\ k = e.kind THEN e.object
                          ELSE podCache[x][k]
  BY <1>1, <1>3 DEF TypeOK, VouchedEvents, PodEvent
<1>5. PodsVouched(podCache)'
  BY <1>1, <1>3, <1>4 DEF SuccessIsVouched, PodsVouched, VouchedEvents
<1>. QED
  BY <1>1, <1>3, <1>5, VouchedStream DEF SuccessIsVouched, PodsVouched

-------------------------------------------------------------------------------
\* The inductive invariant, split in what is said of the deployments and what
\* is said of the pods.

RcIsSound ==
    LastEventIsCurrent /\ FreshIsCurrent /\ CompleteMeansSucceeded /\ NeverBarred

LEMMA RcUntouched ==
    ASSUME RcIsSound, UNCHANGED <<rc, rcEvents, rcCache>>,
           \A x \in Deployments : succeeded[x] => succeeded'[x]
    PROVE  RcIsSound'
BY DEF RcIsSound, LastEventIsCurrent, FreshIsCurrent, Fresh,
       CompleteMeansSucceeded, NeverBarred, Own

LEMMA PodsUntouched ==
    ASSUME SuccessIsVouched, UNCHANGED <<pod, podEvents, podCache, succeeded>>
    PROVE  SuccessIsVouched'
BY DEF SuccessIsVouched, PodsVouched

LEMMA StoreRcSound ==
    ASSUME TypeOK, RcIsSound, NEW d \in Deployments, NEW object \in RcObject,
           StoreRc(d, object), rcCache' = rcCache, succeeded' = succeeded,
           d \in Own /\ object.phase = "Complete" => succeeded[d],
           d \in Own /\ Exists(object) /\ ~succeeded[d] => object.desired
    PROVE  RcIsSound'
<1>1. LastEventIsCurrent' /\ FreshIsCurrent'
  BY StoreRcView DEF RcIsSound
<1>2. rc' = [rc EXCEPT ![d] = object]
  BY DEF StoreRc
<1>3. CompleteMeansSucceeded' /\ NeverBarred'
  BY <1>2 DEF RcIsSound, CompleteMeansSucceeded, NeverBarred, Own, Exists, TypeOK
<1>. QED
  BY <1>1, <1>3 DEF RcIsSound

\* The controller's only write to a deployment.
LEMMA UpdatePhaseSound ==
    ASSUME TypeOK, RcIsSound, SuccessIsVouched,
           NEW d \in Deployments, NEW next \in Phases,
           UpdatePhase(d, next), rcCache' = rcCache, succeeded' = succeeded,
           CanTransitionPhase(rcCache[d].phase, next) /\ next = "Complete"
             /\ d \in Own => succeeded[d]
    PROVE  RcIsSound'
<1>1. CASE UNCHANGED <<rc, rcEvents>>
  BY <1>1, RcUntouched
<1>2. CASE /\ CanTransitionPhase(rcCache[d].phase, next)
           /\ Fresh(d) /\ StoreRc(d, Transitioned(d, next))
  <2>. DEFINE object == Transitioned(d, next)
  <2>1. object \in RcObject
    BY TransitionedType
  <2>2. rcCache[d] = rc[d] /\ rc[d] \in RcObject /\ Exists(rc[d])
    BY <1>2 DEF RcIsSound, FreshIsCurrent, TypeOK, CanTransitionPhase, Exists
  <2>3. /\ object.phase = next
        /\ object.desired = Annotated(d).desired
    <3>1. Annotated(d) \in RcObject
      BY <2>2 DEF Annotated, RcObject
    <3>. QED
      BY <3>1 DEF Transitioned, RcObject
  <2>4. d \in Own /\ ~succeeded[d] => object.desired
    <3>1. d \in Own /\ ~succeeded[d] => Deployer(d).phase # "Succeeded"
      BY DEF SuccessIsVouched, PodsVouched, Vouched, Deployer, PodKinds
    <3>2. d \in Own /\ ~succeeded[d] => Annotated(d) = rc[d]
      BY <3>1, <2>2 DEF Annotated
    <3>. QED
      BY <3>2, <2>2, <2>3 DEF RcIsSound, NeverBarred
  <2>. HIDE DEF object
  <2>. QED
    BY <1>2, <2>1, <2>3, <2>4, StoreRcSound DEF object
<1>. QED
  BY <1>1, <1>2 DEF UpdatePhase

\* A phase that comes from a deployer is backed by it.
LEMMA FromDeployerSound ==
    ASSUME TypeOK, SuccessIsVouched, NEW d \in Own, Exists(rcCache[d]),
           CanTransitionPhase(rcCache[d].phase, "Complete"),
           FromDeployer(d) = "Complete"
    PROVE  succeeded[d]
<1>1. Exists(Deployer(d)) /\ StatusOf(Deployer(d)) = "Complete"
  BY DEF FromDeployer, CanTransitionPhase
<1>2. Deployer(d) \in PodObject
  BY DEF Deployer, TypeOK, PodKinds, Own
<1>3. Deployer(d).phase = "Succeeded"
  BY <1>1, <1>2 DEF StatusOf, Exists, PodObject, PodPhases
<1>. QED
  BY <1>3 DEF SuccessIsVouched, PodsVouched, Vouched, Deployer, PodKinds, Own

\* Of every operation of the controller: the update that ends it, if it comes to
\* that, has a phase that is backed by a deployer, and every pod it writes but a
\* new deployer is deleted.
LEMMA HandleWrites ==
    ASSUME TypeOK, SuccessIsVouched, NEW d \in Deployments, Handle(d)
    PROVE  /\ UNCHANGED <<rcCache, podCache, succeeded, cancelling, retrying>>
           /\ \/ UNCHANGED <<rc, rcEvents>>
              \/ \E next \in Phases :
                   /\ UpdatePhase(d, next)
                   /\ CanTransitionPhase(rcCache[d].phase, next)
                        /\ next = "Complete" /\ d \in Own => succeeded[d]
           /\ \/ UNCHANGED <<pod, podEvents>>
              \/ \E ks \in SUBSET PodKinds : DeletePods(d, ks)
              \/ StorePod(d, "deployer", NewPod)
<1>. DEFINE Backed(next) ==
       CanTransitionPhase(rcCache[d].phase, next) /\ next = "Complete"
         /\ d \in Own => succeeded[d]
     Deletes == \E ks \in SUBSET PodKinds : DeletePods(d, ks)
<1>0. UNCHANGED <<rcCache, podCache, succeeded, cancelling, retrying>>
  BY DEF Handle, HandleMissing, HandleNewCancelled, HandleNewStart,
         HandleNewFound, HandleInFlight, HandleTerminated, Handling, clients,
         observed
<1>1. ASSUME NEW next, CleanupThenUpdate(d, next)
      PROVE  (UNCHANGED <<rc, rcEvents>> \/ UpdatePhase(d, next)) /\ Deletes
  <2>1. CachedPods(d) \in SUBSET PodKinds
    BY DEF CachedPods
  <2>2. CASE DeletePods(d, CachedPods(d)) /\ UpdatePhase(d, next)
    BY <2>1, <2>2
  <2>3. CASE CleanupFails(d)
    <3>1. PICK failed \in SUBSET CachedPods(d) :
            DeletePods(d, CachedPods(d) \ failed)
      BY <2>3 DEF CleanupFails
    <3>2. CachedPods(d) \ failed \in SUBSET PodKinds
      BY <2>1
    <3>3. UNCHANGED <<rc, rcEvents>>
      BY <2>3 DEF CleanupFails
    <3>. QED
      BY <3>1, <3>2, <3>3
  <2>. QED
    BY <1>1, <2>2, <2>3 DEF CleanupThenUpdate
<1>2. Exists(rcCache[d]) => FromDeployer(d) \in Phases /\ Backed(FromDeployer(d))
  BY FromDeployerPhase, FromDeployerSound DEF Own
<1>3. "Pending" \in Phases /\ "Failed" \in Phases /\ Backed("Pending")
        /\ Backed("Failed")
  BY DEF Phases
<1>4. CASE HandleMissing(d)
  BY <1>0, <1>4 DEF HandleMissing, stored
<1>5. CASE HandleNewCancelled(d)
  BY <1>0, <1>1, <1>3, <1>5 DEF HandleNewCancelled
<1>6. CASE HandleNewStart(d)
  <2>1. \/ UNCHANGED stored
        \/ StorePod(d, "deployer", NewPod) /\ UpdatePhase(d, "Pending")
    BY <1>6 DEF HandleNewStart
  <2>. QED
    BY <1>0, <1>3, <2>1 DEF stored
<1>7. CASE HandleNewFound(d)
  <2>1. Exists(rcCache[d]) /\ UNCHANGED <<pod, podEvents>>
    BY <1>7 DEF HandleNewFound, Handling
  <2>2. NextStatusComp(FromDeployer(d), "Pending") \in {"Pending", FromDeployer(d)}
    BY DEF NextStatusComp
  <2>3. PICK next \in {"Failed", "Pending", FromDeployer(d)} : UpdatePhase(d, next)
    BY <1>7, <2>2 DEF HandleNewFound
  <2>4. next \in Phases /\ Backed(next)
    BY <2>1, <2>3, <1>2, <1>3
  <2>. QED
    BY <1>0, <2>1, <2>3, <2>4
<1>8. CASE HandleInFlight(d) \/ HandleTerminated(d)
  <2>1. Exists(rcCache[d])
    BY <1>8 DEF HandleInFlight, HandleTerminated, Handling
  <2>2. PICK next \in {"Failed", FromDeployer(d)} :
          \/ UpdatePhase(d, next) /\ UNCHANGED <<pod, podEvents>>
          \/ CleanupThenUpdate(d, next)
    BY <1>8 DEF HandleInFlight, HandleTerminated
  <2>3. next \in Phases /\ Backed(next)
    BY <2>1, <2>2, <1>2, <1>3
  <2>. QED
    BY <1>0, <1>1, <2>2, <2>3
<1>. QED
  BY <1>4, <1>5, <1>6, <1>7, <1>8 DEF Handle

LEMMA HandleSound ==
    ASSUME TypeOK, TypeOK', ViewsAreSound, NEW d \in Deployments, Handle(d)
    PROVE  ViewsAreSound'
<1>. USE DEF ViewsAreSound
<1>1. rcCache' = rcCache /\ podCache' = podCache /\ succeeded' = succeeded
  BY HandleWrites
<1>2. RcIsSound'
  <2>1. CASE UNCHANGED <<rc, rcEvents>>
    BY <1>1, <2>1, RcUntouched DEF RcIsSound
  <2>2. CASE \E next \in Phases :
               /\ UpdatePhase(d, next)
               /\ CanTransitionPhase(rcCache[d].phase, next)
                    /\ next = "Complete" /\ d \in Own => succeeded[d]
    BY <1>1, <2>2, UpdatePhaseSound DEF RcIsSound
  <2>. QED
    BY <2>1, <2>2, HandleWrites
<1>3. SuccessIsVouched'
  <2>1. CASE UNCHANGED <<pod, podEvents>>
    BY <1>1, <2>1, PodsUntouched
  <2>2. CASE \E ks \in SUBSET PodKinds : DeletePods(d, ks)
    BY <1>1, <2>2, DeletePodsView
  <2>3. CASE StorePod(d, "deployer", NewPod)
    <3>1. /\ [kind \in PodKinds |-> NewPod] \in [PodKinds -> PodObject]
          /\ {"deployer"} \in SUBSET PodKinds
      BY DEF NewPod, PodObject, PodPhases, PodKinds
    <3>2. \A k \in {"deployer"} :
            Vouched(succeeded', d, k, [kind \in PodKinds |-> NewPod][k])
      BY DEF Vouched, NewPod, PodKinds
    <3>. QED
      BY <1>1, <2>3, <3>1, <3>2, StorePodsView DEF StorePod
  <2>. QED
    BY <2>1, <2>2, <2>3, HandleWrites
<1>. QED
  BY <1>2, <1>3 DEF RcIsSound

LEMMA InformersSound ==
    ASSUME TypeOK, TypeOK', ViewsAreSound, DeliverRc \/ DeliverPod \/ Restart
    PROVE  ViewsAreSound'
<1>. USE DEF ViewsAreSound
<1>1. CASE DeliverRc
  <2>1. UNCHANGED <<rc, succeeded, pod, podEvents, podCache>>
    BY <1>1 DEF DeliverRc, observed
  <2>2. CompleteMeansSucceeded' /\ NeverBarred'
    BY <2>1 DEF CompleteMeansSucceeded, NeverBarred, Own
  <2>. QED
    BY <1>1, <2>1, <2>2, DeliverRcView, PodsUntouched
<1>2. CASE DeliverPod
  <2>1. UNCHANGED <<rc, rcEvents, rcCache, succeeded>>
    BY <1>2 DEF DeliverPod, observed
  <2>. QED
    BY <1>2, <2>1, DeliverPodView, RcUntouched DEF RcIsSound
<1>3. CASE Restart
  <2>1. /\ UNCHANGED <<rc, pod, succeeded>>
        /\ rcCache' = rc /\ podCache' = pod
        /\ rcEvents' = <<>> /\ podEvents' = <<>>
    BY <1>3 DEF Restart, observed
  <2>2. LastEventIsCurrent' /\ FreshIsCurrent'
    BY <2>1 DEF LastEventIsCurrent, FreshIsCurrent
  <2>3. CompleteMeansSucceeded' /\ NeverBarred'
    BY <2>1 DEF CompleteMeansSucceeded, NeverBarred, Own
  <2>4. SuccessIsVouched'
    BY <2>1 DEF SuccessIsVouched, PodsVouched
  <2>. QED
    BY <2>2, <2>3, <2>4
<1>. QED
  BY <1>1, <1>2, <1>3

\* A pod that starts, ends or goes away.
LEMMA PodStepSound ==
    ASSUME TypeOK, TypeOK', ViewsAreSound,
           NEW d \in Deployments, NEW k \in PodKinds,
           PodStarts(d, k) \/ PodFinishes(d, k) \/ PodRemoved(d, k)
    PROVE  ViewsAreSound'
<1>. USE DEF ViewsAreSound
<1>1. /\ UNCHANGED <<rc, rcEvents, rcCache, podCache>>
      /\ \A x \in Deployments : succeeded[x] => succeeded'[x]
  BY DEF PodStarts, PodFinishes, PodRemoved, controller, observed, TypeOK
<1>2. RcIsSound'
  BY <1>1, RcUntouched DEF RcIsSound
<1>3. PICK object \in PodObject :
        StorePod(d, k, object) /\ Vouched(succeeded', d, k, object)
  <2>1. pod[d][k] \in PodObject /\ Vouched(succeeded, d, k, pod[d][k])
    BY DEF TypeOK, SuccessIsVouched, PodsVouched
  <2>2. \A phase \in PodPhases :
          /\ [pod[d][k] EXCEPT !.phase = phase] \in PodObject
          /\ [pod[d][k] EXCEPT !.phase = phase].phase = phase
          /\ [pod[d][k] EXCEPT !.phase = phase].foreign = pod[d][k].foreign
    BY <2>1 DEF PodObject
  <2>3. CASE PodStarts(d, k)
    BY <2>1, <2>2, <2>3 DEF PodStarts, PodPhases, Vouched
  <2>4. CASE PodRemoved(d, k)
    <3>1. NoPod \in PodObject /\ Vouched(succeeded', d, k, NoPod)
      BY DEF NoPod, PodObject, Vouched
    <3>. QED
      BY <2>4, <3>1 DEF PodRemoved
  <2>5. CASE PodFinishes(d, k)
    <3>1. PICK phase \in {"Succeeded", "Failed"} :
            /\ StorePod(d, k, [pod[d][k] EXCEPT !.phase = phase])
            /\ succeeded' = [succeeded EXCEPT ![d] =
                 @ \/ (phase = "Succeeded" /\ k = "deployer" /\ ~pod[d][k].foreign)]
      BY <2>5 DEF PodFinishes
    <3>2. phase = "Succeeded" /\ k = "deployer" /\ ~pod[d][k].foreign
            => succeeded'[d]
      BY <3>1 DEF TypeOK
    <3>3. Vouched(succeeded', d, k, [pod[d][k] EXCEPT !.phase = phase])
      BY <2>1, <2>2, <3>2 DEF Vouched, PodPhases
    <3>. QED
      BY <2>2, <3>1, <3>3 DEF PodPhases
  <2>. QED
    BY <2>3, <2>4, <2>5
<1>4. SuccessIsVouched'
  <2>1. /\ [kind \in PodKinds |-> object] \in [PodKinds -> PodObject]
        /\ {k} \in SUBSET PodKinds
        /\ \A x \in {k} :
             Vouched(succeeded', d, x, [kind \in PodKinds |-> object][x])
    BY <1>3
  <2>. QED
    BY <1>1, <1>3, <2>1, StorePodsView DEF StorePod
<1>. QED
  BY <1>2, <1>4 DEF RcIsSound

\* The other steps of the environment: what each writes, if anything, to the
\* deployment and to its pods.
LEMMA EnvironmentWrites ==
    ASSUME TypeOK, ViewsAreSound, NEW d \in Deployments, Environment(d),
           ~\E k \in PodKinds :
              PodStarts(d, k) \/ PodFinishes(d, k) \/ PodRemoved(d, k)
    PROVE  /\ UNCHANGED <<rcCache, podCache, succeeded>>
           /\ \/ UNCHANGED <<rc, rcEvents>>
              \/ \E object \in RcObject :
                   /\ StoreRc(d, object)
                   /\ d \in Own /\ object.phase = "Complete" => succeeded[d]
                   /\ d \in Own /\ Exists(object) /\ ~succeeded[d]
                        => object.desired
           /\ \/ UNCHANGED <<pod, podEvents>>
              \/ \E ks \in SUBSET PodKinds : DeletePods(d, ks) \/ RemovePods(d, ks)
              \/ StorePod(d, "hook", NewPod)
<1>. USE DEF controller, clients, observed, stored
<1>. DEFINE Backed(object) ==
       /\ d \in Own /\ object.phase = "Complete" => succeeded[d]
       /\ d \in Own /\ Exists(object) /\ ~succeeded[d] => object.desired
<1>0. rc[d] \in RcObject /\ (Exists(rc[d]) => Backed(rc[d]))
  BY DEF TypeOK, ViewsAreSound, CompleteMeansSucceeded, NeverBarred
<1>1. CASE PodEvicted(d)
  BY <1>1 DEF PodEvicted, PodKinds
<1>2. CASE DeployerScales(d)
  <2>. DEFINE object == [rc[d] EXCEPT !.replicas = 1]
  <2>1. object \in RcObject /\ (Exists(rc[d]) => Backed(object))
    BY <1>0 DEF RcObject, Exists
  <2>. QED
    BY <1>2, <2>1 DEF DeployerScales, DeployerRuns
<1>3. CASE DeployerRunsHook(d)
  BY <1>3 DEF DeployerRunsHook
<1>4. CASE RcCreated(d)
  <2>1. NewRc \in RcObject /\ Backed(NewRc)
    BY DEF NewRc, RcObject, Phases
  <2>. QED
    BY <1>4, <2>1 DEF RcCreated
<1>5. CASE RcDeleted(d)
  <2>1. NoRc \in RcObject /\ Backed(NoRc)
    BY DEF NoRc, RcObject, Exists
  <2>. QED
    BY <1>5, <2>1 DEF RcDeleted
<1>6. CASE CancelReads(d)
  BY <1>6 DEF CancelReads
<1>7. CASE CancelPatches(d)
  <2>. DEFINE object == [rc[d] EXCEPT !.cancelled = TRUE]
  <2>1. object \in RcObject /\ (Exists(rc[d]) => Backed(object))
    BY <1>0 DEF RcObject, Exists
  <2>. QED
    BY <1>7, <2>1 DEF CancelPatches
<1>8. CASE Retry(d)
  <2>. DEFINE object == [rc[d] EXCEPT !.phase = "New", !.cancelled = FALSE]
  <2>1. object \in RcObject /\ (Exists(rc[d]) => Backed(object))
    BY <1>0 DEF RcObject, Phases, Exists
  <2>2. Exists(rc[d]) /\ StoreRc(d, object) /\ RemovePods(d, LabelledPods(d))
    BY <1>8 DEF Retry, Exists
  <2>3. LabelledPods(d) \in SUBSET PodKinds
    BY DEF LabelledPods
  <2>. QED
    BY <1>8, <2>1, <2>2, <2>3 DEF Retry
<1>9. CASE RetryReads(d)
  <2>1. LabelledPods(d) \in SUBSET PodKinds
    BY DEF LabelledPods
  <2>. QED
    BY <1>9, <2>1 DEF RetryReads
<1>10. CASE RetryPatches(d)
  <2>1. PICK cancelled \in BOOLEAN :
          IF Exists(rc[d])
          THEN StoreRc(d, [rc[d] EXCEPT !.phase = "New",
                                        !.cancelled = @ /\ ~cancelled])
          ELSE UNCHANGED <<rc, rcEvents>>
    BY <1>10 DEF RetryPatches
  <2>. DEFINE object == [rc[d] EXCEPT !.phase = "New",
                                      !.cancelled = @ /\ ~cancelled]
  <2>2. object \in RcObject /\ (Exists(rc[d]) => Backed(object))
    BY <1>0 DEF RcObject, Phases, Exists
  <2>. QED
    BY <1>10, <2>1, <2>2 DEF RetryPatches
<1>. QED
  BY <1>1, <1>2, <1>3, <1>4, <1>5, <1>6, <1>7, <1>8, <1>9, <1>10 DEF Environment

LEMMA EnvironmentSound ==
    ASSUME TypeOK, TypeOK', ViewsAreSound, NEW d \in Deployments, Environment(d),
           ~\E k \in PodKinds :
              PodStarts(d, k) \/ PodFinishes(d, k) \/ PodRemoved(d, k)
    PROVE  ViewsAreSound'
<1>. USE DEF ViewsAreSound
<1>1. UNCHANGED <<rcCache, podCache, succeeded>>
  BY EnvironmentWrites
<1>2. RcIsSound'
  BY <1>1, EnvironmentWrites, RcUntouched, StoreRcSound DEF RcIsSound
<1>3. SuccessIsVouched'
  <2>1. CASE UNCHANGED <<pod, podEvents>>
    BY <1>1, <2>1, PodsUntouched
  <2>2. CASE \E ks \in SUBSET PodKinds : DeletePods(d, ks) \/ RemovePods(d, ks)
    BY <1>1, <2>2, DeletePodsView
  <2>3. CASE StorePod(d, "hook", NewPod)
    <3>1. /\ [kind \in PodKinds |-> NewPod] \in [PodKinds -> PodObject]
          /\ {"hook"} \in SUBSET PodKinds
          /\ \A k \in {"hook"} :
               Vouched(succeeded', d, k, [kind \in PodKinds |-> NewPod][k])
      BY DEF NewPod, PodObject, PodPhases, PodKinds, Vouched
    <3>. QED
      BY <1>1, <2>3, <3>1, StorePodsView DEF StorePod
  <2>. QED
    BY <2>1, <2>2, <2>3, EnvironmentWrites
<1>. QED
  BY <1>2, <1>3 DEF RcIsSound

LEMMA InitSound == Init => ViewsAreSound
BY DEF Init, ViewsAreSound, LastEventIsCurrent, FreshIsCurrent, SuccessIsVouched,
       PodsVouched, Vouched, CompleteMeansSucceeded, NeverBarred, Own, NoRc, NoPod,
       Exists

LEMMA NextSound == TypeOK /\ TypeOK' /\ ViewsAreSound /\ [Next]_vars => ViewsAreSound'
<1>. SUFFICES ASSUME TypeOK, TypeOK', ViewsAreSound, [Next]_vars
              PROVE  ViewsAreSound'
  OBVIOUS
<1>1. CASE DeliverRc \/ DeliverPod \/ Restart
  BY <1>1, InformersSound
<1>2. ASSUME NEW d \in Deployments, Handle(d) PROVE ViewsAreSound'
  BY <1>2, HandleSound
<1>3. ASSUME NEW d \in Deployments, Environment(d) PROVE ViewsAreSound'
  BY <1>3, PodStepSound, EnvironmentSound
<1>4. ASSUME UNCHANGED vars \/ \E d \in Deployments : DelayElapses(d)
      PROVE  ViewsAreSound'
  <2>1. UNCHANGED <<rc, rcEvents, rcCache, pod, podEvents, podCache, succeeded>>
    BY <1>4 DEF vars, stored, controller, observed, DelayElapses
  <2>. QED
    BY <2>1, RcUntouched, PodsUntouched DEF ViewsAreSound, RcIsSound
<1>. QED
  BY <1>1, <1>2, <1>3, <1>4 DEF Next

\* The inductive invariant: the controller never acts on a view that was not
\* true, and writes a deployment only on a view of it that still is.
THEOREM ViewsSound == Spec => []ViewsAreSound
<1>1. Init => ViewsAreSound
  BY InitSound
<1>2. TypeOK /\ TypeOK' /\ ViewsAreSound /\ [Next]_vars => ViewsAreSound'
  BY NextSound
<1>. QED
  BY <1>1, <1>2, TypeCorrect, PTL DEF Spec

\* A deployment is Complete only if its own deployer succeeded, and one whose
\* deployer has not succeeded can still be run.
THEOREM SuccessSound == Spec => [](CompleteMeansSucceeded /\ NeverBarred)
<1>1. ViewsAreSound => CompleteMeansSucceeded /\ NeverBarred
  BY DEF ViewsAreSound
<1>. QED
  BY <1>1, ViewsSound, PTL

-------------------------------------------------------------------------------
\* What a step may do to a stored deployment.

\* The controller advances it, and takes back a cancellation only on success.
Advanced(d) ==
    /\ Exists(rc[d]) /\ Exists(rc'[d])
    /\ Rank(rc[d].phase) < Rank(rc'[d].phase)
    /\ d \in Own /\ rc[d].cancelled /\ ~rc'[d].cancelled => succeeded[d]
    /\ d \in TestDeployments /\ IsTerminatedPhase(rc'[d].phase)
         => rc'[d].replicas = 0

\* Its other writers add or remove it, leave its phase alone, or retry it.
Edited(d) ==
    \/ ~Exists(rc[d]) /\ rc'[d].phase = "New"
    \/ ~Exists(rc'[d])
    \/ /\ rc'[d].phase = rc[d].phase
       /\ rc[d].cancelled => rc'[d].cancelled
    \/ /\ rc'[d].phase = "New"
       /\ rc[d].phase = "Failed" \/ RetriedBlindly(d)

LEMMA HandleAdvances ==
    ASSUME TypeOK, ViewsAreSound, NEW d \in Deployments, Handle(d)
    PROVE  rc' = rc \/ (Advanced(d) /\ \A x \in Deployments \ {d} : rc'[x] = rc[x])
<1>1. CASE UNCHANGED <<rc, rcEvents>>
  BY <1>1
<1>2. ASSUME NEW next \in Phases, UpdatePhase(d, next), rc' # rc
      PROVE  Advanced(d) /\ \A x \in Deployments \ {d} : rc'[x] = rc[x]
  <2>1. /\ CanTransitionPhase(rcCache[d].phase, next)
        /\ Fresh(d) /\ StoreRc(d, Transitioned(d, next))
    BY <1>2 DEF UpdatePhase
  <2>2. /\ rc[d] \in RcObject /\ rcCache[d] = rc[d]
        /\ rc'[d] = Transitioned(d, next)
        /\ \A x \in Deployments \ {d} : rc'[x] = rc[x]
    BY <2>1 DEF ViewsAreSound, FreshIsCurrent, StoreRc, TypeOK
  <2>3. /\ rc'[d].phase = next
        /\ rc'[d].cancelled = Annotated(d).cancelled
        /\ d \in TestDeployments /\ IsTerminatedPhase(next) => rc'[d].replicas = 0
    <3>1. Annotated(d) \in RcObject
      BY <2>2 DEF Annotated, RcObject
    <3>. QED
      BY <2>2, <3>1 DEF Transitioned, RcObject
  <2>4. ASSUME d \in Own, rc[d].cancelled, ~rc'[d].cancelled PROVE succeeded[d]
    <3>1. Deployer(d).phase = "Succeeded"
      BY <2>2, <2>3, <2>4 DEF Annotated
    <3>. QED
      BY <2>4, <3>1
      DEF ViewsAreSound, SuccessIsVouched, PodsVouched, Vouched, Deployer, PodKinds
  <2>5. /\ Exists(rc[d]) /\ Exists(rc'[d])
        /\ Rank(rc[d].phase) < Rank(rc'[d].phase)
    BY <2>1, <2>2, <2>3 DEF CanTransitionPhase, Rank, Exists
  <2>. QED
    BY <2>2, <2>3, <2>4, <2>5 DEF Advanced
<1>. QED
  BY <1>1, <1>2, HandleWrites DEF ViewsAreSound

LEMMA EnvironmentEdits ==
    ASSUME TypeOK, NEW d \in Deployments, Environment(d)
    PROVE  rc' = rc \/ (Edited(d) /\ \A x \in Deployments \ {d} : rc'[x] = rc[x])
<1>0. /\ rc \in [Deployments -> RcObject] /\ rc[d] \in RcObject
      /\ \A object : StoreRc(d, object)
           => /\ rc'[d] = object
              /\ \A x \in Deployments \ {d} : rc'[x] = rc[x]
  BY DEF TypeOK, StoreRc
<1>1. CASE \/ \E k \in PodKinds :
                PodStarts(d, k) \/ PodFinishes(d, k) \/ PodRemoved(d, k)
           \/ PodEvicted(d) \/ DeployerRunsHook(d) \/ CancelReads(d)
           \/ RetryReads(d)
  BY <1>1 DEF PodStarts, PodFinishes, PodRemoved, PodEvicted, DeployerRunsHook,
              CancelReads, RetryReads, stored
<1>2. CASE DeployerScales(d)
  <2>1. rc'[d] = [rc[d] EXCEPT !.replicas = 1]
    BY <1>0, <1>2 DEF DeployerScales
  <2>. QED
    BY <1>0, <1>2, <2>1 DEF DeployerScales, Edited, RcObject
<1>3. CASE RcCreated(d)
  BY <1>0, <1>3 DEF RcCreated, Edited, NewRc
<1>4. CASE RcDeleted(d)
  BY <1>0, <1>4 DEF RcDeleted, Edited, NoRc, Exists
<1>5. CASE CancelPatches(d)
  <2>1. rc' = rc \/ StoreRc(d, [rc[d] EXCEPT !.cancelled = TRUE])
    BY <1>5 DEF CancelPatches
  <2>2. CASE StoreRc(d, [rc[d] EXCEPT !.cancelled = TRUE])
    <3>1. rc'[d] = [rc[d] EXCEPT !.cancelled = TRUE]
      BY <1>0, <2>2
    <3>2. rc'[d].phase = rc[d].phase /\ rc'[d].cancelled
      BY <1>0, <3>1 DEF RcObject
    <3>. QED
      BY <1>0, <2>2, <3>2 DEF Edited
  <2>. QED
    BY <2>1, <2>2
<1>6. CASE Retry(d)
  <2>1. rc[d].phase = "Failed"
          /\ StoreRc(d, [rc[d] EXCEPT !.phase = "New", !.cancelled = FALSE])
    BY <1>6 DEF Retry
  <2>2. rc'[d] = [rc[d] EXCEPT !.phase = "New", !.cancelled = FALSE]
    BY <1>0, <2>1
  <2>3. rc'[d].phase = "New"
    BY <1>0, <2>2 DEF RcObject
  <2>. QED
    BY <1>0, <2>1, <2>3 DEF Edited
<1>7. CASE RetryPatches(d)
  <2>1. PICK cancelled \in BOOLEAN :
          /\ <<d, cancelled>> \in retrying
          /\ retrying' = retrying \ {<<d, cancelled>>}
          /\ IF Exists(rc[d])
             THEN StoreRc(d, [rc[d] EXCEPT !.phase = "New",
                                           !.cancelled = @ /\ ~cancelled])
             ELSE UNCHANGED <<rc, rcEvents>>
    BY <1>7 DEF RetryPatches
  <2>2. RetriedBlindly(d)
    BY <2>1 DEF RetriedBlindly
  <2>3. CASE StoreRc(d, [rc[d] EXCEPT !.phase = "New",
                                      !.cancelled = @ /\ ~cancelled])
    <3>1. rc'[d] = [rc[d] EXCEPT !.phase = "New",
                                 !.cancelled = @ /\ ~cancelled]
      BY <1>0, <2>3
    <3>2. rc'[d].phase = "New"
      BY <1>0, <3>1 DEF RcObject
    <3>. QED
      BY <1>0, <2>2, <2>3, <3>2 DEF Edited
  <2>. QED
    BY <2>1, <2>3
<1>. QED
  BY <1>1, <1>2, <1>3, <1>4, <1>5, <1>6, <1>7 DEF Environment

LEMMA StepEffect ==
    ASSUME TypeOK, ViewsAreSound, [Next]_vars, NEW d \in Deployments
    PROVE  rc'[d] = rc[d] \/ Advanced(d) \/ Edited(d)
<1>1. CASE UNCHANGED vars \/ DeliverRc \/ DeliverPod \/ Restart
             \/ \E x \in Deployments : DelayElapses(x)
  BY <1>1 DEF vars, stored, DeliverRc, DeliverPod, Restart, DelayElapses
<1>2. ASSUME NEW x \in Deployments, Handle(x) \/ Environment(x)
      PROVE  rc'[d] = rc[d] \/ Advanced(d) \/ Edited(d)
  BY <1>2, HandleAdvances, EnvironmentEdits
<1>. QED
  BY <1>1, <1>2 DEF Next

\* A stored phase only advances, although it is computed from old copies of a
\* deployment and a pod: only a retry sets a deployment back, to New.
THEOREM PhasesOnlyAdvance == Spec => PhasesAdvance
<1>1. TypeOK /\ ViewsAreSound /\ [Next]_vars
        => [\A d \in Deployments :
              \/ rc'[d].phase = rc[d].phase
              \/ ~Exists(rc[d]) \/ ~Exists(rc'[d])
              \/ Rank(rc[d].phase) < Rank(rc'[d].phase)
              \/ (rc[d].phase = "Failed" /\ rc'[d].phase = "New")
              \/ (RetriedBlindly(d) /\ rc'[d].phase = "New")]_vars
  BY StepEffect DEF Advanced, Edited
<1>. QED
  BY <1>1, TypeCorrect, ViewsSound, PTL DEF Spec, PhasesAdvance

\* A cancellation is taken back only when the deployer had succeeded, or by a
\* retry.
THEOREM CancelNotLost == Spec => CancelLostOnlyToSuccess
<1>1. TypeOK /\ ViewsAreSound /\ [Next]_vars
        => [\A d \in Own :
              Exists(rc[d]) /\ rc[d].cancelled /\ ~rc'[d].cancelled
                => \/ ~Exists(rc'[d])
                   \/ rc[d].phase = "Failed" \/ RetriedBlindly(d)
                   \/ succeeded[d]]_vars
  BY StepEffect DEF Advanced, Edited, Own
<1>. QED
  BY <1>1, TypeCorrect, ViewsSound, PTL DEF Spec, CancelLostOnlyToSuccess

\* The write that ends a test deployment scales it down.
THEOREM TestsScaledDown == Spec => TestScaledDown
<1>1. TypeOK /\ ViewsAreSound /\ [Next]_vars
        => [\A d \in TestDeployments :
              ~IsTerminatedPhase(rc[d].phase) /\ IsTerminatedPhase(rc'[d].phase)
                => rc'[d].replicas = 0]_vars
  BY StepEffect, DeploymentsAssumption
  DEF Advanced, Edited, IsTerminatedPhase, Exists
<1>. QED
  BY <1>1, TypeCorrect, ViewsSound, PTL DEF Spec, TestScaledDown

-------------------------------------------------------------------------------
\* The refinement of DeploymentOutcome.

\* A step that changes what is stored of one deployment, and no evidence.
LEMMA RcStepMaps ==
    ASSUME TypeOK, TypeOK', ViewsAreSound', NEW d \in Deployments,
           Advanced(d) \/ Edited(d), succeeded' = succeeded,
           \A x \in Deployments \ {d} : rc'[x] = rc[x],
           RetriedBlindly(d) => rc[d].phase \in {"Failed", "Absent"}
    PROVE  Outcome!Next \/ UNCHANGED Outcome!vars
<1>. DEFINE out == [x \in Deployments |-> OutcomeOf(rc[x].phase)]
            proof == [x \in Deployments |-> succeeded[x] \/ x \in Foreign]
            from == OutcomeOf(rc[d].phase)
            to == OutcomeOf(rc'[d].phase)
<1>1. out' = [out EXCEPT ![d] = to] /\ out[d] = from /\ proof' = proof
  OBVIOUS
<1>2. rc[d] \in RcObject /\ rc'[d] \in RcObject
  BY DEF TypeOK
<1>3. to = "complete" => proof[d]
  BY <1>2 DEF OutcomeOf, ViewsAreSound, CompleteMeansSucceeded, Own, RcObject, Phases
<1>4. \/ from = to
      \/ from = "absent" /\ to = "inflight"
      \/ from = "inflight" /\ to \in {"complete", "failed"}
      \/ from = "failed" /\ to = "inflight"
      \/ to = "absent"
  BY <1>2 DEF Advanced, Edited, OutcomeOf, Exists, Rank, RcObject, Phases
<1>5. from \in Outcome!Outcomes
  BY <1>2 DEF OutcomeOf, Outcome!Outcomes
<1>6. CASE from = to
  BY <1>1, <1>6 DEF Outcome!vars
<1>7. CASE from = "absent" /\ to = "inflight"
  <2>1. Outcome!Accept(d)
    BY <1>1, <1>7 DEF Outcome!Accept, Outcome!Becomes
  <2>. QED
    BY <2>1 DEF Outcome!Next
<1>8. CASE from = "inflight" /\ to = "complete"
  <2>1. Outcome!Complete(d)
    BY <1>1, <1>3, <1>8 DEF Outcome!Complete, Outcome!Becomes
  <2>. QED
    BY <2>1 DEF Outcome!Next
<1>9. CASE from = "inflight" /\ to = "failed"
  <2>1. Outcome!Fail(d)
    BY <1>1, <1>9 DEF Outcome!Fail, Outcome!Becomes
  <2>. QED
    BY <2>1 DEF Outcome!Next
<1>10. CASE from = "failed" /\ to = "inflight"
  <2>1. Outcome!Retry(d)
    BY <1>1, <1>10 DEF Outcome!Retry, Outcome!Becomes
  <2>. QED
    BY <2>1 DEF Outcome!Next
<1>11. CASE to = "absent"
  <2>1. Outcome!Remove(d)
    BY <1>1, <1>5, <1>11 DEF Outcome!Remove, Outcome!Becomes
  <2>. QED
    BY <2>1 DEF Outcome!Next
<1>. QED
  BY <1>4, <1>6, <1>7, <1>8, <1>9, <1>10, <1>11

\* A step that changes no deployment, and evidence of at most one.
LEMMA EvidenceStepMaps ==
    ASSUME TypeOK, NEW d \in Deployments, rc' = rc,
           succeeded' \in {succeeded, [succeeded EXCEPT ![d] = TRUE]}
    PROVE  Outcome!Next \/ UNCHANGED Outcome!vars
<1>. DEFINE out == [x \in Deployments |-> OutcomeOf(rc[x].phase)]
            proof == [x \in Deployments |-> succeeded[x] \/ x \in Foreign]
<1>1. out' = out
  OBVIOUS
<1>2. proof' = proof \/ proof' = [proof EXCEPT ![d] = TRUE]
  BY DEF TypeOK
<1>3. CASE proof' = proof
  BY <1>1, <1>3 DEF Outcome!vars
<1>4. CASE proof' = [proof EXCEPT ![d] = TRUE]
  BY <1>1, <1>4 DEF Outcome!Next, Outcome!Report
<1>. QED
  BY <1>2, <1>3, <1>4

LEMMA StepMaps ==
    ASSUME TypeOK, TypeOK', ViewsAreSound, ViewsAreSound', [Next]_vars,
           [\A d \in Deployments :
              RetriedBlindly(d) => rc[d].phase \in {"Failed", "Absent"}]_vars
    PROVE  Outcome!Next \/ UNCHANGED Outcome!vars
<1>1. CASE UNCHANGED <<rc, succeeded>>
  BY <1>1 DEF Outcome!vars
<1>2. ASSUME ~UNCHANGED <<rc, succeeded>>
      PROVE  \A d \in Deployments :
               RetriedBlindly(d) => rc[d].phase \in {"Failed", "Absent"}
  BY <1>2 DEF vars, stored, observed
<1>3. ASSUME NEW d \in Deployments, Handle(d), ~UNCHANGED <<rc, succeeded>>
      PROVE  Outcome!Next \/ UNCHANGED Outcome!vars
  <2>1. succeeded' = succeeded
    BY <1>3, HandleWrites DEF ViewsAreSound
  <2>2. Advanced(d) /\ \A x \in Deployments \ {d} : rc'[x] = rc[x]
    BY <1>3, <2>1, HandleAdvances
  <2>. QED
    BY <1>2, <1>3, <2>1, <2>2, RcStepMaps
<1>4. ASSUME NEW d \in Deployments, NEW k \in PodKinds,
             PodStarts(d, k) \/ PodFinishes(d, k) \/ PodRemoved(d, k)
      PROVE  Outcome!Next \/ UNCHANGED Outcome!vars
  <2>1. rc' = rc
    BY <1>4 DEF PodStarts, PodFinishes, PodRemoved
  <2>2. succeeded' \in {succeeded, [succeeded EXCEPT ![d] = TRUE]}
    <3>1. CASE succeeded' = succeeded
      BY <3>1
    <3>2. CASE PodFinishes(d, k)
      <4>1. PICK ended \in BOOLEAN :
              succeeded' = [succeeded EXCEPT ![d] = @ \/ ended]
        BY <3>2 DEF PodFinishes
      <4>. QED
        BY <4>1 DEF TypeOK
    <3>. QED
      BY <1>4, <3>1, <3>2 DEF PodStarts, PodRemoved, observed
  <2>. QED
    BY <2>1, <2>2, EvidenceStepMaps
<1>5. ASSUME NEW d \in Deployments, Environment(d), ~UNCHANGED <<rc, succeeded>>,
             ~\E k \in PodKinds :
                PodStarts(d, k) \/ PodFinishes(d, k) \/ PodRemoved(d, k)
      PROVE  Outcome!Next \/ UNCHANGED Outcome!vars
  <2>1. succeeded' = succeeded
    BY <1>5, EnvironmentWrites
  <2>2. Edited(d) /\ \A x \in Deployments \ {d} : rc'[x] = rc[x]
    BY <1>5, <2>1, EnvironmentEdits
  <2>. QED
    BY <1>2, <1>5, <2>1, <2>2, RcStepMaps
<1>6. ASSUME \/ UNCHANGED vars \/ DeliverRc \/ DeliverPod \/ Restart
             \/ \E x \in Deployments : DelayElapses(x)
      PROVE  UNCHANGED <<rc, succeeded>>
  BY <1>6 DEF vars, stored, observed, DeliverRc, DeliverPod, Restart, DelayElapses
<1>. QED
  BY <1>1, <1>3, <1>4, <1>5, <1>6 DEF Next

\* The controller keeps the promise of DeploymentOutcome to whoever asked for a
\* deployment, as long as no two retries of it race.
THEOREM PromiseKept == Spec /\ RetriesAreTimely => ImplementsOutcome
<1>1. Init => Outcome!Init
  <2>. SUFFICES ASSUME Init PROVE Outcome!Init
    OBVIOUS
  <2>1. [d \in Deployments |-> OutcomeOf(rc[d].phase)]
          = [d \in Deployments |-> "absent"]
    BY DEF Init, NoRc, OutcomeOf
  <2>2. [d \in Deployments |-> succeeded[d] \/ d \in Foreign]
          \in [Deployments -> BOOLEAN]
    BY DEF Init
  <2>. QED
    BY <2>1, <2>2 DEF Outcome!Init
<1>2. /\ TypeOK /\ TypeOK' /\ ViewsAreSound /\ ViewsAreSound' /\ [Next]_vars
      /\ [\A d \in Deployments :
            RetriedBlindly(d) => rc[d].phase \in {"Failed", "Absent"}]_vars
      => [Outcome!Next]_(Outcome!vars)
  BY StepMaps
<1>. QED
  BY <1>1, <1>2, TypeCorrect, ViewsSound, PTL
  DEF Spec, RetriesAreTimely, ImplementsOutcome, Outcome!Spec
===============================================================================
