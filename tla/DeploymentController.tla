------------------------- MODULE DeploymentController -------------------------
(***************************************************************************)
(* The deployment controller (pkg/deploy/controller/deployment): it drives  *)
(* each deployment, a ReplicationController, through its phases by watching *)
(* the deployer pod that does the work.                                     *)
(*                                                                          *)
(*   rc, pod              what the API server holds                         *)
(*   rcEvents, podEvents  the two watch streams, not yet delivered          *)
(*   rcCache, podCache    the informers' stores, all the controller reads   *)
(*   queue, delayed, requeues   its rate limited work queue                 *)
(*                                                                          *)
(* A handler runs as one step: it reads only the caches, and every write it *)
(* makes to a ReplicationController is refused when the cached copy is not  *)
(* the stored one, so what another client does between its calls is the     *)
(* same as what it did before and the cache does not show yet.  An absent   *)
(* object is a record whose phase is "Absent".                              *)
(***************************************************************************)
EXTENDS DeployUtil, Sequences

CONSTANTS
    Deployments,      \* names of ReplicationControllers owned by a config
    IgnorePod,        \* those with the deployer-pod.ignore annotation
    Foreign,          \* those whose deployer pod name is taken at first
    TestDeployments,  \* those of a config with spec.test
    MaxRequeues,      \* errors a key may meet before it is dropped (2)
    Limits            \* bounds of what the environment may do

LimitNames ==
    {"errors", "restarts", "retries", "hooks", "evictions", "creations", "lag"}

ASSUME DeploymentsAssumption ==
    /\ IgnorePod \subseteq Deployments
    /\ Foreign \subseteq Deployments
    /\ TestDeployments \subseteq Deployments

ASSUME BoundsAssumption ==
    /\ MaxRequeues \in Nat
    /\ Limits \in [LimitNames -> Nat]

VARIABLES
    rc, pod,              \* the stored objects
    rcEvents, podEvents,  \* watch events on their way to the informers
    rcCache, podCache,    \* the informers' stores
    queue, delayed,       \* keys to handle, and those waiting to be added again
    requeues,             \* NumRequeues of each key
    cancelling,           \* deployments a client read in flight to cancel them
    retrying,             \* those a client read Failed, with "cancelled" as read
    spent,                \* how much of Limits has been used
    succeeded,            \* observed: a deployer of this deployment succeeded
    attempted             \* observed: a deployer was created since it was New

stored == <<rc, pod, rcEvents, podEvents>>
clients == <<cancelling, retrying>>
controller == <<rcCache, podCache, queue, delayed, requeues>>
observed == <<succeeded, attempted>>
vars == <<stored, controller, clients, spent, observed>>

-------------------------------------------------------------------------------
\* Objects

\* A deployment: its phase, cancellation and desired replicas annotations,
\* and spec.replicas (1 stands for the desired count).
RcObject == [phase : Phases \cup {"Absent"}, cancelled : BOOLEAN,
             desired : BOOLEAN, replicas : {0, 1}]
NoRc == [phase |-> "Absent", cancelled |-> FALSE,
         desired |-> FALSE, replicas |-> 0]
\* What MakeDeployment builds.
NewRc == [phase |-> "New", cancelled |-> FALSE, desired |-> TRUE, replicas |-> 0]

\* The pods labelled with a deployment: its deployer and a lifecycle hook.
\* A pod that only has the deployer's name is foreign.
PodKinds == {"deployer", "hook"}
PodPhases == {"Pending", "Running", "Succeeded", "Failed"}
PodObject == [phase : PodPhases \cup {"Absent"}, deleting : BOOLEAN,
              foreign : BOOLEAN]
NoPod == [phase |-> "Absent", deleting |-> FALSE, foreign |-> FALSE]
NewPod == [phase |-> "Pending", deleting |-> FALSE, foreign |-> FALSE]

Exists(object) == object.phase # "Absent"

TypeOK ==
    /\ rc \in [Deployments -> RcObject]
    /\ pod \in [Deployments -> [PodKinds -> PodObject]]
    /\ rcEvents \in Seq([key : Deployments, object : RcObject])
    /\ podEvents \in Seq([key : Deployments, kind : PodKinds, object : PodObject])
    /\ rcCache \in [Deployments -> RcObject]
    /\ podCache \in [Deployments -> [PodKinds -> PodObject]]
    /\ queue \subseteq Deployments /\ delayed \subseteq Deployments
    /\ requeues \in [Deployments -> 0..MaxRequeues]
    /\ cancelling \subseteq Deployments
    /\ retrying \subseteq Deployments \X BOOLEAN
    /\ spent \in [LimitNames -> Nat]
    /\ succeeded \in [Deployments -> BOOLEAN]
    /\ attempted \in [Deployments -> BOOLEAN]

Init ==
    /\ rc = [d \in Deployments |-> NoRc]
    /\ \E phase \in PodPhases :
         pod = [d \in Deployments |-> [k \in PodKinds |->
                  IF d \in Foreign /\ k = "deployer"
                  THEN [phase |-> phase, deleting |-> FALSE, foreign |-> TRUE]
                  ELSE NoPod]]
    /\ rcEvents = <<>> /\ podEvents = <<>>
    /\ rcCache = rc /\ podCache = pod
    /\ queue = {} /\ delayed = {} /\ requeues = [d \in Deployments |-> 0]
    /\ cancelling = {} /\ retrying = {}
    /\ spent = [limit \in LimitNames |-> 0]
    /\ succeeded = [d \in Deployments |-> FALSE]
    /\ attempted = [d \in Deployments |-> FALSE]

Spend(limit) ==
    /\ spent[limit] < Limits[limit]
    /\ spent' = [spent EXCEPT ![limit] = @ + 1]

\* How far the environment may run ahead of the watches (the controller's own
\* writes are not held back).
Room == Len(rcEvents) + Len(podEvents) < Limits["lag"]

-------------------------------------------------------------------------------
\* The API server

StoreRc(d, object) ==
    /\ rc' = [rc EXCEPT ![d] = object]
    /\ rcEvents' = Append(rcEvents, [key |-> d, object |-> object])

\* Pods of d are written, at most one of each kind.
StorePods(d, ks, objects) ==
    LET event(k) == [key |-> d, kind |-> k, object |-> objects[k]]
    IN  /\ pod' = [pod EXCEPT ![d] = [k \in PodKinds |->
                     IF k \in ks THEN objects[k] ELSE pod[d][k]]]
        /\ podEvents' = podEvents
             \o (IF "deployer" \in ks THEN <<event("deployer")>> ELSE <<>>)
             \o (IF "hook" \in ks THEN <<event("hook")>> ELSE <<>>)

StorePod(d, k, object) == StorePods(d, {k}, [kind \in PodKinds |-> object])

\* Mutant: an update that takes no notice of the resourceVersion.
FreshIgnored(d) == TRUE

\* The cached copy has the stored resourceVersion: nothing written to the
\* object is still on its way.
Fresh(d) == \A i \in DOMAIN rcEvents : rcEvents[i].key # d

\* A graceful delete of the pods of kinds ks: those stored are marked, and
\* removed when their node has stopped them.
Marked(d, ks) ==
    {k \in ks : Exists(pod[d][k]) /\ ~pod[d][k].deleting}

DeletePods(d, ks) ==
    StorePods(d, Marked(d, ks),
              [k \in PodKinds |-> [pod[d][k] EXCEPT !.deleting = TRUE]])

-------------------------------------------------------------------------------
\* The informers: the store is updated, then the handlers enqueue keys.

\* Adds and updates of a ReplicationController enqueue it; deletions do not.
DeliverRc ==
    /\ rcEvents # <<>>
    /\ LET e == Head(rcEvents)
       IN  /\ rcCache' = [rcCache EXCEPT ![e.key] = e.object]
           /\ queue' = IF Exists(e.object) THEN queue \cup {e.key} ELSE queue
    /\ rcEvents' = Tail(rcEvents)
    /\ UNCHANGED <<rc, pod, podEvents, podCache, delayed, requeues, clients,
                   spent, observed>>

\* Mutant: no handler for the deletion of a pod.
WakesOnUpdate(old, new) == Exists(old) /\ Exists(new) /\ ~old.foreign

\* Updates and deletions of a pod wake the deployment it names in its
\* annotations; additions do not, and a foreign pod names none.
Wakes(old, new) == Exists(old) /\ ~old.foreign

\* The deployment is looked up in the cache: one not seen yet is not woken.
DeliverPod ==
    /\ podEvents # <<>>
    /\ LET e == Head(podEvents)
           old == podCache[e.key][e.kind]
       IN  /\ podCache' = [podCache EXCEPT ![e.key][e.kind] = e.object]
           /\ queue' = IF Wakes(old, e.object) /\ Exists(rcCache[e.key])
                       THEN queue \cup {e.key} ELSE queue
    /\ podEvents' = Tail(podEvents)
    /\ UNCHANGED <<rc, pod, rcEvents, rcCache, delayed, requeues, clients,
                   spent, observed>>

\* A master restarts: the stores are listed again before any work is done,
\* and the listing adds every deployment to the queue.
Restart ==
    /\ Spend("restarts")
    /\ rcCache' = rc /\ podCache' = pod
    /\ rcEvents' = <<>> /\ podEvents' = <<>>
    /\ queue' = {d \in Deployments : Exists(rc[d])} /\ delayed' = {}
    /\ requeues' = [d \in Deployments |-> 0]
    /\ UNCHANGED <<rc, pod, clients, observed>>

-------------------------------------------------------------------------------
\* handleErr and the work queue

\* The delay of a key requeued after an error is over.
DelayElapses(d) ==
    /\ d \in delayed
    /\ delayed' = delayed \ {d}
    /\ queue' = queue \cup {d}
    /\ UNCHANGED <<stored, rcCache, podCache, requeues, clients, spent,
                   observed>>

Forget(d) ==
    /\ requeues' = [requeues EXCEPT ![d] = 0]
    /\ delayed' = delayed

\* Mutant: one requeue too many.
RequeueOnceMore(d) ==
    IF requeues[d] <= MaxRequeues
    THEN /\ requeues' = [requeues EXCEPT ![d] = @ + 1]
         /\ delayed' = delayed \cup {d}
    ELSE Forget(d)

\* The key is added again after a delay until it has been requeued
\* MaxRequeues times, then forgotten.
Requeue(d) ==
    IF requeues[d] < MaxRequeues
    THEN /\ requeues' = [requeues EXCEPT ![d] = @ + 1]
         /\ delayed' = delayed \cup {d}
    ELSE Forget(d)

-------------------------------------------------------------------------------
\* Handle

Deployer(d) == podCache[d]["deployer"]

\* Mutant: a deployer that ended is taken for one that succeeded.
StatusOfAnyEnd(p) ==
    CASE p.phase = "Pending" -> "Pending"
      [] p.phase = "Running" -> "Running"
      [] OTHER -> "Complete"

\* nextStatus: the phase the deployer pod stands for.
StatusOf(p) ==
    CASE p.phase = "Pending" -> "Pending"
      [] p.phase = "Running" -> "Running"
      [] p.phase = "Succeeded" -> "Complete"
      [] p.phase = "Failed" -> "Failed"

\* The phase Handle starts from, before it looks at the current one.
FromDeployer(d) ==
    IF Exists(Deployer(d)) THEN StatusOf(Deployer(d)) ELSE rcCache[d].phase

\* Mutant: a failed deployer uses up the desired replicas too.
AnnotatedAtAnyEnd(d) ==
    IF Deployer(d).phase \in {"Succeeded", "Failed"}
    THEN [rcCache[d] EXCEPT !.cancelled = FALSE, !.desired = FALSE]
    ELSE rcCache[d]

\* nextStatus also edits the annotations that will be written, whatever the
\* phase turns out to be: a deployer that succeeded ends the cancellation and
\* uses up the desired replicas.
Annotated(d) ==
    IF Deployer(d).phase = "Succeeded"
    THEN [rcCache[d] EXCEPT !.cancelled = FALSE, !.desired = FALSE]
    ELSE rcCache[d]

NextStatusComp(fromDeployer, fromPath) ==
    IF CanTransitionPhase(fromPath, fromDeployer) THEN fromDeployer ELSE fromPath

\* Mutant: the phase is compared before the new one is set.
TransitionedLate(d, next) ==
    [Annotated(d) EXCEPT
        !.phase = next,
        !.replicas = IF d \in TestDeployments /\ IsTerminatedPhase(rcCache[d].phase)
                     THEN 0 ELSE @]

\* What is written when the phase becomes next: a test deployment that ends
\* is scaled down in the same write.
Transitioned(d, next) ==
    [Annotated(d) EXCEPT
        !.phase = next,
        !.replicas = IF d \in TestDeployments /\ IsTerminatedPhase(next)
                     THEN 0 ELSE @]

\* The end of Handle: the deployment is written if its phase may change.  The
\* update conflicts on a stale copy and may fail otherwise.
UpdatePhase(d, next) ==
    IF CanTransitionPhase(rcCache[d].phase, next)
    THEN \/ /\ Fresh(d)
            /\ StoreRc(d, Transitioned(d, next))
            /\ Forget(d)
            /\ UNCHANGED spent
         \/ /\ ~Fresh(d)
            /\ Requeue(d)
            /\ UNCHANGED <<rc, rcEvents, spent>>
         \/ /\ Spend("errors")
            /\ Requeue(d)
            /\ UNCHANGED <<rc, rcEvents>>
    ELSE /\ Forget(d)
         /\ UNCHANGED <<rc, rcEvents, spent>>

\* cleanupDeployerPods: every pod labelled with the deployment in the cache
\* is deleted; failures are skipped over and reported at the end.
CachedPods(d) ==
    {k \in PodKinds : Exists(podCache[d][k]) /\ ~podCache[d][k].foreign}

CleanupFails(d) ==
    /\ CachedPods(d) # {}
    /\ Spend("errors")
    /\ \E failed \in SUBSET CachedPods(d) :
         failed # {} /\ DeletePods(d, CachedPods(d) \ failed)
    /\ Requeue(d)
    /\ UNCHANGED <<rc, rcEvents>>

CleanupThenUpdate(d, next) ==
    \/ DeletePods(d, CachedPods(d)) /\ UpdatePhase(d, next)
    \/ CleanupFails(d)

Handling(d) ==
    /\ d \in queue /\ queue' = queue \ {d}
    /\ Exists(rcCache[d])
    /\ UNCHANGED <<rcCache, podCache, clients>>

\* The deployment is gone from the cache: there is nothing to handle.
HandleMissing(d) ==
    /\ d \in queue
    /\ ~Exists(rcCache[d])
    /\ queue' = queue \ {d}
    /\ UNCHANGED <<stored, rcCache, podCache, delayed, requeues, clients,
                   spent, observed>>

\* New and cancelled: no deployer is created; it goes to Pending so that it
\* still counts as in flight until its pods are gone.
HandleNewCancelled(d) ==
    /\ Handling(d)
    /\ rcCache[d].phase = "New" /\ rcCache[d].cancelled
    /\ CleanupThenUpdate(d, "Pending")
    /\ UNCHANGED observed

\* New with no deployer in the cache: one is created, unless the caller runs
\* the deployment itself.  An existing pod makes the creation fail.
HandleNewStart(d) ==
    /\ Handling(d)
    /\ rcCache[d].phase = "New" /\ ~rcCache[d].cancelled
    /\ ~Exists(Deployer(d))
    /\ \/ /\ d \in IgnorePod
          /\ Forget(d)
          /\ UNCHANGED <<stored, spent, observed>>
       \/ /\ d \notin IgnorePod
          /\ ~Exists(pod[d]["deployer"])
          /\ StorePod(d, "deployer", NewPod)
          /\ attempted' = [attempted EXCEPT ![d] = TRUE]
          /\ UpdatePhase(d, "Pending")
          /\ UNCHANGED succeeded
       \/ /\ d \notin IgnorePod
          /\ \/ Exists(pod[d]["deployer"]) /\ UNCHANGED spent
             \/ Spend("errors")
          /\ Requeue(d)
          /\ UNCHANGED <<stored, observed>>

\* New with a deployer in the cache: an unrelated pod fails the deployment,
\* its own (an earlier update was lost) gives it the pod's phase.
HandleNewFound(d) ==
    /\ Handling(d)
    /\ rcCache[d].phase = "New" /\ ~rcCache[d].cancelled
    /\ Exists(Deployer(d))
    /\ UpdatePhase(d, IF Deployer(d).foreign THEN "Failed"
                      ELSE NextStatusComp(FromDeployer(d), "Pending"))
    /\ UNCHANGED <<pod, podEvents, observed>>

\* Pending or Running: follow the deployer, fail when it is missing, and
\* delete it when the deployment has been cancelled.
HandleInFlight(d) ==
    /\ Handling(d)
    /\ rcCache[d].phase \in {"Pending", "Running"}
    /\ \/ /\ ~Exists(Deployer(d))
          /\ UpdatePhase(d, "Failed")
          /\ UNCHANGED <<pod, podEvents>>
       \/ /\ Exists(Deployer(d)) /\ rcCache[d].cancelled
          /\ CleanupThenUpdate(d, FromDeployer(d))
       \/ /\ Exists(Deployer(d)) /\ ~rcCache[d].cancelled
          /\ UpdatePhase(d, FromDeployer(d))
          /\ UNCHANGED <<pod, podEvents>>
    /\ UNCHANGED observed

\* Mutant: hook pods created after the first cleanup are forgotten.
NeedsCleanupOnce(d) == rcCache[d].phase = "Complete"

\* A complete deployment's pods are cleaned up, and once more those of a
\* cancelled one: its deployer may have created a hook pod meanwhile.
NeedsCleanup(d) == rcCache[d].phase = "Complete" \/ rcCache[d].cancelled

HandleTerminated(d) ==
    /\ Handling(d)
    /\ IsTerminatedPhase(rcCache[d].phase)
    /\ \/ NeedsCleanup(d) /\ CleanupThenUpdate(d, FromDeployer(d))
       \/ /\ ~NeedsCleanup(d)
          /\ UpdatePhase(d, FromDeployer(d))
          /\ UNCHANGED <<pod, podEvents>>
    /\ UNCHANGED observed

Handle(d) ==
    \/ HandleMissing(d)
    \/ HandleNewCancelled(d)
    \/ HandleNewStart(d)
    \/ HandleNewFound(d)
    \/ HandleInFlight(d)
    \/ HandleTerminated(d)

-------------------------------------------------------------------------------
\* The deployer and the nodes

PodStarts(d, k) ==
    /\ Room
    /\ pod[d][k].phase = "Pending" /\ ~pod[d][k].deleting
    /\ StorePod(d, k, [pod[d][k] EXCEPT !.phase = "Running"])
    /\ UNCHANGED <<rc, rcEvents, controller, clients, spent, observed>>

\* A pod ends.  The deployer refuses to run for a deployment that has no
\* desired replicas ("has already run to completion").
PodFinishes(d, k) ==
    /\ Room
    /\ pod[d][k].phase \in {"Pending", "Running"}
    /\ \E phase \in {"Succeeded", "Failed"} :
         /\ phase = "Succeeded" /\ k = "deployer" /\ Exists(rc[d])
               => rc[d].desired
         /\ StorePod(d, k, [pod[d][k] EXCEPT !.phase = phase])
         /\ succeeded' = [succeeded EXCEPT ![d] =
                @ \/ (phase = "Succeeded" /\ k = "deployer" /\ ~pod[d][k].foreign)]
    /\ UNCHANGED <<rc, rcEvents, controller, clients, spent, attempted>>

\* A marked pod is removed once its containers have stopped.
PodRemoved(d, k) ==
    /\ Room
    /\ Exists(pod[d][k]) /\ pod[d][k].deleting
    /\ StorePod(d, k, NoPod)
    /\ UNCHANGED <<rc, rcEvents, controller, clients, spent, observed>>

\* Someone deletes or evicts a deployer or a foreign pod.
PodEvicted(d) ==
    /\ Room
    /\ Marked(d, {"deployer"}) # {}
    /\ Spend("evictions")
    /\ DeletePods(d, {"deployer"})
    /\ UNCHANGED <<rc, rcEvents, controller, clients, observed>>

DeployerRuns(d) ==
    /\ pod[d]["deployer"].phase = "Running" /\ ~pod[d]["deployer"].foreign
    /\ Exists(rc[d]) /\ rc[d].desired

\* The strategy scales the new deployment up (it retries on conflict).
DeployerScales(d) ==
    /\ Room
    /\ DeployerRuns(d)
    /\ rc[d].replicas = 0
    /\ StoreRc(d, [rc[d] EXCEPT !.replicas = 1])
    /\ UNCHANGED <<pod, podEvents, controller, clients, spent, observed>>

\* The strategy runs a lifecycle hook in a pod of its own.
DeployerRunsHook(d) ==
    /\ Room
    /\ DeployerRuns(d)
    /\ ~Exists(pod[d]["hook"])
    /\ Spend("hooks")
    /\ StorePod(d, "hook", NewPod)
    /\ UNCHANGED <<rc, rcEvents, controller, clients, observed>>

-------------------------------------------------------------------------------
\* Other clients of the ReplicationController

\* The deployment config controller creates it.
RcCreated(d) ==
    /\ Room
    /\ ~Exists(rc[d])
    /\ Spend("creations")
    /\ StoreRc(d, NewRc)
    /\ attempted' = [attempted EXCEPT ![d] = FALSE]
    /\ UNCHANGED <<pod, podEvents, controller, clients, succeeded>>

\* A user, or the revision history cleanup, deletes it.
RcDeleted(d) ==
    /\ Room
    /\ Exists(rc[d])
    /\ StoreRc(d, NoRc)
    /\ UNCHANGED <<pod, podEvents, controller, clients, spent, observed>>

\* oc rollout cancel lists the deployments, then patches those that were in
\* flight; the patch carries no resourceVersion.
CancelReads(d) ==
    /\ IsInFlightPhase(rc[d].phase) /\ ~rc[d].cancelled
    /\ d \notin cancelling
    /\ cancelling' = cancelling \cup {d}
    /\ UNCHANGED <<stored, controller, retrying, spent, observed>>

CancelPatches(d) ==
    /\ Room
    /\ d \in cancelling
    /\ cancelling' = cancelling \ {d}
    /\ IF Exists(rc[d]) /\ ~rc[d].cancelled
       THEN StoreRc(d, [rc[d] EXCEPT !.cancelled = TRUE])
       ELSE UNCHANGED <<rc, rcEvents>>
    /\ UNCHANGED <<pod, podEvents, controller, retrying, spent, observed>>

\* A retry first deletes the pods labelled with the deployment, with no grace
\* period.
LabelledPods(d) ==
    {k \in PodKinds : Exists(pod[d][k]) /\ ~pod[d][k].foreign}

RemovePods(d, ks) == StorePods(d, ks, [k \in PodKinds |-> NoPod])

\* oc deploy --retry resets a failed deployment with an update, which would
\* conflict had it changed.
Retry(d) ==
    /\ Room
    /\ rc[d].phase = "Failed"
    /\ Spend("retries")
    /\ RemovePods(d, LabelledPods(d))
    /\ StoreRc(d, [rc[d] EXCEPT !.phase = "New", !.cancelled = FALSE])
    /\ attempted' = [attempted EXCEPT ![d] = FALSE]
    /\ UNCHANGED <<controller, clients, succeeded>>

\* oc rollout retry resets it with a patch of the annotations that differ from
\* those it read, and that carries no resourceVersion.
RetryReads(d) ==
    /\ Room
    /\ rc[d].phase = "Failed"
    /\ Spend("retries")
    /\ RemovePods(d, LabelledPods(d))
    /\ retrying' = retrying \cup {<<d, rc[d].cancelled>>}
    /\ UNCHANGED <<rc, rcEvents, controller, cancelling, observed>>

RetryPatches(d) ==
    /\ Room
    /\ \E cancelled \in BOOLEAN :
         /\ <<d, cancelled>> \in retrying
         /\ retrying' = retrying \ {<<d, cancelled>>}
         /\ IF Exists(rc[d])
            THEN /\ StoreRc(d, [rc[d] EXCEPT !.phase = "New",
                                             !.cancelled = @ /\ ~cancelled])
                 /\ attempted' = [attempted EXCEPT ![d] = FALSE]
            ELSE UNCHANGED <<rc, rcEvents, attempted>>
    /\ UNCHANGED <<pod, podEvents, controller, cancelling, spent, succeeded>>

-------------------------------------------------------------------------------
Environment(d) ==
    \/ \E k \in PodKinds : PodStarts(d, k) \/ PodFinishes(d, k) \/ PodRemoved(d, k)
    \/ PodEvicted(d)
    \/ DeployerScales(d)
    \/ DeployerRunsHook(d)
    \/ RcCreated(d)
    \/ RcDeleted(d)
    \/ CancelReads(d)
    \/ CancelPatches(d)
    \/ Retry(d) \/ RetryReads(d) \/ RetryPatches(d)

Next ==
    \/ DeliverRc
    \/ DeliverPod
    \/ Restart
    \/ \E d \in Deployments : Handle(d) \/ DelayElapses(d) \/ Environment(d)

Spec == Init /\ [][Next]_vars

\* Watches deliver, workers take keys, nodes run pods to an end (a deployer
\* has an active deadline) and remove the ones marked for deletion.
Fairness ==
    /\ WF_vars(DeliverRc) /\ WF_vars(DeliverPod)
    /\ \A d \in Deployments :
         /\ WF_vars(Handle(d)) /\ WF_vars(DelayElapses(d))
         /\ \A k \in PodKinds :
              WF_vars(PodFinishes(d, k)) /\ WF_vars(PodRemoved(d, k))

FairSpec == Spec /\ Fairness
-------------------------------------------------------------------------------
(* Properties *)

Own == Deployments \ Foreign

\* A deployment is Complete only if a deployer of its own succeeded, however
\* late the pod and the deployment were seen (nextStatus, and the update that
\* is refused on a stale copy).
CompleteMeansSucceeded ==
    \A d \in Own : rc[d].phase = "Complete" => succeeded[d]

\* A deployment whose deployer has not succeeded keeps the desired replicas,
\* without which a deployer refuses to run; also a failed one, for a retry.
NeverBarred ==
    \A d \in Own : Exists(rc[d]) /\ ~succeeded[d] => rc[d].desired

Rank(phase) ==
    CASE phase = "New" -> 1 [] phase = "Pending" -> 2
      [] phase = "Running" -> 3 [] OTHER -> 4

\* A retry's patch is what this step does.
RetriedBlindly(d) == \E cancelled \in BOOLEAN : <<d, cancelled>> \in retrying \ retrying'

\* A stored phase only ever advances, though it is computed from old copies of
\* two objects: Complete is final, and only a retry sets a deployment back.
PhasesAdvance ==
    [][\A d \in Deployments :
          \/ rc'[d].phase = rc[d].phase
          \/ ~Exists(rc[d]) \/ ~Exists(rc'[d])
          \/ Rank(rc[d].phase) < Rank(rc'[d].phase)
          \/ (rc[d].phase = "Failed" /\ rc'[d].phase = "New")
          \/ (RetriedBlindly(d) /\ rc'[d].phase = "New")]_vars

\* No write of the controller takes back a cancellation it has not seen: one
\* is lost only to a deployer that had already succeeded (or to a retry).
CancelLostOnlyToSuccess ==
    [][\A d \in Own :
          Exists(rc[d]) /\ rc[d].cancelled /\ ~rc'[d].cancelled
            => \/ ~Exists(rc'[d])
               \/ rc[d].phase = "Failed" \/ RetriedBlindly(d)
               \/ succeeded[d]]_vars

\* The write that ends a test deployment also scales it down, whatever the
\* deployer did to the replicas since the controller last saw them.
TestScaledDown ==
    [][\A d \in TestDeployments :
          ~IsTerminatedPhase(rc[d].phase) /\ IsTerminatedPhase(rc'[d].phase)
            => rc'[d].replicas = 0]_vars

Done(d) == ~Exists(rc[d]) \/ IsTerminatedPhase(rc[d].phase)

\* Every deployment the controller is in charge of ends: no wakeup is lost
\* between the two watches, the queue and the conflicts.
EveryDeploymentFinishes ==
    \A d \in Deployments \ IgnorePod : Exists(rc[d]) ~> Done(d)

\* Once a deployment has ended Complete or cancelled, no pod of its own stays:
\* also the hook pods the deployer created after the first cleanup.
PodsAreCleanedUp ==
    \A d \in Own :
        (rc[d].phase = "Complete" \/ (rc[d].phase = "Failed" /\ rc[d].cancelled))
          ~> \/ \A k \in PodKinds : ~Exists(pod[d][k])
             \/ ~Exists(rc[d]) \/ IsInFlightPhase(rc[d].phase)

\* What remains of a deployment for whoever asked for it.  A foreign pod's
\* success counts as evidence: see ForeignPodNeverCompletes.
OutcomeOf(phase) ==
    CASE phase = "Absent" -> "absent"
      [] phase = "Complete" -> "complete"
      [] phase = "Failed" -> "failed"
      [] OTHER -> "inflight"

Outcome == INSTANCE DeploymentOutcome WITH
    outcome <- [d \in Deployments |-> OutcomeOf(rc[d].phase)],
    evidence <- [d \in Deployments |-> succeeded[d] \/ d \in Foreign]

\* The controller, its caches and its queue implement that promise.
ImplementsOutcome == Outcome!Spec

\* What it takes: no retry is patched in after another was done.
RetriesAreTimely ==
    [][\A d \in Deployments :
          RetriedBlindly(d) => rc[d].phase \in {"Failed", "Absent"}]_vars

-------------------------------------------------------------------------------
(* Why: the inductive invariant behind these properties *)

\* The last event of a deployment carries what is stored.
LastEventIsCurrent ==
    \A i \in DOMAIN rcEvents :
        (\A j \in DOMAIN rcEvents : i < j => rcEvents[j].key # rcEvents[i].key)
          => rcEvents[i].object = rc[rcEvents[i].key]

\* A copy whose update is not refused is the stored deployment.
FreshIsCurrent == \A d \in Deployments : Fresh(d) => rcCache[d] = rc[d]

\* What a pod shows of a deployment whose name was free is backed by evidence.
Vouched(evidence, d, k, object) ==
    d \in Own =>
        /\ ~object.foreign
        /\ k = "deployer" /\ object.phase = "Succeeded" => evidence[d]

PodsVouched(pods) ==
    \A d \in Deployments, k \in PodKinds : Vouched(succeeded, d, k, pods[d][k])

\* A deployer seen to have succeeded did so: stored, on its way or cached.
SuccessIsVouched ==
    /\ PodsVouched(pod) /\ PodsVouched(podCache)
    /\ \A i \in DOMAIN podEvents :
         Vouched(succeeded, podEvents[i].key, podEvents[i].kind,
                 podEvents[i].object)

\* However far the two watches are behind, the controller's view is one that
\* was true, and it writes only on a view of the deployment that still is.
ViewsAreSound ==
    /\ LastEventIsCurrent
    /\ FreshIsCurrent
    /\ SuccessIsVouched
    /\ CompleteMeansSucceeded
    /\ NeverBarred

-------------------------------------------------------------------------------
(* What the code says of itself and does not do *)

\* nextStatus: for a deployer that succeeded just after the cancellation "we
\* need to remove the cancel annotations from the complete deployment": the
\* completion alone takes a cancellation back.
CancelLostOnlyToCompletion ==
    [][\A d \in Deployments :
          rc[d].cancelled /\ ~rc'[d].cancelled
            => \/ ~Exists(rc'[d])
               \/ rc[d].phase = "Failed"
               \/ rc'[d].phase = "Complete"]_vars

\* cmd/deploy.go: a retry resets the phase to New, "which will cause the
\* deployment to be retried": it does not fail before a deployer was created.
RetryRunsDeployer ==
    [][\A d \in Own :
          rc[d].phase = "New" /\ ~rc[d].cancelled /\ rc'[d].phase = "Failed"
            => attempted[d]]_vars

\* Handle: "validate that the existing deployer pod is actually for this
\* deployment, and if not, fail this deployment".
ForeignPodNeverCompletes ==
    \A d \in Foreign : rc[d].phase = "Complete" => succeeded[d]
===============================================================================
