------------------------------- MODULE Rollouts -------------------------------
(***************************************************************************)
(* How a config is rolled out: the deployment config controller and the     *)
(* deployment trigger controller, which share informers and compete for the *)
(* same objects, among users, clients and deployers.                        *)
(***************************************************************************)
EXTENDS DeploymentConfigController, DeploymentTriggerController

vars == <<storeVars, controllerVars, triggerVars>>

TypeOK == StoreTypeOK /\ ControllerTypeOK /\ TriggerTypeOK

Init == StoreInit /\ ControllerInit /\ TriggerInit

-------------------------------------------------------------------------------
ConfigDelivered ==
    /\ DeliverDc
    /\ ConfigSeen
    /\ TriggerSeesConfig(dcCache')

DeploymentDelivered ==
    /\ DeliverRc
    /\ DeploymentSeen(rcCache[Head(rcEvents).key])
    /\ UNCHANGED triggerVars

MasterRestarts ==
    /\ Relist
    /\ ControllerRestarts
    /\ TriggerRestarts(dc)

ControllerStep ==
    (Handle \/ DelayElapses \/ PodSeen) /\ UNCHANGED triggerVars

TriggerStep ==
    (HandleTrigger \/ TriggerDelayElapses) /\ UNCHANGED controllerVars

EnvironmentStep == Environment /\ UNCHANGED <<controllerVars, triggerVars>>

Next ==
    \/ ConfigDelivered
    \/ DeploymentDelivered
    \/ MasterRestarts
    \/ ControllerStep
    \/ TriggerStep
    \/ EnvironmentStep

Spec == Init /\ [][Next]_vars

\* Watches deliver, workers run, deployments end (DeploymentController shows
\* that they do).
Fairness ==
    /\ WF_vars(ConfigDelivered) /\ WF_vars(DeploymentDelivered)
    /\ WF_vars(Handle /\ UNCHANGED triggerVars)
    /\ WF_vars(DelayElapses /\ UNCHANGED triggerVars)
    /\ WF_vars(HandleTrigger /\ UNCHANGED controllerVars)
    /\ WF_vars(TriggerDelayElapses /\ UNCHANGED controllerVars)
    /\ \A v \in Versions :
         WF_vars(RcEnds(v) /\ UNCHANGED <<controllerVars, triggerVars>>)

FairSpec == Spec /\ Fairness

-------------------------------------------------------------------------------
(* Properties *)

\* The step is a call of the deployment config controller.
ByController == work' # work

\* The controller cancels or prunes only deployments that a newer version supersedes,
\* though it works from a list and a config that may both be old, and the cleanup of
\* the revision history deletes without a precondition.
Ends(v) ==
    \/ ~rc[v].cancelled /\ rc'[v].cancelled
    \/ Exists(rc[v]) /\ ~Exists(rc'[v])

OnlySupersededIsEnded ==
    [][\A v \in Versions : ByController /\ Ends(v) => v < dc.lv]_vars

\* The controller scales up only deployments that are complete: it computes the
\* replicas from the deployments it listed, and writes them into a later copy.
OnlyCompleteIsScaledUp ==
    [][\A v \in Versions :
          ByController /\ rc[v].replicas = 0 /\ rc'[v].replicas = 1
            => rc[v].phase = "Complete"]_vars

\* Versions only go up: the status, which is written with the version that was read, takes
\* none back, and a deployment is made after all those that are there.
VersionsGoUp ==
    [][/\ dc.lv <= dc'.lv
       /\ \A u, v \in Versions :
            Exists(rc[u]) /\ ~Exists(rc[v]) /\ Exists(rc'[v]) => u < v]_vars

\* So what is superseded once remains so.
VersionsSupersede == VersionsGoUp /\ OnlySupersededIsEnded

-------------------------------------------------------------------------------
(* Why the controller ends and scales only what it should *)

\* The events of the config lead from the cache to what is stored, and no version is
\* taken back on the way.
ConfigFollows ==
    /\ dc = IF dcEvents = <<>> THEN dcCache ELSE dcEvents[Len(dcEvents)]
    /\ \A i \in DOMAIN dcEvents :
         /\ dcCache.lv <= dcEvents[i].lv
         /\ \A j \in DOMAIN dcEvents : i <= j => dcEvents[i].lv <= dcEvents[j].lv

\* So do those of each deployment.
DeploymentsFollow ==
    /\ \A v \in Versions : Fresh(v) => rcCache[v] = rc[v]
    /\ \A i \in DOMAIN rcEvents :
         (\A j \in DOMAIN rcEvents : i < j => rcEvents[j].key # rcEvents[i].key)
         => rcEvents[i].object = rc[rcEvents[i].key]

\* A deployment is made for a version that its controller has seen, so that the
\* deployments are never ahead of the config in the cache, as independent as the two
\* watches are.
Seen(v) == v <= dcCache.lv

VersionsAreSeen ==
    /\ work.config.lv <= dcCache.lv
    /\ \A v \in Versions : Exists(rc[v]) \/ Exists(rcCache[v]) => Seen(v)
    /\ \A i \in DOMAIN rcEvents : Exists(rcEvents[i].object) => Seen(rcEvents[i].key)

\* What the worker listed is not ahead of its config, nor is what it scales, and what
\* it cancels or prunes is behind.  The config is the stored one if it can be written.
WorkIsSound ==
    /\ work.step # "idle" /\ "controller" \in upToDate => work.config = dc
    /\ work.step = "create" => work.config.lv # 0
    /\ \A v \in Versions : Exists(work.listed[v]) => v <= work.config.lv
    /\ work.step = "scale" => \A v \in work.todo : v <= work.config.lv
    /\ work.step \in {"cancel", "prune"} => \A v \in work.todo : v < work.config.lv
    /\ work.step = "scale" \/ work.step = "prune" => work.todo # {}

\* A deployment that somebody saw complete is still complete, unless users remove
\* deployments, or was pruned, and is not made again.
StaysComplete(v) ==
    \/ rc[v].phase = "Complete"
    \/ /\ ~Exists(rc[v]) /\ v < dcCache.lv
       /\ work.step = "create" => v < work.config.lv

CompleteStays ==
    Limits["removals"] = 0 =>
       /\ \A v \in Versions :
            rcCache[v].phase = "Complete" \/ work.active = v => StaysComplete(v)
       /\ \A i \in DOMAIN rcEvents :
            rcEvents[i].object.phase = "Complete" => StaysComplete(rcEvents[i].key)

RolloutIsSound ==
    ConfigFollows /\ DeploymentsFollow /\ VersionsAreSeen /\ WorkIsSound /\ CompleteStays

-------------------------------------------------------------------------------
(* What happens in the end *)

\* A version is made, however the caches lag and the writes conflict, unless
\* another one is asked for or the config is paused or goes away.
Idle == dc.paused \/ dc.deleting

VersionIsMade ==
    \A v \in Versions :
        dc.lv = v ~> \/ dc.lv # v \/ Idle
                     \/ Exists(rc[v])

\* A template that stays is rolled out: no wakeup of either controller is
\* lost.  (At MaxVersion the bound stops the triggers.)
TemplateIsRolledOut ==
    \A t \in Templates :
        dc.tmpl = t ~> \/ dc.tmpl # t \/ Idle
                       \/ dc.lv # 0 /\ rc[dc.lv].tmpl = t /\ Exists(rc[dc.lv])
                       \/ dc.lv = MaxVersion

Settled ==
    /\ ~dc.deleting
    /\ LatestIsDeployed(dc.lv, rc)
    /\ IsTerminatedPhase(rc[dc.lv].phase)

\* Once the latest deployment has ended for good, the active deployment gets
\* the replicas of the config and all others none, whoever scaled them.
ReplicasFollowConfig ==
    <>[]Settled =>
        <>[](\A v \in Versions :
               Exists(rc[v]) =>
                 rc[v].replicas = IF v = ActiveVersion(rc) /\ ~IsTest
                                  THEN dc.replicas ELSE 0)

-------------------------------------------------------------------------------
(* What the code says of itself and does not do *)

\* Handle: it waits for cancellations "before reconciling or creating a new
\* deployment to avoid competing with existing deployment processes".
NewDeploymentDoesNotCompete ==
    [][\A v \in Versions :
          ~Exists(rc[v]) /\ Exists(rc'[v]) => InFlight(rc) = {}]_vars
===============================================================================
