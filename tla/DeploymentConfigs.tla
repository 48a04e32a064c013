-------------------------- MODULE DeploymentConfigs --------------------------
(***************************************************************************)
(* One deployment config and its deployments, as the API server holds them, *)
(* as the informers of the master show them, and as everyone but the two    *)
(* controllers of Rollouts changes them: users, clients, deployers.         *)
(*                                                                          *)
(*   dc, rc              what is stored; rc[v] is the deployment of version v *)
(*   dcEvents, rcEvents  the two watch streams, not yet delivered           *)
(*   dcCache, rcCache    the informers' stores                              *)
(*   upToDate            whose copy of the config is the stored one         *)
(***************************************************************************)
EXTENDS DeployUtil, Sequences

CONSTANTS
    Templates,   \* pod templates
    MaxVersion,  \* bound on the versions of the config
    Limits       \* bounds of what the environment may do, of each kind and in all

LimitNames ==
    {"errors", "restarts", "edits", "rollouts", "retries", "scales",
     "removals", "pods", "lag", "total"}

ASSUME ConfigsAssumption ==
    /\ Templates # {}
    /\ MaxVersion \in Nat
    /\ Limits \in [LimitNames -> Nat]

VARIABLES dc, rc, dcEvents, rcEvents, dcCache, rcCache, upToDate,
          rollout,   \* "asked": a client has checked that it may roll out
          spent      \* how much of Limits has been used

configVars == <<dc, dcEvents, upToDate>>
deploymentVars == <<rc, rcEvents>>
cacheVars == <<dcCache, rcCache>>
storeVars == <<configVars, deploymentVars, cacheVars, rollout, spent>>

-------------------------------------------------------------------------------
\* Objects

Versions == 1..MaxVersion

\* What the Progressing condition says of the last rollout.
Progress == {"none", "created", "rejected", "running", "Complete", "Failed"}

\* lv is status.latestVersion; synced says that status.observedGeneration is
\* metadata.generation; replicas is 1 for the desired count.
Config == [lv : 0..MaxVersion, tmpl : Templates, replicas : {0, 1},
           paused : BOOLEAN, deleting : BOOLEAN, synced : BOOLEAN,
           progress : Progress]

\* A deployment; "New" stands for New, Pending and Running.  tmpl is the
\* template of the config encoded in its annotations.
RcPhases == {"Absent", "New", "Complete", "Failed"}
Deployment == [phase : RcPhases, cancelled : BOOLEAN, tmpl : Templates,
               replicas : {0, 1}]

SomeTemplate == CHOOSE t \in Templates : TRUE
NoRc == [phase |-> "Absent", cancelled |-> FALSE, tmpl |-> SomeTemplate,
         replicas |-> 0]
NoRcs == [v \in Versions |-> NoRc]
\* What MakeDeployment builds.
NewRc(template) == [phase |-> "New", cancelled |-> FALSE, tmpl |-> template,
                    replicas |-> 0]

Exists(object) == object.phase # "Absent"
Holders == {"controller", "client"}

StoreTypeOK ==
    /\ dc \in Config /\ dcCache \in Config /\ dcEvents \in Seq(Config)
    /\ rc \in [Versions -> Deployment] /\ rcCache \in [Versions -> Deployment]
    /\ rcEvents \in Seq([key : Versions, object : Deployment])
    /\ upToDate \subseteq Holders
    /\ rollout \in {"idle", "asked"}
    /\ spent \in [LimitNames -> Nat]

\* The config has been created and the informers have seen it.
StoreInit ==
    /\ dc = [lv |-> 0, tmpl |-> SomeTemplate, replicas |-> 1, paused |-> FALSE,
             deleting |-> FALSE, synced |-> FALSE, progress |-> "none"]
    /\ rc = NoRcs
    /\ dcEvents = <<>> /\ rcEvents = <<>>
    /\ dcCache = dc /\ rcCache = rc
    /\ upToDate = {} /\ rollout = "idle"
    /\ spent = [limit \in LimitNames |-> 0]

Spend(limit) ==
    /\ spent[limit] < Limits[limit]
    /\ spent["total"] < Limits["total"]
    /\ spent' = [spent EXCEPT ![limit] = @ + 1, !["total"] = @ + 1]

\* How far the environment may run ahead of the watches.
Room == Len(dcEvents) + Len(rcEvents) < Limits["lag"]

-------------------------------------------------------------------------------
\* The API server

\* Every write makes the other copies of the config stale: an update made
\* from one of them is refused.
StoreDc(config) ==
    /\ dc' = config
    /\ dcEvents' = Append(dcEvents, config)
    /\ upToDate' = {}

StoreRc(v, object) ==
    /\ rc' = [rc EXCEPT ![v] = object]
    /\ rcEvents' = Append(rcEvents, [key |-> v, object |-> object])

\* The cached copy of the deployment has the stored resourceVersion.
Fresh(v) == \A i \in DOMAIN rcEvents : rcEvents[i].key # v

\* The strategies count a generation for every change of the spec and every
\* new version, which the controller has not observed.
Bumped == [dc EXCEPT !.lv = @ + 1, !.synced = FALSE]

\* decodeFromLatestDeployment: without the deployment of the latest version
\* there is nothing to compare with.
LatestIsMade == dc.lv # 0 => Exists(rc[dc.lv])

\* canTrigger, for a config whose only trigger is a change of its template.
CanTrigger(force) == ~force /\ dc.lv # 0 => rc[dc.lv].tmpl # dc.tmpl

\* The instantiate endpoint, when it succeeds.
Instantiate(force) ==
    /\ ~dc.paused /\ LatestIsMade
    /\ \/ ~CanTrigger(force) /\ UNCHANGED configVars
       \/ CanTrigger(force) /\ dc.lv < MaxVersion /\ StoreDc(Bumped)

-------------------------------------------------------------------------------
\* The informers' stores

DeliverDc ==
    /\ dcEvents # <<>>
    /\ dcCache' = Head(dcEvents)
    /\ dcEvents' = Tail(dcEvents)
    /\ UNCHANGED <<dc, upToDate, deploymentVars, rcCache, rollout, spent>>

DeliverRc ==
    /\ rcEvents # <<>>
    /\ rcCache' = [rcCache EXCEPT ![Head(rcEvents).key] = Head(rcEvents).object]
    /\ rcEvents' = Tail(rcEvents)
    /\ UNCHANGED <<rc, configVars, dcCache, rollout, spent>>

Relist ==
    /\ Spend("restarts")
    /\ dcCache' = dc /\ rcCache' = rc
    /\ dcEvents' = <<>> /\ rcEvents' = <<>>
    /\ UNCHANGED <<dc, rc, upToDate, rollout>>

-------------------------------------------------------------------------------
\* Users and clients of the config

Edit(config) ==
    /\ Room
    /\ config # dc
    /\ Spend("edits")
    /\ StoreDc([config EXCEPT !.synced = FALSE])
    /\ UNCHANGED <<deploymentVars, cacheVars, rollout>>

\* Any edit of the spec: a change of the template or a rollback to an earlier
\* one, a scaling, a pause or a resumption.  Its status is that of dc.
EditSpec ==
    \/ \E t \in Templates : Edit([dc EXCEPT !.tmpl = t])
    \/ \E n \in {0, 1} : Edit([dc EXCEPT !.replicas = n])
    \/ \E p \in BOOLEAN : Edit([dc EXCEPT !.paused = p])

\* The config is marked for deletion and waits for its finalizers.
MarkDeleting == Edit([dc EXCEPT !.deleting = TRUE])

\* oc rollout latest reads the config and refuses a paused one and one whose
\* latest deployment is in progress.
RolloutReads ==
    /\ rollout = "idle"
    /\ ~dc.paused
    /\ dc.lv # 0 => ~IsInFlightPhase(rc[dc.lv].phase)
    /\ Spend("rollouts")
    /\ rollout' = "asked"
    /\ upToDate' = upToDate \cup {"client"}
    /\ UNCHANGED <<dc, dcEvents, deploymentVars, cacheVars>>

\* It then asks for an instantiation, which may be refused, and when that
\* answers NotFound updates the config it read with the next version.
RolloutAsks ==
    /\ Room
    /\ rollout = "asked"
    /\ rollout' = "idle"
    /\ \/ Instantiate(TRUE)
       \/ dc.paused /\ UNCHANGED configVars
       \/ ~dc.paused /\ ~LatestIsMade /\ "client" \notin upToDate /\ UNCHANGED configVars
       \/ /\ ~dc.paused /\ ~LatestIsMade /\ "client" \in upToDate
          /\ dc.lv < MaxVersion
          /\ StoreDc(Bumped)
    /\ UNCHANGED <<deploymentVars, cacheVars, spent>>

-------------------------------------------------------------------------------
\* Deployments, as their controller, their deployer and users change them

WriteRc(v, object) ==
    /\ Room
    /\ StoreRc(v, object)
    /\ UNCHANGED <<configVars, cacheVars, rollout>>

\* What DeploymentOutcome promises of the deployment controller: a deployment
\* in flight ends, having been scaled by its deployer.
RcEnds(v) ==
    /\ IsInFlightPhase(rc[v].phase)
    /\ \E n \in {0, 1} :
         \/ WriteRc(v, [rc[v] EXCEPT !.phase = "Complete", !.cancelled = FALSE,
                                     !.replicas = n])
         \/ WriteRc(v, [rc[v] EXCEPT !.phase = "Failed", !.replicas = n])
    /\ UNCHANGED spent

\* A user retries the latest deployment, which failed.
RcRetried(v) ==
    /\ v = dc.lv /\ ~dc.paused
    /\ rc[v].phase = "Failed"
    /\ Spend("retries")
    /\ WriteRc(v, [rc[v] EXCEPT !.phase = "New", !.cancelled = FALSE])

\* A user, or the deployer of another version, scales it.
RcScaled(v) ==
    /\ Exists(rc[v])
    /\ Spend("scales")
    /\ WriteRc(v, [rc[v] EXCEPT !.replicas = 1 - @])

RcRemoved(v) ==
    /\ Exists(rc[v])
    /\ Spend("removals")
    /\ WriteRc(v, NoRc)

Environment ==
    \/ EditSpec
    \/ MarkDeleting
    \/ RolloutReads \/ RolloutAsks
    \/ \E v \in Versions : RcEnds(v) \/ RcRetried(v) \/ RcScaled(v) \/ RcRemoved(v)
===============================================================================
