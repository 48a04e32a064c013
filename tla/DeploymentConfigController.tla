---------------------- MODULE DeploymentConfigController ----------------------
(***************************************************************************)
(* The deployment config controller                                         *)
(* (pkg/deploy/controller/deploymentconfig): it makes the deployment of the *)
(* latest version of a config, cancels those it supersedes, keeps the       *)
(* replicas of the others, prunes the history and writes the status.        *)
(*                                                                          *)
(* One key is handled by one worker at a time.  Handle reads the config and *)
(* the list of deployments once, from the caches, and then makes its calls  *)
(* one by one, each a step: the cache it consults again between them, the   *)
(* stored objects and the config may change meanwhile.                      *)
(***************************************************************************)
EXTENDS DeploymentConfigs

CONSTANTS
    IsTest,        \* spec.test
    HistoryLimit,  \* spec.revisionHistoryLimit, Nat, or Unlimited for none
    Unlimited,
    MaxRetries     \* errors the key may meet before it is dropped (5)

ASSUME ControllerAssumption ==
    /\ IsTest \in BOOLEAN
    /\ HistoryLimit \in Nat \cup {Unlimited}
    /\ MaxRetries \in Nat

VARIABLES
    queued, delayed, requeues,  \* the key in the rate limited work queue
    work                        \* where the worker is

controllerVars == <<queued, delayed, requeues, work>>

\* The call Handle is about to make, its copy of the config and, as long as it
\* needs them, the deployments it listed (with its own writes), the one of them
\* that was the active deployment (0 for none), those it still has to write to,
\* and what the status will say of the rollout.
Steps == {"idle", "cancel", "scale", "create", "prune", "status"}
Work == [step : Steps, config : Config, listed : [Versions -> Deployment],
         active : 0..MaxVersion, todo : SUBSET Versions, progress : Progress]

NoConfig == [lv |-> 0, tmpl |-> SomeTemplate, replicas |-> 0, paused |-> FALSE,
             deleting |-> FALSE, synced |-> FALSE, progress |-> "none"]
NoWork == [step |-> "idle", config |-> NoConfig, listed |-> NoRcs,
           active |-> 0, todo |-> {}, progress |-> "none"]

ControllerTypeOK ==
    /\ queued \in BOOLEAN /\ delayed \in BOOLEAN
    /\ requeues \in 0..MaxRetries
    /\ work \in Work

\* The addition of the config to the informer enqueues it.
ControllerInit ==
    /\ queued = TRUE /\ delayed = FALSE /\ requeues = 0
    /\ work = NoWork

-------------------------------------------------------------------------------
\* The event handlers and the work queue

Enqueue ==
    /\ queued' = TRUE
    /\ UNCHANGED <<delayed, requeues, work>>

\* Any change of the config enqueues it.
ConfigSeen == Enqueue

\* Mutant: deployments wake their config when they are added.
DeploymentSeenAdded(old) ==
    IF ~Exists(old) THEN Enqueue ELSE UNCHANGED controllerVars

\* So do updates and deletions of its deployments; additions do not.
DeploymentSeen(old) ==
    IF Exists(old) THEN Enqueue ELSE UNCHANGED controllerVars

\* So do updates and deletions of its pods.
PodSeen ==
    /\ Spend("pods")
    /\ Enqueue
    /\ UNCHANGED <<configVars, deploymentVars, cacheVars, rollout>>

\* A new process begins with the config it lists.
ControllerRestarts ==
    /\ queued' = TRUE /\ delayed' = FALSE /\ requeues' = 0
    /\ work' = NoWork

DelayElapses ==
    /\ delayed
    /\ delayed' = FALSE /\ queued' = TRUE
    /\ UNCHANGED <<storeVars, requeues, work>>

Done == work' = NoWork /\ queued' = queued

\* Handle returns no error.
Succeed ==
    /\ Done
    /\ requeues' = 0 /\ delayed' = delayed

\* Mutant: one requeue too many.
FailOnceMore ==
    /\ Done
    /\ \/ /\ requeues <= MaxRetries
          /\ requeues' = requeues + 1 /\ delayed' = TRUE
       \/ /\ requeues > MaxRetries
          /\ requeues' = 0 /\ delayed' = delayed

\* Handle returns an error: the key is added again after a delay, until it
\* has been requeued MaxRetries times.
Fail ==
    /\ Done
    /\ \/ /\ requeues < MaxRetries
          /\ requeues' = requeues + 1 /\ delayed' = TRUE
       \/ /\ requeues = MaxRetries
          /\ requeues' = 0 /\ delayed' = delayed

Goto(next) ==
    /\ work' = next
    /\ UNCHANGED <<queued, delayed, requeues>>

-------------------------------------------------------------------------------
\* Handle: what is decided from the copies

InFlight(view) == {v \in DOMAIN view : IsInFlightPhase(view[v].phase)}

\* reconcileDeployments: the active deployment follows the config, all others
\* are scaled to zero.
Target(config, active, v) ==
    IF v = active /\ ~IsTest THEN config.replicas ELSE 0

\* Mutant: the replicas of deployments that are not active are left alone.
DivergingActive(config, view) ==
    {v \in Existing(view) :
       /\ v = ActiveVersion(view)
       /\ view[v].replicas # Target(config, ActiveVersion(view), v)}

Diverging(config, view) ==
    {v \in Existing(view) :
       view[v].replicas # Target(config, ActiveVersion(view), v)}

ToPrune(config, view) ==
    IF HistoryLimit = Unlimited THEN {}
    ELSE Prunable(config.lv, view, HistoryLimit)

\* What the status will say of the rollout: an outcome, that it progresses
\* (from Pending on), or what it said before.
ProgressOf(config, view) ==
    IF ~LatestIsDeployed(config.lv, view) THEN {config.progress}
    ELSE IF IsInFlightPhase(view[config.lv].phase) THEN {config.progress, "running"}
    ELSE {view[config.lv].phase}

\* The last calls of Handle: it prunes old deployments, if there are any, and
\* writes the status.
LastCalls(config, old, progress) ==
    [step |-> IF old = {} THEN "status" ELSE "prune", config |-> config,
     listed |-> NoRcs, active |-> 0, todo |-> old, progress |-> progress]

-------------------------------------------------------------------------------
\* Handle: its first call

\* A worker takes the key and copies what the caches hold.
Start(next) ==
    /\ work.step = "idle" /\ queued
    /\ work' = next
    /\ queued' = FALSE
    /\ upToDate' = (upToDate \ {"controller"})
                     \cup (IF dcEvents = <<>> THEN {"controller"} ELSE {})
    /\ UNCHANGED <<dc, dcEvents, deploymentVars, cacheVars, rollout, spent,
                   delayed, requeues>>

StartLast(listed, old) ==
    \E progress \in ProgressOf(dcCache, listed) :
        Start(LastCalls(dcCache, old, progress))

StartWith(step, listed, active, todo) ==
    Start([step |-> step, config |-> dcCache, listed |-> listed, active |-> active,
           todo |-> todo, progress |-> "none"])

IsDeployed == LatestIsDeployed(dcCache.lv, rcCache)

\* There is nothing to do until the version is nonzero, or when the config
\* has been marked for deletion.
HandleInactive ==
    \/ dcCache.lv = 0 /\ StartLast(NoRcs, {})
    \/ dcCache.lv # 0 /\ dcCache.deleting /\ StartLast(rcCache, {})

Active == dcCache.lv # 0 /\ ~dcCache.deleting

\* Deployments in flight are cancelled to be superseded by the new version.
HandleSuperseded ==
    /\ Active /\ ~IsDeployed
    /\ InFlight(rcCache) # {}
    /\ StartWith("cancel", NoRcs, 0, {v \in InFlight(rcCache) : ~rcCache[v].cancelled})

HandlePaused ==
    /\ Active /\ ~IsDeployed
    /\ InFlight(rcCache) = {} /\ dcCache.paused
    /\ StartLast(rcCache, ToPrune(dcCache, rcCache))

HandleNewVersion ==
    /\ Active /\ ~IsDeployed
    /\ InFlight(rcCache) = {} /\ ~dcCache.paused
    /\ StartWith("create", rcCache, 0, {})

\* While the latest deployment runs its deployer scales the deployments.
HandleRunning ==
    /\ Active /\ IsDeployed
    /\ dcCache.lv \in InFlight(rcCache)
    /\ StartLast(rcCache, {})

\* The active deployment is chosen once: it is the one of the list, whatever
\* becomes of the deployments while they are scaled.
HandleEnded ==
    /\ Active /\ IsDeployed
    /\ dcCache.lv \notin InFlight(rcCache)
    /\ LET diverging == Diverging(dcCache, rcCache)
       IN  IF diverging = {}
           THEN StartLast(rcCache, ToPrune(dcCache, rcCache))
           ELSE StartWith("scale", rcCache, ActiveVersion(rcCache), diverging)

Begin ==
    \/ HandleInactive \/ HandleSuperseded \/ HandlePaused
    \/ HandleNewVersion \/ HandleRunning \/ HandleEnded

-------------------------------------------------------------------------------
\* Handle: its calls

\* An update made from the cached copy of a deployment goes through.
CanWrite(v) == Exists(rcCache[v]) /\ Fresh(v)

\* The next deployment to write to: the list is sorted, latest first.
Turn == HighestOf(work.todo)

\* A cancellation conflicts (and has been tried again in vain) or fails, which
\* is only reported, or the deployment is gone.
CancelOne ==
    /\ work.step = "cancel" /\ work.todo # {}
    /\ \/ /\ CanWrite(Turn)
          /\ StoreRc(Turn, [rcCache[Turn] EXCEPT !.cancelled = TRUE])
          /\ UNCHANGED spent
       \/ /\ ~CanWrite(Turn) \/ spent["errors"] < Limits["errors"]
          /\ IF CanWrite(Turn) THEN Spend("errors") ELSE UNCHANGED spent
          /\ UNCHANGED deploymentVars
    /\ Goto([work EXCEPT !.todo = @ \ {Turn}])
    /\ UNCHANGED <<configVars, cacheVars, rollout>>

\* The key is requeued until they have ended.
AwaitCancellations ==
    /\ work.step = "cancel" /\ work.todo = {}
    /\ Fail
    /\ UNCHANGED storeVars

\* Only the replicas are written into the copy the cache holds by now.
ScaleOne ==
    /\ work.step = "scale" /\ work.todo # {}
    /\ LET scaled == [rcCache[Turn] EXCEPT
                        !.replicas = Target(work.config, work.active, Turn)]
           listed == [work.listed EXCEPT ![Turn] = scaled]
       IN  \/ /\ CanWrite(Turn)
              /\ StoreRc(Turn, scaled)
              /\ IF work.todo # {Turn}
                 THEN Goto([work EXCEPT !.todo = @ \ {Turn}, !.listed = listed])
                 ELSE \E progress \in ProgressOf(work.config, listed) :
                        Goto(LastCalls(work.config, ToPrune(work.config, listed), progress))
              /\ UNCHANGED spent
           \/ /\ ~CanWrite(Turn)
              /\ Fail
              /\ UNCHANGED <<deploymentVars, spent>>
           \/ /\ Spend("errors")
              /\ Fail
              /\ UNCHANGED deploymentVars
    /\ UNCHANGED <<configVars, cacheVars, rollout>>

\* Deletions, oldest first, have no precondition; their errors are reported.
PruneOne ==
    /\ work.step = "prune"
    /\ LET v == CHOOSE v \in work.todo : \A w \in work.todo : v <= w
       IN  /\ \/ Exists(rc[v]) /\ StoreRc(v, NoRc) /\ UNCHANGED spent
              \/ ~Exists(rc[v]) /\ UNCHANGED <<deploymentVars, spent>>
              \/ Spend("errors") /\ UNCHANGED deploymentVars
           /\ Goto(LastCalls(work.config, work.todo \ {v}, work.progress))
    /\ UNCHANGED <<configVars, cacheVars, rollout>>

\* The status is written only when it differs from that of the copy.
StatusChanges(progress) ==
    ~work.config.synced \/ progress # work.config.progress

\* Mutant: the observed generation is not set.
StatusWrittenUnobserved(progress) ==
    IF "controller" \in upToDate
    THEN StoreDc([dc EXCEPT !.lv = work.config.lv, !.progress = progress])
    ELSE UNCHANGED configVars

\* Mutant: the status is written whatever was written since the config was read.
StatusWrittenBlindly(progress) ==
    StoreDc([dc EXCEPT !.lv = work.config.lv, !.synced = TRUE, !.progress = progress])

\* The write of the status: it is refused unless the copy is up to date.
StatusWritten(progress) ==
    IF "controller" \in upToDate
    THEN StoreDc([dc EXCEPT !.lv = work.config.lv, !.synced = TRUE,
                            !.progress = progress])
    ELSE UNCHANGED configVars

Create ==
    /\ work.step = "create"
    /\ LET v == work.config.lv
           made == NewRc(work.config.tmpl)
           listed == [work.listed EXCEPT ![v] = made]
       IN  \/ /\ ~Exists(rc[v])
              /\ StoreRc(v, made)
              /\ Goto(LastCalls(work.config, ToPrune(work.config, listed), "created"))
              /\ UNCHANGED <<configVars, spent>>
           \/ \* Another process made it, or the cache is stale.
              /\ Exists(rc[v])
              /\ Goto(LastCalls(work.config, {}, work.config.progress))
              /\ UNCHANGED <<configVars, deploymentVars, spent>>
           \/ /\ Spend("errors")
              /\ IF StatusChanges("rejected") THEN StatusWritten("rejected")
                 ELSE UNCHANGED configVars
              /\ Fail
              /\ UNCHANGED deploymentVars
    /\ UNCHANGED <<cacheVars, rollout>>

WriteStatus ==
    /\ work.step = "status"
    /\ \/ /\ ~StatusChanges(work.progress)
          /\ Succeed
          /\ UNCHANGED <<configVars, spent>>
       \/ /\ StatusChanges(work.progress)
          /\ StatusWritten(work.progress)
          /\ IF "controller" \in upToDate THEN Succeed ELSE Fail
          /\ UNCHANGED spent
       \/ /\ StatusChanges(work.progress)
          /\ Spend("errors")
          /\ Fail
          /\ UNCHANGED configVars
    /\ UNCHANGED <<deploymentVars, cacheVars, rollout>>

Handle ==
    \/ Begin
    \/ CancelOne \/ AwaitCancellations
    \/ ScaleOne
    \/ Create
    \/ PruneOne
    \/ WriteStatus
===============================================================================
