--------------------- MODULE DeploymentTriggerController ---------------------
(***************************************************************************)
(* The deployment trigger controller (pkg/deploy/controller/generictrigger): *)
(* it asks the instantiate endpoint for a new version when the template of  *)
(* a config differs from that of its latest deployment.                     *)
(***************************************************************************)
EXTENDS DeploymentConfigs

CONSTANT MaxTriggerRetries  \* errors the key may meet before it is dropped (5)

ASSUME TriggerAssumption == MaxTriggerRetries \in Nat

VARIABLES triggerQueued, triggerDelayed, triggerRequeues

triggerVars == <<triggerQueued, triggerDelayed, triggerRequeues>>

TriggerTypeOK ==
    /\ triggerQueued \in BOOLEAN /\ triggerDelayed \in BOOLEAN
    /\ triggerRequeues \in 0..MaxTriggerRetries

\* A config that was just created is not synced and waits for its controller.
TriggerInit ==
    /\ triggerQueued = FALSE /\ triggerDelayed = FALSE /\ triggerRequeues = 0

-------------------------------------------------------------------------------
\* Configs that are paused, or that their controller has yet to observe, are
\* left alone.
MayTrigger(config) == ~config.paused /\ config.synced

\* The cached deployment shows that there is nothing to instantiate; when it
\* is missing the endpoint is left to decide.
SeemsRolledOut(config) ==
    /\ config.lv # 0
    /\ Exists(rcCache[config.lv])
    /\ rcCache[config.lv].tmpl = config.tmpl

\* An update of the config is seen.
TriggerSeesConfig(config) ==
    /\ triggerQueued' = (triggerQueued \/ (MayTrigger(config) /\ ~SeemsRolledOut(config)))
    /\ UNCHANGED <<triggerDelayed, triggerRequeues>>

\* A new process sees it added.
TriggerRestarts(config) ==
    /\ triggerQueued' = MayTrigger(config)
    /\ triggerDelayed' = FALSE /\ triggerRequeues' = 0

TriggerDelayElapses ==
    /\ triggerDelayed
    /\ triggerDelayed' = FALSE /\ triggerQueued' = TRUE
    /\ UNCHANGED <<storeVars, triggerRequeues>>

-------------------------------------------------------------------------------
TriggerSucceeds ==
    /\ triggerRequeues' = 0
    /\ triggerDelayed' = triggerDelayed

TriggerFails ==
    \/ /\ triggerRequeues < MaxTriggerRetries
       /\ triggerRequeues' = triggerRequeues + 1 /\ triggerDelayed' = TRUE
    \/ /\ triggerRequeues = MaxTriggerRetries
       /\ triggerRequeues' = 0 /\ triggerDelayed' = triggerDelayed

\* The endpoint reads what is stored.  It refuses a config paused since, one
\* without its latest deployment, and may conflict with another update.
HandleTrigger ==
    /\ triggerQueued
    /\ triggerQueued' = FALSE
    /\ \/ /\ dcCache.paused
          /\ TriggerSucceeds
          /\ UNCHANGED <<configVars, spent>>
       \/ /\ ~dcCache.paused
          /\ Instantiate(FALSE)
          /\ TriggerSucceeds
          /\ UNCHANGED spent
       \/ /\ ~dcCache.paused
          /\ dc.paused \/ ~LatestIsMade
          /\ TriggerFails
          /\ UNCHANGED <<configVars, spent>>
       \/ /\ ~dcCache.paused
          /\ Spend("errors")
          /\ TriggerFails
          /\ UNCHANGED configVars
    /\ UNCHANGED <<deploymentVars, cacheVars, rollout>>
===============================================================================
