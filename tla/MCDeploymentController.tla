------------------------ MODULE MCDeploymentController ------------------------
(* Instances of DeploymentController for TLC. *)
EXTENDS DeploymentController

CONSTANTS d1, d2

Bounds(lag, errors, restarts, retries, hooks, evictions) ==
    [lag |-> lag, errors |-> errors, restarts |-> restarts,
     retries |-> retries, hooks |-> hooks, evictions |-> evictions,
     creations |-> 1]

SafetyLimits == Bounds(3, 1, 1, 1, 0, 1)
LiveLimits == Bounds(2, 0, 0, 0, 1, 1)
===============================================================================
