------------------------------ MODULE MCRollouts ------------------------------
(* Instances of Rollouts for TLC. *)
EXTENDS Rollouts

CONSTANTS t1, t2

Bounds(lag, errors, restarts, edits, rollouts, retries, scales, removals, pods, total) ==
    [lag |-> lag, errors |-> errors, restarts |-> restarts, edits |-> edits,
     rollouts |-> rollouts, retries |-> retries, scales |-> scales,
     removals |-> removals, pods |-> pods, total |-> total]

SafetyLimits == Bounds(1, 0, 0, 2, 0, 1, 0, 0, 0, 2)
FaultLimits == Bounds(1, 1, 1, 0, 1, 1, 0, 1, 1, 2)
LiveLimits == Bounds(1, 0, 0, 1, 0, 0, 1, 0, 0, 2)
EditLimits == Bounds(2, 0, 0, 1, 0, 0, 0, 0, 0, 1)
===============================================================================
