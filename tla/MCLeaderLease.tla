---------------------------- MODULE MCLeaderLease ----------------------------
(* Instances of LeaderLease for TLC. *)
EXTENDS LeaderLease

CONSTANTS m1, m2
===============================================================================
