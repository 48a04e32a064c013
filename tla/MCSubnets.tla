------------------------------ MODULE MCSubnets ------------------------------
(* Instances of Subnets for TLC. *)
EXTENDS Subnets
CONSTANTS n1, h1, ip1, ip2
===============================================================================
