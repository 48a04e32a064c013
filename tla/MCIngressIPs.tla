----------------------------- MODULE MCIngressIPs -----------------------------
(* Instances of IngressIPs for TLC. *)
EXTENDS IngressIPs

CONSTANTS s1, s2, a1, a2

OneWants == [s \in Services |-> IF s = s1 THEN a1 ELSE None]
===============================================================================
