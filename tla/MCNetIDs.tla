----------------------------- MODULE MCNetIDs -----------------------------
(* Two namespaces beside default, which is global, and a project that has   *)
(* one of the two ids.                                                      *)
EXTENDS NetIDs

CONSTANTS n1, n2, default, project

TheNamespaces == {n1, n2}
TheResidents == {default, project}
TheFirstID(n) == CASE n = default -> 0 [] n = project -> 1 [] n = n1 -> 2 [] n = n2 -> -1
===========================================================================
