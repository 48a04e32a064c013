--------------------------- MODULE MCRouteAdmission ---------------------------
(* Two routes of one namespace, a1 the older, and one of another that may be *)
(* older than both, younger, or between them.                                *)
EXTENDS RouteAdmission

CONSTANTS a1, a2, b1, h1, h2, p1, p2

TheRoutes == {a1, a2, b1}
TheNamespaceOf(r) == IF r = b1 THEN "b" ELSE "a"

Object(r, uid, path) == [name |-> r, uid |-> uid, host |-> h1, path |-> path]

Both(path) == [r \in TheRoutes |->
    CASE r = a1 -> Object(a1, 1, p1) [] r = a2 -> Object(a2, 2, path) [] r = b1 -> Nothing]
All(age) == [r \in TheRoutes |->
    CASE r = a1 -> Object(a1, age[1], p1)
      [] r = a2 -> Object(a2, age[2], p2)
      [] r = b1 -> Object(b1, age[3], p1)]

Some == {Both(p1), Both(p2), All(<<1, 3, 2>>), All(<<2, 3, 1>>)}
TwoPaths == {Both(p2)}
===============================================================================
