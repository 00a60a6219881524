----------------------------- MODULE MCMemcached ----------------------------
(***************************************************************************)
(* Small instances of Memcached for TLC.                                   *)
(***************************************************************************)
EXTENDS Memcached, TLC

OneName == {"m"}
TwoPods == {"p1", "p2"}
InOrder2 == <<"p1", "p2">>
OneOrTwo == {1, 2}
\* By hand the Deployment is scaled beyond the pods that there is room for.
JustThree == {3}
LateObjects == {"cr", "dep"}

Calm == [b \in Budgets |-> 0]

RestLimits == [Calm EXCEPT !["create"] = 1, !["edit"] = 1, !["delete"] = 1, !["drift"] = 1, !["fault"] = 1]
=============================================================================
