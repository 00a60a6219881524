-------------------------- MODULE MCNFSProvisioner --------------------------
(***************************************************************************)
(* Small instances of NFSProvisioner for TLC.                              *)
(***************************************************************************)
EXTENDS NFSProvisioner, TLC

Unset == [pvc |-> "", scForNFSPvc |-> "", hostPathDir |-> "", scForNFS |-> ""]
OwnClaim == [Unset EXCEPT !.pvc = "data", !.scForNFS = "sc"]
Invalid == [Unset EXCEPT !.hostPathDir = "dir", !.scForNFSPvc = "sc"]

OnlyUnset == {Unset}
UnsetOrInvalid == {Unset, Invalid}
ClaimOrInvalid == {OwnClaim, Invalid}

\* One CR; two CRs in two namespaces.
A == {"a"}
AB == {"a", "b"}
Ns1 == {"ns1"}
Ns12 == {"ns1", "ns2"}
AinNs1 == "a" :> "ns1"
Apart == "a" :> "ns1" @@ "b" :> "ns2"

NoLag == {}
LagOfCR == {"a"}
LagOfRole == {<<"ClusterRole", Cluster>>}

Calm == [b \in Budgets |-> 0]

\* The bounds of each run: what happens how often.
FaultsLimits == [Calm EXCEPT !["create"] = 2, !["delete"] = 1, !["edit"] = 1, !["write"] = 2, !["crash"] = 1]
SharedLimits == [Calm EXCEPT !["create"] = 2, !["delete"] = 1]
EndsLimits == [b \in Budgets |-> 1]
LagLimits == [Calm EXCEPT !["create"] = 2, !["delete"] = 1]
LeakLimits == [Calm EXCEPT !["create"] = 1, !["delete"] = 1]
StuckLimits == [Calm EXCEPT !["create"] = 1, !["namespace"] = 1]
=============================================================================
