--------------------------- MODULE MCUpgradePaths ---------------------------
(***************************************************************************)
(* Small instances of UpgradePaths for TLC: version 4.2.1, a later 4.2.2,  *)
(* and two releases of 4.3, listed in different orders.                    *)
(***************************************************************************)
EXTENDS UpgradePaths, TLC

\* All graphs over a list of versions whose edges lead to later versions.
GraphsOver(s) ==
  {[nodes |-> s, edges |-> E] :
     E \in SUBSET {e \in (DOMAIN s) \X (DOMAIN s) : s[e[1]] < s[e[2]]}}

MCVER == 21
TwoChannels == <<"stable", "fast">>

ManyGraphs == {Empty} \cup GraphsOver(<<21, 22, 31, 32>>) \cup GraphsOver(<<31, 21>>)
               \cup {[nodes |-> <<22, 31>>, edges |-> {<<1, 2>>}]}
FewGraphs == {Empty} \cup GraphsOver(<<21, 31>>) \cup GraphsOver(<<31, 22, 21>>)

ASSUME UpgradesAscend == LoopFree /\ Ascending
=============================================================================
