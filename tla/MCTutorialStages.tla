-------------------------- MODULE MCTutorialStages --------------------------
(***************************************************************************)
(* Small instances of TutorialStages for TLC.                              *)
(***************************************************************************)
EXTENDS TutorialStages

AllStages == {"1.serviceaccount", "2.deployment", "2.rbac", "3.hostpath", "4.pvc"}
MaybeFinalized == BOOLEAN

\* Every event once.
AllLimits == [b \in Budgets |-> 1]
=============================================================================
