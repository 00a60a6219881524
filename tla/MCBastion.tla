------------------------------ MODULE MCBastion ------------------------------
(***************************************************************************)
(* A small instance of Bastion for TLC: two people.                        *)
(***************************************************************************)
EXTENDS Bastion, TLC

Two == {"p", "q"}
MCLimits == "fault" :> 1 @@ "kill" :> 1 @@ "delete" :> 1
=============================================================================
