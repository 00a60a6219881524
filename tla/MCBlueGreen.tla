----------------------------- MODULE MCBlueGreen -----------------------------
(***************************************************************************)
(* A small instance of BlueGreen for TLC: three runs of the pipeline.      *)
(***************************************************************************)
EXTENDS BlueGreen, TLC

MCLimits == "run" :> 3 @@ "build" :> 1 @@ "fault" :> 1 @@ "hand" :> 2
=============================================================================
