-------------------------- MODULE FinalizerContract --------------------------
(***************************************************************************)
(* What a finalizer promises, whoever keeps the promise and however many   *)
(* calls it takes.  Resources that no garbage collector deletes belong to  *)
(* custom resources (CRs).  A CR appears free; once the operator has       *)
(* registered its finalizer it is held, and can only leave in two steps:   *)
(* deletion marks it, and the operator releases it when the resources are  *)
(* gone.  The promise is that of lines 303-338 of                          *)
(* 5.full_finished_controller.go.                                          *)
(***************************************************************************)

CONSTANTS
  Keys,      \* the keys of CRs
  Resources  \* the resources outside the garbage collector's reach

VARIABLES
  phase,     \* of each key: "absent", "free", "held" or "leaving"
  external   \* the resources that exist

vars == <<phase, external>>

Init == phase = [c \in Keys |-> "absent"] /\ external = {}

Becomes(c, from, to) == phase[c] = from /\ phase' = [phase EXCEPT ![c] = to]

Appear(c) == Becomes(c, "absent", "free") /\ UNCHANGED external

Register(c) == Becomes(c, "free", "held") /\ UNCHANGED external

\* Without a finalizer a deleted CR is gone, with one it is marked.
Delete(c) ==
  /\ Becomes(c, "free", "absent") \/ Becomes(c, "held", "leaving")
  /\ UNCHANGED external

Release(c) == Becomes(c, "leaving", "absent") /\ external = {} /\ UNCHANGED external

Provision(r) == external' = external \cup {r} /\ UNCHANGED phase

\* Resources may be shared, so the CR that leaves need not have made them; but
\* nothing is cleaned up unless one leaves.
CleanUp(r) ==
  /\ \E c \in Keys : phase[c] = "leaving"
  /\ external' = external \ {r}
  /\ UNCHANGED phase

Next ==
  \/ \E c \in Keys : Appear(c) \/ Register(c) \/ Delete(c) \/ Release(c)
  \/ \E r \in Resources : Provision(r) \/ CleanUp(r)

Spec == Init /\ [][Next]_vars
=============================================================================
