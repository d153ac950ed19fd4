-------------------------- MODULE MCModelTransfer --------------------------
(* Model checking of ModelTransfer. *)
EXTENDS ModelTransfer

CONSTANTS m1, m2
=============================================================================
