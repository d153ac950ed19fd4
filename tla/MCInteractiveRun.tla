--------------------------- MODULE MCInteractiveRun ---------------------------
(* Model checking of InteractiveRun. *)
EXTENDS InteractiveRun
=============================================================================
