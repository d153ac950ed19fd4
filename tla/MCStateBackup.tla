--------------------------- MODULE MCStateBackup ---------------------------
(* Model checking of StateBackup. *)
EXTENDS StateBackup
=============================================================================
