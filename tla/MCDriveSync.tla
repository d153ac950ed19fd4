---------------------------- MODULE MCDriveSync ----------------------------
(* Model checking of DriveSync. *)
EXTENDS DriveSync

CONSTANTS g1, g2

MCImageCount == [g \in Gen |-> IF g = g1 THEN 2 ELSE 1]
=============================================================================
