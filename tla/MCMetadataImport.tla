-------------------------- MODULE MCMetadataImport --------------------------
(* Model checking of MetadataImport. *)
EXTENDS MetadataImport
=============================================================================
