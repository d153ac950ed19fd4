-------------------------- MODULE MCGenerationOutput --------------------------
(* Model checking of GenerationOutput. *)
EXTENDS GenerationOutput
=============================================================================
