-------------------------- MODULE MCPodLifecycle --------------------------
(* Model checking of PodLifecycle. *)
EXTENDS PodLifecycle
=============================================================================
