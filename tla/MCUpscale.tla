------------------------------ MODULE MCUpscale ------------------------------
(* Model checking of Upscale. *)
EXTENDS Upscale

\* Twice the size, and a size below the source that is always refused.
MCSizing == {[mode |-> "factor", factor |-> 200], [mode |-> "dimensions", w |-> 512, h |-> 512]}

MCSourceSize == [s \in UpscaleSource |-> [w |-> 832, h |-> 1000]]

MCLimit == [w |-> 2048, h |-> 2048, pixels |-> 4194304, factor |-> 400]
=============================================================================
