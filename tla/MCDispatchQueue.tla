-------------------------- MODULE MCDispatchQueue --------------------------
(* Model checking of DispatchQueue: two generations, named by model values. *)
EXTENDS DispatchQueue, TLC

CONSTANTS g1, g2

TwoGens == {g1, g2}
NoGens  == {}
OldGens == {g1}
OneGen  == {g2}

\* Both generations are alike until they are enqueued.
GenSymmetry == Permutations(TwoGens)
=============================================================================
