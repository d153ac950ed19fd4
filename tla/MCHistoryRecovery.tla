------------------------- MODULE MCHistoryRecovery -------------------------
(* Model checking of HistoryRecovery.                                       *)
EXTENDS HistoryRecovery, TLC

CONSTANTS g1, g2

TwoGens == {g1, g2}
OneGen  == {g1}
NoGens  == {}
GenSymmetry == Permutations(TwoGens)
=============================================================================
