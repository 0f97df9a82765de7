--------------------------- MODULE MCProductionRun ---------------------------
(* One course of one lesson, two run rows, two workers.                      *)
EXTENDS ProductionRun, TLC
CONSTANTS w1, w2
TwoWorkers == {w1, w2}
Symmetry == Permutations(TwoWorkers)
=============================================================================
