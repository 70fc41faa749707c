------------------------------ MODULE MCClock -------------------------------
(* Clock for TLC: the constant a configuration file cannot write.          *)
EXTENDS Clock, TLC

\* The int -1, as an unsigned number the longest of all naps.
MCNaps == {-1}
Symmetry == Permutations(Procs)
=============================================================================
