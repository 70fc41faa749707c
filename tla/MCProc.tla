------------------------------- MODULE MCProc -------------------------------
(* The process table for TLC: the CPUs are interchangeable. *)
EXTENDS ProcStride, TLC

Symmetry == Permutations(CPUS)
=============================================================================
