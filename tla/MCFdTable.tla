------------------------------ MODULE MCFdTable ------------------------------
(***************************************************************************)
(* FdTable with two descriptors per process.                               *)
(***************************************************************************)
EXTENDS FdTable, TLC

Symmetry == Permutations(Procs) \cup Permutations(Vnodes)
=============================================================================
