----------------------------- MODULE MCAddrSpace -----------------------------
(***************************************************************************)
(* AddrSpace with three tables of three pages: image and heap in the       *)
(* first, the mmap window in the second and, with the stack, in the third. *)
(***************************************************************************)
EXTENDS AddrSpace, TLC

SlotSymmetry == Permutations(Slots)

\* A word that refers to the first process's directory, and one that refers to
\* no frame of the bitmap.
OldWords == {0, Outside}
=============================================================================
