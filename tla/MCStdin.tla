------------------------------- MODULE MCStdin -------------------------------
(***************************************************************************)
(* Instances of Stdin for TLC: 512 and 256 scaled down to 4 and 3, so that *)
(* a line may be empty, short, or full and longer than a byte can count.   *)
(***************************************************************************)
EXTENDS Stdin, TLC

Symmetry == Permutations(Readers) \cup Permutations(Chars)
=============================================================================
