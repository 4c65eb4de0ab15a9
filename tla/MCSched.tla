------------------------------- MODULE MCSched -------------------------------
(***************************************************************************)
(* Instances of Sched for TLC.                                             *)
(***************************************************************************)
EXTENDS Sched, TLC

\* Proc structs are interchangeable: only safety runs use this.
SlotSymmetry == Permutations(Slots)

AllPids == 1..MaxPid
NoPids  == {}
Shells  == 2..MaxPid    \* kai, started by genkan or by another kai
Codes == {0}
=============================================================================
