------------------------------- MODULE MCKHeap -------------------------------
(***************************************************************************)
(* KHeap with four orders: eight smallest blocks of two bytes.             *)
(***************************************************************************)
EXTENDS KHeap
=============================================================================
