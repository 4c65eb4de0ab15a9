---------------------------- MODULE MCUserMalloc ----------------------------
(***************************************************************************)
(* UserMalloc with two size classes, 2 and 4 cells, cut two at a time.     *)
(***************************************************************************)
EXTENDS UserMalloc
=============================================================================
