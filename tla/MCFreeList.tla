------------------------------ MODULE MCFreeList ------------------------------
(* FreeList on five pages and a fringe, two units per page. *)
EXTENDS FreeList
=============================================================================
