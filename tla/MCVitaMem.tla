------------------------------ MODULE MCVitaMem -------------------------------
(* VitaMem on a small address space, two units per page. *)
EXTENDS VitaMem, TLC

Symmetry == Permutations(Threads)
=============================================================================
