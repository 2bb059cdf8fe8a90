------------------------------ MODULE MCCondWait ------------------------------
(* CondWait with up to three consumers. *)
EXTENDS CondWait, TLC
=============================================================================
