-------------------------------- MODULE MCDirs --------------------------------
(* Dirs with a short name and one of the longest. *)
EXTENDS Dirs

CONSTANTS short, long

MCLength == [n \in Names |-> IF n = long THEN 255 ELSE 1]
=============================================================================
