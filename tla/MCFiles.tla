------------------------------- MODULE MCFiles --------------------------------
(* Files with one name on two devices, each also under a spelling with app0:  *)
(* prefixes, and a table smaller than the set of descriptors.                 *)
EXTENDS Files, TLC

CONSTANTS ux0, a

MCRealPaths == {<<App, a>>, <<ux0, a>>}
MCSpelled == MCRealPaths \cup {<<App, App, a>>, <<App, App, ux0, a>>}

Symmetry == Permutations(Threads) \cup Permutations(Ids)
=============================================================================
