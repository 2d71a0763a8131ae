---------------------------- MODULE MCAccountMap ----------------------------
(* Small instances of AccountMap. *)
EXTENDS AccountMap, TLC
Symmetry == Permutations(Tree)
=============================================================================
