----------------------------- MODULE MCCowTree -----------------------------
(* Small instances of CowTree. *)
EXTENDS CowTree, TLC
Symmetry == Permutations(Thread) \cup Permutations(Tree)
=============================================================================
