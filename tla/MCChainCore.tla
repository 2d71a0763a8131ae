---------------------------- MODULE MCChainCore ----------------------------
(* Small block trees for ChainCore. *)
EXTENDS ChainCore, TLC

CONSTANTS g, c1, a1, a2, a3, b1, b2

Symmetry == Permutations(Importer)

\* Two branches, every block of weight one: difficulty in dev mode.
EvenBlock == {g, a1, a2, a3, b1, b2}
EvenParent == a1 :> g @@ a2 :> a1 @@ a3 :> a2 @@ b1 :> g @@ b2 :> b1
EvenNumber == g :> 0 @@ a1 :> 1 @@ a2 :> 2 @@ a3 :> 3 @@ b1 :> 1 @@ b2 :> 2
EvenTotal == EvenNumber

\* A trunk and a shorter branch that is heavier: difficulty follows the
\* timestamps, up and down by a tenth per block.
UnevenBlock == {g, c1, a1, a2, a3, b1}
UnevenParent == c1 :> g @@ a1 :> c1 @@ a2 :> a1 @@ a3 :> a2 @@ b1 :> c1
UnevenNumber == g :> 0 @@ c1 :> 1 @@ a1 :> 2 @@ a2 :> 3 @@ a3 :> 4 @@ b1 :> 2
UnevenTotal == g :> 0 @@ c1 :> 2 @@ a1 :> 4 @@ a2 :> 6 @@ a3 :> 8 @@ b1 :> 7
=============================================================================
