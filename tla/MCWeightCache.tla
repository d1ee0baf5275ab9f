--------------------------- MODULE MCWeightCache ---------------------------
(***************************************************************************)
(* WeightCache instantiated for TLC: a short-term window of 2 and a        *)
(* long-term window of 3 blocks, a cache started on a one-block chain      *)
(* (both windows filling up) or on a four-block chain (both full), and two *)
(* weights so that equal weights meet in the sorted window.                *)
(***************************************************************************)
EXTENDS WeightCache

MCStartHeights == {1, 4}
MCWeights == {1, 2}

=============================================================================
