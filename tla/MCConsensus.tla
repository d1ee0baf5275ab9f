---------------------------- MODULE MCConsensus -----------------------------
(***************************************************************************)
(* Consensus for TLC: the caches start three blocks before the V10         *)
(* activation (1788000) or before the V15 activation (2688888).            *)
(***************************************************************************)
EXTENDS Consensus

MCStartHeights == {1787998, 2688886}
MCMajorVersions == {9, 10, 14, 15}
MCMinorVersions == {0, 15, 16}
MCBlockWeights == {100000, 700000}
MCLongTermWeights == {100000, 420000}

====
