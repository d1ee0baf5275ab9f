-------------------------- MODULE MCHardForkState --------------------------
(***************************************************************************)
(* HardForkState instantiated for TLC: a vote window of 2 blocks, a cache  *)
(* started on a one-block chain (the window is not yet full) or two blocks *)
(* before the V10 activation height 1788000, and headers whose bytes cover *)
(* a valid version, an unknown version, a zero vote, an exact vote, a      *)
(* vote for a later fork and an unknown vote.                              *)
(***************************************************************************)
EXTENDS HardForkState

MCStartHeights == {1, 1787999}
MCMajorVersions == {1, 9, 10, 17}
MCMinorVersions == {0, 9, 10, 200}

=============================================================================
