---------------------------- MODULE MCAudioAssets ----------------------------
(***************************************************************************)
(* AudioAssets for TLC.                                                     *)
(***************************************************************************)
EXTENDS AudioAssets, TLC

Symmetry == Permutations(Threads) \cup Permutations(Slugs)
=============================================================================
