---------------------------- MODULE MCStoreSwap ----------------------------
(* Two snapshots, so that a swap can install a graph equal to the one it     *)
(* replaces or a different one.                                              *)
EXTENDS StoreSwap, TLC

CONSTANTS g1, g2

MCSnapshots == {g1, g2}
MCSymmetry == Permutations(MCSnapshots)
=============================================================================
