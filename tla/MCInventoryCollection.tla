----------------------- MODULE MCInventoryCollection -----------------------
(* Small instances of InventoryCollection for TLC. *)
EXTENDS InventoryCollection, TLC

CONSTANTS w1, w2, main

Symmetry == Permutations(Workers)
============================================================================
