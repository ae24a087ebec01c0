------------------------- MODULE MCCollectionBundle -------------------------
(* Small instances of CollectionBundle for TLC. *)
EXTENDS CollectionBundle

CONSTANTS p1, p2
=============================================================================
