------------------------- MODULE MCSnapshotRefresh -------------------------
(* Instances of SnapshotRefresh for TLC. *)
EXTENDS SnapshotRefresh, TLC

\* Requests are interchangeable, so are allergens and restaurants.
Symmetry == Permutations(Txs) \cup Permutations(Allergens) \cup Permutations(Restaurants)
=============================================================================
