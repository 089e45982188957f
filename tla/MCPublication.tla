--------------------------- MODULE MCPublication ---------------------------
(* An instance of Publication for TLC. *)
EXTENDS Publication
=============================================================================
