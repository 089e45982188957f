----------------------------- MODULE MCSessions -----------------------------
(* Instances of Sessions for TLC. *)
EXTENDS Sessions, TLC

\* Requests are interchangeable, so are the identifiers of the rows.
Symmetry == Permutations(Reqs) \cup Permutations(Tokens) \cup Permutations(Resets)
=============================================================================
