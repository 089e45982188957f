--------------------------- MODULE MCAdminAccess ---------------------------
(* Instances of AdminAccess for TLC. *)
EXTENDS AdminAccess, TLC

\* Requests are interchangeable, and so are the accounts and organizations
\* that are not seeded.
Symmetry == Permutations(Reqs) \cup Permutations(Users \ {Owner}) \cup Permutations(Orgs \ {Home})
=============================================================================
