--------------------------- MODULE MCMenuContent ---------------------------
(* Instances of MenuContent for TLC. *)
EXTENDS MenuContent, TLC

\* Identifiers of one kind, titles, restaurants and organizations are
\* interchangeable.
Symmetry ==
  UNION {Permutations(S) : S \in {Orgs, Restaurants, Titles, MenuIds, SectionIds,
                                  EntryIds, ItemIds, AllergenIds}}
=============================================================================
