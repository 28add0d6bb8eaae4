--------------------------- MODULE PublicationMC ----------------------------
(***************************************************************************)
(* Instances of the publication journal for model checking.                *)
(***************************************************************************)
EXTENDS Publication, TLC

CONSTANTS a, b  \* publication identifiers

\* Identifiers are interchangeable.
Symmetry == Permutations(Ids)
=============================================================================
