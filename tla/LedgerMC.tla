------------------------------ MODULE LedgerMC ------------------------------
(***************************************************************************)
(* Instances of the operation ledger for model checking.                   *)
(***************************************************************************)
EXTENDS LedgerContract

\* Preparations and invocations are interchangeable.
Symmetry == Permutations(Preps) \cup Permutations(Invs)
=============================================================================
