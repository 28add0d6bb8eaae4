---------------------------- MODULE AdmissionMC -----------------------------
(***************************************************************************)
(* Instances of Admission for TLC. One task needs the whole ledger, so the *)
(* others can be admitted before it again and again.                       *)
(***************************************************************************)
EXTENDS Admission

CONSTANTS large, small, other

\* LARGE_PREPARATION_RESERVATION_BYTES against SMALL_.
Sizes == [t \in {large, small, other} |-> IF t = large THEN 2 ELSE 1]
=============================================================================
