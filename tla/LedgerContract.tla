--------------------------- MODULE LedgerContract ---------------------------
(***************************************************************************)
(* The ledger implements the contract of module Operation.                 *)
(***************************************************************************)
EXTENDS Ledger

Known(p) == p \in DOMAIN ledger.records

\* Drawn, and no longer being inspected.
Gone(p) == p \in used /\ p \notin DOMAIN reservation

\* An identifier exists for the client once the record is inserted; it is
\* forgotten when neither a record nor a reservation is left of it.
Standing(p) ==
  IF Known(p) THEN ledger.records[p].state
  ELSE IF Gone(p) THEN "Forgotten" ELSE "Absent"

Bound(p) == IF Known(p) THEN ledger.records[p].inv ELSE NoInv

Contract == INSTANCE Operation WITH
  op <- [p \in Preps |-> Standing(p)],
  bound <- [p \in Preps |-> Bound(p)],
  runs <- [p \in Preps |-> Len(starts[p])]

\* Refinement: every step of the ledger, with the pruning, evictions and
\* settlements it makes on the way, is for each operation one step of the
\* contract or none, and no two operations start at once (all of struct Ledger).
OperationContract == Contract!Spec
=============================================================================
