----------------------------- MODULE ChangesMC ------------------------------
(***************************************************************************)
(* Instances of Changes for TLC: one that records calls, and one that      *)
(* starts from two records and reverts them.                               *)
(***************************************************************************)
EXTENDS Changes, TLC

CONSTANTS f, g, a, b, c

ThreeContents == [p \in Paths |-> IF p = f THEN {a, b, c} ELSE {a, b}]

Symmetry == Permutations(Holders) \cup Permutations(Reverts) \cup Permutations(Tickets)

\* Where nothing is recorded yet, no content is special either.
ContentSymmetry == Symmetry \cup Permutations({a, b, c})

From(x, y) == [before |-> x, after |-> y]

\* A call changed both paths, a later one the first of them again.
TwoRecords ==
  LET first == [p \in Paths |-> From(a, b)]
      second == [p \in {f} |-> From(b, c)]
  IN  [s \in 1..2 |-> [holders |-> Holders, changes |-> IF s = 1 THEN first ELSE second,
                       unrecorded |-> {}]]

RecordedInit ==
  /\ live = [p \in Paths |-> IF p = f THEN c ELSE b]
  /\ store = [EmptyStore EXCEPT !.next = 3, !.records = TwoRecords]
  /\ plans = <<>>
  /\ run = None

RecordedSpec == RecordedInit /\ [][Next]_vars
=============================================================================
