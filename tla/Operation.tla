----------------------------- MODULE Operation ------------------------------
(***************************************************************************)
(* What the remote host promises of each prepared operation, whatever the  *)
(* ledger does to stay within its bounds: it is prepared once, bound to    *)
(* one invocation, run at most once, reported, and at worst forgotten. One *)
(* step may forget any number of operations; only one is started.          *)
(***************************************************************************)
EXTENDS Integers

CONSTANTS Preps, Invs, NoInv

VARIABLES
  op,    \* where each operation stands
  bound, \* the invocation it is bound to, as long as it is known
  runs   \* how often it was handed to an execution

vars == <<op, bound, runs>>

Reported == {"Completed", "Failed", "Cancelled", "Indeterminate"}

Init ==
  /\ op = [p \in Preps |-> "Absent"]
  /\ bound = [p \in Preps |-> NoInv]
  /\ runs = [p \in Preps |-> 0]

Keeps(p) == bound'[p] = bound[p] /\ runs'[p] = runs[p]

Stay(p) == op'[p] = op[p] /\ Keeps(p)

Prepare(p) == op[p] = "Absent" /\ op'[p] = "Prepared" /\ Keeps(p)

Start(p) ==
  /\ op[p] = "Prepared"
  /\ op'[p] = "Running"
  /\ bound'[p] \in Invs
  /\ runs'[p] = runs[p] + 1

Report(p) == op[p] = "Running" /\ op'[p] \in Reported /\ Keeps(p)

\* An outcome given up for want of room is not contradicted, only lost.
Degrade(p) == op[p] \in Reported /\ op'[p] = "Indeterminate" /\ Keeps(p)

\* An inspection that failed, or an operation expired, released or given up.
Forget(p) ==
  /\ op[p] # "Running"
  /\ op'[p] = "Forgotten"
  /\ bound'[p] = NoInv
  /\ runs'[p] = runs[p]

Next ==
  /\ op' \in [Preps -> Reported \cup {"Absent", "Prepared", "Running", "Forgotten"}]
  /\ bound' \in [Preps -> Invs \cup {NoInv}]
  /\ runs' \in [Preps -> Nat]
  /\ \A p \in Preps :
       Stay(p) \/ Prepare(p) \/ Start(p) \/ Report(p) \/ Degrade(p) \/ Forget(p)
  /\ \A p, q \in Preps : Start(p) /\ Start(q) => p = q

Spec == Init /\ [][Next]_vars
=============================================================================
