-------------------------- MODULE AdmissionProofs ---------------------------
(***************************************************************************)
(* Types and no lost wake-up, for any number of tasks and any sizes.       *)
(* NoLostWakeup is inductive together with the types: a task waits only    *)
(* under a live reservation, a reservation ends as a pending               *)
(* notify_waiters, and that call reaches every task that has enabled its   *)
(* future.                                                                 *)
(***************************************************************************)
EXTENDS Admission, TLAPS

Inv == TypeOK /\ NoLostWakeup

\* No step of one task's own progress loses a wake-up (the loop of
\* reserve_preparation_wait and the drop of a reservation).
LEMMA StepInv == \A t \in Tasks : Inv /\ Step(t) => Inv'
<1> SUFFICES ASSUME NEW t \in Tasks, Inv, Step(t) PROVE Inv'
  OBVIOUS
<1> USE AdmissionConstants DEF Inv, TypeOK, NoLostWakeup, At, Move, Places, Waiting
<1>1. CASE Enable(t)
  BY <1>1 DEF Enable
<1>2. CASE TryReserve(t)
  BY <1>2 DEF TryReserve, MayWait
<1>3. CASE Await(t)
  BY <1>3 DEF Await
<1>4. CASE Poll(t)
  BY <1>4 DEF Poll
<1>5. CASE GiveBack(t)
  BY <1>5 DEF GiveBack
<1>6. CASE Notify(t)
  BY <1>6 DEF Notify
<1> QED BY <1>1, <1>2, <1>3, <1>4, <1>5, <1>6 DEF Step

\* Nor does a new request, a cancellation, a deadline, a resize or any other
\* change of the ledger.
LEMMA NextInv == Inv /\ [Next]_vars => Inv'
<1> SUFFICES ASSUME Inv, [Next]_vars PROVE Inv'
  OBVIOUS
<1> USE AdmissionConstants DEF Inv, TypeOK, NoLostWakeup, At, Move, Places, Waiting
<1>1. ASSUME NEW t \in Tasks, Step(t) PROVE Inv'
  BY <1>1, StepInv
<1>2. ASSUME NEW t \in Tasks, Enter(t) PROVE Inv'
  BY <1>2 DEF Enter
<1>3. ASSUME NEW t \in Tasks, Cancel(t) PROVE Inv'
  BY <1>3 DEF Cancel
<1>4. ASSUME NEW t \in Tasks, Expire(t) PROVE Inv'
  BY <1>4 DEF Expire
<1>5. ASSUME NEW t \in Tasks, Resize(t) PROVE Inv'
  BY <1>5 DEF Resize
<1>6. CASE Elsewhere
  BY <1>6 DEF Elsewhere
<1>7. CASE UNCHANGED vars
  BY <1>7 DEF vars
<1> QED BY <1>1, <1>2, <1>3, <1>4, <1>5, <1>6, <1>7 DEF Next

\* The invariant and what it implies hold in every state.
LEMMA AdmissionInv == Spec => []Inv
<1>1. Init => Inv
  BY DEF Init, Inv, TypeOK, NoLostWakeup, Places, Waiting
<1> QED BY <1>1, NextInv, PTL DEF Spec

\* A reservation, a deadline and the room of the ledger stay what the code's types say: in
\* particular a reservation that is resized or given back never leaves a negative room
\* (resize_reservation, commit, Drop for PreparationReservation).
THEOREM AdmissionTypeOK == Spec => []TypeOK
<1>1. Inv => TypeOK
  BY DEF Inv
<1> QED BY <1>1, AdmissionInv, PTL

\* A task that sleeps in reserve_preparation_wait is always owed a
\* notify_waiters, however many tasks compete and whatever they ask for.
THEOREM AdmissionNoLostWakeup == Spec => []NoLostWakeup
<1>1. Inv => NoLostWakeup
  BY DEF Inv
<1> QED BY <1>1, AdmissionInv, PTL
=============================================================================
