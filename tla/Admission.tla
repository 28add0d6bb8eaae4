----------------------------- MODULE Admission ------------------------------
(***************************************************************************)
(* Admission of preparations (reserve_preparation_wait in                  *)
(* src/remote_host.rs): tasks that find the ledger full park on a Notify   *)
(* until an inspection gives its reservation back, are cancelled, or reach *)
(* the admission deadline. The ledger is abstracted to the room its        *)
(* reservations and retained operations take; its own accounting is the    *)
(* subject of module Ledger.                                               *)
(***************************************************************************)
EXTENDS Integers, FiniteSets, Functions

CONSTANTS
  Tasks,      \* preparations in progress, one request each
  Size,       \* what each asks reserve for
  Room,       \* what the ledger can hold
  MaxWaiters  \* permits of preparation_waiters (MAX_PREPARATIONS)

ASSUME AdmissionConstants ==
  /\ Size \in [Tasks -> Nat]
  /\ Room \in Nat /\ MaxWaiters \in Nat

VARIABLES
  pc,        \* where each task stands
  notified,  \* its Notified future has been woken
  late,      \* its admission deadline has passed
  held,      \* the room its reservation takes, 0 without one
  retained   \* the room everything else in the ledger takes

vars == <<pc, notified, late, held, retained>>

\* "entered": has a waiter permit, at the top of the loop; "enabled": its
\* Notified future is registered; "failed": reserve found no room, changed.await
\* is still to come; "parked": asleep there; "holding": has a reservation;
\* "settled": gave it back, notify_waiters still to come.
Waiting == {"entered", "enabled", "failed", "parked"}
Places == Waiting \cup {"idle", "holding", "settled", "answered", "refused"}

At(place) == {t \in Tasks : pc[t] = place}

Taken == retained + SumFunction(held)

Move(t, place) == pc' = [pc EXCEPT ![t] = place]

Init ==
  /\ pc = [t \in Tasks |-> "idle"]
  /\ notified = [t \in Tasks |-> FALSE]
  /\ late = [t \in Tasks |-> FALSE]
  /\ held = [t \in Tasks |-> 0]
  /\ retained = 0

\* try_acquire of a waiter permit, and the first look at the request's
\* cancellation token. A refused or answered task stands for a new request.
Enter(t) ==
  /\ pc[t] \in {"idle", "answered", "refused"}
  /\ \/ Cardinality({u \in Tasks : pc[u] \in Waiting}) < MaxWaiters /\ Move(t, "entered")
     \/ Move(t, "refused")
  /\ late' = [late EXCEPT ![t] = FALSE]
  /\ UNCHANGED <<notified, held, retained>>

\* notified() and enable(), before the ledger is locked.
Enable(t) ==
  /\ pc[t] = "entered"
  /\ Move(t, "enabled")
  /\ notified' = [notified EXCEPT ![t] = FALSE]
  /\ UNCHANGED <<late, held, retained>>

\* Mutant: a task waits although no inspection is in progress.
WaitAlways == TRUE

\* Only a live reservation is given back without the client's help.
MayWait == At("holding") # {}

\* Ledger::reserve under the ledger's lock.
TryReserve(t) ==
  /\ pc[t] = "enabled"
  /\ \/ /\ Taken + Size[t] <= Room
        /\ Move(t, "holding")
        /\ held' = [held EXCEPT ![t] = Size[t]]
     \/ /\ Taken + Size[t] > Room
        /\ Move(t, IF MayWait THEN "failed" ELSE "refused")
        /\ UNCHANGED held
  /\ UNCHANGED <<notified, late, retained>>

\* Mutant: the timeout is around each wait instead of the whole loop.
AwaitAfresh(t) ==
  /\ pc[t] = "failed"
  /\ Move(t, IF notified[t] THEN "entered" ELSE "parked")
  /\ late' = [late EXCEPT ![t] = FALSE]
  /\ UNCHANGED <<notified, held, retained>>

\* changed.await is polled at once. A notification since enable sends the task
\* round the loop again, late or not; without one, the timeout looks at its
\* deadline in the same poll.
Await(t) ==
  /\ pc[t] = "failed"
  /\ \/ notified[t] /\ Move(t, "entered")
     \/ ~notified[t] /\ late[t] /\ Move(t, "refused")
     \/ ~notified[t] /\ ~late[t] /\ Move(t, "parked")
  /\ UNCHANGED <<notified, late, held, retained>>

\* A parked task is polled: for its notification, then for its deadline.
Poll(t) ==
  /\ pc[t] = "parked"
  /\ \/ notified[t] /\ Move(t, "entered")
     \/ ~notified[t] /\ late[t] /\ Move(t, "refused")
  /\ UNCHANGED <<notified, late, held, retained>>

\* The request is cancelled or its future is dropped; select looks here first.
Cancel(t) ==
  /\ pc[t] = "parked"
  /\ Move(t, "refused")
  /\ UNCHANGED <<notified, late, held, retained>>

\* The 30 s of PREPARATION_ADMISSION_TIMEOUT pass.
Expire(t) ==
  /\ pc[t] \in Waiting
  /\ ~late[t]
  /\ late' = [late EXCEPT ![t] = TRUE]
  /\ UNCHANGED <<pc, notified, held, retained>>

\* Mutant: the reservation remembers the difference instead of its new size.
ResizeToDelta(t) ==
  /\ pc[t] = "holding"
  /\ \E n \in 1..Room :
       /\ Taken - held[t] + n <= Room
       /\ held' = [held EXCEPT ![t] = n - @]
  /\ UNCHANGED <<pc, notified, late, retained>>

\* resize_reservation, once the inspection knows what it will retain.
Resize(t) ==
  /\ pc[t] = "holding"
  /\ \E n \in 1..Room :
       /\ Taken - held[t] + n <= Room
       /\ held' = [held EXCEPT ![t] = n]
  /\ UNCHANGED <<pc, notified, late, retained>>

\* Mutant: only a reservation that is still active notifies when it is dropped.
GiveBackSilently(t) ==
  /\ pc[t] = "holding"
  /\ \/ retained' = retained + held[t] /\ Move(t, "answered")
     \/ UNCHANGED retained /\ Move(t, "settled")
  /\ held' = [held EXCEPT ![t] = 0]
  /\ UNCHANGED <<notified, late>>

\* The ledger's part of commit (the operation is retained, or insert_reserved
\* refuses it) and of the drop of a reservation that is still active.
GiveBack(t) ==
  /\ pc[t] = "holding"
  /\ \/ Taken <= Room /\ retained' = retained + held[t]
     \/ UNCHANGED retained
  /\ Move(t, "settled")
  /\ held' = [held EXCEPT ![t] = 0]
  /\ UNCHANGED <<notified, late>>

\* notify_waiters, the last act of every drop of a reservation.
Notify(t) ==
  /\ pc[t] = "settled"
  /\ Move(t, "answered")
  /\ notified' = [u \in Tasks |-> notified[u] \/ pc[u] \in {"enabled", "failed", "parked"}]
  /\ UNCHANGED <<late, held, retained>>

\* Every other operation of the ledger: retained operations are pruned, released
\* and executed, outcomes and progress grow. None of them notifies.
Elsewhere ==
  /\ retained' \in 0..Room
  /\ UNCHANGED <<pc, notified, late, held>>

Step(t) == Enable(t) \/ TryReserve(t) \/ Await(t) \/ Poll(t) \/ GiveBack(t) \/ Notify(t)

Next ==
  \/ \E t \in Tasks : Step(t) \/ Enter(t) \/ Cancel(t) \/ Expire(t) \/ Resize(t)
  \/ Elsewhere

Spec == Init /\ [][Next]_vars

\* The runtime polls every task that is ready and an inspection comes to an end;
\* nothing is assumed of clients, of cancellation or of the deadline.
FairSpec == Spec /\ \A t \in Tasks : WF_vars(Step(t))

\* The runtime's timer fires as well.
TimersFire == \A t \in Tasks : WF_vars(Expire(t))

-----------------------------------------------------------------------------
TypeOK ==
  /\ pc \in [Tasks -> Places]
  /\ notified \in [Tasks -> BOOLEAN]
  /\ late \in [Tasks -> BOOLEAN]
  /\ held \in [Tasks -> Nat]
  /\ retained \in Nat

\* Between its failed reserve and its await a task cannot miss the notification
\* it needs: as long as it sleeps, or is about to, someone still owes a
\* notify_waiters (reserve_preparation_wait, Drop for PreparationReservation).
NoLostWakeup ==
  \A t \in Tasks :
     pc[t] \in {"failed", "parked"} /\ ~notified[t] => At("holding") \cup At("settled") # {}

\* A parked task does not sleep until its deadline: the end of some inspection
\* wakes it, with no help from the timer (reserve_preparation_wait).
ParkedWakes == \A t \in Tasks : pc[t] = "parked" ~> pc[t] # "parked"

\* A late task whose failed reserve was followed by a notification before it
\* reached its await: the timeout has not looked at the deadline in this round.
Overtaken(t) == pc[t] = "failed" /\ late[t] /\ notified[t]

\* However others are admitted before it, a request is admitted or refused once
\* the timer can be relied on, unless a notification falls between the enable and
\* the await of every round from its deadline on: PREPARATION_ADMISSION_TIMEOUT
\* bounds the sleep of reserve_preparation_wait and not the loop itself.
EveryRequestAnswered ==
  TimersFire =>
    \A t \in Tasks : pc[t] \in Waiting ~> (pc[t] \notin Waiting \/ Overtaken(t))
=============================================================================
