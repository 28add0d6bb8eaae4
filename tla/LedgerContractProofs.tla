------------------------ MODULE LedgerContractProofs ------------------------
(***************************************************************************)
(* Every step of the ledger implements a step of the contract of module    *)
(* Operation or changes nothing of it.                                     *)
(***************************************************************************)
EXTENDS LedgerContract, LedgerProofs

\* The steps of the contract other than Start, on the ledger's own variables.
Same(p) == Bound(p)' = Bound(p) /\ starts'[p] = starts[p]

Moves(p) ==
  \/ Standing(p)' = Standing(p) /\ Same(p)
  \/ Standing(p) = "Absent" /\ Standing(p)' = "Prepared" /\ Same(p)
  \/ Standing(p) = "Running" /\ Standing(p)' \in Terminal /\ Same(p)
  \/ Standing(p) \in Terminal /\ Standing(p)' = "Indeterminate" /\ Same(p)
  \/ /\ Standing(p) # "Running" /\ Standing(p)' = "Forgotten"
     /\ Bound(p)' = NoInv /\ starts'[p] = starts[p]

Starts(p) ==
  /\ Standing(p) = "Prepared" /\ Standing(p)' = "Running"
  /\ Bound(p)' \in Invs
  /\ Len(starts'[p]) = Len(starts[p]) + 1

\* The mapped state has the contract's types.
LEMMA MappedTypes ==
  ASSUME Inv
  PROVE  \A p \in Preps :
           /\ Standing(p) \in Terminal \cup {"Absent", "Prepared", "Running", "Forgotten"}
           /\ Bound(p) \in Invs \cup {NoInv}
           /\ Len(starts[p]) \in Nat
<1> TAKE p \in Preps
<1>1. CASE Known(p)
  <2>1. ledger.records[p] \in RecordType
    BY <1>1 DEF Inv, TypeOK, IsLedger, IsPartial, Known
  <2>2. /\ ledger.records[p].inv \in Invs \cup {NoInv}
        /\ ledger.records[p].state \in Terminal \cup {"Prepared", "Running"}
    BY <2>1 DEF RecordType
  <2>3. QED
    BY <1>1, <2>2 DEF Standing, Bound, Inv, TypeOK
<1>2. CASE ~Known(p)
  BY <1>2 DEF Standing, Bound, Inv, TypeOK
<1>3. QED
  BY <1>1, <1>2

\* The same in the next state.
LEMMA MappedTypesNext ==
  ASSUME Inv'
  PROVE  \A p \in Preps :
           /\ Standing(p)' \in Terminal \cup {"Absent", "Prepared", "Running", "Forgotten"}
           /\ Bound(p)' \in Invs \cup {NoInv}
           /\ Len(starts'[p]) \in Nat
<1> TAKE p \in Preps
<1>1. CASE Known(p)'
  <2>1. ledger'.records[p] \in RecordType
    BY <1>1 DEF Inv, TypeOK, IsLedger, IsPartial, Known
  <2>2. /\ ledger'.records[p].inv \in Invs \cup {NoInv}
        /\ ledger'.records[p].state \in Terminal \cup {"Prepared", "Running"}
    BY <2>1 DEF RecordType
  <2>3. QED
    BY <1>1, <2>2 DEF Standing, Bound, Inv, TypeOK
<1>2. CASE ~Known(p)'
  BY <1>2 DEF Standing, Bound, Inv, TypeOK
<1>3. QED
  BY <1>1, <1>2

\* Such moves of all operations, but for one that may start, are a step of the
\* contract.
LEMMA MovesAreContractSteps ==
  ASSUME Inv, Inv', NEW s, \A p \in Preps : Moves(p) \/ (p = s /\ Starts(p))
  PROVE  Contract!Next
<1>1. /\ \A p \in Preps : Len(starts[p]) \in Nat
      /\ \A p \in Preps :
           /\ Standing(p)' \in Terminal \cup {"Absent", "Prepared", "Running", "Forgotten"}
           /\ Bound(p)' \in Invs \cup {NoInv}
           /\ Len(starts'[p]) \in Nat
  BY MappedTypes, MappedTypesNext
<1>2. \A p \in Preps :
        \/ Contract!Stay(p) \/ Contract!Prepare(p) \/ Contract!Start(p)
        \/ Contract!Report(p) \/ Contract!Degrade(p) \/ Contract!Forget(p)
  BY DEF Moves, Same, Starts, Terminal, Contract!Stay, Contract!Prepare, Contract!Start,
         Contract!Report, Contract!Degrade, Contract!Forget, Contract!Keeps, Contract!Reported
<1>3. \A p \in Preps : Contract!Start(p) => p = s
  BY <1>1 DEF Moves, Same, Contract!Start, Terminal
<1>4. QED
  BY <1>1, <1>2, <1>3 DEF Contract!Next, Contract!Reported, Terminal

\* What housekeeping, or the report of another operation's outcome, does to an
\* operation that is not the subject of the step.
LEMMA Housekept ==
  ASSUME Inv, NEW M, NEW p, Settles(ledger, M, p), NEW q \in Preps,
         q \in DOMAIN ledger'.records <=> q \in DOMAIN M.records,
         q \in DOMAIN M.records => ledger'.records[q] = M.records[q],
         starts'[q] = starts[q], Gone(q)' <=> Gone(q)
  PROVE  Moves(q)
<1>1. CASE q \in DOMAIN ledger'.records
  <2>1. Known(q) /\ Known(q)'
    BY <1>1 DEF Settles, Known
  <2>2. /\ Standing(q) = ledger.records[q].state /\ Standing(q)' = ledger'.records[q].state
        /\ Bound(q) = ledger.records[q].inv /\ Bound(q)' = ledger'.records[q].inv
    BY <2>1 DEF Standing, Bound
  <2>3. /\ ledger'.records[q].inv = ledger.records[q].inv
        /\ \/ ledger'.records[q].state = ledger.records[q].state
           \/ /\ ledger.records[q].state \in Terminal
              /\ ledger'.records[q].state = "Indeterminate"
           \/ ledger.records[q].state = "Running" /\ ledger'.records[q].state \in Terminal
    BY <1>1 DEF Settles
  <2>4. QED
    BY <2>2, <2>3 DEF Moves, Same
<1>2. CASE q \notin DOMAIN ledger'.records /\ q \in DOMAIN ledger.records
  <2>1. ledger.records[q].state # "Running"
    BY <1>2 DEF Settles
  <2>2. Gone(q)
    BY <1>2 DEF Inv, Ownership, Gone
  <2>3. Standing(q) # "Running" /\ Standing(q)' = "Forgotten" /\ Bound(q)' = NoInv
    BY <1>2, <2>1, <2>2 DEF Standing, Bound, Known
  <2>4. QED
    BY <2>3 DEF Moves
<1>3. CASE q \notin DOMAIN ledger'.records /\ q \notin DOMAIN ledger.records
  BY <1>3 DEF Moves, Same, Standing, Bound, Known
<1>4. QED
  BY <1>1, <1>2, <1>3

\* Housekeeping is the case in which nothing is reported.
LEMMA ShrinksSettles == \A L, M, p : Shrinks(L, M) => Settles(L, M, p)
  BY DEF Shrinks, Settles

\* A step that only does housekeeping on the records.
LEMMA HousekeepingMoves ==
  ASSUME Inv, NEW M, Shrinks(ledger, M), ledger'.records = M.records, starts' = starts,
         \A q \in Preps : Gone(q)' <=> Gone(q)
  PROVE  \A q \in Preps : Moves(q)
<1>1. Settles(ledger, M, NoInv)
  BY ShrinksSettles
<1>2. QED
  BY <1>1, Housekept

\* reserve: the identifier is drawn but nothing is retained yet.
LEMMA ReserveMoves ==
  ASSUME Inv, NEW p \in Preps, NEW b \in ReserveSizes, Reserve(p, b)
  PROVE  \A q \in Preps : Moves(q)
<1> DEFINE r == [bytes |-> b, stage |-> "inspecting", size |-> 0, created |-> 0]
<1>1. PICK L \in Prune(ledger, now) :
        \/ /\ ledger' = Count(L, L.reservations + 1, L.reserved + b, L.running)
           /\ reservation' = Put(reservation, p, r)
           /\ used' = used \cup {p}
        \/ ledger' = L /\ UNCHANGED <<reservation, used>>
  BY DEF Reserve
<1>2. p \notin used /\ UNCHANGED <<now, starts>>
  BY DEF Reserve
<1>3. IsLedger(L, now) /\ Shrinks(ledger, L)
  BY PruneType DEF Inv, TypeOK
<1> HIDE DEF r
<1>4. ledger'.records = L.records
  BY <1>1, <1>3, CountRecords
<1>5. \A q \in Preps : Gone(q)' <=> Gone(q)
  <2>1. \/ DOMAIN reservation' = DOMAIN reservation \cup {p} /\ used' = used \cup {p}
        \/ UNCHANGED <<reservation, used>>
    <3>1. DOMAIN Put(reservation, p, r) = DOMAIN reservation \cup {p}
      BY PutDomain, Zenon
    <3>2. QED
      BY <1>1, <3>1
  <2>2. QED
    BY <1>2, <2>1 DEF Gone
<1>6. QED
  BY <1>2, <1>3, <1>4, <1>5, HousekeepingMoves

\* The resize keeps the reservation.
LEMMA ResizeMoves ==
  ASSUME Inv, NEW p \in Preps, NEW size \in OpSizes, Resize(p, size)
  PROVE  \A q \in Preps : Moves(q)
<1> DEFINE previous == reservation[p].bytes
           bytes == StoredBytes(NewRecord(size)) + GrowthAllowance
<1>1. PICK L \in Prune(ledger, now) :
        /\ \/ \E n : ledger' = Count(L, L.reservations, n, L.running)
           \/ ledger' = L
        /\ \E s : reservation' = Put(reservation, p, s)
  BY DEF Resize
<1>2. p \in DOMAIN reservation /\ UNCHANGED <<now, used, starts>>
  BY DEF Resize
<1>3. IsLedger(L, now) /\ Shrinks(ledger, L)
  BY PruneType DEF Inv, TypeOK
<1>4. ledger'.records = L.records
  BY <1>1, <1>3, CountRecords
<1>5. \A q \in Preps : Gone(q)' <=> Gone(q)
  <2>1. DOMAIN reservation' = DOMAIN reservation \cup {p}
    BY <1>1, PutDomain, ZenonT(30)
  <2>2. QED
    BY <1>2, <2>1 DEF Gone
<1>6. QED
  BY <1>2, <1>3, <1>4, <1>5, HousekeepingMoves

\* A dropped reservation was never a prepared operation.
LEMMA DropReservationMoves ==
  ASSUME Inv, NEW p \in Preps, DropReservation(p)
  PROVE  \A q \in Preps : Moves(q)
<1>1. /\ p \in DOMAIN reservation
      /\ ledger' = RollbackReservation(ledger, reservation[p].bytes)
      /\ reservation' = Delete(reservation, p)
      /\ UNCHANGED <<now, lease, used, starts>>
  BY DEF DropReservation
<1>2. reservation[p].bytes \in Nat /\ IsLedger(ledger, now)
  BY <1>1 DEF Inv, TypeOK, IsPartial, ReservationType
<1>3. ledger'.records = ledger.records
  BY <1>1, <1>2, RollbackType
<1>4. DOMAIN reservation' = DOMAIN reservation \ {p}
  BY <1>1, DeleteDomain
<1>5. p \notin DOMAIN ledger.records /\ p \in used
  BY <1>1 DEF Inv, Ownership
<1>6. Moves(p)
  BY <1>1, <1>3, <1>4, <1>5 DEF Moves, Standing, Bound, Known, Gone
<1>7. \A q \in Preps : q # p => Moves(q)
  BY <1>1, <1>3, <1>4 DEF Moves, Same, Standing, Bound, Known, Gone
<1>8. QED
  BY <1>6, <1>7

\* commit: the operation becomes Prepared, or is refused.
LEMMA CommitMoves ==
  ASSUME Inv, NEW p \in Preps, Commit(p)
  PROVE  \A q \in Preps : Moves(q)
<1>1. /\ p \in DOMAIN reservation
      /\ reservation' = Delete(reservation, p)
      /\ UNCHANGED <<used, starts>>
  BY DEF Commit
<1>2. PICK L, r :
        /\ Shrinks(ledger, L)
        /\ r.inv = NoInv /\ r.state = "Prepared"
        /\ ledger'.records = L.records \/ ledger'.records = Put(L.records, p, r)
  BY CommitRecords
<1>3. DOMAIN reservation' = DOMAIN reservation \ {p}
  BY <1>1, DeleteDomain
<1>4. p \notin DOMAIN ledger.records /\ p \notin DOMAIN L.records /\ p \in used
  BY <1>1, <1>2 DEF Inv, Ownership, Shrinks
<1>5. Standing(p) = "Absent" /\ Bound(p) = NoInv
  BY <1>1, <1>4 DEF Standing, Bound, Known, Gone
<1>6. Moves(p)
  <2>1. CASE ledger'.records = L.records
    <3>1. Standing(p)' = "Forgotten" /\ Bound(p)' = NoInv
      BY <1>1, <1>3, <1>4, <2>1 DEF Standing, Bound, Known, Gone
    <3>2. QED
      BY <1>1, <1>5, <3>1 DEF Moves
  <2>2. CASE ledger'.records = Put(L.records, p, r)
    <3>1. p \in DOMAIN ledger'.records /\ ledger'.records[p] = r
      BY <2>2 DEF Put
    <3>2. Standing(p)' = "Prepared" /\ Bound(p)' = NoInv
      BY <1>2, <3>1 DEF Standing, Bound, Known
    <3>3. QED
      BY <1>1, <1>5, <3>2 DEF Moves, Same
  <2>3. QED
    BY <1>2, <2>1, <2>2
<1>7. ASSUME NEW q \in Preps, q # p PROVE Moves(q)
  <2>1. Settles(ledger, L, p)
    BY <1>2, ShrinksSettles
  <2>2. /\ q \in DOMAIN ledger'.records <=> q \in DOMAIN L.records
        /\ q \in DOMAIN L.records => ledger'.records[q] = L.records[q]
    BY <1>2, <1>7 DEF Put
  <2>3. Gone(q)' <=> Gone(q)
    BY <1>1, <1>3, <1>7 DEF Gone
  <2>4. QED
    BY <1>1, <2>1, <2>2, <2>3, Housekept
<1>8. QED
  BY <1>6, <1>7

\* begin: one operation starts at most, bound to the caller's invocation.
LEMMA BeginMoves ==
  ASSUME Inv, NEW p \in Preps, NEW i \in Invs, Begin(p, i)
  PROVE  \A q \in Preps : Moves(q) \/ (q = p /\ Starts(q))
<1>1. PICK L \in Prune(ledger, now) :
        \/ ledger' = L /\ UNCHANGED starts
        \/ /\ CanStart(L, p)
           /\ ledger' = Started(L, p, i)
           /\ starts' = [starts EXCEPT ![p] = Append(@, now)]
  BY ZenonT(30) DEF Begin
<1>2. UNCHANGED <<now, reservation, used>>
  BY DEF Begin
<1>3. IsLedger(L, now) /\ Shrinks(ledger, L) /\ now \in Nat
  BY PruneType DEF Inv, TypeOK
<1>4. \A q \in Preps : Gone(q)' <=> Gone(q)
  BY <1>2 DEF Gone
<1>5. CASE ledger' = L /\ UNCHANGED starts
  BY <1>3, <1>4, <1>5, HousekeepingMoves
<1>6. CASE /\ CanStart(L, p)
           /\ ledger' = Started(L, p, i)
           /\ starts' = [starts EXCEPT ![p] = Append(@, now)]
  <2>1. p \in DOMAIN L.records /\ L.records[p].inv = NoInv
    BY <1>6, Zenon DEF CanStart
  <2>2. /\ DOMAIN ledger'.records = DOMAIN L.records
        /\ ledger'.records[p].inv = i /\ ledger'.records[p].state = "Running"
        /\ \A q \in DOMAIN L.records : q # p => ledger'.records[q] = L.records[q]
    BY <1>3, <1>6, <2>1, StartedType
  <2>3. /\ p \in DOMAIN ledger.records /\ ledger.records[p].inv = NoInv
        /\ ledger.records[p].state = "Prepared"
    BY <1>3, <2>1 DEF Inv, Ownership, Shrinks
  <2>4. starts \in [Preps -> Seq(Nat)] /\ starts' = [starts EXCEPT ![p] = Append(starts[p], now)]
    BY <1>6 DEF Inv, TypeOK
  <2>5. Len(starts'[p]) = Len(starts[p]) + 1 /\ \A q \in Preps : q # p => starts'[q] = starts[q]
    BY <1>3, <2>4
  <2>6. Starts(p)
    BY <2>1, <2>2, <2>3, <2>5 DEF Starts, Standing, Bound, Known
  <2>7. ASSUME NEW q \in Preps, q # p PROVE Moves(q)
    <3>1. Settles(ledger, L, p)
      BY <1>3, ShrinksSettles
    <3>2. starts'[q] = starts[q] /\ (Gone(q)' <=> Gone(q))
      BY <1>4, <2>5, <2>7
    <3>3. /\ q \in DOMAIN ledger'.records <=> q \in DOMAIN L.records
          /\ q \in DOMAIN L.records => ledger'.records[q] = L.records[q]
      BY <2>2, <2>7
    <3>4. QED
      BY <3>1, <3>2, <3>3, Housekept
  <2>8. QED
    BY <2>6, <2>7
<1>7. QED
  BY <1>1, <1>5, <1>6

\* A report settles its operation; others are at most given up.
LEMMA ReportMoves ==
  ASSUME Inv, NEW p \in DOMAIN lease, NEW state \in Terminal, NEW bytes \in Nat,
         NEW L \in Finished(ledger, p, lease[p].inv, state, bytes),
         ledger'.records = L.records, UNCHANGED <<reservation, used, starts>>
  PROVE  \A q \in Preps : Moves(q)
<1>1. Settles(ledger, L, p)
  BY FinishedType DEF Inv, TypeOK
<1>2. \A q \in Preps : Gone(q)' <=> Gone(q)
  BY DEF Gone
<1>3. QED
  BY <1>1, <1>2, Housekept

\* The three ways in which an execution ends.
LEMMA SettleMoves ==
  ASSUME Inv, NEW p \in Preps,
         \/ \E kind \in OutcomeKinds, effects \in BOOLEAN, bytes \in OutcomeSizes :
              Finish(p, kind, effects, bytes)
         \/ FinishIndeterminate(p)
         \/ DropLease(p)
  PROVE  \A q \in Preps : Moves(q)
<1>1. "Indeterminate" \in Terminal /\ 0 \in Nat /\ IsLedger(ledger, now) /\ now \in Nat
  BY DEF Terminal, Inv, TypeOK
<1>2. PICK state \in Terminal, bytes \in Nat :
        \E L \in Finished(ledger, p, lease[p].inv, state, bytes) :
        \/ ledger' = L
        \/ ledger' = Count(L, L.reservations, L.reserved, SaturatingSub(L.running, lease[p].bytes))
  <2>1. ASSUME NEW kind \in OutcomeKinds, NEW effects \in BOOLEAN, NEW bytes \in OutcomeSizes,
               Finish(p, kind, effects, bytes)
        PROVE  \E state \in Terminal, n \in Nat :
                 ledger' \in Finished(ledger, p, lease[p].inv, state, n)
    <3>1. OutcomeState(kind, effects) \in Terminal /\ bytes \in Nat
      BY LedgerConstants DEF OutcomeState, OutcomeKinds, Terminal
    <3>2. QED
      BY <2>1, <3>1 DEF Finish
  <2>2. QED
    BY <1>1, <2>1 DEF FinishIndeterminate, DropLease
<1>3. p \in DOMAIN lease /\ UNCHANGED <<reservation, used, starts>>
  BY DEF Finish, FinishIndeterminate, DropLease
<1>4. PICK L \in Finished(ledger, p, lease[p].inv, state, bytes) :
        \/ ledger' = L
        \/ ledger' = Count(L, L.reservations, L.reserved, SaturatingSub(L.running, lease[p].bytes))
  BY <1>2
<1>5. IsLedger(L, now)
  BY <1>1, FinishedType
<1>6. ledger'.records = L.records
  BY <1>4, <1>5, CountRecords
<1>7. QED
  BY <1>3, <1>6, ReportMoves

\* Every step of the ledger is a step of the contract.
LEMMA NextContract == Inv /\ Inv' /\ Next => Contract!Next
<1> SUFFICES ASSUME Inv, Inv', Next PROVE \E s : \A q \in Preps : Moves(q) \/ (q = s /\ Starts(q))
  BY MovesAreContractSteps
<1>1. ASSUME IsLedger(ledger', now), Shrinks(ledger, ledger'),
             UNCHANGED <<reservation, used, starts>>
      PROVE  \A q \in Preps : Moves(q)
  <2>1. \A q \in Preps : Gone(q)' <=> Gone(q)
    BY <1>1 DEF Gone
  <2>2. QED
    BY <1>1, <2>1, HousekeepingMoves
<1>2. ASSUME NEW p \in Preps, NEW b \in ReserveSizes, Reserve(p, b)
      PROVE  \A q \in Preps : Moves(q)
  BY <1>2, ReserveMoves
<1>3. ASSUME NEW p \in Preps, NEW size \in OpSizes, Resize(p, size)
      PROVE  \A q \in Preps : Moves(q)
  BY <1>3, ResizeMoves
<1>4. ASSUME NEW p \in Preps, Commit(p) PROVE \A q \in Preps : Moves(q)
  BY <1>4, CommitMoves
<1>5. ASSUME NEW p \in Preps, DropReservation(p) PROVE \A q \in Preps : Moves(q)
  BY <1>5, DropReservationMoves
<1>6. ASSUME NEW p \in Preps, NEW i \in Invs, Begin(p, i)
      PROVE  \A q \in Preps : Moves(q) \/ (q = p /\ Starts(q))
  BY <1>6, BeginMoves
<1>7. ASSUME NEW p \in Preps,
             \/ \E kind \in OutcomeKinds, effects \in BOOLEAN, bytes \in OutcomeSizes :
                  Finish(p, kind, effects, bytes)
             \/ FinishIndeterminate(p)
             \/ DropLease(p)
      PROVE  \A q \in Preps : Moves(q)
  BY <1>7, SettleMoves
<1>8. ASSUME NEW p \in Preps, NEW i \in Invs \cup {NoInv}, Release(p, i)
      PROVE  \A q \in Preps : Moves(q)
  BY <1>1, <1>8, ReleaseShrinks
<1>9. ASSUME NEW p \in Preps, NEW seq \in 1..MaxSequence, CaptureProgress(p, seq)
      PROVE  \A q \in Preps : Moves(q)
  BY <1>1, <1>9, CaptureShrinks
<1>10. CASE Status
  BY <1>1, <1>10, PruneType DEF Status, Inv, TypeOK
<1>11. CASE Tick
  <2>1. UNCHANGED <<ledger, reservation, used, starts>> /\ Shrinks(ledger, ledger)
    BY <1>11 DEF Tick, Shrinks
  <2>2. \A q \in Preps : Gone(q)' <=> Gone(q)
    BY <2>1 DEF Gone
  <2>3. QED
    BY <2>1, <2>2, HousekeepingMoves
<1>12. QED
  BY <1>2, <1>3, <1>4, <1>5, <1>6, <1>7, <1>8, <1>9, <1>10, <1>11 DEF Next

\* The ledger keeps the contract of every prepared operation, for any number of
\* operations and callers and any limits.
THEOREM LedgerImplementsOperation == Spec => OperationContract
<1>1. Init => Contract!Init
  <2> SUFFICES ASSUME Init PROVE Contract!Init
    OBVIOUS
  <2>1. DOMAIN ledger.records = {} /\ used = {} /\ starts = [p \in Preps |-> <<>>]
    BY DEF Init
  <2>2. \A p \in Preps : Standing(p) = "Absent" /\ Bound(p) = NoInv /\ Len(starts[p]) = 0
    BY <2>1 DEF Standing, Bound, Known, Gone
  <2>3. QED
    BY <2>2 DEF Contract!Init
<1>2. Inv /\ Inv' /\ [Next]_vars => [Contract!Next]_(Contract!vars)
  <2>1. UNCHANGED vars => UNCHANGED Contract!vars
    BY DEF vars, Contract!vars, Standing, Bound, Known, Gone
  <2>2. QED
    BY <2>1, NextContract
<1>3. QED
  BY <1>1, <1>2, SpecInv, PTL DEF Spec, OperationContract, Contract!Spec
=============================================================================
