---------------------------- MODULE LedgerProofs ----------------------------
(***************************************************************************)
(* Proofs about the operation ledger, for every number of preparations,    *)
(* every quota and every size: the inductive invariant, a lemma per action *)
(* and the theorems.                                                       *)
(***************************************************************************)
EXTENDS LedgerLemmas

-----------------------------------------------------------------------------
Inv == TypeOK /\ Ownership

\* The empty ledger satisfies the invariant.
LEMMA InitInv == Init => Inv
<1> SUFFICES ASSUME Init PROVE Inv
  OBVIOUS
<1>1. /\ DOMAIN ledger.records = {} /\ DOMAIN reservation = {} /\ DOMAIN lease = {}
      /\ used = {} /\ starts = [p \in Preps |-> <<>>]
  BY DEF Init
<1>2. TypeOK
  <2>1. <<>> \in [{} -> RecordType] /\ <<>> \in [{} -> ReservationType]
        /\ <<>> \in [{} -> LeaseType]
    OBVIOUS
  <2>2. starts \in [Preps -> Seq(Nat)]
    BY <1>1
  <2>3. IsLedger(ledger, now)
    BY <1>1, <2>1 DEF Init, IsLedger, IsPartial
  <2>4. QED
    BY <1>1, <2>1, <2>2, <2>3 DEF Init, TypeOK, IsPartial
<1>3. Ownership
  <2>1. AtMostOnce
    BY <1>1 DEF AtMostOnce
  <2>2. RunningIffExecuting
    BY <1>1 DEF RunningIffExecuting, IsRunning
  <2>3. QED
    BY <1>1, <2>1, <2>2 DEF Ownership
<1>4. QED
  BY <1>2, <1>3 DEF Inv

Steps == \A p \in DOMAIN ledger.records : RecordStep(p)

\* What an action that only does housekeeping on the records keeps of ownership.
LEMMA ShrinksFrame ==
  ASSUME Inv, NEW M, Shrinks(ledger, M), M.records = ledger'.records
  PROVE  /\ \A q \in Preps, i \in Invs : IsRunning(ledger, q, i) <=> IsRunning(ledger', q, i)
         /\ \A q \in DOMAIN ledger'.records :
              /\ q \in DOMAIN ledger.records
              /\ ledger'.records[q].inv = ledger.records[q].inv
              /\ ledger'.records[q].state = "Prepared" <=> ledger.records[q].state = "Prepared"
  BY DEF Shrinks, IsRunning, Terminal

\* Housekeeping takes only allowed record steps.
LEMMA ShrinksSteps ==
  ASSUME Inv, NEW M, Shrinks(ledger, M), M.records = ledger'.records,
         \A q \in DOMAIN reservation' : q \notin DOMAIN ledger.records
  PROVE  Steps
  BY DEF Steps, RecordStep, Shrinks, Terminal

\* Housekeeping, with no reservation added, preserves ownership.
LEMMA ShrinksOwnership ==
  ASSUME Inv, NEW M, Shrinks(ledger, M), M.records = ledger'.records,
         DOMAIN reservation' \subseteq DOMAIN reservation, UNCHANGED <<lease, used, starts>>
  PROVE  Ownership' /\ Steps
<1>1. /\ \A q \in Preps, i \in Invs : IsRunning(ledger, q, i) <=> IsRunning(ledger', q, i)
      /\ \A q \in DOMAIN ledger'.records :
           /\ q \in DOMAIN ledger.records
           /\ ledger'.records[q].inv = ledger.records[q].inv
           /\ ledger'.records[q].state = "Prepared" <=> ledger.records[q].state = "Prepared"
  BY ShrinksFrame
<1>2. RunningIffExecuting'
  BY <1>1 DEF Inv, Ownership, RunningIffExecuting
<1>3. AtMostOnce'
  BY DEF Inv, Ownership, AtMostOnce
<1>4. Ownership'
  BY <1>1, <1>2, <1>3 DEF Inv, Ownership
<1>5. \A q \in DOMAIN reservation' : q \notin DOMAIN ledger.records
  BY DEF Inv, Ownership
<1>6. QED
  BY <1>4, <1>5, ShrinksSteps

\* The counters can change without touching anything else.
LEMMA CountRecords ==
  \A L, t, a, b, c : IsLedger(L, t) => Count(L, a, b, c).records = L.records
  BY DEF IsLedger, Count

\* Counters that are naturals make a ledger again.
LEMMA CountType ==
  \A L, t, a, b, c :
     IsLedger(L, t) /\ a \in Nat /\ b \in Nat /\ c \in Nat => IsLedger(Count(L, a, b, c), t)
<1> TAKE L, t, a, b, c
<1> HAVE IsLedger(L, t) /\ a \in Nat /\ b \in Nat /\ c \in Nat
<1> DEFINE M == Count(L, a, b, c)
<1>1. /\ M.records = L.records
      /\ M \in [records : {L.records}, tombstones : Seq(TombstoneType(t)), evicted : 0..t,
                capacity : Nat, reserved : Nat, running : Nat, reservations : Nat]
  BY ZenonT(30) DEF IsLedger, Count
<1> HIDE DEF M
<1>2. IsLedger(M, t)
  BY <1>1 DEF IsLedger
<1>3. QED
  BY <1>2 DEF M

\* Subtraction on usize stays a natural.
LEMMA SaturatingSubType == \A a, b \in Nat : SaturatingSub(a, b) \in Nat
  BY DEF SaturatingSub

\* A map with one entry more.
LEMMA PutDomain == \A f, p, v : DOMAIN Put(f, p, v) = DOMAIN f \cup {p}
  BY DEF Put

\* Adding an entry of the right type keeps a map's type.
LEMMA PutType ==
  \A T, f, p, v : IsPartial(f, T) /\ p \in Preps /\ v \in T => IsPartial(Put(f, p, v), T)
  BY DEF Put, IsPartial

\* A map with one entry less.
LEMMA DeleteDomain == \A f, p : DOMAIN Delete(f, p) = DOMAIN f \ {p}
  BY DEF Delete, Restrict

\* Removing an entry keeps a map's type.
LEMMA DeleteType == \A T, f, p : IsPartial(f, T) => IsPartial(Delete(f, p), T)
  BY DEF Delete, Restrict, IsPartial

\* Ledger::reserve preserves the invariant.
LEMMA ReserveInv ==
  ASSUME Inv, NEW p \in Preps, NEW b \in ReserveSizes, Reserve(p, b)
  PROVE  Inv' /\ Steps
<1> DEFINE r == [bytes |-> b, stage |-> "inspecting", size |-> 0, created |-> 0]
<1>1. PICK L \in Prune(ledger, now) :
        IF Admits(L, b)
        THEN /\ ledger' = Count(L, L.reservations + 1, L.reserved + b, L.running)
             /\ reservation' = Put(reservation, p, r)
             /\ used' = used \cup {p}
        ELSE ledger' = L /\ UNCHANGED <<reservation, used>>
  BY DEF Reserve
<1>2. p \in Preps \ used /\ UNCHANGED <<now, lease, starts>>
  BY DEF Reserve
<1>3. IsLedger(L, now) /\ Shrinks(ledger, L) /\ now \in Nat
  BY PruneType DEF Inv, TypeOK
<1>4. CASE ~Admits(L, b)
  <2>1. ledger' = L /\ UNCHANGED <<reservation, used>>
    BY <1>1, <1>4
  <2>2. TypeOK'
    BY <1>2, <1>3, <2>1 DEF Inv, TypeOK
  <2>3. QED
    BY <1>2, <1>3, <2>1, <2>2, ShrinksOwnership, SMTT(20) DEF Inv
<1>5. CASE Admits(L, b)
  <2>1. /\ ledger' = Count(L, L.reservations + 1, L.reserved + b, L.running)
        /\ reservation' = Put(reservation, p, r)
        /\ used' = used \cup {p}
    BY <1>1, <1>5
  <2>2. b \in Nat /\ r \in ReservationType
    BY LedgerConstants DEF ReservationType
  <2>3. IsLedger(ledger', now) /\ ledger'.records = L.records
    <3>1. L.reserved + b \in Nat /\ L.running \in Nat /\ L.reservations + 1 \in Nat
      BY <1>3, <2>2 DEF IsLedger
    <3>2. IsLedger(ledger', now)
      BY <1>3, <2>1, <3>1, CountType, Zenon
    <3>3. ledger'.records = L.records
      BY <1>3, <2>1, CountRecords
    <3>4. QED
      BY <3>2, <3>3
  <2> HIDE DEF r
  <2>4. /\ IsPartial(reservation', ReservationType)
        /\ DOMAIN reservation' = DOMAIN reservation \cup {p}
    <3>1. IsPartial(reservation, ReservationType)
      BY DEF Inv, TypeOK
    <3>2. QED
      BY <2>1, <2>2, <3>1, PutType, PutDomain, ZenonT(30)
  <2>5. TypeOK'
    BY <1>2, <2>1, <2>3, <2>4, SMTT(20) DEF Inv, TypeOK
  <2>6. p \notin DOMAIN ledger.records /\ p \notin DOMAIN lease /\ starts[p] = <<>>
    BY <1>2 DEF Inv, Ownership
  <2>7. Ownership'
    <3>1. /\ \A q \in Preps, i \in Invs : IsRunning(ledger, q, i) <=> IsRunning(ledger', q, i)
          /\ \A q \in DOMAIN ledger'.records :
               /\ q \in DOMAIN ledger.records
               /\ ledger'.records[q].inv = ledger.records[q].inv
               /\ ledger'.records[q].state = "Prepared" <=> ledger.records[q].state = "Prepared"
      BY <1>3, <2>3, ShrinksFrame, SMTT(20)
    <3>2. RunningIffExecuting'
      BY <1>2, <3>1 DEF Inv, Ownership, RunningIffExecuting
    <3>3. AtMostOnce'
      BY <1>2 DEF Inv, Ownership, AtMostOnce
    <3>4. QED
      BY <1>2, <2>1, <2>4, <2>6, <3>1, <3>2, <3>3, ZenonT(30) DEF Inv, Ownership
  <2>8. Steps
    <3>1. \A q \in DOMAIN reservation' : q \notin DOMAIN ledger.records
      BY <2>4, <2>6 DEF Inv, Ownership
    <3>2. QED
      BY <1>3, <2>3, <3>1, ShrinksSteps, SMTT(20)
  <2>9. QED
    BY <2>5, <2>7, <2>8 DEF Inv
<1>6. QED
  BY <1>4, <1>5

\* The weight of a record is a natural.
LEMMA StoredBytesType ==
  ASSUME NEW r \in RecordType
  PROVE  StoredBytes(r) \in Nat
<1> DEFINE ids == IF r.inv = NoInv THEN 0 ELSE 2 * IdBytes
           held == IF r.operation THEN r.size + LeaseOverhead ELSE 0
           events == Len(r.progress) * EventBytes
           room == r.slots * SlotBytes
<1>1. /\ r.outcome \in Nat /\ r.size \in Nat /\ r.slots \in Nat /\ Len(r.progress) \in Nat
  BY DEF RecordType
<1>2. ids \in Nat /\ held \in Nat /\ events \in Nat /\ room \in Nat
  BY <1>1, LedgerWeights
<1>3. StoredBytes(r) = RecordBytes + ids + r.outcome + held + events + room
  BY DEF StoredBytes
<1> HIDE DEF ids, held, events, room
<1>4. QED
  BY <1>1, <1>2, <1>3, LedgerWeights, SMTT(20)

\* prepare_reserved builds a record that is Prepared and bound to no invocation.
LEMMA NewRecordType ==
  ASSUME now \in Nat, NEW size \in Nat
  PROVE  /\ NewRecord(size) \in RecordType
         /\ NewRecord(size).inv = NoInv /\ NewRecord(size).state = "Prepared"
  BY LedgerConstants DEF NewRecord, RecordType

\* prepare_reserved's resize preserves the invariant.
LEMMA ResizeInv ==
  ASSUME Inv, NEW p \in Preps, NEW size \in OpSizes, Resize(p, size)
  PROVE  Inv' /\ Steps
<1> DEFINE previous == reservation[p].bytes
           bytes == StoredBytes(NewRecord(size)) + GrowthAllowance
           s == [bytes |-> bytes, stage |-> "staged", size |-> size, created |-> now]
           d == [bytes |-> previous, stage |-> "dropping", size |-> 0, created |-> 0]
<1>1. PICK L \in Prune(ledger, now) :
        \/ /\ ledger' = Count(L, L.reservations, SaturatingSub(L.reserved, previous) + bytes,
                              L.running)
           /\ reservation' = Put(reservation, p, s)
        \/ ledger' = L /\ reservation' = Put(reservation, p, d)
  BY DEF Resize
<1>2. p \in DOMAIN reservation /\ UNCHANGED <<now, lease, used, starts>>
  BY DEF Resize
<1>3. IsLedger(L, now) /\ Shrinks(ledger, L) /\ now \in Nat
  BY PruneType DEF Inv, TypeOK
<1>4. previous \in Nat /\ IsPartial(reservation, ReservationType)
  BY <1>2 DEF Inv, TypeOK, IsPartial, ReservationType
<1>5. bytes \in Nat /\ size \in Nat
  BY <1>3, NewRecordType, StoredBytesType, LedgerConstants, LedgerWeights, SMTT(20)
<1> HIDE DEF bytes, previous
<1>6. s \in ReservationType /\ d \in ReservationType
  BY <1>3, <1>4, <1>5 DEF ReservationType
<1> HIDE DEF s, d
<1>7. IsPartial(reservation', ReservationType) /\ DOMAIN reservation' = DOMAIN reservation
  <2>1. reservation' = Put(reservation, p, s) \/ reservation' = Put(reservation, p, d)
    BY <1>1
  <2>2. IsPartial(reservation', ReservationType)
    BY <1>4, <1>6, <2>1, PutType, SMTT(20)
  <2>3. DOMAIN reservation' = DOMAIN reservation \cup {p}
    BY <2>1, PutDomain, ZenonT(30)
  <2>4. QED
    BY <1>2, <2>2, <2>3
<1>8. IsLedger(ledger', now) /\ ledger'.records = L.records
  <2>1. CASE ledger' = L
    BY <1>3, <2>1, SMTT(20)
  <2>2. CASE ledger' = Count(L, L.reservations, SaturatingSub(L.reserved, previous) + bytes,
                             L.running)
    <3> DEFINE n == SaturatingSub(L.reserved, previous) + bytes
    <3>1. L.reservations \in Nat /\ L.running \in Nat /\ n \in Nat
      <4>1. L.reservations \in Nat /\ L.running \in Nat /\ L.reserved \in Nat
        BY <1>3 DEF IsLedger
      <4>2. SaturatingSub(L.reserved, previous) \in Nat
        BY <1>4, <4>1, SaturatingSubType, ZenonT(30)
      <4>3. QED
        BY <1>5, <4>1, <4>2, SMTT(20)
    <3> HIDE DEF n
    <3>2. ledger' = Count(L, L.reservations, n, L.running)
      BY <2>2 DEF n
    <3>3. IsLedger(ledger', now)
      BY <1>3, <3>1, <3>2, CountType, Zenon
    <3>4. ledger'.records = L.records
      BY <1>3, <3>2, CountRecords, SMTT(20)
    <3>5. QED
      BY <3>3, <3>4
  <2>3. QED
    BY <1>1, <2>1, <2>2
<1>9. TypeOK'
  BY <1>2, <1>7, <1>8, SMTT(20) DEF Inv, TypeOK
<1>10. Ownership' /\ Steps
  BY <1>2, <1>3, <1>7, <1>8, ShrinksOwnership, SMTT(20)
<1>11. QED
  BY <1>9, <1>10, SMTT(20) DEF Inv

\* rollback_reservation keeps the records.
LEMMA RollbackType ==
  ASSUME NEW t, NEW L, IsLedger(L, t), NEW n \in Nat
  PROVE  /\ IsLedger(RollbackReservation(L, n), t)
         /\ RollbackReservation(L, n).records = L.records
<1> DEFINE a == SaturatingSub(L.reservations, 1)
           b == SaturatingSub(L.reserved, n)
<1>1. a \in Nat /\ b \in Nat /\ L.running \in Nat
  BY SaturatingSubType DEF IsLedger
<1>2. RollbackReservation(L, n) = Count(L, a, b, L.running)
  BY DEF RollbackReservation
<1> HIDE DEF a, b
<1>3. IsLedger(Count(L, a, b, L.running), t)
  BY <1>1, CountType, Zenon
<1>4. Count(L, a, b, L.running).records = L.records
  BY CountRecords
<1>5. QED
  BY <1>2, <1>3, <1>4

\* The drop of a reservation preserves the invariant.
LEMMA DropReservationInv ==
  ASSUME Inv, NEW p \in Preps, DropReservation(p)
  PROVE  Inv' /\ Steps
<1> DEFINE n == reservation[p].bytes
<1>1. /\ p \in DOMAIN reservation
      /\ ledger' = RollbackReservation(ledger, n)
      /\ reservation' = Delete(reservation, p)
      /\ UNCHANGED <<now, lease, used, starts>>
  BY DEF DropReservation
<1>2. n \in Nat /\ IsLedger(ledger, now) /\ IsPartial(reservation, ReservationType)
  BY <1>1 DEF Inv, TypeOK, IsPartial, ReservationType
<1> HIDE DEF n
<1>3. IsLedger(ledger', now) /\ ledger'.records = ledger.records
  <2>1. /\ IsLedger(RollbackReservation(ledger, n), now)
        /\ RollbackReservation(ledger, n).records = ledger.records
    BY <1>2, RollbackType
  <2>2. QED
    BY <1>1, <2>1
<1>4. IsPartial(reservation', ReservationType) /\ DOMAIN reservation' \subseteq DOMAIN reservation
  BY <1>1, <1>2, DeleteType, DeleteDomain, ZenonT(30)
<1>5. Shrinks(ledger, ledger)
  BY DEF Shrinks
<1>6. TypeOK'
  BY <1>1, <1>3, <1>4, SMTT(20) DEF Inv, TypeOK
<1>7. Ownership' /\ Steps
  BY <1>1, <1>3, <1>4, <1>5, ShrinksOwnership, SMTT(20)
<1>8. QED
  BY <1>6, <1>7 DEF Inv

\* status and cancel preserve the invariant.
LEMMA StatusInv ==
  ASSUME Inv, Status
  PROVE  Inv' /\ Steps
<1>1. ledger' \in Prune(ledger, now) /\ UNCHANGED <<now, reservation, lease, used, starts>>
  BY DEF Status
<1>2. IsLedger(ledger', now) /\ Shrinks(ledger, ledger')
  BY <1>1, PruneType DEF Inv, TypeOK
<1>3. TypeOK'
  BY <1>1, <1>2 DEF Inv, TypeOK
<1>4. QED
  BY <1>1, <1>2, <1>3, ShrinksOwnership, SMTT(20) DEF Inv

\* Tombstones of the past stay tombstones of the past.
LEMMA TickInv ==
  ASSUME Inv, Tick
  PROVE  Inv' /\ Steps
<1>1. now' = now + 1 /\ UNCHANGED <<ledger, reservation, lease, used, starts>> /\ now \in Nat
  BY DEF Tick, Inv, TypeOK
<1>2. TombstoneType(now) \subseteq TombstoneType(now + 1)
  BY <1>1 DEF TombstoneType
<1>3. Seq(TombstoneType(now)) \subseteq Seq(TombstoneType(now + 1))
  BY <1>2, SeqMonotonic
<1>4. IsLedger(ledger, now + 1)
  BY <1>1, <1>3 DEF Inv, TypeOK, IsLedger
<1>5. TypeOK'
  BY <1>1, <1>4, SMTT(20) DEF Inv, TypeOK
<1>6. Shrinks(ledger, ledger)
  BY DEF Shrinks
<1>7. QED
  BY <1>1, <1>5, <1>6, ShrinksOwnership, SMTT(20) DEF Inv

\* A sequence of one element.
LEMMA SingletonType == \A S, x : x \in S => <<x>> \in Seq(S)
  OBVIOUS

\* release only does housekeeping, the released record included.
LEMMA ReleaseShrinks ==
  ASSUME Inv, NEW p \in Preps, NEW i \in Invs \cup {NoInv}, Release(p, i)
  PROVE  /\ IsLedger(ledger', now) /\ Shrinks(ledger, ledger')
         /\ UNCHANGED <<now, reservation, lease, used, starts>>
<1>1. PICK L \in Prune(ledger, now) :
        \/ ledger' = L
        \/ /\ p \in DOMAIN L.records /\ L.records[p].state # "Running"
           /\ ledger' = Forget(L, <<p>>, "Forgotten", now)
  BY DEF Release
<1>2. UNCHANGED <<now, reservation, lease, used, starts>>
  BY DEF Release
<1>3. IsLedger(L, now) /\ Shrinks(ledger, L) /\ now \in Nat
  BY PruneType DEF Inv, TypeOK
<1>4. IsLedger(ledger', now) /\ Shrinks(ledger, ledger')
  <2>1. CASE ledger' = L
    BY <1>3, <2>1, SMTT(20)
  <2>2. CASE /\ p \in DOMAIN L.records /\ L.records[p].state # "Running"
             /\ ledger' = Forget(L, <<p>>, "Forgotten", now)
    <3> DEFINE ids == <<p>>
    <3>1. p \in DOMAIN L.records /\ L.records[p].state # "Running"
      BY <2>2
    <3>2. Len(ids) = 1 /\ ids[1] = p
      OBVIOUS
    <3>3. ids \in Seq(DOMAIN L.records)
      BY <3>1, SingletonType, ZenonT(30)
    <3> HIDE DEF ids
    <3>4. \A j \in 1..Len(ids) : L.records[ids[j]].state # "Running"
      BY <3>1, <3>2, SMTT(20)
    <3>5. /\ IsLedger(Forget(L, ids, "Forgotten", now), now)
          /\ Shrinks(L, Forget(L, ids, "Forgotten", now))
      BY <1>3, <3>3, <3>4, ForgetType, SMTT(20)
    <3>6. QED
      BY <1>3, <2>2, <3>5, ShrinksTransitive, SMTT(20) DEF ids
  <2>3. QED
    BY <1>1, <2>1, <2>2, SMTT(20)
<1>5. QED
  BY <1>2, <1>4

\* release preserves the invariant.
LEMMA ReleaseInv ==
  ASSUME Inv, NEW p \in Preps, NEW i \in Invs \cup {NoInv}, Release(p, i)
  PROVE  Inv' /\ Steps
<1>1. /\ IsLedger(ledger', now) /\ Shrinks(ledger, ledger')
      /\ UNCHANGED <<now, reservation, lease, used, starts>>
  BY ReleaseShrinks
<1>2. TypeOK'
  BY <1>1 DEF Inv, TypeOK
<1>3. QED
  BY <1>1, <1>2, ShrinksOwnership, SMTT(20) DEF Inv

\* Appending an event to a record's queue.
LEMMA CapturedType ==
  ASSUME now \in Nat, NEW L, IsLedger(L, now), NEW p \in DOMAIN L.records, NEW seq \in Nat
  PROVE  IsLedger(Captured(L, p, seq), now) /\ Shrinks(L, Captured(L, p, seq))
<1> DEFINE r == L.records[p]
           queue == Append(r.progress, seq)
           over == SaturatingSub(Len(queue), MaxProgressEvents)
           kept == SubSeq(queue, over + 1, Len(queue))
           slots == Max({r.slots, Len(queue)})
           lost == r.gap \/ seq # r.next \/ over > 0
           e == [r EXCEPT !.progress = kept, !.slots = slots, !.next = seq + 1, !.gap = lost]
<1>1. r \in RecordType
  BY DEF IsLedger, IsPartial
<1>2. queue \in Seq(Nat) /\ Len(queue) \in Nat
  BY <1>1 DEF RecordType
<1>3. over \in Nat
  BY <1>2, SaturatingSubType, LedgerConstants, ZenonT(30)
<1>4. kept \in Seq(Nat)
  <2> HIDE DEF queue, over
  <2>1. QED
    BY <1>2, <1>3
<1>5. slots \in Nat
  <2> DEFINE n == Len(queue)
             T == {r.slots, n}
  <2>1. r.slots \in Nat /\ n \in Nat
    BY <1>1, <1>2 DEF RecordType
  <2> HIDE DEF n
  <2>2. \A x \in T : x <= r.slots + n
    BY <2>1
  <2>3. T \subseteq Nat /\ T # {} /\ r.slots + n \in Nat
    BY <2>1
  <2> HIDE DEF T
  <2>4. Max(T) \in T
    BY <2>2, <2>3, GreatestNat, ZenonT(30)
  <2>5. QED
    BY <2>3, <2>4 DEF T, n
<1>6. lost \in BOOLEAN /\ seq + 1 \in Nat
  BY <1>1 DEF RecordType
<1> HIDE DEF kept, slots, lost
<1>7. e \in RecordType
  BY <1>1, <1>4, <1>5, <1>6, Zenon DEF RecordType
<1>8. e.operation = r.operation /\ e.inv = r.inv /\ e.size = r.size /\ e.state = r.state
  BY <1>1 DEF RecordType
<1>9. Captured(L, p, seq) = Update(L, p, e)
  BY DEF Captured, kept, slots, lost
<1> HIDE DEF e
<1> DEFINE M == Update(L, p, e)
<1>10. /\ IsLedger(M, now) /\ DOMAIN M.records = DOMAIN L.records /\ M.records[p] = e
       /\ \A q \in DOMAIN L.records : q # p => M.records[q] = L.records[q]
       /\ M.reserved = L.reserved /\ M.running = L.running
       /\ M.reservations = L.reservations
  BY <1>7, UpdateType
<1> HIDE DEF M
<1>11. Shrinks(L, M)
  BY <1>8, <1>10 DEF Shrinks
<1>12. QED
  BY <1>9, <1>10, <1>11 DEF M

\* capture_progress touches nothing but progress.
LEMMA CaptureShrinks ==
  ASSUME Inv, NEW p \in Preps, NEW seq \in 1..MaxSequence, CaptureProgress(p, seq)
  PROVE  /\ IsLedger(ledger', now) /\ Shrinks(ledger, ledger')
         /\ UNCHANGED <<now, reservation, lease, used, starts>>
<1>1. /\ p \in DOMAIN ledger.records
      /\ ledger' \in EvictProgress(Captured(ledger, p, seq))
      /\ UNCHANGED <<now, reservation, lease, used, starts>>
  BY DEF CaptureProgress, IsRunning
<1>2. now \in Nat /\ IsLedger(ledger, now)
  BY DEF Inv, TypeOK
<1> DEFINE C == Captured(ledger, p, seq)
<1>3. IsLedger(C, now) /\ Shrinks(ledger, C)
  BY <1>1, <1>2, CapturedType
<1> HIDE DEF C
<1>4. IsLedger(ledger', now) /\ Shrinks(C, ledger')
  BY <1>1, <1>2, <1>3, EvictProgressType, SMTT(20) DEF C
<1>5. Shrinks(ledger, ledger')
  BY <1>3, <1>4, ShrinksTransitive, SMTT(20)
<1>6. QED
  BY <1>1, <1>4, <1>5

\* capture_progress preserves the invariant.
LEMMA CaptureProgressInv ==
  ASSUME Inv, NEW p \in Preps, NEW seq \in 1..MaxSequence, CaptureProgress(p, seq)
  PROVE  Inv' /\ Steps
<1>1. /\ IsLedger(ledger', now) /\ Shrinks(ledger, ledger')
      /\ UNCHANGED <<now, reservation, lease, used, starts>>
  BY CaptureShrinks
<1>2. TypeOK'
  BY <1>1 DEF Inv, TypeOK
<1>3. QED
  BY <1>1, <1>2, ShrinksOwnership, SMTT(20) DEF Inv

\* insert_reserved ends the reservation and adds the record, or not.
LEMMA InsertReservedType ==
  ASSUME NEW t, NEW L, IsLedger(L, t), NEW p \in Preps, NEW r \in RecordType, NEW n \in Nat,
         NEW N, N = InsertReserved(L, p, r, n)
  PROVE  /\ IsLedger(N, t)
         /\ N.records = L.records \/ N.records = Put(L.records, p, r)
<1> DEFINE R == RollbackReservation(L, n)
           I == [R EXCEPT !.records = Put(R.records, p, r)]
<1>1. N = R \/ N = I
  BY DEF InsertReserved
<1>2. IsLedger(R, t) /\ R.records = L.records
  BY RollbackType
<1> HIDE DEF R
<1>3. IsLedger(I, t) /\ I.records = Put(R.records, p, r)
  <2>1. I \in [records : {I.records}, tombstones : Seq(TombstoneType(t)), evicted : 0..t,
               capacity : Nat, reserved : Nat, running : Nat, reservations : Nat]
    BY <1>2, SMTT(20) DEF IsLedger
  <2>2. I.records = Put(R.records, p, r)
    BY <1>2 DEF IsLedger
  <2> HIDE DEF I
  <2>3. IsPartial(I.records, RecordType)
    <3>1. IsPartial(R.records, RecordType)
      BY <1>2 DEF IsLedger
    <3>2. QED
      BY <2>2, <3>1, PutType
  <2>4. QED
    BY <2>1, <2>2, <2>3, SMTT(20) DEF IsLedger
<1> HIDE DEF I
<1>4. QED
  BY <1>1, <1>2, <1>3, SMTT(20)

\* commit adds a prepared record to what prune leaves, or refuses it.
LEMMA CommitRecords ==
  ASSUME Inv, NEW p \in Preps, Commit(p)
  PROVE  /\ IsLedger(ledger', now)
         /\ \E L, r :
              /\ Shrinks(ledger, L)
              /\ r.inv = NoInv /\ r.state = "Prepared"
              /\ ledger'.records = L.records \/ ledger'.records = Put(L.records, p, r)
<1> DEFINE s == reservation[p]
           r == [NewRecord(s.size) EXCEPT !.created = s.created,
                                          !.expires = s.created + PreparationTTL]
           n == s.bytes
<1>1. PICK L \in Prune(ledger, s.created) : ledger' = InsertReserved(L, p, r, n)
  BY DEF Commit
<1>2. /\ p \in DOMAIN reservation
      /\ reservation' = Delete(reservation, p)
      /\ UNCHANGED <<now, lease, used, starts>>
  BY DEF Commit
<1>3. s.created \in Nat /\ s.size \in Nat /\ n \in Nat /\ IsPartial(reservation, ReservationType)
  BY <1>2 DEF Inv, TypeOK, IsPartial, ReservationType
<1>4. IsLedger(L, now) /\ Shrinks(ledger, L) /\ now \in Nat
  BY <1>3, PruneType DEF Inv, TypeOK
<1>5. r \in RecordType /\ r.inv = NoInv /\ r.state = "Prepared"
  <2> DEFINE c == s.created
             x == c + PreparationTTL
             m == NewRecord(s.size)
  <2>1. m \in RecordType /\ m.inv = NoInv /\ m.state = "Prepared" /\ c \in Nat /\ x \in Nat
    BY <1>3, <1>4, NewRecordType, LedgerConstants, SMTT(20)
  <2> HIDE DEF c, x, m
  <2>2. r = [m EXCEPT !.created = c, !.expires = x]
    BY DEF c, x, m
  <2> HIDE DEF r
  <2>3. r \in RecordType
    BY <2>1, <2>2, Zenon DEF RecordType
  <2>4. r.inv = m.inv /\ r.state = m.state
    BY <2>1, <2>2, SMTT(20) DEF RecordType
  <2>5. QED
    BY <2>1, <2>3, <2>4, SMTT(20)
<1> HIDE DEF r, n, s
<1>6. /\ IsLedger(ledger', now)
      /\ ledger'.records = L.records \/ ledger'.records = Put(L.records, p, r)
  BY <1>1, <1>3, <1>4, <1>5, InsertReservedType, SMTT(20)
<1>7. QED
  BY <1>4, <1>5, <1>6

\* commit preserves the invariant.
LEMMA CommitInv ==
  ASSUME Inv, NEW p \in Preps, Commit(p)
  PROVE  Inv' /\ Steps
<1>1. IsLedger(ledger', now)
  BY CommitRecords
<1>2. /\ p \in DOMAIN reservation
      /\ reservation' = Delete(reservation, p)
      /\ UNCHANGED <<now, lease, used, starts>>
  BY DEF Commit
<1>3. IsPartial(reservation, ReservationType)
  BY DEF Inv, TypeOK
<1>4. PICK L, r :
        /\ Shrinks(ledger, L)
        /\ r.inv = NoInv /\ r.state = "Prepared"
        /\ ledger'.records = L.records \/ ledger'.records = Put(L.records, p, r)
  BY CommitRecords
<1>5. IsPartial(reservation', ReservationType) /\ DOMAIN reservation' = DOMAIN reservation \ {p}
  BY <1>2, <1>3, DeleteType, DeleteDomain
<1>6. TypeOK'
  BY <1>1, <1>2, <1>5, ZenonT(30) DEF Inv, TypeOK
<1>7. CASE ledger'.records = L.records
  BY <1>2, <1>4, <1>5, <1>6, <1>7, ShrinksOwnership, SMTT(20) DEF Inv
<1>8. CASE ledger'.records = Put(L.records, p, r)
  <2>1. /\ DOMAIN ledger'.records = DOMAIN L.records \cup {p}
        /\ ledger'.records[p] = r
        /\ \A q \in DOMAIN L.records : q # p => ledger'.records[q] = L.records[q]
    BY <1>8, SMTT(20) DEF Put
  <2>2. /\ p \notin DOMAIN ledger.records /\ p \notin DOMAIN L.records
        /\ p \notin DOMAIN lease /\ p \in used /\ starts[p] = <<>>
    BY <1>2, <1>4, SMTT(20) DEF Inv, Ownership, Shrinks
  <2>3. \A q \in Preps, i \in Invs : IsRunning(ledger, q, i) <=> IsRunning(ledger', q, i)
    BY <1>4, <2>1, <2>2, SMTT(20) DEF Shrinks, IsRunning, Terminal
  <2>4. \A q \in DOMAIN ledger'.records :
          q # p => /\ q \in DOMAIN ledger.records
                   /\ ledger'.records[q].inv = ledger.records[q].inv
                   /\ ledger'.records[q].state = "Prepared"
                        <=> ledger.records[q].state = "Prepared"
    BY <1>4, <2>1, ZenonT(30) DEF Shrinks, Terminal
  <2>5. RunningIffExecuting' /\ AtMostOnce'
    BY <1>2, <2>3, ZenonT(30) DEF Inv, Ownership, RunningIffExecuting, AtMostOnce
  <2>6. Ownership'
    BY <1>2, <1>4, <1>5, <2>1, <2>2, <2>4, <2>5, SMTT(20) DEF Inv, Ownership
  <2>7. Steps
    <3>1. \A q \in DOMAIN ledger.records : q # p /\ q \notin DOMAIN reservation'
      BY <1>5, <2>2, ZenonT(30) DEF Inv, Ownership
    <3>2. QED
      BY <1>4, <2>1, <3>1, ZenonT(30) DEF Steps, RecordStep, Shrinks, Terminal
  <2>8. QED
    BY <1>6, <2>6, <2>7, SMTT(20) DEF Inv
<1>9. QED
  BY <1>4, <1>7, <1>8

\* begin's change of the ledger: one record becomes Running, bound to i.
LEMMA StartedType ==
  ASSUME now \in Nat, NEW L, IsLedger(L, now), NEW p \in DOMAIN L.records, NEW i \in Invs,
         NEW N, N = Started(L, p, i)
  PROVE  /\ IsLedger(N, now) /\ DOMAIN N.records = DOMAIN L.records
         /\ N.records[p].inv = i /\ N.records[p].state = "Running"
         /\ \A q \in DOMAIN L.records : q # p => N.records[q] = L.records[q]
<1> DEFINE r == L.records[p]
           e == [r EXCEPT !.operation = FALSE, !.inv = i, !.state = "Running"]
           m == L.running + r.size + LeaseOverhead
           C == Count(L, L.reservations, L.reserved, m)
<1>1. r \in RecordType /\ r.size \in Nat
  BY DEF IsLedger, IsPartial, RecordType
<1>2. L.running \in Nat /\ L.reserved \in Nat /\ L.reservations \in Nat
  BY DEF IsLedger
<1>3. m \in Nat
  BY <1>1, <1>2, LedgerWeights, SMTT(20)
<1>4. e \in RecordType
  BY <1>1, Zenon DEF RecordType
<1>5. e.inv = i /\ e.state = "Running"
  BY <1>1, ZenonT(30) DEF RecordType
<1>6. N = Update(C, p, e)
  BY DEF Started
<1> HIDE DEF m, e
<1>7. IsLedger(C, now)
  BY <1>2, <1>3, CountType, Zenon
<1>8. C.records = L.records
  BY CountRecords
<1> HIDE DEF C
<1>9. p \in DOMAIN C.records
  BY <1>8, SMTT(20)
<1>10. /\ IsLedger(N, now) /\ DOMAIN N.records = DOMAIN C.records /\ N.records[p] = e
       /\ \A q \in DOMAIN C.records : q # p => N.records[q] = C.records[q]
  BY <1>4, <1>6, <1>7, <1>9, UpdateType, SMTT(20)
<1>11. QED
  BY <1>5, <1>8, <1>10, SMTT(20)

\* begin preserves the invariant: the one action that starts an execution.
LEMMA BeginInv ==
  ASSUME Inv, NEW p \in Preps, NEW i \in Invs, Begin(p, i)
  PROVE  Inv' /\ Steps
<1>1. PICK L \in Prune(ledger, now) :
        \/ ledger' = L /\ UNCHANGED <<lease, starts>>
        \/ /\ CanStart(L, p)
           /\ ledger' = Started(L, p, i)
           /\ lease' = Put(lease, p, [inv |-> i, armed |-> TRUE,
                                      bytes |-> L.records[p].size + LeaseOverhead])
           /\ starts' = [starts EXCEPT ![p] = Append(@, now)]
  BY ZenonT(30) DEF Begin
<1>2. UNCHANGED <<now, reservation, used>>
  BY DEF Begin
<1>3. IsLedger(L, now) /\ Shrinks(ledger, L) /\ now \in Nat
  BY PruneType DEF Inv, TypeOK
<1>4. CASE ledger' = L /\ UNCHANGED <<lease, starts>>
  <2>1. TypeOK'
    BY <1>2, <1>3, <1>4, SMTT(20) DEF Inv, TypeOK
  <2>2. QED
    BY <1>2, <1>3, <1>4, <2>1, ShrinksOwnership, SMTT(20) DEF Inv
<1>5. CASE /\ CanStart(L, p)
           /\ ledger' = Started(L, p, i)
           /\ lease' = Put(lease, p, [inv |-> i, armed |-> TRUE,
                                      bytes |-> L.records[p].size + LeaseOverhead])
           /\ starts' = [starts EXCEPT ![p] = Append(@, now)]
  <2> DEFINE n == L.records[p].size + LeaseOverhead
             x == [inv |-> i, armed |-> TRUE, bytes |-> n]
  <2>1. p \in DOMAIN L.records /\ L.records[p].inv = NoInv
    BY <1>5, ZenonT(30) DEF CanStart
  <2>2. L.records[p].size \in Nat
    BY <1>3, <2>1 DEF IsLedger, IsPartial, RecordType
  <2>3. n \in Nat
    BY <2>2, LedgerWeights, SMTT(20)
  <2>4. x \in LeaseType
    BY <2>3 DEF LeaseType
  <2>5. lease' = Put(lease, p, x)
    BY <1>5
  <2> HIDE DEF n, x
  <2>6. /\ IsLedger(ledger', now)
         /\ DOMAIN ledger'.records = DOMAIN L.records
         /\ ledger'.records[p].inv = i /\ ledger'.records[p].state = "Running"
         /\ \A q \in DOMAIN L.records : q # p => ledger'.records[q] = L.records[q]
    BY <1>3, <1>5, <2>1, StartedType, SMTT(20)
  <2>7. IsPartial(lease, LeaseType)
    BY DEF Inv, TypeOK
  <2>8. IsPartial(lease', LeaseType)
    BY <2>4, <2>5, <2>7, PutType, SMTT(20)
  <2>9. DOMAIN lease' = DOMAIN lease \cup {p} /\ lease'[p] = x
         /\ \A q \in DOMAIN lease : q # p => lease'[q] = lease[q]
    BY <2>5 DEF Put
  <2>10. x.inv = i /\ x.armed
    BY DEF x
  <2>11. /\ p \in DOMAIN ledger.records
         /\ ledger.records[p].inv = NoInv /\ ledger.records[p].state = "Prepared"
         /\ starts[p] = <<>> /\ p \notin DOMAIN lease
         /\ p \in used /\ p \notin DOMAIN reservation
    BY <1>3, <2>1, SMTT(20) DEF Inv, Ownership, Shrinks
  <2>12. starts' \in [Preps -> Seq(Nat)] /\ Len(starts'[p]) <= 1
         /\ \A q \in Preps : q # p => starts'[q] = starts[q]
    <3>1. starts \in [Preps -> Seq(Nat)]
      BY DEF Inv, TypeOK
    <3>2. starts' = [starts EXCEPT ![p] = Append(starts[p], now)]
      BY <1>5, Zenon
    <3>3. QED
      BY <1>3, <2>11, <3>1, <3>2, SMTT(20)
  <2>13. TypeOK'
    BY <1>2, <2>6, <2>8, <2>12, SMTT(20) DEF Inv, TypeOK
  <2>14. AtMostOnce'
    <3>1. AtMostOnce
      BY DEF Inv, Ownership
    <3>2. ASSUME NEW q \in Preps PROVE Len(starts'[q]) <= 1
      <4>1. CASE q = p
        BY <2>12, <4>1
      <4>2. CASE q # p
        BY <2>12, <3>1, <4>2, SMTT(20) DEF AtMostOnce
      <4>3. QED
        BY <4>1, <4>2
    <3>3. QED
      BY <3>2 DEF AtMostOnce
  <2>15. RunningIffExecuting'
    <3>1. \A q \in Preps, j \in Invs : q # p =>
            (IsRunning(ledger, q, j) <=> IsRunning(ledger', q, j))
      BY <1>3, <2>6, SMTT(20) DEF Shrinks, IsRunning, Terminal
    <3>2. \A j \in Invs : IsRunning(ledger', p, j) <=> j = i
      BY <2>1, <2>6, SMTT(20) DEF IsRunning
    <3>3. \A q \in Preps, j \in Invs : q # p =>
            ((q \in DOMAIN lease /\ lease[q].inv = j /\ lease[q].armed)
               <=> (q \in DOMAIN lease' /\ lease'[q].inv = j /\ lease'[q].armed))
      BY <2>9
    <3>4. \A j \in Invs : (p \in DOMAIN lease' /\ lease'[p].inv = j /\ lease'[p].armed) <=> j = i
      BY <2>9, <2>10
    <3>5. RunningIffExecuting
      BY DEF Inv, Ownership
    <3>6. ASSUME NEW q \in Preps, NEW j \in Invs
          PROVE  IsRunning(ledger', q, j)
                   <=> (q \in DOMAIN lease' /\ lease'[q].inv = j /\ lease'[q].armed)
      <4>1. CASE q = p
        BY <3>2, <3>4, <4>1, SMTT(20)
      <4>2. CASE q # p
        BY <3>1, <3>3, <3>5, <4>2 DEF RunningIffExecuting
      <4>3. QED
        BY <4>1, <4>2, SMTT(20)
    <3>7. QED
      BY <3>6, SMTT(20) DEF RunningIffExecuting
  <2>16. \A q \in DOMAIN ledger'.records :
           q # p => /\ q \in DOMAIN ledger.records
                    /\ ledger'.records[q].inv = ledger.records[q].inv
                    /\ ledger'.records[q].state = "Prepared"
                         <=> ledger.records[q].state = "Prepared"
    BY <1>3, <2>6 DEF Shrinks, Terminal
  <2>17. Ownership'
    <3>1. i # NoInv
      BY LedgerConstants, SMTT(20)
    <3>2. ledger'.records[p].inv # NoInv /\ ledger'.records[p].state # "Prepared"
      BY <2>6, <3>1, SMTT(20)
    <3>3. \A q \in DOMAIN ledger'.records : q \in Preps
      BY <2>13 DEF TypeOK, IsLedger, IsPartial
    <3>4. \A q \in DOMAIN reservation : q \in Preps /\ q # p
      BY <2>11 DEF Inv, TypeOK, IsPartial
    <3>5. QED
      BY <1>2, <2>9, <2>11, <2>12, <2>14, <2>15, <2>16, <3>2, <3>3, <3>4, ZenonT(30) DEF Inv, Ownership
  <2>18. Steps
    <3>1. \A q \in DOMAIN ledger.records : q \notin DOMAIN reservation'
      BY <1>2 DEF Inv, Ownership
    <3>2. p \in DOMAIN ledger'.records
      BY <2>1, <2>6
    <3>3. ASSUME NEW q \in DOMAIN ledger.records, q # p PROVE RecordStep(q)
      <4>1. CASE q \in DOMAIN L.records
        <5>1. q \in DOMAIN ledger'.records /\ ledger'.records[q] = L.records[q]
          BY <2>6, <3>3, <4>1, Zenon
        <5>2. /\ L.records[q].inv = ledger.records[q].inv
              /\ \/ L.records[q].state = ledger.records[q].state
                 \/ /\ ledger.records[q].state \in Terminal
                    /\ L.records[q].state = "Indeterminate"
          BY <1>3, <4>1, Zenon DEF Shrinks
        <5>3. QED
          BY <5>1, <5>2 DEF RecordStep, Terminal
      <4>2. CASE q \notin DOMAIN L.records
        <5>1. q \notin DOMAIN ledger'.records /\ ledger.records[q].state # "Running"
          BY <1>3, <2>6, <4>2, Zenon DEF Shrinks
        <5>2. QED
          BY <3>1, <5>1 DEF RecordStep
      <4>3. QED
        BY <4>1, <4>2
    <3>4. RecordStep(p)
      BY <2>11, <3>2, SMTT(20) DEF RecordStep, Terminal
    <3>5. QED
      BY <3>3, <3>4, SMTT(20) DEF Steps
  <2>19. QED
    BY <2>13, <2>17, <2>18 DEF Inv
<1>6. QED
  BY <1>1, <1>4, <1>5

\* A lease that reports, or ends, settles its record and disturbs no other.
LEMMA SettleInv ==
  ASSUME Inv, NEW p \in DOMAIN lease, NEW state \in Terminal, NEW bytes \in Nat,
         NEW L \in Finished(ledger, p, lease[p].inv, state, bytes),
         ledger'.records = L.records, IsLedger(ledger', now),
         UNCHANGED <<now, reservation, used, starts>>,
         IsPartial(lease', LeaseType), DOMAIN lease' \subseteq DOMAIN lease,
         p \in DOMAIN lease' => ~lease'[p].armed,
         \A q \in DOMAIN lease : q # p => q \in DOMAIN lease' /\ lease'[q] = lease[q]
  PROVE  Inv' /\ Steps
<1> DEFINE i == lease[p].inv
<1>1. Settles(ledger, L, p) /\ ~IsRunning(L, p, i)
  BY FinishedType DEF Inv, TypeOK
<1>2. p \in Preps /\ i \in Invs
  BY SMTT(20) DEF Inv, TypeOK, IsPartial, LeaseType
<1>3. TypeOK'
  BY DEF Inv, TypeOK
<1> HIDE DEF i
<1>4. \A j \in Invs : ~IsRunning(ledger', p, j)
  <2> SUFFICES ASSUME NEW j \in Invs, IsRunning(ledger', p, j) PROVE FALSE
    OBVIOUS
  <2>1. IsRunning(ledger, p, j)
    BY <1>1 DEF Settles, IsRunning, Terminal
  <2>2. j = i
    BY <1>2, <2>1, ZenonT(30) DEF Inv, Ownership, RunningIffExecuting, i
  <2>3. QED
    BY <1>1, <2>2, SMTT(20) DEF IsRunning
<1>5. \A q \in Preps, j \in Invs : q # p =>
        (IsRunning(ledger, q, j) <=> IsRunning(ledger', q, j))
  BY <1>1, SMTT(20) DEF Settles, IsRunning, Terminal
<1>6. RunningIffExecuting'
  <2>1. RunningIffExecuting
    BY SMTT(20) DEF Inv, Ownership
  <2>2. ASSUME NEW q \in Preps, NEW j \in Invs
        PROVE  IsRunning(ledger', q, j)
                 <=> (q \in DOMAIN lease' /\ lease'[q].inv = j /\ lease'[q].armed)
    <3>1. CASE q = p
      BY <1>4, <3>1, SMTT(20)
    <3>2. CASE q # p
      BY <1>5, <2>1, <3>2, SMTT(20) DEF RunningIffExecuting
    <3>3. QED
      BY <3>1, <3>2, SMTT(20)
  <2>3. QED
    BY <2>2, SMTT(20) DEF RunningIffExecuting
<1>7. AtMostOnce'
  BY SMTT(20) DEF Inv, Ownership, AtMostOnce
<1>8. \A q \in DOMAIN ledger'.records :
        /\ q \in DOMAIN ledger.records
        /\ ledger'.records[q].inv = ledger.records[q].inv
        /\ ledger'.records[q].state = "Prepared" <=> ledger.records[q].state = "Prepared"
  BY <1>1 DEF Settles, Terminal
<1>9. Ownership'
  BY <1>6, <1>7, <1>8, ZenonT(30) DEF Inv, Ownership
<1>10. Steps
  <2>1. \A q \in DOMAIN ledger.records : q \notin DOMAIN reservation'
    BY ZenonT(30) DEF Inv, Ownership
  <2>2. QED
    BY <1>1, <2>1, ZenonT(30) DEF Steps, RecordStep, Settles, Terminal
<1>11. QED
  BY <1>3, <1>9, <1>10, SMTT(20) DEF Inv

\* The guard reports an outcome, or that the effect is unknown.
LEMMA ReportInv ==
  ASSUME Inv, NEW p \in DOMAIN lease, NEW state \in Terminal, NEW bytes \in Nat,
         ledger' \in Finished(ledger, p, lease[p].inv, state, bytes),
         lease' = Put(lease, p, [lease[p] EXCEPT !.armed = FALSE]),
         UNCHANGED <<now, reservation, used, starts>>
  PROVE  Inv' /\ Steps
<1> DEFINE x == [lease[p] EXCEPT !.armed = FALSE]
<1>1. IsPartial(lease, LeaseType) /\ p \in Preps /\ lease[p] \in LeaseType
  BY DEF Inv, TypeOK, IsPartial
<1>2. x \in LeaseType /\ ~x.armed
  BY <1>1, ZenonT(30) DEF LeaseType
<1> HIDE DEF x
<1>3. lease' = Put(lease, p, x)
  BY DEF x
<1>4. IsPartial(lease', LeaseType)
  BY <1>1, <1>2, <1>3, PutType, SMTT(20)
<1>5. /\ DOMAIN lease' = DOMAIN lease \cup {p} /\ lease'[p] = x
      /\ \A q \in DOMAIN lease : q # p => lease'[q] = lease[q]
  BY <1>3 DEF Put
<1>6. IsLedger(ledger', now)
  BY FinishedType DEF Inv, TypeOK
<1>7. QED
  BY <1>2, <1>4, <1>5, <1>6, SettleInv, ZenonT(30)

\* RemoteExecutionGuard::finish preserves the invariant.
LEMMA FinishInv ==
  ASSUME Inv, NEW p \in Preps, NEW kind \in OutcomeKinds, NEW effects \in BOOLEAN,
         NEW bytes \in OutcomeSizes, Finish(p, kind, effects, bytes)
  PROVE  Inv' /\ Steps
<1> DEFINE state == OutcomeState(kind, effects)
<1>1. state \in Terminal /\ bytes \in Nat
  BY LedgerConstants DEF OutcomeState, OutcomeKinds, Terminal
<1>2. /\ p \in DOMAIN lease
      /\ ledger' \in Finished(ledger, p, lease[p].inv, state, bytes)
      /\ lease' = Put(lease, p, [lease[p] EXCEPT !.armed = FALSE])
      /\ UNCHANGED <<now, reservation, used, starts>>
  BY DEF Finish
<1> HIDE DEF state
<1>3. QED
  BY <1>1, <1>2, ReportInv, SMTT(20)

\* The guard's indeterminate and its drop preserve the invariant.
LEMMA FinishIndeterminateInv ==
  ASSUME Inv, NEW p \in Preps, FinishIndeterminate(p)
  PROVE  Inv' /\ Steps
<1>1. /\ p \in DOMAIN lease
      /\ ledger' \in Finished(ledger, p, lease[p].inv, "Indeterminate", 0)
      /\ lease' = Put(lease, p, [lease[p] EXCEPT !.armed = FALSE])
      /\ UNCHANGED <<now, reservation, used, starts>>
  BY DEF FinishIndeterminate
<1>2. "Indeterminate" \in Terminal /\ 0 \in Nat
  BY SMTT(20) DEF Terminal
<1>3. QED
  BY <1>1, <1>2, ReportInv, SMTT(20)

\* The lease's drop preserves the invariant.
LEMMA DropLeaseInv ==
  ASSUME Inv, NEW p \in Preps, DropLease(p)
  PROVE  Inv' /\ Steps
<1> DEFINE n == lease[p].bytes
<1>1. PICK L \in Finished(ledger, p, lease[p].inv, "Indeterminate", 0) :
        ledger' = Count(L, L.reservations, L.reserved, SaturatingSub(L.running, n))
  BY DEF DropLease
<1>2. /\ p \in DOMAIN lease /\ lease' = Delete(lease, p)
      /\ UNCHANGED <<now, reservation, used, starts>>
  BY DEF DropLease
<1>3. "Indeterminate" \in Terminal /\ 0 \in Nat
  BY DEF Terminal
<1>4. IsLedger(L, now)
  BY <1>3, FinishedType DEF Inv, TypeOK
<1>5. n \in Nat /\ IsPartial(lease, LeaseType)
  BY <1>2 DEF Inv, TypeOK, IsPartial, LeaseType
<1> DEFINE m == SaturatingSub(L.running, n)
<1>6. L.reservations \in Nat /\ L.reserved \in Nat /\ m \in Nat
  BY <1>4, <1>5, SaturatingSubType, SMTT(20) DEF IsLedger
<1> HIDE DEF m, n
<1>7. ledger' = Count(L, L.reservations, L.reserved, m)
  BY <1>1 DEF m
<1>8. IsLedger(ledger', now)
  BY <1>4, <1>6, <1>7, CountType, Zenon
<1>9. ledger'.records = L.records
  BY <1>4, <1>7, CountRecords, SMTT(20)
<1>10. IsPartial(lease', LeaseType)
  BY <1>2, <1>5, DeleteType, SMTT(20)
<1>11. /\ DOMAIN lease' = DOMAIN lease \ {p}
       /\ \A q \in DOMAIN lease : q # p => lease'[q] = lease[q]
  BY <1>2 DEF Delete, Restrict
<1>12. QED
  BY <1>2, <1>3, <1>8, <1>9, <1>10, <1>11, SettleInv, ZenonT(30)

-----------------------------------------------------------------------------
\* Every step keeps the invariant and takes only the allowed record steps.
LEMMA NextInv == Inv /\ [Next]_vars => Inv' /\ (Steps \/ UNCHANGED vars)
<1> SUFFICES ASSUME Inv, [Next]_vars PROVE Inv' /\ (Steps \/ UNCHANGED vars)
  OBVIOUS
<1>1. CASE UNCHANGED vars
  <2>1. UNCHANGED <<now, ledger, reservation, lease, used, starts>>
    BY <1>1 DEF vars
  <2>2. TypeOK'
    BY <2>1 DEF Inv, TypeOK
  <2>3. Shrinks(ledger, ledger)
    BY DEF Shrinks
  <2>4. QED
    BY <1>1, <2>1, <2>2, <2>3, ShrinksOwnership, SMTT(20) DEF Inv
<1>2. CASE Next
  <2>1. ASSUME NEW p \in Preps, NEW b \in ReserveSizes, Reserve(p, b) PROVE Inv' /\ Steps
    BY <2>1, ReserveInv
  <2>2. ASSUME NEW p \in Preps, NEW size \in OpSizes, Resize(p, size) PROVE Inv' /\ Steps
    BY <2>2, ResizeInv
  <2>3. ASSUME NEW p \in Preps, Commit(p) PROVE Inv' /\ Steps
    BY <2>3, CommitInv
  <2>4. ASSUME NEW p \in Preps, DropReservation(p) PROVE Inv' /\ Steps
    BY <2>4, DropReservationInv, SMTT(20)
  <2>5. ASSUME NEW p \in Preps, NEW i \in Invs, Begin(p, i) PROVE Inv' /\ Steps
    BY <2>5, BeginInv
  <2>6. ASSUME NEW p \in Preps, NEW kind \in OutcomeKinds, NEW effects \in BOOLEAN,
               NEW bytes \in OutcomeSizes, Finish(p, kind, effects, bytes)
        PROVE  Inv' /\ Steps
    BY <2>6, FinishInv, SMTT(20)
  <2>7. ASSUME NEW p \in Preps, FinishIndeterminate(p) PROVE Inv' /\ Steps
    BY <2>7, FinishIndeterminateInv
  <2>8. ASSUME NEW p \in Preps, DropLease(p) PROVE Inv' /\ Steps
    BY <2>8, DropLeaseInv
  <2>9. ASSUME NEW p \in Preps, NEW i \in Invs \cup {NoInv}, Release(p, i) PROVE Inv' /\ Steps
    BY <2>9, ReleaseInv
  <2>10. ASSUME NEW p \in Preps, NEW seq \in 1..MaxSequence, CaptureProgress(p, seq)
         PROVE  Inv' /\ Steps
    BY <2>10, CaptureProgressInv
  <2>11. CASE Status
    BY <2>11, StatusInv
  <2>12. CASE Tick
    BY <2>12, TickInv
  <2>13. QED
    BY <1>2, <2>1, <2>2, <2>3, <2>4, <2>5, <2>6, <2>7, <2>8, <2>9, <2>10, <2>11, <2>12, SMTT(20)
       DEF Next
<1>3. QED
  BY <1>1, <1>2, SMTT(20)

\* The inductive invariant holds in every state.
LEMMA SpecInv == Spec => []Inv
<1>1. QED
  BY InitInv, NextInv, PTL DEF Spec

\* The ledger, the reservations and the leases keep their types.
THEOREM LedgerTypes == Spec => []TypeOK
<1>1. Inv => TypeOK
  BY SMTT(20) DEF Inv
<1>2. QED
  BY <1>1, SpecInv, PTL

\* begin answers Start at most once for a preparation, for any number of
\* callers, retries, expiries, releases and evictions.
THEOREM LedgerAtMostOnce == Spec => []AtMostOnce
<1>1. Inv => AtMostOnce
  BY SMTT(20) DEF Inv, Ownership
<1>2. QED
  BY <1>1, SpecInv, PTL

\* A record is Running exactly while an unreported execution holds its lease.
THEOREM LedgerRunningIffExecuting == Spec => []RunningIffExecuting
<1>1. Inv => RunningIffExecuting
  BY DEF Inv, Ownership
<1>2. QED
  BY <1>1, SpecInv, PTL

\* No step unbinds an invocation, contradicts a recorded outcome or forgets a
\* running operation.
THEOREM LedgerOutcomesOnlyDegrade == Spec => OutcomesOnlyDegrade
<1>1. Inv /\ [Next]_vars => [Steps]_vars
  BY NextInv
<1>2. Spec => [][Steps]_vars
  BY <1>1, SpecInv, PTL DEF Spec
<1>3. QED
  BY <1>2 DEF OutcomesOnlyDegrade, Steps
=============================================================================
