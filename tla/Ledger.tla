------------------------------- MODULE Ledger -------------------------------
(***************************************************************************)
(* The operation ledger of the remote host (src/remote_host.rs): the       *)
(* reservations of preparations in progress, the retained preparations,    *)
(* their single execution, the terminal outcomes kept for replay, and the  *)
(* tombstones of what was forgotten, all within one byte ceiling.          *)
(*                                                                         *)
(* Every operation of the code holds the ledger's mutex for its whole      *)
(* duration, so it is one action here; what happens in two acquisitions of *)
(* the mutex (resize then commit, finish then the lease's drop) is two.    *)
(* `ledger` is the mutex-protected structure; `reservation` and `lease`    *)
(* are the RAII values other tasks hold, whose Drop changes the counters.  *)
(***************************************************************************)
EXTENDS Integers, FiniteSets, Sequences, FiniteSetsExt, SequencesExt, Functions

CONSTANTS
  Preps,               \* preparation identifiers (fresh UUIDs)
  Invs,                \* invocation identifiers chosen by callers
  NoInv,               \* Option::None of an invocation identifier
  MaxPreparations,     \* MAX_PREPARATIONS
  MaxOperations,       \* MAX_OPERATIONS
  MaxTombstones,       \* MAX_TOMBSTONES
  MaxLedgerBytes,      \* MAX_LEDGER_BYTES
  MaxProgressEvents,   \* MAX_PROGRESS_EVENTS
  PreparationTTL, RetentionTTL,
  ReserveSizes,        \* what preparation_reservation_bytes can ask for
  OpSizes,             \* retained_bytes of a prepared operation
  OutcomeSizes,        \* retained_bytes of a StructuredOutcome
  RecordBytes, IdBytes, EventBytes, SlotBytes, TombstoneBytes,
  TableSizes,          \* the capacities of the table of records
  DequeSizes,          \* the capacities a deque grows through, doubling
  TableSlotBytes, TombstoneSlotBytes,
  LeaseOverhead, ReservationOverhead, GrowthAllowance,
  MaxTime, MaxSequence \* bounds of the model: the clock, progress sequences

ASSUME LedgerConstants ==
  /\ NoInv \notin Invs
  /\ IsFiniteSet(Preps)
  /\ MaxPreparations \in Nat /\ MaxOperations \in Nat /\ MaxTombstones \in Nat \ {0}
  /\ MaxLedgerBytes \in Nat /\ MaxProgressEvents \in Nat
  /\ PreparationTTL \in Nat /\ RetentionTTL \in Nat
  /\ ReserveSizes \subseteq Nat /\ OpSizes \subseteq Nat /\ OutcomeSizes \subseteq Nat
  /\ DequeSizes \subseteq Nat /\ \E c \in DequeSizes : c >= MaxTombstones
  /\ TableSizes \subseteq Nat /\ \E c \in TableSizes : c >= MaxOperations

ASSUME LedgerWeights ==
  /\ RecordBytes \in Nat /\ IdBytes \in Nat /\ EventBytes \in Nat /\ SlotBytes \in Nat
  /\ TombstoneBytes \in Nat /\ LeaseOverhead \in Nat /\ ReservationOverhead \in Nat
  /\ GrowthAllowance \in Nat /\ TableSlotBytes \in Nat /\ TombstoneSlotBytes \in Nat

VARIABLES
  now,          \* the clock (Instant::now, unix_ms)
  ledger,       \* the fields of struct Ledger
  reservation,  \* live PreparationReservations
  lease,        \* live ExecutionLeases, with the guard that holds them
  used,         \* identifiers already drawn
  starts        \* history: the instants at which begin answered Start

vars == <<now, ledger, reservation, lease, used, starts>>

Terminal == {"Completed", "Failed", "Cancelled", "Indeterminate"}
OutcomeKinds == {"Completed", "Failed", "Cancelled"}

-----------------------------------------------------------------------------
\* Saturating subtraction on usize.
SaturatingSub(a, b) == IF a >= b THEN a - b ELSE 0

\* How many times a loop runs that pops at most n elements and stops at the
\* first count in `done`.
LoopCount(n, done) == Min((done \cap 0..n) \cup {n})

\* Record::stored_bytes, with the key of the table: the parts are weights, kept
\* apart because different operations add and remove them.
StoredBytes(r) ==
  RecordBytes
  + (IF r.inv = NoInv THEN 0 ELSE 2 * IdBytes)
  + r.outcome
  + (IF r.operation THEN r.size + LeaseOverhead ELSE 0)
  + Len(r.progress) * EventBytes
  + r.slots * SlotBytes

TombstoneStored(t) == TombstoneBytes + (IF t.inv = NoInv THEN 0 ELSE IdBytes)

\* The least capacity that holds n elements.
Capacity(sizes, n) == Min({c \in sizes : c >= n})

\* refresh_bytes: `bytes` is recomputed after every change, so it is a function
\* of the state. Both containers are charged for their capacity. The table is
\* shrunk to fit whenever a record leaves, so its capacity follows from the
\* number of records; the tombstones' deque never is, so its own is a field.
Bytes(L) ==
  SumFunction([p \in DOMAIN L.records |-> StoredBytes(L.records[p])])
  + SumFunction([i \in DOMAIN L.tombstones |-> TombstoneStored(L.tombstones[i])])
  + Capacity(TableSizes, Cardinality(DOMAIN L.records)) * TableSlotBytes
  + L.capacity * TombstoneSlotBytes

TotalBytes(L) ==
  Bytes(L) + L.reserved + L.running + L.reservations * ReservationOverhead

Fits(L) == TotalBytes(L) <= MaxLedgerBytes

\* records.get_mut(p), with r the record after the change.
Update(L, p, r) == [L EXCEPT !.records[p] = r]

\* The three counters that live reservations and leases account for.
Count(L, reservations, reserved, running) ==
  [L EXCEPT !.reservations = reservations, !.reserved = reserved, !.running = running]

\* A map with one entry more, and one less.
Put(f, p, v) == [q \in DOMAIN f \cup {p} |-> IF q = p THEN v ELSE f[q]]
Delete(f, p) == Restrict(f, DOMAIN f \ {p})

Prepared(L) == {p \in DOMAIN L.records : L.records[p].state = "Prepared"}

-----------------------------------------------------------------------------
\* Mutant: the eviction boundary is not moved.
EvictSilently(L, k) == [L EXCEPT !.tombstones = SubSeq(@, k + 1, Len(@))]

\* Tombstones leave oldest first; note_eviction keeps the newest instant left.
EvictTombstones(L, k) ==
  [L EXCEPT
     !.tombstones = SubSeq(@, k + 1, Len(@)),
     !.evicted = Max({@} \cup {L.tombstones[i].ms : i \in 1..k})]

\* Mutant: the tombstone is stamped with the record's deadline.
TombstoneOfDeadline(p, r, state, t, ms) ==
  [id |-> p, inv |-> r.inv, state |-> state, next |-> r.next,
   gap |-> r.gap \/ r.next # 1, at |-> t, ms |-> r.expires]

TombstoneOf(p, r, state, t, ms) ==
  [id |-> p, inv |-> r.inv, state |-> state, next |-> r.next,
   gap |-> r.gap \/ r.next # 1, at |-> t, ms |-> ms]

\* push_back on the deque of tombstones: a full one is reallocated.
GrowDeque(L) ==
  [L EXCEPT !.capacity = IF Len(L.tombstones) <= @ THEN @
                         ELSE Capacity(DequeSizes, Len(L.tombstones))]

\* forget, for the identifiers of a sequence in turn: each leaves a tombstone,
\* and the oldest tombstones make room for it.
Forget(L, ids, state, t) ==
  LET M == [L EXCEPT
              !.records = Restrict(@, DOMAIN @ \ ToSet(ids)),
              !.tombstones = @ \o [i \in 1..Len(ids) |->
                 TombstoneOf(ids[i], L.records[ids[i]], state, t, now)]]
  IN GrowDeque(EvictTombstones(M, SaturatingSub(Len(M.tombstones), MaxTombstones)))

\* Mutant: a deadline applies to operations that were begun, too.
StaleAnyState(r, t) ==
  \/ t >= r.expires
  \/ r.state \in Terminal /\ SaturatingSub(t, r.terminal) >= RetentionTTL

\* What prune forgets: expired preparations and old outcomes. duration_since
\* saturates at zero.
Stale(r, t) ==
  \/ r.state = "Prepared" /\ t >= r.expires
  \/ r.state \in Terminal /\ SaturatingSub(t, r.terminal) >= RetentionTTL

Dead(L, t) == {p \in DOMAIN L.records : Stale(L.records[p], t)}

PruneInOrder(L, ids, t) ==
  LET A == Forget(L, ids, "Forgotten", t)
      young == {i \in 0..(Len(A.tombstones) - 1) :
                  SaturatingSub(t, A.tombstones[i + 1].at) < RetentionTTL}
      B == EvictTombstones(A, LoopCount(Len(A.tombstones), young))
      enough == {i \in 0..Len(B.tombstones) : Fits(EvictTombstones(B, i))}
  IN EvictTombstones(B, LoopCount(Len(B.tombstones), enough))

\* prune: the table is iterated in an arbitrary order.
Prune(L, t) == {PruneInOrder(L, ids, t) : ids \in SetToSeqs(Dead(L, t))}

-----------------------------------------------------------------------------
\* The orders in which repeated min_by_key can visit a set, equal keys in the
\* arbitrary order of the table.
OrderedBy(S, key) ==
  {ids \in SetToSeqs(S) :
     \A i, j \in 1..Len(ids) : i < j => key[ids[i]] <= key[ids[j]]}

\* Mutant: events are evicted without the gap flag.
CutUnflagged(r, k) == [r EXCEPT !.progress = SubSeq(@, k + 1, Len(@))]

\* The k oldest events of a record's progress queue, removed.
CutRecord(r, k) ==
  [r EXCEPT !.progress = SubSeq(@, k + 1, Len(@)), !.gap = @ \/ k > 0]

CutProgress(L, cut) ==
  [L EXCEPT !.records = [p \in DOMAIN L.records |-> CutRecord(L.records[p], cut[p])]]

Created(L) == [p \in DOMAIN L.records |-> L.records[p].created]
TerminalAt(L) == [p \in DOMAIN L.records |-> L.records[p].terminal]

\* Repeated evict_oldest_progress reaches exactly these cuts: a younger record
\* loses events only when the older ones have none left.
OldestFirstCuts(L) ==
  {cut \in [DOMAIN L.records -> 0..MaxProgressEvents] :
     /\ \A p \in DOMAIN L.records : cut[p] <= Len(L.records[p].progress)
     /\ \E ids \in OrderedBy(DOMAIN L.records, Created(L)) :
          \A i, j \in 1..Len(ids) :
             i < j /\ cut[ids[j]] > 0 => cut[ids[i]] = Len(L.records[ids[i]].progress)}

\* `while total_bytes > MAX && evict_oldest_progress`: the least cut that fits,
\* or everything.
EvictProgress(L) ==
  IF Fits(L) THEN {L} ELSE
  LET cuts == OldestFirstCuts(L)
      all == [p \in DOMAIN L.records |-> Len(L.records[p].progress)]
      stops == {cut \in cuts : cut = all \/ Fits(CutProgress(L, cut))}
  IN {CutProgress(L, cut) : cut \in
        {c \in stops : \A d \in stops : SumFunction(c) <= SumFunction(d)}}

\* The last two measures of enforce_ceiling: the outcome just recorded is given
\* up, then tombstones are dropped (without note_eviction).
GiveUpOutcome(L, p) ==
  IF Fits(L) \/ p \notin DOMAIN L.records THEN L ELSE
  Update(L, p, [L.records[p] EXCEPT !.state = "Indeterminate",
                                    !.outcome = 0,
                                    !.gap = @ \/ L.records[p].progress # <<>>,
                                    !.progress = <<>>])

DropTombstones(L) ==
  LET Without(i) == [L EXCEPT !.tombstones = SubSeq(@, i + 1, Len(@))]
      enough == {i \in 0..Len(L.tombstones) : Fits(Without(i))}
  IN Without(LoopCount(Len(L.tombstones), enough))

ForgetUntilFits(L, ids, t) ==
  LET First(i) == Forget(L, SubSeq(ids, 1, i), "Indeterminate", t)
      enough == {i \in 0..Len(ids) : Fits(First(i))}
  IN First(LoopCount(Len(ids), enough))

\* Mutant: any other record may be given up for the ceiling.
OtherRecords(L, p) == DOMAIN L.records \ {p}

OtherTerminal(L, p) ==
  {q \in DOMAIN L.records : q # p /\ L.records[q].state \in Terminal}

\* enforce_ceiling: old progress first, then other outcomes from the oldest,
\* then this outcome, then tombstones.
EnforceCeiling(L, p, t) ==
  {DropTombstones(GiveUpOutcome(ForgetUntilFits(A, ids, t), p)) :
     A \in EvictProgress(L),
     ids \in OrderedBy(OtherTerminal(L, p), TerminalAt(L))}

-----------------------------------------------------------------------------
\* finish and finish_indeterminate do nothing unless the invocation still runs.
IsRunning(L, p, i) ==
  p \in DOMAIN L.records /\ L.records[p].inv = i /\ L.records[p].state = "Running"

Finished(L, p, i, state, bytes) ==
  IF ~IsRunning(L, p, i) THEN {L} ELSE
  EnforceCeiling(Update(L, p, [L.records[p] EXCEPT !.state = state,
                                                   !.outcome = bytes,
                                                   !.terminal = now]), p, now)

OutcomeState(kind, sideEffectsPossible) ==
  IF sideEffectsPossible THEN "Indeterminate" ELSE kind

\* Record as prepare_reserved builds it.
NewRecord(size) ==
  [operation |-> TRUE, size |-> size, created |-> now,
   expires |-> now + PreparationTTL, inv |-> NoInv, state |-> "Prepared",
   outcome |-> 0, terminal |-> 0, progress |-> <<>>, slots |-> 0,
   next |-> 1, gap |-> FALSE]

Init ==
  /\ now = 1
  /\ ledger = [records |-> <<>>, tombstones |-> <<>>, evicted |-> 0, capacity |-> 0,
               reserved |-> 0, running |-> 0, reservations |-> 0]
  /\ reservation = <<>>
  /\ lease = <<>>
  /\ used = {}
  /\ starts = [p \in Preps |-> <<>>]

-----------------------------------------------------------------------------
\* Mutant: the quotas count only what is already retained.
AdmitsRetained(L, b) ==
  /\ Cardinality(Prepared(L)) < MaxPreparations
  /\ Cardinality(DOMAIN L.records) < MaxOperations
  /\ Bytes(L) + L.reserved + L.running + b
       + (L.reservations + 1) * ReservationOverhead <= MaxLedgerBytes

\* Ledger::reserve. A refusal leaves only what prune did.
Admits(L, b) ==
  /\ Cardinality(Prepared(L)) + L.reservations < MaxPreparations
  /\ Cardinality(DOMAIN L.records) + L.reservations < MaxOperations
  /\ Bytes(L) + L.reserved + L.running + b
       + (L.reservations + 1) * ReservationOverhead <= MaxLedgerBytes

Reserve(p, b) ==
  /\ p \in Preps \ used
  /\ \E L \in Prune(ledger, now) :
       IF Admits(L, b)
       THEN /\ ledger' = Count(L, L.reservations + 1, L.reserved + b, L.running)
            /\ reservation' = Put(reservation, p,
                 [bytes |-> b, stage |-> "inspecting", size |-> 0, created |-> 0])
            /\ used' = used \cup {p}
       ELSE ledger' = L /\ UNCHANGED <<reservation, used>>
  /\ UNCHANGED <<now, lease, starts>>

\* Mutant: the bytes of running operations are left out.
ResizeFitsIdle(L, previous, bytes) ==
  Bytes(L) + SaturatingSub(L.reserved, previous) + bytes
    + L.reservations * ReservationOverhead <= MaxLedgerBytes

\* prepare_reserved up to and including PreparationReservation::resize.
ResizeFits(L, previous, bytes) ==
  Bytes(L) + SaturatingSub(L.reserved, previous) + L.running + bytes
    + L.reservations * ReservationOverhead <= MaxLedgerBytes

Resize(p, size) ==
  /\ p \in DOMAIN reservation
  /\ reservation[p].stage = "inspecting"
  /\ LET previous == reservation[p].bytes
         bytes == StoredBytes(NewRecord(size)) + GrowthAllowance
     IN \E L \in Prune(ledger, now) :
          IF ResizeFits(L, previous, bytes)
          THEN /\ ledger' = Count(L, L.reservations,
                                  SaturatingSub(L.reserved, previous) + bytes, L.running)
               /\ reservation' = Put(reservation, p,
                    [bytes |-> bytes, stage |-> "staged", size |-> size, created |-> now])
          ELSE /\ ledger' = L
               /\ reservation' = Put(reservation, p,
                    [bytes |-> previous, stage |-> "dropping", size |-> 0, created |-> 0])
  /\ UNCHANGED <<now, lease, used, starts>>

\* Mutant: the bytes are not given back.
RollbackCountOnly(L, bytes) ==
  Count(L, SaturatingSub(L.reservations, 1), L.reserved, L.running)

RollbackReservation(L, bytes) ==
  Count(L, SaturatingSub(L.reservations, 1), SaturatingSub(L.reserved, bytes), L.running)

\* PreparationReservation::commit: insert_reserved with the instant taken
\* before the resize. The reservation ends whatever the result.
InsertReserved(L, p, r, bytes) ==
  LET R == RollbackReservation(L, bytes)
      I == [R EXCEPT !.records = Put(@, p, r)]
  IN IF Cardinality(DOMAIN L.records) >= MaxOperations \/ ~Fits(L) THEN R
     ELSE IF Fits(I) THEN I ELSE R

Commit(p) ==
  /\ p \in DOMAIN reservation
  /\ reservation[p].stage = "staged"
  /\ LET s == reservation[p]
         r == [NewRecord(s.size) EXCEPT !.created = s.created,
                                        !.expires = s.created + PreparationTTL]
     IN \E L \in Prune(ledger, s.created) : ledger' = InsertReserved(L, p, r, s.bytes)
  /\ reservation' = Delete(reservation, p)
  /\ UNCHANGED <<now, lease, used, starts>>

\* Drop of an active PreparationReservation: the inspection failed or was
\* cancelled, or the resize was refused.
DropReservation(p) ==
  /\ p \in DOMAIN reservation
  /\ reservation[p].stage \in {"inspecting", "dropping"}
  /\ ledger' = RollbackReservation(ledger, reservation[p].bytes)
  /\ reservation' = Delete(reservation, p)
  /\ UNCHANGED <<now, lease, used, starts>>

-----------------------------------------------------------------------------
\* Mutant: a settled operation may be begun again.
CanRestart(L, p) ==
  /\ p \in DOMAIN L.records
  /\ L.records[p].state # "Running"
  /\ now < L.records[p].expires

\* Ledger::begin. Every answer but Start (unknown, forgotten, expired, bound to
\* another invocation, running, terminal) leaves only what prune did.
CanStart(L, p) ==
  /\ p \in DOMAIN L.records
  /\ L.records[p].inv = NoInv
  /\ now < L.records[p].expires
  /\ L.records[p].operation

Started(L, p, i) ==
  LET r == L.records[p] IN
  Update(Count(L, L.reservations, L.reserved, L.running + r.size + LeaseOverhead), p,
         [r EXCEPT !.operation = FALSE, !.inv = i, !.state = "Running"])

Begin(p, i) ==
  /\ \E L \in Prune(ledger, now) :
       IF CanStart(L, p)
       THEN /\ ledger' = Started(L, p, i)
            /\ lease' = Put(lease, p,
                 [inv |-> i, armed |-> TRUE, bytes |-> L.records[p].size + LeaseOverhead])
            /\ starts' = [starts EXCEPT ![p] = Append(@, now)]
       ELSE ledger' = L /\ UNCHANGED <<lease, starts>>
  /\ UNCHANGED <<now, reservation, used>>

\* RemoteExecutionGuard::finish, with the outcome the execution returned.
Finish(p, kind, sideEffectsPossible, bytes) ==
  /\ p \in DOMAIN lease
  /\ lease[p].armed
  /\ ledger' \in Finished(ledger, p, lease[p].inv,
                          OutcomeState(kind, sideEffectsPossible), bytes)
  /\ lease' = Put(lease, p, [lease[p] EXCEPT !.armed = FALSE])
  /\ UNCHANGED <<now, reservation, used, starts>>

\* RemoteExecutionGuard::indeterminate after a panic, or the drop of an armed
\* guard when the task is torn down.
FinishIndeterminate(p) ==
  /\ p \in DOMAIN lease
  /\ lease[p].armed
  /\ ledger' \in Finished(ledger, p, lease[p].inv, "Indeterminate", 0)
  /\ lease' = Put(lease, p, [lease[p] EXCEPT !.armed = FALSE])
  /\ UNCHANGED <<now, reservation, used, starts>>

\* Drop of ExecutionLease, after the guard's own drop or, when the task unwinds
\* before the guard exists, without it.
DropLease(p) ==
  /\ p \in DOMAIN lease
  /\ \E L \in Finished(ledger, p, lease[p].inv, "Indeterminate", 0) :
       ledger' = Count(L, L.reservations, L.reserved,
                       SaturatingSub(L.running, lease[p].bytes))
  /\ lease' = Delete(lease, p)
  /\ UNCHANGED <<now, reservation, used, starts>>

\* Mutant: a running operation can be released.
ReleaseRunning(p, i) ==
  /\ \E L \in Prune(ledger, now) :
       ledger' = IF p \in DOMAIN L.records /\ i \in {NoInv, L.records[p].inv}
                 THEN Forget(L, <<p>>, "Forgotten", now)
                 ELSE L
  /\ UNCHANGED <<now, reservation, lease, used, starts>>

\* Ledger::release. A running operation, another invocation, or an unknown
\* identifier leave only what prune did.
Release(p, i) ==
  /\ \E L \in Prune(ledger, now) :
       ledger' = IF /\ p \in DOMAIN L.records
                    /\ i \in {NoInv, L.records[p].inv}
                    /\ L.records[p].state # "Running"
                 THEN Forget(L, <<p>>, "Forgotten", now)
                 ELSE L
  /\ UNCHANGED <<now, reservation, lease, used, starts>>

\* Ledger::status and Ledger::cancel: the ledger changes only by prune.
Status ==
  /\ ledger' \in Prune(ledger, now)
  /\ UNCHANGED <<now, reservation, lease, used, starts>>

\* Ledger::capture_progress of one event; the queue keeps its slots. Events
\* weigh the same, so the limit on their number stands for the one on bytes too.
Captured(L, p, seq) ==
  LET r == L.records[p]
      queue == Append(r.progress, seq)
      over == SaturatingSub(Len(queue), MaxProgressEvents)
  IN Update(L, p, [r EXCEPT !.progress = SubSeq(queue, over + 1, Len(queue)),
                            !.slots = Max({@, Len(queue)}),
                            !.next = seq + 1,
                            !.gap = @ \/ seq # r.next \/ over > 0])

CaptureProgress(p, seq) ==
  /\ p \in DOMAIN lease
  /\ IsRunning(ledger, p, lease[p].inv)
  /\ seq >= ledger.records[p].next
  /\ ledger' \in EvictProgress(Captured(ledger, p, seq))
  /\ UNCHANGED <<now, reservation, lease, used, starts>>

Tick ==
  /\ now < MaxTime
  /\ now' = now + 1
  /\ UNCHANGED <<ledger, reservation, lease, used, starts>>

Next ==
  \/ \E p \in Preps :
       \/ \E b \in ReserveSizes : Reserve(p, b)
       \/ \E size \in OpSizes : Resize(p, size)
       \/ Commit(p)
       \/ DropReservation(p)
       \/ \E i \in Invs : Begin(p, i)
       \/ \E kind \in OutcomeKinds, effects \in BOOLEAN, bytes \in OutcomeSizes :
            Finish(p, kind, effects, bytes)
       \/ FinishIndeterminate(p)
       \/ DropLease(p)
       \/ \E i \in Invs \cup {NoInv} : Release(p, i)
       \/ \E seq \in 1..MaxSequence : CaptureProgress(p, seq)
  \/ Status
  \/ Tick

Spec == Init /\ [][Next]_vars
-----------------------------------------------------------------------------
RecordType ==
  [operation : BOOLEAN, size : Nat, created : Nat, expires : Nat,
   inv : Invs \cup {NoInv}, state : Terminal \cup {"Prepared", "Running"},
   outcome : Nat, terminal : Nat, progress : Seq(Nat), slots : Nat,
   next : Nat, gap : BOOLEAN]

TombstoneType(t) ==
  [id : Preps, inv : Invs \cup {NoInv}, state : {"Forgotten", "Indeterminate"},
   next : Nat, gap : BOOLEAN, at : Nat, ms : 0..t]

\* A map from some of the preparations to T.
IsPartial(f, T) == DOMAIN f \subseteq Preps /\ f \in [DOMAIN f -> T]

\* The fields of struct Ledger at time t; no tombstone is from the future.
IsLedger(L, t) ==
  /\ L \in [records : {L.records}, tombstones : Seq(TombstoneType(t)), evicted : 0..t,
            capacity : Nat, reserved : Nat, running : Nat, reservations : Nat]
  /\ IsPartial(L.records, RecordType)

ReservationType ==
  [bytes : Nat, stage : {"inspecting", "staged", "dropping"}, size : Nat, created : Nat]

LeaseType == [inv : Invs, armed : BOOLEAN, bytes : Nat]

\* Types of the ledger's fields and of the values other tasks hold.
TypeOK ==
  /\ now \in Nat
  /\ IsLedger(ledger, now)
  /\ used \subseteq Preps
  /\ IsPartial(reservation, ReservationType)
  /\ IsPartial(lease, LeaseType)
  /\ starts \in [Preps -> Seq(Nat)]

\* A prepared operation is handed to an execution at most once, whatever the
\* retries, racing invocations, releases, expiries and evictions (begin).
AtMostOnce == \A p \in Preps : Len(starts[p]) <= 1

\* A record is Running exactly while an execution that has not reported yet
\* holds its lease: no operation is stuck Running (the guard or the lease's
\* drop will settle it), and none is forgotten by prune, release or the ceiling
\* while it runs, so its outcome cannot be lost.
RunningIffExecuting ==
  \A p \in Preps, i \in Invs :
     IsRunning(ledger, p, i)
       <=> p \in DOMAIN lease /\ lease[p].inv = i /\ lease[p].armed

\* The byte counters are exactly what the live reservations and leases hold:
\* no saturating subtraction ever loses a byte and none is released twice.
CountersMatchHolders ==
  /\ ledger.reservations = Cardinality(DOMAIN reservation)
  /\ ledger.reserved = SumFunction([p \in DOMAIN reservation |-> reservation[p].bytes])
  /\ ledger.running = SumFunction([p \in DOMAIN lease |-> lease[p].bytes])

\* The two count quotas hold for retained records and reservations together,
\* although reserve checks them long before the record is inserted.
WithinQuotas ==
  /\ Cardinality(Prepared(ledger)) + ledger.reservations <= MaxPreparations
  /\ Cardinality(DOMAIN ledger.records) + ledger.reservations <= MaxOperations

\* What the byte ceiling really bounds. begin adds two identifiers, a progress
\* queue keeps its slots, and forget may reallocate the deque of tombstones,
\* which is never shrunk; all three are charged but never refused, so the ledger
\* may pass MAX_LEDGER_BYTES by that much and by no more.
CeilingWithSlack ==
  TotalBytes(ledger) <= MaxLedgerBytes + ledger.capacity * TombstoneSlotBytes +
    SumFunction([p \in DOMAIN ledger.records |->
                   (IF ledger.records[p].inv = NoInv THEN 0 ELSE 2 * IdBytes)
                   + ledger.records[p].slots * SlotBytes])

\* Progress is lost only with notice: without the gap flag the retained events
\* are all the events 1..next-1, in order (capture_progress, evictions).
ProgressGapIsFlagged ==
  \A p \in DOMAIN ledger.records :
     LET r == ledger.records[p] IN
     /\ \A i, j \in 1..Len(r.progress) : i < j => r.progress[i] < r.progress[j]
     /\ ~r.gap => r.progress = [i \in 1..(r.next - 1) |-> i]

\* The inductive invariant behind the two properties above: who holds an
\* identifier. It moves from a reservation to a record with its operation, to a
\* lease once begun, and never back.
Ownership ==
  /\ \A p \in DOMAIN ledger.records :
       /\ p \in used
       /\ p \notin DOMAIN reservation
       /\ ledger.records[p].state = "Prepared" <=> ledger.records[p].inv = NoInv
       /\ ledger.records[p].inv = NoInv => starts[p] = <<>> /\ p \notin DOMAIN lease
  /\ \A p \in DOMAIN lease : p \in used /\ p \notin DOMAIN reservation
  /\ \A p \in DOMAIN reservation : p \in used /\ starts[p] = <<>>
  /\ \A p \in Preps \ used : starts[p] = <<>>
  /\ AtMostOnce
  /\ RunningIffExecuting

\* Steps a record may take: the invocation is bound once, a terminal state may
\* only degrade to Indeterminate (its outcome given up for the ceiling), a
\* running record is never forgotten and nothing returns to Prepared.
RecordStep(p) ==
  LET r == ledger.records[p]
      s == ledger'.records[p]
  IN IF p \in DOMAIN ledger'.records
     THEN /\ r.inv # NoInv => s.inv = r.inv
          /\ r.state \in Terminal => s.state \in {r.state, "Indeterminate"}
          /\ r.state = "Running" => s.state # "Prepared"
     ELSE r.state # "Running" /\ p \notin DOMAIN reservation'

\* Action property over RecordStep: replayed answers never contradict an
\* earlier one (begin, finish, enforce_ceiling, prune, release).
OutcomesOnlyDegrade ==
  [][\A p \in DOMAIN ledger.records : RecordStep(p)]_vars

TombstoneIds == {ledger.tombstones[i].id : i \in DOMAIN ledger.tombstones}

\* StatusResponse's contract (workcell-host-contract lib.rs 2428-2431): NeverSeen for an
\* operation dispatched after the reported eviction boundary means it never ran.
NeverSeenMeansNeverRan ==
  \A p \in Preps :
     /\ starts[p] # <<>>
     /\ p \notin DOMAIN ledger.records
     /\ p \notin TombstoneIds
     => starts[p][1] <= ledger.evicted

\* The debug_assert that ends enforce_ceiling: once an outcome is recorded the
\* ledger is within MAX_LEDGER_BYTES.
CeilingAfterFinish ==
  [][\A p \in DOMAIN lease :
       lease[p].armed /\ p \in DOMAIN lease' /\ ~lease'[p].armed => Fits(ledger')]_vars
=============================================================================
