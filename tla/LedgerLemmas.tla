---------------------------- MODULE LedgerLemmas ----------------------------
(***************************************************************************)
(* Lemmas about the operators of the ledger: what prune, the eviction of   *)
(* progress and tombstones, the ceiling and finish may do to a ledger.     *)
(***************************************************************************)
EXTENDS Ledger, TLAPS, FiniteSetTheorems, WellFoundedInduction, SequenceTheorems

-----------------------------------------------------------------------------
\* The library's well-founded relation on the naturals is <.
LEMMA LessIsRelated ==
  \A x, y \in Nat : x < y => <<x, y>> \in OpToRel(<, Nat)
  BY DEF OpToRel

\* A set of naturals that is not empty has a least element.
LEMMA LeastNat ==
  ASSUME NEW T, T \subseteq Nat, T # {}
  PROVE  Min(T) \in T /\ \A x \in T : Min(T) <= x
<1>1. PICK m \in T : \A y \in T : ~(<<y, m>> \in OpToRel(<, Nat))
  BY NatLessThanWellFounded, WFMin, Zenon
<1>2. \A y \in T : ~(y < m)
  BY <1>1, LessIsRelated, Zenon
<1>3. \A y \in T : m <= y
  BY <1>2
<1>4. QED
  BY <1>3, ZenonT(30) DEF Min

\* A set of naturals with an upper bound has a greatest element.
LEMMA GreatestNat ==
  ASSUME NEW T, T \subseteq Nat, T # {}, NEW b \in Nat, \A x \in T : x <= b
  PROVE  Max(T) \in T /\ \A x \in T : x <= Max(T)
<1> DEFINE U == {n \in Nat : \E x \in T : n = b - x}
<1>1. U # {}
  <2>1. PICK x \in T : TRUE
    BY ZenonT(30)
  <2>2. b - x \in U
    BY <2>1
  <2>3. QED
    BY <2>2, ZenonT(30)
<1>2. Min(U) \in U /\ \A u \in U : Min(U) <= u
  <2>1. U \subseteq Nat
    OBVIOUS
  <2>2. QED
    BY <1>1, <2>1, LeastNat, ZenonT(30)
<1>3. PICK m \in T : Min(U) = b - m
  BY <1>2
<1>4. ASSUME NEW x \in T PROVE x <= m
  <2>1. b - x \in U
    OBVIOUS
  <2>2. b - m <= b - x
    BY <1>2, <1>3, <2>1
  <2>3. QED
    BY <2>2
<1>5. QED
  BY <1>4, ZenonT(30) DEF Max

\* A loop that pops at most n elements pops between none and n of them.
LEMMA LoopCountType ==
  ASSUME NEW n \in Nat, NEW done
  PROVE  LoopCount(n, done) \in 0..n
<1>1. (done \cap 0..n) \cup {n} \subseteq Nat
  OBVIOUS
<1>2. QED
  BY <1>1, LeastNat DEF LoopCount
-----------------------------------------------------------------------------
\* What housekeeping (prune, forget, enforce_ceiling, progress eviction) may do
\* to the records: it never adds one, never removes a running one, never
\* touches the counters, the operation or the invocation, and changes a state
\* only from a terminal one to Indeterminate.
Shrinks(L, M) ==
  /\ M.reserved = L.reserved /\ M.running = L.running /\ M.reservations = L.reservations
  /\ DOMAIN M.records \subseteq DOMAIN L.records
  /\ \A p \in DOMAIN L.records :
       L.records[p].state = "Running" => p \in DOMAIN M.records
  /\ \A p \in DOMAIN M.records :
       /\ M.records[p].operation = L.records[p].operation
       /\ M.records[p].inv = L.records[p].inv
       /\ M.records[p].size = L.records[p].size
       /\ \/ M.records[p].state = L.records[p].state
          \/ L.records[p].state \in Terminal /\ M.records[p].state = "Indeterminate"

\* Shrinks composes.
LEMMA ShrinksTransitive ==
  ASSUME NEW L, NEW M, NEW N, Shrinks(L, M), Shrinks(M, N)
  PROVE  Shrinks(L, N)
  BY DEF Shrinks, Terminal

\* Evicting k tombstones keeps the types and everything but the tombstones.
LEMMA EvictTombstonesType ==
  ASSUME NEW t \in Nat, NEW L, IsLedger(L, t), NEW k \in 0..Len(L.tombstones)
  PROVE  /\ IsLedger(EvictTombstones(L, k), t)
         /\ Shrinks(L, EvictTombstones(L, k))
         /\ EvictTombstones(L, k).records = L.records
         /\ Len(EvictTombstones(L, k).tombstones) = Len(L.tombstones) - k
<1> DEFINE ages == {L.evicted} \cup {L.tombstones[i].ms : i \in 1..k}
           M == EvictTombstones(L, k)
<1>1. /\ L.tombstones \in Seq(TombstoneType(t)) /\ L.evicted \in 0..t
      /\ L.records \in [DOMAIN L.records -> RecordType]
  BY DEF IsLedger, IsPartial
<1>2. \A i \in 1..Len(L.tombstones) : L.tombstones[i] \in TombstoneType(t)
  BY <1>1
<1>3. \A x \in ages : x \in 0..t
  <2>1. \A i \in 1..k : L.tombstones[i].ms \in 0..t
    BY <1>2 DEF TombstoneType
  <2>2. QED
    BY <1>1, <2>1
<1>4. Max(ages) \in 0..t
  <2>1. ages \subseteq Nat /\ ages # {} /\ \A x \in ages : x <= t
    BY <1>3
  <2>2. QED
    BY <2>1, <1>3, GreatestNat, SMTT(20)
<1>5. /\ SubSeq(L.tombstones, k + 1, Len(L.tombstones)) \in Seq(TombstoneType(t))
      /\ Len(SubSeq(L.tombstones, k + 1, Len(L.tombstones))) = Len(L.tombstones) - k
  BY <1>1, <1>2, SubSeqProperties
<1>6. /\ M.tombstones = SubSeq(L.tombstones, k + 1, Len(L.tombstones))
      /\ M.evicted = Max(ages)
      /\ M.records = L.records
      /\ M.reserved = L.reserved /\ M.running = L.running
      /\ M.reservations = L.reservations
      /\ M \in [records : {L.records}, tombstones : {M.tombstones}, evicted : {M.evicted},
                capacity : Nat, reserved : Nat, running : Nat, reservations : Nat]
  BY ZenonT(30) DEF EvictTombstones, IsLedger
<1> HIDE DEF M, ages
<1>7. IsLedger(M, t)
  BY <1>4, <1>5, <1>6, ZenonT(30) DEF IsLedger
<1>8. Shrinks(L, M)
  BY <1>6 DEF Shrinks
<1>9. QED
  BY <1>5, <1>6, <1>7, <1>8 DEF M

\* Reallocating the deque of tombstones touches nothing else; the capacities it
\* grows through cover the most tombstones it may hold.
LEMMA GrowDequeType ==
  ASSUME NEW t \in Nat, NEW L, IsLedger(L, t), Len(L.tombstones) <= MaxTombstones
  PROVE  /\ IsLedger(GrowDeque(L), t)
         /\ Shrinks(L, GrowDeque(L))
         /\ GrowDeque(L).records = L.records
<1> DEFINE n == Len(L.tombstones)
           larger == {c \in DequeSizes : c >= n}
           size == IF n <= L.capacity THEN L.capacity ELSE Capacity(DequeSizes, n)
           M == [L EXCEPT !.capacity = size]
<1>1. n \in Nat /\ L.capacity \in Nat
  BY DEF IsLedger
<1>2. Capacity(DequeSizes, n) \in Nat
  <2>1. PICK c \in DequeSizes : c >= MaxTombstones
    BY LedgerConstants
  <2>2. c \in Nat /\ c >= n
    BY <1>1, <2>1, LedgerConstants
  <2>3. larger \subseteq Nat /\ larger # {}
    BY <2>1, <2>2, LedgerConstants
  <2> HIDE DEF larger
  <2>4. Min(larger) \in larger
    BY <2>3, LeastNat, Zenon
  <2>5. QED
    BY <2>3, <2>4 DEF Capacity, larger
<1>3. size \in Nat
  BY <1>1, <1>2
<1>4. GrowDeque(L) = M
  BY DEF GrowDeque
<1> HIDE DEF size
<1>5. /\ M.records = L.records
      /\ M.reserved = L.reserved /\ M.running = L.running
      /\ M.reservations = L.reservations
      /\ M \in [records : {L.records}, tombstones : Seq(TombstoneType(t)), evicted : 0..t,
                capacity : Nat, reserved : Nat, running : Nat, reservations : Nat]
  BY <1>3, ZenonT(30) DEF IsLedger
<1> HIDE DEF M
<1>6. QED
  BY <1>4, <1>5 DEF IsLedger, Shrinks

\* An ordering of a set lists exactly its elements.
LEMMA OrderingType ==
  ASSUME NEW S, IsFiniteSet(S), NEW ids \in SetToSeqs(S)
  PROVE  /\ ids \in Seq(S)
         /\ \A i \in 1..Len(ids) : ids[i] \in S
         /\ ToSet(ids) \subseteq S
<1>1. Cardinality(S) \in Nat
  BY FS_CardinalityType
<1>2. ids \in [1..Cardinality(S) -> S]
  BY DEF SetToSeqs
<1>3. ids \in Seq(S)
  BY <1>1, <1>2
<1>4. QED
  BY <1>3 DEF ToSet

\* forget keeps the types and only removes the records it names.
LEMMA ForgetType ==
  ASSUME NEW t \in Nat, now \in Nat, NEW L, IsLedger(L, now),
         NEW ids \in Seq(DOMAIN L.records),
         NEW state \in {"Forgotten", "Indeterminate"},
         \A i \in 1..Len(ids) : L.records[ids[i]].state # "Running"
  PROVE  /\ IsLedger(Forget(L, ids, state, t), now)
         /\ Shrinks(L, Forget(L, ids, state, t))
         /\ DOMAIN Forget(L, ids, state, t).records = DOMAIN L.records \ ToSet(ids)
         /\ \A p \in DOMAIN Forget(L, ids, state, t).records :
              Forget(L, ids, state, t).records[p] = L.records[p]
<1> DEFINE new == [i \in 1..Len(ids) |->
                     TombstoneOf(ids[i], L.records[ids[i]], state, t, now)]
           M == [L EXCEPT !.records = Restrict(@, DOMAIN @ \ ToSet(ids)),
                          !.tombstones = @ \o new]
<1>1. /\ L.tombstones \in Seq(TombstoneType(now)) /\ DOMAIN L.records \subseteq Preps
      /\ L.records \in [DOMAIN L.records -> RecordType]
  BY DEF IsLedger, IsPartial
<1>2. \A i \in 1..Len(ids) : ids[i] \in DOMAIN L.records
  OBVIOUS
<1>3. new \in Seq(TombstoneType(now))
  <2>1. ASSUME NEW i \in 1..Len(ids)
        PROVE  TombstoneOf(ids[i], L.records[ids[i]], state, t, now) \in TombstoneType(now)
    <3>1. L.records[ids[i]] \in RecordType /\ ids[i] \in Preps
      BY <1>1, <1>2
    <3>2. QED
      BY <3>1 DEF TombstoneOf, TombstoneType, RecordType
  <2>2. Len(ids) \in Nat
    OBVIOUS
  <2>3. QED
    BY <2>1, <2>2
<1> HIDE DEF new
<1>4. L.tombstones \o new \in Seq(TombstoneType(now))
  BY <1>1, <1>3, ConcatProperties
<1> DEFINE kept == Restrict(L.records, DOMAIN L.records \ ToSet(ids))
<1>5. /\ DOMAIN kept = DOMAIN L.records \ ToSet(ids)
      /\ kept \in [DOMAIN kept -> RecordType]
      /\ \A p \in DOMAIN kept : kept[p] = L.records[p]
  BY <1>1 DEF Restrict
<1>6. /\ M.records = kept
      /\ M.tombstones = L.tombstones \o new
      /\ M.evicted = L.evicted
      /\ M.reserved = L.reserved /\ M.running = L.running
      /\ M.reservations = L.reservations
      /\ M \in [records : {kept}, tombstones : {M.tombstones}, evicted : 0..now,
                capacity : Nat, reserved : Nat, running : Nat, reservations : Nat]
  BY ZenonT(30) DEF IsLedger
<1> HIDE DEF M, kept
<1>7. IsLedger(M, now)
  BY <1>1, <1>4, <1>5, <1>6, ZenonT(30) DEF IsLedger, IsPartial
<1>8. Shrinks(L, M)
  <2>1. \A p \in ToSet(ids) : L.records[p].state # "Running"
    BY DEF ToSet
  <2>2. QED
    BY <1>5, <1>6, <2>1 DEF Shrinks
<1>9. SaturatingSub(Len(M.tombstones), MaxTombstones) \in 0..Len(M.tombstones)
  <2>1. Len(M.tombstones) \in Nat
    BY <1>4, <1>6
  <2>2. QED
    BY <2>1, LedgerConstants DEF SaturatingSub
<1> DEFINE over == SaturatingSub(Len(M.tombstones), MaxTombstones)
           E == EvictTombstones(M, over)
<1>10. Forget(L, ids, state, t) = GrowDeque(E)
  BY DEF Forget, M, new
<1>11. /\ IsLedger(E, now) /\ Shrinks(M, E) /\ E.records = M.records
       /\ Len(E.tombstones) = Len(M.tombstones) - over
  BY <1>7, <1>9, EvictTombstonesType, Zenon
<1>12. Len(M.tombstones) - over <= MaxTombstones
  <2>1. Len(M.tombstones) \in Nat
    BY <1>4, <1>6
  <2>2. QED
    BY <2>1, LedgerConstants DEF SaturatingSub
<1> HIDE DEF E, over
<1>13. /\ IsLedger(GrowDeque(E), now) /\ Shrinks(E, GrowDeque(E))
       /\ GrowDeque(E).records = E.records
  <2>1. Len(E.tombstones) <= MaxTombstones
    BY <1>11, <1>12
  <2>2. QED
    BY <1>11, <2>1, GrowDequeType, Zenon
<1>14. Shrinks(L, GrowDeque(E))
  BY <1>8, <1>11, <1>13, ShrinksTransitive, Zenon
<1>15. GrowDeque(E).records = kept
  BY <1>6, <1>11, <1>13
<1>16. QED
  BY <1>5, <1>10, <1>13, <1>14, <1>15

\* prune keeps the types and never removes a running record.
LEMMA PruneType ==
  ASSUME NEW t \in Nat, now \in Nat, NEW L, IsLedger(L, now), NEW N \in Prune(L, t)
  PROVE  IsLedger(N, now) /\ Shrinks(L, N)
<1>1. PICK ids \in SetToSeqs(Dead(L, t)) : N = PruneInOrder(L, ids, t)
  BY DEF Prune
<1> DEFINE A == Forget(L, ids, "Forgotten", t)
           young == {i \in 0..(Len(A.tombstones) - 1) :
                       SaturatingSub(t, A.tombstones[i + 1].at) < RetentionTTL}
           B == EvictTombstones(A, LoopCount(Len(A.tombstones), young))
           enough == {i \in 0..Len(B.tombstones) : Fits(EvictTombstones(B, i))}
<1>2. IsFiniteSet(Dead(L, t)) /\ Dead(L, t) \subseteq DOMAIN L.records
  <2>1. Dead(L, t) \subseteq DOMAIN L.records /\ DOMAIN L.records \subseteq Preps
    BY DEF Dead, IsLedger, IsPartial
  <2>2. QED
    BY <2>1, FS_Subset, LedgerConstants
<1>3. /\ ids \in Seq(DOMAIN L.records)
      /\ \A i \in 1..Len(ids) : L.records[ids[i]].state # "Running"
  <2>1. /\ ids \in Seq(Dead(L, t))
        /\ \A i \in 1..Len(ids) : ids[i] \in Dead(L, t)
    BY <1>2, OrderingType
  <2>2. \A p \in Dead(L, t) : L.records[p].state # "Running"
    BY DEF Dead, Stale, Terminal
  <2>3. QED
    BY <1>2, <2>1, <2>2, SeqMonotonic
<1>4. IsLedger(A, now) /\ Shrinks(L, A)
  BY <1>3, ForgetType
<1>5. IsLedger(B, now) /\ Shrinks(A, B)
  <2>1. Len(A.tombstones) \in Nat
    BY <1>4 DEF IsLedger
  <2> HIDE DEF young, A
  <2>2. LoopCount(Len(A.tombstones), young) \in 0..Len(A.tombstones)
    BY <2>1, LoopCountType
  <2>3. QED
    BY <1>4, <2>2, EvictTombstonesType
<1>6. /\ IsLedger(EvictTombstones(B, LoopCount(Len(B.tombstones), enough)), now)
      /\ Shrinks(B, EvictTombstones(B, LoopCount(Len(B.tombstones), enough)))
  <2>1. Len(B.tombstones) \in Nat
    BY <1>5, SMTT(20) DEF IsLedger
  <2> HIDE DEF enough, B
  <2>2. LoopCount(Len(B.tombstones), enough) \in 0..Len(B.tombstones)
    BY <2>1, LoopCountType
  <2>3. QED
    BY <1>5, <2>2, EvictTombstonesType, SMTT(20)
<1>7. N = EvictTombstones(B, LoopCount(Len(B.tombstones), enough))
  BY <1>1 DEF PruneInOrder
<1> HIDE DEF A, B, enough, young
<1>8. QED
  BY <1>4, <1>5, <1>6, <1>7, ShrinksTransitive

\* Evicting progress keeps the types and touches only progress and its flag.
LEMMA EvictProgressType ==
  ASSUME now \in Nat, NEW L, IsLedger(L, now), NEW N \in EvictProgress(L)
  PROVE  IsLedger(N, now) /\ Shrinks(L, N) /\ DOMAIN N.records = DOMAIN L.records
         /\ \A p \in DOMAIN L.records : N.records[p].state = L.records[p].state
<1>1. CASE Fits(L)
  BY <1>1 DEF EvictProgress, Shrinks
<1>2. CASE ~Fits(L)
  <2>1. PICK cut \in OldestFirstCuts(L) : N = CutProgress(L, cut)
    BY <1>2 DEF EvictProgress
  <2>2. cut \in [DOMAIN L.records -> 0..MaxProgressEvents]
    BY DEF OldestFirstCuts
  <2> DEFINE Cut(p) == CutRecord(L.records[p], cut[p])
  <2>3. L.records \in [DOMAIN L.records -> RecordType] /\ DOMAIN L.records \subseteq Preps
    BY DEF IsLedger, IsPartial
  <2>4. ASSUME NEW p \in DOMAIN L.records
        PROVE  /\ Cut(p) \in RecordType
               /\ Cut(p).operation = L.records[p].operation
               /\ Cut(p).inv = L.records[p].inv
               /\ Cut(p).size = L.records[p].size
               /\ Cut(p).state = L.records[p].state
    <3>1. L.records[p] \in RecordType
      BY <2>3
    <3>2. cut[p] \in Nat
      BY <2>2, LedgerConstants
    <3>3. SubSeq(L.records[p].progress, cut[p] + 1, Len(L.records[p].progress)) \in Seq(Nat)
      <4>1. L.records[p].progress \in Seq(Nat)
        BY <3>1 DEF RecordType
      <4>2. QED
        BY <3>2, <4>1, SubSeqProperties
    <3>4. (L.records[p].gap \/ cut[p] > 0) \in BOOLEAN
      BY <3>1 DEF RecordType
    <3>5. QED
      BY <3>1, <3>3, <3>4, ZenonT(30) DEF RecordType, CutRecord
  <2> DEFINE R == [p \in DOMAIN L.records |-> Cut(p)]
  <2>5. /\ N.records = R
        /\ N.tombstones = L.tombstones /\ N.evicted = L.evicted
        /\ N.reserved = L.reserved /\ N.running = L.running
        /\ N.reservations = L.reservations
        /\ N \in [records : {R}, tombstones : Seq(TombstoneType(now)), evicted : 0..now,
                  capacity : Nat, reserved : Nat, running : Nat, reservations : Nat]
    BY <2>1 DEF CutProgress, IsLedger
  <2>6. /\ DOMAIN R = DOMAIN L.records
        /\ \A p \in DOMAIN R : R[p] = Cut(p)
    OBVIOUS
  <2> HIDE DEF Cut, R
  <2>7. R \in [DOMAIN R -> RecordType]
    BY <2>4, <2>6 DEF R
  <2>8. IsLedger(N, now)
    BY <2>3, <2>5, <2>6, <2>7, SMTT(20) DEF IsLedger, IsPartial
  <2>9. Shrinks(L, N)
    BY <2>4, <2>5, <2>6 DEF Shrinks
  <2>10. QED
    BY <2>4, <2>5, <2>6, <2>8, <2>9, SMTT(20)
<1>3. QED
  BY <1>1, <1>2

\* Changing one record keeps the types and everything else.
LEMMA UpdateType ==
  ASSUME NEW t \in Nat, NEW L, IsLedger(L, t), NEW p \in DOMAIN L.records,
         NEW r \in RecordType
  PROVE  /\ IsLedger(Update(L, p, r), t)
         /\ DOMAIN Update(L, p, r).records = DOMAIN L.records
         /\ Update(L, p, r).records[p] = r
         /\ \A q \in DOMAIN L.records : q # p => Update(L, p, r).records[q] = L.records[q]
         /\ Update(L, p, r).reserved = L.reserved
         /\ Update(L, p, r).running = L.running
         /\ Update(L, p, r).reservations = L.reservations
         /\ Update(L, p, r).tombstones = L.tombstones
<1> DEFINE R == [L.records EXCEPT ![p] = r]
           M == Update(L, p, r)
<1>1. L.records \in [DOMAIN L.records -> RecordType] /\ DOMAIN L.records \subseteq Preps
  BY DEF IsLedger, IsPartial
<1>2. /\ DOMAIN R = DOMAIN L.records
      /\ R \in [DOMAIN R -> RecordType]
      /\ R[p] = r
      /\ \A q \in DOMAIN L.records : q # p => R[q] = L.records[q]
  BY <1>1
<1>3. /\ M.records = R
      /\ M.tombstones = L.tombstones /\ M.evicted = L.evicted
      /\ M.reserved = L.reserved /\ M.running = L.running
      /\ M.reservations = L.reservations
      /\ M \in [records : {R}, tombstones : Seq(TombstoneType(t)), evicted : 0..t,
                capacity : Nat, reserved : Nat, running : Nat, reservations : Nat]
  BY DEF Update, IsLedger
<1> HIDE DEF R, M
<1>4. IsLedger(M, t)
  BY <1>1, <1>2, <1>3 DEF IsLedger, IsPartial
<1>5. QED
  BY <1>2, <1>3, <1>4 DEF M

\* Giving up the outcome just recorded only degrades a terminal record.
LEMMA GiveUpOutcomeType ==
  ASSUME now \in Nat, NEW L, IsLedger(L, now), NEW p,
         p \in DOMAIN L.records => L.records[p].state \in Terminal
  PROVE  /\ IsLedger(GiveUpOutcome(L, p), now) /\ Shrinks(L, GiveUpOutcome(L, p))
         /\ DOMAIN GiveUpOutcome(L, p).records = DOMAIN L.records
<1>1. CASE Fits(L) \/ p \notin DOMAIN L.records
  BY <1>1 DEF GiveUpOutcome, Shrinks
<1>2. CASE ~(Fits(L) \/ p \notin DOMAIN L.records)
  <2> DEFINE r == [L.records[p] EXCEPT !.state = "Indeterminate",
                                    !.outcome = 0,
                                    !.gap = @ \/ L.records[p].progress # <<>>,
                                    !.progress = <<>>]
  <2>1. L.records[p] \in RecordType
    BY <1>2 DEF IsLedger, IsPartial
  <2>2. (L.records[p].gap \/ L.records[p].progress # <<>>) \in BOOLEAN
    BY <2>1 DEF RecordType
  <2>3. /\ r \in RecordType
        /\ r.operation = L.records[p].operation /\ r.inv = L.records[p].inv
        /\ r.size = L.records[p].size /\ r.state = "Indeterminate"
    <3>1. <<>> \in Seq(Nat) /\ "Indeterminate" \in Terminal
      BY DEF Terminal
    <3>2. r \in RecordType
      BY <2>1, <2>2, <3>1, Zenon DEF RecordType
    <3>3. QED
      BY <2>1, <3>2 DEF RecordType
  <2>4. GiveUpOutcome(L, p) = Update(L, p, r)
    BY <1>2 DEF GiveUpOutcome
  <2> HIDE DEF r
  <2>5. Shrinks(L, Update(L, p, r))
    BY <1>2, <2>3, UpdateType DEF Shrinks
  <2>6. QED
    BY <1>2, <2>3, <2>4, <2>5, UpdateType, SMTT(20)
<1>3. QED
  BY <1>1, <1>2, SMTT(20)

\* Dropping tombstones touches nothing else.
LEMMA DropTombstonesType ==
  ASSUME now \in Nat, NEW L, IsLedger(L, now)
  PROVE  /\ IsLedger(DropTombstones(L), now) /\ Shrinks(L, DropTombstones(L))
         /\ DropTombstones(L).records = L.records
<1> DEFINE Without(i) == [L EXCEPT !.tombstones = SubSeq(@, i + 1, Len(@))]
           enough == {i \in 0..Len(L.tombstones) : Fits(Without(i))}
           k == LoopCount(Len(L.tombstones), enough)
<1>1. L.tombstones \in Seq(TombstoneType(now))
  BY DEF IsLedger
<1>2. k \in 0..Len(L.tombstones)
  <2> HIDE DEF enough
  <2>1. QED
    BY <1>1, LoopCountType
<1>3. DropTombstones(L) = Without(k)
  BY DEF DropTombstones
<1> HIDE DEF k
<1>4. SubSeq(L.tombstones, k + 1, Len(L.tombstones)) \in Seq(TombstoneType(now))
  BY <1>1, <1>2, SubSeqProperties
<1>5. /\ Without(k).records = L.records
      /\ Without(k).reserved = L.reserved /\ Without(k).running = L.running
      /\ Without(k).reservations = L.reservations
      /\ Without(k) \in [records : {L.records}, tombstones : Seq(TombstoneType(now)),
                evicted : 0..now, capacity : Nat, reserved : Nat, running : Nat,
                reservations : Nat]
  BY <1>4, ZenonT(30) DEF IsLedger
<1> HIDE DEF Without
<1>6. QED
  BY <1>3, <1>5 DEF IsLedger, Shrinks

\* The first k elements of a sequence.
LEMMA PrefixType ==
  ASSUME NEW S, NEW s \in Seq(S), NEW k \in 0..Len(s)
  PROVE  /\ SubSeq(s, 1, k) \in Seq(S)
         /\ Len(SubSeq(s, 1, k)) = k
         /\ \A i \in 1..k : SubSeq(s, 1, k)[i] = s[i]
  OBVIOUS

\* Forgetting other outcomes until the ledger fits.
LEMMA ForgetUntilFitsType ==
  ASSUME NEW t \in Nat, now \in Nat, NEW L, IsLedger(L, now),
         NEW ids \in Seq(DOMAIN L.records),
         \A i \in 1..Len(ids) : L.records[ids[i]].state # "Running"
  PROVE  LET N == ForgetUntilFits(L, ids, t)
         IN /\ IsLedger(N, now) /\ Shrinks(L, N)
            /\ \A p \in DOMAIN N.records : N.records[p] = L.records[p]
            /\ \A p \in DOMAIN L.records :
                 (\A i \in 1..Len(ids) : ids[i] # p) => p \in DOMAIN N.records
<1> DEFINE First(i) == Forget(L, SubSeq(ids, 1, i), "Indeterminate", t)
           enough == {i \in 0..Len(ids) : Fits(First(i))}
           k == LoopCount(Len(ids), enough)
<1>1. ForgetUntilFits(L, ids, t) = First(k)
  BY DEF ForgetUntilFits
<1>2. Len(ids) \in Nat /\ \A i \in 1..Len(ids) : ids[i] \in DOMAIN L.records
  OBVIOUS
<1>3. k \in 0..Len(ids)
  <2> HIDE DEF enough
  <2>1. QED
    BY <1>2, LoopCountType
<1> HIDE DEF k
<1> DEFINE first == SubSeq(ids, 1, k)
<1>4. /\ first \in Seq(DOMAIN L.records)
      /\ \A i \in 1..Len(first) : L.records[first[i]].state # "Running"
      /\ \A p : (\A i \in 1..Len(ids) : ids[i] # p) => p \notin ToSet(first)
  <2>1. /\ first \in Seq(DOMAIN L.records) /\ Len(first) = k
        /\ \A i \in 1..k : first[i] = ids[i]
    BY <1>3, PrefixType, ZenonT(30)
  <2>2. k \in Nat /\ k <= Len(ids)
    BY <1>2, <1>3
  <2> HIDE DEF first
  <2>3. \A i \in 1..Len(first) : L.records[first[i]].state # "Running"
    BY <1>2, <2>1, <2>2
  <2>4. \A i \in DOMAIN first : \E j \in 1..Len(ids) : first[i] = ids[j]
    BY <1>2, <2>1, <2>2
  <2>5. QED
    BY <2>1, <2>3, <2>4 DEF ToSet
<1> HIDE DEF first
<1>5. /\ IsLedger(Forget(L, first, "Indeterminate", t), now)
      /\ Shrinks(L, Forget(L, first, "Indeterminate", t))
      /\ \A p \in DOMAIN Forget(L, first, "Indeterminate", t).records :
           Forget(L, first, "Indeterminate", t).records[p] = L.records[p]
      /\ DOMAIN Forget(L, first, "Indeterminate", t).records = DOMAIN L.records \ ToSet(first)
  BY <1>4, ForgetType
<1>6. ForgetUntilFits(L, ids, t) = Forget(L, first, "Indeterminate", t)
  BY <1>1 DEF first
<1>7. QED
  BY <1>4, <1>5, <1>6

\* enforce_ceiling around a record that has just become terminal.
LEMMA EnforceCeilingType ==
  ASSUME NEW t \in Nat, now \in Nat, NEW L, IsLedger(L, now),
         NEW p \in DOMAIN L.records, L.records[p].state \in Terminal,
         NEW N \in EnforceCeiling(L, p, t)
  PROVE  IsLedger(N, now) /\ Shrinks(L, N) /\ p \in DOMAIN N.records
<1>1. PICK A \in EvictProgress(L), ids \in OrderedBy(OtherTerminal(L, p), TerminalAt(L)) :
        N = DropTombstones(GiveUpOutcome(ForgetUntilFits(A, ids, t), p))
  BY DEF EnforceCeiling
<1>2. /\ IsLedger(A, now) /\ Shrinks(L, A) /\ DOMAIN A.records = DOMAIN L.records
      /\ \A q \in DOMAIN L.records : A.records[q].state = L.records[q].state
  BY EvictProgressType
<1>3. /\ ids \in Seq(DOMAIN A.records)
      /\ \A i \in 1..Len(ids) : A.records[ids[i]].state # "Running"
      /\ \A i \in 1..Len(ids) : ids[i] # p
  <2>1. /\ OtherTerminal(L, p) \subseteq DOMAIN L.records
        /\ p \notin OtherTerminal(L, p)
        /\ \A q \in OtherTerminal(L, p) : L.records[q].state # "Running"
    BY DEF OtherTerminal, Terminal
  <2>2. IsFiniteSet(OtherTerminal(L, p))
    <3>1. DOMAIN L.records \subseteq Preps
      BY DEF IsLedger, IsPartial
    <3>2. QED
      BY <2>1, <3>1, FS_Subset, LedgerConstants
  <2>3. ids \in SetToSeqs(OtherTerminal(L, p))
    BY DEF OrderedBy
  <2>4. /\ ids \in Seq(OtherTerminal(L, p))
        /\ \A i \in 1..Len(ids) : ids[i] \in OtherTerminal(L, p)
    BY <2>2, <2>3, OrderingType, SMTT(20)
  <2>5. QED
    BY <1>2, <2>1, <2>4, SeqMonotonic, SMTT(20)
<1> DEFINE B == ForgetUntilFits(A, ids, t)
           C == GiveUpOutcome(B, p)
<1>4. /\ IsLedger(B, now) /\ Shrinks(A, B)
      /\ \A q \in DOMAIN B.records : B.records[q] = A.records[q]
      /\ p \in DOMAIN B.records
  BY <1>2, <1>3, ForgetUntilFitsType
<1>5. p \in DOMAIN B.records => B.records[p].state \in Terminal
  BY <1>2, <1>4
<1> HIDE DEF B
<1>6. IsLedger(C, now) /\ Shrinks(B, C) /\ DOMAIN C.records = DOMAIN B.records
  BY <1>4, <1>5, GiveUpOutcomeType
<1> HIDE DEF C
<1>7. /\ IsLedger(DropTombstones(C), now) /\ Shrinks(C, DropTombstones(C))
      /\ DropTombstones(C).records = C.records
  BY <1>6, DropTombstonesType
<1>8. N = DropTombstones(C)
  BY <1>1 DEF B, C
<1>9. QED
  BY <1>2, <1>4, <1>6, <1>7, <1>8, ShrinksTransitive, SMTT(20)

\* What finish and finish_indeterminate may do: settle p, and the housekeeping.
Settles(L, N, p) ==
  /\ N.reserved = L.reserved /\ N.running = L.running /\ N.reservations = L.reservations
  /\ DOMAIN N.records \subseteq DOMAIN L.records
  /\ \A q \in DOMAIN L.records :
       L.records[q].state = "Running" => q \in DOMAIN N.records
  /\ \A q \in DOMAIN N.records :
       /\ N.records[q].operation = L.records[q].operation
       /\ N.records[q].inv = L.records[q].inv
       /\ \/ N.records[q].state = L.records[q].state
          \/ L.records[q].state \in Terminal /\ N.records[q].state = "Indeterminate"
          \/ q = p /\ L.records[q].state = "Running" /\ N.records[q].state \in Terminal

\* finish and finish_indeterminate settle the record and nothing else; the
\* record they settle is still there, terminal, and no longer running.
LEMMA FinishedType ==
  ASSUME now \in Nat, NEW L, IsLedger(L, now), NEW p, NEW i,
         NEW state \in Terminal, NEW bytes \in Nat,
         NEW N \in Finished(L, p, i, state, bytes)
  PROVE  IsLedger(N, now) /\ Settles(L, N, p) /\ ~IsRunning(N, p, i)
<1>1. CASE ~IsRunning(L, p, i)
  BY <1>1 DEF Finished, Settles
<1>2. CASE IsRunning(L, p, i)
  <2> DEFINE r == [L.records[p] EXCEPT !.state = state, !.outcome = bytes, !.terminal = now]
             M == Update(L, p, r)
  <2>1. p \in DOMAIN L.records /\ L.records[p] \in RecordType /\ L.records[p].state = "Running"
    BY <1>2 DEF IsRunning, IsLedger, IsPartial
  <2>2. /\ r \in RecordType
        /\ r.operation = L.records[p].operation /\ r.inv = L.records[p].inv
        /\ r.state = state
    <3>1. r \in RecordType
      BY <2>1, Zenon DEF RecordType
    <3>2. QED
      BY <2>1, <3>1 DEF RecordType
  <2>3. N \in EnforceCeiling(M, p, now)
    BY <1>2 DEF Finished
  <2> HIDE DEF r
  <2>4. /\ IsLedger(M, now) /\ DOMAIN M.records = DOMAIN L.records /\ M.records[p] = r
        /\ \A q \in DOMAIN L.records : q # p => M.records[q] = L.records[q]
        /\ M.reserved = L.reserved /\ M.running = L.running
        /\ M.reservations = L.reservations
    BY <2>1, <2>2, UpdateType
  <2> HIDE DEF M
  <2>5. IsLedger(N, now) /\ Shrinks(M, N) /\ p \in DOMAIN N.records
    BY <2>1, <2>2, <2>3, <2>4, EnforceCeilingType, SMTT(20)
  <2>6. Settles(L, N, p)
    BY <2>1, <2>2, <2>4, <2>5, SMTT(20) DEF Settles, Shrinks, Terminal
  <2>7. ~IsRunning(N, p, i)
    BY <2>2, <2>4, <2>5 DEF IsRunning, Shrinks, Terminal
  <2>8. QED
    BY <2>5, <2>6, <2>7
<1>3. QED
  BY <1>1, <1>2

=============================================================================
