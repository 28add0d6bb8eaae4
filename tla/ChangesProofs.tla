--------------------------- MODULE ChangesProofs ----------------------------
(***************************************************************************)
(* Theorems about the change records, for any paths, holders, tickets and  *)
(* reverts, however many records are made and wherever an operation stops. *)
(***************************************************************************)
EXTENDS Changes, TLAPS, WellFoundedInduction

-----------------------------------------------------------------------------
(* The greatest element of a set of numbers *)

\* The library's well-founded relation on the naturals is <.
LEMMA LessIsRelated ==
  \A x, y \in Nat : x < y => <<x, y>> \in OpToRel(<, Nat)
  BY DEF OpToRel

\* A set of naturals with an upper bound has a greatest element, which Max finds.
LEMMA GreatestNat ==
  ASSUME NEW T, T \subseteq Nat, T # {}, NEW b \in Nat, \A x \in T : x <= b
  PROVE  Max(T) \in T /\ \A x \in T : x <= Max(T)
<1> DEFINE U == {n \in Nat : \E x \in T : n = b - x}
<1>1. U # {} /\ U \subseteq Nat
  <2>1. PICK x \in T : TRUE
    BY ZenonT(30)
  <2>2. b - x \in U
    BY <2>1
  <2>3. QED
    BY <2>2, ZenonT(30)
<1>2. PICK u \in U : \A y \in U : ~(y < u)
  <2>1. PICK u \in U : \A y \in U : ~(<<y, u>> \in OpToRel(<, Nat))
    BY <1>1, NatLessThanWellFounded, WFMin, Zenon
  <2>2. QED
    BY <1>1, <2>1, LessIsRelated, Zenon
<1>3. PICK m \in T : u = b - m
  BY <1>2
<1>4. ASSUME NEW x \in T PROVE x <= m
  <2>1. b - x \in U
    OBVIOUS
  <2>2. QED
    BY <1>2, <1>3, <2>1
<1>5. \A x \in T : m >= x
  BY <1>4
<1>6. Max(T) \in T /\ \A x \in T : Max(T) >= x
  BY <1>5, ZenonT(30) DEF Max
<1>7. QED
  BY <1>6

-----------------------------------------------------------------------------
(* What every store has, and what an operation may take from it *)

IsStore(st) ==
  st = [next |-> st.next, open |-> st.open, records |-> st.records,
        journals |-> st.journals, marks |-> st.marks]

IsRecord(r) ==
  /\ r = [holders |-> r.holders, changes |-> r.changes, unrecorded |-> r.unrecorded]
  /\ r.holders \subseteq Holders

IsJournal(j) ==
  j = [holder |-> j.holder, direction |-> j.direction, seqs |-> j.seqs,
       state |-> j.state, disturbed |-> j.disturbed]

\* The numbers a store has used are below the next one, and what its journals name is held.
Sound(st) ==
  /\ IsStore(st)
  /\ st.next \in Nat /\ st.next > 0
  /\ \A t \in DOMAIN st.open : st.open[t].from \in Nat /\ st.open[t].holder \in Holders
  /\ \A s \in DOMAIN st.records : s \in Nat /\ s < st.next /\ IsRecord(st.records[s])
  /\ \A j \in DOMAIN st.journals : IsJournal(st.journals[j])
  /\ \A j \in DOMAIN st.journals : \A s \in st.journals[j].seqs :
       /\ s \in Nat /\ s < st.next
       /\ s \in DOMAIN st.records => st.journals[j].holder \in st.records[s].holders
  /\ st.marks \in [Holders -> Nat]
  /\ \A h \in Holders : st.marks[h] < st.next

SameRevert(j, k) ==
  /\ IsJournal(k)
  /\ k.holder = j.holder /\ k.direction = j.direction /\ k.seqs = j.seqs

\* A store that is left of another: nothing is added but holders and marks, and no journal
\* loses its hold on what it names.
Within(st, left) ==
  /\ IsStore(left)
  /\ left.next = st.next
  /\ \A t \in DOMAIN left.open : t \in DOMAIN st.open /\ left.open[t] = st.open[t]
  /\ \A s \in DOMAIN left.records : s \in DOMAIN st.records /\ IsRecord(left.records[s])
  /\ \A j \in DOMAIN left.journals :
       j \in DOMAIN st.journals /\ SameRevert(st.journals[j], left.journals[j])
  /\ \A j \in DOMAIN left.journals : \A s \in left.journals[j].seqs \cap DOMAIN left.records :
       left.journals[j].holder \in st.records[s].holders => left.journals[j].holder \in left.records[s].holders
  /\ left.marks \in [Holders -> Nat]
  /\ \A h \in Holders : left.marks[h] < left.next

\* What is left of a sound store is sound.
LEMMA WithinSound ==
  ASSUME NEW st, Sound(st), NEW left, Within(st, left)
  PROVE  Sound(left)
  BY DEF Sound, Within, SameRevert

\* A store is within itself.
LEMMA WithinSelf ==
  ASSUME NEW st, Sound(st)
  PROVE  Within(st, st)
  BY DEF Sound, Within, SameRevert

\* What is left of what is left of a store is left of the store.
LEMMA WithinTransitive ==
  ASSUME NEW st, NEW mid, NEW left, Within(st, mid), Within(mid, left)
  PROVE  Within(st, left)
  BY DEF Within, SameRevert

-----------------------------------------------------------------------------
(* Retention *)

\* Deleting records touches nothing else.
LEMMA DeletedFacts ==
  ASSUME NEW st, Sound(st), NEW S
  PROVE  /\ Within(st, Deleted(st, S))
         /\ DOMAIN Deleted(st, S).records = DOMAIN st.records \ S
         /\ \A s \in DOMAIN st.records \ S : Deleted(st, S).records[s] = st.records[s]
         /\ Deleted(st, S).open = st.open /\ Deleted(st, S).journals = st.journals
         /\ Deleted(st, S).marks = st.marks /\ Deleted(st, S).next = st.next
<1> DEFINE left == Deleted(st, S)
<1>1. /\ left.records = Minus(st.records, S) /\ left.open = st.open /\ left.journals = st.journals
      /\ left.marks = st.marks /\ left.next = st.next /\ IsStore(left)
  BY DEF Deleted, Sound, IsStore
<1> HIDE DEF left
<1>2. DOMAIN left.records = DOMAIN st.records \ S /\ \A s \in DOMAIN st.records \ S : left.records[s] = st.records[s]
  BY <1>1 DEF Minus, Restrict
<1>3. Within(st, left)
  BY <1>1, <1>2 DEF Within, SameRevert, Sound
<1> QED BY <1>1, <1>2, <1>3 DEF left

\* The newest of some records is one of them, or none, and at least as new as each.
LEMMA NewestFacts ==
  ASSUME NEW st, Sound(st), NEW evicted \in SUBSET DOMAIN st.records, NEW h
  PROVE  /\ Newest(st, evicted, h) \in Nat /\ Newest(st, evicted, h) < st.next
         /\ \A s \in evicted : h \in st.records[s].holders => s <= Newest(st, evicted, h)
<1> DEFINE T == {0} \cup {s \in evicted : h \in st.records[s].holders}
<1>1. T \subseteq Nat /\ T # {} /\ \A x \in T : x <= st.next - 1
  BY DEF Sound
<1>2. st.next - 1 \in Nat
  BY DEF Sound
<1> HIDE DEF T
<1>3. Max(T) \in T /\ \A x \in T : x <= Max(T)
  BY <1>1, <1>2, GreatestNat, ZenonT(30)
<1>4. Newest(st, evicted, h) = Max(T)
  BY DEF Newest, T
<1> QED BY <1>1, <1>2, <1>3, <1>4 DEF T, Sound

\* Marking covers what is to be evicted from those it comes to, and no mark goes back.
LEMMA MarkedFacts ==
  ASSUME NEW st, Sound(st), NEW evicted \in SUBSET DOMAIN st.records, NEW hs \in SUBSET Holders
  PROVE  /\ Within(st, Marked(st, evicted, hs))
         /\ Marked(st, evicted, hs).records = st.records
         /\ Marked(st, evicted, hs).open = st.open /\ Marked(st, evicted, hs).journals = st.journals
         /\ \A h \in Holders : Marked(st, evicted, hs).marks[h] >= st.marks[h]
         /\ \A h \in hs : \A s \in evicted :
              h \in st.records[s].holders => s <= Marked(st, evicted, hs).marks[h]
<1> DEFINE left == Marked(st, evicted, hs)
           Mark(h) == Max({st.marks[h], Newest(st, evicted, h)})
           marks == [h \in Holders |-> IF h \in hs THEN Mark(h) ELSE st.marks[h]]
<1>0. left = [st EXCEPT !.marks = marks]
  BY DEF Marked
<1> HIDE DEF left, marks
<1>1. /\ left.records = st.records /\ left.open = st.open /\ left.journals = st.journals
      /\ left.next = st.next /\ IsStore(left) /\ left.marks = marks
  BY <1>0 DEF Sound, IsStore
<1>2. ASSUME NEW h \in Holders
      PROVE  /\ Mark(h) \in Nat /\ Mark(h) < st.next /\ Mark(h) >= st.marks[h]
             /\ \A s \in evicted : h \in st.records[s].holders => s <= Mark(h)
  <2> DEFINE T == {st.marks[h], Newest(st, evicted, h)}
  <2>1. /\ Newest(st, evicted, h) \in Nat /\ Newest(st, evicted, h) < st.next
        /\ \A s \in evicted : h \in st.records[s].holders => s <= Newest(st, evicted, h)
    BY NewestFacts
  <2>2. st.marks[h] \in Nat /\ st.marks[h] < st.next /\ st.next - 1 \in Nat
    BY DEF Sound
  <2>3. T \subseteq Nat /\ T # {} /\ \A x \in T : x <= st.next - 1
    BY <2>1, <2>2 DEF Sound
  <2>4. Max(T) \in T /\ \A x \in T : x <= Max(T)
    <3> HIDE DEF T
    <3> QED BY <2>2, <2>3, GreatestNat, ZenonT(30)
  <2>5. \A s \in evicted : s \in Nat
    BY DEF Sound
  <2>6. Mark(h) \in T /\ st.marks[h] <= Mark(h) /\ Newest(st, evicted, h) <= Mark(h)
    BY <2>4
  <2> HIDE DEF Mark
  <2> QED BY <2>1, <2>2, <2>5, <2>6 DEF Sound
<1> HIDE DEF Mark
<1>3. left.marks \in [Holders -> Nat] /\ \A h \in Holders : left.marks[h] < left.next
  BY <1>1, <1>2 DEF Sound, marks
<1>4. Within(st, left)
  BY <1>1, <1>3 DEF Within, SameRevert, Sound
<1>5. /\ \A h \in Holders : left.marks[h] >= st.marks[h]
      /\ \A h \in hs : \A s \in evicted : h \in st.records[s].holders => s <= left.marks[h]
  BY <1>1, <1>2 DEF Sound, marks
<1> QED BY <1>1, <1>4, <1>5 DEF left

\* Wherever an eviction stops, only what was to be evicted is gone, and only once every
\* holder's mark covers it.
LEMMA EvictStopsFacts ==
  ASSUME NEW st, Sound(st), NEW evicted \in SUBSET DOMAIN st.records, NEW left \in EvictStops(st, evicted)
  PROVE  /\ Within(st, left)
         /\ left.open = st.open /\ left.journals = st.journals
         /\ \A h \in Holders : left.marks[h] >= st.marks[h]
         /\ \A s \in DOMAIN st.records \ DOMAIN left.records :
              s \in evicted /\ \A h \in Holders : h \in st.records[s].holders => s <= left.marks[h]
<1>1. CASE \E hs \in SUBSET Holders : left = Marked(st, evicted, hs)
  <2>1. PICK hs \in SUBSET Holders : left = Marked(st, evicted, hs)
    BY <1>1
  <2>2. /\ Within(st, left) /\ left.records = st.records
        /\ left.open = st.open /\ left.journals = st.journals
        /\ \A h \in Holders : left.marks[h] >= st.marks[h]
    BY <2>1, MarkedFacts, ZenonT(30)
  <2> QED BY <2>2
<1>2. CASE \E S \in SUBSET evicted : left = Deleted(Marked(st, evicted, Holders), S)
  <2> DEFINE mid == Marked(st, evicted, Holders)
  <2>1. PICK S \in SUBSET evicted : left = Deleted(mid, S)
    BY <1>2
  <2>2. /\ Within(st, mid) /\ mid.records = st.records
        /\ mid.open = st.open /\ mid.journals = st.journals
        /\ \A h \in Holders : mid.marks[h] >= st.marks[h]
        /\ \A h \in Holders : \A s \in evicted : h \in st.records[s].holders => s <= mid.marks[h]
    BY MarkedFacts
  <2> HIDE DEF mid
  <2>3. Sound(mid)
    BY <2>2, WithinSound
  <2>4. /\ Within(mid, left) /\ DOMAIN left.records = DOMAIN mid.records \ S
        /\ left.open = mid.open /\ left.journals = mid.journals /\ left.marks = mid.marks
    BY <2>1, <2>3, DeletedFacts
  <2>5. Within(st, left)
    BY <2>2, <2>4, WithinTransitive
  <2> QED BY <2>1, <2>2, <2>4, <2>5
<1> QED BY <1>1, <1>2 DEF EvictStops

\* A completed eviction is the last of its stops.
LEMMA EvictIsStop ==
  ASSUME NEW st, NEW evicted
  PROVE  Evict(st, evicted) \in EvictStops(st, evicted)
  BY DEF Evict, EvictStops

\* plan_eviction takes only what may be evicted.
LEMMA EvictionsEvictable ==
  ASSUME NEW st, NEW protect, NEW evicted \in Evictions(st, protect)
  PROVE  evicted \subseteq Evictable(st, protect) /\ evicted \in SUBSET DOMAIN st.records
  BY DEF Evictions, Evictable

\* What may be evicted is in no window and named by no journal.
LEMMA EvictableFacts ==
  ASSUME NEW st, Sound(st), NEW protect, NEW s \in Evictable(st, protect)
  PROVE  s \notin Named(st) /\ \A t \in DOMAIN st.open : s < st.open[t].from
<1>1. s \notin Named(st) /\ ~InWindow(st, s) /\ s \in DOMAIN st.records
  BY DEF Evictable
<1>2. s \in Nat /\ \A t \in DOMAIN st.open : st.open[t].from \in Nat
  BY <1>1 DEF Sound
<1> QED BY <1>1, <1>2 DEF InWindow

-----------------------------------------------------------------------------
(* Journals *)

\* clear_stack leaves what it does not come to, wherever it stops.
LEMMA ClearStopsFacts ==
  ASSUME NEW st, Sound(st), NEW h, NEW left \in ClearStops(st, h)
  PROVE  /\ Within(st, left) /\ left.records = st.records
         /\ left.open = st.open /\ left.marks = st.marks
<1>1. PICK S \in SUBSET StackOf(st, h) : left = [st EXCEPT !.journals = Minus(st.journals, S)]
  BY DEF ClearStops
<1>2. /\ left.records = st.records /\ left.open = st.open /\ left.marks = st.marks
      /\ left.next = st.next /\ IsStore(left) /\ left.journals = Minus(st.journals, S)
  BY <1>1 DEF Sound, IsStore
<1>3. Within(st, left)
  BY <1>2 DEF Within, SameRevert, Sound, Minus, Restrict
<1> QED BY <1>2, <1>3

\* A completed clear_stack leaves the holder no journal.
LEMMA ClearFacts ==
  ASSUME NEW st, Sound(st), NEW h
  PROVE  /\ Within(st, Clear(st, h)) /\ Clear(st, h).records = st.records
         /\ Clear(st, h).open = st.open /\ Clear(st, h).marks = st.marks
         /\ \A j \in DOMAIN Clear(st, h).journals : Clear(st, h).journals[j].holder # h
<1> DEFINE left == Clear(st, h)
<1>1. /\ left.records = st.records /\ left.open = st.open /\ left.marks = st.marks
      /\ left.next = st.next /\ IsStore(left) /\ left.journals = Minus(st.journals, StackOf(st, h))
  BY DEF Clear, Sound, IsStore
<1> HIDE DEF left
<1>2. Within(st, left)
  BY <1>1 DEF Within, SameRevert, Sound, Minus, Restrict
<1>3. \A j \in DOMAIN left.journals : left.journals[j].holder # h
  BY <1>1 DEF StackOf, Minus, Restrict
<1> QED BY <1>1, <1>2, <1>3 DEF left

\* Writing the state of a journal changes nothing else of it.
LEMMA WrittenFacts ==
  ASSUME NEW st, Sound(st), NEW id, NEW state, NEW left, left = Written(st, id, state)
  PROVE  /\ Within(st, left) /\ left.records = st.records
         /\ left.open = st.open /\ left.marks = st.marks
<1>1. /\ left.records = st.records /\ left.open = st.open /\ left.marks = st.marks
      /\ left.next = st.next /\ IsStore(left)
      /\ left.journals = [st.journals EXCEPT ![id].state = state]
  BY DEF Sound, IsStore, Written
<1>2. ASSUME NEW j \in DOMAIN left.journals
      PROVE  j \in DOMAIN st.journals /\ SameRevert(st.journals[j], left.journals[j])
  <2>1. j \in DOMAIN st.journals /\ IsJournal(st.journals[j])
    BY <1>1, <1>2 DEF Sound
  <2>2. left.journals[j] = IF j = id THEN [st.journals[j] EXCEPT !.state = state] ELSE st.journals[j]
    BY <1>1, <2>1
  <2> QED BY <2>1, <2>2 DEF SameRevert, IsJournal
<1>3. Within(st, left)
  BY <1>1, <1>2 DEF Within, Sound, SameRevert
<1> QED BY <1>1, <1>3

\* Settling a journal writes its state and perhaps clears the stack.
LEMMA SettledStopsFacts ==
  ASSUME NEW st, Sound(st), NEW id, NEW state, NEW left \in SettledStops(st, id, state)
  PROVE  /\ Within(st, left) /\ left.records = st.records
         /\ left.open = st.open /\ left.marks = st.marks
<1> DEFINE written == Written(st, id, state)
           h == written.journals[id].holder
<1>1. left = written \/ left \in ClearStops(written, h)
  BY DEF SettledStops
<1>2. /\ Within(st, written) /\ written.records = st.records
      /\ written.open = st.open /\ written.marks = st.marks
  BY WrittenFacts
<1> HIDE DEF written, h
<1>3. CASE left = written
  BY <1>2, <1>3
<1>4. CASE left \in ClearStops(written, h)
  <2>1. Sound(written)
    BY <1>2, WithinSound
  <2>2. /\ Within(written, left) /\ left.records = written.records
        /\ left.open = written.open /\ left.marks = written.marks
    BY <1>4, <2>1, ClearStopsFacts
  <2> QED BY <1>2, <2>2, WithinTransitive
<1> QED BY <1>1, <1>3, <1>4

\* acknowledge deletes only what the holder reverted, wherever it stops.
LEMMA AckStopsFacts ==
  ASSUME NEW st, Sound(st), NEW h, NEW left \in AckStops(st, h)
  PROVE  /\ Within(st, left) /\ left.open = st.open /\ left.marks = st.marks
         /\ \A s \in DOMAIN st.records \ DOMAIN left.records : s \in RevertedSeqs(st, h)
<1> DEFINE seqs == RevertedSeqs(st, h) \cap DOMAIN st.records
<1>1. CASE \E S \in SUBSET seqs : left = Deleted(st, S)
  <2>1. PICK S \in SUBSET seqs : left = Deleted(st, S)
    BY <1>1
  <2>2. /\ Within(st, left) /\ DOMAIN left.records = DOMAIN st.records \ S
        /\ left.open = st.open /\ left.marks = st.marks
    BY <2>1, DeletedFacts
  <2> QED BY <2>1, <2>2
<1>2. CASE left \in ClearStops(Deleted(st, seqs), h)
  <2> DEFINE mid == Deleted(st, seqs)
  <2>1. /\ Within(st, mid) /\ DOMAIN mid.records = DOMAIN st.records \ seqs
        /\ mid.open = st.open /\ mid.marks = st.marks
    BY DeletedFacts
  <2>2. Sound(mid)
    BY <2>1, WithinSound
  <2> HIDE DEF mid
  <2>3. /\ Within(mid, left) /\ left.records = mid.records
        /\ left.open = mid.open /\ left.marks = mid.marks
    BY <1>2, <2>2, ClearStopsFacts DEF mid
  <2>4. Within(st, left)
    BY <2>1, <2>3, WithinTransitive
  <2> QED BY <2>1, <2>3, <2>4
<1> QED BY <1>1, <1>2 DEF AckStops

\* A completed acknowledge also leaves the holder no journal.
LEMMA AckFacts ==
  ASSUME NEW st, Sound(st), NEW h
  PROVE  /\ Within(st, Ack(st, h)) /\ Ack(st, h).open = st.open /\ Ack(st, h).marks = st.marks
         /\ \A s \in DOMAIN st.records : s \in DOMAIN Ack(st, h).records \/ s \in RevertedSeqs(st, h)
         /\ \A s \in DOMAIN Ack(st, h).records : Ack(st, h).records[s] = st.records[s]
         /\ \A j \in DOMAIN Ack(st, h).journals : Ack(st, h).journals[j].holder # h
<1> DEFINE mid == Deleted(st, RevertedSeqs(st, h))
           left == Ack(st, h)
<1>1. /\ Within(st, mid) /\ DOMAIN mid.records = DOMAIN st.records \ RevertedSeqs(st, h)
      /\ \A s \in DOMAIN mid.records : mid.records[s] = st.records[s]
      /\ mid.open = st.open /\ mid.marks = st.marks
  BY DeletedFacts
<1>2. Sound(mid)
  BY <1>1, WithinSound
<1>3. left = Clear(mid, h)
  BY DEF Ack
<1> HIDE DEF mid, left
<1>4. /\ Within(mid, left) /\ left.records = mid.records
      /\ left.open = mid.open /\ left.marks = mid.marks
      /\ \A j \in DOMAIN left.journals : left.journals[j].holder # h
  BY <1>2, <1>3, ClearFacts
<1>5. Within(st, left)
  BY <1>1, <1>4, WithinTransitive
<1> QED BY <1>1, <1>4, <1>5 DEF left

\* Marking journals as disturbed changes nothing else of them.
LEMMA DisturbFacts ==
  ASSUME NEW st, Sound(st), NEW id, NEW left, left = [st EXCEPT !.journals = Disturb(st.journals, id)]
  PROVE  /\ Within(st, left) /\ left.records = st.records
         /\ left.open = st.open /\ left.marks = st.marks
<1>1. /\ left.records = st.records /\ left.open = st.open /\ left.marks = st.marks
      /\ left.next = st.next /\ IsStore(left) /\ left.journals = Disturb(st.journals, id)
  BY DEF Sound, IsStore
<1>2. ASSUME NEW j \in DOMAIN left.journals
      PROVE  j \in DOMAIN st.journals /\ SameRevert(st.journals[j], left.journals[j])
  <2> DEFINE d == st.journals[j].disturbed \/ j # id
  <2>1. j \in DOMAIN st.journals /\ IsJournal(st.journals[j])
    BY <1>1, <1>2 DEF Disturb, Sound
  <2>2. left.journals[j] = [st.journals[j] EXCEPT !.disturbed = d]
    BY <1>1, <2>1, Zenon DEF Disturb
  <2> HIDE DEF d
  <2> QED BY <2>1, <2>2 DEF SameRevert, IsJournal
<1>3. Within(st, left)
  BY <1>1, <1>2 DEF Within, Sound, SameRevert
<1> QED BY <1>1, <1>3

-----------------------------------------------------------------------------
(* Holders *)

\* A record with other holders is a record.
LEMMA WithHoldersFacts ==
  ASSUME NEW r, IsRecord(r), NEW hs \in SUBSET Holders
  PROVE  IsRecord(WithHolders(r, hs)) /\ WithHolders(r, hs).holders = hs
  BY DEF IsRecord, WithHolders

\* Holding more takes nothing away.
LEMMA HeldFacts ==
  ASSUME NEW st, Sound(st), NEW from, NEW to \in Holders, NEW k, NEW left, left = HeldUpTo(st, from, to, k)
  PROVE  /\ Within(st, left) /\ DOMAIN left.records = DOMAIN st.records
         /\ left.open = st.open /\ left.marks = st.marks
<1>1. /\ left.open = st.open /\ left.marks = st.marks /\ left.journals = st.journals
      /\ left.next = st.next /\ IsStore(left) /\ DOMAIN left.records = DOMAIN st.records
  BY ZenonT(30) DEF Sound, IsStore, HeldUpTo
<1>2. ASSUME NEW s \in DOMAIN st.records
      PROVE  IsRecord(left.records[s]) /\ st.records[s].holders \subseteq left.records[s].holders
  <2>1. IsRecord(st.records[s])
    BY DEF Sound
  <2>2. \/ left.records[s] = WithHolders(st.records[s], st.records[s].holders \cup {to})
        \/ left.records[s] = st.records[s]
    BY DEF Sound, IsStore, HeldUpTo
  <2>3. st.records[s].holders \cup {to} \in SUBSET Holders
    BY <2>1 DEF IsRecord
  <2> QED BY <2>1, <2>2, <2>3, WithHoldersFacts
<1>3. Within(st, left)
  BY <1>1, <1>2 DEF Within, Sound, SameRevert
<1> QED BY <1>1, <1>3

\* Raising a mark to a mark of the store takes nothing away.
LEMMA RaisedFacts ==
  ASSUME NEW st, Sound(st), NEW from \in Holders, NEW to \in Holders, NEW left,
         left = [st EXCEPT !.marks[to] = Max({st.marks[to], st.marks[from]})]
  PROVE  /\ Within(st, left) /\ left.records = st.records /\ left.open = st.open
         /\ \A h \in Holders : left.marks[h] >= st.marks[h]
<1> DEFINE T == {st.marks[to], st.marks[from]}
<1>1. T \subseteq Nat /\ T # {} /\ st.next - 1 \in Nat /\ \A x \in T : x <= st.next - 1
  BY DEF Sound
<1> DEFINE m == Max(T)
<1>2. m \in T /\ \A x \in T : x <= m
  <2> HIDE DEF T
  <2> QED BY <1>1, GreatestNat
<1>3. left = [st EXCEPT !.marks[to] = m]
  OBVIOUS
<1> HIDE DEF m
<1>4. /\ left.open = st.open /\ left.records = st.records /\ left.journals = st.journals
      /\ left.next = st.next /\ IsStore(left) /\ left.marks = [st.marks EXCEPT ![to] = m]
  BY <1>3, ZenonT(30) DEF Sound, IsStore
<1>5. m \in Nat /\ m < st.next /\ m >= st.marks[to]
  BY <1>1, <1>2 DEF Sound
<1>6. /\ left.marks \in [Holders -> Nat]
      /\ \A h \in Holders : left.marks[h] < left.next /\ left.marks[h] >= st.marks[h]
  <2>1. st.marks \in [Holders -> Nat] /\ st.next \in Nat /\ \A h \in Holders : st.marks[h] < st.next
    BY DEF Sound
  <2>2. left.marks \in [Holders -> Nat]
    BY <1>4, <1>5, <2>1
  <2>3. \A h \in Holders : left.marks[h] = IF h = to THEN m ELSE st.marks[h]
    BY <1>4, <2>1
  <2> QED BY <1>4, <1>5, <2>1, <2>2, <2>3
<1>7. Within(st, left)
  BY <1>4, <1>6, ZenonT(30) DEF Within, Sound, SameRevert
<1> QED BY <1>4, <1>6, <1>7

\* The loop of release drops a holder from records that no revert of it names. What goes was
\* held by nobody else and is in no window.
LEMMA ReleasedFacts ==
  ASSUME NEW st, Sound(st), NEW h, NEW S \in SUBSET DOMAIN st.records,
         \A j \in DOMAIN st.journals : st.journals[j].holder = h => S \cap st.journals[j].seqs = {},
         NEW left, left = Released(st, h, S)
  PROVE  /\ Within(st, left)
         /\ left.open = st.open /\ left.marks = st.marks /\ left.journals = st.journals
         /\ \A s \in DOMAIN st.records \ DOMAIN left.records :
              s \in S /\ st.records[s].holders = {h} /\ ~InWindow(st, s)
         /\ \A s \in S \cap DOMAIN left.records : h \notin left.records[s].holders
         /\ \A s \in DOMAIN left.records \ S : s \in DOMAIN st.records /\ left.records[s] = st.records[s]
<1> DEFINE gone == {s \in S : st.records[s].holders = {h} /\ ~InWindow(st, s)}
           kept == [s \in DOMAIN st.records \ gone |->
             IF s \in S THEN WithHolders(st.records[s], st.records[s].holders \ {h}) ELSE st.records[s]]
<1>1. left = [st EXCEPT !.records = kept]
  BY DEF Released
<1>2. DOMAIN kept = DOMAIN st.records \ gone
  OBVIOUS
<1>3. ASSUME NEW s \in DOMAIN kept
      PROVE  /\ IsRecord(kept[s])
             /\ s \in S => kept[s].holders = st.records[s].holders \ {h}
             /\ s \notin S => kept[s] = st.records[s]
  <2>1. s \in DOMAIN st.records /\ IsRecord(st.records[s])
    BY <1>3 DEF Sound
  <2>2. kept[s] = IF s \in S THEN WithHolders(st.records[s], st.records[s].holders \ {h}) ELSE st.records[s]
    BY <1>3
  <2>3. st.records[s].holders \ {h} \in SUBSET Holders
    BY <2>1 DEF IsRecord
  <2> HIDE DEF kept
  <2> QED BY <2>1, <2>2, <2>3, WithHoldersFacts
<1> HIDE DEF kept
<1>4. /\ left.open = st.open /\ left.marks = st.marks /\ left.journals = st.journals
      /\ left.next = st.next /\ IsStore(left) /\ left.records = kept
  BY <1>1 DEF Sound, IsStore
<1>5. ASSUME NEW j \in DOMAIN left.journals, NEW s \in left.journals[j].seqs \cap DOMAIN left.records,
             left.journals[j].holder \in st.records[s].holders
      PROVE  left.journals[j].holder \in left.records[s].holders
  BY <1>2, <1>3, <1>4, <1>5
<1>6. Within(st, left)
  BY <1>2, <1>3, <1>4, <1>5 DEF Within, Sound, SameRevert
<1>7. \A s \in DOMAIN st.records \ DOMAIN left.records :
        s \in S /\ st.records[s].holders = {h} /\ ~InWindow(st, s)
  BY <1>2, <1>4
<1>8. /\ \A s \in S \cap DOMAIN left.records : h \notin left.records[s].holders
      /\ \A s \in DOMAIN left.records \ S : s \in DOMAIN st.records /\ left.records[s] = st.records[s]
  BY <1>2, <1>3, <1>4
<1> QED BY <1>4, <1>6, <1>7, <1>8

\* The same of a holder that has no journal left, which releases some of what it holds; when
\* it releases all of it, it holds nothing.
LEMMA ReleasedRest ==
  ASSUME NEW st, Sound(st), NEW h, NEW S \in SUBSET HeldBy(st, h),
         \A j \in DOMAIN st.journals : st.journals[j].holder # h,
         NEW left, left = Released(st, h, S)
  PROVE  /\ Within(st, left)
         /\ left.open = st.open /\ left.marks = st.marks /\ left.journals = st.journals
         /\ \A s \in DOMAIN st.records \ DOMAIN left.records :
              st.records[s].holders = {h} /\ ~InWindow(st, s)
         /\ S = HeldBy(st, h) => \A s \in DOMAIN left.records : h \notin left.records[s].holders
<1>1. S \in SUBSET DOMAIN st.records
  BY DEF HeldBy
<1>2. \A j \in DOMAIN st.journals : st.journals[j].holder = h => S \cap st.journals[j].seqs = {}
  OBVIOUS
<1>3. /\ Within(st, left)
      /\ left.open = st.open /\ left.marks = st.marks /\ left.journals = st.journals
      /\ \A s \in DOMAIN st.records \ DOMAIN left.records :
           st.records[s].holders = {h} /\ ~InWindow(st, s)
      /\ \A s \in S \cap DOMAIN left.records : h \notin left.records[s].holders
      /\ \A s \in DOMAIN left.records \ S : s \in DOMAIN st.records /\ left.records[s] = st.records[s]
  BY <1>1, <1>2, ReleasedFacts
<1>4. ASSUME S = HeldBy(st, h), NEW s \in DOMAIN left.records PROVE h \notin left.records[s].holders
  <2>1. CASE s \in S
    BY <1>3, <2>1
  <2>2. CASE s \notin S
    <3>1. s \in DOMAIN st.records /\ left.records[s] = st.records[s]
      BY <1>3, <1>4, <2>2
    <3> QED BY <1>4, <2>2, <3>1 DEF HeldBy
  <2> QED BY <2>1, <2>2
<1> QED BY <1>3, <1>4

-----------------------------------------------------------------------------
(* The inductive invariant *)

\* What a plan names was counted. No journal and no stack has its identifier, and while the
\* stack it was made from stands, the journals of the stack name what it names.
PlansSound ==
  \A i \in DOMAIN plans :
    /\ \A s \in plans[i].seqs : s \in Nat /\ s < store.next
    /\ i \notin DOMAIN store.journals
    /\ \A k \in DOMAIN plans : i \notin plans[k].stack
    /\ plans[i].direction # "Revert" /\ plans[i].stack \subseteq DOMAIN store.journals =>
         \A s \in plans[i].seqs : \E j \in plans[i].stack :
           s \in store.journals[j].seqs /\ store.journals[j].holder = plans[i].holder

Inv == Sound(store) /\ PlansSound

\* The initial store is sound.
LEMMA InitInv == Init => Inv
<1> SUFFICES ASSUME Init PROVE Inv
  OBVIOUS
<1>1. /\ store.next = 1 /\ store.open = <<>> /\ store.records = <<>> /\ store.journals = <<>>
      /\ store.marks = [h \in Holders |-> 0] /\ IsStore(store)
  BY DEF Init, EmptyStore, IsStore
<1>2. DOMAIN <<>> = {}
  OBVIOUS
<1>3. Sound(store)
  BY <1>1, <1>2 DEF Sound
<1>4. PlansSound
  BY <1>2 DEF Init, PlansSound
<1> QED BY <1>3, <1>4 DEF Inv

\* A step that makes no plan and no journal, and counts no number back, keeps the plans sound.
LEMMA PlansKept ==
  ASSUME Inv, Sound(store'), store'.next >= store.next,
         \A j \in DOMAIN store'.journals :
           /\ j \in DOMAIN store.journals
           /\ store'.journals[j].seqs = store.journals[j].seqs
           /\ store'.journals[j].holder = store.journals[j].holder,
         \A i \in DOMAIN plans' : i \in DOMAIN plans /\ plans'[i] = plans[i]
  PROVE  Inv'
<1>1. store.next \in Nat /\ store'.next \in Nat
  BY DEF Inv, Sound
<1>2. ASSUME NEW i \in DOMAIN plans'
      PROVE  /\ \A s \in plans'[i].seqs : s \in Nat /\ s < store'.next
             /\ i \notin DOMAIN store'.journals
             /\ \A k \in DOMAIN plans' : i \notin plans'[k].stack
  BY <1>1, <1>2 DEF Inv, PlansSound
<1>3. ASSUME NEW i \in DOMAIN plans', plans'[i].direction # "Revert",
             plans'[i].stack \subseteq DOMAIN store'.journals, NEW s \in plans'[i].seqs
      PROVE  \E j \in plans'[i].stack :
               s \in store'.journals[j].seqs /\ store'.journals[j].holder = plans'[i].holder
  <2>1. PICK j \in plans[i].stack : s \in store.journals[j].seqs /\ store.journals[j].holder = plans[i].holder
    BY <1>3 DEF Inv, PlansSound
  <2>2. j \in plans'[i].stack /\ j \in DOMAIN store'.journals
    BY <1>3, <2>1
  <2> QED BY <1>3, <2>1, <2>2
<1>4. PlansSound'
  BY <1>2, <1>3 DEF PlansSound
<1> QED BY <1>4 DEF Inv

\* A step that only takes from the store and from the plans keeps the invariant.
LEMMA InvWithin ==
  ASSUME Inv, Within(store, store'),
         \A i \in DOMAIN plans' : i \in DOMAIN plans /\ plans'[i] = plans[i]
  PROVE  Inv'
<1>1. Sound(store')
  BY WithinSound DEF Inv
<1>2. store'.next >= store.next
  BY <1>1 DEF Inv, Within, Sound
<1>3. \A j \in DOMAIN store'.journals :
        /\ j \in DOMAIN store.journals
        /\ store'.journals[j].seqs = store.journals[j].seqs
        /\ store'.journals[j].holder = store.journals[j].holder
  BY DEF Within, SameRevert
<1> QED BY <1>1, <1>2, <1>3, PlansKept

-----------------------------------------------------------------------------
(* Recording *)

\* begin adds an open record that starts at the next number.
LEMMA BeginInv ==
  ASSUME Inv, NEW t, NEW h \in Holders, Begin(t, h)
  PROVE  Inv'
<1>1. PICK evicted \in Evictions(store, store.next) :
        LET st == Evict(store, evicted)
            open == [from |-> st.next, before |-> live, holder |-> h]
        IN  store' \in EvictStops(store, evicted) \cup {[st EXCEPT !.open = Plus(st.open, t, open)]}
  BY DEF Begin
<1> DEFINE mid == Evict(store, evicted)
           o == [from |-> mid.next, before |-> live, holder |-> h]
<1>2. evicted \in SUBSET DOMAIN store.records
  BY EvictionsEvictable
<1>3. Within(store, mid)
  BY <1>2, EvictIsStop, EvictStopsFacts DEF Inv
<1>4. \A i \in DOMAIN plans' : i \in DOMAIN plans /\ plans'[i] = plans[i]
  BY DEF Begin
<1>5. CASE store' \in EvictStops(store, evicted)
  <2>1. Within(store, store')
    BY <1>2, <1>5, EvictStopsFacts DEF Inv
  <2> QED BY <1>4, <2>1, InvWithin
<1>6. CASE store' = [mid EXCEPT !.open = Plus(mid.open, t, o)]
  <2> HIDE DEF mid, o
  <2>1. Sound(mid)
    BY <1>3, WithinSound DEF Inv
  <2>2. /\ store'.next = mid.next /\ store'.records = mid.records /\ store'.journals = mid.journals
        /\ store'.marks = mid.marks /\ store'.open = Plus(mid.open, t, o) /\ IsStore(store')
    BY <1>6, <2>1 DEF Sound, IsStore
  <2>3. o.from \in Nat /\ o.holder \in Holders
    BY <2>1 DEF Sound, o
  <2>4. \A u \in DOMAIN store'.open : store'.open[u].from \in Nat /\ store'.open[u].holder \in Holders
    <3>1. \A u \in DOMAIN mid.open : mid.open[u].from \in Nat /\ mid.open[u].holder \in Holders
      BY <2>1 DEF Sound
    <3> QED BY <2>2, <2>3, <3>1 DEF Plus
  <2>5. Sound(store')
    BY <2>1, <2>2, <2>4 DEF Sound
  <2>6. store'.next >= store.next
    BY <1>3, <2>2, <2>5 DEF Within, Sound
  <2>7. \A j \in DOMAIN store'.journals :
          /\ j \in DOMAIN store.journals
          /\ store'.journals[j].seqs = store.journals[j].seqs
          /\ store'.journals[j].holder = store.journals[j].holder
    BY <1>3, <2>2 DEF Within, SameRevert
  <2> QED BY <1>4, <2>5, <2>6, <2>7, PlansKept
<1> QED BY <1>1, <1>5, <1>6

\* finish makes a record.
LEMMA RebaseIsRecord ==
  ASSUME NEW st, NEW o, o.holder \in Holders
  PROVE  IsRecord(Rebase(st, o)) /\ Rebase(st, o).holders = {o.holder}
  BY ZenonT(30) DEF Rebase, IsRecord

\* Each durable step of finish leaves a sound store.
LEMMA CommitsSound ==
  ASSUME NEW st, Sound(st), NEW t, NEW record, IsRecord(record), NEW i \in 1..3
  PROVE  LET left == Commits(st, t, record)[i]
         IN  /\ Sound(left) /\ left.next = st.next + 1 /\ left.journals = st.journals
             /\ left.marks = st.marks /\ DOMAIN st.records \subseteq DOMAIN left.records
             /\ \A u \in DOMAIN left.open : u \in DOMAIN st.open /\ left.open[u] = st.open[u]
<1> DEFINE counted == [st EXCEPT !.next = st.next + 1]
           written == [counted EXCEPT !.records = Plus(counted.records, st.next, record)]
           closed == [written EXCEPT !.open = Minus(written.open, {t})]
           Good(left) == /\ Sound(left) /\ left.next = st.next + 1 /\ left.journals = st.journals
                         /\ left.marks = st.marks /\ DOMAIN st.records \subseteq DOMAIN left.records
                         /\ \A u \in DOMAIN left.open : u \in DOMAIN st.open /\ left.open[u] = st.open[u]
<1>1. Commits(st, t, record) = <<counted, written, closed>>
  BY DEF Commits
<1>2. /\ counted.next = st.next + 1 /\ counted.open = st.open /\ counted.records = st.records
      /\ counted.journals = st.journals /\ counted.marks = st.marks /\ IsStore(counted)
  BY DEF Sound, IsStore
<1>3. Good(counted)
  <2> HIDE DEF counted
  <2>1. \A s \in DOMAIN counted.records : s \in Nat /\ s < counted.next /\ IsRecord(counted.records[s])
    BY <1>2 DEF Sound
  <2>2. \A j \in DOMAIN counted.journals : \A s \in counted.journals[j].seqs :
          /\ s \in Nat /\ s < counted.next
          /\ s \in DOMAIN counted.records => counted.journals[j].holder \in counted.records[s].holders
    BY <1>2 DEF Sound
  <2>3. counted.marks \in [Holders -> Nat] /\ \A h \in Holders : counted.marks[h] < counted.next
    BY <1>2 DEF Sound
  <2> QED BY <1>2, <2>1, <2>2, <2>3 DEF Sound
<1> HIDE DEF counted
<1>4. /\ written.next = counted.next /\ written.open = counted.open
      /\ written.records = Plus(counted.records, st.next, record)
      /\ written.journals = counted.journals /\ written.marks = counted.marks /\ IsStore(written)
  BY <1>3 DEF Sound, IsStore
<1>5. Good(written)
  <2> HIDE DEF written
  <2>1. /\ DOMAIN written.records = DOMAIN counted.records \cup {st.next}
        /\ written.records[st.next] = record
        /\ \A s \in DOMAIN counted.records \ {st.next} : written.records[s] = counted.records[s]
    BY <1>4 DEF Plus
  <2>2. st.next \in Nat /\ st.next < written.next /\ st.next \notin DOMAIN counted.records
    BY <1>2, <1>4 DEF Sound
  <2>3. \A s \in DOMAIN written.records : s \in Nat /\ s < written.next /\ IsRecord(written.records[s])
    BY <1>3, <1>4, <2>1, <2>2 DEF Sound
  <2>4. \A j \in DOMAIN written.journals : \A s \in written.journals[j].seqs :
          /\ s \in Nat /\ s < written.next /\ s < st.next
          /\ s \in DOMAIN counted.records => written.journals[j].holder \in counted.records[s].holders
    BY <1>2, <1>3, <1>4 DEF Sound
  <2>5. \A j \in DOMAIN written.journals : \A s \in written.journals[j].seqs :
          s \in DOMAIN written.records => written.journals[j].holder \in written.records[s].holders
    BY <2>1, <2>2, <2>4
  <2> QED BY <1>2, <1>3, <1>4, <2>1, <2>3, <2>4, <2>5 DEF Sound
<1> HIDE DEF written
<1>6. /\ closed.next = written.next /\ closed.open = Minus(written.open, {t})
      /\ closed.records = written.records /\ closed.journals = written.journals
      /\ closed.marks = written.marks /\ IsStore(closed)
  BY <1>5 DEF Sound, IsStore
<1>7. Good(closed)
  <2> HIDE DEF closed
  <2>1. \A u \in DOMAIN closed.open : u \in DOMAIN written.open /\ closed.open[u] = written.open[u]
    BY <1>6 DEF Minus, Restrict
  <2> QED BY <1>5, <1>6, <2>1, ZenonT(30) DEF Sound
<1> HIDE DEF closed, Good
<1>8. Good(Commits(st, t, record)[i])
  BY <1>1, <1>3, <1>5, <1>7
<1> QED BY <1>8 DEF Good

\* finish counts, writes the record, closes the open record and evicts, wherever it stops.
LEMMA FinishInv ==
  ASSUME Inv, NEW t, Finish(t)
  PROVE  Inv'
<1> DEFINE record == Rebase(store, store.open[t])
           steps == Commits(store, t, record)
<1>1. \A i \in DOMAIN plans' : i \in DOMAIN plans /\ plans'[i] = plans[i]
  BY DEF Finish
<1>2. IsRecord(record)
  BY RebaseIsRecord DEF Inv, Sound, Finish
<1>3. ASSUME NEW i \in 1..3, NEW left, Within(steps[i], left), store' = left
      PROVE  Inv'
  <2>1. Sound(steps[i]) /\ steps[i].next = store.next + 1 /\ steps[i].journals = store.journals
    BY <1>2, CommitsSound DEF Inv
  <2> HIDE DEF steps
  <2>2. Sound(store')
    BY <1>3, <2>1, WithinSound
  <2>3. store'.next >= store.next
    BY <1>3, <2>1 DEF Within, Inv, Sound
  <2>4. \A j \in DOMAIN store'.journals :
          /\ j \in DOMAIN store.journals
          /\ store'.journals[j].seqs = store.journals[j].seqs
          /\ store'.journals[j].holder = store.journals[j].holder
    BY <1>3, <2>1 DEF Within, SameRevert
  <2> QED BY <1>1, <2>2, <2>3, <2>4, PlansKept
<1>4. CASE store' = [store EXCEPT !.open = Minus(store.open, {t})]
  <2>1. Within(store, store')
    BY <1>4 DEF Inv, Within, SameRevert, Sound, IsStore, Minus, Restrict
  <2> QED BY <1>1, <2>1, InvWithin
<1>5. CASE store' \in Range(steps)
  <2>1. PICK i \in 1..3 : store' = steps[i]
    BY <1>5 DEF Range, Commits
  <2>2. Sound(steps[i])
    BY <1>2, CommitsSound DEF Inv
  <2>3. Within(steps[i], steps[i])
    BY <2>2, WithinSelf
  <2> QED BY <1>3, <2>1, <2>3
<1>6. CASE \E evicted \in Evictions(steps[3], store.next) :
             store' \in EvictStops(steps[3], evicted) \cup {Evict(steps[3], evicted)}
  <2>1. PICK evicted \in Evictions(steps[3], store.next) : store' \in EvictStops(steps[3], evicted)
    BY <1>6, EvictIsStop
  <2>2. evicted \in SUBSET DOMAIN steps[3].records
    BY EvictionsEvictable
  <2>3. Sound(steps[3])
    BY <1>2, CommitsSound DEF Inv
  <2>4. Within(steps[3], store')
    BY <2>1, <2>2, <2>3, EvictStopsFacts
  <2> QED BY <1>3, <2>4
<1> QED BY <1>4, <1>5, <1>6 DEF Finish

-----------------------------------------------------------------------------
(* The other operations *)

\* Closing open records takes nothing else.
LEMMA ClosedFacts ==
  ASSUME NEW st, Sound(st), NEW S, NEW left, left = [st EXCEPT !.open = Minus(st.open, S)]
  PROVE  /\ Within(st, left) /\ left.records = st.records /\ left.journals = st.journals
         /\ left.marks = st.marks
<1>1. /\ left.next = st.next /\ left.open = Minus(st.open, S) /\ left.records = st.records
      /\ left.journals = st.journals /\ left.marks = st.marks /\ IsStore(left)
  BY DEF Sound, IsStore
<1>2. Within(st, left)
  BY <1>1 DEF Within, SameRevert, Sound, Minus, Restrict
<1> QED BY <1>1, <1>2

\* Abandoning, cleaning up, settling, acknowledging, releasing and holding only take from the
\* store, but for holders and marks.
LEMMA TakingWithin ==
  ASSUME Inv, \/ Cleanup \/ Settle
              \/ \E h \in Holders : Abandon(h) \/ Acknowledge(h) \/ Release(h) \/ ReleaseAll(h)
              \/ \E from, to \in Holders : Hold(from, to)
  PROVE  Within(store, store') /\ plans' = plans
<1>0. Sound(store)
  BY DEF Inv
<1>1. CASE Cleanup
  <2>1. PICK stale \in SUBSET DOMAIN store.open :
          LET st == [store EXCEPT !.open = Minus(store.open, stale)]
          IN  store' \in UNION {EvictStops(st, evicted) : evicted \in SUBSET Evictable(st, MaxSeq + 1)}
    BY <1>1 DEF Cleanup
  <2> DEFINE st == [store EXCEPT !.open = Minus(store.open, stale)]
  <2>2. Within(store, st)
    BY <1>0, ClosedFacts
  <2>3. PICK evicted \in SUBSET Evictable(st, MaxSeq + 1) : store' \in EvictStops(st, evicted)
    BY <2>1
  <2> HIDE DEF st
  <2>4. Sound(st) /\ evicted \in SUBSET DOMAIN st.records
    BY <1>0, <2>2, WithinSound DEF Evictable
  <2>5. Within(st, store')
    BY <2>3, <2>4, EvictStopsFacts
  <2> QED BY <1>1, <2>2, <2>5, WithinTransitive DEF Cleanup
<1>2. CASE Settle
  BY <1>0, <1>2, SettledStopsFacts DEF Settle
<1>3. ASSUME NEW h \in Holders, Abandon(h) PROVE Within(store, store') /\ plans' = plans
  BY <1>0, <1>3, ClosedFacts DEF Abandon
<1>4. ASSUME NEW h \in Holders, Acknowledge(h) PROVE Within(store, store') /\ plans' = plans
  BY <1>0, <1>4, AckStopsFacts DEF Acknowledge
<1>5. ASSUME NEW h \in Holders, Release(h) PROVE Within(store, store') /\ plans' = plans
  <2>1. PICK S \in SUBSET (HeldBy(store, h) \ Named(store)) : store' = Released(store, h, S)
    BY <1>5 DEF Release
  <2>2. S \in SUBSET DOMAIN store.records /\ \A j \in DOMAIN store.journals : S \cap store.journals[j].seqs = {}
    BY DEF HeldBy, Named
  <2> QED BY <1>0, <1>5, <2>1, <2>2, ReleasedFacts DEF Release
<1>6. ASSUME NEW h \in Holders, ReleaseAll(h) PROVE Within(store, store') /\ plans' = plans
  <2> DEFINE st == Ack(store, h)
             done == Released(st, h, HeldBy(st, h))
  <2>1. plans' = plans
    BY <1>6 DEF ReleaseAll
  <2>2. /\ Within(store, st) /\ Sound(st)
        /\ \A j \in DOMAIN st.journals : st.journals[j].holder # h
    BY <1>0, AckFacts, WithinSound
  <2> HIDE DEF st
  <2>3. ASSUME NEW S \in SUBSET HeldBy(st, h) PROVE Within(store, Released(st, h, S))
    <3>1. Within(st, Released(st, h, S))
      BY <2>2, ReleasedRest
    <3> QED BY <2>2, <3>1, WithinTransitive
  <2>4. CASE store' \in AckStops(store, h)
    BY <1>0, <2>1, <2>4, AckStopsFacts
  <2>5. CASE \E S \in SUBSET HeldBy(st, h) : store' = Released(st, h, S)
    BY <2>1, <2>3, <2>5
  <2>6. CASE store' = [done EXCEPT !.marks[h] = 0]
    <3>1. Within(store, done)
      BY <2>3
    <3>2. Sound(done)
      BY <1>0, <3>1, WithinSound
    <3> HIDE DEF done
    <3>3. Within(done, store')
      <4>1. /\ store'.next = done.next /\ store'.open = done.open /\ store'.records = done.records
            /\ store'.journals = done.journals /\ store'.marks = [done.marks EXCEPT ![h] = 0] /\ IsStore(store')
        BY <2>6, <3>2 DEF Sound, IsStore
      <4>2. done.marks \in [Holders -> Nat] /\ done.next \in Nat /\ done.next > 0 /\ \A i \in Holders : done.marks[i] < done.next
        BY <3>2 DEF Sound
      <4>3. store'.marks \in [Holders -> Nat] /\ \A i \in Holders : store'.marks[i] < store'.next
        BY <4>1, <4>2
      <4> QED BY <3>2, <4>1, <4>3 DEF Within, SameRevert, Sound
    <3> QED BY <2>1, <3>1, <3>3, WithinTransitive
  <2> QED BY <1>6, <2>4, <2>5, <2>6 DEF ReleaseAll, st, done
<1>7. ASSUME NEW from \in Holders, NEW to \in Holders, Hold(from, to) PROVE Within(store, store') /\ plans' = plans
  <2> DEFINE all == HeldUpTo(store, from, to, MaxSeq + 1)
  <2>1. /\ plans' = plans
        /\ \/ \E k \in 1..(MaxSeq + 1) : store' = HeldUpTo(store, from, to, k)
           \/ store' = [all EXCEPT !.marks[to] = Max({all.marks[to], all.marks[from]})]
    BY <1>7 DEF Hold
  <2>2. \A k : Within(store, HeldUpTo(store, from, to, k))
    BY <1>0, HeldFacts
  <2>3. CASE \E k \in 1..(MaxSeq + 1) : store' = HeldUpTo(store, from, to, k)
    BY <2>1, <2>2, <2>3
  <2>4. CASE store' = [all EXCEPT !.marks[to] = Max({all.marks[to], all.marks[from]})]
    <3>1. Within(store, all) /\ Sound(all)
      BY <1>0, <2>2, WithinSound
    <3> HIDE DEF all
    <3>2. Within(all, store')
      BY <2>4, <3>1, RaisedFacts
    <3> QED BY <2>1, <3>1, <3>2, WithinTransitive
  <2> QED BY <2>1, <2>3, <2>4
<1> QED BY <1>1, <1>2, <1>3, <1>4, <1>5, <1>6, <1>7

\* Forgetting a plan, publishing, ending a revert, a crash and a write only take from the
\* store and from the plans.
LEMMA PublishingInv ==
  ASSUME Inv, \/ Complete \/ Refuse \/ Crash
              \/ \E id \in Reverts : Forget(id)
              \/ \E p \in Paths : Publish(p) \/ Uncertain(p) \/ \E c \in Contents[p] : Write(p, c)
  PROVE  Within(store, store') /\ Inv' /\ store'.records = store.records /\ store'.marks = store.marks
<1>0. Sound(store)
  BY DEF Inv
<1>1. \A i \in DOMAIN plans' : i \in DOMAIN plans /\ plans'[i] = plans[i]
  <2>1. ASSUME NEW id \in Reverts, Forget(id) PROVE \A i \in DOMAIN plans' : i \in DOMAIN plans /\ plans'[i] = plans[i]
    BY <2>1 DEF Forget, Minus, Restrict
  <2>2. CASE plans' = <<>>
    BY <2>2
  <2>3. CASE plans' = plans
    BY <2>3
  <2> QED BY <2>1, <2>2, <2>3, ZenonT(30) DEF Complete, Refuse, Crash, Publish, Uncertain, Write
<1>2. Within(store, store') /\ store'.records = store.records /\ store'.marks = store.marks
  <2>1. CASE Complete
    BY <1>0, <2>1, SettledStopsFacts DEF Complete
  <2>2. CASE Refuse
    <3>1. CASE store' = Written(store, run.id, "Partial")
      BY <1>0, <3>1, WrittenFacts
    <3>2. CASE store' = [store EXCEPT !.journals = Minus(store.journals, {run.id})]
      <4>1. /\ store'.next = store.next /\ store'.open = store.open /\ store'.records = store.records
            /\ store'.journals = Minus(store.journals, {run.id}) /\ store'.marks = store.marks /\ IsStore(store')
        BY <1>0, <3>2 DEF Sound, IsStore
      <4> QED BY <1>0, <4>1 DEF Within, SameRevert, Sound, Minus, Restrict
    <3> QED BY <2>2, <3>1, <3>2 DEF Refuse
  <2>3. CASE Crash \/ \E id \in Reverts : Forget(id)
    BY <1>0, <2>3, WithinSelf, ZenonT(30) DEF Crash, Forget
  <2>4. ASSUME NEW p \in Paths, Publish(p) \/ \E c \in Contents[p] : Write(p, c)
        PROVE  Within(store, store') /\ store'.records = store.records /\ store'.marks = store.marks
    <3>1. \E id : store' = [store EXCEPT !.journals = Disturb(store.journals, id)]
      BY <2>4, ZenonT(30) DEF Publish, Write, Changed
    <3> QED BY <1>0, <3>1, DisturbFacts
  <2>5. ASSUME NEW p \in Paths, Uncertain(p)
        PROVE  Within(store, store') /\ store'.records = store.records /\ store'.marks = store.marks
    <3> DEFINE mid == [store EXCEPT !.journals = Disturb(store.journals, "none")]
    <3>1. Within(store, mid) /\ mid.records = store.records /\ mid.marks = store.marks
      BY <1>0, DisturbFacts
    <3>2. Sound(mid)
      BY <1>0, <3>1, WithinSound
    <3>3. store' = Written(mid, run.id, "Indeterminate")
      BY <2>5 DEF Uncertain
    <3> HIDE DEF mid
    <3>4. Within(mid, store') /\ store'.records = mid.records /\ store'.marks = mid.marks
      BY <3>2, <3>3, WrittenFacts
    <3> QED BY <3>1, <3>4, WithinTransitive
  <2> QED BY <2>1, <2>2, <2>3, <2>4, <2>5
<1> QED BY <1>1, <1>2, InvWithin

\* A prepared revert names what its holder holds, a prepared unrevert what the stack names.
LEMMA PrepareInv ==
  ASSUME Inv, NEW id \in Reverts, NEW h \in Holders,
         \/ \E seqs \in SUBSET DOMAIN store.records : PrepareRevert(id, h, seqs)
         \/ PrepareUnrevert(id, h)
  PROVE  Inv' /\ store' = store
<1>1. Fresh(id) /\ store' = store
  BY DEF PrepareRevert, PrepareUnrevert
<1>2. PICK plan : /\ plans' = Plus(plans, id, plan)
                  /\ \A s \in plan.seqs : s \in Nat /\ s < store.next
                  /\ plan.stack \subseteq DOMAIN store.journals
                  /\ plan.direction # "Revert" =>
                       \A s \in plan.seqs : \E j \in plan.stack :
                         s \in store.journals[j].seqs /\ store.journals[j].holder = plan.holder
  <2>1. CASE \E seqs \in SUBSET DOMAIN store.records : PrepareRevert(id, h, seqs)
    <3>1. PICK seqs \in SUBSET DOMAIN store.records : PrepareRevert(id, h, seqs)
      BY <2>1
    <3> DEFINE plan == [holder |-> h, direction |-> "Revert", seqs |-> seqs,
                        stack |-> {}, todo |-> Todo(store, seqs, "Revert")]
    <3>2. plans' = Plus(plans, id, plan)
      BY <3>1 DEF PrepareRevert, Planned
    <3>3. \A s \in seqs : s \in Nat /\ s < store.next
      BY DEF Inv, Sound
    <3>4. plan.seqs = seqs /\ plan.stack = {} /\ plan.direction = "Revert"
      OBVIOUS
    <3> HIDE DEF plan
    <3> QED BY <3>2, <3>3, <3>4
  <2>2. CASE PrepareUnrevert(id, h)
    <3> DEFINE seqs == RevertedSeqs(store, h)
               stack == StackOf(store, h)
               plan == [holder |-> h, direction |-> "Unrevert", seqs |-> seqs,
                        stack |-> stack, todo |-> Todo(store, seqs, "Unrevert")]
    <3>1. plans' = Plus(plans, id, plan)
      BY <2>2 DEF PrepareUnrevert, Planned
    <3>2. plan.seqs = seqs /\ plan.stack = stack /\ plan.holder = h
      OBVIOUS
    <3> HIDE DEF plan
    <3>3. stack \subseteq DOMAIN store.journals
      BY DEF StackOf
    <3>4. \A s \in seqs : \E j \in stack : s \in store.journals[j].seqs /\ store.journals[j].holder = h
      BY DEF RevertedSeqs, StackOf
    <3>5. \A s \in seqs : s \in Nat /\ s < store.next
      BY <3>3, <3>4 DEF Inv, Sound
    <3> QED BY <3>1, <3>2, <3>3, <3>4, <3>5
  <2> QED BY <2>1, <2>2
<1>3. /\ DOMAIN plans' = DOMAIN plans \cup {id} /\ plans'[id] = plan
      /\ \A i \in DOMAIN plans : i # id /\ plans'[i] = plans[i] /\ id \notin plans[i].stack
      /\ id \notin DOMAIN store.journals
  BY <1>1, <1>2 DEF Plus, Fresh
<1>4. \A i \in DOMAIN plans : i \notin plan.stack
  BY <1>2 DEF Inv, PlansSound
<1>5. PlansSound'
  BY <1>1, <1>2, <1>3, <1>4 DEF Inv, PlansSound
<1> QED BY <1>1, <1>5 DEF Inv

\* execute_revert writes a journal for what its plan named, which its holder holds: it holds
\* the records of a revert that is not stale, and those that the stack of an unrevert names.
LEMMA ExecuteInv ==
  ASSUME Inv, NEW id \in Reverts, Execute(id)
  PROVE  Inv' /\ store'.records = store.records /\ store'.marks = store.marks
<1> DEFINE plan == plans[id]
           journal == [holder |-> plan.holder, direction |-> plan.direction, seqs |-> plan.seqs,
                       state |-> "Publishing", disturbed |-> ~Fits(store, plan)]
           st == [store EXCEPT !.journals = Plus(store.journals, id, journal)]
<1>1. /\ id \in DOMAIN plans /\ PlanHolds(store, plan)
      /\ plans' = Minus(plans, {id})
      /\ store' \in SettledStops(st, id, "Completed") \/ store' = st
  BY DEF Execute
<1>2. journal.holder = plan.holder /\ journal.seqs = plan.seqs /\ IsJournal(journal)
  BY ZenonT(30) DEF IsJournal
<1> HIDE DEF journal
<1>3. /\ st.next = store.next /\ st.open = store.open /\ st.records = store.records
      /\ st.marks = store.marks /\ IsStore(st)
      /\ DOMAIN st.journals = DOMAIN store.journals \cup {id} /\ st.journals[id] = journal
      /\ \A j \in DOMAIN store.journals : j # id /\ st.journals[j] = store.journals[j]
  <2>1. /\ st.next = store.next /\ st.open = store.open /\ st.records = store.records
        /\ st.marks = store.marks /\ IsStore(st) /\ st.journals = Plus(store.journals, id, journal)
    BY DEF Inv, Sound, IsStore
  <2>2. id \notin DOMAIN store.journals
    BY <1>1 DEF Inv, PlansSound
  <2> HIDE DEF st
  <2> QED BY <2>1, <2>2 DEF Plus
<1> HIDE DEF st
<1>4. ASSUME NEW s \in plan.seqs
      PROVE  /\ s \in Nat /\ s < store.next
             /\ s \in DOMAIN store.records => plan.holder \in store.records[s].holders
  <2>1. s \in Nat /\ s < store.next
    BY <1>1, <1>4 DEF Inv, PlansSound
  <2>2. CASE plan.direction = "Revert"
    BY <1>1, <1>4, <2>1, <2>2 DEF PlanHolds
  <2>3. CASE plan.direction # "Revert"
    <3>1. plan.stack = StackOf(store, plan.holder)
      BY <1>1, <2>3 DEF PlanHolds
    <3>2. plan.stack \subseteq DOMAIN store.journals
      BY <3>1 DEF StackOf
    <3>3. PICK j \in plan.stack : s \in store.journals[j].seqs /\ store.journals[j].holder = plan.holder
      BY <1>1, <1>4, <2>3, <3>2 DEF Inv, PlansSound
    <3> QED BY <2>1, <3>2, <3>3 DEF Inv, Sound
  <2> QED BY <2>2, <2>3
<1>5. Sound(st)
  <2>1. \A j \in DOMAIN st.journals : IsJournal(st.journals[j])
    BY <1>2, <1>3 DEF Inv, Sound
  <2>2. ASSUME NEW j \in DOMAIN st.journals, NEW s \in st.journals[j].seqs
        PROVE  /\ s \in Nat /\ s < st.next
               /\ s \in DOMAIN st.records => st.journals[j].holder \in st.records[s].holders
    <3>1. CASE j = id
      BY <1>2, <1>3, <1>4, <2>2, <3>1
    <3>2. CASE j \in DOMAIN store.journals
      BY <1>3, <2>2, <3>2 DEF Inv, Sound
    <3> QED BY <1>3, <3>1, <3>2
  <2> QED BY <1>3, <2>1, <2>2 DEF Inv, Sound
<1>6. Within(st, store') /\ store'.records = st.records /\ store'.marks = st.marks
  BY <1>1, <1>5, WithinSelf, SettledStopsFacts
<1>7. Sound(store')
  BY <1>5, <1>6, WithinSound
<1>8. PlansSound'
  <2>1. /\ DOMAIN plans' = DOMAIN plans \ {id}
        /\ \A i \in DOMAIN plans' : plans'[i] = plans[i]
    BY <1>1 DEF Minus, Restrict
  <2>2. /\ store'.next = store.next
        /\ \A j \in DOMAIN store'.journals : j \in DOMAIN store.journals \cup {id}
        /\ \A j \in DOMAIN store'.journals : j # id =>
             store'.journals[j].seqs = store.journals[j].seqs /\ store'.journals[j].holder = store.journals[j].holder
    BY <1>3, <1>6 DEF Within, SameRevert
  <2>3. \A i \in DOMAIN plans : id \notin plans[i].stack
    BY <1>1 DEF Inv, PlansSound
  <2>4. ASSUME NEW i \in DOMAIN plans'
        PROVE  /\ \A s \in plans'[i].seqs : s \in Nat /\ s < store'.next
               /\ i \notin DOMAIN store'.journals
               /\ \A k \in DOMAIN plans' : i \notin plans'[k].stack
    BY <2>1, <2>2, <2>4 DEF Inv, PlansSound
  <2>5. ASSUME NEW i \in DOMAIN plans', plans'[i].direction # "Revert",
               plans'[i].stack \subseteq DOMAIN store'.journals, NEW s \in plans'[i].seqs
        PROVE  \E j \in plans'[i].stack :
                 s \in store'.journals[j].seqs /\ store'.journals[j].holder = plans'[i].holder
    <3>1. i \in DOMAIN plans /\ plans'[i] = plans[i]
      BY <2>1, <2>5
    <3>2. plans[i].stack \subseteq DOMAIN store.journals
      BY <2>2, <2>3, <2>5, <3>1
    <3>3. PICK j \in plans[i].stack : s \in store.journals[j].seqs /\ store.journals[j].holder = plans[i].holder
      BY <2>5, <3>1, <3>2 DEF Inv, PlansSound
    <3>4. j # id /\ j \in DOMAIN store'.journals
      BY <2>3, <2>5, <3>1, <3>3
    <3> QED BY <2>2, <3>1, <3>3, <3>4
  <2> QED BY <2>4, <2>5 DEF PlansSound
<1> QED BY <1>3, <1>6, <1>7, <1>8 DEF Inv

\* Every step keeps the invariant.
LEMMA NextInv == Inv /\ [Next]_vars => Inv'
<1> SUFFICES ASSUME Inv, [Next]_vars PROVE Inv'
  OBVIOUS
<1>1. ASSUME NEW t \in Tickets, NEW h \in Holders, Begin(t, h) PROVE Inv'
  BY <1>1, BeginInv
<1>2. ASSUME NEW t \in Tickets, Finish(t) PROVE Inv'
  BY <1>2, FinishInv
<1>3. CASE \/ Cleanup \/ Settle
           \/ \E h \in Holders : Abandon(h) \/ Acknowledge(h) \/ Release(h) \/ ReleaseAll(h)
           \/ \E from, to \in Holders : Hold(from, to)
  BY <1>3, TakingWithin, InvWithin
<1>4. CASE \/ Complete \/ Refuse \/ Crash
           \/ \E id \in Reverts : Forget(id)
           \/ \E p \in Paths : Publish(p) \/ Uncertain(p) \/ \E c \in Contents[p] : Write(p, c)
  BY <1>4, PublishingInv
<1>5. ASSUME NEW id \in Reverts, NEW h \in Holders,
             \/ \E seqs \in SUBSET DOMAIN store.records : PrepareRevert(id, h, seqs)
             \/ PrepareUnrevert(id, h)
      PROVE  Inv'
  BY <1>5, PrepareInv
<1>6. ASSUME NEW id \in Reverts, Execute(id) PROVE Inv'
  BY <1>6, ExecuteInv
<1>7. CASE UNCHANGED vars
  BY <1>7 DEF vars, Inv, PlansSound
<1> QED BY <1>1, <1>2, <1>3, <1>4, <1>5, <1>6, <1>7, ZenonT(60) DEF Next

\* The invariant holds of every behavior.
LEMMA SpecInv == Spec => []Inv
<1>1. Init => Inv
  BY InitInv
<1>2. Inv /\ [Next]_vars => Inv'
  BY NextInv
<1> QED BY <1>1, <1>2, PTL DEF Spec

\* Sequence numbers are used once, whatever finish, eviction and hold leave half done.
THEOREM ChangesSeqsNeverReused == Spec => []SeqsNeverReused
<1>1. Inv => SeqsNeverReused
  <2> SUFFICES ASSUME Inv, NEW s \in DOMAIN store.records \cup Named(store) \cup Range(store.marks)
               PROVE  s < store.next
    BY DEF SeqsNeverReused
  <2>1. CASE s \in DOMAIN store.records
    BY <2>1 DEF Inv, Sound
  <2>2. CASE s \in Named(store)
    BY <2>2 DEF Named, Inv, Sound
  <2>3. CASE s \in Range(store.marks)
    <3>1. PICK h \in DOMAIN store.marks : s = store.marks[h]
      BY <2>3 DEF Range
    <3> QED BY <3>1 DEF Inv, Sound
  <2> QED BY <2>1, <2>2, <2>3
<1> QED BY <1>1, SpecInv, PTL

\* What a pending revert names is held by its holder, however holders come and go.
THEOREM ChangesPendingHeld == Spec => []PendingHeld
<1>1. Inv => PendingHeld
  BY DEF Inv, Sound, PendingHeld
<1> QED BY <1>1, SpecInv, PTL

-----------------------------------------------------------------------------
(* What leaves the store *)

\* A record that an eviction takes is in no window of the store it leaves and named by none of
\* its journals, and it is marked.
LEMMA EvictedLeave ==
  ASSUME NEW st, Sound(st), NEW protect, NEW evicted \in SUBSET Evictable(st, protect),
         NEW left \in EvictStops(st, evicted), NEW s \in DOMAIN st.records \ DOMAIN left.records
  PROVE  /\ s \notin Named(left)
         /\ \A t \in DOMAIN left.open : s < left.open[t].from
         /\ \A h \in st.records[s].holders : s <= left.marks[h]
<1>1. evicted \in SUBSET DOMAIN st.records
  BY DEF Evictable
<1>2. /\ left.open = st.open /\ left.journals = st.journals
      /\ s \in evicted /\ \A h \in Holders : h \in st.records[s].holders => s <= left.marks[h]
  BY <1>1, EvictStopsFacts
<1>3. st.records[s].holders \subseteq Holders
  BY ZenonT(30) DEF Sound, IsRecord
<1>4. s \notin Named(st) /\ \A t \in DOMAIN st.open : s < st.open[t].from
  BY <1>2, EvictableFacts
<1> QED BY <1>2, <1>3, <1>4 DEF Named

\* What begin, finish and cleanup take was evicted.
LEMMA RetentionLeave ==
  ASSUME Inv, \/ \E t \in Tickets, h \in Holders : Begin(t, h)
              \/ \E t \in Tickets : Finish(t)
              \/ Cleanup,
         NEW s \in Leaving
  PROVE  /\ s \notin Named(store')
         /\ \A t \in DOMAIN store'.open : s < store'.open[t].from
         /\ \A h \in store.records[s].holders : s <= store'.marks[h]
<1>0. s \in DOMAIN store.records /\ s \notin DOMAIN store'.records /\ s \in Nat /\ s < store.next
  BY DEF Leaving, Inv, Sound
<1>1. ASSUME NEW t \in Tickets, NEW h \in Holders, Begin(t, h)
      PROVE  /\ s \notin Named(store')
             /\ \A u \in DOMAIN store'.open : s < store'.open[u].from
             /\ \A i \in store.records[s].holders : s <= store'.marks[i]
  <2>1. PICK evicted \in Evictions(store, store.next) :
          LET st == Evict(store, evicted)
              open == [from |-> st.next, before |-> live, holder |-> h]
          IN  store' \in EvictStops(store, evicted) \cup {[st EXCEPT !.open = Plus(st.open, t, open)]}
    BY <1>1 DEF Begin
  <2> DEFINE mid == Evict(store, evicted)
             o == [from |-> mid.next, before |-> live, holder |-> h]
  <2>2. evicted \in SUBSET Evictable(store, store.next) /\ evicted \in SUBSET DOMAIN store.records
    BY EvictionsEvictable
  <2>3. CASE store' \in EvictStops(store, evicted)
    BY <1>0, <2>2, <2>3, EvictedLeave DEF Inv
  <2>4. CASE store' = [mid EXCEPT !.open = Plus(mid.open, t, o)]
    <3>1. mid \in EvictStops(store, evicted)
      BY EvictIsStop
    <3>2. Within(store, mid) /\ Sound(mid)
      BY <2>2, <3>1, EvictStopsFacts, WithinSound DEF Inv
    <3>3. o.from = mid.next
      OBVIOUS
    <3> HIDE DEF mid, o
    <3>4. /\ store'.next = mid.next /\ store'.records = mid.records /\ store'.journals = mid.journals
          /\ store'.marks = mid.marks /\ store'.open = Plus(mid.open, t, o)
      BY <2>4, <3>2 DEF Sound, IsStore
    <3>5. /\ s \notin Named(mid)
          /\ \A u \in DOMAIN mid.open : s < mid.open[u].from
          /\ \A i \in store.records[s].holders : s <= mid.marks[i]
      BY <1>0, <2>2, <3>1, <3>4, EvictedLeave DEF Inv
    <3>6. s < o.from
      BY <1>0, <3>2, <3>3 DEF Within
    <3>7. \A u \in DOMAIN store'.open : s < store'.open[u].from
      BY <3>4, <3>5, <3>6 DEF Plus
    <3> QED BY <3>4, <3>5, <3>7 DEF Named
  <2> QED BY <2>1, <2>3, <2>4
<1>2. ASSUME NEW t \in Tickets, Finish(t)
      PROVE  /\ s \notin Named(store')
             /\ \A u \in DOMAIN store'.open : s < store'.open[u].from
             /\ \A i \in store.records[s].holders : s <= store'.marks[i]
  <2> DEFINE record == Rebase(store, store.open[t])
             steps == Commits(store, t, record)
  <2>1. IsRecord(record)
    BY <1>2, RebaseIsRecord DEF Inv, Sound, Finish
  <2>2. \A i \in 1..3 : Sound(steps[i]) /\ DOMAIN store.records \subseteq DOMAIN steps[i].records
    BY <2>1, CommitsSound, ZenonT(30) DEF Inv
  <2>3. store' \notin Range(steps)
    <3> SUFFICES ASSUME store' \in Range(steps) PROVE FALSE
      OBVIOUS
    <3>1. PICK i \in 1..3 : store' = steps[i]
      BY DEF Range, Commits
    <3> QED BY <1>0, <2>2, <3>1
  <2>4. store' # [store EXCEPT !.open = Minus(store.open, {t})]
    BY <1>0, ClosedFacts DEF Inv
  <2>5. PICK evicted \in Evictions(steps[3], store.next) : store' \in EvictStops(steps[3], evicted)
    BY <1>2, <2>3, <2>4, EvictIsStop DEF Finish
  <2>6. evicted \in SUBSET Evictable(steps[3], store.next)
    BY EvictionsEvictable
  <2>7. steps[3].records[s].holders = store.records[s].holders
    <3>1. steps[3].records = Plus(store.records, store.next, record)
      BY ZenonT(30) DEF Commits, Inv, Sound, IsStore
    <3> HIDE DEF record, steps
    <3> QED BY <1>0, <3>1 DEF Plus
  <2> HIDE DEF record, steps
  <2>8. s \in DOMAIN steps[3].records \ DOMAIN store'.records /\ Sound(steps[3])
    BY <1>0, <2>2
  <2> QED BY <2>5, <2>6, <2>7, <2>8, EvictedLeave
<1>3. CASE Cleanup
  <2>1. PICK stale \in SUBSET DOMAIN store.open :
          LET st == [store EXCEPT !.open = Minus(store.open, stale)]
          IN  store' \in UNION {EvictStops(st, evicted) : evicted \in SUBSET Evictable(st, MaxSeq + 1)}
    BY <1>3 DEF Cleanup
  <2> DEFINE st == [store EXCEPT !.open = Minus(store.open, stale)]
  <2>2. PICK evicted \in SUBSET Evictable(st, MaxSeq + 1) : store' \in EvictStops(st, evicted)
    BY <2>1
  <2>3. Sound(st) /\ st.records = store.records
    BY ClosedFacts, WithinSound DEF Inv
  <2> HIDE DEF st
  <2> QED BY <1>0, <2>2, <2>3, EvictedLeave
<1> QED BY <1>1, <1>2, <1>3

\* What release takes was held by its last holder, is in no window, and is named by no
\* journal that stands: a journal of somebody else would make them another holder.
LEMMA ReleaseLeave ==
  ASSUME Inv, NEW h \in Holders, Release(h) \/ ReleaseAll(h), NEW s \in Leaving
  PROVE  \/ ReleaseAll(h) /\ s \in RevertedSeqs(store, h)
         \/ /\ store.records[s].holders = {h}
            /\ s \notin Named(store')
            /\ \A t \in DOMAIN store'.open : s < store'.open[t].from
<1>0. s \in DOMAIN store.records /\ s \notin DOMAIN store'.records /\ s \in Nat /\ s < store.next
  BY DEF Leaving, Inv, Sound
<1>1. Sound(store) /\ \A t \in DOMAIN store.open : store.open[t].from \in Nat
  BY DEF Inv, Sound
<1>2. CASE Release(h)
  <2>1. PICK S \in SUBSET (HeldBy(store, h) \ Named(store)) : store' = Released(store, h, S)
    BY <1>2 DEF Release
  <2>2. S \in SUBSET DOMAIN store.records /\ \A j \in DOMAIN store.journals : S \cap store.journals[j].seqs = {}
    BY DEF HeldBy, Named
  <2>3. /\ store'.open = store.open /\ store'.journals = store.journals
        /\ s \in S /\ store.records[s].holders = {h} /\ ~InWindow(store, s)
    BY <1>0, <1>1, <2>1, <2>2, ReleasedFacts
  <2>4. s \notin Named(store')
    BY <2>2, <2>3 DEF Named
  <2>5. \A t \in DOMAIN store'.open : s < store'.open[t].from
    BY <1>0, <1>1, <2>3 DEF InWindow
  <2> QED BY <2>3, <2>4, <2>5
<1>3. CASE ReleaseAll(h)
  <2> DEFINE st == Ack(store, h)
             done == Released(st, h, HeldBy(st, h))
  <2>1. /\ Within(store, st) /\ Sound(st) /\ st.open = store.open
        /\ \A r \in DOMAIN store.records : r \in DOMAIN st.records \/ r \in RevertedSeqs(store, h)
        /\ \A r \in DOMAIN st.records : st.records[r] = store.records[r]
        /\ \A j \in DOMAIN st.journals : st.journals[j].holder # h
    BY AckFacts, WithinSound DEF Inv
  <2>2. CASE store' \in AckStops(store, h)
    BY <1>0, <1>3, <2>2, AckStopsFacts DEF Inv
  <2>3. CASE s \in RevertedSeqs(store, h)
    BY <1>3, <2>3
  <2>4. ASSUME NEW S \in SUBSET HeldBy(st, h), NEW left, left = Released(st, h, S),
               store'.records = left.records, store'.open = left.open, store'.journals = left.journals,
               s \notin RevertedSeqs(store, h)
        PROVE  /\ store.records[s].holders = {h}
               /\ s \notin Named(store')
               /\ \A t \in DOMAIN store'.open : s < store'.open[t].from
    <3> HIDE DEF st
    <3>1. s \in DOMAIN st.records /\ st.records[s] = store.records[s]
      BY <1>0, <2>1, <2>4
    <3>2. /\ left.open = st.open /\ left.journals = st.journals
          /\ \A r \in DOMAIN st.records \ DOMAIN left.records : st.records[r].holders = {h} /\ ~InWindow(st, r)
      BY <2>1, <2>4, ReleasedRest
    <3>3. st.records[s].holders = {h} /\ ~InWindow(st, s)
      BY <1>0, <2>4, <3>1, <3>2
    <3>4. \A j \in DOMAIN st.journals : \A r \in st.journals[j].seqs :
            r \in DOMAIN st.records => st.journals[j].holder \in st.records[r].holders
      BY <2>1 DEF Sound
    <3>5. \A j \in DOMAIN st.journals : s \notin st.journals[j].seqs
      BY <2>1, <3>1, <3>3, <3>4
    <3>6. s \notin Named(store')
      BY <2>4, <3>2, <3>5 DEF Named
    <3>7. \A t \in DOMAIN store'.open : s < store'.open[t].from
      <4>1. store'.open = store.open
        BY <2>1, <2>4, <3>2
      <4>2. \A t \in DOMAIN store.open : ~(store.open[t].from <= s)
        BY <2>1, <3>3 DEF InWindow
      <4> QED BY <1>0, <1>1, <4>1, <4>2
    <3> QED BY <3>1, <3>3, <3>6, <3>7
  <2>5. CASE \E S \in SUBSET HeldBy(st, h) : store' = Released(st, h, S)
    BY <2>3, <2>4, <2>5
  <2>6. CASE store' = [done EXCEPT !.marks[h] = 0]
    <3>1. IsStore(done)
      <4> HIDE DEF st
      <4>1. Within(st, done)
        BY <2>1, ReleasedRest
      <4> QED BY <4>1, ZenonT(30) DEF Within
    <3> HIDE DEF done
    <3>2. store'.records = done.records /\ store'.open = done.open /\ store'.journals = done.journals
      BY <2>6, <3>1 DEF IsStore
    <3> QED BY <2>3, <2>4, <3>2 DEF done
  <2> QED BY <1>3, <2>2, <2>5, <2>6 DEF ReleaseAll
<1> QED BY <1>2, <1>3

\* No other step takes a record.
LEMMA OthersKeep ==
  ASSUME Inv, [Next]_vars, Leaving # {}
  PROVE  \/ \E t \in Tickets, h \in Holders : Begin(t, h)
         \/ \E t \in Tickets : Finish(t)
         \/ Cleanup
         \/ \E h \in Holders : Acknowledge(h) \/ Release(h) \/ ReleaseAll(h)
<1>0. Sound(store)
  BY DEF Inv
<1>1. ASSUME NEW h \in Holders, Abandon(h) PROVE FALSE
  BY <1>0, <1>1, ClosedFacts DEF Abandon, Leaving
<1>2. CASE Settle
  BY <1>0, <1>2, SettledStopsFacts, ZenonT(30) DEF Settle, Leaving
<1>3. ASSUME NEW from \in Holders, NEW to \in Holders, Hold(from, to) PROVE FALSE
  <2> DEFINE all == HeldUpTo(store, from, to, MaxSeq + 1)
  <2>1. \/ \E k \in 1..(MaxSeq + 1) : store' = HeldUpTo(store, from, to, k)
        \/ store' = [all EXCEPT !.marks[to] = Max({all.marks[to], all.marks[from]})]
    BY <1>3 DEF Hold
  <2>2. \A k : LET left == HeldUpTo(store, from, to, k)
               IN  Within(store, left) /\ DOMAIN left.records = DOMAIN store.records
    BY <1>0, HeldFacts
  <2>3. Sound(all)
    BY <1>0, <2>2, WithinSound
  <2>4. CASE store' = [all EXCEPT !.marks[to] = Max({all.marks[to], all.marks[from]})]
    <3> HIDE DEF all
    <3>1. store'.records = all.records
      BY <2>3, <2>4, RaisedFacts
    <3>2. DOMAIN all.records = DOMAIN store.records
      BY <2>2 DEF all
    <3> QED BY <3>1, <3>2 DEF Leaving
  <2> QED BY <2>1, <2>2, <2>4 DEF Leaving
<1>4. CASE \/ Complete \/ Refuse \/ Crash
           \/ \E id \in Reverts : Forget(id)
           \/ \E p \in Paths : Publish(p) \/ Uncertain(p) \/ \E c \in Contents[p] : Write(p, c)
  BY <1>4, PublishingInv DEF Leaving
<1>5. ASSUME NEW id \in Reverts, NEW h \in Holders,
             \/ \E seqs \in SUBSET DOMAIN store.records : PrepareRevert(id, h, seqs)
             \/ PrepareUnrevert(id, h)
      PROVE  FALSE
  BY <1>5, PrepareInv DEF Leaving
<1>6. ASSUME NEW id \in Reverts, Execute(id) PROVE FALSE
  BY <1>6, ExecuteInv DEF Leaving
<1>7. CASE UNCHANGED vars
  BY <1>7 DEF vars, Leaving
<1> QED BY <1>1, <1>2, <1>3, <1>4, <1>5, <1>6, <1>7, ZenonT(60) DEF Next

\* What a pending revert names or a window needs leaves only by being acknowledged. This is
\* where PendingHeld is needed: release looks at the holders of a record, not at journals.
THEOREM ChangesNeededStay == Spec => NeededStay
<1>1. Inv /\ [Next]_vars => [KeepsNeeded]_vars
  <2> SUFFICES ASSUME Inv, [Next]_vars, NEW s \in Leaving
               PROVE  \/ Acknowledges(s)
                      \/ /\ s \notin Named(store')
                         /\ \A t \in DOMAIN store'.open : s < store'.open[t].from
    BY DEF KeepsNeeded
  <2>1. CASE \/ \E t \in Tickets, h \in Holders : Begin(t, h)
             \/ \E t \in Tickets : Finish(t)
             \/ Cleanup
    BY <2>1, RetentionLeave
  <2>2. ASSUME NEW h \in Holders, Acknowledge(h) PROVE Acknowledges(s)
    <3>1. s \in RevertedSeqs(store, h)
      BY <2>2, AckStopsFacts DEF Acknowledge, Leaving, Inv
    <3> QED BY <2>2, <3>1 DEF Acknowledges
  <2>3. ASSUME NEW h \in Holders, Release(h) \/ ReleaseAll(h)
        PROVE  \/ Acknowledges(s)
               \/ /\ s \notin Named(store')
                  /\ \A t \in DOMAIN store'.open : s < store'.open[t].from
    BY <2>3, ReleaseLeave DEF Acknowledges
  <2> QED BY <2>1, <2>2, <2>3, OthersKeep
<1> QED BY <1>1, SpecInv, PTL DEF Spec, NeededStay

\* A mark goes only with everything its holder held.
LEMMA MarksGo ==
  ASSUME Inv, [Next]_vars, NEW h \in Holders, store'.marks[h] < store.marks[h]
  PROVE  HeldBy(store', h) = {}
<1>0. Sound(store) /\ store.marks[h] \in Nat
  BY DEF Inv, Sound
<1>1. store'.marks # store.marks
  BY <1>0
<1>2. ASSUME NEW evicted \in SUBSET DOMAIN store.records, NEW left \in EvictStops(store, evicted)
      PROVE  left.marks[h] >= store.marks[h] /\ IsStore(left) /\ left.marks \in [Holders -> Nat]
  BY <1>0, <1>2, EvictStopsFacts DEF Within
<1>3. ASSUME NEW t \in Tickets, NEW i \in Holders, Begin(t, i) PROVE FALSE
  <2>1. PICK evicted \in Evictions(store, store.next) :
          LET st == Evict(store, evicted)
              open == [from |-> st.next, before |-> live, holder |-> i]
          IN  store' \in EvictStops(store, evicted) \cup {[st EXCEPT !.open = Plus(st.open, t, open)]}
    BY <1>3 DEF Begin
  <2> DEFINE mid == Evict(store, evicted)
             o == [from |-> mid.next, before |-> live, holder |-> i]
  <2>2. mid \in EvictStops(store, evicted) /\ evicted \in SUBSET DOMAIN store.records
    BY EvictIsStop, EvictionsEvictable
  <2> HIDE DEF mid
  <2>3. CASE store' = [mid EXCEPT !.open = Plus(mid.open, t, o)]
    <3> HIDE DEF o
    <3>1. store'.marks = mid.marks
      BY <1>2, <2>2, <2>3 DEF IsStore
    <3>2. mid.marks[h] >= store.marks[h] /\ mid.marks[h] \in Nat
      BY <1>2, <2>2
    <3> QED BY <1>0, <3>1, <3>2
  <2>4. CASE store' \in EvictStops(store, evicted)
    <3>1. store'.marks[h] >= store.marks[h] /\ store'.marks[h] \in Nat
      BY <1>2, <2>2, <2>4
    <3> QED BY <1>0, <3>1
  <2> QED BY <2>1, <2>3, <2>4 DEF mid
<1>4. ASSUME NEW t \in Tickets, Finish(t) PROVE FALSE
  <2> DEFINE record == Rebase(store, store.open[t])
             steps == Commits(store, t, record)
  <2>1. IsRecord(record)
    BY <1>4, RebaseIsRecord DEF Inv, Sound, Finish
  <2>2. \A i \in 1..3 : Sound(steps[i]) /\ steps[i].marks = store.marks
    BY <1>0, <2>1, CommitsSound
  <2>3. store' \notin Range(steps)
    <3> SUFFICES ASSUME store' \in Range(steps) PROVE FALSE
      OBVIOUS
    <3>1. PICK i \in 1..3 : store' = steps[i]
      BY DEF Range, Commits
    <3> QED BY <1>1, <2>2, <3>1
  <2>4. store' # [store EXCEPT !.open = Minus(store.open, {t})]
    BY <1>0, <1>1, ClosedFacts
  <2>5. PICK evicted \in Evictions(steps[3], store.next) : store' \in EvictStops(steps[3], evicted)
    BY <1>4, <2>3, <2>4, EvictIsStop DEF Finish
  <2>6. evicted \in SUBSET DOMAIN steps[3].records
    BY EvictionsEvictable
  <2> HIDE DEF record, steps
  <2>7. Within(steps[3], store') /\ \A i \in Holders : store'.marks[i] >= steps[3].marks[i]
    BY <2>2, <2>5, <2>6, EvictStopsFacts
  <2>8. store'.marks[h] \in Nat
    BY <2>7 DEF Within
  <2> QED BY <1>0, <2>2, <2>7, <2>8
<1>5. CASE Cleanup
  <2>1. PICK stale \in SUBSET DOMAIN store.open :
          LET st == [store EXCEPT !.open = Minus(store.open, stale)]
          IN  store' \in UNION {EvictStops(st, evicted) : evicted \in SUBSET Evictable(st, MaxSeq + 1)}
    BY <1>5 DEF Cleanup
  <2> DEFINE st == [store EXCEPT !.open = Minus(store.open, stale)]
  <2>2. PICK evicted \in SUBSET Evictable(st, MaxSeq + 1) : store' \in EvictStops(st, evicted)
    BY <2>1
  <2>3. Sound(st) /\ st.marks = store.marks
    BY <1>0, ClosedFacts, WithinSound
  <2> HIDE DEF st
  <2>4. evicted \in SUBSET DOMAIN st.records
    BY DEF Evictable
  <2>5. Within(st, store') /\ \A i \in Holders : store'.marks[i] >= st.marks[i]
    BY <2>2, <2>3, <2>4, EvictStopsFacts
  <2>6. store'.marks[h] \in Nat
    BY <2>5 DEF Within
  <2> QED BY <1>0, <2>3, <2>5, <2>6
<1>6. ASSUME NEW i \in Holders, Abandon(i) \/ Acknowledge(i) PROVE FALSE
  BY <1>0, <1>1, <1>6, ClosedFacts, AckStopsFacts DEF Abandon, Acknowledge
<1>7. ASSUME NEW i \in Holders, Release(i) PROVE FALSE
  <2>1. PICK S \in SUBSET (HeldBy(store, i) \ Named(store)) : store' = Released(store, i, S)
    BY <1>7 DEF Release
  <2>2. S \in SUBSET DOMAIN store.records /\ \A j \in DOMAIN store.journals : S \cap store.journals[j].seqs = {}
    BY DEF HeldBy, Named
  <2> QED BY <1>0, <1>1, <2>1, <2>2, ReleasedFacts
<1>8. ASSUME NEW i \in Holders, ReleaseAll(i) PROVE HeldBy(store', h) = {}
  <2> DEFINE st == Ack(store, i)
             done == Released(st, i, HeldBy(st, i))
  <2>1. /\ Sound(st) /\ st.marks = store.marks
        /\ \A j \in DOMAIN st.journals : st.journals[j].holder # i
    BY <1>0, AckFacts, WithinSound
  <2> HIDE DEF st
  <2>2. ASSUME NEW S \in SUBSET HeldBy(st, i), store' = Released(st, i, S) PROVE FALSE
    BY <1>1, <2>1, <2>2, ReleasedRest
  <2>3. store' \notin AckStops(store, i)
    BY <1>0, <1>1, AckStopsFacts
  <2>4. store' = [done EXCEPT !.marks[i] = 0]
    BY <1>8, <2>2, <2>3 DEF ReleaseAll, st
  <2>5. /\ Within(st, done) /\ done.marks = st.marks
        /\ \A s \in DOMAIN done.records : i \notin done.records[s].holders
    <3>1. done = Released(st, i, HeldBy(st, i)) /\ HeldBy(st, i) \in SUBSET HeldBy(st, i)
      OBVIOUS
    <3> HIDE DEF done
    <3> QED BY <2>1, <3>1, ReleasedRest
  <2> HIDE DEF done
  <2>6. store'.records = done.records /\ store'.marks = [done.marks EXCEPT ![i] = 0]
    BY <2>4, <2>5 DEF Within, IsStore
  <2>7. h = i
    <3>1. done.marks = store.marks /\ store.marks \in [Holders -> Nat]
      BY <1>0, <2>1, <2>5, ZenonT(30) DEF Sound
    <3>2. h # i => store'.marks[h] = store.marks[h]
      BY <2>6, <3>1
    <3> QED BY <1>0, <3>2
  <2> QED BY <2>5, <2>6, <2>7 DEF HeldBy
<1>9. ASSUME NEW from \in Holders, NEW to \in Holders, Hold(from, to) PROVE FALSE
  <2> DEFINE all == HeldUpTo(store, from, to, MaxSeq + 1)
  <2>1. \/ \E k \in 1..(MaxSeq + 1) : store' = HeldUpTo(store, from, to, k)
        \/ store' = [all EXCEPT !.marks[to] = Max({all.marks[to], all.marks[from]})]
    BY <1>9 DEF Hold
  <2>2. \A k : LET left == HeldUpTo(store, from, to, k)
               IN  Within(store, left) /\ left.marks = store.marks
    BY <1>0, HeldFacts
  <2>3. Sound(all) /\ all.marks = store.marks
    BY <1>0, <2>2, WithinSound
  <2>4. CASE store' = [all EXCEPT !.marks[to] = Max({all.marks[to], all.marks[from]})]
    <3> HIDE DEF all
    <3>1. Within(all, store') /\ \A i \in Holders : store'.marks[i] >= all.marks[i]
      BY <2>3, <2>4, RaisedFacts, ZenonT(30)
    <3>2. store'.marks[h] >= all.marks[h] /\ store'.marks[h] \in Nat
      BY <3>1 DEF Within
    <3> QED BY <1>0, <2>3, <3>2
  <2> QED BY <1>1, <2>1, <2>2, <2>4
<1>10. CASE Settle
  BY <1>0, <1>1, <1>10, SettledStopsFacts DEF Settle
<1>11. CASE \/ Complete \/ Refuse \/ Crash
            \/ \E id \in Reverts : Forget(id)
            \/ \E p \in Paths : Publish(p) \/ Uncertain(p) \/ \E c \in Contents[p] : Write(p, c)
  BY <1>1, <1>11, PublishingInv
<1>12. ASSUME NEW id \in Reverts, NEW i \in Holders,
              \/ \E seqs \in SUBSET DOMAIN store.records : PrepareRevert(id, i, seqs)
              \/ PrepareUnrevert(id, i)
       PROVE  FALSE
  BY <1>1, <1>12, PrepareInv
<1>13. ASSUME NEW id \in Reverts, Execute(id) PROVE FALSE
  BY <1>1, <1>13, ExecuteInv
<1>14. CASE UNCHANGED vars
  BY <1>1, <1>14 DEF vars
<1> QED BY <1>3, <1>4, <1>5, <1>6, <1>7, <1>8, <1>9, <1>10, <1>11, <1>12, <1>13, <1>14, ZenonT(60) DEF Next

\* No record is evicted unnoted, wherever begin, finish or cleanup stops.
THEOREM ChangesEvictionsMarked == Spec => EvictionsMarked
<1>1. Inv /\ [Next]_vars => [MarksEvictions]_vars
  <2> SUFFICES ASSUME Inv, [Next]_vars PROVE MarksEvictions
    OBVIOUS
  <2>1. ASSUME NEW s \in Leaving
        PROVE  \/ Acknowledges(s)
               \/ \E h \in Holders : store.records[s].holders = {h} /\ (Release(h) \/ ReleaseAll(h))
               \/ \A h \in store.records[s].holders : s <= store'.marks[h]
    <3>1. CASE \/ \E t \in Tickets, h \in Holders : Begin(t, h)
               \/ \E t \in Tickets : Finish(t)
               \/ Cleanup
      BY <2>1, <3>1, RetentionLeave
    <3>2. ASSUME NEW h \in Holders, Acknowledge(h) PROVE Acknowledges(s)
      <4>1. s \in RevertedSeqs(store, h)
        BY <2>1, <3>2, AckStopsFacts DEF Acknowledge, Leaving, Inv
      <4> QED BY <3>2, <4>1 DEF Acknowledges
    <3>3. ASSUME NEW h \in Holders, Release(h) \/ ReleaseAll(h)
          PROVE  \/ Acknowledges(s)
                 \/ \E i \in Holders : store.records[s].holders = {i} /\ (Release(i) \/ ReleaseAll(i))
      BY <2>1, <3>3, ReleaseLeave DEF Acknowledges
    <3> QED BY <2>1, <3>1, <3>2, <3>3, OthersKeep
  <2>2. ASSUME NEW h \in Holders, store'.marks[h] < store.marks[h] PROVE HeldBy(store', h) = {}
    BY <2>2, MarksGo
  <2> QED BY <2>1, <2>2 DEF MarksEvictions
<1> QED BY <1>1, SpecInv, PTL DEF Spec, EvictionsMarked
=============================================================================
