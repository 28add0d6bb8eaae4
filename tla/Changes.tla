------------------------------ MODULE Changes -------------------------------
(***************************************************************************)
(* The change records of a workspace (crates/workspace-snapshot): calls    *)
(* are recorded from a capture before them to a capture after them, the    *)
(* records are held, released and evicted, and a holder's records can be   *)
(* reverted and the reverts undone, through journals that survive a crash. *)
(*                                                                         *)
(* Every operation runs under the store's lock, so nothing but the live    *)
(* workspace changes while it runs; but it is several durable steps, and   *)
(* a crash or a failed write may end it after any of them. An operation is *)
(* therefore the set of stores it may leave: the Stops of an unfinished    *)
(* one, and the store it makes when it completes. Removals are synced      *)
(* together at the end, so a stop may have lost any of them.               *)
(***************************************************************************)
EXTENDS Integers, FiniteSets, FiniteSetsExt, Functions

CONSTANTS
  Paths,     \* the paths of the workspace
  Contents,  \* [Paths -> the contents a path may hold, its absence one of them]
  Holders,   \* who may keep records
  Tickets,   \* tickets of open records, random in the code
  Reverts,   \* identifiers of reverts, random in the code
  MaxSeq     \* bound: records ever made

VARIABLES
  live,   \* the workspace: what each path holds
  store,  \* the change store
  plans,  \* prepared reverts, by identifier
  run     \* the revert that is publishing, or none

vars == <<live, store, plans, run>>

None == [id |-> "none"]
Seqs == 1..MaxSeq
Live == {l \in [Paths -> UNION {Contents[p] : p \in Paths}] : \A p \in Paths : l[p] \in Contents[p]}

\* open, records, journals and marks are the files of the store by name, next is next_seq.
EmptyStore ==
  [next |-> 1, open |-> <<>>, records |-> <<>>, journals |-> <<>>, marks |-> [h \in Holders |-> 0]]

Init ==
  /\ live \in Live
  /\ store = EmptyStore
  /\ plans = <<>>
  /\ run = None

\* f without the names in S.
Minus(f, S) == Restrict(f, DOMAIN f \ S)

\* f with x mapped to v.
Plus(f, x, v) == [y \in DOMAIN f \cup {x} |-> IF y = x THEN v ELSE f[y]]

Named(st) == UNION {st.journals[j].seqs : j \in DOMAIN st.journals}
StackOf(st, h) == {j \in DOMAIN st.journals : st.journals[j].holder = h}

\* reverted_seqs.
RevertedSeqs(st, h) ==
  UNION {st.journals[j].seqs : j \in {i \in StackOf(st, h) : st.journals[i].direction = "Revert"}}

\* What reading the journals back requires of each, StoredJournal::valid.
Readable(st) == \A j \in DOMAIN st.journals : st.journals[j].seqs # {}

-----------------------------------------------------------------------------
(* Retention *)

\* Kept::keeps: the record was committed while some open record ran.
InWindow(st, s) == \E t \in DOMAIN st.open : st.open[t].from <= s

\* Mutant: a record that a pending revert names is evicted.
EvictableNamed(st, protect) == {s \in DOMAIN st.records : s < protect /\ ~InWindow(st, s)}

\* Roots::evictable.
Evictable(st, protect) ==
  {s \in DOMAIN st.records : s < protect /\ ~InWindow(st, s) /\ s \notin Named(st)}

\* plan_eviction: the tombstones and some of the oldest of the others; how many depends on
\* sizes. The empty set is also a store with room enough.
Evictions(st, protect) ==
  LET evictable == Evictable(st, protect)
      tombs == {s \in evictable : st.records[s].holders = {}}
      held == evictable \ tombs
  IN  {{}} \cup {tombs \cup {s \in held : s < k} : k \in 1..(MaxSeq + 1)}

\* The newest of the evicted records that the holder held.
Newest(st, evicted, h) == Max({0} \cup {s \in evicted : h \in st.records[s].holders})

\* mark_evicted, for some of the holders.
Marked(st, evicted, hs) ==
  LET Mark(h) == Max({st.marks[h], Newest(st, evicted, h)})
  IN  [st EXCEPT !.marks = [h \in Holders |-> IF h \in hs THEN Mark(h) ELSE st.marks[h]]]

Deleted(st, S) == [st EXCEPT !.records = Minus(@, S)]

\* evict.
Evict(st, evicted) == Deleted(Marked(st, evicted, Holders), evicted)

\* Mutant: evict deletes before it marks.
EvictStopsLate(st, evicted) == {Deleted(st, S) : S \in SUBSET evicted}

EvictStops(st, evicted) ==
  {Marked(st, evicted, hs) : hs \in SUBSET Holders}
    \cup {Deleted(Marked(st, evicted, Holders), S) : S \in SUBSET evicted}

-----------------------------------------------------------------------------
(* Recording *)

\* begin: retention, a capture, and the open record.
Begin(t, h) ==
  /\ run = None
  /\ t \notin DOMAIN store.open
  /\ \E evicted \in Evictions(store, store.next) :
       /\ evicted # {} => Readable(store)
       /\ LET st == Evict(store, evicted)
              open == [from |-> st.next, before |-> live, holder |-> h]
          IN  store' \in EvictStops(store, evicted) \cup {[st EXCEPT !.open = Plus(@, t, open)]}
  /\ UNCHANGED <<live, plans, run>>

\* The changes of the records S to a path, by seq.
Chain(st, S, p) ==
  [s \in {r \in S : p \in DOMAIN st.records[r].changes} |-> st.records[s].changes[p]]

First(chain) == chain[Min(DOMAIN chain)]
Last(chain) == chain[Max(DOMAIN chain)]

\* Each change starts where the one before it ended.
Chains(chain) ==
  \A r, s \in DOMAIN chain :
    r < s /\ (\A q \in DOMAIN chain : q <= r \/ s <= q) => chain[r].after = chain[s].before

Unrecorded(st, S) == UNION {st.records[s].unrecorded : s \in S}

\* Mutant: a change starts where the call saw the path, whatever was committed meanwhile.
ChainedFromCapture(chain, before, after) ==
  IF chain = <<>> \/ Last(chain).after # after THEN {before} ELSE {}

\* Mutant: a change that the chain already accounts for is recorded again, from its end to itself.
ChainedFromEnd(chain, before, after) == IF chain = <<>> THEN {before} ELSE {Last(chain).after}

\* chained: where a change starts once the chain is accounted for; nowhere when the chain
\* already ends where the change does.
ChainedFrom(chain, before, after) ==
  IF chain = <<>> THEN {before}
  ELSE IF Last(chain).after # after THEN {Last(chain).after} ELSE {}

\* The chain breaks, or never passes what the call saw before.
Interleaved(chain, before) ==
  /\ chain # <<>>
  /\ \/ ~Chains(chain)
     \/ /\ First(chain).before # before
        /\ \A i \in DOMAIN chain : chain[i].after # before

\* finish, up to the record it commits: what changed from the capture before to what is live,
\* rebased onto the records committed since.
Rebase(st, o) ==
  LET window == {s \in DOMAIN st.records : s >= o.from}
      changed == {p \in Paths : o.before[p] # live[p]}
      lost == {p \in changed : \/ p \in Unrecorded(st, window)
                               \/ Interleaved(Chain(st, window, p), o.before[p])}
      From(p) == ChainedFrom(Chain(st, window, p), o.before[p], live[p])
      kept == {p \in changed \ lost : From(p) # {}}
  IN  [holders |-> {o.holder},
       changes |-> [p \in kept |-> [before |-> CHOOSE c \in From(p) : TRUE, after |-> live[p]]],
       unrecorded |-> lost]

\* Mutant: the record is written before the state that counts it.
CommitsRecordFirst(st, t, record) ==
  LET written == [st EXCEPT !.records = Plus(@, st.next, record)]
      counted == [written EXCEPT !.next = @ + 1]
  IN  <<written, counted, [counted EXCEPT !.open = Minus(@, {t})]>>

\* The durable steps of finish with a record: the state, the record, the open record.
Commits(st, t, record) ==
  LET counted == [st EXCEPT !.next = @ + 1]
      written == [counted EXCEPT !.records = Plus(@, st.next, record)]
  IN  <<counted, written, [written EXCEPT !.open = Minus(@, {t})]>>

Finish(t) ==
  /\ run = None
  /\ t \in DOMAIN store.open
  /\ LET record == Rebase(store, store.open[t])
         steps == Commits(store, t, record)
     IN  \/ /\ record.changes = <<>>
            /\ record.unrecorded = {}
            /\ store' = [store EXCEPT !.open = Minus(@, {t})]
         \/ /\ record.changes # <<>> \/ record.unrecorded # {}
            /\ store.next <= MaxSeq
            /\ \/ store' \in Range(steps)
               \/ \E evicted \in Evictions(steps[3], store.next) :
                    /\ Readable(store)
                    /\ store' \in EvictStops(steps[3], evicted) \cup {Evict(steps[3], evicted)}
  /\ UNCHANGED <<live, plans, run>>

\* abandon, and abandon_open_records_of, which may stop after some of them.
Abandon(h) ==
  /\ run = None
  /\ \E S \in SUBSET {t \in DOMAIN store.open : store.open[t].holder = h} :
       store' = [store EXCEPT !.open = Minus(@, S)]
  /\ UNCHANGED <<live, plans, run>>

\* execute_cleanup of a plan that named some stale open records and some records, of which it
\* takes those that may still go.
Cleanup ==
  /\ run = None
  /\ Readable(store)
  /\ \E stale \in SUBSET DOMAIN store.open :
       LET st == [store EXCEPT !.open = Minus(@, stale)]
       IN  store' \in UNION {EvictStops(st, evicted) : evicted \in SUBSET Evictable(st, MaxSeq + 1)}
  /\ UNCHANGED <<live, plans, run>>

-----------------------------------------------------------------------------
(* Reverts *)

Composed(st, seqs) ==
  LET Both(p) == Chain(st, seqs, p)
  IN  {p \in Paths : Both(p) # <<>> /\ p \notin Unrecorded(st, seqs) /\ Chains(Both(p))
                     /\ First(Both(p)).before # Last(Both(p)).after}

\* compose: from where to where a path goes.
Source(st, seqs, direction, p) ==
  IF direction = "Revert" THEN Last(Chain(st, seqs, p)).after ELSE First(Chain(st, seqs, p)).before
Target(st, seqs, direction, p) ==
  IF direction = "Revert" THEN First(Chain(st, seqs, p)).before ELSE Last(Chain(st, seqs, p)).after

\* plan: the paths that stand in the way of the revert, and those it publishes.
Conflicts(st, seqs, direction) ==
  Unrecorded(st, seqs)
    \cup {p \in Paths : ~Chains(Chain(st, seqs, p))}
    \cup {p \in Composed(st, seqs) : live[p] \notin {Source(st, seqs, direction, p),
                                                    Target(st, seqs, direction, p)}}

Todo(st, seqs, direction) ==
  [p \in {q \in Composed(st, seqs) : live[q] = Source(st, seqs, direction, q)} |->
     [source |-> live[p], target |-> Target(st, seqs, direction, p)]]

\* A plan with conflicts is only looked at: executing it is refused.
Planned(id, h, seqs, direction, stack) ==
  /\ Conflicts(store, seqs, direction) = {}
  /\ plans' = Plus(plans, id, [holder |-> h, direction |-> direction, seqs |-> seqs,
                               stack |-> stack, todo |-> Todo(store, seqs, direction)])

\* History: the journals other than the one of this revert no longer describe what only their
\* own steps did to the workspace.
Disturb(journals, id) == [j \in DOMAIN journals |-> [journals[j] EXCEPT !.disturbed = @ \/ j # id]]

\* clear_stack, which reads all the journals first and may stop after some of its holder's.
ClearStops(st, h) ==
  {[st EXCEPT !.journals = Minus(@, S)] : S \in SUBSET {j \in StackOf(st, h) : Readable(st)}}
Clear(st, h) == [st EXCEPT !.journals = Minus(@, StackOf(st, h))]

\* write_journal with a new state.
Written(st, id, state) == [st EXCEPT !.journals[id].state = state]

\* write_journal, and settled.
SettledStops(st, id, state) ==
  LET written == Written(st, id, state)
      journal == written.journals[id]
  IN  IF journal.direction = "Unrevert" /\ state = "Completed"
      THEN ClearStops(written, journal.holder) ELSE {written}

\* The journals can be read and no revert is publishing.
Idle == run = None /\ Readable(store)

\* prepare_revert, prepare_unrevert and execute_revert begin with settle: they wait here for
\* the step Settle. acknowledge and release begin with it too, but in a store opened without
\* a workspace it does nothing, and they run beside a journal that a crash left publishing.
Ready ==
  /\ Idle
  /\ \A j \in DOMAIN store.journals : store.journals[j].state # "Publishing"

\* Mutant: what is left to publish is not looked at.
ReconcileCompleted(st, j) ==
  IF ~(j.seqs \subseteq DOMAIN st.records) \/ Conflicts(st, j.seqs, j.direction) # {}
  THEN "Indeterminate" ELSE "Completed"

\* reconcile.
Reconcile(st, j) ==
  IF ~(j.seqs \subseteq DOMAIN st.records) \/ Conflicts(st, j.seqs, j.direction) # {}
  THEN "Indeterminate"
  ELSE IF Todo(st, j.seqs, j.direction) = <<>> THEN "Completed" ELSE "Partial"

\* settle.
Settle ==
  /\ run = None
  /\ Readable(store)
  /\ \E id \in DOMAIN store.journals :
       /\ store.journals[id].state = "Publishing"
       /\ store' \in SettledStops(store, id, Reconcile(store, store.journals[id]))
  /\ UNCHANGED <<live, plans, run>>

\* Identifiers are random: nothing remembers the one of a new plan.
Fresh(id) ==
  id \notin DOMAIN plans \cup DOMAIN store.journals \cup UNION {plans[i].stack : i \in DOMAIN plans}

\* prepare_revert.
PrepareRevert(id, h, seqs) ==
  /\ Ready
  /\ Fresh(id)
  /\ seqs # {}
  /\ \A s \in seqs : s \in DOMAIN store.records /\ h \in store.records[s].holders
  /\ seqs \cap Named(store) = {}
  /\ Planned(id, h, seqs, "Revert", {})
  /\ UNCHANGED <<live, store, run>>

\* prepare_unrevert.
PrepareUnrevert(id, h) ==
  LET seqs == RevertedSeqs(store, h)
  IN  /\ Ready
      /\ Fresh(id)
      /\ StackOf(store, h) # {}
      /\ seqs \subseteq DOMAIN store.records
      /\ Planned(id, h, seqs, "Unrevert", StackOf(store, h))
      /\ UNCHANGED <<live, store, run>>

\* A plan expires, is released or is refused.
Forget(id) ==
  /\ id \in DOMAIN plans
  /\ plans' = Minus(plans, {id})
  /\ UNCHANGED <<live, store, run>>

\* Mutant: what the plan was made from is not looked at again.
PlanTrusted(st, plan) == TRUE

\* The records and the stack of a plan are still as planned.
PlanHolds(st, plan) ==
  IF plan.direction = "Revert"
  THEN /\ \A s \in plan.seqs : s \in DOMAIN st.records /\ plan.holder \in st.records[s].holders
       /\ plan.seqs \cap Named(st) = {}
  ELSE plan.stack = StackOf(st, plan.holder)

\* History: a plan made now would be the same.
Fits(st, plan) ==
  /\ plan.seqs \subseteq DOMAIN st.records
  /\ Conflicts(st, plan.seqs, plan.direction) = {}
  /\ Todo(st, plan.seqs, plan.direction) = plan.todo

\* execute_revert, up to the journal, and all of it when there is nothing to publish.
Execute(id) ==
  LET plan == plans[id]
      journal == [holder |-> plan.holder, direction |-> plan.direction, seqs |-> plan.seqs,
                  state |-> "Publishing",
                  disturbed |-> ~Fits(store, plan)]
      st == [store EXCEPT !.journals = Plus(@, id, journal)]
  IN  /\ Ready
      /\ id \in DOMAIN plans
      /\ PlanHolds(store, plan)
      /\ plans' = Minus(plans, {id})
      /\ \/ /\ plan.todo = <<>>
            /\ store' \in SettledStops(st, id, "Completed")
            /\ UNCHANGED run
         \/ /\ plan.todo # <<>>
            /\ store' = st
            /\ run' = [id |-> id, planned |-> plan.todo, todo |-> plan.todo]
      /\ UNCHANGED live

Changed(p, c, id) ==
  /\ live' = [live EXCEPT ![p] = c]
  /\ store' = [store EXCEPT !.journals = Disturb(@, id)]

\* publish, one path: the entry is replaced while it holds what was planned from.
Publish(p) ==
  /\ run # None
  /\ p \in DOMAIN run.todo
  /\ live[p] = run.todo[p].source
  /\ Changed(p, run.todo[p].target, run.id)
  /\ run' = [run EXCEPT !.todo = Minus(@, {p})]
  /\ UNCHANGED plans

\* The end of execute_revert when everything is published.
Complete ==
  /\ run # None
  /\ run.todo = <<>>
  /\ store' \in SettledStops(store, run.id, "Completed")
  /\ run' = None
  /\ UNCHANGED <<live, plans>>

\* Mutant: the journal goes whatever was published.
RefuseForgetting ==
  /\ run # None
  /\ run.todo # <<>>
  /\ store' = [store EXCEPT !.journals = Minus(@, {run.id})]
  /\ run' = None
  /\ UNCHANGED <<live, plans>>

\* A path that changed, was cancelled or is out of reach stops the revert. Its journal goes
\* when nothing was published, unless a directory was made for a path to come.
Refuse ==
  /\ run # None
  /\ run.todo # <<>>
  /\ \/ store' = Written(store, run.id, "Partial")
     \/ /\ run.todo = run.planned
        /\ store' = [store EXCEPT !.journals = Minus(@, {run.id})]
  /\ run' = None
  /\ UNCHANGED <<live, plans>>

\* The publication of a path may or may not have happened.
Uncertain(p) ==
  /\ run # None
  /\ p \in DOMAIN run.todo
  /\ live[p] = run.todo[p].source
  /\ live' \in {live, [live EXCEPT ![p] = run.todo[p].target]}
  /\ store' = Written([store EXCEPT !.journals = Disturb(@, "none")], run.id, "Indeterminate")
  /\ run' = None
  /\ UNCHANGED plans

\* The process crashes or is killed, or it can no longer write the journal and keeps its plans.
Crash ==
  /\ run' = None
  /\ \/ plans' = <<>>
     \/ run # None /\ UNCHANGED plans
  /\ UNCHANGED <<live, store>>

\* Somebody changes the workspace: a call, a user, another program.
Write(p, c) ==
  /\ c # live[p]
  /\ Changed(p, c, "none")
  /\ UNCHANGED <<plans, run>>

\* acknowledge, which may stop after some of the records or some of the journals.
AckStops(st, h) ==
  LET seqs == RevertedSeqs(st, h) \cap DOMAIN st.records
  IN  {Deleted(st, S) : S \in SUBSET seqs} \cup ClearStops(Deleted(st, seqs), h)
Ack(st, h) == Clear(Deleted(st, RevertedSeqs(st, h)), h)

Acknowledge(h) ==
  /\ Idle
  /\ store' \in AckStops(store, h)
  /\ UNCHANGED <<live, plans, run>>

-----------------------------------------------------------------------------
(* Holders *)

HeldBy(st, h) == {s \in DOMAIN st.records : h \in st.records[s].holders}

WithHolders(record, hs) == [record EXCEPT !.holders = hs]

\* hold, up to the record k.
HeldUpTo(st, from, to, k) ==
  [st EXCEPT !.records = [s \in DOMAIN @ |->
     IF s < k /\ from \in @[s].holders THEN WithHolders(@[s], @[s].holders \cup {to}) ELSE @[s]]]

Hold(from, to) ==
  LET all == HeldUpTo(store, from, to, MaxSeq + 1)
  IN  /\ run = None
      /\ from # to
      /\ store' \in {HeldUpTo(store, from, to, k) : k \in 1..(MaxSeq + 1)} \cup
           {[all EXCEPT !.marks[to] = Max({@, all.marks[from]})]}
      /\ UNCHANGED <<live, plans, run>>

\* Mutant: a record goes with its last holder, whatever window it is in.
ReleasedFrom(st, h, S) ==
  LET gone == {s \in S : st.records[s].holders = {h}}
  IN  [st EXCEPT !.records = [s \in DOMAIN @ \ gone |->
         IF s \in S THEN WithHolders(@[s], @[s].holders \ {h}) ELSE @[s]]]

\* The loop of release: a record goes with its last holder unless a window needs it.
Released(st, h, S) ==
  LET gone == {s \in S : st.records[s].holders = {h} /\ ~InWindow(st, s)}
  IN  [st EXCEPT !.records = [s \in DOMAIN @ \ gone |->
         IF s \in S THEN WithHolders(@[s], @[s].holders \ {h}) ELSE @[s]]]

\* release of selected records, some of which it may not come to.
Release(h) ==
  /\ Idle
  /\ \E S \in SUBSET (HeldBy(store, h) \ Named(store)) : store' = Released(store, h, S)
  /\ UNCHANGED <<live, plans, run>>

\* release of everything, which acknowledges first.
ReleaseAll(h) ==
  LET st == Ack(store, h)
      done == Released(st, h, HeldBy(st, h))
  IN  /\ Idle
      /\ store' \in AckStops(store, h) \cup {Released(st, h, S) : S \in SUBSET HeldBy(st, h)}
                      \cup {[done EXCEPT !.marks[h] = 0]}
      /\ UNCHANGED <<live, plans, run>>

-----------------------------------------------------------------------------
Next ==
  \/ \E t \in Tickets, h \in Holders : Begin(t, h)
  \/ \E t \in Tickets : Finish(t)
  \/ \E h \in Holders : Abandon(h) \/ Acknowledge(h) \/ Release(h) \/ ReleaseAll(h)
  \/ \E from, to \in Holders : Hold(from, to)
  \/ \E id \in Reverts, h \in Holders :
       \/ \E seqs \in SUBSET DOMAIN store.records : PrepareRevert(id, h, seqs)
       \/ PrepareUnrevert(id, h)
  \/ \E id \in Reverts : Forget(id) \/ Execute(id)
  \/ \E p \in Paths : Publish(p) \/ Uncertain(p) \/ (\E c \in Contents[p] : Write(p, c))
  \/ Cleanup \/ Settle \/ Complete \/ Refuse \/ Crash

Spec == Init /\ [][Next]_vars

-----------------------------------------------------------------------------
Change == [before : UNION Range(Contents), after : UNION Range(Contents)]
States == {"Publishing", "Completed", "Partial", "Indeterminate"}

\* The store, the plans and the publication are made of what the code keeps in them.
TypeOK ==
  /\ live \in Live
  /\ store.next \in 1..(MaxSeq + 1)
  /\ DOMAIN store.open \subseteq Tickets
  /\ \A t \in DOMAIN store.open : store.open[t].from \in 1..store.next /\ store.open[t].before \in Live
  /\ DOMAIN store.records \subseteq Seqs
  /\ \A s \in DOMAIN store.records :
       LET record == store.records[s]
       IN  /\ record.holders \subseteq Holders
           /\ DOMAIN record.changes \subseteq Paths \ record.unrecorded
           /\ \A p \in DOMAIN record.changes :
                record.changes[p] \in Change /\ record.changes[p].before # record.changes[p].after
  /\ DOMAIN store.journals \subseteq Reverts
  /\ \A j \in DOMAIN store.journals : store.journals[j].state \in States
  /\ \A h \in Holders : store.marks[h] \in 0..MaxSeq

\* A sequence number is used once: whatever a crash left half committed, the next record gets
\* a number that no record, no journal and no mark of the store has.
SeqsNeverReused ==
  \A s \in DOMAIN store.records \cup Named(store) \cup Range(store.marks) : s < store.next

\* The records a pending revert names are held by the holder that made it, however other
\* holders come and go, so none is without a holder and none is released under it.
PendingHeld ==
  \A j \in DOMAIN store.journals :
    \A s \in store.journals[j].seqs \cap DOMAIN store.records :
      store.journals[j].holder \in store.records[s].holders

\* The step acknowledges the record.
Acknowledges(s) == \E h \in Holders : s \in RevertedSeqs(store, h) /\ (Acknowledge(h) \/ ReleaseAll(h))

Leaving == DOMAIN store.records \ DOMAIN store'.records

\* What somebody still needs stays: a record that a pending revert names, or that an open
\* record may be rebased onto, leaves the store only by being acknowledged, whoever releases
\* it, whatever retention and cleanup evict, and wherever a crash ended them.
KeepsNeeded ==
  \A s \in Leaving :
    \/ Acknowledges(s)
    \/ /\ s \notin Named(store')
       /\ \A t \in DOMAIN store'.open : s < store'.open[t].from

NeededStay == [][KeepsNeeded]_vars

\* No eviction goes unnoted: when a record leaves that was not released or acknowledged, the
\* mark of each of its holders covers it, also when a crash ends the eviction there, and a
\* mark only goes with everything its holder held.
MarksEvictions ==
  /\ \A s \in Leaving :
       \/ Acknowledges(s)
       \/ \E h \in Holders : store.records[s].holders = {h} /\ (Release(h) \/ ReleaseAll(h))
       \/ \A h \in store.records[s].holders : s <= store'.marks[h]
  /\ \A h \in Holders : store'.marks[h] < store.marks[h] => HeldBy(store', h) = {}

EvictionsMarked == [][MarksEvictions]_vars

\* A journal tells what happened to the workspace: as long as nobody else changed it, a
\* completed revert left every path where it should be, a partial one not all of them and
\* none anywhere else, and no crash leaves it indeterminate: settle finds out from the records
\* and the live files (execute_revert, reconcile).
JournalsTellTruth ==
  \A id \in DOMAIN store.journals :
    LET j == store.journals[id]
        paths == Composed(store, j.seqs)
        done == {p \in paths : live[p] = Target(store, j.seqs, j.direction, p)}
        undone == {p \in paths : live[p] = Source(store, j.seqs, j.direction, p)}
    IN  ~j.disturbed /\ j.seqs \subseteq DOMAIN store.records =>
          /\ j.state # "Indeterminate"
          /\ done \cup undone = paths
          /\ j.state = "Completed" => done = paths
          /\ j.state = "Partial" => done # paths

\* A revert is not forgotten half done: while nobody else changes the workspace, the journal
\* of the revert at work goes away only when none of the paths it was to publish was
\* published, or when all were and it was an unrevert (execute_revert, settled).
ForgetsNothingHalfDone ==
  \A id \in DOMAIN store.journals \ DOMAIN store'.journals :
    run # None /\ run.id = id /\ ~store.journals[id].disturbed =>
      \/ \A p \in DOMAIN run.planned : live[p] = run.planned[p].source
      \/ /\ store.journals[id].direction = "Unrevert"
         /\ \A p \in DOMAIN run.planned : live[p] = run.planned[p].target

NoneForgottenHalfDone == [][ForgetsNothingHalfDone]_vars

\* The records there were and the ones the step added, before any is evicted.
RecordsSeen == [s \in DOMAIN store.records \cup DOMAIN store'.records |->
                  IF s \in DOMAIN store.records THEN store.records[s] ELSE store'.records[s]]

\* What the call of an open record saw happen to a path is told by the records committed since
\* it began: one of them reports the path, or their changes lead, each from where the one
\* before it ended, past what the call saw first to what it saw last.
Told(o, p) ==
  LET seen == [store EXCEPT !.records = RecordsSeen]
      since == {s \in DOMAIN seen.records : s >= o.from}
      chain == Chain(seen, since, p)
  IN  \/ p \in Unrecorded(seen, since)
      \/ /\ chain # <<>>
         /\ Chains(chain)
         /\ o.before[p] \in {First(chain).before} \cup {chain[s].after : s \in DOMAIN chain}
         /\ Last(chain).after = live[p]

\* The path was changed or given up by a record committed while the call ran.
Overlapped(o, p) ==
  \E s \in DOMAIN store.records :
    s >= o.from /\ p \in DOMAIN store.records[s].changes \cup store.records[s].unrecorded

\* Every change is told once. When a call is finished, or a crash leaves its record committed
\* and the call to be finished again, nothing that it changed is missing from the records,
\* however its window overlapped others and whatever they recorded; its own record claims no
\* change that is none or that the call did not see, and gives no path up that nobody else
\* touched (finish, rebase, chained).
TellsEveryChange ==
  LET added == DOMAIN store'.records \ DOMAIN store.records
  IN  \A t \in DOMAIN store.open :
        LET o == store.open[t]
            changed == {p \in Paths : o.before[p] # live[p]}
        IN  (added # {} \/ t \notin DOMAIN store'.open) /\ Finish(t) =>
              /\ \A p \in changed : Told(o, p)
              /\ \A s \in added :
                   LET record == store'.records[s]
                   IN  /\ \A p \in DOMAIN record.changes :
                            p \in changed /\ record.changes[p].before # record.changes[p].after
                       /\ \A p \in record.unrecorded : p \in changed /\ Overlapped(o, p)

ChangesToldOnce == [][TellsEveryChange]_vars

\* Every journal that was written can be read back, as StoredJournal::valid demands: one that
\* cannot makes every operation on reverts fail, and the store fail to open.
JournalsReadable == Readable(store)
=============================================================================
