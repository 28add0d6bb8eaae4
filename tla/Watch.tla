------------------------------- MODULE Watch --------------------------------
(***************************************************************************)
(* Workspace watch subscriptions: the registry of src/remote_host.rs and   *)
(* the native watcher of crates/mcp-files/src/workspace.rs. A thread of    *)
(* the watch backend queues what happens under a directory; a poll drains  *)
(* the queue into a bounded log and answers from a cursor, while the       *)
(* subscription may be closed, expire or fail under it.                    *)
(*                                                                         *)
(* A change is known by its position among the changes of its              *)
(* subscription, a cursor by the sequence number it stands for, and time   *)
(* by what it has made late. Why a client must resynchronise is not kept:  *)
(* the answer says so and gives no cursor.                                 *)
(***************************************************************************)
EXTENDS Integers, FiniteSets, Sequences, SequencesExt

CONSTANTS
  Subs,         \* subscription identifiers
  Polls,        \* poll requests that can be in progress at once
  QueueCap,     \* WATCH_BACKEND_QUEUE
  MaxSubs,      \* MAX_WATCH_SUBSCRIPTIONS
  MaxRetained,  \* MAX_WATCH_RETAINED_EVENTS
  MaxBytes,     \* MAX_WATCH_RETAINED_BYTES
  MaxLifetime,  \* MAX_WATCH_LIFETIME_EVENTS
  MaxTombs,     \* MAX_WATCH_TOMBSTONES
  PageEvents,   \* MAX_WATCH_POLL_EVENTS
  PageBytes,    \* MAX_WATCH_POLL_BYTES
  SizeOf        \* for each subscription, the encoded sizes of the events of its changes

ASSUME WatchConstants ==
  /\ {QueueCap, MaxSubs, MaxRetained, MaxBytes, MaxLifetime, MaxTombs} \subseteq Nat \ {0}
  /\ {PageEvents, PageBytes} \subseteq Nat \ {0}
  /\ \A s \in Subs : SizeOf[s] \in Seq(Nat \ {0})

\* What stands for no poll at all is not a poll.
ASSUME NoneIsNoPoll == "none" \notin Polls

\* Bound: the changes of a subscription.
MaxChanges(s) == Len(SizeOf[s])

VARIABLES
  stage,    \* "unused", "watching" (its watcher runs), "used" or "lost" (by a restart)
  registry, \* WatchRegistry: the open subscriptions, and the tombstones in order
  late,     \* the open subscriptions whose expires_at has passed
  watcher,  \* WorkspaceWatcher, where its handler stands, and the number of changes so far
  log,      \* events and next_sequence of WatchSubscription
  holder,   \* the poll that holds poll_lock
  poll      \* the poll requests

vars == <<stage, registry, late, watcher, log, holder, poll>>

\* What a poll is before it is sent and after its answer is gone.
NoPoll == [pc |-> "idle", sub |-> "none", cursor |-> 0, waited |-> FALSE, batch |-> <<>>,
           failed |-> FALSE, events |-> <<>>]

\* The steps of a poll between its two visits to the registry. It owns an Arc of the
\* watcher in all of them, and the poll lock in all but the first.
Locked == {"swap", "receive", "waiting", "finish"}
InFlight == {"locking"} \cup Locked

NewWatcher == [queue |-> <<>>, failure |-> FALSE, handler |-> "idle", permit |-> FALSE, seen |-> 0]
NewLog == [events |-> <<>>, next |-> 1]

\* The native watcher is dropped with its last Arc.
Alive(s) ==
  \/ stage[s] = "watching"
  \/ s \in registry.open
  \/ \E p \in Polls : poll[p].sub = s /\ poll[p].pc \in InFlight

Init ==
  /\ stage = [s \in Subs |-> "unused"]
  /\ registry = [open |-> {}, tombs |-> <<>>]
  /\ late = {}
  /\ watcher = [s \in Subs |-> NewWatcher]
  /\ log = [s \in Subs |-> NewLog]
  /\ holder = [s \in Subs |-> "none"]
  /\ poll = [p \in Polls |-> NoPoll]

-----------------------------------------------------------------------------
(* The registry *)

Trimmed(tombs) ==
  IF Len(tombs) > MaxTombs THEN SubSeq(tombs, Len(tombs) - MaxTombs + 1, Len(tombs)) ELSE tombs

\* remove.
Removed(r, s) ==
  IF s \in r.open THEN [open |-> r.open \ {s}, tombs |-> Trimmed(Append(r.tombs, s))] ELSE r

\* What expire may make of the registry: it removes the late subscriptions in any order, and
\* then drops the oldest tombstones, those whose 600 seconds have passed.
Expired(r) ==
  LET swept == {FoldLeft(Removed, r, ids) : ids \in SetToSeqs(r.open \cap late)}
  IN  {[q EXCEPT !.tombs = SubSeq(@, n, Len(@))] : q \in swept, n \in 1..(MaxTombs + 1)}

\* What a step leaves of the watchers and of the logs l: a watcher is dropped with its last
\* Arc, a log when its subscription leaves the registry.
Keep(l) ==
  /\ watcher' = [s \in Subs |-> IF Alive(s)' THEN watcher[s] ELSE NewWatcher]
  /\ log' = [s \in Subs |-> IF s \in registry'.open THEN l[s] ELSE NewLog]

\* workspace_open_watch: the native watcher runs before the subscription is registered.
StartWatcher(s) ==
  /\ stage[s] = "unused"
  /\ stage' = [stage EXCEPT ![s] = "watching"]
  /\ UNCHANGED <<registry, late, watcher, log, holder, poll>>

\* open_watch.
Open(s) ==
  /\ stage[s] = "watching"
  /\ UNCHANGED <<holder, poll>>
  /\ \E r \in Expired(registry) :
       /\ Cardinality(r.open) < MaxSubs
       /\ stage' = [stage EXCEPT ![s] = "used"]
       /\ registry' = [r EXCEPT !.open = @ \cup {s}]
  /\ late' = late \cap registry'.open
  /\ Keep(log)

\* open_watch at the quota: the watcher is dropped with what it queued, and no identifier
\* stands for it.
RefuseOpen ==
  /\ UNCHANGED <<stage, holder, poll>>
  /\ \E r \in Expired(registry) : Cardinality(r.open) >= MaxSubs /\ registry' = r
  /\ late' = late \cap registry'.open
  /\ Keep(log)

\* close_watch, of an open subscription or of one that is gone.
Close(s) ==
  /\ stage[s] = "used"
  /\ UNCHANGED <<stage, holder, poll>>
  /\ \E r \in Expired(registry) : registry' = Removed(r, s)
  /\ late' = late \cap registry'.open
  /\ Keep(log)

\* spawn_watch_expiry.
ExpiryTask(s) ==
  /\ s \in late
  /\ UNCHANGED <<stage, holder, poll>>
  /\ registry' = Removed(registry, s)
  /\ late' = late \ {s}
  /\ Keep(log)

\* The 120 seconds of a subscription pass.
Age(s) ==
  /\ s \in registry.open \ late
  /\ late' = late \cup {s}
  /\ UNCHANGED <<stage, registry, watcher, log, holder, poll>>

-----------------------------------------------------------------------------
(* The handler of the native watcher, a thread of the watch backend *)

\* Mutant: an event the queue has no room for is dropped.
TrySendQuietly(w, event) ==
  [w EXCEPT !.queue = IF Len(@) < QueueCap THEN Append(@, event) ELSE @, !.handler = "notify"]

\* try_send; a full queue is noted as a failure next.
TrySend(w, event) ==
  IF Len(w.queue) < QueueCap
  THEN [w EXCEPT !.queue = Append(@, event), !.handler = "notify"]
  ELSE [w EXCEPT !.handler = "failing"]

\* An event of the backend stands for up to two changes a client may see (a rename is a
\* removal and a creation, an access or a path outside the policy is nothing), or cannot
\* be normalised because the backend lost events or names a path outside the scope.
Event(s) ==
  LET w == watcher[s]
      Saw(n, event) == watcher' = [watcher EXCEPT ![s] = TrySend([w EXCEPT !.seen = @ + n], event)]
  IN  /\ Alive(s)
      /\ w.handler = "idle"
      /\ w.seen < MaxChanges(s)
      /\ \/ \E n \in 0..2 :
              /\ w.seen + n <= MaxChanges(s)
              /\ Saw(n, [usable |-> TRUE, changes |-> [i \in 1..n |-> w.seen + i]])
         \/ Saw(1, [usable |-> FALSE, changes |-> <<>>])
      /\ UNCHANGED <<stage, registry, late, log, holder, poll>>

\* An event too large for the queue, or an error of the backend: something happened that
\* will never be queued.
LostEvent(s) ==
  /\ Alive(s)
  /\ watcher[s].handler = "idle"
  /\ watcher[s].seen < MaxChanges(s)
  /\ watcher' = [watcher EXCEPT ![s].handler = "failing", ![s].seen = @ + 1]
  /\ UNCHANGED <<stage, registry, late, log, holder, poll>>

StoreFailure(s) ==
  /\ watcher[s].handler = "failing"
  /\ watcher' = [watcher EXCEPT ![s].failure = TRUE, ![s].handler = "notify"]
  /\ UNCHANGED <<stage, registry, late, log, holder, poll>>

\* Mutant: only failures wake a poll.
NotifyFailures(s) ==
  /\ watcher[s].handler = "notify"
  /\ watcher' = [watcher EXCEPT ![s].handler = "idle", ![s].permit = @ \/ watcher[s].failure]
  /\ UNCHANGED <<stage, registry, late, log, holder, poll>>

\* notify_one leaves a permit that the next or the present waiter takes.
NotifyOne(s) ==
  /\ watcher[s].handler = "notify"
  /\ watcher' = [watcher EXCEPT ![s].handler = "idle", ![s].permit = TRUE]
  /\ UNCHANGED <<stage, registry, late, log, holder, poll>>

-----------------------------------------------------------------------------
(* Polls *)

\* An answer with events stays to be looked at; one that tells the client to read everything
\* again, with the reason of the tombstone, leaves nothing.
Answer(p, cursor, events) ==
  poll' = [poll EXCEPT ![p] = [NoPoll EXCEPT !.pc = "answered", !.cursor = cursor, !.events = events]]

Resync(p) == poll' = [poll EXCEPT ![p] = NoPoll]

\* poll_watch up to poll_lock. The inputs of a request are chosen where they are first read:
\* wait_ms when there is nothing to tell, the cursor and the page limits when it is answered.
Request(p, s) ==
  /\ poll[p].pc = "idle"
  /\ UNCHANGED <<stage, holder>>
  /\ \/ /\ stage[s] = "lost"
        /\ Resync(p)
        /\ UNCHANGED registry
     \/ /\ stage[s] = "used"
        /\ \E r \in Expired(registry) :
             /\ registry' = r
             /\ \/ /\ s \notin r.open
                   /\ Resync(p)
                \/ /\ s \in r.open
                   /\ poll' = [poll EXCEPT ![p].pc = "locking", ![p].sub = s]
  /\ late' = late \cap registry'.open
  /\ Keep(log)

Lock(p) ==
  /\ poll[p].pc = "locking"
  /\ holder[poll[p].sub] = "none"
  /\ holder' = [holder EXCEPT ![poll[p].sub] = p]
  /\ poll' = [poll EXCEPT ![p].pc = "swap"]
  /\ UNCHANGED <<stage, registry, late, watcher, log>>

\* drain first takes the failure, and with one looks no further.
Swap(p) ==
  LET s == poll[p].sub
      failure == watcher[s].failure
  IN  /\ poll[p].pc = "swap"
      /\ watcher' = [watcher EXCEPT ![s].failure = FALSE]
      /\ poll' = [poll EXCEPT ![p].failed = failure,
                              ![p].pc = IF failure THEN "finish" ELSE "receive"]
      /\ UNCHANGED <<stage, registry, late, log, holder>>

\* drain then empties the queue, one try_recv at a time; an event that cannot be
\* normalised turns the batch into a failure.
Receive(p) ==
  LET s == poll[p].sub
      queue == watcher[s].queue
  IN  /\ poll[p].pc = "receive"
      /\ queue # <<>>
      /\ watcher' = [watcher EXCEPT ![s].queue = Tail(@)]
      /\ poll' = IF Head(queue).usable
                 THEN [poll EXCEPT ![p].batch = @ \o Head(queue).changes]
                 ELSE [poll EXCEPT ![p].batch = <<>>, ![p].failed = TRUE, ![p].pc = "finish"]
      /\ UNCHANGED <<stage, registry, late, log, holder>>

\* Mutant: a poll with nothing to tell waits again.
DrainedAgain(p) ==
  /\ poll[p].pc = "receive"
  /\ watcher[poll[p].sub].queue = <<>>
  /\ poll' = [poll EXCEPT ![p].pc = IF poll[p].batch = <<>> THEN "waiting" ELSE "finish"]
  /\ UNCHANGED <<stage, registry, late, watcher, log, holder>>

\* The queue is empty. WorkspaceWatcher::poll waits once, when it has nothing to tell.
Drained(p) ==
  /\ poll[p].pc = "receive"
  /\ watcher[poll[p].sub].queue = <<>>
  /\ \/ poll' = [poll EXCEPT ![p].pc = "finish"]
     \/ /\ poll[p].batch = <<>>
        /\ ~poll[p].waited
        /\ poll' = [poll EXCEPT ![p].pc = "waiting"]
  /\ UNCHANGED <<stage, registry, late, watcher, log, holder>>

\* notified() completes with the permit.
Wake(p) ==
  LET s == poll[p].sub
  IN  /\ poll[p].pc = "waiting"
      /\ watcher[s].permit
      /\ watcher' = [watcher EXCEPT ![s].permit = FALSE]
      /\ poll' = [poll EXCEPT ![p].pc = "swap", ![p].waited = TRUE]
      /\ UNCHANGED <<stage, registry, late, log, holder>>

\* The request's wait_ms pass.
Timeout(p) ==
  /\ poll[p].pc = "waiting"
  /\ poll' = [poll EXCEPT ![p].pc = "swap", ![p].waited = TRUE]
  /\ UNCHANGED <<stage, registry, late, watcher, log, holder>>

Bytes(s, events) == FoldLeft(LAMBDA sum, event : sum + SizeOf[s][event.at], 0, events)

\* Mutant: off by one, events are dropped until there is room to spare.
RetainedBelow(s, events) ==
  LET Suffix(i) == SubSeq(events, i, Len(events))
      fits == {i \in 1..(Len(events) + 1) :
                 Len(Suffix(i)) <= MaxRetained /\ Bytes(s, Suffix(i)) < MaxBytes}
  IN  Suffix(CHOOSE i \in fits : \A j \in fits : i <= j)

\* The events that append_events keeps: the longest suffix within both limits.
Retained(s, events) ==
  LET Suffix(i) == SubSeq(events, i, Len(events))
      fits == {i \in 1..(Len(events) + 1) :
                 Len(Suffix(i)) <= MaxRetained /\ Bytes(s, Suffix(i)) <= MaxBytes}
  IN  Suffix(CHOOSE i \in fits : \A j \in fits : i <= j)

\* The batch of the poll that holds the lock.
Batch(s) == IF holder[s] = "none" THEN <<>> ELSE poll[holder[s]].batch

\* Mutant: the lifetime is counted from zero.
TooMuchLate(s) ==
  \/ log[s].next + Len(Batch(s)) > MaxLifetime + 2
  \/ \E at \in Range(Batch(s)) : SizeOf[s][at] > MaxBytes

\* append_events fails on a batch past the lifetime of the subscription, or with an event
\* larger than all that may be retained.
TooMuch(s) ==
  \/ log[s].next + Len(Batch(s)) > MaxLifetime + 1
  \/ \E at \in Range(Batch(s)) : SizeOf[s][at] > MaxBytes

\* append_events of a batch within the limits.
AppendEvents(s) ==
  LET Add(l, at) == [events |-> Retained(s, Append(l.events, [sequence |-> l.next, at |-> at])),
                     next |-> l.next + 1]
  IN  FoldLeft(Add, log[s], Batch(s))

\* Mutant: off by one, a cursor whose next event was just dropped counts as retained.
ForgottenLate(l, cursor) == l.events # <<>> /\ cursor + 2 < Head(l.events).sequence

\* The events after the cursor are no longer all retained.
Forgotten(l, cursor) == l.events # <<>> /\ cursor + 1 < Head(l.events).sequence

\* The longest page of the events after the cursor within the limits of the request.
Page(s, l, cursor, maxEvents, maxBytes) ==
  LET later == SelectSeq(l.events, LAMBDA event : event.sequence > cursor)
      fits == {n \in 0..Len(later) :
                 n <= maxEvents /\ Bytes(s, SubSeq(later, 1, n)) <= maxBytes}
  IN  SubSeq(later, 1, CHOOSE n \in fits : \A k \in fits : k <= n)

\* poll_response. A client that reads one event at a time is given every cursor, and may
\* poll with any of them again.
Respond(p, s, r) ==
  LET l == AppendEvents(s)
  IN  \/ /\ registry' = Removed(r, s)
         /\ Resync(p)
      \/ \E cursor \in 0..(log[s].next - 1) :
           /\ Forgotten(l, cursor)
           /\ registry' = Removed(r, s)
           /\ Resync(p)
      \/ \E cursor \in 0..(log[s].next - 1), maxEvents \in 1..PageEvents, maxBytes \in 1..PageBytes :
           /\ ~Forgotten(l, cursor)
           /\ registry' = r
           /\ Answer(p, cursor, Page(s, l, cursor, maxEvents, maxBytes))

\* finish_watch_poll, and the end of poll_lock.
Finish(p) ==
  LET s == poll[p].sub
      failed == poll[p].failed
  IN  /\ poll[p].pc = "finish"
      /\ holder' = [holder EXCEPT ![s] = "none"]
      /\ UNCHANGED stage
      /\ \E r \in Expired(registry) :
           \/ /\ s \notin r.open
              /\ registry' = r
              /\ Resync(p)
           \/ /\ s \in r.open
              /\ failed
              /\ registry' = Removed(r, s)
              /\ Resync(p)
           \/ /\ s \in r.open
              /\ ~failed
              /\ TooMuch(s)
              /\ registry' = Removed(r, s)
              /\ Resync(p)
           \/ /\ s \in r.open
              /\ ~failed
              /\ ~TooMuch(s)
              /\ Respond(p, s, r)
      /\ late' = late \cap registry'.open
      /\ Keep([log EXCEPT ![s] = IF ~failed /\ ~TooMuch(s) THEN AppendEvents(s) ELSE @])

\* The task of the request is dropped at one of its awaits; between a drain and its answer
\* there is none, so no batch goes with it.
TearDown(p) ==
  /\ poll[p].pc \in {"locking", "waiting"}
  /\ poll' = [poll EXCEPT ![p] = NoPoll]
  /\ holder' = [s \in Subs |-> IF holder[s] = p THEN "none" ELSE holder[s]]
  /\ UNCHANGED <<stage, registry, late>>
  /\ Keep(log)

\* The answer reaches the client, or is lost on the way.
Return(p) ==
  /\ poll[p].pc = "answered"
  /\ poll' = [poll EXCEPT ![p] = NoPoll]
  /\ UNCHANGED <<stage, registry, late, watcher, log, holder>>

\* The server process is replaced by another instance: all of this is process-local.
Restart ==
  /\ stage' = [s \in Subs |-> IF stage[s] = "watching" THEN "unused"
                              ELSE IF stage[s] = "used" THEN "lost" ELSE stage[s]]
  /\ registry' = [open |-> {}, tombs |-> <<>>]
  /\ watcher' = [s \in Subs |-> NewWatcher]
  /\ log' = [s \in Subs |-> NewLog]
  /\ holder' = [s \in Subs |-> "none"]
  /\ poll' = [p \in Polls |-> NoPoll]
  /\ late' = {}

-----------------------------------------------------------------------------
SubStep(s) ==
  \/ StartWatcher(s) \/ Open(s) \/ Close(s) \/ ExpiryTask(s) \/ Age(s)
  \/ Event(s) \/ LostEvent(s) \/ StoreFailure(s) \/ NotifyOne(s)

PollStep(p) ==
  \/ Lock(p) \/ Swap(p) \/ Receive(p) \/ Drained(p) \/ Wake(p) \/ Timeout(p) \/ Finish(p)
  \/ TearDown(p) \/ Return(p)

Next ==
  \/ \E s \in Subs : SubStep(s)
  \/ \E p \in Polls : PollStep(p)
  \/ \E p \in Polls, s \in Subs : Request(p, s)
  \/ RefuseOpen
  \/ Restart

\* A task that can run is polled again, the timer of a wait fires, tokio's mutex is granted
\* in the order of the requests for it, and a drain outruns the thread that fills the queue.
\* Nothing makes a client poll or close.
Fairness ==
  \A p \in Polls :
    /\ WF_vars(Swap(p) \/ Receive(p) \/ Timeout(p) \/ Finish(p))
    /\ SF_vars(Drained(p))
    /\ SF_vars(Lock(p))

Spec == Init /\ [][Next]_vars /\ Fairness

-----------------------------------------------------------------------------
EventType == [sequence : 1..MaxLifetime, at : Nat \ {0}]

\* The variables hold what the structures of the code can hold.
TypeOK ==
  /\ stage \in [Subs -> {"unused", "watching", "used", "lost"}]
  /\ registry.open \subseteq Subs
  /\ Range(registry.tombs) \subseteq Subs
  /\ late \subseteq Subs
  /\ \A s \in Subs :
       /\ watcher[s].failure \in BOOLEAN
       /\ watcher[s].handler \in {"idle", "failing", "notify"}
       /\ watcher[s].permit \in BOOLEAN
       /\ Len(watcher[s].queue) <= QueueCap
       /\ \A event \in Range(watcher[s].queue) :
            Range(event.changes) \subseteq Nat \ {0} /\ event.usable \in BOOLEAN
       /\ Range(log[s].events) \subseteq EventType
       /\ log[s].next \in 1..(MaxLifetime + 1)
       /\ watcher[s].seen \in 0..MaxChanges(s)
  /\ holder \in [Subs -> Polls \cup {"none"}]
  /\ \A p \in Polls :
       /\ poll[p].pc \in InFlight \cup {"idle", "answered"}
       /\ poll[p].sub \in Subs \cup {"none"}
       /\ poll[p].cursor \in 0..MaxLifetime
       /\ Range(poll[p].batch) \subseteq Nat \ {0}
       /\ Range(poll[p].events) \subseteq EventType

Queued(s) == FoldLeft(LAMBDA sum, event : sum + Len(event.changes), 0, watcher[s].queue)

\* A failure that the answer of some poll to come will tell.
FailurePending(s) ==
  \/ watcher[s].handler = "failing"
  \/ watcher[s].failure
  \/ \E event \in Range(watcher[s].queue) : ~event.usable
  \/ holder[s] # "none" /\ poll[holder[s]].failed

\* No change is lost in silence: while a subscription is open, a change that is not in the
\* queue, in the batch of the poll at work or in the log has left a failure, which the
\* handler is about to store, or a drain is yet to take or to report.
NoSilentLoss ==
  \A s \in registry.open :
    watcher[s].seen = log[s].next - 1 + Queued(s) + Len(Batch(s)) \/ FailurePending(s)

\* An answer without a resync continues exactly where its cursor stands: its events are
\* numbered on from it without a hole, in the order the changes happened, however the log
\* was trimmed and by whichever poll the batches were appended.
AnswersContinue ==
  \A p \in Polls :
    poll[p].pc = "answered" =>
      \A i \in DOMAIN poll[p].events :
        /\ poll[p].events[i].sequence = poll[p].cursor + i
        /\ i > 1 => poll[p].events[i].at > poll[p].events[i - 1].at

\* A client that goes on from answer to answer misses nothing: an answer that does not ask
\* it to resynchronise comes from a subscription that is still open, whatever closed, expired
\* or failed while the poll waited, and tells everything after its cursor or stops at an event
\* that is still retained. A log trimmed past the cursor is never taken for one that has
\* nothing new (finish_watch_poll, append_events, poll_response).
TellsAll(p) ==
  LET s == poll[p].sub
      told == poll'[p].cursor + Len(poll'[p].events)
  IN  /\ s \in registry'.open
      /\ \/ told = log'[s].next - 1
         \/ \E event \in Range(log'[s].events) : event.sequence = told + 1

AnswersComplete ==
  [][\A p \in Polls : poll[p].pc = "finish" /\ poll'[p].pc = "answered" => TellsAll(p)]_vars

\* A poll does not wait beside something it could report: whatever the handler queued or
\* noted before or during the drain left it a permit.
NoLostWakeup ==
  \A p \in Polls :
    LET w == watcher[poll[p].sub]
    IN  poll[p].pc = "waiting" /\ (w.queue # <<>> \/ w.failure) /\ w.handler = "idle"
          => w.permit

\* Every poll comes to its answer, whatever happens to its subscription while it waits for
\* the lock or for an event.
PollsAnswered ==
  \A p \in Polls : poll[p].pc \in InFlight ~> poll[p].pc \notin InFlight

\* The native watcher of a subscription that is no longer open is released, although polls
\* that began before still own it.
WatchersReleased ==
  \A s \in Subs : stage[s] = "used" /\ s \notin registry.open ~> ~Alive(s)
=============================================================================
