# Verification of Workcell's remote host

TLA+ models of the stateful parts of Workcell, the runs that model-check them with
TLC, and theorems checked with TLAPS. `PROJECT.json` lists the components, runs,
findings, hazards and theorems, and maps every definition to the lines it models.

## The system

Workcell is a server that gives a remote client reviewed access to one workspace.
An effect happens in two requests: *prepare* inspects what would be done and
retains it under a fresh preparation identifier; *execute* runs it under an
invocation identifier chosen by the caller, at most once, and keeps its outcome
so that a retry of the same invocation replays the answer. Around this core:

| Part | Source | State it owns |
|---|---|---|
| Operation ledger | `src/remote_host.rs` | retained preparations, running operations, outcomes, tombstones, byte counters |
| Preparation admission | `src/remote_host.rs` | waiters for a reservation, a `Notify`, a 30 s deadline |
| Remote execution | `src/server.rs` | the detached task, its guard, cancellation tokens, effect policies |
| Watch subscriptions | `src/remote_host.rs`, `crates/mcp-files` | subscriptions, retained events, cursors, tombstones |
| Publication journal | `src/transfer/journal.rs` | durable journal files and their memory copy |
| Reviewed transfers | `src/transfer/` | staging slots, quotas, prepared publications |
| Change records | `crates/workspace-snapshot` | open records, records, holders, state file |
| Revert and unrevert | `crates/workspace-snapshot/src/revert.rs` | journals per holder, the reverted stack |
| Retention and cleanup | `crates/workspace-snapshot/src/cleanup.rs`, `crates/snapshot-store` | eviction, mark and sweep |
| Tools (files, shell, web, code, code graph, SCM), transports, contract types | `crates/*`, `src/*` | little or none: parsing, input/output, validation |

The ledger is in memory and is lost with the process (a new instance identifier
tells the client so); the transfer journals, change records and revert journals
are on disk and are reconciled at the next start.

## Modules

| Module | Models |
|---|---|
| `Ledger` | `struct Ledger` and the RAII values other tasks hold on it |
| `Operation` | what the host promises of one prepared operation, without ledger, bytes or clock |
| `LedgerContract` | the mapping under which `Ledger` implements `Operation` |
| `LedgerMC` | symmetry for the runs of `Ledger` |
| `LedgerLemmas` | lemmas about its operators: what housekeeping and settling may do |
| `LedgerProofs` | the inductive invariant of `Ledger` and its theorems |
| `LedgerContractProofs` | the proof of the refinement |
| `Admission` | `reserve_preparation_wait` and the drop of reservations: permits, `Notify`, deadline |
| `AdmissionMC`, `AdmissionProofs` | instances; proof of the types and that no wake-up is lost |
| `Publication` | `JournalStore` and the prepared publications that write it, with faults and restarts |
| `PublicationMC`, `PublicationProofs` | instances; the inductive invariant and seven theorems |
| `Watch` | watch subscriptions: the registry, the native watcher's handler thread, polls |
| `WatchMC`, `WatchProofs` | an instance; proof that no wake-up of a poll is lost |
| `Changes` | change records, holders, retention, cleanup, revert and unrevert over one durable store |
| `ChangesMC`, `ChangesProofs` | instances; the inductive invariant and four theorems |

### Ledger

Every method of the ledger holds one mutex from beginning to end, so each is one
action; what the code does in two acquisitions is two actions. The variables are

- `ledger`: the fields of the struct. `records` and `tombstones` as in the code,
  `reserved`, `running` and `reservations` its three counters, `evicted` the wall
  clock of the newest evicted tombstone, `capacity` that of the tombstones' deque.
  `bytes` is recomputed by `refresh_bytes` after every change, hence the operator
  `Bytes`.
- `reservation`: the live `PreparationReservation`s with the bytes each believes
  it holds and where `prepare_reserved` stands (`inspecting`, `staged` between the
  resize and the commit, `dropping` after a refused resize).
- `lease`: the live `ExecutionLease`s; `armed` until the `RemoteExecutionGuard`
  has reported.
- `now`, one clock for `Instant` and wall time; `used`, the identifiers drawn;
  `starts`, a history of the instants at which `begin` answered Start.

| Action | Code |
|---|---|
| `Reserve` | `Ledger::reserve` (prune, quotas, counters) |
| `Resize`, `Commit` | `prepare_reserved`: `resize_reservation`, then `insert_reserved` with the earlier instant |
| `DropReservation` | `Drop for PreparationReservation` |
| `Begin` | `Ledger::begin` with all its refusals |
| `Finish`, `FinishIndeterminate` | the guard's three ways to report, through `enforce_ceiling` |
| `DropLease` | `Drop for ExecutionLease` |
| `Release`, `Status` | `Ledger::release`; `Ledger::status` and `Ledger::cancel`, which change the ledger only by `prune` |
| `CaptureProgress` | `Ledger::capture_progress` with both evictions |

Data is abstracted to weights: an operation, an outcome, an event, an identifier
and a tombstone have a size, and nothing else of them matters to the ledger.
Requests that only check the caller's binding and then answer are left out, as
are the contents of answers. `prune` and the searches for the oldest record walk
a hash table, so wherever keys tie the model takes every order. Loops such as
`while total_bytes > MAX && evict_oldest_progress()` are written as the least
number of turns after which they stop (`LoopCount`, `EvictProgress`).

`refresh_bytes` charges both containers for their capacity, and so does `Bytes`.
The record table is shrunk to fit whenever a record leaves, so its capacity is the
least of `TableSizes` that holds the records (slots that the hash table keeps marked
as deleted are left out). The tombstones' deque is never shrunk: `GrowDeque`
reallocates it in `forget` when it is full, to the next of `DequeSizes`, and the field
`capacity` remembers it when tombstones go. The capacity of a record's progress queue
is kept as the most events the queue held, `slots`, without rounding up.

### Operation and LedgerContract

`Operation` has one small machine per preparation: Absent, Prepared, Running, one
of four reports, Forgotten. A step may forget many operations, because pruning
does; it starts at most one. Under the mapping of `LedgerContract` an operation
stands where its record stands, is Forgotten when its identifier was drawn and
neither a record nor a reservation is left, and has run as often as `begin`
answered Start.

### Admission

One request is one task. `pc` says where it stands in the loop: `entered` (it
has a waiter permit), `enabled` (its `Notified` is registered, the ledger not yet
locked), `failed` (`reserve` found no room, the await is still to come), `parked`
(asleep at the await), `holding` (it has a reservation), `settled` (the
reservation has been given back, `notify_waiters` comes next). The steps
before parking are separate because another task's drop may fall between any two
of them. `notified` is the state of the future, `late` that of the timeout,
which is looked at only where the task would sleep: a task that is late and has been
notified goes round the loop again. `MayWait` is the check that some preparation is
in progress, without which nothing would wake it. The
ledger is reduced to the room it has: `held` for reservations, `retained` for
everything else, which other operations change at will and without notifying.

### Publication

`records` is the memory of the `JournalStore`, `disk` what the journal files
show, `stable` the set of states each may show after a loss of power. `put` has
three outcomes: nothing happened (an incomplete pending file may remain, `torn`),
the rename happened but the directory was not synced (file new, memory old, both
contents possible after a loss of power), or all is done. A successful sync of
the directory makes every earlier rename in it durable. `holder` is where the
`PreparedPublication` or `PreparedDirectoryTransfer` of an identifier stands;
both have the same control flow. `effect` is the first change of the workspace:
`running` from the fence on, `done`, `cut` if the process ended before, `past`
once the journal of a done publication has been pruned.

| Action | Code |
|---|---|
| `Open`, `Recover`, `Opened` | `JournalStore::open`: scan and validate, rewrite each journal, prune |
| `Reserve` | `reserve_publication`: prune, replay and quota checks, put |
| `RecordPreparation`, `Discard` | `record_preparation`; the ledger giving the operation up |
| `Fence`, `Land`, `Return`, `Settle` | `execute`: Publishing made durable, the effect, its result, the outcome journaled |
| `Abandon`, `Drop` | the task torn down at its await; `Drop` of the prepared publication |
| `ExpireByStatus` | `status` and `directory_status` of an expired journal |
| `Exit`, `PowerLoss`, `Reconcile` | end of the process, of the power; an operator removing incomplete pending files, as the repository's README asks |

The age of journals is left open: any settled journal without a publication may
be pruned at any reserve or start. Journal and ledger keep time together, so no
publication outlives the day its journal is kept: every reserve is preceded by
`reserve_preparation_wait`, which prunes expired preparations from the ledger.

### Watch

Three kinds of actors share a subscription. The *handler* is a thread of the
watch backend: it queues an event, or stores a failure when the queue is full or
the event is unusable, and then notifies, in separate steps. A *poll* visits the
registry, waits for the subscription's `poll_lock`, drains the watcher, may wait
once for the `Notify` or its `wait_ms`, and visits the registry again to append
its batch and to answer. The *registry* expires and closes subscriptions
meanwhile. `watcher` and `log` are what the code keeps per subscription, `holder`
is the poll that has the lock, `poll` where each poll stands. The watcher lives
as long as some `Arc` of it (`Alive`), the log as long as the subscription is
registered: `Keep` takes away what a step orphaned.

| Action | Code |
|---|---|
| `StartWatcher`, `Open`, `RefuseOpen` | `workspace_open_watch`, then `open_watch` with `expire` and its quota |
| `Close`, `ExpiryTask`, `Age` | `close_watch`; `spawn_watch_expiry`; the passing of `expires_at` |
| `Event`, `LostEvent`, `StoreFailure`, `NotifyOne` | `watch_handler`: `try_send`, the failure flag, `notify_one` |
| `Request`, `Lock` | `poll_watch` up to the lock |
| `Swap`, `Receive`, `Drained`, `Wake`, `Timeout` | `WorkspaceWatcher::poll` and `drain` |
| `Finish` | `finish_watch_poll`: `append_events`, `poll_response`, the end of the lock |
| `TearDown`, `Return`, `Restart` | a request dropped at an await, an answer delivered or lost, a new process |

A change is its position among the changes of its subscription, and an event of
the backend stands for zero to two of them, or for one that cannot be
normalised. `expire` walks a hash table, so its order is open. Cursors and page
limits are chosen where they are read; a client may poll again with any cursor it
was ever given, because an answer may be lost. The reason of a resync and the
binding of a request are left out.

One thing the model shows without contradicting a comment: `drain` takes the
failure flag before it empties the queue, so a failure stored during a drain is
reported by the next poll, and changes that came after the lost one may be
answered first. `NoSilentLoss` is stated accordingly: the failure stays pending
until it is told.

### Changes

All operations of the store take its lock, so they do not interleave with each
other, but each is a sequence of durable steps that a crash or a failed write may
end anywhere. An operation is therefore modelled by the set of stores it may
leave: its *stops* and the completed one. Files removed before a single sync of
their directory may be lost in any combination. Only execution of a revert is
spread over several actions, because the workspace is changed by others while it
publishes path by path; `run` is that revert, with the paths it planned and the ones
still to do. While it is at work it has the lock (`Idle` is false). An operation that
begins with `settle` waits for the action `Settle` (`Ready`), except that
`acknowledge` and `release` may also run on a store opened without a workspace, where
`settle` does nothing: they need `Idle` only.

`store` holds the files: `next` (`next_seq` of the state file), `open`, `records`,
`journals` and the eviction `marks` of the holders. `live` is the workspace,
`plans` the prepared reverts, which live in the ledger and die with the process.

| Action | Code |
|---|---|
| `Begin`, `Finish`, `Abandon` | `begin` (retention, capture, open record), `finish` (rebase, state, record, open record, retention), `abandon_open_records_of` |
| `Cleanup` | `execute_cleanup` of any plan made earlier |
| `PrepareRevert`, `PrepareUnrevert`, `Forget` | `prepare_revert`, `prepare_unrevert`; the ledger giving a plan up |
| `Execute`, `Publish`, `Complete`, `Refuse`, `Uncertain` | `execute_revert`: checks and journal, one path, and its three ends |
| `Settle` | `settle` with `reconcile`, at the start of an operation or of the process |
| `Acknowledge`, `Hold`, `Release`, `ReleaseAll` | `acknowledge`, `hold`, `release` of some records or of everything |
| `Crash`, `Write` | the end of the process; anybody else's change of the workspace |

Abstractions: a capture is one look at the workspace; contents are model values,
absence being one of them; how many records retention takes depends on byte
sizes and is any number, oldest first; cleanup takes any plan that may still go.
`publish` takes the paths in an order given by directories; the model takes any
order. A revert that is refused (`Refuse`) leaves its journal Partial, or removes it if
no path was published; after a directory was made for a path to come it may be Partial
although none was. `disturbed` is a history flag of a journal: somebody else has since
changed a path.

## Runs

| Run | Shows |
|---|---|
| `ledger_lifecycle` | three preparations, two competing invocations, two expiries of each kind, one tombstone kept: an operation is started at most once, a record runs exactly while an unreported execution holds it, the count quotas hold although they are checked long before the insertion, an operation that ran is reported by a record, a tombstone or the eviction boundary; every step is a step of `Operation` |
| `ledger_pressure` | a ceiling of 14 weight units, reached by three operations with outcomes of two sizes: the counters are exactly what the holders hold, the ceiling is exceeded at most by bound identifiers, progress slots and the capacity of the tombstones' deque, lost progress is flagged, no answer contradicts an earlier one |
| `ledger_ceiling_assert` | fails: the assertion that closes `enforce_ceiling` |
| `ledger_never_seen` | fails: the meaning the contract gives to `NeverSeen` |
| `admission_wakeup` | three requests of two sizes, two permits: whoever sleeps is owed a notification, and is woken without the timer's help; if timers fire, a request that others overtake is answered, unless from its deadline on a notification falls between the enable and the await of every round |
| `publication_faults` | two identifiers, every fault at every write, restarts and losses of power at any time: an effect is behind a durable fence, journals are true, final answers are durable and final, an identifier publishes once, memory never names a missing file |
| `publication_live` | with a working disk, what passed the fence gets an outcome, although tasks are torn down and the process is killed again and again |
| `publication_quota` | fails: the documented number of journals |
| `watch_polls` | two polls, the handler thread, expiry, close and restart around one subscription: a change is queued, in a batch, in the log or has left a failure to be told; an answer continues exactly at its cursor, and tells all there is or stops before an event that is still retained; retained events and tombstones stay within their limits; no poll sleeps beside something it could report; every poll ends and every watcher is released |
| `changes_records` | two overlapping calls of two holders on one path, with retention, cleanup, hold and release, each ended after any durable step: seqs are used once, a change that a call saw is told by the records, its own or the ones committed meanwhile, and not twice, what a window needs stays, no eviction goes unnoted |
| `changes_reverts` | two holders revert and undo two chained records over two paths while others write, crash, release, evict and acknowledge, with a workspace or without one: a journal tells what was done to the workspace, none goes while its revert is half done, and the records it names stay, held by its holder |
| `changes_journal` | fails: a journal that was written can be read back |

Bounds of the ledger. Three preparations are the least with which one is reserved, one runs and
one is settled at the same time, and with which a quota of two is exceeded by a
stale check. Two invocations compete for a preparation. The clock runs to three
with lifetimes of one, so that a preparation expires, its outcome ages and its
tombstone is evicted in one behaviour. In `ledger_pressure` the clock stands
still, which leaves bytes as the only reason to give anything up; weights differ
by one so that every stage of `enforce_ceiling` is the one that suffices in some
state, but for the deque, whose first allocation outweighs the smallest record: then
`forget` itself can pass the ceiling, as a doubling of the real deque does. Preparations and invocations are symmetric. Deadlock is checked in every
run.

Bounds of the others. Three requests of sizes one and two in a room of two: one
holds while one parks and one overtakes. Requests are repeated without end.
Identifiers do not interact in the journal except through the quota and the
directory sync, for which two are enough; each lives, is pruned and is used again
without end.

In `watch_polls` the queue holds one event, the log two and their sizes are such
that the second does not fit beside the first; the third is past the lifetime of
the subscription. So every limit is met with three changes, and the second poll
queues behind the first. `MaxTombs` of two with one subscription leaves room to see
a second tombstone of it, were one made.

In `changes_records` three contents are the least that tell a chain from a
change seen twice; two tickets overlap in every way, and two records are all
that two tickets make. No content is special at the start, so contents are
symmetric there as well. `changes_reverts` starts from two records, of which the
second changes one path of the first again, rather than from every way to make
them: both holders hold both, two reverts are a revert and the one that undoes
it, or two that compete. Nothing but a client's request makes these systems move,
and deadlock is checked there too.

Fairness. `admission_wakeup` assumes that the runtime polls tasks that are ready
and that an inspection ends (its input and output are bounded by deadlines);
nothing is assumed of clients, cancellation or the timer; `EveryRequestAnswered`
has the firing of timers as its premise. It excepts the request that is `Overtaken`:
the timeout around the loop of `reserve_preparation_wait` is only consulted when the
task would sleep, so a request past its deadline goes on as long as it is notified
between its enable and its await each time. `watch_polls` assumes that a poll that can
go on is polled again, that the timer of its wait fires, that tokio's mutex, which
is first come first served, is granted to a poll that waits for it again and again
(strong fairness), and that a drain sees the queue empty at last (strong fairness:
the handler cannot outrun `try_recv` for ever; the code has no other bound on this
loop than the backend's speed). Nothing makes a client poll or close.
`publication_live` assumes that the process is started
again, that publication (60 s deadline), settling and drop come to an end, and
strong fairness for the rewriting of each journal at a start: the process may be
killed in `open` any number of times, but not every time before the same journal.

### What the failing runs show

- `enforce_ceiling` gives up, in order, progress, other outcomes, the outcome just
  recorded and the tombstones, then asserts in debug builds that the total is
  within `MAX_LEDGER_BYTES`. Bytes of live reservations and of running operations
  cannot be given up, and three growths are never refused: `begin` binds two
  identifiers to a record, a progress queue keeps its slots, and `forget` may
  reallocate the deque of tombstones. A reservation
  admitted close to the ceiling therefore leaves a total that nothing brings down.
  `CeilingWithSlack` states what does hold.
- The last stage drops tombstones without `note_eviction`. The status of an
  operation that ran is then `NeverSeen` with no eviction boundary that covers it,
  which the contract says means it never ran. `ledger_lifecycle` shows that the
  property holds as long as this stage is not reached.
- A `reserve` whose directory sync fails has renamed its journal into place and
  not counted it. As many more as the quota allows are then admitted, and the next
  `JournalStore::open` finds more files than `MAX_TRANSFER_JOURNALS` and refuses
  the store. The file is counted again only after a restart that comes in time.
- A completed unrevert clears its holder's stack, its own journal included, one
  file at a time. If that ends after the reverts' journals are gone, the unrevert's
  is left as a stack that names no record. The next unrevert of this holder finds
  nothing to do, writes a journal with no seqs, and `StoredJournal::valid` refuses
  it whenever the journals are read: every later operation on reverts, and the
  next opening of the store, fails. `changes_reverts` checks the same system for
  what does hold; operations that read the journals are disabled there once one is
  unreadable.

## Proofs

`LedgerProofs` proves, for any sets of preparations and invocations, any quotas,
weights and lifetimes that satisfy `LedgerConstants` and `LedgerWeights` (finite
preparations, natural sizes, room for one tombstone, a capacity of the deque that
holds all tombstones):

- `LedgerTypes`: the type invariant;
- `LedgerAtMostOnce`: `begin` answers Start at most once per preparation;
- `LedgerRunningIffExecuting`: a record is Running exactly while an execution that
  has not reported holds its lease;
- `LedgerOutcomesOnlyDegrade`: no step unbinds an invocation, contradicts an
  outcome or forgets a running operation.

None of the last three is inductive. `Ownership` is the strengthening: an
identifier belongs to a reservation, then to a record that still has its
operation, then to a lease, and never goes back; a record without an invocation
was never started and has no lease; an identifier not yet drawn was never started.
The proof has a lemma per action. Prune, the eviction of progress and the
ceiling are handled once, by two relations: `Shrinks` (records are removed unless
they run, nothing else of them changes but progress) and `Settles` (the same,
and one running record becomes terminal).

`LedgerContractProofs` proves `LedgerImplementsOperation`, the refinement of
`Operation`. Each action is shown to move each operation by one step of the
contract or none: `Shrinks` and `Settles` give the moves of the housekeeping,
`Ownership` that an identifier without record and reservation is gone for good,
and the at-most-once argument that only one operation starts.

`AdmissionProofs` proves `AdmissionTypeOK` and `AdmissionNoLostWakeup` for any tasks,
sizes and room: the invariant is the two together. A task parks only while some
reservation is held, its registration came before it looked, and a reservation
leaves `holding` only towards a notification.

`PublicationProofs` proves every safety property of `publication_faults`, for any
set of identifiers, any quota, with or without faults. The invariant `Good`
relates, per identifier, what may be on disk, what memory says, where the
publication stands and its effect. The properties alone are not inductive: what
makes them so is that a journal in memory that says Prepared has had no effect,
that a publication between its fence and its outcome has Publishing on disk as
the only possibility, and that while `open` runs a rewritten journal agrees with
its file. `PutDoneFacts` and `PutFailedFacts` say once what a write may leave.

`WatchProofs` proves `WatchNoLostWakeup` for any subscriptions, polls and limits.
The invariant adds that a poll past the lock is its holder, so that nobody else
takes its permit, and that already while a drain receives, a failure stored by a
handler that is done has left a permit. The queue needs no such clause: a poll
waits only after it saw it empty. `KeepWake` shows that the watcher of a poll at
work is never the one that is dropped.

`ChangesProofs` proves, for any paths, contents, holders, tickets and reverts, any
number of records, and every point at which an operation may stop:

- `ChangesSeqsNeverReused`: no record, journal or mark has a seq that is still to
  be given out;
- `ChangesPendingHeld`: the records a journal names are held by its holder;
- `ChangesNeededStay`: a record that a journal names or a window needs leaves
  only by being acknowledged;
- `ChangesEvictionsMarked`: what was evicted is marked for each of its holders.

The invariant is `Sound(store)`, the first two properties with the types they
need, and `PlansSound`: the plan of an unrevert whose stack is still in the store
names only what that stack names. Without it `Execute` could write a journal for
records that its holder has released meanwhile. Almost every operation only takes
away; the relation `Within` says so once, is transitive, and preserves `Sound`.
`Begin`, `Finish` and `Execute`, which add, have lemmas of their own. The third
theorem needs the second: `release` looks at holders, and only because the names
of a journal are held by its holder does nobody else's release delete them.
Max over a set of seqs is shown to exist with `WFMin`, by descent from a bound.

Only model-checked: all liveness; the byte properties of the ledger, whose sums
over a function's domain would need induction over finite sets, and
`NeverSeenMeansNeverRan`; the contents of the watch log and its answers, which are
folds over sequences; `ChangesToldOnce`, `JournalsTellTruth` and
`NoneForgottenHalfDone`, which depend on what the chains of records compose to.

## Not modelled

- *Execution* beyond what the ledger and the journals see of it. Which outcome a
  failed tool call is given is a table of error codes per tool; the ledger takes
  every report at any time, so its properties do not depend on it.
- *Staging slots* of transfers, uploads and downloads. The journal's model starts
  where a sealed file is claimed. The quota of slots is given back
  by `Drop for Slot`; the states of a slot (empty, uploading, uploaded, sealed,
  claimed) are left to the tests.
- *Change records*: paths that could not be stored (blind paths), quotas by bytes
  and number, listings, the stat cache, modes, directories and stamps. The first
  would be another way into `unrecorded`; the others are data. *Objects*: the store
  of blobs and trees, and the collection of those that nothing names any more. `smallest_fitting` is
  covered in the sense that retention may stop at every number.
- *Publication of files* is one effect with three results: the calls that make it
  depend on what the file system holds.
- *Tools, transports, parsers and contract types* of the last row of the first
  table, most of the repository by size: they keep no state across requests, or
  their difficulty is in data a model checker cannot enumerate.

The reasons per component are in `PROJECT.json`.
