---------------------------- MODULE Publication -----------------------------
(***************************************************************************)
(* The publication journal of reviewed transfers (src/transfer/journal.rs) *)
(* and the prepared publications that write it (reviewed.rs, directory.rs).*)
(* A journal is a file replaced by rename; the process, the disk and the   *)
(* power may fail between any two steps of that. The workspace effect of a *)
(* publication is abstract: it is running, and then it is done.            *)
(***************************************************************************)
EXTENDS Integers, FiniteSets

CONSTANTS
  Ids,         \* publication identifiers, chosen by clients
  MaxJournals, \* MAX_TRANSFER_JOURNALS
  Faulty       \* whether input/output on the journal directory may fail

ASSUME PublicationConstants == MaxJournals \in Nat /\ Faulty \in BOOLEAN

VARIABLES
  process, \* "down", "opening" (inside JournalStore::open) or "up"
  todo,    \* journals open has still to rewrite
  records, \* JournalStore.records: the state of each journal in memory
  disk,    \* the state each journal file shows
  stable,  \* the states it may show after a loss of power
  torn,    \* an incomplete pending file was left behind
  holder,  \* where the PreparedPublication of each identifier stands
  result,  \* what the publication returned, between its end and its journal
  effect   \* what became of the workspace effect since the last reserve

store == <<records, disk, stable, torn>>
vars == <<process, todo, records, disk, stable, torn, holder, result, effect>>

\* Completed, failed and cancelled journals may be pruned, indeterminate never.
Settled == {"Completed", "Failed", "Cancelled"}
Final == Settled \cup {"Indeterminate"}
Journaled == Final \cup {"Prepared", "Publishing"}
States == Journaled \cup {"Unknown"}

\* "reserved": before record_preparation; "held": in the ledger or executing, not
\* yet fenced; "publishing"; "returned": the outcome is not journaled yet;
\* "dropping": its Drop is still to come.
Stages == {"none", "reserved", "held", "publishing", "returned", "dropping"}

\* "cut": the process ended before it was done; "past": it was done and its
\* journal has been pruned since.
Effects == {"none", "running", "done", "cut", "past"}

Known(states) == {id \in Ids : states[id] # "Unknown"}

Everywhere(value) == [id \in Ids |-> value]

Stage(id, stage) == holder' = [holder EXCEPT ![id] = stage]

-----------------------------------------------------------------------------
(* The store *)

\* A synced directory keeps what it shows.
Sync == stable' = [id \in Ids |-> {disk'[id]}]

\* put: the pending file is renamed, the directory is synced, memory follows.
PutDone(known, shown, id, state) ==
  /\ records' = [known EXCEPT ![id] = state]
  /\ disk' = [shown EXCEPT ![id] = state]
  /\ Sync
  /\ UNCHANGED torn

\* Mutant: memory is updated although the directory could not be synced.
PutRemembered(known, shown, kept, id, state) ==
  /\ Faulty
  /\ records' = [known EXCEPT ![id] = state]
  /\ disk' = [shown EXCEPT ![id] = state]
  /\ stable' = [kept EXCEPT ![id] = kept[id] \cup {state}]
  /\ UNCHANGED torn

\* put fails before the rename, where its pending file may survive the unlink,
\* or after it, when the directory cannot be synced. A crash inside put is this
\* step followed by Exit or PowerLoss.
PutFailed(known, shown, kept, id, state) ==
  /\ Faulty
  /\ records' = known
  /\ \/ disk' = shown /\ stable' = kept /\ torn' \in {torn, TRUE}
     \/ /\ disk' = [shown EXCEPT ![id] = state]
        /\ stable' = [kept EXCEPT ![id] = kept[id] \cup {state}]
        /\ UNCHANGED torn

Put(id, state) == PutDone(records, disk, id, state)
PutFails(id, state) == PutFailed(records, disk, stable, id, state)

\* What prune may find older than the retention of a day. By then its publication
\* is gone: the ledger, which keeps a preparation for two minutes, has pruned it at
\* the latest in the reserve_preparation_wait that comes before every reserve.
Prunable == {id \in Ids : records[id] \in Settled /\ holder[id] = "none"}

\* Mutant: the file is unlinked and the record stays.
KeepRecords(gone) == records

\* What prune leaves in memory and on disk.
KeptRecords(gone) == [id \in Ids |-> IF id \in gone THEN "Unknown" ELSE records[id]]
KeptFiles(gone) == [id \in Ids |-> IF id \in gone THEN "Unknown" ELSE disk[id]]

\* A file whose unlinking has not been synced may come back.
Unlinked(gone) ==
  [id \in Ids |-> IF id \in gone THEN stable[id] \cup {"Unknown"} ELSE stable[id]]

Pruned(gone) ==
  /\ records' = KeptRecords(gone)
  /\ disk' = KeptFiles(gone)
  /\ Sync
  /\ UNCHANGED torn

\* An unlink or the closing sync fails, with some files already gone.
PruneFailed(gone) ==
  /\ Faulty
  /\ records' = KeptRecords(gone)
  /\ disk' = KeptFiles(gone)
  /\ stable' = Unlinked(gone)
  /\ UNCHANGED torn

Outlived(gone) ==
  [id \in Ids |-> IF id \in gone /\ effect[id] = "done" THEN "past" ELSE effect[id]]

\* The identifier of a pruned publication may be used for another one.
Renewed(id, gone) ==
  [Outlived(gone) EXCEPT ![id] = IF Outlived(gone)[id] = "past" THEN "none" ELSE effect[id]]

-----------------------------------------------------------------------------
(* Start and end of the process *)

Init ==
  /\ process = "down" /\ todo = {} /\ torn = FALSE
  /\ records = Everywhere("Unknown")
  /\ disk = Everywhere("Unknown")
  /\ stable = Everywhere({"Unknown"})
  /\ holder = Everywhere("none")
  /\ result = Everywhere("none")
  /\ effect = Everywhere("none")

\* JournalStore::open reads and validates every file before it changes any.
Open ==
  /\ process = "down"
  /\ ~torn
  /\ Cardinality(Known(disk)) <= MaxJournals
  /\ process' = "opening"
  /\ todo' = Known(disk)
  /\ UNCHANGED <<store, holder, result, effect>>

\* Mutant: a publication that was interrupted is taken for one that did not happen.
RecoveredAsCancelled(state) ==
  IF state \in {"Publishing", "Prepared"} THEN "Cancelled" ELSE state

Recovered(state) ==
  IF state = "Publishing" THEN "Indeterminate"
  ELSE IF state = "Prepared" THEN "Cancelled" ELSE state

\* Memory, and what other threads hold, is gone.
Gone ==
  /\ process' = "down"
  /\ todo' = {}
  /\ holder' = Everywhere("none")
  /\ result' = Everywhere("none")
  /\ effect' = [id \in Ids |-> IF effect[id] = "running" THEN "cut" ELSE effect[id]]

Recover(id) ==
  /\ process = "opening"
  /\ id \in todo
  /\ \/ /\ Put(id, Recovered(disk[id]))
        /\ todo' = todo \ {id}
        /\ UNCHANGED <<process, holder, result, effect>>
     \/ PutFailed(Everywhere("Unknown"), disk, stable, id, Recovered(disk[id])) /\ Gone

\* The prune that ends open; if it fails there is no store.
Opened ==
  /\ process = "opening"
  /\ todo = {}
  /\ \E gone \in SUBSET Prunable :
       \/ /\ Pruned(gone)
          /\ process' = "up"
          /\ effect' = Outlived(gone)
          /\ UNCHANGED <<todo, holder, result>>
       \/ /\ Faulty
          /\ records' = Everywhere("Unknown")
          /\ disk' = KeptFiles(gone) /\ stable' = Unlinked(gone)
          /\ process' = "down"
          /\ effect' = Outlived(gone)
          /\ UNCHANGED <<torn, todo, holder, result>>

\* The process ends; the system keeps what the directory shows.
Exit ==
  /\ process # "down"
  /\ Gone
  /\ records' = Everywhere("Unknown")
  /\ UNCHANGED <<disk, stable, torn>>

\* The machine fails: each file shows one of the states it may show.
PowerLoss ==
  /\ Gone
  /\ records' = Everywhere("Unknown")
  /\ disk' \in [Ids -> States] /\ \A id \in Ids : disk'[id] \in stable[id]
  /\ Sync
  /\ UNCHANGED torn

\* An operator removes incomplete pending files.
Reconcile ==
  /\ process = "down" /\ torn
  /\ torn' = FALSE
  /\ UNCHANGED <<process, todo, records, disk, stable, holder, result, effect>>

-----------------------------------------------------------------------------
(* Publications *)

\* Mutant: the identifier of a retained journal is taken again.
UnadmittedFull(id, known) == Cardinality(Known(known)) >= MaxJournals

\* An identifier that has a journal, in whatever state, is refused as a replay.
Unadmitted(id, known) ==
  known[id] # "Unknown" \/ Cardinality(Known(known)) >= MaxJournals

\* reserve_publication, at the end of prepare and of prepare_directory.
Reserve(id) ==
  /\ process = "up"
  /\ UNCHANGED <<process, todo, result>>
  /\ \E gone \in SUBSET Prunable :
       \/ PruneFailed(gone) /\ effect' = Outlived(gone) /\ UNCHANGED holder
       \/ /\ Unadmitted(id, KeptRecords(gone))
          /\ Pruned(gone)
          /\ effect' = Outlived(gone)
          /\ UNCHANGED holder
       \/ /\ ~Unadmitted(id, KeptRecords(gone))
          /\ \/ /\ PutDone(KeptRecords(gone), KeptFiles(gone), id, "Prepared")
                /\ effect' = Renewed(id, gone)
                /\ Stage(id, "reserved")
             \/ /\ PutFailed(KeptRecords(gone), KeptFiles(gone),
                             [i \in Ids |-> {KeptFiles(gone)[i]}], id, "Prepared")
                /\ effect' = Outlived(gone)
                /\ UNCHANGED holder

\* record_preparation rewrites the journal with the preparation it belongs to.
\* If that fails, or the ledger refuses the operation, it is dropped.
RecordPreparation(id) ==
  /\ holder[id] = "reserved"
  /\ \/ Put(id, records[id]) /\ Stage(id, "held")
     \/ PutFails(id, records[id]) /\ Stage(id, "dropping")
     \/ UNCHANGED store /\ Stage(id, "dropping")
  /\ UNCHANGED <<process, todo, result, effect>>

\* The ledger gives a prepared publication up: released, expired.
Discard(id) ==
  /\ holder[id] = "held"
  /\ Stage(id, "dropping")
  /\ UNCHANGED <<process, todo, store, result, effect>>

\* Mutant: the publication goes on although its fence was not written.
FenceUnchecked(id) ==
  /\ holder[id] = "held"
  /\ \/ UNCHANGED <<store, effect>> /\ Stage(id, "dropping")
     \/ /\ records[id] = "Prepared"
        /\ Put(id, "Publishing") \/ PutFails(id, "Publishing")
        /\ effect' = [effect EXCEPT ![id] = "running"]
        /\ Stage(id, "publishing")
  /\ UNCHANGED <<process, todo, result>>

\* execute, up to the publication: refused if the journal is no longer Prepared,
\* expired or cancelled; otherwise nothing happens before Publishing is durable.
Fence(id) ==
  /\ holder[id] = "held"
  /\ \/ UNCHANGED <<store, effect>> /\ Stage(id, "dropping")
     \/ /\ records[id] = "Prepared"
        /\ \/ /\ Put(id, "Publishing")
              /\ effect' = [effect EXCEPT ![id] = "running"]
              /\ Stage(id, "publishing")
           \/ PutFails(id, "Publishing") /\ Stage(id, "dropping") /\ UNCHANGED effect
  /\ UNCHANGED <<process, todo, result>>

\* The first change of the workspace: a directory, the link or the rename.
Land(id) ==
  /\ effect[id] = "running"
  /\ effect' = [effect EXCEPT ![id] = "done"]
  /\ UNCHANGED <<process, todo, store, holder, result>>

\* Mutant: an error other than the two that execute names leaves the state as the
\* fence wrote it.
ResultsUnmatched(id) ==
  IF effect[id] = "done" THEN {"Completed", "Indeterminate"}
  ELSE {"Publishing", "Cancelled", "Indeterminate"}

\* execute_binary_publication and execute_directory_publication: from the first
\* change on, whatever goes wrong is Indeterminate.
Results(id) ==
  IF effect[id] = "done" THEN {"Completed", "Indeterminate"}
  ELSE {"Failed", "Cancelled", "Indeterminate"}

Return(id) ==
  /\ holder[id] = "publishing"
  /\ \E r \in Results(id) :
       /\ result' = [result EXCEPT ![id] = r]
       /\ effect' = [effect EXCEPT ![id] = IF r \in Settled /\ @ = "running" THEN "none" ELSE @]
  /\ Stage(id, "returned")
  /\ UNCHANGED <<process, todo, store>>

\* The task is torn down at its await, or panics; the blocking thread goes on.
Abandon(id) ==
  /\ holder[id] = "publishing"
  /\ Stage(id, "dropping")
  /\ UNCHANGED <<process, todo, store, result, effect>>

\* The end of execute: the outcome is journaled, on top of the journal that was
\* written by the fence.
Settle(id) ==
  /\ holder[id] = "returned"
  /\ Put(id, result[id]) \/ PutFails(id, result[id])
  /\ result' = [result EXCEPT ![id] = "none"]
  /\ Stage(id, "dropping")
  /\ UNCHANGED <<process, todo, effect>>

\* Mutant: a publication dropped while it publishes is left as it is.
DroppedPrepared(state) == IF state = "Prepared" THEN "Cancelled" ELSE state

\* Mutant: whatever was not prepared is uncertain.
DroppedAll(state) == IF state = "Prepared" THEN "Cancelled" ELSE "Indeterminate"

\* What Drop makes of a journal; the others are not written again.
Dropped(state) ==
  IF state = "Prepared" THEN "Cancelled"
  ELSE IF state = "Publishing" THEN "Indeterminate" ELSE state

\* Drop for PreparedPublication and PreparedDirectoryTransfer; a failure of put
\* is ignored.
Drop(id) ==
  /\ holder[id] = "dropping"
  /\ \/ Dropped(records[id]) = records[id] /\ UNCHANGED store
     \/ /\ Dropped(records[id]) # records[id]
        /\ Put(id, Dropped(records[id])) \/ PutFails(id, Dropped(records[id]))
  /\ Stage(id, "none")
  /\ UNCHANGED <<process, todo, result, effect>>

\* status and directory_status of a journal that has expired.
ExpireByStatus(id) ==
  /\ process = "up"
  /\ records[id] = "Prepared"
  /\ Put(id, "Cancelled") \/ PutFails(id, "Cancelled")
  /\ UNCHANGED <<process, todo, holder, result, effect>>

Task(id) == Return(id) \/ Settle(id) \/ Drop(id)

Next ==
  \/ Open \/ Opened \/ Exit \/ PowerLoss \/ Reconcile
  \/ \E id \in Ids :
       \/ Recover(id) \/ Task(id) \/ Reserve(id) \/ RecordPreparation(id) \/ Discard(id) \/ Fence(id)
       \/ Land(id) \/ Abandon(id) \/ ExpireByStatus(id)

Spec == Init /\ [][Next]_vars

\* The process is restarted and its tasks are scheduled: a publication has a
\* deadline of 60 s and a drop runs to its end. The process may be killed again
\* and again, but not always before it has rewritten the same journal.
FairSpec ==
  /\ Spec
  /\ WF_vars(Open)
  /\ \A id \in Ids : WF_vars(Task(id)) /\ SF_vars(Recover(id))

-----------------------------------------------------------------------------
\* The variables hold what the code's types can hold; what a publication ends with
\* is always a final state, never the Publishing of its fence (the match on the
\* result in execute), and the file is one of those a loss of power may leave.
TypeOK ==
  /\ process \in {"down", "opening", "up"} /\ todo \subseteq Ids
  /\ records \in [Ids -> States] /\ disk \in [Ids -> States]
  /\ stable \in [Ids -> SUBSET States] /\ torn \in BOOLEAN
  /\ holder \in [Ids -> Stages]
  /\ result \in [Ids -> Final \cup {"none"}]
  /\ effect \in [Ids -> Effects]
  /\ \A id \in Ids : disk[id] \in stable[id]

\* Whenever power fails, before, during or after the effect on the workspace, the
\* journal that is found says at least that publishing had begun (the fence in
\* execute, put, JournalStore::open).
Fenced ==
  \A id \in Ids :
     effect[id] \in {"running", "done", "cut"} => stable[id] \cap {"Unknown", "Prepared"} = {}

\* What a journal says, in memory and in whatever a crash leaves of it, is true:
\* Completed only after the effect, Failed and Cancelled only without one
\* (the outcomes of execute, Drop, recovery, expiry by status).
Truthful ==
  \A id \in Ids :
     \A state \in stable[id] \cup {records[id]} :
        /\ state = "Completed" => effect[id] \in {"done", "past"}
        /\ state \in {"Failed", "Cancelled"} => effect[id] \in {"none", "past"}

\* An identifier publishes once as long as its journal is retained, through
\* crashes, restarts and failed writes (reserve_publication, execute).
PublishesOnce ==
  [][\A id \in Ids :
       holder[id] = "held" /\ holder'[id] = "publishing" => effect[id] = "none"]_vars

\* A final state is answered only when no loss of power can take it back (put
\* updates memory last).
AnswersAreDurable ==
  process = "up" => \A id \in Ids : records[id] \in Final => stable[id] = {records[id]}

\* An outcome that status may have answered, or that a start finds, never becomes
\* another one, whatever drops, expires, crashes or is recovered; only a settled
\* one may be pruned and its identifier used again (Drop, put, open, prune).
OutcomesSurvive ==
  [][\A id \in Ids : \A state \in Final :
       stable[id] = {state} /\ (process = "up" => records[id] = state) =>
          \/ stable'[id] = {state}
          \/ state \in Settled /\ ("Unknown" \in stable'[id] \/ holder'[id] = "reserved")]_vars

\* prune unlinks the file of every record it gives up and fails if there is none,
\* and with it every reserve: each record in memory has its file (prune, put).
RecordsHaveFiles == \A id \in Ids : records[id] # "Unknown" => disk[id] # "Unknown"

\* With a working disk, a publication that passed its fence gets an outcome,
\* also if its task is torn down or the process restarts (execute, Drop, open).
PublishingSettles ==
  \A id \in Ids : disk[id] = "Publishing" ~> disk[id] \in Final

\* The store holds no more journals than it can open again
\* (reserve_publication; README: "The journal allows 256 records").
FilesWithinQuota == Cardinality(Known(disk)) <= MaxJournals
=============================================================================
