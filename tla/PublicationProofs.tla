------------------------- MODULE PublicationProofs --------------------------
(***************************************************************************)
(* Theorems about the publication journal, for any identifiers, any quota  *)
(* and any faults of the disk.                                             *)
(***************************************************************************)
EXTENDS Publication, TLAPS

\* What holds of each identifier. The properties say what a journal may show; the
\* last conjuncts tie what it shows to where its publication stands.
Good(id) ==
  /\ disk[id] \in stable[id]
  /\ effect[id] \in {"running", "done", "cut"} => "Unknown" \notin stable[id] /\ "Prepared" \notin stable[id]
  /\ "Completed" \in stable[id] => effect[id] \in {"done", "past"}
  /\ "Failed" \in stable[id] \/ "Cancelled" \in stable[id] => effect[id] \in {"none", "past"}
  /\ records[id] # "Unknown" => disk[id] # "Unknown"
  /\ records[id] \in Final => stable[id] = {records[id]}
  /\ process = "down" => records[id] = "Unknown"
  /\ process # "up" => holder[id] = "none"
  /\ process = "opening" => records[id] = IF id \in todo THEN "Unknown" ELSE disk[id]
  /\ process = "up" /\ records[id] = "Unknown" => effect[id] \in {"none", "past"}
  /\ records[id] = "Prepared" => effect[id] = "none"
  /\ holder[id] \in {"publishing", "returned"} => records[id] = "Publishing" /\ stable[id] = {"Publishing"}
  /\ holder[id] = "publishing" => effect[id] \in {"running", "done"}
  /\ holder[id] = "returned" =>
       /\ result[id] \in Final
       /\ result[id] = "Completed" => effect[id] = "done"
       /\ result[id] \in {"Failed", "Cancelled"} => effect[id] = "none"

Types ==
  /\ process \in {"down", "opening", "up"} /\ todo \subseteq Ids
  /\ records \in [Ids -> States] /\ disk \in [Ids -> States]
  /\ stable \in [Ids -> SUBSET States] /\ torn \in BOOLEAN
  /\ holder \in [Ids -> Stages]
  /\ result \in [Ids -> Final \cup {"none"}]
  /\ effect \in [Ids -> Effects]

Inv == Types /\ \A id \in Ids : Good(id)

USE DEF Settled, Final, Journaled, States, Stages, Effects

\* The initial state satisfies the invariant.
LEMMA InitInv == Init => Inv
<1> SUFFICES ASSUME Init PROVE Inv
  OBVIOUS
<1>1. Types
  BY DEF Init, Types, Everywhere
<1>2. ASSUME NEW i \in Ids PROVE Good(i)
  BY DEF Init, Good, Everywhere
<1> QED BY <1>1, <1>2 DEF Inv

\* Opening, running and ending the process keeps what is known of each journal.
LEMMA ProcessInv ==
  ASSUME Inv, Open \/ Opened \/ Exit \/ PowerLoss \/ Reconcile
  PROVE Inv'
<1>1. CASE Open
  <2>1. Types'
    BY <1>1 DEF Open, Known, store, Inv, Types
  <2>2. ASSUME NEW i \in Ids PROVE Good(i)'
    BY <1>1 DEF Open, Known, store, Inv, Types, Good
  <2> QED BY <2>1, <2>2 DEF Inv
<1>2. CASE Opened
  <2>1. PICK gone \in SUBSET Prunable :
       \/ Pruned(gone) /\ process' = "up" /\ effect' = Outlived(gone) /\ UNCHANGED <<todo, holder, result>>
       \/ /\ records' = Everywhere("Unknown") /\ disk' = KeptFiles(gone) /\ stable' = Unlinked(gone)
          /\ process' = "down" /\ effect' = Outlived(gone) /\ UNCHANGED <<torn, todo, holder, result>>
    BY <1>2 DEF Opened
  <2>2. Types'
    BY <1>2, <2>1 DEF Opened, Inv, Types, Pruned, Sync, KeptRecords, KeptFiles, Unlinked, Outlived, Everywhere
  <2>3. ASSUME NEW i \in Ids PROVE Good(i)'
    BY <1>2, <2>1 DEF Opened, Prunable, Inv, Types, Good, Pruned, Sync, KeptRecords, KeptFiles, Unlinked, Outlived, Everywhere
  <2> QED BY <2>2, <2>3 DEF Inv
<1>3. CASE Exit
  <2>1. Types'
    BY <1>3 DEF Exit, Gone, Everywhere, Inv, Types
  <2>2. ASSUME NEW i \in Ids PROVE Good(i)'
    BY <1>3 DEF Exit, Gone, Everywhere, Inv, Types, Good
  <2> QED BY <2>1, <2>2 DEF Inv
<1>4. CASE PowerLoss
  <2>1. Types'
    BY <1>4 DEF PowerLoss, Gone, Sync, Everywhere, Inv, Types
  <2>2. ASSUME NEW i \in Ids PROVE Good(i)'
    BY <1>4 DEF PowerLoss, Gone, Sync, Everywhere, Inv, Types, Good
  <2> QED BY <2>1, <2>2 DEF Inv
<1>5. CASE Reconcile
  <2>1. Types'
    BY <1>5 DEF Reconcile, Inv, Types
  <2>2. ASSUME NEW i \in Ids PROVE Good(i)'
    BY <1>5 DEF Reconcile, Inv, Types, Good
  <2> QED BY <2>1, <2>2 DEF Inv
<1> QED BY <1>1, <1>2, <1>3, <1>4, <1>5

\* What a write that succeeds leaves of the store.
LEMMA PutDoneFacts ==
  ASSUME NEW known \in [Ids -> States], NEW shown \in [Ids -> States],
         NEW id \in Ids, NEW state \in States, torn \in BOOLEAN,
         PutDone(known, shown, id, state)
  PROVE  /\ records' \in [Ids -> States] /\ disk' \in [Ids -> States]
         /\ stable' \in [Ids -> SUBSET States] /\ torn' \in BOOLEAN
         /\ \A i \in Ids : /\ records'[i] = IF i = id THEN state ELSE known[i]
                           /\ disk'[i] = IF i = id THEN state ELSE shown[i]
                           /\ stable'[i] = {disk'[i]}
<1>1. records' \in [Ids -> States] /\ disk' \in [Ids -> States]
  BY DEF PutDone
<1>2. stable' \in [Ids -> SUBSET States]
  BY <1>1 DEF PutDone, Sync
<1>3. torn' \in BOOLEAN
  BY DEF PutDone
<1>4. \A i \in Ids : /\ records'[i] = IF i = id THEN state ELSE known[i]
                     /\ disk'[i] = IF i = id THEN state ELSE shown[i]
                     /\ stable'[i] = {disk'[i]}
  BY DEF PutDone, Sync
<1> QED BY <1>1, <1>2, <1>3, <1>4

\* What a write that fails may leave: nothing changed, or a new file that a loss
\* of power may take back.
LEMMA PutFailedFacts ==
  ASSUME NEW known \in [Ids -> States], NEW shown \in [Ids -> States],
         NEW kept \in [Ids -> SUBSET States],
         NEW id \in Ids, NEW state \in States, torn \in BOOLEAN,
         PutFailed(known, shown, kept, id, state)
  PROVE  /\ records' \in [Ids -> States] /\ disk' \in [Ids -> States]
         /\ stable' \in [Ids -> SUBSET States] /\ torn' \in BOOLEAN
         /\ \A i \in Ids :
              /\ records'[i] = known[i]
              /\ \/ disk'[i] = shown[i] /\ stable'[i] = kept[i]
                 \/ i = id /\ disk'[i] = state /\ stable'[i] = kept[i] \cup {state}
<1>1. torn' \in BOOLEAN
  BY Zenon DEF PutFailed
<1>2. CASE records' = known /\ disk' = shown /\ stable' = kept
  BY <1>1, <1>2
<1>3. CASE /\ records' = known
           /\ disk' = [shown EXCEPT ![id] = state]
           /\ stable' = [kept EXCEPT ![id] = kept[id] \cup {state}]
  <2>1. records' \in [Ids -> States] /\ disk' \in [Ids -> States]
    BY <1>3
  <2>2. kept[id] \cup {state} \in SUBSET States
    <3>1. kept[id] \in SUBSET States
      OBVIOUS
    <3> QED BY <3>1
  <2>3. stable' \in [Ids -> SUBSET States]
    BY <1>3, <2>2
  <2>4. ASSUME NEW i \in Ids
        PROVE /\ records'[i] = known[i]
              /\ \/ disk'[i] = shown[i] /\ stable'[i] = kept[i]
                 \/ i = id /\ disk'[i] = state /\ stable'[i] = kept[i] \cup {state}
    BY <1>3
  <2> QED BY <1>1, <2>1, <2>3, <2>4
<1> QED BY <1>2, <1>3 DEF PutFailed

\* The two outcomes of a write, in terms of the store it started from.
Written(id, state) ==
  /\ records' \in [Ids -> States] /\ disk' \in [Ids -> States]
  /\ stable' \in [Ids -> SUBSET States] /\ torn' \in BOOLEAN
  /\ \A i \in Ids : /\ records'[i] = IF i = id THEN state ELSE records[i]
                    /\ disk'[i] = IF i = id THEN state ELSE disk[i]
                    /\ stable'[i] = {disk'[i]}

Unwritten(id, state) ==
  /\ records' \in [Ids -> States] /\ disk' \in [Ids -> States]
  /\ stable' \in [Ids -> SUBSET States] /\ torn' \in BOOLEAN
  /\ \A i \in Ids :
       /\ records'[i] = records[i]
       /\ \/ disk'[i] = disk[i] /\ stable'[i] = stable[i]
          \/ i = id /\ disk'[i] = state /\ stable'[i] = stable[i] \cup {state}

LEMMA PutFacts ==
  ASSUME Inv, NEW id \in Ids, NEW state \in States
  PROVE  /\ Put(id, state) => Written(id, state)
         /\ PutFails(id, state) => Unwritten(id, state)
<1> /\ records \in [Ids -> States] /\ disk \in [Ids -> States]
    /\ stable \in [Ids -> SUBSET States] /\ torn \in BOOLEAN
  BY DEF Inv, Types
<1>1. ASSUME Put(id, state) PROVE Written(id, state)
  BY <1>1, PutDoneFacts DEF Put, Written
<1>2. ASSUME PutFails(id, state) PROVE Unwritten(id, state)
  BY <1>2, PutFailedFacts DEF PutFails, Unwritten
<1> QED BY <1>1, <1>2

\* open rewrites one journal, or fails.
LEMMA RecoverInv ==
  ASSUME Inv, NEW id \in Ids, Recover(id)
  PROVE Inv'
<1>1. CASE Put(id, Recovered(disk[id])) /\ todo' = todo \ {id} /\ UNCHANGED <<process, holder, result, effect>>
  <2>1. Types'
    BY <1>1 DEF Recover, Recovered, Put, PutDone, Sync, Inv, Types
  <2>2. ASSUME NEW i \in Ids PROVE Good(i)'
    BY <1>1 DEF Recover, Recovered, Put, PutDone, Sync, Inv, Types, Good
  <2> QED BY <2>1, <2>2 DEF Inv
<1>2. CASE PutFailed(Everywhere("Unknown"), disk, stable, id, Recovered(disk[id])) /\ Gone
  <2> DEFINE none == Everywhere("Unknown")
  <2>1. none \in [Ids -> States] /\ \A i \in Ids : none[i] = "Unknown"
    BY DEF Everywhere
  <2>2. /\ disk \in [Ids -> States] /\ stable \in [Ids -> SUBSET States] /\ torn \in BOOLEAN
        /\ Recovered(disk[id]) \in States
    BY DEF Inv, Types, Recovered
  <2> HIDE DEF none
  <2>3. /\ records' \in [Ids -> States] /\ disk' \in [Ids -> States]
        /\ stable' \in [Ids -> SUBSET States] /\ torn' \in BOOLEAN
        /\ \A i \in Ids :
             /\ records'[i] = none[i]
             /\ \/ disk'[i] = disk[i] /\ stable'[i] = stable[i]
                \/ i = id /\ disk'[i] = Recovered(disk[i]) /\ stable'[i] = stable[i] \cup {Recovered(disk[i])}
    BY <1>2, <2>1, <2>2, PutFailedFacts DEF none
  <2>4. process' = "down" /\ todo' = {} /\ process = "opening"
    BY <1>2 DEF Recover, Gone
  <2>5. /\ holder' \in [Ids -> Stages] /\ result' \in [Ids -> Final \cup {"none"}] /\ effect' \in [Ids -> Effects]
        /\ \A i \in Ids : /\ holder'[i] = "none"
                          /\ effect'[i] = IF effect[i] = "running" THEN "cut" ELSE effect[i]
    BY <1>2 DEF Gone, Everywhere, Inv, Types
  <2>6. Types'
    BY <2>3, <2>4, <2>5 DEF Types
  <2>7. ASSUME NEW i \in Ids PROVE Good(i)'
    BY <2>1, <2>3, <2>4, <2>5 DEF Inv, Types, Good, Recovered
  <2> QED BY <2>6, <2>7 DEF Inv
<1> QED BY <1>1, <1>2 DEF Recover

\* A journal is reserved after the old ones have been pruned.
LEMMA ReserveInv ==
  ASSUME Inv, NEW id \in Ids, Reserve(id)
  PROVE Inv'
<1> PICK gone \in SUBSET Prunable :
     \/ PruneFailed(gone) /\ effect' = Outlived(gone) /\ UNCHANGED holder
     \/ Pruned(gone) /\ effect' = Outlived(gone) /\ UNCHANGED holder
     \/ /\ ~Unadmitted(id, KeptRecords(gone))
        /\ PutDone(KeptRecords(gone), KeptFiles(gone), id, "Prepared")
        /\ effect' = Renewed(id, gone)
        /\ Stage(id, "reserved")
     \/ /\ ~Unadmitted(id, KeptRecords(gone))
        /\ PutFailed(KeptRecords(gone), KeptFiles(gone), [i \in Ids |-> {KeptFiles(gone)[i]}], id, "Prepared")
        /\ effect' = Outlived(gone)
        /\ UNCHANGED holder
  BY DEF Reserve
<1> process = "up" /\ UNCHANGED <<process, todo, result>>
  BY DEF Reserve
<1> DEFINE old == KeptRecords(gone)
           files == KeptFiles(gone)
           past == Outlived(gone)
<1>1. /\ old \in [Ids -> States] /\ files \in [Ids -> States] /\ past \in [Ids -> Effects]
      /\ \A i \in Ids : /\ old[i] = IF i \in gone THEN "Unknown" ELSE records[i]
                        /\ files[i] = IF i \in gone THEN "Unknown" ELSE disk[i]
                        /\ past[i] = IF i \in gone /\ effect[i] = "done" THEN "past" ELSE effect[i]
  BY DEF Inv, Types, KeptRecords, KeptFiles, Outlived
<1>2. \A i \in gone : records[i] \in Settled /\ holder[i] = "none" /\ i \in Ids
  BY DEF Prunable
<1>3. CASE PruneFailed(gone) /\ past = effect' /\ UNCHANGED holder
  <2>1. Types'
    BY <1>3, <1>1, <1>2 DEF PruneFailed, Unlinked, Inv, Types
  <2>2. ASSUME NEW i \in Ids PROVE Good(i)'
    BY <1>3, <1>1, <1>2 DEF PruneFailed, Unlinked, Inv, Types, Good
  <2> QED BY <2>1, <2>2 DEF Inv
<1>4. CASE Pruned(gone) /\ past = effect' /\ UNCHANGED holder
  <2>1. Types'
    BY <1>4, <1>1, <1>2 DEF Pruned, Sync, Inv, Types
  <2>2. ASSUME NEW i \in Ids PROVE Good(i)'
    BY <1>4, <1>1, <1>2 DEF Pruned, Sync, Inv, Types, Good
  <2> QED BY <2>1, <2>2 DEF Inv
<1>5. CASE /\ old[id] = "Unknown"
           /\ PutDone(old, files, id, "Prepared") /\ effect' = Renewed(id, gone) /\ Stage(id, "reserved")
  <2>1. Types'
    BY <1>5, <1>1, <1>2 DEF PutDone, Sync, Renewed, Stage, Inv, Types
  <2>2. ASSUME NEW i \in Ids PROVE Good(i)'
    BY <1>5, <1>1, <1>2 DEF PutDone, Sync, Renewed, Stage, Inv, Types, Good
  <2> QED BY <2>1, <2>2 DEF Inv
<1>6. CASE /\ old[id] = "Unknown"
           /\ PutFailed(old, files, [i \in Ids |-> {files[i]}], id, "Prepared")
           /\ past = effect' /\ UNCHANGED holder
  <2> DEFINE kept == [i \in Ids |-> {files[i]}]
  <2> HIDE DEF old, files, past
  <2>1. kept \in [Ids -> SUBSET States] /\ \A i \in Ids : kept[i] = {files[i]}
    BY <1>1
  <2> HIDE DEF kept
  <2>2. torn \in BOOLEAN
    BY DEF Inv, Types
  <2>3. PutFailed(old, files, kept, id, "Prepared")
    BY <1>6 DEF kept
  <2>4. /\ records' \in [Ids -> States] /\ disk' \in [Ids -> States]
        /\ stable' \in [Ids -> SUBSET States] /\ torn' \in BOOLEAN
        /\ \A i \in Ids :
             /\ records'[i] = old[i]
             /\ \/ disk'[i] = files[i] /\ stable'[i] = kept[i]
                \/ i = id /\ disk'[i] = "Prepared" /\ stable'[i] = kept[i] \cup {"Prepared"}
    BY <1>1, <2>1, <2>2, <2>3, PutFailedFacts
  <2>5. Types'
    BY <1>1, <1>6, <2>4 DEF Inv, Types
  <2>6. ASSUME NEW i \in Ids PROVE Good(i)'
    BY <1>1, <1>2, <1>6, <2>1, <2>4 DEF Inv, Types, Good
  <2> QED BY <2>5, <2>6 DEF Inv
<1> QED BY <1>3, <1>4, <1>5, <1>6 DEF Unadmitted

\* A prepared publication is recorded, given up, or cancelled by status.
LEMMA PreparedInv ==
  ASSUME Inv, NEW id \in Ids, RecordPreparation(id) \/ Discard(id) \/ ExpireByStatus(id)
  PROVE Inv'
<1>0. records[id] \in States
  BY DEF Inv, Types
<1>1. CASE RecordPreparation(id)
  <2>1. \/ Written(id, records[id]) /\ Stage(id, "held")
        \/ Unwritten(id, records[id]) /\ Stage(id, "dropping")
        \/ UNCHANGED store /\ Stage(id, "dropping")
    BY <1>0, <1>1, PutFacts DEF RecordPreparation
  <2>2. holder[id] = "reserved" /\ UNCHANGED <<process, todo, result, effect>>
    BY <1>1 DEF RecordPreparation
  <2>3. Types'
    BY <2>1, <2>2 DEF Written, Unwritten, Stage, store, Inv, Types
  <2>4. ASSUME NEW i \in Ids PROVE Good(i)'
    BY <2>1, <2>2 DEF Written, Unwritten, Stage, store, Inv, Types, Good
  <2> QED BY <2>3, <2>4 DEF Inv
<1>2. CASE Discard(id)
  <2>1. Types'
    BY <1>2 DEF Discard, Stage, store, Inv, Types
  <2>2. ASSUME NEW i \in Ids PROVE Good(i)'
    BY <1>2 DEF Discard, Stage, store, Inv, Types, Good
  <2> QED BY <2>1, <2>2 DEF Inv
<1>3. CASE ExpireByStatus(id)
  <2>1. Written(id, "Cancelled") \/ Unwritten(id, "Cancelled")
    BY <1>3, PutFacts DEF ExpireByStatus
  <2>2. process = "up" /\ records[id] = "Prepared" /\ UNCHANGED <<process, todo, holder, result, effect>>
    BY <1>3 DEF ExpireByStatus
  <2>3. Types'
    BY <2>1, <2>2 DEF Written, Unwritten, Inv, Types
  <2>4. ASSUME NEW i \in Ids PROVE Good(i)'
    BY <2>1, <2>2 DEF Written, Unwritten, Inv, Types, Good
  <2> QED BY <2>3, <2>4 DEF Inv
<1> QED BY <1>1, <1>2, <1>3

\* The fence, the publication behind it and its end.
LEMMA ExecutionInv ==
  ASSUME Inv, NEW id \in Ids, Fence(id) \/ Land(id) \/ Abandon(id) \/ Return(id) \/ Settle(id) \/ Drop(id)
  PROVE Inv'
<1>1. CASE Fence(id)
  <2>1. \/ UNCHANGED <<store, effect>> /\ Stage(id, "dropping")
        \/ /\ records[id] = "Prepared" /\ Written(id, "Publishing")
           /\ effect' = [effect EXCEPT ![id] = "running"] /\ Stage(id, "publishing")
        \/ /\ records[id] = "Prepared" /\ Unwritten(id, "Publishing")
           /\ Stage(id, "dropping") /\ UNCHANGED effect
    BY <1>1, PutFacts DEF Fence
  <2>2. holder[id] = "held" /\ UNCHANGED <<process, todo, result>>
    BY <1>1 DEF Fence
  <2>3. Types'
    BY <2>1, <2>2 DEF Written, Unwritten, Stage, store, Inv, Types
  <2>4. ASSUME NEW i \in Ids PROVE Good(i)'
    BY <2>1, <2>2 DEF Written, Unwritten, Stage, store, Inv, Types, Good
  <2> QED BY <2>3, <2>4 DEF Inv
<1>2. CASE Land(id)
  <2>1. Types'
    BY <1>2 DEF Land, store, Inv, Types
  <2>2. ASSUME NEW i \in Ids PROVE Good(i)'
    BY <1>2 DEF Land, store, Inv, Types, Good
  <2> QED BY <2>1, <2>2 DEF Inv
<1>3. CASE Abandon(id)
  <2>1. Types'
    BY <1>3 DEF Abandon, Stage, store, Inv, Types
  <2>2. ASSUME NEW i \in Ids PROVE Good(i)'
    BY <1>3 DEF Abandon, Stage, store, Inv, Types, Good
  <2> QED BY <2>1, <2>2 DEF Inv
<1>4. CASE Return(id)
  <2>1. Types'
    BY <1>4 DEF Return, Results, Stage, store, Inv, Types
  <2>2. ASSUME NEW i \in Ids PROVE Good(i)'
    BY <1>4 DEF Return, Results, Stage, store, Inv, Types, Good
  <2> QED BY <2>1, <2>2 DEF Inv
<1>5. CASE Settle(id)
  <2>1. result[id] \in States /\ result[id] \in Final
    BY <1>5 DEF Settle, Inv, Good
  <2>2. Written(id, result[id]) \/ Unwritten(id, result[id])
    BY <1>5, <2>1, PutFacts DEF Settle
  <2>3. /\ holder[id] = "returned" /\ UNCHANGED <<process, todo, effect>>
        /\ result' = [result EXCEPT ![id] = "none"] /\ Stage(id, "dropping")
    BY <1>5 DEF Settle
  <2>4. Types'
    BY <2>2, <2>3 DEF Written, Unwritten, Stage, Inv, Types
  <2>5. ASSUME NEW i \in Ids PROVE Good(i)'
    BY <2>1, <2>2, <2>3 DEF Written, Unwritten, Stage, Inv, Types, Good
  <2> QED BY <2>4, <2>5 DEF Inv
<1>6. CASE Drop(id)
  <2>1. Dropped(records[id]) \in States
    BY DEF Dropped, Inv, Types
  <2>2. \/ UNCHANGED store
        \/ Dropped(records[id]) # records[id] /\ Written(id, Dropped(records[id]))
        \/ Dropped(records[id]) # records[id] /\ Unwritten(id, Dropped(records[id]))
    BY <1>6, <2>1, PutFacts DEF Drop
  <2>3. holder[id] = "dropping" /\ Stage(id, "none") /\ UNCHANGED <<process, todo, result, effect>>
    BY <1>6 DEF Drop
  <2>4. Types'
    BY <2>2, <2>3 DEF Written, Unwritten, Stage, store, Inv, Types
  <2>5. ASSUME NEW i \in Ids PROVE Good(i)'
    BY <2>2, <2>3 DEF Dropped, Written, Unwritten, Stage, store, Inv, Types, Good
  <2> QED BY <2>4, <2>5 DEF Inv
<1> QED BY <1>1, <1>2, <1>3, <1>4, <1>5, <1>6

\* Every step keeps the invariant.
LEMMA NextInv == Inv /\ [Next]_vars => Inv'
<1> SUFFICES ASSUME Inv, [Next]_vars PROVE Inv'
  OBVIOUS
<1>1. CASE UNCHANGED vars
  <2>1. Types'
    BY <1>1 DEF vars, Inv, Types
  <2>2. ASSUME NEW i \in Ids PROVE Good(i)'
    BY <1>1 DEF vars, Inv, Types, Good
  <2> QED BY <2>1, <2>2 DEF Inv
<1>2. CASE Next
  BY <1>2, ProcessInv, RecoverInv, ReserveInv, PreparedInv, ExecutionInv DEF Next, Task
<1> QED BY <1>1, <1>2

LEMMA PublicationInv == Spec => []Inv
<1> QED BY InitInv, NextInv, PTL DEF Spec

\* No power failure after the effect has begun finds a journal that does not say
\* so: execute writes its fence before anything else (Fenced).
THEOREM PublicationFenced == Spec => []Fenced
<1>1. Inv => Fenced
  BY DEF Inv, Types, Good, Fenced
<1> QED BY <1>1, PublicationInv, PTL

\* A journal never claims an effect that was not, nor denies one that was, in
\* memory or in anything a crash leaves (Truthful).
THEOREM PublicationTruthful == Spec => []Truthful
<1>1. Inv => Truthful
  <2> SUFFICES ASSUME Inv, NEW id \in Ids, NEW state \in stable[id] \cup {records[id]}
               PROVE /\ state = "Completed" => effect[id] \in {"done", "past"}
                     /\ state \in {"Failed", "Cancelled"} => effect[id] \in {"none", "past"}
    BY DEF Truthful
  <2> QED BY DEF Inv, Types, Good
<1> QED BY <1>1, PublicationInv, PTL

\* A final answer survives any loss of power (AnswersAreDurable).
THEOREM PublicationAnswersAreDurable == Spec => []AnswersAreDurable
<1>1. Inv => AnswersAreDurable
  BY DEF Inv, Types, Good, AnswersAreDurable
<1> QED BY <1>1, PublicationInv, PTL

\* prune finds the file of every record (RecordsHaveFiles).
THEOREM PublicationRecordsHaveFiles == Spec => []RecordsHaveFiles
<1>1. Inv => RecordsHaveFiles
  BY DEF Inv, Good, RecordsHaveFiles
<1> QED BY <1>1, PublicationInv, PTL

\* The journal, its files and its publications keep their types, and a file shows
\* one of the states it may show (TypeOK).
THEOREM PublicationTypes == Spec => []TypeOK
<1>1. Inv => TypeOK
  BY DEF Inv, Types, Good, TypeOK
<1> QED BY <1>1, PublicationInv, PTL

\* An identifier passes the fence once as long as its journal is retained: a
\* second publication would find its journal no longer Prepared (PublishesOnce).
THEOREM PublicationPublishesOnce == Spec => PublishesOnce
<1> DEFINE Once == \A id \in Ids :
             holder[id] = "held" /\ holder'[id] = "publishing" => effect[id] = "none"
<1>1. Inv /\ [Next]_vars => [Once]_vars
  <2> SUFFICES ASSUME Inv, Next, NEW i \in Ids, holder[i] = "held", holder'[i] = "publishing"
               PROVE effect[i] = "none"
    OBVIOUS
  <2>1. CASE Open \/ Opened \/ Exit \/ PowerLoss \/ Reconcile
    BY <2>1 DEF Open, Opened, Exit, PowerLoss, Reconcile, Gone, Everywhere
  <2>2. ASSUME NEW id \in Ids,
               \/ Recover(id) \/ Task(id) \/ Reserve(id) \/ RecordPreparation(id) \/ Discard(id)
               \/ Land(id) \/ Abandon(id) \/ ExpireByStatus(id)
        PROVE FALSE
    <3>1. holder \in [Ids -> Stages]
      BY DEF Inv, Types
    <3>2. CASE Recover(id)
      BY <3>2 DEF Recover, Gone, Everywhere
    <3>3. CASE Reserve(id)
      BY <3>1, <3>3 DEF Reserve, Stage
    <3>4. CASE Task(id)
      BY <3>1, <3>4 DEF Task, Return, Settle, Drop, Stage
    <3>5. CASE RecordPreparation(id) \/ Discard(id)
      BY <3>1, <3>5 DEF RecordPreparation, Discard, Stage
    <3>6. CASE Land(id) \/ Abandon(id) \/ ExpireByStatus(id)
      BY <3>1, <3>6 DEF Land, Abandon, ExpireByStatus, Stage
    <3> QED BY <2>2, <3>2, <3>3, <3>4, <3>5, <3>6
  <2>3. ASSUME NEW id \in Ids, Fence(id) PROVE effect[i] = "none"
    <3>1. CASE i = id
      <4>1. records[i] = "Prepared"
        BY <2>3, <3>1 DEF Fence, Stage, Inv, Types
      <4> QED BY <4>1 DEF Inv, Good
    <3>2. CASE i # id
      BY <2>3, <3>2 DEF Fence, Stage, Inv, Types
    <3> QED BY <3>1, <3>2
  <2> QED BY <2>1, <2>2, <2>3 DEF Next
<1> QED BY <1>1, PublicationInv, PTL DEF Spec, PublishesOnce

\* What OutcomesSurvive asks of one journal.
Survives(i, state) ==
  stable[i] = {state} /\ (process = "up" => records[i] = state) =>
     \/ stable'[i] = {state}
     \/ state \in Settled /\ ("Unknown" \in stable'[i] \/ holder'[i] = "reserved")

\* Starts, ends and the rewriting of journals keep an outcome.
LEMMA ProcessSurvives ==
  ASSUME Inv, NEW i \in Ids, NEW state \in Final,
         \/ Open \/ Opened \/ Exit \/ PowerLoss \/ Reconcile
         \/ \E id \in Ids : Recover(id)
  PROVE  Survives(i, state)
<1>1. CASE Open \/ Exit \/ Reconcile
  BY <1>1 DEF Open, Exit, Reconcile, store, Survives
<1>2. CASE PowerLoss
  BY <1>2 DEF PowerLoss, Sync, Survives
<1>3. CASE Opened
  <2>1. PICK gone \in SUBSET Prunable : Pruned(gone) \/ stable' = Unlinked(gone)
    BY <1>3 DEF Opened
  <2>2. process = "opening" /\ todo = {}
    BY <1>3 DEF Opened
  <2> QED BY <2>1, <2>2 DEF Prunable, Pruned, KeptFiles, Sync, Unlinked, Survives, Inv, Types, Good
<1>4. ASSUME NEW id \in Ids, Recover(id) PROVE Survives(i, state)
  <2>1. disk[i] \in stable[i] /\ disk \in [Ids -> States] /\ stable \in [Ids -> SUBSET States]
    BY DEF Inv, Types, Good
  <2>2. CASE Put(id, Recovered(disk[id]))
    BY <2>1, <2>2 DEF Put, PutDone, Sync, Recovered, Survives
  <2>3. CASE PutFailed(Everywhere("Unknown"), disk, stable, id, Recovered(disk[id]))
    <3>1. \/ stable'[i] = stable[i]
          \/ stable'[i] = stable[i] \cup {Recovered(disk[i])}
      BY <2>1, <2>3 DEF PutFailed
    <3> QED BY <2>1, <3>1 DEF Recovered, Survives
  <2> QED BY <1>4, <2>2, <2>3 DEF Recover
<1> QED BY <1>1, <1>2, <1>3, <1>4

\* Only a settled outcome leaves, by way of prune, when another is reserved.
LEMMA ReserveSurvives ==
  ASSUME Inv, NEW i \in Ids, NEW state \in Final, NEW id \in Ids, Reserve(id)
  PROVE  Survives(i, state)
<1> PICK gone \in SUBSET Prunable :
     \/ PruneFailed(gone) \/ Pruned(gone)
     \/ /\ ~Unadmitted(id, KeptRecords(gone))
        /\ PutDone(KeptRecords(gone), KeptFiles(gone), id, "Prepared")
        /\ Stage(id, "reserved")
     \/ /\ ~Unadmitted(id, KeptRecords(gone))
        /\ PutFailed(KeptRecords(gone), KeptFiles(gone), [j \in Ids |-> {KeptFiles(gone)[j]}], id, "Prepared")
  BY DEF Reserve
<1> DEFINE old == KeptRecords(gone)
           files == KeptFiles(gone)
<1>1. /\ process = "up" /\ disk[i] \in stable[i] /\ holder \in [Ids -> Stages]
      /\ i \in gone => records[i] \in Settled
  BY DEF Reserve, Prunable, Inv, Types, Good
<1>2. /\ old[i] = IF i \in gone THEN "Unknown" ELSE records[i]
      /\ files[i] = IF i \in gone THEN "Unknown" ELSE disk[i]
      /\ files \in [Ids -> States]
  BY DEF KeptRecords, KeptFiles, Inv, Types
<1>3. CASE PruneFailed(gone)
  BY <1>1, <1>3 DEF PruneFailed, Unlinked, Survives
<1>4. CASE Pruned(gone)
  BY <1>1, <1>2, <1>4 DEF Pruned, Sync, Survives
<1>5. CASE ~Unadmitted(id, old) /\ PutDone(old, files, id, "Prepared") /\ Stage(id, "reserved")
  <2> HIDE DEF old, files
  <2>1. CASE i = id
    BY <1>1, <1>2, <1>5, <2>1 DEF Unadmitted, Stage, Survives
  <2>2. CASE i # id
    BY <1>1, <1>2, <1>5, <2>2 DEF PutDone, Sync, Survives
  <2> QED BY <2>1, <2>2
<1>6. CASE ~Unadmitted(id, old) /\ PutFailed(old, files, [j \in Ids |-> {files[j]}], id, "Prepared")
  <2> HIDE DEF old, files
  <2>1. \/ stable'[i] = {files[i]}
        \/ i = id /\ stable'[i] = {files[i]} \cup {"Prepared"}
    BY <1>6 DEF PutFailed
  <2>2. i = id => old[i] = "Unknown"
    BY <1>6 DEF Unadmitted
  <2> QED BY <1>1, <1>2, <2>1, <2>2 DEF Survives
<1> QED BY <1>3, <1>4, <1>5, <1>6

\* A publication that writes its journal has not got an outcome yet.
LEMMA PublicationSurvives ==
  ASSUME Inv, NEW i \in Ids, NEW state \in Final, NEW id \in Ids,
         \/ Task(id) \/ RecordPreparation(id) \/ Discard(id) \/ Fence(id)
         \/ Land(id) \/ Abandon(id) \/ ExpireByStatus(id)
  PROVE  Survives(i, state)
<1>1. /\ process # "up" => holder[id] = "none"
      /\ holder[id] = "returned" => records[id] = "Publishing" /\ result[id] \in Final
      /\ disk[i] \in stable[i] /\ records[id] \in States
  BY DEF Inv, Types, Good
<1>2. ASSUME NEW s \in States, Written(id, s) \/ Unwritten(id, s),
             process = "up", records[id] \in Final => s = records[id]
      PROVE Survives(i, state)
  BY <1>1, <1>2 DEF Written, Unwritten, Survives
<1>3. ASSUME UNCHANGED store PROVE Survives(i, state)
  BY <1>3 DEF store, Survives
<1>4. CASE Return(id) \/ Discard(id) \/ Land(id) \/ Abandon(id)
  BY <1>3, <1>4 DEF Return, Discard, Land, Abandon
<1>5. CASE Settle(id)
  BY <1>1, <1>2, <1>5, PutFacts DEF Settle
<1>6. CASE Drop(id)
  <2>1. Dropped(records[id]) \in States /\ (records[id] \in Final => Dropped(records[id]) = records[id])
    BY <1>1 DEF Dropped
  <2> QED BY <1>1, <1>2, <1>3, <1>6, <2>1, PutFacts DEF Drop
<1>7. CASE RecordPreparation(id)
  BY <1>1, <1>2, <1>3, <1>7, PutFacts DEF RecordPreparation
<1>8. CASE Fence(id)
  BY <1>1, <1>2, <1>3, <1>8, PutFacts DEF Fence
<1>9. CASE ExpireByStatus(id)
  BY <1>1, <1>2, <1>9, PutFacts DEF ExpireByStatus
<1> QED BY <1>4, <1>5, <1>6, <1>7, <1>8, <1>9 DEF Task

\* An outcome that was answered, or is found at a start, is never replaced; only a
\* settled one is pruned (OutcomesSurvive).
THEOREM PublicationOutcomesSurvive == Spec => OutcomesSurvive
<1> DEFINE Survive == \A id \in Ids : \A state \in Final :
             stable[id] = {state} /\ (process = "up" => records[id] = state) =>
               \/ stable'[id] = {state}
               \/ state \in Settled /\ ("Unknown" \in stable'[id] \/ holder'[id] = "reserved")
<1>1. Inv /\ [Next]_vars => [Survive]_vars
  <2> SUFFICES ASSUME Inv, Next, NEW i \in Ids, NEW state \in Final PROVE Survives(i, state)
    BY DEF Survives
  <2> QED BY ProcessSurvives, ReserveSurvives, PublicationSurvives DEF Next
<1> QED BY <1>1, PublicationInv, PTL DEF Spec, OutcomesSurvive
=============================================================================
