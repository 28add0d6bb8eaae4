---------------------------- MODULE WatchProofs -----------------------------
(***************************************************************************)
(* No poll of a watch subscription sleeps beside something it could        *)
(* report, for any number of subscriptions and of polls, and any limits.   *)
(*                                                                         *)
(* A permit is taken only by a waiting poll, and only the holder of the    *)
(* poll lock waits. So what the handler notes once a drain has taken the   *)
(* failure leaves a permit that is still there when that poll waits, which *)
(* it does only after it saw the queue empty.                              *)
(***************************************************************************)
EXTENDS Watch, TLAPS

\* The fields of a watcher and of a poll; what they hold matters only where it is named.
IsWatcher(w) ==
  w \in [queue : {w.queue}, failure : {w.failure}, handler : {w.handler}, permit : {w.permit},
         seen : {w.seen}]

IsPoll(r) ==
  r \in [pc : {r.pc}, sub : {r.sub}, cursor : {r.cursor}, waited : {r.waited}, batch : {r.batch},
         failed : {r.failed}, events : {r.events}]

Shape ==
  /\ watcher = [s \in Subs |-> watcher[s]] /\ \A s \in Subs : IsWatcher(watcher[s])
  /\ poll = [p \in Polls |-> poll[p]] /\ \A p \in Polls : IsPoll(poll[p])
  /\ holder = [s \in Subs |-> holder[s]]

\* A poll at work has a subscription, and past the lock it is the one that holds it.
LockHeld ==
  \A p \in Polls :
    /\ poll[p].pc \in InFlight => poll[p].sub \in Subs
    /\ poll[p].pc \in Locked => holder[poll[p].sub] = p

\* What the handler is done with left a permit: a failure stored since the poll at work took
\* the last one, and an event queued since it saw the queue empty.
Permitted(p) ==
  LET w == watcher[poll[p].sub]
  IN  w.handler = "idle" =>
        /\ poll[p].pc = "receive" /\ w.failure => w.permit
        /\ poll[p].pc = "waiting" /\ (w.failure \/ w.queue # <<>>) => w.permit

WakeInv == Shape /\ LockHeld /\ \A p \in Polls : Permitted(p)

-----------------------------------------------------------------------------
(* What the updates of the actions make of a watcher and of a poll *)

LEMMA HandlerUpdates ==
  ASSUME NEW w, IsWatcher(w)
  PROVE  /\ LET u == [w EXCEPT !.handler = "failing", !.seen = @ + 1]
             IN  IsWatcher(u) /\ u.handler = "failing"
         /\ LET u == [w EXCEPT !.failure = TRUE, !.handler = "notify"]
             IN  IsWatcher(u) /\ u.handler = "notify"
         /\ LET u == [w EXCEPT !.handler = "idle", !.permit = TRUE]
             IN  IsWatcher(u) /\ u.permit
  BY ZenonT(30) DEF IsWatcher

LEMMA TrySendUpdates ==
  ASSUME NEW w, IsWatcher(w), NEW n, NEW event
  PROVE  LET u == TrySend([w EXCEPT !.seen = n], event) IN  IsWatcher(u) /\ u.handler # "idle"
  BY ZenonT(30) DEF IsWatcher, TrySend

LEMMA PollUpdatesWatcher ==
  ASSUME NEW w, IsWatcher(w)
  PROVE  /\ LET u == [w EXCEPT !.failure = FALSE] IN  IsWatcher(u) /\ ~u.failure
         /\ LET u == [w EXCEPT !.queue = Tail(@)]
             IN  /\ IsWatcher(u) /\ u.handler = w.handler
                 /\ u.failure = w.failure /\ u.permit = w.permit
         /\ IsWatcher([w EXCEPT !.permit = FALSE])
  BY ZenonT(30) DEF IsWatcher

LEMMA PollMoves ==
  ASSUME NEW r, IsPoll(r), NEW pc
  PROVE  /\ LET u == [r EXCEPT !.pc = pc] IN  IsPoll(u) /\ u.sub = r.sub /\ u.pc = pc
         /\ LET u == [r EXCEPT !.batch = <<>>, !.failed = TRUE, !.pc = pc]
             IN  IsPoll(u) /\ u.sub = r.sub /\ u.pc = pc
  BY ZenonT(30) DEF IsPoll

LEMMA PollWakes ==
  ASSUME NEW r, IsPoll(r)
  PROVE  LET u == [r EXCEPT !.pc = "swap", !.waited = TRUE]
         IN  IsPoll(u) /\ u.sub = r.sub /\ u.pc = "swap"
  BY ZenonT(30) DEF IsPoll

LEMMA PollSwaps ==
  ASSUME NEW r, IsPoll(r), NEW failed
  PROVE  LET u == [r EXCEPT !.failed = failed, !.pc = IF failed THEN "finish" ELSE "receive"]
         IN  IsPoll(u) /\ u.sub = r.sub /\ u.pc \in {"finish", "receive"}
  BY ZenonT(30) DEF IsPoll

LEMMA PollReceives ==
  ASSUME NEW r, IsPoll(r), NEW more
  PROVE  LET u == [r EXCEPT !.batch = @ \o more] IN  IsPoll(u) /\ u.sub = r.sub /\ u.pc = r.pc
  BY ZenonT(30) DEF IsPoll

LEMMA PollAsks ==
  ASSUME NEW r, IsPoll(r), NEW s
  PROVE  LET u == [r EXCEPT !.pc = "locking", !.sub = s]
         IN  IsPoll(u) /\ u.sub = s /\ u.pc = "locking"
  BY ZenonT(30) DEF IsPoll

-----------------------------------------------------------------------------
LEMMA InitWake == Init => WakeInv
<1> SUFFICES ASSUME Init PROVE WakeInv
  OBVIOUS
<1>1. IsWatcher(NewWatcher) /\ IsPoll(NoPoll) /\ NoPoll.pc = "idle"
  BY DEF IsWatcher, IsPoll, NewWatcher, NoPoll
<1>2. \A p \in Polls : poll[p].pc = "idle"
  BY <1>1 DEF Init
<1>3. Shape
  BY <1>1 DEF Init, Shape
<1>4. QED BY <1>2, <1>3 DEF WakeInv, LockHeld, Permitted, InFlight, Locked

\* A step that starts no poll's wait, takes no permit and frees no lock that is in use may
\* drop the watchers that nothing owns any more.
LEMMA KeepWake ==
  ASSUME WakeInv, NEW l, Keep(l),
         poll' = [p \in Polls |-> poll'[p]], holder' = [s \in Subs |-> holder'[s]],
         \A p \in Polls :
           \/ poll'[p] = poll[p]
           \/ /\ IsPoll(poll'[p])
              /\ poll'[p].pc \in {"idle", "answered", "locking"}
              /\ poll'[p].pc \in InFlight => poll'[p].sub \in Subs,
         \A p \in Polls : poll'[p].pc \in Locked => holder'[poll'[p].sub] = p
  PROVE  WakeInv'
<1>1. \A p \in Polls : poll'[p].pc \in Locked => poll'[p] = poll[p]
  BY DEF Locked
<1>2. \A p \in Polls : poll'[p].pc \in InFlight => poll'[p].sub \in Subs
  BY DEF WakeInv, LockHeld
<1>3. \A p \in Polls : poll'[p].pc \in Locked => watcher'[poll'[p].sub] = watcher[poll[p].sub]
  BY <1>1, <1>2 DEF Keep, Alive, InFlight
<1>4. Shape'
  BY DEF Shape, Keep, WakeInv, IsWatcher, IsPoll, NewWatcher
<1>5. LockHeld'
  BY <1>2 DEF LockHeld
<1>6. ASSUME NEW p \in Polls PROVE Permitted(p)'
  <2>1. CASE poll'[p].pc \in Locked
    BY <2>1, <1>1, <1>3 DEF WakeInv, Permitted
  <2>2. CASE poll'[p].pc \notin Locked
    BY <2>2 DEF Permitted, Locked
  <2>3. QED BY <2>1, <2>2
<1>7. QED BY <1>4, <1>5, <1>6 DEF WakeInv

\* A step of the handler of s.
LEMMA HandlerWake ==
  ASSUME WakeInv, NEW s \in Subs, NEW w, IsWatcher(w),
         watcher' = [watcher EXCEPT ![s] = w], UNCHANGED <<poll, holder>>,
         w.handler # "idle" \/ w.permit
  PROVE  WakeInv'
<1>1. Shape' /\ LockHeld'
  BY DEF WakeInv, Shape, LockHeld, IsWatcher
<1>2. ASSUME NEW p \in Polls PROVE Permitted(p)'
  <2>1. CASE poll[p].sub = s
    BY <2>1 DEF WakeInv, Shape, Permitted
  <2>2. CASE poll[p].sub # s
    <3>1. poll[p].pc \in Locked => watcher'[poll[p].sub] = watcher[poll[p].sub]
      BY <2>2 DEF WakeInv, Shape
    <3>2. QED BY <3>1 DEF WakeInv, Permitted, Locked
  <2>3. QED BY <2>1, <2>2
<1>3. QED BY <1>1, <1>2 DEF WakeInv

\* A step of the poll p, which holds the lock of its subscription and keeps it.
LEMMA HolderWake ==
  ASSUME WakeInv, NEW p \in Polls, poll[p].pc \in Locked,
         NEW w, IsWatcher(w), NEW r, IsPoll(r), r.sub = poll[p].sub, r.pc \in Locked,
         watcher' = [watcher EXCEPT ![poll[p].sub] = w], poll' = [poll EXCEPT ![p] = r],
         UNCHANGED holder,
         w.handler = "idle" => /\ r.pc = "receive" /\ w.failure => w.permit
                               /\ r.pc = "waiting" /\ (w.failure \/ w.queue # <<>>) => w.permit
  PROVE  WakeInv'
<1>1. poll[p].sub \in Subs /\ holder[poll[p].sub] = p
  BY DEF WakeInv, LockHeld, InFlight
<1>2. Shape' /\ LockHeld'
  BY <1>1 DEF WakeInv, Shape, LockHeld, IsWatcher, IsPoll, InFlight
<1>3. Permitted(p)'
  BY <1>1 DEF WakeInv, Shape, Permitted
<1>4. ASSUME NEW q \in Polls, q # p PROVE Permitted(q)'
  <2>1. poll'[q] = poll[q]
    BY <1>4 DEF WakeInv, Shape
  <2>2. poll[q].pc \in Locked => poll[q].sub # poll[p].sub
    BY <1>1, <1>4 DEF WakeInv, LockHeld
  <2>3. poll[q].pc \in Locked => watcher'[poll[q].sub] = watcher[poll[q].sub]
    BY <2>2 DEF WakeInv, Shape, LockHeld, InFlight
  <2>4. QED BY <2>1, <2>3 DEF WakeInv, Permitted, Locked
<1>5. QED BY <1>2, <1>3, <1>4 DEF WakeInv


\* Every step of the registry, of a handler and of a poll leaves the permits that are needed.
LEMMA NextWake == WakeInv /\ [Next]_vars => WakeInv'
<1> SUFFICES ASSUME WakeInv, [Next]_vars PROVE WakeInv'
  OBVIOUS
<1>0. /\ poll = [p \in Polls |-> poll[p]] /\ holder = [s \in Subs |-> holder[s]]
      /\ \A p \in Polls : IsPoll(poll[p])
      /\ \A s \in Subs : IsWatcher(watcher[s])
      /\ \A p \in Polls : poll[p].pc \in Locked => holder[poll[p].sub] = p
  BY DEF WakeInv, Shape, LockHeld
<1>1. ASSUME UNCHANGED <<watcher, holder, poll>> PROVE WakeInv'
  BY <1>1 DEF WakeInv, Shape, LockHeld, Permitted
<1>2. ASSUME NEW l, Keep(l), UNCHANGED <<holder, poll>> PROVE WakeInv'
  BY <1>0, <1>2, KeepWake
<1>3. ASSUME NEW s \in Subs, SubStep(s) PROVE WakeInv'
  <2>0. IsWatcher(watcher[s])
    BY <1>0
  <2>1. CASE StartWatcher(s) \/ Age(s)
    BY <1>1, <2>1 DEF StartWatcher, Age
  <2>2. CASE Open(s) \/ Close(s) \/ ExpiryTask(s)
    BY <1>2, <2>2 DEF Open, Close, ExpiryTask
  <2>3. CASE Event(s)
    <3>1. ASSUME NEW n, NEW event PROVE LET w == TrySend([watcher[s] EXCEPT !.seen = n], event)
                                        IN  IsWatcher(w) /\ w.handler # "idle"
      BY <2>0, TrySendUpdates
    <3>2. PICK n, event : watcher' = [watcher EXCEPT ![s] = TrySend([watcher[s] EXCEPT !.seen = n], event)]
      BY <2>3, ZenonT(30) DEF Event
    <3>3. UNCHANGED <<poll, holder>>
      BY <2>3 DEF Event
    <3>4. QED BY <3>1, <3>2, <3>3, HandlerWake, ZenonT(30)
  <2>4. CASE LostEvent(s)
    <3> DEFINE w == [watcher[s] EXCEPT !.handler = "failing", !.seen = @ + 1]
    <3>1. IsWatcher(w) /\ w.handler # "idle"
      BY <2>0, HandlerUpdates, ZenonT(30)
    <3>2. watcher' = [watcher EXCEPT ![s] = w] /\ UNCHANGED <<poll, holder>>
      BY <2>4, ZenonT(30) DEF LostEvent, WakeInv, Shape
    <3> HIDE DEF w
    <3>3. QED BY <3>1, <3>2, HandlerWake, ZenonT(30)
  <2>5. CASE StoreFailure(s)
    <3> DEFINE w == [watcher[s] EXCEPT !.failure = TRUE, !.handler = "notify"]
    <3>1. IsWatcher(w) /\ w.handler # "idle"
      BY <2>0, HandlerUpdates, ZenonT(30)
    <3>2. watcher' = [watcher EXCEPT ![s] = w] /\ UNCHANGED <<poll, holder>>
      BY <2>5, ZenonT(30) DEF StoreFailure, WakeInv, Shape
    <3> HIDE DEF w
    <3>3. QED BY <3>1, <3>2, HandlerWake, ZenonT(30)
  <2>6. CASE NotifyOne(s)
    <3> DEFINE w == [watcher[s] EXCEPT !.handler = "idle", !.permit = TRUE]
    <3>1. IsWatcher(w) /\ w.permit
      BY <2>0, HandlerUpdates, ZenonT(30)
    <3>2. watcher' = [watcher EXCEPT ![s] = w] /\ UNCHANGED <<poll, holder>>
      BY <2>6, ZenonT(30) DEF NotifyOne, WakeInv, Shape
    <3> HIDE DEF w
    <3>3. QED BY <3>1, <3>2, HandlerWake, ZenonT(30)
  <2>7. QED BY <1>3, <2>1, <2>2, <2>3, <2>4, <2>5, <2>6 DEF SubStep
<1>4. ASSUME NEW p \in Polls, PollStep(p) PROVE WakeInv'
  <2> DEFINE s == poll[p].sub
  <2>0. /\ poll[p].pc \in InFlight => s \in Subs
        /\ IsPoll(poll[p])
    BY DEF WakeInv, LockHeld, Shape
  <2>1. CASE Lock(p)
    <3>1. s \in Subs /\ holder[s] = "none"
      BY <2>0, <2>1 DEF Lock, InFlight
    <3>2. \A q \in Polls : poll[q].pc \in Locked => poll[q].sub # s
      BY <1>0, <3>1, NoneIsNoPoll
    <3>3. Shape'
      BY <2>1 DEF Lock, WakeInv, Shape, IsPoll
    <3>4. LockHeld'
      BY <2>1, <3>1, <3>2 DEF Lock, WakeInv, Shape, LockHeld, IsPoll, Locked, InFlight
    <3>5. ASSUME NEW q \in Polls PROVE Permitted(q)'
      BY <2>1 DEF Lock, WakeInv, Shape, Permitted, IsPoll
    <3>6. QED BY <3>3, <3>4, <3>5 DEF WakeInv
  <2>2. CASE Swap(p)
    <3> DEFINE w == [watcher[s] EXCEPT !.failure = FALSE]
               r == [poll[p] EXCEPT !.failed = watcher[s].failure,
                                    !.pc = IF watcher[s].failure THEN "finish" ELSE "receive"]
    <3>1. poll[p].pc \in Locked /\ s \in Subs
      BY <2>0, <2>2 DEF Swap, Locked, InFlight
    <3>a. IsWatcher(watcher[s])
      BY <1>0, <3>1
    <3>2. IsWatcher(w) /\ ~w.failure
      BY <3>a, PollUpdatesWatcher, ZenonT(30)
    <3>3. IsPoll(r) /\ r.sub = s /\ r.pc \in {"finish", "receive"}
      BY <2>0, PollSwaps, ZenonT(30)
    <3>4. watcher' = [watcher EXCEPT ![s] = w] /\ poll' = [poll EXCEPT ![p] = r] /\ UNCHANGED holder
      BY <2>2, <3>1, ZenonT(30) DEF Swap, WakeInv, Shape
    <3> HIDE DEF w, r
    <3>5. QED BY <3>1, <3>2, <3>3, <3>4, HolderWake, ZenonT(30) DEF Locked
  <2>3. CASE Receive(p)
    <3> DEFINE w == [watcher[s] EXCEPT !.queue = Tail(@)]
               good == [poll[p] EXCEPT !.batch = @ \o Head(watcher[s].queue).changes]
               bad == [poll[p] EXCEPT !.batch = <<>>, !.failed = TRUE, !.pc = "finish"]
    <3>1. poll[p].pc = "receive" /\ poll[p].pc \in Locked /\ s \in Subs
      BY <2>0, <2>3, ZenonT(30) DEF Receive, Locked, InFlight
    <3>a. IsWatcher(watcher[s])
      BY <1>0, <3>1
    <3>2. /\ IsWatcher(w) /\ w.handler = watcher[s].handler
          /\ w.failure = watcher[s].failure /\ w.permit = watcher[s].permit
      BY <3>a, PollUpdatesWatcher, ZenonT(30)
    <3>3. w.handler = "idle" /\ w.failure => w.permit
      BY <3>1, <3>2 DEF WakeInv, Permitted
    <3>4. IsPoll(good) /\ good.sub = s /\ good.pc = "receive"
      BY <2>0, <3>1, PollReceives, ZenonT(30)
    <3>5. IsPoll(bad) /\ bad.sub = s /\ bad.pc = "finish"
      BY <2>0, <3>1, PollMoves, ZenonT(30)
    <3>6. watcher' = [watcher EXCEPT ![s] = w] /\ UNCHANGED holder
      BY <2>3, <3>1, ZenonT(30) DEF Receive, WakeInv, Shape
    <3>7. \/ poll' = [poll EXCEPT ![p] = good]
          \/ poll' = [poll EXCEPT ![p] = bad]
      BY <2>3, <3>1, ZenonT(30) DEF Receive, WakeInv, Shape
    <3> HIDE DEF w, good, bad
    <3>8. QED BY <3>1, <3>2, <3>3, <3>4, <3>5, <3>6, <3>7, HolderWake, ZenonT(30) DEF Locked
  <2>4. CASE Drained(p)
    <3> DEFINE r(pc) == [poll[p] EXCEPT !.pc = pc]
    <3>1. poll[p].pc = "receive" /\ poll[p].pc \in Locked /\ s \in Subs
      BY <2>0, <2>4 DEF Drained, Locked, InFlight
    <3>2. watcher[s].queue = <<>> /\ (watcher[s].handler = "idle" /\ watcher[s].failure => watcher[s].permit)
      BY <2>4, <3>1 DEF Drained, WakeInv, Permitted
    <3>3. \A pc : IsPoll(r(pc)) /\ r(pc).sub = s /\ r(pc).pc = pc
      BY <2>0, PollMoves, ZenonT(30)
    <3>4. PICK pc \in {"finish", "waiting"} : poll' = [poll EXCEPT ![p] = r(pc)]
      BY <2>4 DEF Drained, WakeInv, Shape
    <3>5. watcher' = [watcher EXCEPT ![s] = watcher[s]] /\ UNCHANGED holder
      BY <2>4, <3>1 DEF Drained, WakeInv, Shape
    <3> HIDE DEF r
    <3>6. QED BY <1>0, <3>1, <3>2, <3>3, <3>4, <3>5, HolderWake, ZenonT(30) DEF Locked
  <2>5. CASE Wake(p) \/ Timeout(p)
    <3> DEFINE r == [poll[p] EXCEPT !.pc = "swap", !.waited = TRUE]
               taken == [watcher[s] EXCEPT !.permit = FALSE]
    <3>1. poll[p].pc \in Locked /\ s \in Subs
      BY <2>0, <2>5 DEF Wake, Timeout, Locked, InFlight
    <3>2. IsPoll(r) /\ r.sub = s /\ r.pc = "swap"
      BY <2>0, PollWakes, ZenonT(30)
    <3>a. IsWatcher(watcher[s])
      BY <1>0, <3>1
    <3>3. IsWatcher(taken)
      BY <3>a, PollUpdatesWatcher, ZenonT(30)
    <3>4. poll' = [poll EXCEPT ![p] = r] /\ UNCHANGED holder
      BY <2>5 DEF Wake, Timeout, WakeInv, Shape
    <3>5. \/ watcher' = [watcher EXCEPT ![s] = taken]
          \/ watcher' = [watcher EXCEPT ![s] = watcher[s]]
      BY <2>5, <3>1 DEF Wake, Timeout, WakeInv, Shape
    <3> HIDE DEF r, taken
    <3>6. QED BY <3>1, <3>a, <3>2, <3>3, <3>4, <3>5, HolderWake, ZenonT(30) DEF Locked
  <2>6. CASE Finish(p)
    <3>1. s \in Subs /\ holder[s] = p /\ holder' = [holder EXCEPT ![s] = "none"]
      BY <2>0, <2>6, <1>0 DEF Finish, Locked, InFlight
    <3>2. PICK r : IsPoll(r) /\ r.pc \in {"idle", "answered"} /\ poll' = [poll EXCEPT ![p] = r]
      BY <2>6, <1>0, ZenonT(30) DEF Finish, Respond, Answer, Resync, IsPoll, NoPoll
    <3>3. \A q \in Polls \ {p} : poll'[q] = poll[q]
      BY <1>0, <3>2
    <3>4. poll'[p] = r
      BY <1>0, <3>2
    <3>5. \A q \in Polls : poll'[q].pc \in Locked => holder'[poll'[q].sub] = q
      BY <1>0, <3>1, <3>2, <3>3, <3>4 DEF Locked
    <3>6. PICK l : Keep(l)
      BY <2>6 DEF Finish
    <3>7. poll' = [q \in Polls |-> poll'[q]] /\ holder' = [t \in Subs |-> holder'[t]]
      BY <1>0, <3>1, <3>2
    <3>8. r.pc \notin InFlight /\ r.pc \in {"idle", "answered", "locking"}
      BY <3>2 DEF InFlight, Locked
    <3>9. \A q \in Polls :
            \/ poll'[q] = poll[q]
            \/ /\ IsPoll(poll'[q])
               /\ poll'[q].pc \in {"idle", "answered", "locking"}
               /\ poll'[q].pc \in InFlight => poll'[q].sub \in Subs
      BY <3>2, <3>3, <3>4, <3>8
    <3>10. QED BY <3>5, <3>6, <3>7, <3>9, KeepWake
  <2>7. CASE TearDown(p)
    <3>1. /\ poll' = [poll EXCEPT ![p] = NoPoll]
          /\ holder' = [t \in Subs |-> IF holder[t] = p THEN "none" ELSE holder[t]]
          /\ Keep(log)
      BY <2>7 DEF TearDown
    <3>2. \A q \in Polls \ {p} : poll'[q] = poll[q]
      BY <1>0, <3>1
    <3>3. poll'[p] = NoPoll
      BY <1>0, <3>1
    <3>4. \A q \in Polls : poll'[q].pc \in Locked => holder'[poll'[q].sub] = q
      BY <1>0, <3>1, <3>2, <3>3 DEF Locked, NoPoll, WakeInv, LockHeld, InFlight
    <3>5. poll' = [q \in Polls |-> poll'[q]] /\ holder' = [t \in Subs |-> holder'[t]]
      BY <1>0, <3>1
    <3>6. IsPoll(NoPoll) /\ NoPoll.pc = "idle"
      BY DEF IsPoll, NoPoll
    <3>7. \A q \in Polls :
            \/ poll'[q] = poll[q]
            \/ /\ IsPoll(poll'[q])
               /\ poll'[q].pc \in {"idle", "answered", "locking"}
               /\ poll'[q].pc \in InFlight => poll'[q].sub \in Subs
      BY <3>2, <3>3, <3>6 DEF InFlight, Locked
    <3>8. QED BY <3>1, <3>4, <3>5, <3>7, KeepWake, ZenonT(30)
  <2>8. CASE Return(p)
    BY <2>8, ZenonT(30) DEF Return, WakeInv, Shape, LockHeld, Permitted, IsPoll, NoPoll, InFlight, Locked
  <2>9. QED BY <1>4, <2>1, <2>2, <2>3, <2>4, <2>5, <2>6, <2>7, <2>8 DEF PollStep
<1>5. ASSUME NEW p \in Polls, NEW s \in Subs, Request(p, s) PROVE WakeInv'
  <2>0. IsPoll(poll[p]) /\ IsPoll(NoPoll) /\ NoPoll.pc = "idle"
    BY <1>0 DEF IsPoll, NoPoll
  <2>a. LET r == [poll[p] EXCEPT !.pc = "locking", !.sub = s]
        IN  IsPoll(r) /\ r.pc = "locking" /\ r.sub = s
    BY <2>0, PollAsks, ZenonT(30)
  <2>b. \/ poll' = [poll EXCEPT ![p] = NoPoll]
        \/ poll' = [poll EXCEPT ![p] = [poll[p] EXCEPT !.pc = "locking", !.sub = s]]
    BY <1>0, <1>5 DEF Request, Resync
  <2>1. PICK r : /\ poll' = [poll EXCEPT ![p] = r] /\ IsPoll(r)
                 /\ r.pc = "idle" \/ (r.pc = "locking" /\ r.sub = s)
    BY <2>0, <2>a, <2>b, ZenonT(30)
  <2>2. /\ \A q \in Polls \ {p} : poll'[q] = poll[q]
        /\ poll'[p] = r
        /\ poll' = [q \in Polls |-> poll'[q]]
    BY <1>0, <2>1
  <2>3. holder' = holder /\ Keep(log)
    BY <1>5 DEF Request
  <2>4. \A q \in Polls : poll'[q].pc \in Locked => holder'[poll'[q].sub] = q
    BY <1>0, <2>1, <2>2, <2>3 DEF Locked
  <2>5. r.pc \in {"idle", "answered", "locking"} /\ (r.pc \in InFlight => r.sub \in Subs)
    BY <2>1 DEF InFlight, Locked
  <2>6. \A q \in Polls :
          \/ poll'[q] = poll[q]
          \/ /\ IsPoll(poll'[q])
             /\ poll'[q].pc \in {"idle", "answered", "locking"}
             /\ poll'[q].pc \in InFlight => poll'[q].sub \in Subs
    BY <2>1, <2>2, <2>5
  <2>7. holder' = [t \in Subs |-> holder'[t]]
    BY <1>0, <2>3
  <2>8. QED BY <2>2, <2>3, <2>4, <2>6, <2>7, KeepWake
<1>6. CASE RefuseOpen
  BY <1>2, <1>6 DEF RefuseOpen
<1>7. CASE Restart
  BY <1>7, ZenonT(30) DEF Restart, WakeInv, Shape, LockHeld, Permitted, IsWatcher, IsPoll, NewWatcher, NoPoll,
              InFlight, Locked
<1>8. CASE UNCHANGED vars
  BY <1>1, <1>8 DEF vars
<1>9. QED BY <1>3, <1>4, <1>5, <1>6, <1>7, <1>8 DEF Next

\* A poll of workspace_poll_watch does not wait beside an event or a failure that it could
\* report: whatever the handler was done with when it notified left the poll a permit.
THEOREM WatchNoLostWakeup == Spec => []NoLostWakeup
<1>1. WakeInv => NoLostWakeup
  BY DEF WakeInv, Permitted, NoLostWakeup
<1>2. QED BY <1>1, InitWake, NextWake, PTL DEF Spec
=============================================================================
