------------------------ MODULE RoomLifecycleProofs ------------------------
(***************************************************************************)
(* The safety of a room's life for any number of rooms and requests, any   *)
(* lifetimes, countdown, retention and batch size.                         *)
(*                                                                         *)
(* The invariant says what a copy of a row, read some time ago, and a      *)
(* batch of rooms, selected some time ago, still tell of the rows as they  *)
(* are now.  With it every step of the system turns out to be, for each    *)
(* room, one of six, and the properties follow from these.                 *)
(***************************************************************************)
EXTENDS RoomLifecycle, TLAPS

\* A countdown ends with the room's lifetime at the latest, and a row is only
\* marked expired after it.
RowOK(r) ==
    /\ room[r].status = "closing" =>
            room[r].deadline # NoTime /\ room[r].deadline <= room[r].expires
    /\ room[r].status = "expired" => room[r].expires < now

\* What a request's copy of a row is worth.
CopyOK(q) ==
    LET seen == req[q].seen
        row  == room[req[q].target]
    IN  req[q].pc # "idle" =>
          /\ row.status # "none"
          /\ seen.expires = row.expires
          /\ seen.status = "closing" =>
                /\ seen.deadline # NoTime /\ seen.deadline <= seen.expires
                /\ row.status \in {"closing", "closed", "deleted"}
                /\ row.status = "closing" => row.deadline = seen.deadline
          /\ seen.status = "closed" => row.status \in {"closed", "deleted"}
          /\ req[q].pc = "mark_closed" => seen.status = "closing" /\ seen.deadline <= now
          /\ req[q].pc = "mark_expired" => seen.expires < now

\* What may be deleted.
Finished(r) ==
    \/ room[r].expires <= now
    \/ room[r].status \in {"closed", "deleted"} /\ room[r].created + Retention <= now

\* What the selection of a batch is worth.
BatchOK(r) == r \in worker.batch => room[r].status # "none" /\ Finished(r)

\* A room that was created and lets nobody in.
Over(r) == room[r].status # "none" /\ ~Admits(r)

\* What an answer is worth.
Meant(r, answer) ==
    /\ answer \in {"closed", "not_found"} => Over(r)
    /\ answer = "closing" => room[r].status \in {"closing", "closed", "deleted"}

LifecycleInv ==
    /\ LifecycleTypeOK
    /\ \A r \in Rooms : RowOK(r) /\ BatchOK(r)
    /\ \A q \in Requests : CopyOK(q) /\ Meant(req[q].target, req[q].answer)
    /\ worker.start <= now

-----------------------------------------------------------------------------
\* Cutting a time to whole seconds moves it back.
LEMMA TextBack ==
    ASSUME LifecycleAssumption, NEW t \in Int
    PROVE  /\ Text(t) \in Int /\ Text(t) <= t
           /\ t \in Nat => Text(t) \in Nat
<1>1. Second \in Nat \ {0}
  BY DEF LifecycleAssumption
<1>2. t % Second \in 0 .. Second - 1 /\ t = Second * (t \div Second) + (t % Second)
  BY <1>1, SMT
<1>3. t \in Nat => t % Second <= t
  BY <1>1, SMT
<1> QED
  BY <1>1, <1>2, <1>3 DEF Text

\* A new countdown's deadline lies within the lifetime.
LEMMA DeadlineWithin ==
    ASSUME LifecycleAssumption, LifecycleTypeOK, NEW r \in Rooms
    PROVE  Deadline(r) \in Nat /\ Deadline(r) <= room[r].expires
<1> DEFINE end == IF now + CloseDelay > room[r].expires
                  THEN room[r].expires ELSE now + CloseDelay
<1>1. now \in Nat /\ CloseDelay \in Nat /\ room[r].expires \in Nat
  BY DEF LifecycleTypeOK, LifecycleAssumption, Row
<1>2. end \in Nat /\ end <= room[r].expires
  BY <1>1
<1>3. Deadline(r) = Text(end)
  BY DEF Deadline
<1> HIDE DEF end
<1> QED
  BY <1>1, <1>2, <1>3, TextBack

-----------------------------------------------------------------------------
\* A row with another status.
With(r, status) == [room[r] EXCEPT !.status = status]

\* The six things that can happen to a room in a step.
RoomStep(r) ==
    \/ room'[r] = room[r]
    \/ /\ room[r].status = "none"
       /\ room'[r].status = "active"
    \/ /\ room[r].status = "active"
       /\ room'[r] = [room[r] EXCEPT !.status = "closing", !.deadline = Deadline(r)]
    \/ /\ \/ room[r].status = "active"
          \/ room[r].status = "closing" /\ (room[r].deadline <= now \/ CreatorCloses(r))
       /\ room'[r] = With(r, "closed")
    \/ /\ room[r].status = "active" /\ room[r].expires < now
       /\ room'[r] = With(r, "expired")
    \/ /\ Exists(r) /\ Finished(r)
       /\ room'[r] = With(r, "deleted")

LEMMA OneRoomChanges ==
    ASSUME LifecycleTypeOK, NEW t \in Rooms, NEW status, SetStatus(t, status),
           NEW r \in Rooms
    PROVE  room'[r] = IF r = t THEN With(r, status) ELSE room[r]
  BY DEF LifecycleTypeOK, SetStatus, With

\* The target of a request is a room.
LEMMA TargetIsRoom ==
    ASSUME LifecycleTypeOK, NEW q \in Requests
    PROVE  req[q].target \in Rooms
  BY DEF LifecycleTypeOK

\* Steps of a request that act on its target, by the row as it is now.
LEMMA RequestRoomSteps ==
    ASSUME LifecycleAssumption, LifecycleInv, NEW q \in Requests, RequestStep(q),
           NEW r \in Rooms
    PROVE  RoomStep(r)
<1> DEFINE t == req[q].target
<1>1. t \in Rooms /\ LifecycleTypeOK /\ CopyOK(q)
  BY TargetIsRoom DEF LifecycleInv
<1>2. CASE Judge(q) \/ View(q) \/ Unauthorized(q)
  BY <1>2 DEF Judge, View, Unauthorized, RoomStep
<1>3. CASE MarkClosed(q)
  <2>1. \/ room' = room
        \/ /\ req[q].pc = "mark_closed" /\ room[t].status = "closing"
           /\ SetStatus(t, "closed")
    BY <1>3 DEF MarkClosed
  <2>2. CASE /\ req[q].pc = "mark_closed" /\ room[t].status = "closing"
             /\ SetStatus(t, "closed")
    <3>1. room[t].deadline <= now
      BY <1>1, <2>2 DEF CopyOK
    <3> QED
      BY <1>1, <2>2, <3>1, OneRoomChanges DEF RoomStep
  <2> QED
    BY <2>1, <2>2 DEF RoomStep
<1>4. CASE MarkExpired(q)
  <2>1. \/ room' = room
        \/ /\ req[q].pc = "mark_expired" /\ room[t].status = "active"
           /\ SetStatus(t, "expired")
    BY <1>4 DEF MarkExpired
  <2>2. req[q].pc = "mark_expired" => room[t].expires < now
    BY <1>1 DEF CopyOK
  <2> QED
    BY <1>1, <2>1, <2>2, OneRoomChanges DEF RoomStep
<1>5. CASE CloseByRoomID(q)
  <2>1. /\ req[q].kind = "creator_close"
        /\ \/ room' = room
           \/ room[t].status \in {"active", "closing"} /\ SetStatus(t, "closed")
    BY <1>5 DEF CloseByRoomID
  <2>2. r = t => CreatorCloses(r)
    BY <1>5, <2>1 DEF CreatorCloses
  <2> QED
    BY <1>1, <2>1, <2>2, OneRoomChanges DEF RoomStep
<1>6. CASE StartClosing(q)
  <2>1. \/ room' = room
        \/ /\ room[t].status = "active"
           /\ room' = [room EXCEPT ![t].status = "closing", ![t].deadline = Deadline(t)]
        \/ /\ room[t].status = "closing" /\ now >= room[t].deadline
           /\ SetStatus(t, "closed")
    BY <1>6 DEF StartClosing
  <2>2. CASE /\ room[t].status = "active"
             /\ room' = [room EXCEPT ![t].status = "closing", ![t].deadline = Deadline(t)]
    <3>1. room'[r] = IF r = t
                     THEN [room[r] EXCEPT !.status = "closing", !.deadline = Deadline(r)]
                     ELSE room[r]
      BY <1>1, <2>2 DEF LifecycleTypeOK
    <3> QED
      BY <2>2, <3>1 DEF RoomStep
  <2>3. CASE /\ room[t].status = "closing" /\ now >= room[t].deadline
             /\ SetStatus(t, "closed")
    <3>1. room[t].deadline <= now
      BY <1>1, <2>3 DEF LifecycleInv, RowOK, LifecycleTypeOK, Row
    <3> QED
      BY <1>1, <2>3, <3>1, OneRoomChanges DEF RoomStep
  <2> QED
    BY <2>1, <2>2, <2>3 DEF RoomStep
<1> QED
  BY <1>2, <1>3, <1>4, <1>5, <1>6 DEF RequestStep

LEMMA RoomSteps ==
    ASSUME LifecycleAssumption, LifecycleInv, [Next]_vars, NEW r \in Rooms
    PROVE  RoomStep(r)
<1>1. LifecycleTypeOK /\ worker.start <= now /\ BatchOK(r) /\ RowOK(r)
  BY DEF LifecycleInv
<1>2. CASE Tick \/ BeginPass \/ Crash \/ UNCHANGED vars
  BY <1>2 DEF Tick, BeginPass, Crash, vars, RoomStep
<1>3. ASSUME NEW t \in Rooms, Create(t)
      PROVE  RoomStep(r)
  BY <1>1, <1>3 DEF Create, RoomStep, LifecycleTypeOK
<1>4. ASSUME NEW q \in Requests, ReadRoom(q) \/ RequestStep(q)
      PROVE  RoomStep(r)
  BY <1>4, RequestRoomSteps DEF ReadRoom, RoomStep
<1>5. CASE CloseOverdue
  <2>1. room'[r] = IF room[r].status = "closing" /\ room[r].deadline <= Text(worker.start)
                   THEN With(r, "closed") ELSE room[r]
    BY <1>5 DEF CloseOverdue, With
  <2>2. Text(worker.start) <= worker.start /\ Text(worker.start) \in Int /\ worker.start \in Int
    BY <1>1, TextBack DEF LifecycleTypeOK
  <2>3. /\ now \in Int
        /\ room[r].status = "closing" => room[r].deadline \in Int
    BY <1>1 DEF LifecycleTypeOK, RowOK, Row
  <2>4. room[r].status = "closing" /\ room[r].deadline <= Text(worker.start)
            => room[r].deadline <= now
    BY <1>1, <2>2, <2>3
  <2> QED
    BY <2>1, <2>4 DEF RoomStep
<1>6. CASE SelectBatch \/ EndPass
  BY <1>6 DEF SelectBatch, EndPass, RoomStep
<1>7. ASSUME NEW t \in Rooms, CleanRoom(t)
      PROVE  RoomStep(r)
  <2>1. /\ t \in worker.batch
        /\ \/ room' = room
           \/ Exists(t) /\ SetStatus(t, "deleted")
    BY <1>7 DEF CleanRoom
  <2>2. r = t => Finished(r)
    BY <1>1, <2>1 DEF BatchOK
  <2> QED
    BY <1>1, <2>1, <2>2, OneRoomChanges DEF RoomStep
<1> QED
  BY <1>2, <1>3, <1>4, <1>5, <1>6, <1>7 DEF Next, WorkerStep

-----------------------------------------------------------------------------
(***************************************************************************)
(* The invariant, part by part.                                            *)
(***************************************************************************)
Statuses == {"none", "active", "closing", "closed", "expired", "deleted"}

LEMMA StatusSetKeepsRows ==
    ASSUME LifecycleTypeOK, NEW t \in Rooms, NEW status \in Statuses, SetStatus(t, status)
    PROVE  room' \in [Rooms -> Row]
<1>1. room \in [Rooms -> Row]
  BY DEF LifecycleTypeOK
<1>2. [room[t] EXCEPT !.status = status] \in Row
  BY <1>1 DEF Row, Statuses
<1> QED
  BY <1>1, <1>2 DEF SetStatus

LEMMA RowsTyped ==
    ASSUME LifecycleAssumption, LifecycleTypeOK, [Next]_vars
    PROVE  room' \in [Rooms -> Row]
<1>1. room \in [Rooms -> Row] /\ now \in Nat
  BY DEF LifecycleTypeOK
<1>2. ASSUME NEW t \in Rooms, Create(t)
      PROVE  room' \in [Rooms -> Row]
  <2>1. PICK ttl \in Ttls : room' = [room EXCEPT ![t] =
                [status |-> "active", created |-> Text(now),
                 expires |-> Text(now + ttl), deadline |-> NoTime]]
    BY <1>2 DEF Create
  <2>2. ttl \in Nat
    BY DEF LifecycleAssumption
  <2>3. now + ttl \in Nat
    BY <1>1, <2>2
  <2>4. Text(now) \in Nat /\ Text(now + ttl) \in Nat
    BY <1>1, <2>3, TextBack
  <2> QED
    BY <1>1, <2>1, <2>4 DEF Row
<1>3. ASSUME NEW q \in Requests, StartClosing(q)
      PROVE  room' \in [Rooms -> Row]
  <2> DEFINE t == req[q].target
  <2>1. t \in Rooms
    BY TargetIsRoom
  <2>2. \/ room' = room
        \/ room' = [room EXCEPT ![t].status = "closing", ![t].deadline = Deadline(t)]
        \/ SetStatus(t, "closed")
    BY <1>3 DEF StartClosing
  <2>3. Deadline(t) \in Nat
    BY <2>1, DeadlineWithin
  <2>4. [room[t] EXCEPT !.status = "closing", !.deadline = Deadline(t)] \in Row
    <3>1. room[t] \in Row
      BY <1>1, <2>1
    <3> HIDE DEF t
    <3> QED
      BY <2>3, <3>1 DEF Row
  <2>5. CASE room' = [room EXCEPT ![t].status = "closing", ![t].deadline = Deadline(t)]
    BY <1>1, <2>1, <2>4, <2>5
  <2>6. CASE SetStatus(t, "closed")
    BY <2>1, <2>6, StatusSetKeepsRows DEF Statuses
  <2> QED
    BY <1>1, <2>2, <2>5, <2>6
<1>4. ASSUME NEW q \in Requests, MarkClosed(q) \/ MarkExpired(q) \/ CloseByRoomID(q)
      PROVE  room' \in [Rooms -> Row]
  <2>1. \/ room' = room
        \/ SetStatus(req[q].target, "closed") \/ SetStatus(req[q].target, "expired")
    BY <1>4 DEF MarkClosed, MarkExpired, CloseByRoomID
  <2> QED
    BY <1>1, <2>1, TargetIsRoom, StatusSetKeepsRows DEF Statuses
<1>5. ASSUME NEW q \in Requests, ReadRoom(q) \/ Judge(q) \/ View(q) \/ Unauthorized(q)
      PROVE  room' = room
  BY <1>5 DEF ReadRoom, Judge, View, Unauthorized
<1>6. CASE CloseOverdue
  <2>1. \A r \in Rooms : [room[r] EXCEPT !.status = "closed"] \in Row
    BY <1>1 DEF Row
  <2> QED
    BY <1>1, <1>6, <2>1 DEF CloseOverdue
<1>7. ASSUME NEW t \in Rooms, CleanRoom(t)
      PROVE  room' \in [Rooms -> Row]
  <2>1. room' = room \/ SetStatus(t, "deleted")
    BY <1>7 DEF CleanRoom
  <2> QED
    BY <1>1, <2>1, StatusSetKeepsRows DEF Statuses
<1>8. CASE Tick \/ BeginPass \/ SelectBatch \/ EndPass \/ Crash \/ UNCHANGED vars
  BY <1>1, <1>8 DEF Tick, BeginPass, SelectBatch, EndPass, Crash, vars
<1> QED
  BY <1>1, <1>2, <1>3, <1>4, <1>5, <1>6, <1>7, <1>8 DEF Next, RequestStep, WorkerStep

\* A request that is through, and what its caller was told.
Through(q, answer) == [Idle EXCEPT !.target = req[q].target, !.answer = answer]

\* What a step does to a request, and to the clock and the rows meanwhile.
RequestMoves(q) ==
    \/ req'[q] = req[q]
    \/ req'[q] = Idle
    \/ RequestStep(q) /\ \E answer \in Answer : req'[q] = Through(q, answer)
    \/ ReadRoom(q)
    \/ /\ req[q].pc = "judge" /\ now' = now /\ room' = room
       /\ Verdict(req[q].seen) # "refuse"
       /\ req'[q] = [req[q] EXCEPT !.pc = Verdict(req[q].seen)]

ReqType ==
    [pc : {"idle", "judge", "mark_closed", "mark_expired", "granted"},
     kind : Kind, target : Rooms, seen : Row, answer : Answer]

LEMMA IdleTyped ==
    ASSUME LifecycleAssumption
    PROVE  Idle \in ReqType
<1>1. (CHOOSE r \in Rooms : TRUE) \in Rooms
  BY DEF LifecycleAssumption
<1>2. NoRow \in Row
  BY DEF NoRow, Row, NoTime
<1> QED
  BY <1>1, <1>2 DEF Idle, ReqType, Kind, Answer

LEMMA ThroughTyped ==
    ASSUME LifecycleAssumption, LifecycleTypeOK, NEW q \in Requests, NEW answer \in Answer
    PROVE  /\ Through(q, answer) \in ReqType
           /\ Through(q, answer).pc = "idle"
           /\ Through(q, answer).target = req[q].target
           /\ Through(q, answer).answer = answer
<1>1. Idle \in ReqType /\ Idle.pc = "idle"
  BY IdleTyped DEF Idle
<1>2. req[q].target \in Rooms
  BY TargetIsRoom
<1> QED
  BY <1>1, <1>2 DEF Through, ReqType

LEMMA RequestsMove ==
    ASSUME LifecycleAssumption, LifecycleTypeOK, [Next]_vars
    PROVE  /\ req' \in [Requests -> ReqType]
           /\ \A q \in Requests : RequestMoves(q)
<1>1. req \in [Requests -> ReqType] /\ room \in [Rooms -> Row]
  BY DEF LifecycleTypeOK, ReqType
<1>2. Idle \in ReqType
  BY IdleTyped
<1>3. ASSUME NEW p \in Requests, NEW answer \in Answer, RequestStep(p), Reply(p, answer)
      PROVE  /\ req' \in [Requests -> ReqType]
             /\ \A q \in Requests : RequestMoves(q)
  <2>1. Through(p, answer) \in ReqType
    BY ThroughTyped
  <2>2. req' = [req EXCEPT ![p] = Through(p, answer)]
    BY <1>3 DEF Reply, Through
  <2>3. \A q \in Requests : req'[q] = IF q = p THEN Through(p, answer) ELSE req[q]
    BY <1>1, <2>2
  <2> QED
    BY <1>1, <1>3, <2>1, <2>2, <2>3 DEF RequestMoves
<1>4. ASSUME NEW p \in Requests, ReadRoom(p)
      PROVE  /\ req' \in [Requests -> ReqType]
             /\ \A q \in Requests : RequestMoves(q)
  <2>1. PICK r \in Rooms, kind \in Kind : req' = [req EXCEPT ![p] =
                [pc |-> "judge", kind |-> kind, target |-> r, seen |-> room[r],
                 answer |-> "none"]]
    BY <1>4 DEF ReadRoom
  <2>2. [pc |-> "judge", kind |-> kind, target |-> r, seen |-> room[r],
         answer |-> "none"] \in ReqType
    BY <1>1 DEF ReqType, Answer
  <2>3. \A q \in Requests : q = p \/ req'[q] = req[q]
    BY <1>1, <2>1
  <2> QED
    BY <1>1, <1>4, <2>1, <2>2, <2>3 DEF RequestMoves
<1>5. ASSUME NEW p \in Requests, Judge(p)
      PROVE  /\ req' \in [Requests -> ReqType]
             /\ \A q \in Requests : RequestMoves(q)
  <2> DEFINE v == Verdict(req[p].seen)
  <2>1. v \in {"refuse", "mark_closed", "mark_expired", "granted"}
    BY DEF Verdict
  <2>2. CASE v = "refuse"
    BY <1>3, <1>5, <2>2 DEF Judge, RequestStep, Answer
  <2>3. CASE v # "refuse"
    <3>1. /\ req[p].pc = "judge" /\ now' = now /\ room' = room
          /\ req' = [req EXCEPT ![p].pc = v]
      BY <1>5, <2>3 DEF Judge, Proceed
    <3> HIDE DEF v
    <3>2. [req[p] EXCEPT !.pc = v] \in ReqType
      BY <1>1, <2>1, <2>3 DEF ReqType
    <3>3. \A q \in Requests : req'[q] = IF q = p THEN [req[p] EXCEPT !.pc = v] ELSE req[q]
      BY <1>1, <3>1
    <3> QED
      BY <1>1, <2>3, <3>1, <3>2, <3>3 DEF RequestMoves, v
  <2> QED
    BY <2>2, <2>3
<1>6. ASSUME NEW p \in Requests,
             \/ MarkClosed(p) \/ MarkExpired(p) \/ View(p) \/ Unauthorized(p)
             \/ CloseByRoomID(p) \/ StartClosing(p)
      PROVE  RequestStep(p) /\ \E answer \in Answer : Reply(p, answer)
  BY <1>6 DEF RequestStep, MarkClosed, MarkExpired, View, Unauthorized, CloseByRoomID,
              StartClosing, Answer
<1>7. CASE Crash
  BY <1>1, <1>2, <1>7 DEF Crash, RequestMoves
<1>8. CASE req' = req
  BY <1>1, <1>8 DEF RequestMoves
<1>9. CASE Tick \/ (\E r \in Rooms : Create(r)) \/ BeginPass \/ WorkerStep \/ UNCHANGED vars
  BY <1>8, <1>9 DEF Tick, Create, BeginPass, WorkerStep, CloseOverdue, SelectBatch,
                    CleanRoom, EndPass, vars
<1> QED
  BY <1>3, <1>4, <1>5, <1>6, <1>7, <1>9 DEF Next, RequestStep

WorkerType == [pc : {"resting", "close", "select", "clean"},
               start : 0 .. MaxTime, batch : SUBSET Rooms]

\* What a step does to the worker's batch.
WorkerMoves ==
    \/ worker'.batch \subseteq worker.batch
    \/ now' = now /\ room' = room /\ \A r \in worker'.batch : Eligible(r)

LEMMA WorkerAndClock ==
    ASSUME LifecycleAssumption, LifecycleTypeOK, worker.start <= now, [Next]_vars
    PROVE  /\ now' \in 0 .. MaxTime /\ now <= now'
           /\ worker' \in WorkerType /\ worker'.start <= now'
           /\ WorkerMoves
<1>1. /\ now \in 0 .. MaxTime /\ worker \in WorkerType /\ worker.batch \subseteq Rooms
      /\ MaxTime \in Nat
  BY DEF LifecycleTypeOK, WorkerType, LifecycleAssumption
<1>2. Resting \in WorkerType /\ Resting.start <= now /\ Resting.batch = {}
  BY <1>1 DEF Resting, WorkerType
<1>3. CASE Tick
  <2>1. now < MaxTime /\ now' = now + 1 /\ worker' = worker
    BY <1>3 DEF Tick
  <2>2. worker.start \in Nat
    BY <1>1 DEF WorkerType
  <2>3. now' \in 0 .. MaxTime /\ now <= now' /\ worker'.start <= now'
    BY <1>1, <2>1, <2>2
  <2> QED
    BY <1>1, <2>1, <2>3 DEF WorkerMoves
<1>4. CASE now' = now /\ (worker' = worker \/ worker' = Resting)
  <2>1. worker'.batch \subseteq worker.batch
    BY <1>1, <1>2, <1>4
  <2>2. worker' \in WorkerType /\ worker'.start <= now
    BY <1>1, <1>2, <1>4
  <2> QED
    BY <1>1, <1>4, <2>1, <2>2 DEF WorkerMoves
<1>5. CASE BeginPass \/ CloseOverdue
  <2>1. /\ now' = now
        /\ \/ worker' = [worker EXCEPT !.pc = "close", !.start = now]
           \/ worker' = [worker EXCEPT !.pc = "select"]
    BY <1>5 DEF BeginPass, CloseOverdue
  <2>2. \/ worker' = [pc |-> "close", start |-> now, batch |-> worker.batch]
        \/ worker' = [pc |-> "select", start |-> worker.start, batch |-> worker.batch]
    BY <1>1, <2>1 DEF WorkerType
  <2>3. worker'.batch = worker.batch /\ worker'.start \in {now, worker.start}
    BY <2>2
  <2>4. worker' \in WorkerType
    BY <1>1, <2>2 DEF WorkerType
  <2>5. worker'.start <= now'
    BY <1>1, <2>1, <2>3
  <2> QED
    BY <1>1, <2>1, <2>3, <2>4, <2>5 DEF WorkerMoves
<1>6. CASE SelectBatch
  <2>1. PICK batch \in SUBSET {r \in Rooms : Eligible(r)} :
            worker' = [worker EXCEPT !.pc = "clean", !.batch = batch]
    BY <1>6 DEF SelectBatch
  <2>2. now' = now /\ room' = room
    BY <1>6 DEF SelectBatch
  <2>3. worker' = [pc |-> "clean", start |-> worker.start, batch |-> batch]
    BY <1>1, <2>1 DEF WorkerType
  <2>4. \A r \in batch : Eligible(r) /\ r \in Rooms
    OBVIOUS
  <2> QED
    BY <1>1, <2>2, <2>3, <2>4 DEF WorkerType, WorkerMoves
<1>7. ASSUME NEW r \in Rooms, CleanRoom(r)
      PROVE  now' = now /\ worker' = [worker EXCEPT !.batch = @ \ {r}]
  BY <1>7 DEF CleanRoom
<1>8. CASE \E r \in Rooms : CleanRoom(r)
  BY <1>1, <1>7, <1>8 DEF WorkerType, WorkerMoves
<1>9. ASSUME NEW q \in Requests, ReadRoom(q) \/ RequestStep(q)
      PROVE  now' = now /\ worker' = worker
  BY <1>9 DEF ReadRoom, RequestStep, Judge, MarkClosed, MarkExpired, View,
              Unauthorized, CloseByRoomID, StartClosing
<1>10. ASSUME NEW r \in Rooms, Create(r)
       PROVE  now' = now /\ worker' = worker
  BY <1>10 DEF Create
<1>11. CASE EndPass \/ Crash \/ UNCHANGED vars
  BY <1>4, <1>11 DEF EndPass, Crash, vars
<1> QED
  BY <1>3, <1>4, <1>5, <1>6, <1>8, <1>9, <1>10, <1>11 DEF Next, WorkerStep

-----------------------------------------------------------------------------
\* What a step leaves of a row that other parts of the invariant refer to.
LEMMA RowAfterStep ==
    ASSUME LifecycleAssumption, LifecycleInv, [Next]_vars, NEW r \in Rooms
    PROVE  /\ room[r].status # "none" =>
                /\ room'[r].status # "none"
                /\ room'[r].expires = room[r].expires
                /\ room'[r].created = room[r].created
           /\ room[r].status \in {"closing", "closed", "deleted"} =>
                room'[r].status \in {"closing", "closed", "deleted"}
           /\ room[r].status \in {"closed", "deleted"} =>
                room'[r].status \in {"closed", "deleted"}
           /\ room'[r].status = "closing" =>
                \/ room[r].status = "closing" /\ room'[r].deadline = room[r].deadline
                \/ room[r].status = "active" /\ room'[r].deadline = Deadline(r)
           /\ room'[r].status = "expired" => room[r].status = "expired" \/ room[r].expires < now
<1>1. room[r] \in Row
  BY DEF LifecycleInv, LifecycleTypeOK
<1>2. RoomStep(r)
  BY RoomSteps
<1> QED
  BY <1>1, <1>2 DEF RoomStep, With, Row, Exists, Gone

LEMMA RowsStayOK ==
    ASSUME LifecycleAssumption, LifecycleInv, [Next]_vars, NEW r \in Rooms
    PROVE  RowOK(r)'
<1>1. /\ Deadline(r) \in Nat /\ Deadline(r) <= room[r].expires /\ RowOK(r)
  BY DeadlineWithin DEF LifecycleInv
<1>2. NoTime \notin Nat
  BY DEF NoTime
<1>3. /\ now \in Int /\ now' \in Int /\ now <= now' /\ room[r].expires \in Int
      /\ room[r] \in Row /\ room'[r] \in Row
  BY WorkerAndClock, RowsTyped DEF LifecycleInv, LifecycleTypeOK, Row
<1>4. room'[r].status = "closing" =>
          room'[r].deadline # NoTime /\ room'[r].deadline <= room'[r].expires
  BY <1>1, <1>2, RowAfterStep DEF RowOK
<1>5. room'[r].status = "expired" => room'[r].expires < now'
  <2> SUFFICES ASSUME room'[r].status = "expired" PROVE room'[r].expires < now'
    OBVIOUS
  <2>1. room[r].expires < now
    BY <1>1, RowAfterStep DEF RowOK
  <2>2. room[r].status # "none"
    BY <1>3, RoomSteps DEF RoomStep, With, Row
  <2>3. room'[r].expires = room[r].expires
    BY <2>2, RowAfterStep
  <2> QED
    BY <1>3, <2>1, <2>3
<1> QED
  BY <1>4, <1>5 DEF RowOK

LEMMA BatchStaysOK ==
    ASSUME LifecycleAssumption, LifecycleInv, [Next]_vars, NEW r \in Rooms
    PROVE  BatchOK(r)'
<1>1. /\ LifecycleTypeOK /\ BatchOK(r) /\ worker.start <= now
      /\ room[r].expires \in Nat /\ room[r].created \in Nat /\ Retention \in Nat
      /\ now \in Nat /\ worker.start \in Nat
  BY DEF LifecycleInv, LifecycleTypeOK, LifecycleAssumption, Row
<1>2. now' \in Nat /\ now <= now' /\ WorkerMoves
  BY <1>1, WorkerAndClock
<1>3. CASE r \in worker.batch
  <2>1. room[r].status # "none" /\ Finished(r)
    BY <1>1, <1>3 DEF BatchOK
  <2> QED
    BY <1>1, <1>2, <2>1, RowAfterStep DEF BatchOK, Finished
<1>4. CASE now' = now /\ room' = room /\ Eligible(r)
  <2>1. /\ Text(worker.start) \in Int /\ Text(worker.start) <= worker.start
        /\ Text(worker.start - Retention) \in Int
        /\ Text(worker.start - Retention) <= worker.start - Retention
    BY <1>1, TextBack
  <2>2. Finished(r) /\ room[r].status # "none"
    BY <1>1, <1>4, <2>1 DEF Eligible, Finished, Exists, Gone
  <2> QED
    BY <1>4, <2>2 DEF BatchOK, Finished
<1> QED
  BY <1>2, <1>3, <1>4 DEF WorkerMoves, BatchOK

LEMMA CopiesStayOK ==
    ASSUME LifecycleAssumption, LifecycleInv, [Next]_vars, NEW q \in Requests
    PROVE  CopyOK(q)'
<1> DEFINE t == req[q].target
           seen == req[q].seen
<1>1. /\ LifecycleTypeOK /\ CopyOK(q) /\ t \in Rooms /\ seen \in Row
      /\ now \in Nat /\ room \in [Rooms -> Row] /\ req[q] \in ReqType
  BY TargetIsRoom DEF LifecycleInv, LifecycleTypeOK, ReqType
<1>2. now' \in Nat /\ now <= now'
  BY <1>1, WorkerAndClock DEF LifecycleInv
<1>3. RequestMoves(q)
  BY <1>1, RequestsMove
<1>4. CASE req'[q] = req[q]
  BY <1>1, <1>2, <1>4, RowAfterStep DEF CopyOK, Row
<1>5. CASE req'[q] = Idle \/ \E answer \in Answer : req'[q] = Through(q, answer)
  <2>1. req'[q].pc = "idle"
    BY <1>1, <1>5, ThroughTyped DEF Idle
  <2> QED
    BY <2>1 DEF CopyOK
<1>6. CASE ReadRoom(q)
  <2>1. PICK r \in Rooms, kind \in Kind :
            /\ Exists(r) /\ room' = room /\ now' = now
            /\ req' = [req EXCEPT ![q] =
                  [pc |-> "judge", kind |-> kind, target |-> r, seen |-> room[r],
                   answer |-> "none"]]
    BY <1>6 DEF ReadRoom
  <2>2. req'[q] = [pc |-> "judge", kind |-> kind, target |-> r, seen |-> room[r],
                   answer |-> "none"]
    BY <1>1, <2>1 DEF LifecycleTypeOK
  <2>3. RowOK(r)
    BY DEF LifecycleInv
  <2> QED
    BY <2>1, <2>2, <2>3 DEF CopyOK, RowOK, Exists, Gone
<1>7. CASE /\ req[q].pc = "judge" /\ now' = now /\ room' = room
           /\ req'[q] = [req[q] EXCEPT !.pc = Verdict(seen)]
  <2>1. req'[q].target = t /\ req'[q].seen = seen /\ req'[q].pc = Verdict(seen)
    BY <1>1, <1>7 DEF ReqType
  <2>2. Verdict(seen) = "mark_closed" =>
            seen.status = "closing" /\ seen.deadline # NoTime /\ now >= seen.deadline
    BY DEF Verdict
  <2>3. Verdict(seen) = "mark_expired" => now > seen.expires
    BY DEF Verdict
  <2>4. /\ seen.deadline # NoTime => seen.deadline \in Nat
        /\ seen.expires \in Nat
    BY <1>1 DEF Row
  <2> QED
    BY <1>1, <1>7, <2>1, <2>2, <2>3, <2>4 DEF CopyOK
<1> QED
  BY <1>3, <1>4, <1>5, <1>6, <1>7 DEF RequestMoves

\* A room that is over stays so: its times stay, and a countdown that still
\* begins in it is over at once.
LEMMA OverForGood ==
    ASSUME LifecycleAssumption, LifecycleInv, [Next]_vars, NEW r \in Rooms, Over(r)
    PROVE  Over(r)'
<1>1. /\ room[r] \in Row /\ room'[r] \in Row /\ RowOK(r) /\ RowOK(r)'
      /\ now \in Int /\ now' \in Int /\ now <= now'
      /\ room[r].expires \in Int /\ room[r].status # "none"
  BY RowsTyped, RowsStayOK, WorkerAndClock DEF LifecycleInv, LifecycleTypeOK, Row, Over
<1>2. /\ room'[r].status # "none" /\ room'[r].expires = room[r].expires
  BY <1>1, RowAfterStep
<1>3. CASE room[r].status \in {"closed", "deleted"}
  <2>1. room'[r].status \in {"closed", "deleted"}
    BY <1>3, RowAfterStep
  <2> QED
    BY <2>1 DEF Over, Admits, Verdict, Exists, Gone
<1>4. CASE room[r].status = "closing"
  <2>1. room[r].deadline # NoTime /\ room[r].deadline \in Int /\ room[r].deadline <= now
    BY <1>1, <1>4 DEF Over, Admits, Verdict, Exists, Gone, RowOK, Row
  <2>2. \/ room'[r].status \in {"closed", "deleted"}
        \/ room'[r].status = "closing" /\ room'[r].deadline = room[r].deadline
    BY <1>4, RowAfterStep
  <2> QED
    BY <1>1, <2>1, <2>2 DEF Over, Admits, Verdict, Exists, Gone
<1>5. CASE room[r].status \in {"active", "expired"}
  <2>1. room[r].expires < now
    BY <1>1, <1>5 DEF Over, Admits, Verdict, Exists, Gone
  <2>2. room'[r].expires < now'
    BY <1>1, <1>2, <2>1
  <2>3. room'[r].status = "closing" =>
            /\ room'[r].deadline # NoTime /\ room'[r].deadline \in Int
            /\ room'[r].deadline < now'
    BY <1>1, <2>2 DEF RowOK, Row
  <2> QED
    BY <1>1, <1>2, <2>2, <2>3 DEF Over, Admits, Verdict, Exists, Gone
<1> QED
  BY <1>1, <1>3, <1>4, <1>5 DEF Row

\* A row with another status keeps its times.
LEMMA TargetAfter ==
    ASSUME LifecycleTypeOK, NEW t \in Rooms, NEW status, SetStatus(t, status)
    PROVE  /\ room'[t].status = status /\ room'[t].deadline = room[t].deadline
           /\ room'[t].expires = room[t].expires
<1>1. room'[t] = With(t, status) /\ room[t] \in Row
  BY OneRoomChanges DEF LifecycleTypeOK
<1> QED
  BY <1>1 DEF With, Row

\* The step in which a request is answered makes the answer true.
LEMMA AnsweredTruly ==
    ASSUME LifecycleAssumption, LifecycleInv, [Next]_vars,
           NEW q \in Requests, RequestStep(q), NEW t \in Rooms, t = req[q].target,
           NEW answer \in Answer, req'[q] = Through(q, answer)
    PROVE  Meant(t, answer)'
<1> DEFINE seen == req[q].seen
<1>1. /\ LifecycleTypeOK /\ CopyOK(q) /\ RowOK(t)
      /\ room[t] \in Row /\ seen \in Row /\ now \in Int
      /\ req[q] \in ReqType /\ req \in [Requests -> ReqType]
  BY DEF LifecycleInv, LifecycleTypeOK, ReqType
<1>2. RowOK(t)' /\ room'[t] \in Row
  BY <1>1, RowsStayOK, RowsTyped
<1>3. /\ room[t].expires \in Int /\ room[t].deadline \in Int
      /\ room'[t].expires \in Int /\ room'[t].deadline \in Int
  BY <1>1, <1>2 DEF Row, NoTime
<1>4. now' = now
  BY DEF RequestStep, Judge, MarkClosed, MarkExpired, View, Unauthorized, CloseByRoomID,
         StartClosing
<1>5. ASSUME NEW a \in Answer, Reply(q, a)
      PROVE  answer = a
  <2>1. req'[q] = Through(q, a)
    BY <1>1, <1>5 DEF Reply, Through
  <2>2. Through(q, a).answer = a /\ Through(q, answer).answer = answer
    BY <1>1, ThroughTyped
  <2> QED
    BY <2>1, <2>2
<1>6. /\ room'[t].status \in {"closed", "deleted"} => Over(t)'
      /\ room'[t].status # "none" /\ room'[t].expires < now => Over(t)'
      /\ room'[t].status = "closing" /\ room'[t].deadline <= now => Over(t)'
      /\ room'[t].status = "expired" => Over(t)'
  BY <1>1, <1>2, <1>3, <1>4 DEF Over, Admits, Verdict, Exists, Gone, RowOK
<1>7. CASE Judge(q)
  <2>1. Reply(q, "closed") /\ seen.status = "closed" /\ room' = room /\ req[q].pc = "judge"
    <3>1. CASE Verdict(seen) = "refuse"
      BY <1>7, <3>1 DEF Judge, Verdict
    <3>2. CASE Verdict(seen) # "refuse"
      <4>1. req'[q].pc = Verdict(seen)
        BY <1>1, <1>7, <3>2 DEF Judge, Proceed, ReqType
      <4>2. Verdict(seen) # "idle" /\ req'[q].pc = "idle"
        BY <1>1, ThroughTyped DEF Verdict
      <4> QED
        BY <4>1, <4>2
    <3> QED
      BY <3>1, <3>2
  <2>2. room'[t].status \in {"closed", "deleted"} /\ answer = "closed"
    BY <1>1, <1>5, <2>1 DEF CopyOK, Answer
  <2> QED
    BY <1>6, <2>2 DEF Meant
<1>8. CASE MarkClosed(q)
  <2>1. /\ Reply(q, "closed") /\ req[q].pc = "mark_closed"
        /\ room' = room \/ SetStatus(t, "closed")
    BY <1>8 DEF MarkClosed
  <2>2. /\ room[t].status \in {"closing", "closed", "deleted"}
        /\ room[t].status = "closing" => room[t].deadline <= now
    BY <1>1, <2>1 DEF CopyOK
  <2>3. Over(t)' /\ answer = "closed"
    BY <1>1, <1>5, <1>6, <2>1, <2>2, TargetAfter DEF Answer
  <2> QED
    BY <2>3 DEF Meant
<1>9. CASE MarkExpired(q)
  <2>1. /\ Reply(q, "closed") /\ req[q].pc = "mark_expired"
        /\ room' = room \/ SetStatus(t, "expired")
    BY <1>9 DEF MarkExpired
  <2>2. room[t].expires < now /\ room[t].status # "none"
    BY <1>1, <2>1 DEF CopyOK
  <2>3. Over(t)' /\ answer = "closed"
    BY <1>1, <1>5, <1>6, <2>1, <2>2, TargetAfter DEF Answer
  <2> QED
    BY <2>3 DEF Meant
<1>10. CASE View(q) \/ Unauthorized(q)
  <2>1. answer = "none"
    BY <1>5, <1>10 DEF View, Unauthorized, Answer
  <2> QED
    BY <2>1 DEF Meant
<1>11. CASE CloseByRoomID(q)
  <2>1. /\ req[q].pc = "granted"
        /\ \/ SetStatus(t, "closed") /\ Reply(q, "closed")
           \/ /\ room[t].status \notin {"active", "closing"} /\ room' = room
              /\ Reply(q, "not_found") \/ Reply(q, "closed")
           \/ Reply(q, "error")
    BY <1>11 DEF CloseByRoomID
  <2>2. room[t].status # "none"
    BY <1>1, <2>1 DEF CopyOK
  <2>3. CASE SetStatus(t, "closed") /\ Reply(q, "closed")
    BY <1>1, <1>5, <1>6, <2>3, TargetAfter DEF Meant, Answer
  <2>4. CASE /\ room[t].status \notin {"active", "closing"} /\ room' = room
             /\ Reply(q, "not_found") \/ Reply(q, "closed")
    <3>1. room'[t].status \in {"closed", "deleted", "expired"}
      BY <1>1, <2>2, <2>4 DEF Row
    <3>2. answer \in {"closed", "not_found"}
      BY <1>5, <2>4 DEF Answer
    <3> QED
      BY <1>6, <3>1, <3>2 DEF Meant
  <2>5. CASE Reply(q, "error")
    BY <1>5, <2>5 DEF Meant, Answer
  <2> QED
    BY <2>1, <2>3, <2>4, <2>5
<1>12. CASE StartClosing(q)
  <2>1. \/ /\ room[t].status = "active" /\ Reply(q, "closing")
           /\ room' = [room EXCEPT ![t].status = "closing", ![t].deadline = Deadline(t)]
        \/ room[t].status = "closing" /\ room' = room /\ Reply(q, "closing")
        \/ /\ room[t].status = "closing" /\ now >= room[t].deadline
           /\ SetStatus(t, "closed") \/ room' = room
           /\ Reply(q, "closed")
        \/ room[t].status = "closed" /\ room' = room /\ Reply(q, "closed")
        \/ room[t].status \in {"expired", "deleted"} /\ room' = room /\ Reply(q, "not_found")
        \/ Reply(q, "error")
    BY <1>12 DEF StartClosing
  <2>2. CASE /\ room[t].status = "active" /\ Reply(q, "closing")
             /\ room' = [room EXCEPT ![t].status = "closing", ![t].deadline = Deadline(t)]
    <3>1. room'[t].status = "closing"
      BY <1>1, <2>2 DEF LifecycleTypeOK, Row
    <3> QED
      BY <1>5, <2>2, <3>1 DEF Meant, Answer
  <2>3. CASE room[t].status = "closing" /\ room' = room /\ Reply(q, "closing")
    BY <1>5, <2>3 DEF Meant, Answer
  <2>4. CASE /\ room[t].status = "closing" /\ now >= room[t].deadline
             /\ SetStatus(t, "closed") \/ room' = room
             /\ Reply(q, "closed")
    <3>1. Over(t)'
      BY <1>1, <1>3, <1>6, <2>4, TargetAfter
    <3> QED
      BY <1>5, <2>4, <3>1 DEF Meant, Answer
  <2>5. CASE room[t].status = "closed" /\ room' = room /\ Reply(q, "closed")
    BY <1>5, <1>6, <2>5 DEF Meant, Answer
  <2>6. CASE room[t].status \in {"expired", "deleted"} /\ room' = room /\ Reply(q, "not_found")
    BY <1>5, <1>6, <2>6 DEF Meant, Answer
  <2>7. CASE Reply(q, "error")
    BY <1>5, <2>7 DEF Meant, Answer
  <2> QED
    BY <2>1, <2>2, <2>3, <2>4, <2>5, <2>6, <2>7
<1> QED
  BY <1>7, <1>8, <1>9, <1>10, <1>11, <1>12 DEF RequestStep

LEMMA AnswersStayTrue ==
    ASSUME LifecycleAssumption, LifecycleInv, [Next]_vars, NEW q \in Requests
    PROVE  Meant(req[q].target, req[q].answer)'
<1> SUFFICES ASSUME NEW t \in Rooms, t = req[q].target
             PROVE  Meant(req[q].target, req[q].answer)'
  BY TargetIsRoom DEF LifecycleInv
<1>1. /\ LifecycleTypeOK /\ Meant(t, req[q].answer)
      /\ req \in [Requests -> ReqType] /\ Idle \in ReqType
  BY TargetIsRoom, IdleTyped DEF LifecycleInv, LifecycleTypeOK, ReqType
<1>2. RequestMoves(q)
  BY <1>1, RequestsMove
<1>3. CASE /\ req'[q].target = t /\ req'[q].answer = req[q].answer
  <2>1. Over(t) => Over(t)'
    BY OverForGood
  <2>2. Over(t)' => Over(req[q].target)'
    BY <1>3 DEF Over, Admits, Exists, Gone, Verdict
  <2> QED
    BY <1>1, <1>3, <2>1, <2>2, RowAfterStep DEF Meant
<1>4. CASE req'[q].answer = "none"
  BY <1>4 DEF Meant
<1>5. ASSUME NEW answer \in Answer, RequestStep(q), req'[q] = Through(q, answer)
      PROVE  Meant(req[q].target, req[q].answer)'
  <2>1. req'[q].target = t /\ req'[q].answer = answer
    BY <1>1, <1>5, ThroughTyped
  <2>2. Meant(t, answer)'
    BY <1>1, <1>5, AnsweredTruly
  <2> QED
    BY <2>1, <2>2 DEF Meant, Over, Admits, Exists, Gone, Verdict
<1>6. CASE ReadRoom(q)
  BY <1>1, <1>4, <1>6 DEF ReadRoom
<1>7. CASE /\ req[q].pc = "judge" /\ now' = now /\ room' = room
           /\ req'[q] = [req[q] EXCEPT !.pc = Verdict(req[q].seen)]
  BY <1>1, <1>3, <1>7 DEF ReqType
<1>8. CASE req'[q] = Idle
  BY <1>4, <1>8 DEF Idle
<1> QED
  BY <1>2, <1>3, <1>5, <1>6, <1>7, <1>8 DEF RequestMoves

\* The invariant holds in every reachable state.
THEOREM LifecycleInvariant == Spec => []LifecycleInv
<1>1. Init => LifecycleInv
  <2> SUFFICES ASSUME Init PROVE LifecycleInv
    OBVIOUS
  <2>1. NoRow \in Row /\ Idle \in ReqType /\ MaxTime \in Nat
    BY LifecycleAssumption, IdleTyped DEF NoRow, Row, NoTime, LifecycleAssumption
  <2>2. LifecycleTypeOK
    BY <2>1 DEF Init, LifecycleTypeOK, Resting, ReqType
  <2> QED
    BY <2>2 DEF Init, LifecycleInv, RowOK, BatchOK, CopyOK, Meant, NoRow, Idle, Resting
<1>2. LifecycleInv /\ [Next]_vars => LifecycleInv'
  <2> SUFFICES ASSUME LifecycleInv, [Next]_vars PROVE LifecycleInv'
    OBVIOUS
  <2> USE LifecycleAssumption
  <2>1. LifecycleTypeOK /\ worker.start <= now
    BY DEF LifecycleInv
  <2>2. /\ room' \in [Rooms -> Row] /\ req' \in [Requests -> ReqType]
        /\ now' \in 0 .. MaxTime /\ worker' \in WorkerType /\ worker'.start <= now'
    BY <2>1, RowsTyped, RequestsMove, WorkerAndClock
  <2>3. LifecycleTypeOK'
    BY <2>2 DEF LifecycleTypeOK, ReqType, WorkerType
  <2> QED
    BY <2>2, <2>3, RowsStayOK, BatchStaysOK, CopiesStayOK, AnswersStayTrue DEF LifecycleInv
<1> QED
  BY <1>1, <1>2, PTL DEF Spec

-----------------------------------------------------------------------------
(***************************************************************************)
(* The properties.                                                         *)
(***************************************************************************)
\* Rows, requests and the worker keep their types.
THEOREM LifecycleTypeCorrect == Spec => []LifecycleTypeOK
<1>1. LifecycleInv => LifecycleTypeOK
  BY DEF LifecycleInv
<1> QED
  BY <1>1, LifecycleInvariant, PTL

\* A room's status only moves forward, however old the copies requests act on.
THEOREM StatusMovesForward == Spec => StatusForward
<1>1. LifecycleInv /\ [Next]_vars =>
        [\A r \in Rooms : room'[r].status # room[r].status
            => room'[r].status \in Successors[room[r].status]]_vars
  <2> SUFFICES ASSUME LifecycleInv, [Next]_vars, NEW r \in Rooms,
                      room'[r].status # room[r].status
               PROVE  room'[r].status \in Successors[room[r].status]
    OBVIOUS
  <2>1. RoomStep(r) /\ room[r] \in Row
    BY LifecycleAssumption, RoomSteps DEF LifecycleInv, LifecycleTypeOK
  <2>2. \/ room[r].status = "none" /\ room'[r].status = "active"
        \/ room[r].status = "active" /\ room'[r].status \in {"closing", "closed", "expired"}
        \/ room[r].status = "closing" /\ room'[r].status = "closed"
        \/ /\ room[r].status \in {"active", "closing", "closed", "expired"}
           /\ room'[r].status = "deleted"
    BY <2>1 DEF RoomStep, With, Row, Exists, Gone
  <2>3. /\ Successors["none"] = {"active"}
        /\ Successors["active"] = {"closing", "closed", "expired", "deleted"}
        /\ Successors["closing"] = {"closed", "deleted"}
        /\ Successors["closed"] = {"deleted"}
        /\ Successors["expired"] = {"deleted"}
    BY DEF Successors
  <2> QED
    BY <2>2, <2>3
<1> QED
  BY <1>1, LifecycleInvariant, PTL DEF Spec, StatusForward

\* Only the creator or the deadline ends a countdown.
THEOREM CountdownsHonoured == Spec => CountdownHonoured
<1>1. LifecycleInv /\ [Next]_vars =>
        [\A r \in Rooms : room[r].status = "closing" =>
            \/ room'[r] = room[r]
            \/ now >= room[r].deadline
            \/ CreatorCloses(r)]_vars
  <2> SUFFICES ASSUME LifecycleInv, [Next]_vars, NEW r \in Rooms,
                      room[r].status = "closing"
               PROVE  \/ room'[r] = room[r]
                      \/ now >= room[r].deadline
                      \/ CreatorCloses(r)
    OBVIOUS
  <2>1. /\ RoomStep(r) /\ now \in Int
        /\ room[r].deadline \in Int /\ room[r].expires \in Int
        /\ room[r].deadline <= room[r].expires
    BY LifecycleAssumption, RoomSteps
       DEF LifecycleInv, LifecycleTypeOK, Row, RowOK, NoTime
  <2>2. Finished(r) => room[r].deadline <= now
    BY <2>1 DEF Finished
  <2> QED
    BY <2>1, <2>2 DEF RoomStep
<1> QED
  BY <1>1, LifecycleInvariant, PTL DEF Spec, CountdownHonoured

\* Nobody is let in after a room's lifetime.
THEOREM GrantsAreWithinLifetime == Spec => GrantsWithinLifetime
<1>1. LifecycleInv /\ [Next]_vars =>
        [\A q \in Requests : req[q].pc = "judge" /\ req'[q].pc = "granted"
            => now <= room[req[q].target].expires]_vars
  <2> SUFFICES ASSUME LifecycleInv, [Next]_vars, NEW q \in Requests,
                      req[q].pc = "judge", req'[q].pc = "granted"
               PROVE  now <= room[req[q].target].expires
    OBVIOUS
  <2> DEFINE seen == req[q].seen
  <2>1. /\ RequestMoves(q) /\ CopyOK(q) /\ req[q] \in ReqType /\ now \in Int
        /\ req \in [Requests -> ReqType]
    BY LifecycleAssumption, RequestsMove DEF LifecycleInv, LifecycleTypeOK, ReqType
  <2>2. ~ReadRoom(q)
    BY DEF ReadRoom
  <2>3. Verdict(seen) = "granted"
    <3>1. Idle.pc # "granted" /\ \A answer \in Answer : Through(q, answer).pc # "granted"
      BY LifecycleAssumption, ThroughTyped DEF Idle, LifecycleInv
    <3> QED
      BY <2>1, <2>2, <3>1 DEF RequestMoves, ReqType
  <2>4. /\ seen.expires \in Int /\ seen.deadline \in Int
        /\ seen.expires = room[req[q].target].expires
        /\ seen.status = "closing" =>
              seen.deadline # NoTime /\ seen.deadline <= seen.expires
    BY <2>1 DEF CopyOK, ReqType, Row, NoTime
  <2>5. CASE seen.status = "closing"
    BY <2>1, <2>3, <2>4, <2>5 DEF Verdict
  <2>6. CASE seen.status # "closing"
    BY <2>1, <2>3, <2>4, <2>6 DEF Verdict
  <2> QED
    BY <2>5, <2>6
<1> QED
  BY <1>1, LifecycleInvariant, PTL DEF Spec, GrantsWithinLifetime

\* What a close request was answered (app.go:801-859) stays true of the room,
\* although the handler had read it some time before: "closed" and not found
\* that it lets nobody in, "closing" that its countdown runs or has run.
THEOREM CloseAnswersAreTrue == Spec => []CloseAnswersTrue
<1>1. LifecycleInv => CloseAnswersTrue
  BY DEF LifecycleInv, Meant, Over, CloseAnswersTrue
<1> QED
  BY <1>1, LifecycleInvariant, PTL

\* The sweep deletes finished rooms only, although it chose them earlier.
THEOREM OnlyFinishedRoomsAreDeleted == Spec => OnlyFinishedRoomsDeleted
<1>1. LifecycleInv /\ [Next]_vars =>
        [\A r \in Rooms : Exists(r) /\ room'[r].status = "deleted" =>
            \/ room[r].expires <= now
            \/ room[r].status = "closed" /\ room[r].created + Retention <= now]_vars
  <2> SUFFICES ASSUME LifecycleInv, [Next]_vars, NEW r \in Rooms,
                      Exists(r), room'[r].status = "deleted"
               PROVE  \/ room[r].expires <= now
                      \/ room[r].status = "closed" /\ room[r].created + Retention <= now
    OBVIOUS
  <2>1. RoomStep(r) /\ room[r] \in Row
    BY LifecycleAssumption, RoomSteps DEF LifecycleInv, LifecycleTypeOK
  <2>2. Finished(r)
    BY <2>1 DEF RoomStep, With, Row, Exists, Gone
  <2> QED
    BY <2>2 DEF Finished, Exists, Gone
<1> QED
  BY <1>1, LifecycleInvariant, PTL DEF Spec, OnlyFinishedRoomsDeleted
=============================================================================
