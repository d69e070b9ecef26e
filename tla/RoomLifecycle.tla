--------------------------- MODULE RoomLifecycle ---------------------------
(***************************************************************************)
(* The life of a room's row in the database: internal/room/room.go as the  *)
(* handlers of internal/app/app.go call it, and the room sweep of          *)
(* internal/cleanup/cleanup.go.                                            *)
(*                                                                         *)
(* A request reads the row, judges the copy it read by the clock, may then *)
(* correct the row's status by a guarded UPDATE, and only after that acts. *)
(* Each database statement or transaction is one step (one connection,     *)
(* database.go:16); between a request's steps other requests and the       *)
(* cleanup worker run and time passes.                                     *)
(*                                                                         *)
(* Time is counted in ticks.  time.Now() sees ticks; a time that is stored *)
(* or compared as RFC 3339 text is cut to whole seconds.                   *)
(***************************************************************************)
EXTENDS Integers, FiniteSets

CONSTANTS Rooms,        \* the rooms created during the run
          Requests,     \* handler goroutines
          Second,       \* ticks in a second
          Ttls,         \* lifetimes asked for, in ticks
          CloseDelay,   \* the participant's countdown, 10 s in the code
          Retention,    \* ClosedRoomRetention
          Batch,        \* CleanupBatchSize
          MaxTime       \* the clock stops here (bound)

ASSUME LifecycleAssumption ==
    /\ IsFiniteSet(Rooms) /\ Rooms # {}
    /\ Second \in Nat \ {0} /\ Ttls \subseteq Nat /\ CloseDelay \in Nat
    /\ Retention \in Nat /\ Batch \in Nat \ {0} /\ MaxTime \in Nat

VARIABLES now,      \* the clock
          room,     \* room |-> its row; status "none" before, "deleted" after
          req,      \* request |-> its step, its kind, the row it read and,
                    \* when it is through, what the caller was told
          worker    \* the cleanup worker's pass

vars == <<now, room, req, worker>>

NoTime == -1
Text(t) == t - (t % Second)

Gone == {"none", "deleted"}
Row == [status : {"none", "active", "closing", "closed", "expired", "deleted"},
        created : Nat, expires : Nat, deadline : Nat \union {NoTime}]

NoRow == [status |-> "none", created |-> 0, expires |-> 0, deadline |-> NoTime]
Exists(r) == room[r].status \notin Gone

Kind == {"view", "creator_close", "participant_close"}
\* "error" is a database error, "not_found" ErrRoomNotFound; a close request
\* renders both as 500 "failed to close room".
Answer == {"none", "closed", "closing", "not_found", "error"}
Idle == [pc |-> "idle", kind |-> "view", target |-> CHOOSE r \in Rooms : TRUE,
         seen |-> NoRow, answer |-> "none"]
Resting == [pc |-> "resting", start |-> 0, batch |-> {}]

Init ==
    /\ now = 0
    /\ room = [r \in Rooms |-> NoRow]
    /\ req = [q \in Requests |-> Idle]
    /\ worker = Resting

SetStatus(r, status) == room' = [room EXCEPT ![r].status = status]
Proceed(q, pc) == req' = [req EXCEPT ![q].pc = pc]
Reply(q, answer) ==
    req' = [req EXCEPT ![q] = [Idle EXCEPT !.target = req[q].target, !.answer = answer]]

Tick == now < MaxTime /\ now' = now + 1 /\ UNCHANGED <<room, req, worker>>

Create(r) ==
    \E ttl \in Ttls :
        /\ room[r].status = "none"
        /\ room' = [room EXCEPT ![r] =
                [status |-> "active", created |-> Text(now),
                 expires |-> Text(now + ttl), deadline |-> NoTime]]
        /\ UNCHANGED <<now, req, worker>>

-----------------------------------------------------------------------------
(***************************************************************************)
(* GetByToken: read the row ...                                            *)
(***************************************************************************)
ReadRoom(q) ==
    \E r \in Rooms, kind \in Kind :
        /\ req[q].pc = "idle"
        /\ Exists(r)
        /\ req' = [req EXCEPT ![q] =
                [pc |-> "judge", kind |-> kind, target |-> r, seen |-> room[r],
                 answer |-> "none"]]
        /\ UNCHANGED <<now, room, worker>>

(***************************************************************************)
(* ... judge the copy by the clock: refused at once, refused after an      *)
(* update of the row, or granted.                                          *)
(***************************************************************************)
Verdict(seen) ==
    IF seen.status = "closed" THEN "refuse"
    ELSE IF seen.status = "closing"
         THEN IF seen.deadline # NoTime /\ now >= seen.deadline
              THEN "mark_closed" ELSE "granted"
    ELSE IF now > seen.expires THEN "mark_expired" ELSE "granted"

Judge(q) ==
    LET verdict == Verdict(req[q].seen)
    IN  /\ req[q].pc = "judge"
        /\ IF verdict = "refuse" THEN Reply(q, "closed") ELSE Proceed(q, verdict)
        /\ UNCHANGED <<now, room, worker>>

\* ... and correct the row, if it still is in the state that was read.  An
\* error of the update is ignored: the answer is the same, the row as it was.
MarkClosed(q) ==
    /\ req[q].pc = "mark_closed"
    /\ \/ room[req[q].target].status = "closing" /\ SetStatus(req[q].target, "closed")
       \/ UNCHANGED room
    /\ Reply(q, "closed")
    /\ UNCHANGED <<now, worker>>

\* Mutant: the update is not limited to active rooms.
MarkExpiredUnguarded(q) ==
    /\ req[q].pc = "mark_expired"
    /\ \/ Exists(req[q].target) /\ SetStatus(req[q].target, "expired")
       \/ UNCHANGED room
    /\ Reply(q, "closed")
    /\ UNCHANGED <<now, worker>>

MarkExpired(q) ==
    /\ req[q].pc = "mark_expired"
    /\ \/ room[req[q].target].status = "active" /\ SetStatus(req[q].target, "expired")
       \/ UNCHANGED room
    /\ Reply(q, "closed")
    /\ UNCHANGED <<now, worker>>

(***************************************************************************)
(* A granted request acts: it views the room, closes it as its creator, or *)
(* starts the countdown as a participant, who may lack the session a PIN   *)
(* asks for.                                                               *)
(***************************************************************************)
View(q) ==
    /\ req[q].pc = "granted" /\ req[q].kind = "view"
    /\ Reply(q, "none")
    /\ UNCHANGED <<now, room, worker>>

Unauthorized(q) ==
    /\ req[q].pc = "granted" /\ req[q].kind = "participant_close"
    /\ Reply(q, "none")
    /\ UNCHANGED <<now, room, worker>>

\* Mutant: the creator's close leaves a countdown alone.
CloseByRoomIDActiveOnly(q) ==
    LET r == req[q].target
    IN  /\ req[q].pc = "granted" /\ req[q].kind = "creator_close"
        /\ \/ /\ room[r].status = "active"
              /\ SetStatus(r, "closed") /\ Reply(q, "closed")
           \/ /\ room[r].status # "active" /\ UNCHANGED room
              /\ Reply(q, "not_found") \/ (Exists(r) /\ Reply(q, "closed"))
           \/ UNCHANGED room /\ Reply(q, "error")
        /\ UNCHANGED <<now, worker>>

(***************************************************************************)
(* CloseByRoomID is one UPDATE.  When it finds no row to close, the row is *)
(* looked for again: ErrRoomClosed if there is one, ErrRoomNotFound if not *)
(* or if that query fails.  A failing UPDATE leaves the room as it was.    *)
(***************************************************************************)
CloseByRoomID(q) ==
    LET r == req[q].target
    IN  /\ req[q].pc = "granted" /\ req[q].kind = "creator_close"
        /\ \/ /\ room[r].status \in {"active", "closing"}
              /\ SetStatus(r, "closed") /\ Reply(q, "closed")
           \/ /\ room[r].status \notin {"active", "closing"} /\ UNCHANGED room
              /\ Reply(q, "not_found") \/ (Exists(r) /\ Reply(q, "closed"))
           \/ UNCHANGED room /\ Reply(q, "error")
        /\ UNCHANGED <<now, worker>>

\* Mutant: the countdown does not stop at the room's expiry.
DeadlineBeyondExpiry(r) == Text(now + CloseDelay)

Deadline(r) ==
    Text(IF now + CloseDelay > room[r].expires
         THEN room[r].expires ELSE now + CloseDelay)

\* Mutant: a second request restarts the countdown.
StartClosingAgain(q) ==
    LET r == req[q].target
    IN  /\ req[q].pc = "granted" /\ req[q].kind = "participant_close"
        /\ IF room[r].status \in {"active", "closing"}
           THEN room' = [room EXCEPT ![r].status = "closing", ![r].deadline = Deadline(r)]
           ELSE UNCHANGED room
        /\ Reply(q, "closing")
        /\ UNCHANGED <<now, worker>>

(***************************************************************************)
(* StartClosing is one transaction on the row as it is now; whichever of   *)
(* its statements fails, it is rolled back.  Only the end of an overdue    *)
(* countdown is reported whether or not it could be written.               *)
(***************************************************************************)
StartClosing(q) ==
    LET r == req[q].target
    IN  /\ req[q].pc = "granted" /\ req[q].kind = "participant_close"
        /\ \/ /\ room[r].status = "active"
              /\ room' = [room EXCEPT ![r].status = "closing",
                                      ![r].deadline = Deadline(r)]
              /\ Reply(q, "closing")
           \/ /\ room[r].status = "closing" /\ now < room[r].deadline
              /\ UNCHANGED room /\ Reply(q, "closing")
           \/ /\ room[r].status = "closing" /\ now >= room[r].deadline
              /\ SetStatus(r, "closed") \/ UNCHANGED room
              /\ Reply(q, "closed")
           \/ /\ room[r].status = "closed"
              /\ UNCHANGED room /\ Reply(q, "closed")
           \/ /\ room[r].status \in {"expired", "deleted"}
              /\ UNCHANGED room /\ Reply(q, "not_found")
           \/ UNCHANGED room /\ Reply(q, "error")
        /\ UNCHANGED <<now, worker>>

RequestStep(q) ==
    \/ Judge(q) \/ MarkClosed(q) \/ MarkExpired(q)
    \/ View(q) \/ Unauthorized(q) \/ CloseByRoomID(q) \/ StartClosing(q)

-----------------------------------------------------------------------------
(***************************************************************************)
(* One pass of the cleanup worker.  It compares text with text, all of it  *)
(* with the time at which the pass began.                                  *)
(***************************************************************************)
BeginPass ==
    /\ worker.pc = "resting"
    /\ worker' = [worker EXCEPT !.pc = "close", !.start = now]
    /\ UNCHANGED <<now, room, req>>

\* Mutant: the pass leaves overdue countdowns to the next visitor.
CloseNothing ==
    /\ worker.pc = "close"
    /\ worker' = [worker EXCEPT !.pc = "select"]
    /\ UNCHANGED <<now, room, req>>

CloseOverdue ==
    /\ worker.pc = "close"
    /\ room' = [r \in Rooms |->
            IF room[r].status = "closing" /\ room[r].deadline <= Text(worker.start)
            THEN [room[r] EXCEPT !.status = "closed"] ELSE room[r]]
    /\ worker' = [worker EXCEPT !.pc = "select"]
    /\ UNCHANGED <<now, req>>

\* Mutant: any room older than the retention is swept, whatever its status.
EligibleByAge(r) ==
    /\ Exists(r)
    /\ \/ room[r].expires <= Text(worker.start)
       \/ room[r].created <= Text(worker.start - Retention)

\* Mutant: expired rooms wait until somebody has closed them.
EligibleClosedOnly(r) ==
    /\ room[r].status = "closed"
    /\ room[r].created <= Text(worker.start - Retention)

Eligible(r) ==
    /\ Exists(r)
    /\ \/ room[r].expires <= Text(worker.start)
       \/ /\ room[r].status = "closed"
          /\ room[r].created <= Text(worker.start - Retention)

\* At most Batch of the eligible rooms, in no particular order.
SelectBatch ==
    LET eligible == {r \in Rooms : Eligible(r)}
        size     == IF Cardinality(eligible) <= Batch THEN Cardinality(eligible) ELSE Batch
    IN  /\ worker.pc = "select"
        /\ \E batch \in SUBSET eligible :
              /\ Cardinality(batch) = size
              /\ worker' = [worker EXCEPT !.pc = "clean", !.batch = batch]
        /\ UNCHANGED <<now, room, req>>

CleanRoom(r) ==
    /\ worker.pc = "clean" /\ r \in worker.batch
    /\ IF Exists(r) THEN SetStatus(r, "deleted") ELSE UNCHANGED room
    /\ worker' = [worker EXCEPT !.batch = @ \ {r}]
    /\ UNCHANGED <<now, req>>

EndPass ==
    /\ worker.pc = "clean" /\ worker.batch = {}
    /\ worker' = Resting
    /\ UNCHANGED <<now, room, req>>

WorkerStep ==
    \/ CloseOverdue \/ SelectBatch \/ EndPass
    \/ \E r \in Rooms : CleanRoom(r)

\* The process dies and starts again: requests and the pass are cut off, the
\* rows stay as the last statement left them, and so does what was answered.
Crash ==
    /\ req' = [q \in Requests |-> IF req[q].pc = "idle" THEN req[q] ELSE Idle]
    /\ worker' = Resting
    /\ UNCHANGED <<now, room>>

Next ==
    \/ Tick
    \/ \E r \in Rooms : Create(r)
    \/ \E q \in Requests : ReadRoom(q) \/ RequestStep(q)
    \/ BeginPass \/ WorkerStep
    \/ Crash

Spec == Init /\ [][Next]_vars

Undisturbed ==
    \/ Tick
    \/ \E r \in Rooms : Create(r)
    \/ \E q \in Requests : ReadRoom(q) \/ RequestStep(q)
    \/ BeginPass \/ WorkerStep

\* The clock runs, the worker's ticker fires and its pass runs on; requests
\* may come or not, and crashes come to an end.
Fairness ==
    /\ WF_vars(Tick) /\ WF_vars(BeginPass) /\ WF_vars(WorkerStep)
    /\ <>[][Undisturbed]_vars

FairSpec == Spec /\ Fairness

-----------------------------------------------------------------------------
\* Rows, requests and the worker keep their types.
LifecycleTypeOK ==
    /\ now \in 0 .. MaxTime
    /\ room \in [Rooms -> Row]
    /\ req \in [Requests ->
            [pc : {"idle", "judge", "mark_closed", "mark_expired", "granted"},
             kind : Kind, target : Rooms, seen : Row, answer : Answer]]
    /\ worker \in [pc : {"resting", "close", "select", "clean"},
                   start : 0 .. MaxTime, batch : SUBSET Rooms]

(***************************************************************************)
(* A room never comes back: closed and expired are final until the row is  *)
(* deleted, and a countdown only ends in closed, although requests update  *)
(* the row from copies that may be out of date.                            *)
(***************************************************************************)
Successors ==
    [none |-> {"active"}, active |-> {"closing", "closed", "expired", "deleted"},
     closing |-> {"closed", "deleted"}, closed |-> {"deleted"},
     expired |-> {"deleted"}, deleted |-> {}]

StatusForward ==
    [][\A r \in Rooms : room'[r].status # room[r].status
            => room'[r].status \in Successors[room[r].status]]_vars

(***************************************************************************)
(* Once a countdown has begun, nothing but the creator ends it before its  *)
(* deadline: neither another participant, nor a request that read the row  *)
(* earlier, nor the sweep.                                                 *)
(***************************************************************************)
CreatorCloses(r) ==
    \E q \in Requests : req[q].kind = "creator_close" /\ req[q].target = r /\ CloseByRoomID(q)

CountdownHonoured ==
    [][\A r \in Rooms : room[r].status = "closing" =>
            \/ room'[r] = room[r]
            \/ now >= room[r].deadline
            \/ CreatorCloses(r)]_vars

(***************************************************************************)
(* No request is let into a room after its lifetime, not even during a     *)
(* countdown, where GetByToken looks at the deadline alone.                *)
(***************************************************************************)
GrantsWithinLifetime ==
    [][\A q \in Requests : req[q].pc = "judge" /\ req'[q].pc = "granted"
            => now <= room[req[q].target].expires]_vars

(***************************************************************************)
(* Whoever asks for a room's end can rely on the answer, although the room *)
(* may have moved on since it was read and goes on moving.  After "closed" *)
(* or ErrRoomNotFound nobody is let in any more, although the row may      *)
(* still wait for somebody to correct it; after "closing" the countdown    *)
(* runs or has run.  This stays so for good, through requests that hold    *)
(* older copies, failed updates and restarts.  A database error promises   *)
(* nothing: the room may be open.                                          *)
(***************************************************************************)
Admits(r) == Exists(r) /\ Verdict(room[r]) = "granted"

CloseAnswersTrue ==
    \A q \in Requests :
        LET r == req[q].target
        IN  /\ req[q].answer \in {"closed", "not_found"} => ~Admits(r)
            /\ req[q].answer = "closing" => room[r].status \in {"closing", "closed", "deleted"}

(***************************************************************************)
(* The sweep deletes a room only when its lifetime is over, or when it is  *)
(* closed and past the retention, whatever happened between the selection  *)
(* of the batch and the deletion.                                          *)
(***************************************************************************)
OnlyFinishedRoomsDeleted ==
    [][\A r \in Rooms : Exists(r) /\ room'[r].status = "deleted" =>
            \/ room[r].expires <= now
            \/ room[r].status = "closed" /\ room[r].created + Retention <= now]_vars

(***************************************************************************)
(* A room past its lifetime is deleted and a countdown past its deadline   *)
(* ended, visited or not, however small the batch.                         *)
(***************************************************************************)
ExpiredRoomsDeleted ==
    \A r \in Rooms : (Exists(r) /\ room[r].expires <= now) ~> ~Exists(r)

CountdownsEnd ==
    \A r \in Rooms : (room[r].status = "closing" /\ room[r].deadline <= now)
                        ~> room[r].status # "closing"
=============================================================================
