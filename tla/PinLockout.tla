----------------------------- MODULE PinLockout -----------------------------
(***************************************************************************)
(* PIN attempts on one room and the sessions they earn:                    *)
(* VerifyAndRecordPINAttempt, UnlockRoom, CreateSession and                *)
(* ValidateSession of internal/room/room.go under the handlers of          *)
(* internal/app/app.go, and the session sweep of the cleanup worker.       *)
(*                                                                         *)
(* A request reads the row, looks for a lock in the copy it read, derives  *)
(* the key of the PIN it was given (slow), records the attempt in one      *)
(* transaction that looks for a lock again, and if the PIN was right reads *)
(* the row once more and stores a session.  Each of its statements can     *)
(* fail.  Other requests, the creator's unlock, the end of the room and a  *)
(* crash come in between.                                                  *)
(*                                                                         *)
(* Time is counted in ticks; a stored time is cut to whole seconds.  How   *)
(* a room is closed is module RoomLifecycle's business: here it just       *)
(* happens.                                                                *)
(***************************************************************************)
EXTENDS Integers, Sequences

CONSTANTS Requests,     \* handler goroutines
          Threshold,    \* failed attempts that lead to a lock, 5 in the code
          Cooldowns,    \* lock times from Threshold on, the last one repeats
          Second,       \* ticks in a second
          Lifetime,     \* the room's expiry and that of its sessions
          MaxAttempts,  \* failed attempts in a run (bound)
          MaxTime       \* the clock stops here (bound)

ASSUME LockoutAssumption ==
    /\ Threshold \in Nat \ {0}
    /\ Cooldowns \in Seq(Nat \ {0}) /\ Cooldowns # << >>
    /\ Second \in Nat \ {0} /\ Lifetime \in Nat /\ MaxAttempts \in Nat /\ MaxTime \in Nat

VARIABLES now,
          row,       \* the room's row: status, pin, attempts, locked
          req,       \* request |-> step, whether its PIN is right, attempts
                     \* and lock it saw, what its browser was answered
          sessions,  \* requests with a row in room_sessions
          failures,  \* history: failed attempts since the last reset
          lastWrong  \* history: time of the last failed attempt

vars == <<now, row, req, sessions, failures, lastWrong>>
history == <<failures, lastWrong>>

NoTime == -1
Text(t) == t - (t % Second)

Open == {"active", "closing"}

\* What GetByToken admits; a countdown ends with the lifetime at the latest.
Enterable == row.status \in Open /\ now <= Lifetime

\* "refused" and "ended" turn a request away because the room has ended, before
\* its PIN was looked at and after it was accepted; "error" is a failure of one
\* of the request's own statements.  The browser sees a 500 for the last two.
Outcome == {"none", "refused", "ended", "locked", "wrong", "admitted", "error"}

Init ==
    /\ now = 0
    /\ row \in [status : {"active"}, pin : BOOLEAN, attempts : {0}, locked : {NoTime}]
    /\ req = [q \in Requests |-> [pc |-> "idle", right |-> FALSE,
                                  attempts |-> 0, locked |-> NoTime, outcome |-> "none"]]
    /\ sessions = {}
    /\ failures = 0
    /\ lastWrong = 0

Goto(q, pc) == req' = [req EXCEPT ![q].pc = pc]
Reply(q, outcome) == req' = [req EXCEPT ![q].pc = "idle", ![q].outcome = outcome]

Tick == now < MaxTime /\ now' = now + 1 /\ UNCHANGED <<row, req, sessions, history>>

\* CalculateLockoutDuration
Cooldown(n) ==
    IF n < Threshold THEN 0
    ELSE IF n - Threshold < Len(Cooldowns) THEN Cooldowns[n - Threshold + 1]
    ELSE Cooldowns[Len(Cooldowns)]

LockedAt(locked) == locked # NoTime /\ now < locked

-----------------------------------------------------------------------------
\* GetByToken; the request carries a right or a wrong PIN.  Who has a session
\* does not ask for another (bound).
ReadRow(q) ==
    /\ req[q].pc = "idle" /\ q \notin sessions
    /\ row.status # "deleted"
    /\ \/ /\ Enterable
          /\ \E right \in BOOLEAN :
                req' = [req EXCEPT ![q] = [pc |-> "check", right |-> right,
                            attempts |-> row.attempts, locked |-> row.locked,
                            outcome |-> "none"]]
       \/ ~Enterable /\ Reply(q, "refused")
       \/ Reply(q, "error")
    /\ UNCHANGED <<now, row, sessions, history>>

\* A room without a PIN lets everybody in; a lock in the copy refuses at once.
CheckLock(q) ==
    /\ req[q].pc = "check"
    /\ \/ ~row.pin /\ Goto(q, "reread")
       \/ row.pin /\ LockedAt(req[q].locked) /\ Reply(q, "locked")
       \/ row.pin /\ ~LockedAt(req[q].locked) /\ Goto(q, "record")
    /\ UNCHANGED <<now, row, sessions, history>>

(***************************************************************************)
(* The transaction, by the row as it is now.  A statement that fails, or a *)
(* row that is gone, rolls it back.  One error is ignored: the reset after *)
(* a right PIN may not be written, and the PIN is accepted all the same.   *)
(***************************************************************************)
RecordFails(q) ==
    /\ req[q].pc = "record"
    /\ Reply(q, "error")
    /\ UNCHANGED <<now, row, sessions, history>>

RecordLocked(q) ==
    /\ req[q].pc = "record" /\ row.status # "deleted"
    /\ LockedAt(row.locked)
    /\ Reply(q, "locked")
    /\ UNCHANGED <<now, row, sessions, history>>

RecordRight(q) ==
    /\ req[q].pc = "record" /\ row.status # "deleted"
    /\ ~LockedAt(row.locked)
    /\ req[q].right
    /\ \/ row' = [row EXCEPT !.attempts = 0, !.locked = NoTime] /\ failures' = 0
       \/ UNCHANGED <<row, failures>>
    /\ Goto(q, "reread")
    /\ UNCHANGED <<now, sessions, lastWrong>>

\* Mutant: the transaction relies on the lock that was read before it.
RecordWrongUnchecked(q) ==
    LET n == row.attempts + 1
    IN  /\ req[q].pc = "record" /\ row.status # "deleted"
        /\ ~req[q].right /\ n <= MaxAttempts
        /\ row' = [row EXCEPT !.attempts = n,
              !.locked = IF Cooldown(n) > 0 THEN Text(now + Cooldown(n)) ELSE NoTime]
        /\ failures' = failures + 1 /\ lastWrong' = now
        /\ Reply(q, IF Cooldown(n) > 0 THEN "locked" ELSE "wrong")
        /\ UNCHANGED <<now, sessions>>

\* Mutant: the count is the one read before the transaction.
RecordWrongStaleCount(q) ==
    LET n == req[q].attempts + 1
    IN  /\ req[q].pc = "record" /\ row.status # "deleted"
        /\ ~LockedAt(row.locked)
        /\ ~req[q].right /\ n <= MaxAttempts
        /\ row' = [row EXCEPT !.attempts = n,
              !.locked = IF Cooldown(n) > 0 THEN Text(now + Cooldown(n)) ELSE NoTime]
        /\ failures' = failures + 1 /\ lastWrong' = now
        /\ Reply(q, IF Cooldown(n) > 0 THEN "locked" ELSE "wrong")
        /\ UNCHANGED <<now, sessions>>

\* Mutant: only the attempt that reaches the threshold locks.
RecordWrongLocksOnce(q) ==
    LET n == row.attempts + 1
    IN  /\ req[q].pc = "record" /\ row.status # "deleted"
        /\ ~LockedAt(row.locked)
        /\ ~req[q].right /\ n <= MaxAttempts
        /\ row' = [row EXCEPT !.attempts = n,
              !.locked = IF n = Threshold THEN Text(now + Cooldown(n)) ELSE NoTime]
        /\ failures' = failures + 1 /\ lastWrong' = now
        /\ Reply(q, IF Cooldown(n) > 0 THEN "locked" ELSE "wrong")
        /\ UNCHANGED <<now, sessions>>

RecordWrong(q) ==
    LET n == row.attempts + 1
    IN  /\ req[q].pc = "record" /\ row.status # "deleted"
        /\ ~LockedAt(row.locked)
        /\ ~req[q].right /\ n <= MaxAttempts
        /\ row' = [row EXCEPT !.attempts = n,
              !.locked = IF Cooldown(n) > 0 THEN Text(now + Cooldown(n)) ELSE NoTime]
        /\ failures' = failures + 1 /\ lastWrong' = now
        /\ Reply(q, IF Cooldown(n) > 0 THEN "locked" ELSE "wrong")
        /\ UNCHANGED <<now, sessions>>

\* Mutant: the second look admits to active rooms only.
RereadActiveOnly(q) ==
    /\ req[q].pc = "reread"
    /\ \/ row.status = "active" /\ Goto(q, "session")
       \/ row.status # "active" /\ Reply(q, "ended")
       \/ Reply(q, "error")
    /\ UNCHANGED <<now, row, sessions, history>>

\* The handler reads the row again: the room may have ended meanwhile, and the
\* read may fail.
Reread(q) ==
    /\ req[q].pc = "reread"
    /\ \/ Enterable /\ Goto(q, "session")
       \/ ~Enterable /\ Reply(q, "ended")
       \/ Reply(q, "error")
    /\ UNCHANGED <<now, row, sessions, history>>

\* The session's foreign key refuses a room that has been deleted; the random
\* source or the insert may fail in any room.
CreateSession(q) ==
    /\ req[q].pc = "session"
    /\ \/ row.status # "deleted" /\ Reply(q, "admitted") /\ sessions' = sessions \union {q}
       \/ row.status = "deleted" /\ Reply(q, "ended") /\ UNCHANGED sessions
       \/ Reply(q, "error") /\ UNCHANGED sessions
    /\ UNCHANGED <<now, row, history>>

ValidateSession(q) == q \in sessions /\ Lifetime > Text(now)

\* For the browser that q's cookie went to.
IsParticipantAuthenticated(q) == ~row.pin \/ ValidateSession(q)

\* The creator's reset, one guarded update.
UnlockRoom ==
    /\ row.status = "active"
    /\ row' = [row EXCEPT !.attempts = 0, !.locked = NoTime]
    /\ failures' = 0
    /\ UNCHANGED <<now, req, sessions, lastWrong>>

\* The cleanup worker's sweep of expired sessions.
SweepSessions ==
    /\ Lifetime <= Text(now)
    /\ sessions' = {}
    /\ UNCHANGED <<now, row, req, history>>

RoomMovesOn ==
    /\ \/ row.status = "active" /\ row' = [row EXCEPT !.status = "closing"]
       \/ row.status \in Open /\ row' = [row EXCEPT !.status = "ended"]
    /\ UNCHANGED <<now, req, sessions, history>>

\* The cleanup worker deletes the room, its sessions go by cascade.
DeleteRoom ==
    /\ \/ row.status = "ended"
       \/ row.status \in Open /\ Lifetime <= Text(now)
    /\ row' = [row EXCEPT !.status = "deleted"]
    /\ sessions' = {}
    /\ UNCHANGED <<now, req, history>>

\* Mutant: sessions live in the process only.
CrashForgetsSessions ==
    /\ req' = [q \in Requests |-> [req[q] EXCEPT !.pc = "idle"]]
    /\ sessions' = {}
    /\ UNCHANGED <<now, row, history>>

\* The process dies: requests are cut off unanswered; the tables stay, and so
\* does what browsers were answered before.
Crash ==
    /\ req' = [q \in Requests |-> [req[q] EXCEPT !.pc = "idle"]]
    /\ UNCHANGED <<now, row, sessions, history>>

Attempt(q) ==
    \/ ReadRow(q) \/ CheckLock(q)
    \/ RecordFails(q) \/ RecordLocked(q) \/ RecordRight(q) \/ RecordWrong(q)
    \/ Reread(q) \/ CreateSession(q)

Next == Tick \/ (\E q \in Requests : Attempt(q)) \/ UnlockRoom
           \/ SweepSessions \/ RoomMovesOn \/ DeleteRoom \/ Crash

Spec == Init /\ [][Next]_vars

-----------------------------------------------------------------------------
\* Row and requests keep their types.
LockoutTypeOK ==
    /\ now \in 0 .. MaxTime /\ lastWrong \in 0 .. MaxTime
    /\ row \in [status : Open \union {"ended", "deleted"}, pin : BOOLEAN,
                attempts : 0 .. MaxAttempts, locked : Nat \union {NoTime}]
    /\ req \in [Requests -> [pc : {"idle", "check", "record", "reread", "session"},
                             right : BOOLEAN, attempts : 0 .. MaxAttempts,
                             locked : Nat \union {NoTime}, outcome : Outcome]]
    /\ sessions \subseteq Requests
    /\ failures \in Nat

(***************************************************************************)
(* The row counts every failed attempt since the last reset exactly once,  *)
(* whichever requests overlapped, and carries a lock exactly when the      *)
(* count has reached the threshold.                                        *)
(***************************************************************************)
AttemptsCounted ==
    /\ row.attempts = failures
    /\ row.locked # NoTime <=> row.attempts >= Threshold

(***************************************************************************)
(* While a lock is in effect nothing is recorded, neither a failure nor a  *)
(* right PIN, although the request may have read the row before the lock;  *)
(* only the creator lifts it.                                              *)
(***************************************************************************)
LockHolds ==
    [][LockedAt(row.locked) =>
            \/ row'.attempts = row.attempts /\ row'.locked = row.locked
            \/ UnlockRoom]_vars

(***************************************************************************)
(* Between two failures of a series that has reached the threshold lies    *)
(* the whole cooldown but for the fraction of a second that storing cuts   *)
(* off.                                                                    *)
(***************************************************************************)
FailuresSpaced ==
    [][row'.attempts = row.attempts + 1 /\ row.attempts >= Threshold
            => now > lastWrong + Cooldown(row.attempts) - Second]_vars

(***************************************************************************)
(* A request whose PIN was accepted gets its session; neither a lock that  *)
(* others caused nor a countdown that began meanwhile costs it that.  It   *)
(* is turned away for the room's sake only from a room that lets nobody in *)
(* any more, then and for good, and otherwise only when a statement of its *)
(* own fails.  A room refused at the first look is over for good, too.     *)
(***************************************************************************)
AcceptedPinAdmits ==
    [][\A q \in Requests :
          /\ req[q].pc \in {"reread", "session"}
                => req'[q].outcome \in {"none", "admitted", "ended", "error"}
          /\ req'[q].outcome \in {"refused", "ended"} => ~Enterable']_vars

(***************************************************************************)
(* In a room with a PIN the browser of a request is let in only after the  *)
(* right PIN.  Once it was told that it is in, it stays in while the room  *)
(* is there and its lifetime lasts, through other people's failures and    *)
(* locks, the creator's reset, the countdown, the sweep and restarts of    *)
(* the process.                                                            *)
(***************************************************************************)
SessionsEarnedAndKept ==
    \A q \in Requests :
        /\ row.pin /\ IsParticipantAuthenticated(q) => req[q].right
        /\ req[q].outcome = "admitted" /\ row.status # "deleted" /\ now < Lifetime
              => IsParticipantAuthenticated(q)
=============================================================================
