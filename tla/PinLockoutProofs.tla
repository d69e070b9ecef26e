-------------------------- MODULE PinLockoutProofs --------------------------
(***************************************************************************)
(* The PIN lockout and the sessions it hands out, for any number of        *)
(* requests, any threshold, any cooldowns and any length of a second.      *)
(*                                                                         *)
(* The invariant has four parts: what the row says of the failures since   *)
(* the last reset, the lock being the one the last failure left; what each *)
(* request has still to go through; who has a session; and that a room     *)
(* which turned somebody away is over.                                     *)
(***************************************************************************)
EXTENDS PinLockout, TLAPS

\* The lock in the row is the one of the last failure.
LockIsLast ==
    row.attempts >= Threshold =>
        row.locked = Text(lastWrong + Cooldown(row.attempts))

\* A request that has not been answered has no outcome, and beyond the check
\* it has the right PIN.
RequestOK(q) ==
    /\ req[q].pc # "idle" => req[q].outcome = "none"
    /\ row.pin /\ req[q].pc \in {"reread", "session"} => req[q].right

SessionOK(q) ==
    /\ row.pin /\ q \in sessions => req[q].right
    /\ req[q].outcome = "admitted" /\ row.status # "deleted" /\ now < Lifetime
          => q \in sessions

TurnedAwayOK(q) == req[q].outcome \in {"refused", "ended"} => ~Enterable

LockoutInv ==
    /\ LockoutTypeOK
    /\ AttemptsCounted
    /\ LockIsLast
    /\ \A q \in Requests : RequestOK(q) /\ SessionOK(q) /\ TurnedAwayOK(q)

-----------------------------------------------------------------------------
\* Storing a time cuts off less than a second and never goes below zero.
LEMMA TextBounds ==
    ASSUME NEW t \in Nat
    PROVE  Text(t) \in Nat /\ Text(t) <= t /\ Text(t) > t - Second
<1>1. Second \in Nat \ {0}
  BY LockoutAssumption
<1>2. t % Second \in 0 .. (Second - 1)
  BY <1>1
<1>3. t = Second * (t \div Second) + (t % Second)
  BY <1>1
<1>4. t \div Second \in Nat
  BY <1>1
<1>5. Second * (t \div Second) \in Nat
  BY <1>1, <1>4
<1> QED
  BY <1>1, <1>2, <1>3, <1>5 DEF Text

LEMMA CooldownType ==
    ASSUME NEW n \in Nat
    PROVE  Cooldown(n) \in Nat /\ (Cooldown(n) > 0 <=> n >= Threshold)
<1>1. /\ Threshold \in Nat /\ Len(Cooldowns) \in Nat \ {0}
      /\ \A i \in 1 .. Len(Cooldowns) : Cooldowns[i] \in Nat \ {0}
  BY LockoutAssumption
<1>2. CASE n < Threshold
  BY <1>1, <1>2 DEF Cooldown
<1>3. CASE n >= Threshold /\ n - Threshold < Len(Cooldowns)
  <2>1. n - Threshold + 1 \in 1 .. Len(Cooldowns)
    BY <1>1, <1>3
  <2> QED
    BY <1>1, <1>3, <2>1 DEF Cooldown
<1>4. CASE n >= Threshold /\ ~(n - Threshold < Len(Cooldowns))
  BY <1>1, <1>4 DEF Cooldown
<1> QED
  BY <1>1, <1>2, <1>3, <1>4

LEMMA LockTime ==
    ASSUME NEW n \in Nat, NEW t \in Nat
    PROVE  Text(t + Cooldown(n)) \in Nat
  BY CooldownType, TextBounds

-----------------------------------------------------------------------------
(***************************************************************************)
(* Steps of one request that leave the row alone.                          *)
(***************************************************************************)
OthersWait(q) == \A p \in Requests \ {q} : req'[p] = req[p]

ReqType == [pc : {"idle", "check", "record", "reread", "session"},
            right : BOOLEAN, attempts : 0 .. MaxAttempts,
            locked : Nat \union {NoTime}, outcome : Outcome]

LEMMA ReplyStep ==
    ASSUME LockoutTypeOK, NEW q \in Requests, NEW outcome \in Outcome, Reply(q, outcome)
    PROVE  /\ req' \in [Requests -> ReqType] /\ OthersWait(q)
           /\ req'[q].pc = "idle" /\ req'[q].outcome = outcome
           /\ req'[q].right = req[q].right
<1> DEFINE answered == [req[q] EXCEPT !.pc = "idle", !.outcome = outcome]
<1>1. req \in [Requests -> ReqType] /\ req' = [req EXCEPT ![q] = answered]
  BY DEF LockoutTypeOK, Reply, ReqType
<1>2. /\ answered \in ReqType /\ answered.right = req[q].right
      /\ answered.pc = "idle" /\ answered.outcome = outcome
  BY <1>1 DEF ReqType
<1> HIDE DEF answered
<1> QED
  BY <1>1, <1>2 DEF OthersWait

LEMMA GotoStep ==
    ASSUME LockoutTypeOK, NEW q \in Requests,
           NEW place \in {"idle", "check", "record", "reread", "session"}, Goto(q, place)
    PROVE  /\ req' \in [Requests -> ReqType] /\ OthersWait(q)
           /\ req'[q].pc = place /\ req'[q].outcome = req[q].outcome
           /\ req'[q].right = req[q].right
<1> DEFINE gone == [req[q] EXCEPT !.pc = place]
<1>1. req \in [Requests -> ReqType] /\ req' = [req EXCEPT ![q] = gone]
  BY DEF LockoutTypeOK, Goto, ReqType
<1>2. /\ gone \in ReqType /\ gone.right = req[q].right
      /\ gone.pc = place /\ gone.outcome = req[q].outcome
  BY <1>1 DEF ReqType
<1> HIDE DEF gone
<1> QED
  BY <1>1, <1>2 DEF OthersWait

LEMMA RequestMoves ==
    ASSUME LockoutInv, NEW q \in Requests, UNCHANGED <<now, row, history>>,
           req' \in [Requests -> ReqType], OthersWait(q),
           sessions' \subseteq Requests, sessions' \ {q} = sessions \ {q},
           RequestOK(q)', SessionOK(q)', TurnedAwayOK(q)'
    PROVE  LockoutInv'
<1>1. LockoutTypeOK'
  BY DEF LockoutInv, LockoutTypeOK, ReqType, history
<1>2. AttemptsCounted' /\ LockIsLast'
  BY DEF LockoutInv, AttemptsCounted, LockIsLast, history
<1>3. ASSUME NEW p \in Requests \ {q}
      PROVE  RequestOK(p)' /\ SessionOK(p)' /\ TurnedAwayOK(p)'
  <2>1. req'[p] = req[p] /\ (p \in sessions' <=> p \in sessions)
    BY DEF OthersWait
  <2> QED
    BY <2>1 DEF LockoutInv, RequestOK, SessionOK, TurnedAwayOK, Enterable
<1> QED
  BY <1>1, <1>2, <1>3 DEF LockoutInv

LEMMA QuietAttempt ==
    ASSUME LockoutInv, NEW q \in Requests,
           ReadRow(q) \/ CheckLock(q) \/ RecordFails(q) \/ RecordLocked(q)
              \/ Reread(q) \/ CreateSession(q)
    PROVE  LockoutInv'
<1>1. /\ LockoutTypeOK /\ RequestOK(q) /\ SessionOK(q) /\ TurnedAwayOK(q)
      /\ sessions \subseteq Requests
  BY DEF LockoutInv, LockoutTypeOK
<1>2. {"none", "refused", "ended", "locked", "wrong", "admitted", "error"} = Outcome
  BY DEF Outcome
\* A request that is answered without a session leaves the rest as it is.
<1>3. ASSUME NEW outcome \in {"refused", "ended", "locked", "error"}, Reply(q, outcome),
             UNCHANGED <<now, row, sessions, history>>,
             outcome \in {"refused", "ended"} => ~Enterable
      PROVE  LockoutInv'
  <2>1. /\ req' \in [Requests -> ReqType] /\ OthersWait(q)
        /\ req'[q].pc = "idle" /\ req'[q].outcome = outcome
        /\ req'[q].right = req[q].right
    BY <1>1, <1>2, <1>3, ReplyStep
  <2>2. RequestOK(q)' /\ SessionOK(q)' /\ TurnedAwayOK(q)'
    BY <1>1, <1>3, <2>1 DEF RequestOK, SessionOK, TurnedAwayOK, Enterable
  <2> QED
    BY <1>1, <1>3, <2>1, <2>2, RequestMoves
\* So does a request that goes on.
<1>4. ASSUME NEW place \in {"check", "record", "reread", "session"}, Goto(q, place),
             UNCHANGED <<now, row, sessions, history>>, req[q].pc # "idle",
             row.pin /\ place \in {"reread", "session"} => req[q].right
      PROVE  LockoutInv'
  <2>1. /\ req' \in [Requests -> ReqType] /\ OthersWait(q)
        /\ req'[q].pc = place /\ req'[q].outcome = "none"
        /\ req'[q].right = req[q].right
    BY <1>1, <1>4, GotoStep DEF RequestOK
  <2>2. RequestOK(q)' /\ SessionOK(q)' /\ TurnedAwayOK(q)'
    BY <1>1, <1>4, <2>1 DEF RequestOK, SessionOK, TurnedAwayOK
  <2> QED
    BY <1>1, <1>4, <2>1, <2>2, RequestMoves
<1>5. CASE ReadRow(q)
  <2>1. UNCHANGED <<now, row, sessions, history>> /\ q \notin sessions
    BY <1>5 DEF ReadRow
  <2>2. CASE \/ ~Enterable /\ Reply(q, "refused")
             \/ Reply(q, "error")
    BY <1>3, <2>1, <2>2
  <2>3. CASE \E right \in BOOLEAN :
               req' = [req EXCEPT ![q] = [pc |-> "check", right |-> right,
                           attempts |-> row.attempts, locked |-> row.locked,
                           outcome |-> "none"]]
    <3>1. row.attempts \in 0 .. MaxAttempts /\ row.locked \in Nat \union {NoTime}
      BY <1>1 DEF LockoutTypeOK
    <3>2. /\ req' \in [Requests -> ReqType] /\ OthersWait(q)
          /\ RequestOK(q)' /\ SessionOK(q)' /\ TurnedAwayOK(q)'
      BY <1>1, <1>2, <2>1, <2>3, <3>1
         DEF LockoutTypeOK, ReqType, OthersWait, RequestOK, SessionOK, TurnedAwayOK
    <3> QED
      BY <1>1, <2>1, <3>2, RequestMoves
  <2> QED
    BY <1>5, <2>2, <2>3 DEF ReadRow
<1>6. CASE CheckLock(q)
  <2>1. UNCHANGED <<now, row, sessions, history>> /\ req[q].pc = "check"
    BY <1>6 DEF CheckLock
  <2>2. \/ ~row.pin /\ Goto(q, "reread")
        \/ Reply(q, "locked")
        \/ Goto(q, "record")
    BY <1>6 DEF CheckLock
  <2> QED
    BY <1>3, <1>4, <2>1, <2>2
<1>7. CASE RecordFails(q)
  BY <1>3, <1>7 DEF RecordFails
<1>8. CASE RecordLocked(q)
  BY <1>3, <1>8 DEF RecordLocked
<1>9. CASE Reread(q)
  <2>1. UNCHANGED <<now, row, sessions, history>> /\ req[q].pc = "reread"
    BY <1>9 DEF Reread
  <2>2. \/ Goto(q, "session")
        \/ ~Enterable /\ Reply(q, "ended")
        \/ Reply(q, "error")
    BY <1>9 DEF Reread
  <2> QED
    BY <1>1, <1>3, <1>4, <2>1, <2>2 DEF RequestOK
<1>10. CASE CreateSession(q)
  <2>1. UNCHANGED <<now, row, history>> /\ req[q].pc = "session"
    BY <1>10 DEF CreateSession
  <2>2. CASE Reply(q, "admitted") /\ sessions' = sessions \union {q}
    <3>1. /\ req' \in [Requests -> ReqType] /\ OthersWait(q)
          /\ req'[q].pc = "idle" /\ req'[q].outcome = "admitted"
          /\ req'[q].right = req[q].right
      BY <1>1, <1>2, <2>2, ReplyStep
    <3>2. RequestOK(q)' /\ SessionOK(q)' /\ TurnedAwayOK(q)'
      BY <1>1, <2>1, <2>2, <3>1 DEF RequestOK, SessionOK, TurnedAwayOK
    <3>3. sessions' \subseteq Requests /\ sessions' \ {q} = sessions \ {q}
      BY <1>1, <2>2
    <3> QED
      BY <2>1, <3>1, <3>2, <3>3, RequestMoves
  <2>3. CASE row.status = "deleted" /\ Reply(q, "ended") /\ UNCHANGED sessions
    <3>1. ~Enterable
      BY <2>3 DEF Enterable, Open
    <3> QED
      BY <1>3, <2>1, <2>3, <3>1
  <2>4. CASE Reply(q, "error") /\ UNCHANGED sessions
    BY <1>3, <2>1, <2>4
  <2> QED
    BY <1>10, <2>2, <2>3, <2>4 DEF CreateSession
<1> QED
  BY <1>5, <1>6, <1>7, <1>8, <1>9, <1>10

-----------------------------------------------------------------------------
(***************************************************************************)
(* Steps that write the row.                                               *)
(***************************************************************************)
LEMMA RowShape ==
    ASSUME LockoutTypeOK
    PROVE  /\ row.attempts \in Nat /\ row.locked \in Nat \union {NoTime}
           /\ row.pin \in BOOLEAN /\ now \in Nat /\ lastWrong \in Nat
           /\ Threshold \in Nat /\ 0 < Threshold /\ NoTime \notin Nat
  BY LockoutAssumption DEF LockoutTypeOK, NoTime

\* Writing the two columns of the attempts.
LEMMA WriteRow ==
    ASSUME LockoutTypeOK, NEW n \in 0 .. MaxAttempts, NEW lock \in Nat \union {NoTime},
           row' = [row EXCEPT !.attempts = n, !.locked = lock]
    PROVE  /\ row'.attempts = n /\ row'.locked = lock
           /\ row'.pin = row.pin /\ row'.status = row.status
           /\ row' \in [status : Open \union {"ended", "deleted"}, pin : BOOLEAN,
                        attempts : 0 .. MaxAttempts, locked : Nat \union {NoTime}]
  BY DEF LockoutTypeOK

\* The effect of a recorded failure on the row and the history.
Failure ==
    /\ row.attempts + 1 <= MaxAttempts
    /\ row' = [row EXCEPT !.attempts = row.attempts + 1,
          !.locked = IF Cooldown(row.attempts + 1) > 0
                     THEN Text(now + Cooldown(row.attempts + 1)) ELSE NoTime]
    /\ failures' = failures + 1 /\ lastWrong' = now

\* The effect of a reset.
Reset ==
    /\ row' = [row EXCEPT !.attempts = 0, !.locked = NoTime]
    /\ failures' = 0 /\ lastWrong' = lastWrong

RowOK ==
    /\ row \in [status : Open \union {"ended", "deleted"}, pin : BOOLEAN,
                attempts : 0 .. MaxAttempts, locked : Nat \union {NoTime}]
    /\ lastWrong \in 0 .. MaxTime /\ failures \in Nat
    /\ AttemptsCounted /\ LockIsLast

LEMMA FailureKeepsRow ==
    ASSUME LockoutInv, Failure
    PROVE  RowOK' /\ row'.pin = row.pin /\ row'.status = row.status
<1> DEFINE n == row.attempts + 1
           lock == IF Cooldown(n) > 0 THEN Text(now + Cooldown(n)) ELSE NoTime
<1>1. LockoutTypeOK /\ AttemptsCounted
  BY DEF LockoutInv
<1>2. n \in Nat /\ n <= MaxAttempts /\ now \in Nat
  BY <1>1, RowShape DEF Failure
<1>3. /\ lock \in Nat \union {NoTime}
      /\ lock # NoTime <=> n >= Threshold
      /\ n >= Threshold => lock = Text(now + Cooldown(n))
  <2> HIDE DEF n
  <2> QED
    BY <1>1, <1>2, CooldownType, LockTime, RowShape
<1>4. /\ row' = [row EXCEPT !.attempts = n, !.locked = lock]
      /\ failures' = failures + 1 /\ lastWrong' = now
  BY DEF Failure
<1> HIDE DEF lock
<1>5. /\ row'.attempts = n /\ row'.locked = lock
      /\ row'.pin = row.pin /\ row'.status = row.status
      /\ row' \in [status : Open \union {"ended", "deleted"}, pin : BOOLEAN,
                   attempts : 0 .. MaxAttempts, locked : Nat \union {NoTime}]
  <2>1. n \in 0 .. MaxAttempts
    BY <1>2, LockoutAssumption
  <2> HIDE DEF n
  <2> QED
    BY <1>1, <1>3, <1>4, <2>1, WriteRow
<1>6. failures' = n /\ failures' \in Nat /\ lastWrong' \in 0 .. MaxTime
  BY <1>1, <1>2, <1>4 DEF AttemptsCounted, LockoutTypeOK
<1>7. AttemptsCounted'
  BY <1>3, <1>5, <1>6 DEF AttemptsCounted, NoTime
<1>8. LockIsLast'
  <2> SUFFICES ASSUME n >= Threshold
               PROVE  row'.locked = Text(now + Cooldown(row'.attempts))
    BY <1>4, <1>5 DEF LockIsLast, Text, Cooldown
  <2> QED
    BY <1>3, <1>5
<1> QED
  BY <1>5, <1>6, <1>7, <1>8 DEF RowOK

LEMMA ResetKeepsRow ==
    ASSUME LockoutInv, Reset
    PROVE  RowOK' /\ row'.pin = row.pin /\ row'.status = row.status
<1>1. LockoutTypeOK
  BY DEF LockoutInv
<1>2. /\ row'.attempts = 0 /\ row'.locked = NoTime
      /\ row'.pin = row.pin /\ row'.status = row.status
      /\ row' \in [status : Open \union {"ended", "deleted"}, pin : BOOLEAN,
                   attempts : 0 .. MaxAttempts, locked : Nat \union {NoTime}]
  <2>1. 0 \in 0 .. MaxAttempts
    BY LockoutAssumption
  <2> QED
    BY <1>1, <2>1, WriteRow DEF Reset
<1>3. ~(0 >= Threshold)
  BY LockoutAssumption
<1>4. AttemptsCounted' /\ LockIsLast'
  BY <1>2, <1>3 DEF Reset, AttemptsCounted, LockIsLast
<1> QED
  BY <1>1, <1>2, <1>4 DEF RowOK, Reset, LockoutTypeOK

\* A step that writes the row for everybody, and moves one request or none.
LEMMA RowStep ==
    ASSUME LockoutInv, RowOK', row'.pin = row.pin, row'.status = row.status,
           UNCHANGED <<now, sessions>>, req' \in [Requests -> ReqType],
           \A q \in Requests :
              \/ req'[q] = req[q]
              \/ /\ req'[q].right = req[q].right /\ req'[q].outcome # "admitted"
                 /\ req'[q].outcome \notin {"refused", "ended"}
                 /\ req'[q].pc # "idle" => req'[q].outcome = "none"
                 /\ req'[q].pc \in {"reread", "session"} => req'[q].right
    PROVE  LockoutInv'
<1>1. LockoutTypeOK'
  BY DEF LockoutInv, LockoutTypeOK, RowOK, ReqType
<1>2. \A q \in Requests : RequestOK(q)' /\ SessionOK(q)' /\ TurnedAwayOK(q)'
  BY DEF LockoutInv, RequestOK, SessionOK, TurnedAwayOK, Enterable
<1> QED
  BY <1>1, <1>2 DEF LockoutInv, RowOK

LEMMA RecordKeepsInv ==
    ASSUME LockoutInv, NEW q \in Requests, RecordRight(q) \/ RecordWrong(q)
    PROVE  LockoutInv'
<1>1. LockoutTypeOK /\ RequestOK(q) /\ req[q].pc = "record"
  BY DEF LockoutInv, RecordRight, RecordWrong
<1>2. CASE RecordRight(q)
  <2>1. /\ Reset \/ UNCHANGED <<row, failures, lastWrong>>
        /\ UNCHANGED <<now, sessions>> /\ Goto(q, "reread") /\ req[q].right
    BY <1>2 DEF RecordRight, Reset
  <2>2. /\ req' \in [Requests -> ReqType] /\ OthersWait(q)
        /\ req'[q].pc = "reread" /\ req'[q].outcome = "none"
        /\ req'[q].right = req[q].right
    BY <1>1, <2>1, GotoStep DEF RequestOK
  <2>3. RowOK' /\ row'.pin = row.pin /\ row'.status = row.status
    <3>1. UNCHANGED <<row, failures, lastWrong>> => RowOK'
      BY DEF LockoutInv, LockoutTypeOK, RowOK, AttemptsCounted, LockIsLast
    <3> QED
      BY <2>1, <3>1, ResetKeepsRow
  <2> QED
    BY <2>1, <2>2, <2>3, RowStep DEF OthersWait
<1>3. CASE RecordWrong(q)
  <2> DEFINE outcome == IF Cooldown(row.attempts + 1) > 0 THEN "locked" ELSE "wrong"
  <2>1. Failure /\ UNCHANGED <<now, sessions>> /\ Reply(q, outcome)
    BY <1>3 DEF RecordWrong, Failure
  <2>2. outcome \in {"locked", "wrong"}
    OBVIOUS
  <2> HIDE DEF outcome
  <2>3. /\ req' \in [Requests -> ReqType] /\ OthersWait(q)
        /\ req'[q].pc = "idle" /\ req'[q].outcome = outcome
        /\ req'[q].right = req[q].right
    BY <1>1, <2>1, <2>2, ReplyStep DEF Outcome
  <2> QED
    BY <2>1, <2>2, <2>3, FailureKeepsRow, RowStep DEF OthersWait
<1> QED
  BY <1>2, <1>3

-----------------------------------------------------------------------------
(***************************************************************************)
(* Steps of the world around the requests.                                 *)
(***************************************************************************)
LEMMA WorldKeepsInv ==
    ASSUME LockoutInv,
           Tick \/ UnlockRoom \/ SweepSessions \/ RoomMovesOn \/ DeleteRoom \/ Crash
    PROVE  LockoutInv'
<1>1. LockoutTypeOK /\ now \in Nat /\ row.locked \in Nat \union {NoTime}
      /\ \A q \in Requests : RequestOK(q) /\ SessionOK(q) /\ TurnedAwayOK(q)
  BY RowShape DEF LockoutInv
<1>2. CASE Tick
  <2>1. /\ now' = now + 1 /\ now < MaxTime
        /\ UNCHANGED <<row, req, sessions, failures, lastWrong>>
    BY <1>2 DEF Tick, history
  <2>2. LockoutTypeOK'
    BY <1>1, <2>1, LockoutAssumption DEF LockoutTypeOK
  <2>3. \A q \in Requests : RequestOK(q)' /\ SessionOK(q)' /\ TurnedAwayOK(q)'
    BY <1>1, <2>1, LockoutAssumption DEF RequestOK, SessionOK, TurnedAwayOK, Enterable
  <2> QED
    BY <2>1, <2>2, <2>3 DEF LockoutInv, AttemptsCounted, LockIsLast
<1>3. CASE UnlockRoom
  <2>1. Reset /\ UNCHANGED <<now, req, sessions>>
    BY <1>3 DEF UnlockRoom, Reset
  <2> QED
    BY <1>1, <2>1, ResetKeepsRow, RowStep DEF LockoutTypeOK, ReqType
<1>4. CASE SweepSessions
  <2>1. Lifetime <= Text(now) /\ sessions' = {}
        /\ UNCHANGED <<now, row, req, failures, lastWrong>>
    BY <1>4 DEF SweepSessions, history
  <2>2. ~(now < Lifetime)
    BY <1>1, <2>1, TextBounds, LockoutAssumption
  <2> QED
    BY <1>1, <2>1, <2>2
       DEF LockoutInv, LockoutTypeOK, AttemptsCounted, LockIsLast, RequestOK, SessionOK,
           TurnedAwayOK, Enterable
<1>5. CASE RoomMovesOn \/ DeleteRoom
  <2> DEFINE RowType == [status : Open \union {"ended", "deleted"}, pin : BOOLEAN,
                         attempts : 0 .. MaxAttempts, locked : Nat \union {NoTime}]
  <2>1. ASSUME NEW status \in Open \union {"ended", "deleted"},
               row' = [row EXCEPT !.status = status]
        PROVE  /\ row'.attempts = row.attempts /\ row'.locked = row.locked
               /\ row'.pin = row.pin /\ row'.status = status /\ row' \in RowType
    BY <1>1, <2>1 DEF LockoutTypeOK
  <2>2. UNCHANGED <<now, req, failures, lastWrong>>
    BY <1>5 DEF RoomMovesOn, DeleteRoom, history
  <2>3. /\ row'.attempts = row.attempts /\ row'.locked = row.locked
        /\ row'.pin = row.pin /\ row' \in RowType
        /\ row.status = "deleted" => row'.status = "deleted"
        /\ row'.status \in Open => row.status \in Open
        /\ sessions' = sessions \/ (sessions' = {} /\ row'.status = "deleted")
    <3>1. CASE row.status = "active" /\ row' = [row EXCEPT !.status = "closing"]
               /\ sessions' = sessions
      <4>1. "closing" \in Open \union {"ended", "deleted"}
        BY DEF Open
      <4>2. row.status # "deleted" /\ row.status \in Open
        BY <3>1 DEF Open
      <4> QED
        BY <2>1, <3>1, <4>1, <4>2
    <3>2. CASE row.status \in Open /\ row' = [row EXCEPT !.status = "ended"]
               /\ sessions' = sessions
      <4>1. row.status # "deleted"
        BY <3>2 DEF Open
      <4> QED
        BY <2>1, <3>2, <4>1
    <3>3. CASE row' = [row EXCEPT !.status = "deleted"] /\ sessions' = {}
      BY <2>1, <3>3 DEF Open
    <3> QED
      BY <1>5, <3>1, <3>2, <3>3 DEF RoomMovesOn, DeleteRoom
  <2>4. \A q \in Requests : RequestOK(q)' /\ SessionOK(q)' /\ TurnedAwayOK(q)'
    BY <1>1, <2>2, <2>3 DEF RequestOK, SessionOK, TurnedAwayOK, Enterable, LockoutTypeOK
  <2>5. LockoutTypeOK'
    BY <1>1, <2>2, <2>3 DEF LockoutTypeOK
  <2> QED
    BY <2>2, <2>3, <2>4, <2>5 DEF LockoutInv, AttemptsCounted, LockIsLast
<1>6. CASE Crash
  <2>1. UNCHANGED <<now, row, sessions, failures, lastWrong>>
    BY <1>6 DEF Crash, history
  <2>2. ASSUME NEW q \in Requests
        PROVE  /\ req'[q] \in ReqType /\ req'[q].pc = "idle"
               /\ req'[q].outcome = req[q].outcome
               /\ req'[q].right = req[q].right
    <3>1. req[q] \in ReqType
      BY <1>1 DEF LockoutTypeOK, ReqType
    <3>2. req'[q] = [req[q] EXCEPT !.pc = "idle"]
      BY <1>6 DEF Crash
    <3> QED
      BY <3>1, <3>2 DEF ReqType
  <2>3. req' \in [Requests -> ReqType]
    BY <1>6, <2>2 DEF Crash
  <2>4. LockoutTypeOK'
    BY <1>1, <2>1, <2>3 DEF LockoutTypeOK, ReqType
  <2>5. \A q \in Requests : RequestOK(q)' /\ SessionOK(q)' /\ TurnedAwayOK(q)'
    BY <1>1, <2>1, <2>2 DEF RequestOK, SessionOK, TurnedAwayOK, Enterable
  <2> QED
    BY <2>1, <2>4, <2>5 DEF LockoutInv, AttemptsCounted, LockIsLast
<1> QED
  BY <1>2, <1>3, <1>4, <1>5, <1>6

LEMMA InitEstablishes == Init => LockoutInv
<1> SUFFICES ASSUME Init PROVE LockoutInv
  OBVIOUS
<1>1. LockoutTypeOK
  BY LockoutAssumption DEF Init, LockoutTypeOK, Open, Outcome
<1>2. row.attempts = 0 /\ row.locked = NoTime /\ failures = 0
  BY DEF Init
<1>3. ~(0 >= Threshold)
  BY LockoutAssumption
<1>4. \A q \in Requests : RequestOK(q) /\ SessionOK(q) /\ TurnedAwayOK(q)
  BY DEF Init, RequestOK, SessionOK, TurnedAwayOK
<1> QED
  BY <1>1, <1>2, <1>3, <1>4 DEF LockoutInv, AttemptsCounted, LockIsLast

LEMMA NextKeepsInv ==
    ASSUME LockoutInv, [Next]_vars
    PROVE  LockoutInv'
<1>1. CASE UNCHANGED vars
  BY <1>1 DEF vars, history, LockoutInv, LockoutTypeOK, AttemptsCounted, LockIsLast,
              RequestOK, SessionOK, TurnedAwayOK, Enterable
<1>2. ASSUME NEW q \in Requests, Attempt(q)
      PROVE  LockoutInv'
  BY <1>2, QuietAttempt, RecordKeepsInv DEF Attempt
<1> QED
  BY <1>1, <1>2, WorldKeepsInv DEF Next

\* The row, the requests and the sessions fit together in every reachable
\* state (room.go:272-431, app.go:605-715).
THEOREM LockoutInvariant == Spec => []LockoutInv
  BY InitEstablishes, NextKeepsInv, PTL DEF Spec

\* Row and requests keep their types.
THEOREM LockoutTypeCorrect == Spec => []LockoutTypeOK
<1>1. LockoutInv => LockoutTypeOK
  BY DEF LockoutInv
<1> QED
  BY <1>1, LockoutInvariant, PTL

\* Every failed attempt since the last reset is counted once, and the lock is
\* there exactly from the threshold on (room.go:315-359).
THEOREM AttemptsAlwaysCounted == Spec => []AttemptsCounted
<1>1. LockoutInv => AttemptsCounted
  BY DEF LockoutInv
<1> QED
  BY <1>1, LockoutInvariant, PTL

\* A session is there after the right PIN only, and one that a browser was told
\* of stays as long as its room and the room's lifetime, through restarts
\* (room.go:384-431, cleanup.go:170-179).
THEOREM SessionsAlwaysEarnedAndKept == Spec => []SessionsEarnedAndKept
<1>1. LockoutInv => SessionsEarnedAndKept
  <2> SUFFICES ASSUME LockoutInv, NEW q \in Requests
               PROVE  /\ row.pin /\ IsParticipantAuthenticated(q) => req[q].right
                      /\ req[q].outcome = "admitted" /\ row.status # "deleted"
                         /\ now < Lifetime => IsParticipantAuthenticated(q)
    BY DEF SessionsEarnedAndKept
  <2>1. SessionOK(q) /\ now \in Nat /\ row.pin \in BOOLEAN
    BY RowShape DEF LockoutInv
  <2>2. now < Lifetime => Lifetime > Text(now)
    BY <2>1, TextBounds, LockoutAssumption
  <2> QED
    BY <2>1, <2>2 DEF SessionOK, IsParticipantAuthenticated, ValidateSession
<1> QED
  BY <1>1, LockoutInvariant, PTL

-----------------------------------------------------------------------------
\* The steps that change the row's attempts or its lock.
LEMMA WhoWrites ==
    ASSUME LockoutInv, [Next]_vars
    PROVE  \/ row'.attempts = row.attempts /\ row'.locked = row.locked
           \/ UnlockRoom
           \/ ~LockedAt(row.locked) /\ row'.attempts = 0
           \/ ~LockedAt(row.locked) /\ Failure
<1>1. LockoutTypeOK
  BY DEF LockoutInv
<1>2. ASSUME NEW q \in Requests, RecordRight(q)
      PROVE  row' = row \/ (~LockedAt(row.locked) /\ row'.attempts = 0)
  BY <1>1, <1>2 DEF RecordRight, LockoutTypeOK
<1>3. ASSUME NEW q \in Requests, RecordWrong(q)
      PROVE  ~LockedAt(row.locked) /\ Failure
  BY <1>3 DEF RecordWrong, Failure
<1>4. CASE RoomMovesOn \/ DeleteRoom
  BY <1>1, <1>4 DEF RoomMovesOn, DeleteRoom, LockoutTypeOK
<1>5. CASE Tick \/ SweepSessions \/ Crash \/ UNCHANGED vars
  BY <1>5 DEF Tick, SweepSessions, Crash, vars
<1>6. ASSUME NEW q \in Requests,
             ReadRow(q) \/ CheckLock(q) \/ RecordFails(q) \/ RecordLocked(q)
                \/ Reread(q) \/ CreateSession(q)
      PROVE  row' = row
  BY <1>6 DEF ReadRow, CheckLock, RecordFails, RecordLocked, Reread, CreateSession
<1> QED
  BY <1>2, <1>3, <1>4, <1>5, <1>6 DEF Next, Attempt

\* While the lock is in effect nothing is recorded, whatever the requests read
\* before it: the transaction looks again (room.go:296-313).
THEOREM LockAlwaysHolds == Spec => LockHolds
<1>1. LockoutInv /\ [Next]_vars
        => (LockedAt(row.locked) =>
              \/ row'.attempts = row.attempts /\ row'.locked = row.locked
              \/ UnlockRoom)
  BY WhoWrites
<1> QED
  BY <1>1, LockoutInvariant, PTL DEF Spec, LockHolds

\* Two failures in a row from the threshold on lie the whole cooldown apart,
\* but for the cut to whole seconds (pin.go:91-105, room.go:323-340).
THEOREM FailuresAlwaysSpaced == Spec => FailuresSpaced
<1>1. LockoutInv /\ [Next]_vars
        => (row'.attempts = row.attempts + 1 /\ row.attempts >= Threshold
              => now > lastWrong + Cooldown(row.attempts) - Second)
  <2> SUFFICES ASSUME LockoutInv, [Next]_vars,
                      row'.attempts = row.attempts + 1, row.attempts >= Threshold
               PROVE  now > lastWrong + Cooldown(row.attempts) - Second
    OBVIOUS
  <2> DEFINE until == lastWrong + Cooldown(row.attempts)
  <2>1. /\ row.attempts \in Nat /\ now \in Nat /\ lastWrong \in Nat
        /\ Threshold \in Nat /\ NoTime \notin Nat
    BY RowShape DEF LockoutInv
  <2>2. until \in Nat
    BY <2>1, CooldownType
  <2>3. row.locked = Text(until)
    BY DEF LockoutInv, LockIsLast
  <2>4. Text(until) \in Nat /\ Text(until) > until - Second
    <3> HIDE DEF until
    <3> QED
      BY <2>2, TextBounds
  <2>5. ~LockedAt(row.locked)
    <3>1. row'.attempts # row.attempts /\ row'.attempts # 0
      BY <2>1
    <3>2. ~UnlockRoom
      <4>1. UnlockRoom => row'.attempts = 0
        BY DEF UnlockRoom, LockoutInv, LockoutTypeOK
      <4> QED
        BY <3>1, <4>1
    <3> QED
      BY <3>1, <3>2, WhoWrites
  <2>6. ~(now < row.locked)
    BY <2>1, <2>3, <2>4, <2>5 DEF LockedAt
  <2>7. now > until - Second
    <3> HIDE DEF until
    <3>1. Second \in Nat
      BY LockoutAssumption
    <3> QED
      BY <2>1, <2>2, <2>3, <2>4, <2>6, <3>1
  <2>8. Cooldown(row.attempts) \in Nat /\ Second \in Nat
    BY <2>1, CooldownType, LockoutAssumption
  <2> QED
    BY <2>1, <2>7, <2>8
<1> QED
  BY <1>1, LockoutInvariant, PTL DEF Spec, FailuresSpaced

\* A request whose PIN was accepted is turned away only by a failure of its own
\* or from a room that is over for good (app.go:677-688, room.go:384-408).
THEOREM AcceptedPinAlwaysAdmits == Spec => AcceptedPinAdmits
<1>1. LockoutInv /\ LockoutInv' /\ [Next]_vars
        => (\A q \in Requests :
              /\ req[q].pc \in {"reread", "session"}
                    => req'[q].outcome \in {"none", "admitted", "ended", "error"}
              /\ req'[q].outcome \in {"refused", "ended"} => ~Enterable')
  <2> SUFFICES ASSUME LockoutInv, LockoutInv', [Next]_vars, NEW q \in Requests
               PROVE  /\ req[q].pc \in {"reread", "session"}
                            => req'[q].outcome \in {"none", "admitted", "ended", "error"}
                      /\ req'[q].outcome \in {"refused", "ended"} => ~Enterable'
    OBVIOUS
  <2>1. req'[q].outcome \in {"refused", "ended"} => ~Enterable'
    BY DEF LockoutInv, TurnedAwayOK
  <2>2. ASSUME req[q].pc \in {"reread", "session"}
        PROVE  req'[q].outcome \in {"none", "admitted", "ended", "error"}
    <3>1. LockoutTypeOK /\ req[q].outcome = "none" /\ req[q] \in ReqType
      BY <2>2 DEF LockoutInv, LockoutTypeOK, RequestOK, ReqType
    <3>2. CASE req'[q] = req[q]
      BY <3>1, <3>2
    <3>3. ASSUME NEW p \in Requests \ {q}, Attempt(p)
          PROVE  req'[q] = req[q]
      BY <3>1, <3>3
         DEF Attempt, ReadRow, CheckLock, RecordFails, RecordLocked, RecordRight,
             RecordWrong, Reread, CreateSession, Goto, Reply, LockoutTypeOK
    <3>4. CASE Attempt(q)
      <4>1. \/ Goto(q, "session")
            \/ Reply(q, "admitted") \/ Reply(q, "ended") \/ Reply(q, "error")
        BY <2>2, <3>4
           DEF Attempt, ReadRow, CheckLock, RecordFails, RecordLocked, RecordRight,
               RecordWrong, Reread, CreateSession
      <4> QED
        BY <3>1, <4>1, GotoStep, ReplyStep DEF Outcome
    <3>5. CASE Crash
      BY <3>1, <3>5 DEF Crash, ReqType
    <3>6. CASE Tick \/ UnlockRoom \/ SweepSessions \/ RoomMovesOn \/ DeleteRoom
                 \/ UNCHANGED vars
      BY <3>2, <3>6 DEF Tick, UnlockRoom, SweepSessions, RoomMovesOn, DeleteRoom, vars
    <3> QED
      BY <3>2, <3>3, <3>4, <3>5, <3>6 DEF Next
  <2> QED
    BY <2>1, <2>2
<1> QED
  BY <1>1, LockoutInvariant, PTL DEF Spec, AcceptedPinAdmits
=============================================================================
