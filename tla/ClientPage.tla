----------------------------- MODULE ClientPage -----------------------------
(***************************************************************************)
(* The room page in the browser, internal/app/static/site.js, against a    *)
(* room that ends: the status polls, the upload queue, the close button    *)
(* and the PIN form.                                                       *)
(*                                                                         *)
(* The page runs one callback at a time; between two callbacks anything    *)
(* else may run: answers arrive in any order, timers fire, the user comes  *)
(* back to the tab.  A request has three steps: it is sent, the server     *)
(* answers by the room as it is then, and the page takes the answer later. *)
(* Every poll that ends sets a timer for the next one; a chain of a poll   *)
(* and its timers has a number.  pollTimer knows the timer that was set    *)
(* last, and only that one can be cleared.                                 *)
(*                                                                         *)
(* The server is what the page can tell of it: the room's status.  Texts,  *)
(* lists, progress bars and the participants' names are left out.          *)
(***************************************************************************)
EXTENDS Integers, Sequences, FiniteSets

CONSTANTS MaxChains,  \* polls and poll timers there may be at once (bound)
          MaxFiles    \* files the user picks (bound)

ASSUME PageAssumption == MaxChains \in Nat \ {0} /\ MaxFiles \in Nat

Chains == 1 .. MaxChains

VARIABLES room,        \* the room's status on the server
          page,        \* whose page it is: a guest may be asked for the PIN
          isTerminated,
          shown,       \* the cards on display
          poll,        \* chain |-> its step, and whether it was sent with a session
          pollTimer,   \* the chain whose timer it is, 0 when that has fired
          session,     \* the browser has the session cookie
          pin,         \* the PIN form's request
          close,       \* the close button: the question it opens, the request
                       \* and the countdown after it
          picked,      \* history: number of files picked; they bear their numbers
          uploadQueue, \* files waiting
          isUploading,
          xhrs,        \* uploads sent and not answered
          nextTimers   \* timers that will call processNextUpload

requests == <<session, pin, close>>
uploads == <<picked, uploadQueue, isUploading, xhrs, nextTimers>>
polling == <<poll, pollTimer>>
cards == <<isTerminated, shown>>
vars == <<room, page, cards, polling, requests, uploads>>

InFlight == {"status", "open", "closing", "over", "files", "gone", "other"}

Init ==
    /\ room = "active"
    /\ page \in {"creator", "guest", "pin guest"}
    /\ isTerminated = FALSE
    /\ shown = {IF page = "pin guest" THEN "pin" ELSE "active"}
    /\ poll = [c \in Chains |-> [pc |-> IF c = 1 THEN "timer" ELSE "free",
                                 session |-> FALSE]]
    /\ pollTimer = 1
    /\ session = FALSE /\ pin = "idle" /\ close = "idle"
    /\ picked = 0 /\ uploadQueue = << >>
    /\ isUploading = FALSE /\ xhrs = {} /\ nextTimers = 0

\* clearTimeout(pollTimer): nothing, if that timer has fired.
ClearPollTimer(p) ==
    IF pollTimer = 0 THEN p ELSE [p EXCEPT ![pollTimer].pc = "free"]

\* showInactive, by a callback that leaves the polls in state p.
ShowInactive(p) ==
    /\ isTerminated' = TRUE
    /\ shown' = {"inactive"}
    /\ poll' = ClearPollTimer(p) /\ pollTimer' = 0

\* Mutant: a poll is sent without a look at isTerminated.
SendPollAlways(p, cookie) ==
    \E c \in Chains :
        /\ p[c].pc = "free" /\ \A d \in 1 .. c - 1 : p[d].pc # "free"
        /\ poll' = [p EXCEPT ![c] = [pc |-> "status", session |-> cookie]]

\* pollStatus, called by a callback that leaves the polls in state p; the
\* request is sent with the session cookie or without.
SendPoll(p, cookie) ==
    IF isTerminated THEN poll' = p
    ELSE \E c \in Chains :
            /\ p[c].pc = "free" /\ \A d \in 1 .. c - 1 : p[d].pc # "free"
            /\ poll' = [p EXCEPT ![c] = [pc |-> "status", session |-> cookie]]

-----------------------------------------------------------------------------
(***************************************************************************)
(* The server and the others in the room.                                  *)
(***************************************************************************)
RoomMovesOn ==
    /\ \/ room = "active" /\ room' \in {"closing", "over"}
       \/ room = "closing" /\ room' = "over"
    /\ UNCHANGED <<page, cards, polling, requests, uploads>>

Answer(c, answer) == poll' = [poll EXCEPT ![c].pc = answer]

AnswerPoll(c) ==
    /\ \/ poll[c].pc = "status"
          /\ Answer(c, IF room = "active" THEN "open" ELSE room)
       \/ poll[c].pc = "files"
          /\ Answer(c, IF room = "over" THEN "gone" ELSE "other")
    /\ UNCHANGED <<room, page, cards, pollTimer, requests, uploads>>

\* The close request is carried out; a participant's starts the countdown.
AnswerClose ==
    /\ close = "sent"
    /\ IF room = "over" \/ page = "creator"
       THEN room' = "over" /\ close' = "closed"
       ELSE room' = "closing" /\ close' = "closing"
    /\ UNCHANGED <<page, cards, polling, session, pin, uploads>>

\* The PIN is right, or wrong or locked out, which leaves the form as it was.
AnswerPin ==
    /\ pin = "sent"
    /\ \/ room # "over" /\ pin' = "right"
       \/ pin' = "idle"
    /\ UNCHANGED <<room, page, cards, polling, session, close, uploads>>

\* A request or its answer is lost, or answered with a server error, which
\* does not keep the page from asking for the files.
PollFails(c) ==
    /\ \/ poll[c].pc \in {"status", "files"} /\ Answer(c, "other")
       \/ poll[c].pc = "status" /\ Answer(c, "files")
    /\ UNCHANGED <<room, page, cards, pollTimer, requests, uploads>>

\* The page takes a lost close request for a success; refused, it may be sent
\* again.
CloseFails ==
    /\ close = "sent"
    /\ close' \in {"closed", "idle"}
    /\ UNCHANGED <<room, page, cards, polling, session, pin, uploads>>

-----------------------------------------------------------------------------
(***************************************************************************)
(* Polling.  A timer fires ...                                             *)
(***************************************************************************)
\* Mutant: the timer asks without a look at isTerminated.
PollTimerFiresAlways(c) ==
    /\ poll[c].pc = "timer"
    /\ poll' = [poll EXCEPT ![c] = [pc |-> "status", session |-> session]]
    /\ pollTimer' = IF pollTimer = c THEN 0 ELSE pollTimer
    /\ UNCHANGED <<room, page, cards, requests, uploads>>

PollTimerFires(c) ==
    /\ poll[c].pc = "timer"
    /\ poll' = [poll EXCEPT ![c] = IF isTerminated THEN [@ EXCEPT !.pc = "free"]
                                   ELSE [pc |-> "status", session |-> session]]
    /\ pollTimer' = IF pollTimer = c THEN 0 ELSE pollTimer
    /\ UNCHANGED <<room, page, cards, requests, uploads>>

\* ... the status arrives: the page ends, or shows the card it calls for and
\* asks for the files, whether the page has ended meanwhile or not ...
NeedsPin(c) == page = "pin guest" /\ ~poll[c].session
CardFor(c) ==
    (IF page = "creator" THEN shown
     ELSE IF NeedsPin(c) THEN (shown \ {"active"}) \union {"pin"}
     ELSE (shown \ {"pin"}) \union {"active"})
        \union (IF poll[c].pc = "closing" THEN {"closing"} ELSE {})

TakeStatus(c) ==
    /\ \/ /\ poll[c].pc = "over"
          /\ ShowInactive([poll EXCEPT ![c].pc = "free"])
       \/ /\ poll[c].pc \in {"open", "closing"}
          /\ shown' = CardFor(c)
          /\ Answer(c, "files")
          /\ UNCHANGED <<isTerminated, pollTimer>>
    /\ UNCHANGED <<room, page, requests, uploads>>

\* ... and the files: the page ends, or else, whatever the answer or error,
\* times the next poll.
TakeFiles(c) ==
    /\ \/ /\ poll[c].pc = "gone"
          /\ ShowInactive([poll EXCEPT ![c].pc = "free"])
       \/ /\ poll[c].pc = "other"
          /\ Answer(c, "timer") /\ pollTimer' = c
          /\ UNCHANGED cards
    /\ UNCHANGED <<room, page, requests, uploads>>

\* Mutant: a tab that is hidden stops its timer.
BackToTabOrAway ==
    /\ ~isTerminated
    /\ SendPoll(ClearPollTimer(poll), session) \/ poll' = ClearPollTimer(poll)
    /\ pollTimer' = 0
    /\ UNCHANGED <<room, page, cards, requests, uploads>>

\* The user comes back to the tab; a poll may be under way.
BackToTab ==
    /\ ~isTerminated
    /\ SendPoll(ClearPollTimer(poll), session)
    /\ pollTimer' = 0
    /\ UNCHANGED <<room, page, cards, requests, uploads>>

\* The page's own clock, right or wrong, reaches the room's expiry.
LifetimeOver ==
    /\ ~isTerminated
    /\ ShowInactive(poll)
    /\ UNCHANGED <<room, page, requests, uploads>>

-----------------------------------------------------------------------------
(***************************************************************************)
(* Closing the room.                                                       *)
(***************************************************************************)
\* The button, on the active card, opens a question of its own.  The closing
\* card hides a guest's button.  (An ended page that is shown again has it back
\* here, in the code only if no closing card was shown before.)
OpenConfirm ==
    /\ close = "idle" /\ "active" \in shown
    /\ page = "creator" \/ "closing" \notin shown
    /\ close' = "confirm"
    /\ UNCHANGED <<room, page, cards, polling, session, pin, uploads>>

CancelConfirm ==
    /\ close = "confirm"
    /\ close' = "idle"
    /\ UNCHANGED <<room, page, cards, polling, session, pin, uploads>>

\* The question lies outside all cards and stays open when the page ends.
PressClose ==
    /\ close = "confirm"
    /\ close' = "sent"
    /\ UNCHANGED <<room, page, cards, polling, session, pin, uploads>>

TakeClose ==
    /\ \/ /\ close = "closed"
          /\ close' = "done" /\ ShowInactive(poll)
       \/ /\ close = "closing"
          /\ close' = "counting"
          /\ shown' = shown \union {"closing"}
          /\ UNCHANGED <<isTerminated, polling>>
    /\ UNCHANGED <<room, page, session, pin, uploads>>

\* The interval started by TakeClose has counted to zero.
CountdownEnds ==
    /\ close = "counting"
    /\ close' = "done" /\ ShowInactive(poll)
    /\ UNCHANGED <<room, page, session, pin, uploads>>

-----------------------------------------------------------------------------
(***************************************************************************)
(* The PIN form.                                                           *)
(***************************************************************************)
SubmitPin ==
    /\ pin = "idle" /\ "pin" \in shown
    /\ pin' = "sent"
    /\ UNCHANGED <<room, page, cards, polling, session, close, uploads>>

TakePin ==
    /\ pin = "right"
    /\ pin' = "idle" /\ session' = TRUE
    /\ shown' = (shown \ {"pin"}) \union {"active"}
    /\ SendPoll(ClearPollTimer(poll), TRUE) /\ pollTimer' = 0
    /\ UNCHANGED <<room, page, isTerminated, close, uploads>>

-----------------------------------------------------------------------------
(***************************************************************************)
(* Uploads.                                                                *)
(***************************************************************************)
\* processNextUpload, with the queue as it has just become.
ProcessNext(queue) ==
    IF queue = << >>
    THEN isUploading' = FALSE /\ uploadQueue' = queue /\ UNCHANGED xhrs
    ELSE /\ isUploading' = TRUE
         /\ uploadQueue' = Tail(queue)
         /\ xhrs' = xhrs \union {Head(queue)}

\* Mutant: the page looks for an upload in flight, not at isUploading.
PickFileWhenIdle ==
    /\ ~isTerminated /\ picked < MaxFiles
    /\ picked' = picked + 1
    /\ IF xhrs # {}
       THEN uploadQueue' = Append(uploadQueue, picked') /\ UNCHANGED <<isUploading, xhrs>>
       ELSE ProcessNext(Append(uploadQueue, picked'))
    /\ UNCHANGED <<nextTimers, room, page, cards, polling, requests>>

\* handleFiles
PickFile ==
    /\ ~isTerminated /\ picked < MaxFiles
    /\ picked' = picked + 1
    /\ IF isUploading
       THEN uploadQueue' = Append(uploadQueue, picked') /\ UNCHANGED <<isUploading, xhrs>>
       ELSE ProcessNext(Append(uploadQueue, picked'))
    /\ UNCHANGED <<nextTimers, room, page, cards, polling, requests>>

\* onload with 201: a poll at once, the next upload after 300 ms.
UploadStored(f) ==
    /\ f \in xhrs
    /\ xhrs' = xhrs \ {f}
    /\ nextTimers' = nextTimers + 1
    /\ SendPoll(poll, session)
    /\ UNCHANGED <<picked, uploadQueue, isUploading, room, page, cards, pollTimer, requests>>

\* onload with another status, or onerror: the next upload at once.
UploadFails(f) ==
    /\ f \in xhrs
    /\ IF uploadQueue = << >>
       THEN isUploading' = FALSE /\ xhrs' = xhrs \ {f} /\ UNCHANGED uploadQueue
       ELSE /\ uploadQueue' = Tail(uploadQueue)
            /\ xhrs' = (xhrs \ {f}) \union {Head(uploadQueue)}
            /\ UNCHANGED isUploading
    /\ UNCHANGED <<picked, nextTimers, room, page, cards, polling, requests>>

NextTimerFires ==
    /\ nextTimers > 0
    /\ nextTimers' = nextTimers - 1
    /\ ProcessNext(uploadQueue)
    /\ UNCHANGED <<picked, room, page, cards, polling, requests>>

-----------------------------------------------------------------------------
Polling(c) == AnswerPoll(c) \/ PollTimerFires(c) \/ TakeStatus(c) \/ TakeFiles(c)
Closing == AnswerClose \/ TakeClose \/ CountdownEnds
Unlocking == AnswerPin \/ TakePin
Uploading == (\E f \in xhrs : UploadStored(f) \/ UploadFails(f)) \/ NextTimerFires
User == OpenConfirm \/ CancelConfirm \/ PressClose \/ SubmitPin \/ PickFile \/ BackToTab

Ordinary ==
    \/ RoomMovesOn \/ LifetimeOver \/ User
    \/ \E c \in Chains : Polling(c)
    \/ Closing \/ Unlocking \/ Uploading

NetworkFails == CloseFails \/ \E c \in Chains : PollFails(c)

Next == Ordinary \/ NetworkFails

Spec == Init /\ [][Next]_vars

(***************************************************************************)
(* The browser runs its callbacks and timers and every request is answered *)
(* or fails; polls do not fail for ever.  The user may do nothing, the     *)
(* room may stay, and the page's own clock may be wrong for ever.          *)
(***************************************************************************)
Fairness ==
    /\ \A c \in Chains : WF_vars(Polling(c))
    /\ WF_vars(Closing) /\ WF_vars(Unlocking)
    /\ WF_vars(Uploading)
    /\ <>[][Ordinary]_vars

FairSpec == Spec /\ Fairness

-----------------------------------------------------------------------------
\* The page's variables keep their types, the server's answers included.
PageTypeOK ==
    /\ room \in {"active", "closing", "over"}
    /\ page \in {"creator", "guest", "pin guest"}
    /\ isTerminated \in BOOLEAN /\ shown \subseteq {"pin", "active", "closing", "inactive"}
    /\ poll \in [Chains -> [pc : InFlight \union {"free", "timer"}, session : BOOLEAN]]
    /\ pollTimer \in {0} \union Chains
    /\ session \in BOOLEAN /\ pin \in {"idle", "sent", "right"}
    /\ close \in {"idle", "confirm", "sent", "closed", "closing", "counting", "done"}
    /\ picked \in 0 .. MaxFiles /\ uploadQueue \in Seq(1 .. MaxFiles)
    /\ isUploading \in BOOLEAN /\ xhrs \subseteq 1 .. MaxFiles /\ nextTimers \in Nat

(***************************************************************************)
(* One upload at a time, each picked file once and in the order picked,    *)
(* although files are picked while an upload runs, in the pause after one, *)
(* or when the last has just failed.                                       *)
(***************************************************************************)
UploadsInOrder ==
    /\ Cardinality(xhrs) + nextTimers = IF isUploading THEN 1 ELSE 0
    /\ ~isUploading => uploadQueue = << >>
    /\ uploadQueue = [i \in 1 .. Len(uploadQueue) |-> picked - Len(uploadQueue) + i]
    /\ \A f \in xhrs : f = picked - Len(uploadQueue)

(***************************************************************************)
(* A page that has not ended always has a poll under way or timed: neither *)
(* an error nor a cleared timer stops its polling.                         *)
(***************************************************************************)
PageNeverBlind == ~isTerminated => \E c \in Chains : poll[c].pc # "free"

(***************************************************************************)
(* No poll begins on a page that has ended, and when polls and queue have  *)
(* died out they stay so.  And once the page shows the end and nothing     *)
(* else, with no answer on its way, no countdown running and no close      *)
(* question open, it shows it for good, whatever timers fire and uploads   *)
(* end.  Each of these exceptions is one the code does not guard: a late   *)
(* answer shows the card once more, and a close question left open still   *)
(* sends its request, whose answer does the same.                          *)
(***************************************************************************)
Waiting == pin # "idle" \/ close \notin {"idle", "done"}
              \/ \E c \in Chains : poll[c].pc \in InFlight

Ended == isTerminated /\ shown = {"inactive"} /\ ~Waiting

Silent == /\ \A c \in Chains : poll[c].pc = "free"
          /\ xhrs = {} /\ nextTimers = 0 /\ uploadQueue = << >>

EndIsFinal ==
    [][/\ isTerminated => \A c \in Chains : poll'[c].pc \in InFlight => poll[c].pc \in InFlight
       /\ isTerminated /\ Silent => (isTerminated /\ Silent)'
       /\ Ended => Ended']_vars

(***************************************************************************)
(* The page of a room that is over ends, and a page that has ended, for    *)
(* whatever reason, falls silent: all its chains of polls die out, however *)
(* many the uploads and the returns to the tab have started, and the queue *)
(* drains.  EndIsFinal says that both is for good.                         *)
(***************************************************************************)
PageEnds == (room = "over" \/ isTerminated) ~> (isTerminated /\ Silent)
=============================================================================
