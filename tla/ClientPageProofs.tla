-------------------------- MODULE ClientPageProofs --------------------------
(***************************************************************************)
(* The safety of the room page for any number of chains of polls and any   *)
(* number of files.                                                        *)
(*                                                                         *)
(* Polls and uploads hardly touch: a step either leaves the chains of      *)
(* polls alone, or changes one of them (PollStep), or starts one           *)
(* (SendPoll), perhaps after it cleared the timer, or ends the page        *)
(* (ShowInactive).  Likewise for the upload queue.                         *)
(***************************************************************************)
EXTENDS ClientPage, FiniteSetTheorems, SequenceTheorems, TLAPS

PollType == [pc : InFlight \union {"free", "timer"}, session : BOOLEAN]

\* pollTimer is a timer that is still to fire: clearTimeout clears a timer and
\* never a poll under way.
TimerKnown == pollTimer # 0 => poll[pollTimer].pc = "timer"

\* One upload, or the pause before the next, or nothing to do; the files in the
\* queue are the ones picked last.
QueueInv ==
    /\ \/ xhrs = {} /\ nextTimers = 0 /\ ~isUploading
       \/ xhrs = {} /\ nextTimers = 1 /\ isUploading
       \/ /\ xhrs = {picked - Len(uploadQueue)} /\ nextTimers = 0 /\ isUploading
    /\ ~isUploading => uploadQueue = << >>
    /\ \A i \in 1 .. Len(uploadQueue) : uploadQueue[i] = picked - Len(uploadQueue) + i

PollInv == TimerKnown /\ PageNeverBlind

PollsTyped ==
    /\ isTerminated \in BOOLEAN
    /\ poll \in [Chains -> PollType]
    /\ pollTimer \in {0} \union Chains

UploadsTyped ==
    /\ picked \in 0 .. MaxFiles /\ uploadQueue \in Seq(1 .. MaxFiles)
    /\ isUploading \in BOOLEAN /\ xhrs \subseteq 1 .. MaxFiles /\ nextTimers \in Nat

RequestsTyped ==
    /\ room \in {"active", "closing", "over"}
    /\ page \in {"creator", "guest", "pin guest"}
    /\ shown \subseteq {"pin", "active", "closing", "inactive"}
    /\ session \in BOOLEAN /\ pin \in {"idle", "sent", "right"}
    /\ close \in {"idle", "confirm", "sent", "closed", "closing", "counting", "done"}

LEMMA TypeParts == PageTypeOK <=> PollsTyped /\ UploadsTyped /\ RequestsTyped
  BY DEF PageTypeOK, PollsTyped, UploadsTyped, RequestsTyped, PollType

-----------------------------------------------------------------------------
(***************************************************************************)
(* The chains of polls.                                                    *)
(***************************************************************************)
\* The polls after the timer, if there is one, has been cleared.
LEMMA ClearedTyped ==
    ASSUME PollsTyped, NEW p \in [Chains -> PollType]
    PROVE  ClearPollTimer(p) \in [Chains -> PollType]
  BY DEF PollsTyped, PollType, ClearPollTimer

LEMMA ShowInactiveKeeps ==
    ASSUME PollsTyped, NEW p \in [Chains -> PollType], ShowInactive(p)
    PROVE  PollsTyped' /\ PollInv'
<1>1. poll' \in [Chains -> PollType]
  BY ClearedTyped DEF ShowInactive
<1> QED
  BY <1>1 DEF ShowInactive, PollsTyped, PollInv, TimerKnown, PageNeverBlind

\* A poll that is sent takes a chain that was free.
LEMMA SendPollStarts ==
    ASSUME NEW p \in [Chains -> PollType], NEW cookie \in BOOLEAN, SendPoll(p, cookie)
    PROVE  /\ poll' \in [Chains -> PollType]
           /\ isTerminated => poll' = p
           /\ ~isTerminated => \E c \in Chains : poll'[c].pc = "status"
           /\ \A c \in Chains : p[c].pc # "free" => poll'[c] = p[c]
<1>1. CASE isTerminated
  BY <1>1 DEF SendPoll
<1>2. CASE ~isTerminated
  <2>1. PICK c \in Chains :
            /\ p[c].pc = "free"
            /\ poll' = [p EXCEPT ![c] = [pc |-> "status", session |-> cookie]]
    BY <1>2 DEF SendPoll
  <2>2. [pc |-> "status", session |-> cookie] \in PollType
    BY DEF PollType, InFlight
  <2> QED
    BY <1>2, <2>1, <2>2
<1> QED
  BY <1>1, <1>2

\* What a callback leaves that clears the timer and sends a poll.
LEMMA RestartKeeps ==
    ASSUME PollsTyped, NEW cookie \in BOOLEAN,
           SendPoll(ClearPollTimer(poll), cookie), pollTimer' = 0, UNCHANGED isTerminated
    PROVE  PollsTyped' /\ PollInv'
<1>1. ClearPollTimer(poll) \in [Chains -> PollType]
  BY ClearedTyped DEF PollsTyped
<1>2. /\ poll' \in [Chains -> PollType]
      /\ ~isTerminated => \E c \in Chains : poll'[c].pc = "status"
  BY <1>1, SendPollStarts
<1> QED
  BY <1>2 DEF PollsTyped, PollInv, TimerKnown, PageNeverBlind

\* A chain that is under way or timed goes on to another step.
LEMMA AdvanceKeeps ==
    ASSUME PollsTyped, PollInv, NEW c \in Chains, NEW rest \in PollType,
           poll[c].pc # "free", poll' = [poll EXCEPT ![c] = rest],
           rest.pc # "free" \/ isTerminated,
           \/ pollTimer' = pollTimer /\ poll[c].pc # "timer"
           \/ pollTimer' = c /\ rest.pc = "timer"
           \/ pollTimer' = (IF pollTimer = c THEN 0 ELSE pollTimer),
           UNCHANGED isTerminated
    PROVE  PollsTyped' /\ PollInv'
<1>1. PollsTyped'
  BY DEF PollsTyped
<1>2. poll'[c] = rest /\ \A d \in Chains \ {c} : poll'[d] = poll[d]
  BY DEF PollsTyped
<1>3. TimerKnown'
  BY <1>2 DEF PollsTyped, PollInv, TimerKnown
<1>4. PageNeverBlind'
  BY <1>2 DEF PageNeverBlind
<1> QED
  BY <1>1, <1>3, <1>4 DEF PollInv

LEMMA AnswerKeeps ==
    ASSUME PollsTyped, PollInv, NEW c \in Chains, NEW answer \in InFlight \union {"timer"},
           poll[c].pc \in InFlight, Answer(c, answer), UNCHANGED isTerminated,
           \/ pollTimer' = pollTimer
           \/ pollTimer' = c /\ answer = "timer"
    PROVE  PollsTyped' /\ PollInv'
<1> DEFINE rest == [poll[c] EXCEPT !.pc = answer]
<1>1. rest \in PollType /\ rest.pc = answer /\ answer # "free"
  BY DEF PollsTyped, PollType, InFlight
<1>2. poll' = [poll EXCEPT ![c] = rest] /\ poll[c].pc \notin {"free", "timer"}
  BY DEF Answer, InFlight
<1> HIDE DEF rest
<1> QED
  BY <1>1, <1>2, AdvanceKeeps

LEMMA PollFreed ==
    ASSUME PollsTyped, NEW c \in Chains
    PROVE  [poll EXCEPT ![c].pc = "free"] \in [Chains -> PollType]
  BY DEF PollsTyped, PollType

LEMMA PollStepKeeps ==
    ASSUME PollsTyped, PollInv, session \in BOOLEAN, room \in {"active", "closing", "over"},
           NEW c \in Chains, Polling(c) \/ PollFails(c)
    PROVE  PollsTyped' /\ PollInv'
<1>1. CASE AnswerPoll(c)
  <2>1. UNCHANGED <<isTerminated, pollTimer>>
    BY <1>1 DEF AnswerPoll, cards
  <2>2. PICK answer \in {"open", "closing", "over", "gone", "other"} :
            poll[c].pc \in {"status", "files"} /\ Answer(c, answer)
    BY <1>1 DEF AnswerPoll
  <2> QED
    BY <2>1, <2>2, AnswerKeeps DEF InFlight
<1>2. CASE PollFails(c)
  <2>1. UNCHANGED <<isTerminated, pollTimer>>
    BY <1>2 DEF PollFails, cards
  <2>2. PICK answer \in {"other", "files"} :
            poll[c].pc \in {"status", "files"} /\ Answer(c, answer)
    BY <1>2 DEF PollFails
  <2> QED
    BY <2>1, <2>2, AnswerKeeps DEF InFlight
<1>3. CASE PollTimerFires(c)
  <2> DEFINE rest == IF isTerminated THEN [poll[c] EXCEPT !.pc = "free"]
                     ELSE [pc |-> "status", session |-> session]
  <2>1. /\ poll[c].pc = "timer" /\ poll' = [poll EXCEPT ![c] = rest]
        /\ pollTimer' = (IF pollTimer = c THEN 0 ELSE pollTimer)
        /\ UNCHANGED isTerminated
    BY <1>3 DEF PollTimerFires, cards
  <2>2. rest \in PollType /\ (rest.pc # "free" \/ isTerminated)
    BY DEF PollsTyped, PollType, InFlight
  <2> HIDE DEF rest
  <2> QED
    BY <2>1, <2>2, AdvanceKeeps
<1>4. CASE TakeStatus(c)
  <2>1. CASE ShowInactive([poll EXCEPT ![c].pc = "free"])
    BY <2>1, PollFreed, ShowInactiveKeeps
  <2>2. CASE /\ poll[c].pc \in {"open", "closing"} /\ Answer(c, "files")
             /\ UNCHANGED <<isTerminated, pollTimer>>
    BY <2>2, AnswerKeeps DEF InFlight
  <2> QED
    BY <1>4, <2>1, <2>2 DEF TakeStatus
<1>5. CASE TakeFiles(c)
  <2>1. CASE ShowInactive([poll EXCEPT ![c].pc = "free"])
    BY <2>1, PollFreed, ShowInactiveKeeps
  <2>2. CASE /\ poll[c].pc = "other" /\ Answer(c, "timer")
             /\ pollTimer' = c /\ UNCHANGED cards
    BY <2>2, AnswerKeeps DEF InFlight, cards
  <2> QED
    BY <1>5, <2>1, <2>2 DEF TakeFiles
<1> QED
  BY <1>1, <1>2, <1>3, <1>4, <1>5 DEF Polling

\* The steps that leave the chains alone, start one, or end the page.
LEMMA OtherStepKeepsPolls ==
    ASSUME PollsTyped, PollInv, session \in BOOLEAN,
           RoomMovesOn \/ LifetimeOver \/ User \/ Closing \/ Unlocking \/ Uploading
              \/ CloseFails \/ UNCHANGED vars
    PROVE  PollsTyped' /\ PollInv'
<1>1. CASE UNCHANGED <<isTerminated, polling>>
  BY <1>1 DEF PollsTyped, PollInv, TimerKnown, PageNeverBlind, polling
<1>2. CASE \E p \in {poll} : ShowInactive(p)
  BY <1>2, ShowInactiveKeeps DEF PollsTyped
<1>3. CASE \E cookie \in BOOLEAN : SendPoll(ClearPollTimer(poll), cookie)
           /\ pollTimer' = 0 /\ UNCHANGED isTerminated
  BY <1>3, RestartKeeps
<1>4. CASE SendPoll(poll, session) /\ UNCHANGED <<isTerminated, pollTimer>>
  <2>1. /\ poll' \in [Chains -> PollType]
        /\ isTerminated => poll' = poll
        /\ ~isTerminated => \E c \in Chains : poll'[c].pc = "status"
        /\ \A c \in Chains : poll[c].pc # "free" => poll'[c] = poll[c]
    BY <1>4, SendPollStarts DEF PollsTyped
  <2> QED
    BY <1>4, <2>1 DEF PollsTyped, PollInv, TimerKnown, PageNeverBlind
<1>5. CASE RoomMovesOn \/ OpenConfirm \/ CancelConfirm \/ PressClose \/ SubmitPin \/ PickFile \/ AnswerClose \/ AnswerPin
           \/ CloseFails \/ NextTimerFires \/ \E f \in xhrs : UploadFails(f)
  BY <1>1, <1>5 DEF RoomMovesOn, OpenConfirm, CancelConfirm, PressClose, SubmitPin, PickFile, AnswerClose, AnswerPin,
                    CloseFails, NextTimerFires, UploadFails, cards
<1>6. CASE LifetimeOver \/ TakeClose \/ CountdownEnds
  BY <1>1, <1>2, <1>6 DEF LifetimeOver, TakeClose, CountdownEnds
<1>7. CASE BackToTab \/ TakePin
  BY <1>3, <1>7 DEF BackToTab, TakePin, cards
<1>8. CASE \E f \in xhrs : UploadStored(f)
  BY <1>4, <1>8 DEF UploadStored, cards
<1>9. CASE UNCHANGED vars
  BY <1>1, <1>9 DEF vars, cards
<1> QED
  BY <1>5, <1>6, <1>7, <1>8, <1>9 DEF User, Closing, Unlocking, Uploading
-----------------------------------------------------------------------------
(***************************************************************************)
(* The upload queue.                                                       *)
(***************************************************************************)
\* A queue is the function of its places.
LEMMA QueueItself ==
    ASSUME NEW S, NEW q \in Seq(S)
    PROVE  q = [i \in 1 .. Len(q) |-> q[i]]
<1>1. q \in [1 .. Len(q) -> S]
  BY LenProperties
<1> QED
  BY <1>1, Zenon

\* One more file at the end of the queue keeps the numbers in order.
LEMMA AppendOrdered ==
    ASSUME NEW n \in Nat, NEW q \in Seq(Nat),
           \A i \in 1 .. Len(q) : q[i] = n - Len(q) + i
    PROVE  /\ Append(q, n + 1) \in Seq(Nat) /\ Len(Append(q, n + 1)) = Len(q) + 1
           /\ Append(q, n + 1) # << >>
           /\ \A i \in 1 .. Len(q) + 1 :
                 Append(q, n + 1)[i] = n + 1 - Len(Append(q, n + 1)) + i
<1>1. /\ Append(q, n + 1) \in Seq(Nat) /\ Len(Append(q, n + 1)) = Len(q) + 1
      /\ Append(q, n + 1)[Len(q) + 1] = n + 1
      /\ \A i \in 1 .. Len(q) : Append(q, n + 1)[i] = q[i]
      /\ Len(q) \in Nat
  OBVIOUS
<1> DEFINE longer == Append(q, n + 1)
<1>2. longer \in Seq(Nat) /\ Len(longer) = Len(q) + 1
  BY <1>1
<1>3. longer # << >>
  OBVIOUS
<1>4. ASSUME NEW i \in 1 .. Len(q) + 1
      PROVE  longer[i] = n + 1 - Len(longer) + i
  <2>1. CASE i = Len(q) + 1
    BY <1>1, <2>1
  <2>2. CASE i \in 1 .. Len(q)
    BY <1>1, <2>2
  <2> QED
    BY <1>1, <2>1, <2>2
<1> QED
  BY <1>2, <1>3, <1>4

\* Taking the first file off the queue does so, too.
LEMMA TailOrdered ==
    ASSUME NEW n \in Nat, NEW q \in Seq(Nat), q # << >>,
           \A i \in 1 .. Len(q) : q[i] = n - Len(q) + i
    PROVE  /\ Tail(q) \in Seq(Nat) /\ Len(Tail(q)) = Len(q) - 1 /\ Len(q) \in Nat \ {0}
           /\ Head(q) = n - Len(Tail(q))
           /\ \A i \in 1 .. Len(Tail(q)) : Tail(q)[i] = n - Len(Tail(q)) + i
<1>1. /\ Tail(q) \in Seq(Nat) /\ Len(Tail(q)) = Len(q) - 1
      /\ Len(q) \in Nat \ {0} /\ Head(q) = q[1]
      /\ \A i \in 1 .. Len(q) - 1 : Tail(q)[i] = q[i + 1]
  OBVIOUS
<1> QED
  BY <1>1

\* The numbers of the files say it all, so a queue of naturals in order is one
\* of files.
LEMMA OrderedTyped ==
    ASSUME PageAssumption, NEW n \in 0 .. MaxFiles, NEW q \in Seq(Nat), Len(q) <= n,
           \A i \in 1 .. Len(q) : q[i] = n - Len(q) + i
    PROVE  q \in Seq(1 .. MaxFiles)
<1>1. Len(q) \in Nat /\ MaxFiles \in Nat /\ n \in Nat /\ n <= MaxFiles
  BY DEF PageAssumption
<1>2. \A i \in 1 .. Len(q) : q[i] \in 1 .. MaxFiles
  BY <1>1
<1>3. q = [i \in 1 .. Len(q) |-> q[i]]
  BY QueueItself
<1> DEFINE File == 1 .. MaxFiles
<1>4. \A i \in 1 .. Len(q) : q[i] \in File
  BY <1>2
<1> HIDE DEF File
<1>5. [i \in 1 .. Len(q) |-> q[i]] \in Seq(File)
  BY <1>1, <1>4
<1> QED
  BY <1>3, <1>5 DEF File

\* The numbers in the queue are those of files picked.
UploadInv == UploadsTyped /\ QueueInv /\ Len(uploadQueue) <= picked

LEMMA UploadFacts ==
    ASSUME PageAssumption, UploadInv
    PROVE  /\ picked \in Nat /\ MaxFiles \in Nat /\ picked <= MaxFiles
           /\ uploadQueue \in Seq(Nat) /\ Len(uploadQueue) \in Nat
           /\ Len(uploadQueue) <= picked
           /\ \A i \in 1 .. Len(uploadQueue) : uploadQueue[i] = picked - Len(uploadQueue) + i
<1>1. uploadQueue \in Seq(Nat)
  <2> DEFINE File == 1 .. MaxFiles
  <2>1. uploadQueue \in Seq(File) /\ File \subseteq Nat
    BY DEF UploadInv, UploadsTyped, PageAssumption
  <2> HIDE DEF File
  <2> QED
    BY <2>1, SeqMonotonic, Zenon
<1> QED
  BY <1>1 DEF PageAssumption, UploadInv, UploadsTyped, QueueInv

\* The end of an upload or of the pause after one: the next file, or none.
LEMMA NextFile ==
    ASSUME PageAssumption, NEW n \in 0 .. MaxFiles, NEW q \in Seq(Nat), Len(q) <= n,
           \A i \in 1 .. Len(q) : q[i] = n - Len(q) + i,
           picked' = n, nextTimers' = 0,
           \/ q = << >> /\ isUploading' = FALSE /\ uploadQueue' = q /\ xhrs' = {}
           \/ /\ q # << >> /\ isUploading' = TRUE /\ uploadQueue' = Tail(q)
              /\ xhrs' = {Head(q)}
    PROVE  UploadInv'
<1>1. MaxFiles \in Nat /\ n \in Nat /\ n <= MaxFiles /\ Len(q) \in Nat
  BY DEF PageAssumption
<1>2. CASE q = << >>
  <2>1. uploadQueue' = << >> /\ << >> \in Seq(1 .. MaxFiles) /\ Len(<< >>) = 0
    BY <1>2, EmptySeq, Zenon
  <2> QED
    BY <1>1, <1>2, <2>1 DEF UploadInv, UploadsTyped, QueueInv
<1>3. CASE q # << >>
  <2>1. /\ Tail(q) \in Seq(Nat) /\ Len(Tail(q)) = Len(q) - 1 /\ Len(q) \in Nat \ {0}
        /\ Head(q) = n - Len(Tail(q))
        /\ \A i \in 1 .. Len(Tail(q)) : Tail(q)[i] = n - Len(Tail(q)) + i
    BY <1>1, <1>3, TailOrdered
  <2> DEFINE rest == Tail(q)
  <2> HIDE DEF rest
  <2>2. /\ rest \in Seq(Nat) /\ Len(rest) \in Nat /\ Len(rest) < n
        /\ \A i \in 1 .. Len(rest) : rest[i] = n - Len(rest) + i
        /\ Head(q) = n - Len(rest) /\ Head(q) \in 1 .. MaxFiles
    BY <1>1, <2>1 DEF rest
  <2>3. rest \in Seq(1 .. MaxFiles)
    <3>1. Len(rest) <= n
      BY <1>1, <2>2
    <3> QED
      BY <2>2, <3>1, OrderedTyped, Zenon
  <2>4. /\ uploadQueue' = rest /\ xhrs' = {Head(q)} /\ isUploading' = TRUE
        /\ picked' = n /\ nextTimers' = 0
    BY <1>3 DEF rest
  <2> QED
    BY <1>1, <2>2, <2>3, <2>4 DEF UploadInv, UploadsTyped, QueueInv
<1> QED
  BY <1>2, <1>3

LEMMA PickFileKeeps ==
    ASSUME PageAssumption, UploadInv, PickFile
    PROVE  UploadInv'
<1>1. /\ picked \in Nat /\ MaxFiles \in Nat /\ picked <= MaxFiles
      /\ uploadQueue \in Seq(Nat) /\ Len(uploadQueue) \in Nat
      /\ Len(uploadQueue) <= picked
      /\ \A i \in 1 .. Len(uploadQueue) : uploadQueue[i] = picked - Len(uploadQueue) + i
  BY UploadFacts
<1>2. /\ picked' = picked + 1 /\ picked' \in 0 .. MaxFiles /\ UNCHANGED nextTimers
      /\ IF isUploading
         THEN uploadQueue' = Append(uploadQueue, picked') /\ UNCHANGED <<isUploading, xhrs>>
         ELSE ProcessNext(Append(uploadQueue, picked'))
  BY <1>1 DEF PickFile
<1> DEFINE longer == Append(uploadQueue, picked + 1)
<1>3. /\ longer \in Seq(Nat) /\ Len(longer) = Len(uploadQueue) + 1 /\ longer # << >>
      /\ \A i \in 1 .. Len(uploadQueue) + 1 : longer[i] = picked + 1 - Len(longer) + i
  BY <1>1, AppendOrdered
<1> HIDE DEF longer
<1>4. /\ Len(longer) <= picked' /\ Len(longer) \in Nat /\ Append(uploadQueue, picked') = longer
      /\ \A i \in 1 .. Len(longer) : longer[i] = picked' - Len(longer) + i
  BY <1>1, <1>2, <1>3 DEF longer
<1>5. CASE isUploading
  <2>1. longer \in Seq(1 .. MaxFiles)
    BY <1>2, <1>3, <1>4, OrderedTyped
  <2>2. uploadQueue' = longer /\ UNCHANGED <<isUploading, xhrs, nextTimers>>
    BY <1>2, <1>4, <1>5
  <2>3. picked' - Len(longer) = picked - Len(uploadQueue)
    BY <1>1, <1>2, <1>3
  <2> QED
    BY <1>2, <1>4, <1>5, <2>1, <2>2, <2>3 DEF UploadInv, UploadsTyped, QueueInv
<1>6. CASE ~isUploading
  <2>1. xhrs = {} /\ nextTimers = 0
    BY <1>6 DEF UploadInv, QueueInv
  <2>2. /\ isUploading' = TRUE /\ uploadQueue' = Tail(longer)
        /\ xhrs' = {Head(longer)}
    BY <1>2, <1>3, <1>4, <1>6, <2>1 DEF ProcessNext
  <2> QED
    BY <1>2, <1>3, <1>4, <2>1, <2>2, NextFile
<1> QED
  BY <1>5, <1>6

LEMMA UploadingKeeps ==
    ASSUME PageAssumption, UploadInv, Uploading
    PROVE  UploadInv'
<1>1. /\ picked \in Nat /\ picked \in 0 .. MaxFiles
      /\ uploadQueue \in Seq(Nat) /\ Len(uploadQueue) \in Nat
      /\ Len(uploadQueue) <= picked
      /\ \A i \in 1 .. Len(uploadQueue) : uploadQueue[i] = picked - Len(uploadQueue) + i
  BY UploadFacts
<1>2. ASSUME NEW f \in xhrs
      PROVE  xhrs = {f} /\ nextTimers = 0 /\ isUploading = TRUE
  BY <1>2 DEF UploadInv, QueueInv, UploadsTyped
<1>3. ASSUME NEW f \in xhrs, UploadStored(f)
      PROVE  UploadInv'
  <2>1. /\ xhrs' = xhrs \ {f} /\ nextTimers' = nextTimers + 1
        /\ UNCHANGED <<picked, uploadQueue, isUploading>>
    BY <1>3 DEF UploadStored
  <2>2. xhrs' = {} /\ nextTimers' = 1
    <3>1. xhrs = {f} /\ nextTimers = 0
      BY <1>2
    <3>2. {f} \ {f} = {}
      OBVIOUS
    <3> QED
      BY <2>1, <3>1, <3>2
  <2> QED
    BY <1>2, <2>1, <2>2 DEF UploadInv, UploadsTyped, QueueInv
<1>4. ASSUME NEW f \in xhrs, UploadFails(f)
      PROVE  UploadInv'
  <2>1. /\ picked' = picked /\ nextTimers' = 0
        /\ \/ uploadQueue = << >> /\ isUploading' = FALSE /\ uploadQueue' = uploadQueue
              /\ xhrs' = {}
           \/ /\ uploadQueue # << >> /\ isUploading' = TRUE
              /\ uploadQueue' = Tail(uploadQueue) /\ xhrs' = {Head(uploadQueue)}
    BY <1>2, <1>4 DEF UploadFails
  <2> QED
    BY <1>1, <2>1, NextFile
<1>5. CASE NextTimerFires
  <2>1. xhrs = {} /\ nextTimers = 1
    BY <1>5 DEF NextTimerFires, UploadInv, QueueInv
  <2>2. /\ picked' = picked /\ nextTimers' = 0
        /\ \/ uploadQueue = << >> /\ isUploading' = FALSE /\ uploadQueue' = uploadQueue
              /\ xhrs' = {}
           \/ /\ uploadQueue # << >> /\ isUploading' = TRUE
              /\ uploadQueue' = Tail(uploadQueue) /\ xhrs' = {Head(uploadQueue)}
    BY <1>5, <2>1 DEF NextTimerFires, ProcessNext
  <2> QED
    BY <1>1, <2>2, NextFile
<1> QED
  BY <1>3, <1>4, <1>5 DEF Uploading

\* All other steps leave the queue alone.
LEMMA OtherStepKeepsUploads ==
    ASSUME UploadInv,
           \/ RoomMovesOn \/ LifetimeOver \/ OpenConfirm \/ CancelConfirm \/ PressClose \/ SubmitPin \/ BackToTab
           \/ Closing \/ Unlocking \/ CloseFails \/ UNCHANGED vars
           \/ \E c \in Chains : Polling(c) \/ PollFails(c)
    PROVE  UploadInv'
<1>1. UNCHANGED uploads
  BY DEF RoomMovesOn, LifetimeOver, OpenConfirm, CancelConfirm, PressClose, SubmitPin, BackToTab, Closing, Unlocking,
         CloseFails, vars, Polling, PollFails, AnswerPoll, PollTimerFires, TakeStatus,
         TakeFiles, AnswerClose, TakeClose, CountdownEnds, AnswerPin, TakePin
<1> QED
  BY <1>1 DEF uploads, UploadInv, UploadsTyped, QueueInv

-----------------------------------------------------------------------------
(***************************************************************************)
(* The rest of the page.                                                   *)
(***************************************************************************)
LEMMA RequestsStayTyped ==
    ASSUME PollsTyped, RequestsTyped, [Next]_vars
    PROVE  RequestsTyped'
<1> DEFINE others == <<room, page, shown, session>>
<1>1. ASSUME UNCHANGED <<others, pin, close>>
      PROVE  RequestsTyped'
  BY <1>1 DEF RequestsTyped
<1>2. ASSUME NEW c \in Chains, Polling(c) \/ PollFails(c)
      PROVE  RequestsTyped'
  <2>1. CASE TakeStatus(c)
    <3>1. shown' \subseteq {"pin", "active", "closing", "inactive"}
      BY <2>1 DEF TakeStatus, ShowInactive, RequestsTyped, CardFor
    <3>2. UNCHANGED <<room, page, session, pin, close>>
      BY <2>1 DEF TakeStatus, requests
    <3> QED
      BY <3>1, <3>2 DEF RequestsTyped
  <2>2. CASE TakeFiles(c)
    <3>1. UNCHANGED <<room, page, session, pin, close>> /\ shown' \in {shown, {"inactive"}}
      BY <2>2 DEF TakeFiles, ShowInactive, requests, cards
    <3> QED
      BY <3>1 DEF RequestsTyped
  <2>3. AnswerPoll(c) \/ PollTimerFires(c) \/ PollFails(c) => UNCHANGED <<others, pin, close>>
    BY DEF AnswerPoll, PollTimerFires, PollFails, requests, cards
  <2> QED
    BY <1>1, <1>2, <2>1, <2>2, <2>3 DEF Polling
<1>3. CASE RoomMovesOn \/ LifetimeOver
  <2>1. UNCHANGED <<page, session, pin, close>> /\ shown' \in {shown, {"inactive"}}
        /\ room' \in {room, "closing", "over"}
    BY <1>3 DEF RoomMovesOn, LifetimeOver, ShowInactive, requests, cards
  <2> QED
    BY <2>1 DEF RequestsTyped
<1>4. CASE Closing \/ CloseFails
  <2>1. /\ UNCHANGED <<page, session, pin>> /\ room' \in {room, "closing", "over"}
        /\ shown' \in {shown, shown \union {"closing"}, {"inactive"}}
        /\ close' \in {"idle", "closed", "closing", "counting", "done"}
    BY <1>4 DEF Closing, CloseFails, AnswerClose, TakeClose, CountdownEnds, ShowInactive, cards
  <2> QED
    BY <2>1 DEF RequestsTyped
<1>5. CASE Unlocking
  <2>1. /\ UNCHANGED <<room, page, close>> /\ session' \in {session, TRUE}
        /\ pin' \in {"idle", "right"}
        /\ shown' \in {shown, (shown \ {"pin"}) \union {"active"}}
    BY <1>5 DEF Unlocking, AnswerPin, TakePin, cards
  <2> QED
    BY <2>1 DEF RequestsTyped
<1>6. CASE User
  <2>1. UNCHANGED others /\ pin' \in {pin, "sent"} /\ close' \in {close, "confirm", "idle", "sent"}
    BY <1>6 DEF User, OpenConfirm, CancelConfirm, PressClose, SubmitPin, PickFile, BackToTab,
                requests, cards
  <2> QED
    BY <2>1 DEF RequestsTyped
<1>7. Uploading \/ UNCHANGED vars => UNCHANGED <<others, pin, close>>
  BY DEF Uploading, UploadStored, UploadFails, NextTimerFires, vars, requests, cards
<1> QED
  BY <1>1, <1>2, <1>3, <1>4, <1>5, <1>6, <1>7 DEF Next, Ordinary, NetworkFails

-----------------------------------------------------------------------------
PageIInv == PollsTyped /\ RequestsTyped /\ PollInv /\ UploadInv

(***************************************************************************)
(* The page keeps polling until it ends, knows its timer, and uploads one  *)
(* file at a time in order (site.js:653-1145), in every reachable state.   *)
(***************************************************************************)
THEOREM PageInvariant == Spec => []PageIInv
<1> USE PageAssumption
<1>1. Init => PageIInv
  <2> SUFFICES ASSUME Init PROVE PageIInv
    OBVIOUS
  <2>1. 1 \in Chains /\ MaxFiles \in Nat
    BY DEF PageAssumption, Chains
  <2>2. PollsTyped /\ poll[1].pc = "timer" /\ pollTimer = 1
    BY <2>1 DEF Init, PollsTyped, PollType
  <2>3. PollInv
    BY <2>1, <2>2 DEF PollInv, TimerKnown, PageNeverBlind
  <2>4. RequestsTyped
    BY DEF Init, RequestsTyped
  <2>5. uploadQueue = << >> /\ << >> \in Seq(1 .. MaxFiles) /\ Len(<< >>) = 0
    BY EmptySeq, Zenon DEF Init
  <2>6. UploadsTyped
    <3>1. /\ picked = 0 /\ isUploading = FALSE /\ xhrs = {} /\ nextTimers = 0
      BY DEF Init
    <3>2. 0 \in 0 .. MaxFiles /\ 0 \in Nat
      BY <2>1
    <3> QED
      BY <2>5, <3>1, <3>2, Zenon DEF UploadsTyped
  <2>7. QueueInv /\ Len(uploadQueue) <= picked
    <3>1. Len(uploadQueue) = 0 /\ picked = 0
      BY <2>5 DEF Init
    <3>2. \A i \in 1 .. Len(uploadQueue) : uploadQueue[i] = picked - Len(uploadQueue) + i
      BY <3>1
    <3>3. QueueInv
      BY <3>2, Zenon DEF Init, QueueInv
    <3> QED
      BY <3>1, <3>3
  <2> QED
    BY <2>2, <2>3, <2>4, <2>6, <2>7 DEF PageIInv, UploadInv
<1>2. PageIInv /\ [Next]_vars => PageIInv'
  <2> SUFFICES ASSUME PageIInv, [Next]_vars PROVE PageIInv'
    OBVIOUS
  <2>1. PollsTyped' /\ PollInv'
    <3>1. session \in BOOLEAN /\ room \in {"active", "closing", "over"}
      BY DEF PageIInv, RequestsTyped
    <3> QED
      BY <3>1, PollStepKeeps, OtherStepKeepsPolls DEF PageIInv, Next, Ordinary, NetworkFails
  <2>2. RequestsTyped'
    BY RequestsStayTyped DEF PageIInv
  <2>3. UploadInv'
    BY PickFileKeeps, UploadingKeeps, OtherStepKeepsUploads
       DEF PageIInv, Next, Ordinary, NetworkFails, User
  <2> QED
    BY <2>1, <2>2, <2>3 DEF PageIInv
<1> QED
  BY <1>1, <1>2, PTL DEF Spec

\* The page's variables keep their types, and pollTimer never names a poll that
\* is under way: clearTimeout (site.js:655, 1052) clears timers only.
THEOREM PageTypeCorrect == Spec => [](PageTypeOK /\ TimerKnown)
<1>1. PageIInv => PageTypeOK /\ TimerKnown
  BY TypeParts DEF PageIInv, PollInv, UploadInv
<1> QED
  BY <1>1, PageInvariant, PTL

\* One upload at a time, in the order in which files were picked
\* (site.js:1072-1145), for any number of files.
THEOREM UploadsAlwaysInOrder == Spec => []UploadsInOrder
<1>1. PageIInv => UploadsInOrder
  <2> SUFFICES ASSUME PageIInv PROVE UploadsInOrder
    OBVIOUS
  <2>1. /\ picked \in Nat /\ uploadQueue \in Seq(Nat)
        /\ \A i \in 1 .. Len(uploadQueue) : uploadQueue[i] = picked - Len(uploadQueue) + i
    BY PageAssumption, UploadFacts DEF PageIInv
  <2>2. uploadQueue = [i \in 1 .. Len(uploadQueue) |-> uploadQueue[i]]
    BY <2>1, QueueItself
  <2>3. uploadQueue = [i \in 1 .. Len(uploadQueue) |-> picked - Len(uploadQueue) + i]
    BY <2>1, <2>2
  <2>4. QueueInv
    BY DEF PageIInv, UploadInv
  <2>5. Cardinality({}) = 0 /\ Cardinality({picked - Len(uploadQueue)}) = 1
    BY FS_EmptySet, FS_Singleton
  <2>6. /\ \A f \in xhrs : f = picked - Len(uploadQueue)
        /\ \/ Cardinality(xhrs) = 0 /\ nextTimers = 0 /\ ~isUploading
           \/ Cardinality(xhrs) = 0 /\ nextTimers = 1 /\ isUploading
           \/ Cardinality(xhrs) = 1 /\ nextTimers = 0 /\ isUploading
    BY <2>4, <2>5, Zenon DEF QueueInv
  <2>7. Cardinality(xhrs) + nextTimers = IF isUploading THEN 1 ELSE 0
    BY <2>6
  <2> QED
    BY <2>3, <2>4, <2>6, <2>7 DEF UploadsInOrder, QueueInv
<1> QED
  BY <1>1, PageInvariant, PTL

\* No error, cleared timer or early answer leaves a live page without a poll
\* under way or timed (site.js:958-1056), however many chains there are.
THEOREM PageIsNeverBlind == Spec => []PageNeverBlind
<1>1. PageIInv => PageNeverBlind
  BY DEF PageIInv, PollInv
<1> QED
  BY <1>1, PageInvariant, PTL

\* On an ended page no poll begins (site.js:653-679, 958-1046).
LEMMA NoPollAfterEnd ==
    ASSUME PageIInv, [Next]_vars, isTerminated, NEW c \in Chains, poll'[c].pc \in InFlight
    PROVE  poll[c].pc \in InFlight
<1>1. poll \in [Chains -> PollType] /\ InFlight \intersect {"free", "timer"} = {}
  BY DEF PageIInv, PollsTyped, InFlight
<1>2. CASE poll' = poll
  BY <1>2
<1>3. ASSUME NEW p \in [Chains -> PollType],
             \A d \in Chains : p[d].pc \in InFlight => poll[d].pc \in InFlight,
             poll' = p \/ poll' = ClearPollTimer(p)
      PROVE  poll[c].pc \in InFlight
  BY <1>1, <1>3 DEF ClearPollTimer, PollType
<1>4. ASSUME NEW d \in Chains, poll[d].pc \in InFlight, NEW answer, Answer(d, answer)
      PROVE  poll[c].pc \in InFlight
  BY <1>1, <1>4 DEF Answer
<1>5. ASSUME NEW d \in Chains, Polling(d) \/ PollFails(d)
      PROVE  poll[c].pc \in InFlight
  <2>1. CASE PollTimerFires(d)
    <3>1. poll' = [poll EXCEPT ![d] = [@ EXCEPT !.pc = "free"]]
      BY <2>1 DEF PollTimerFires
    <3> QED
      BY <1>1, <3>1 DEF PollType
  <2>2. CASE /\ poll[d].pc \in InFlight
             /\ ShowInactive([poll EXCEPT ![d].pc = "free"])
    <3>1. [poll EXCEPT ![d].pc = "free"] \in [Chains -> PollType]
      BY PollFreed DEF PageIInv
    <3>2. \A e \in Chains : [poll EXCEPT ![d].pc = "free"][e].pc \in InFlight
                              => poll[e].pc \in InFlight
      BY <1>1, <2>2
    <3> QED
      BY <1>3, <2>2, <3>1, <3>2 DEF ShowInactive
  <2>3. CASE poll[d].pc \in InFlight /\ \E answer : Answer(d, answer)
    BY <1>4, <2>3
  <2>4. AnswerPoll(d) \/ PollFails(d)
           => poll[d].pc \in {"status", "files"} /\ \E answer : Answer(d, answer)
    BY DEF AnswerPoll, PollFails
  <2>5. TakeStatus(d) =>
            /\ poll[d].pc \in {"over", "open", "closing"}
            /\ \/ ShowInactive([poll EXCEPT ![d].pc = "free"])
               \/ Answer(d, "files")
    BY DEF TakeStatus
  <2>6. TakeFiles(d) =>
            /\ poll[d].pc \in {"gone", "other"}
            /\ \/ ShowInactive([poll EXCEPT ![d].pc = "free"])
               \/ Answer(d, "timer")
    BY DEF TakeFiles
  <2> QED
    BY <1>5, <2>1, <2>2, <2>3, <2>4, <2>5, <2>6 DEF Polling, InFlight
<1>6. CASE RoomMovesOn \/ CloseFails \/ UNCHANGED vars
  BY <1>2, <1>6 DEF RoomMovesOn, CloseFails, vars, polling
<1>7. CASE Closing
  BY <1>1, <1>2, <1>3, <1>7
     DEF Closing, AnswerClose, TakeClose, CountdownEnds, ShowInactive, polling
<1>8. CASE Unlocking
  <2>1. AnswerPin => poll' = poll
    BY DEF AnswerPin, polling
  <2>2. TakePin => poll' = ClearPollTimer(poll)
    BY DEF TakePin, SendPoll
  <2> QED
    BY <1>1, <1>2, <1>3, <1>8, <2>1, <2>2 DEF Unlocking
<1>9. CASE User \/ LifetimeOver
  BY <1>2, <1>9 DEF User, LifetimeOver, OpenConfirm, CancelConfirm, PressClose, SubmitPin,
                    PickFile, BackToTab, polling
<1>10. CASE Uploading
  BY <1>2, <1>10 DEF Uploading, UploadStored, UploadFails, NextTimerFires, SendPoll, polling
<1> QED
  BY <1>5, <1>6, <1>7, <1>8, <1>9, <1>10 DEF Next, Ordinary, NetworkFails

\* Polls and queue of an ended page that have died out stay so.
LEMMA SilenceStays ==
    ASSUME PageIInv, [Next]_vars, isTerminated, Silent
    PROVE  (isTerminated /\ Silent)'
<1>1. /\ poll \in [Chains -> PollType] /\ \A c \in Chains : poll[c].pc = "free"
      /\ xhrs = {} /\ nextTimers = 0 /\ uploadQueue = << >>
  BY DEF PageIInv, PollsTyped, Silent
<1>2. ASSUME UNCHANGED uploads, isTerminated', poll' = poll \/ poll' = ClearPollTimer(poll)
      PROVE  (isTerminated /\ Silent)'
  <2>1. \A c \in Chains : poll'[c].pc = "free"
    BY <1>1, <1>2 DEF ClearPollTimer, PollType
  <2> QED
    BY <1>1, <1>2, <2>1 DEF Silent, uploads
<1>3. \A c \in Chains : ~Polling(c) /\ ~PollFails(c)
  BY <1>1 DEF Polling, AnswerPoll, PollTimerFires, TakeStatus, TakeFiles, PollFails
<1>4. ~Uploading /\ ~PickFile /\ ~BackToTab /\ ~LifetimeOver
  BY <1>1 DEF Uploading, UploadStored, UploadFails, NextTimerFires, PickFile, BackToTab,
              LifetimeOver
<1>5. CASE RoomMovesOn \/ CloseFails \/ UNCHANGED vars
  BY <1>2, <1>5 DEF RoomMovesOn, CloseFails, vars, polling, cards
<1>6. CASE Closing
  BY <1>2, <1>6 DEF Closing, AnswerClose, TakeClose, CountdownEnds, ShowInactive, polling, cards
<1>7. CASE Unlocking
  BY <1>2, <1>7 DEF Unlocking, AnswerPin, TakePin, SendPoll, polling, cards
<1>8. CASE User
  BY <1>2, <1>4, <1>8 DEF User, OpenConfirm, CancelConfirm, PressClose, SubmitPin, polling, cards
<1> QED
  BY <1>3, <1>4, <1>5, <1>6, <1>7, <1>8 DEF Next, Ordinary, NetworkFails

\* A page that shows the end alone, with nothing on its way and no close question
\* open, shows it for good; no poll begins on a page that has ended, and its
\* silence is for good (site.js:653-679, 958-1046, 1072-1145, 1248-1370).
THEOREM EndIsAlwaysFinal == Spec => EndIsFinal
<1>1. PageIInv /\ [Next]_vars /\ Ended => Ended'
  <2> SUFFICES ASSUME PageIInv, [Next]_vars, Ended PROVE Ended'
    OBVIOUS
  <2>1. /\ isTerminated /\ shown = {"inactive"} /\ pin = "idle" /\ close \in {"idle", "done"}
        /\ \A c \in Chains : poll[c].pc \notin InFlight
    BY DEF Ended, Waiting
  <2>2. \A c \in Chains : poll'[c].pc \notin InFlight
    BY <2>1, NoPollAfterEnd
  <2>3. CASE UNCHANGED <<cards, pin, close>>
    BY <2>1, <2>2, <2>3 DEF Ended, Waiting, cards
  <2>4. ASSUME NEW c \in Chains, Polling(c) \/ PollFails(c)
        PROVE  UNCHANGED <<cards, pin, close>>
    <3>1. ~AnswerPoll(c) /\ ~TakeStatus(c) /\ ~TakeFiles(c) /\ ~PollFails(c)
      BY <2>1 DEF AnswerPoll, TakeStatus, TakeFiles, PollFails, InFlight
    <3> QED
      BY <2>4, <3>1 DEF Polling, PollTimerFires, requests
  <2>5. ~Closing /\ ~Unlocking /\ ~CloseFails /\ ~LifetimeOver
    BY <2>1 DEF Closing, Unlocking, CloseFails, LifetimeOver, AnswerClose, TakeClose,
                CountdownEnds, AnswerPin, TakePin
  <2>6. ~User
    BY <2>1 DEF User, OpenConfirm, CancelConfirm, PressClose, SubmitPin, PickFile, BackToTab
  <2>7. RoomMovesOn \/ Uploading \/ UNCHANGED vars => UNCHANGED <<cards, pin, close>>
    BY DEF RoomMovesOn, Uploading, UploadStored, UploadFails, NextTimerFires, vars, requests
  <2> QED
    BY <2>3, <2>4, <2>5, <2>6, <2>7 DEF Next, Ordinary, NetworkFails
<1>2. PageIInv /\ [Next]_vars =>
        [/\ isTerminated => \A c \in Chains : poll'[c].pc \in InFlight => poll[c].pc \in InFlight
         /\ isTerminated /\ Silent => (isTerminated /\ Silent)'
         /\ Ended => Ended']_vars
  BY <1>1, NoPollAfterEnd, SilenceStays
<1> QED
  BY <1>2, PageInvariant, PTL DEF Spec, EndIsFinal
=============================================================================
