---------------------------- MODULE DiskReclaim ----------------------------
(***************************************************************************)
(* Who removes files from the data directory, and when: the upload that    *)
(* fails, the sweep of a deleted room, and the two passes of the cleanup   *)
(* worker over the staging and the files directory                         *)
(* (internal/cleanup/cleanup.go), against the uploads that are still at    *)
(* work (StreamUpload of internal/file/file.go) and against crashes.       *)
(*                                                                         *)
(* The worker decides by a file's age, taken from its modification time.   *)
(* That is the time of the last write: a rename does not change it.        *)
(* Between looking at an entry, asking the database and removing it the    *)
(* worker takes separate steps.                                            *)
(*                                                                         *)
(* Abstracted: sizes and quotas (module Upload), one file to a room.       *)
(***************************************************************************)
EXTENDS Integers

CONSTANTS Files,          \* the files uploaded during the run
          NoFile,         \* none of them
          IdleTimeout,    \* UploadIdleTimeout: longest pause of a client
          FinishTime,     \* longest time from the end of the body to the row
          StagingMaxAge,  \* age at which staging files are stale
          OrphanGrace,    \* OrphanGracePeriod
          MaxTime,        \* the clock stops here (bound)
          MaxCrashes      \* crashes in a run (bound)

ASSUME ReclaimAssumption ==
    /\ NoFile \notin Files
    /\ IdleTimeout \in Nat \ {0} /\ FinishTime \in Nat
    /\ StagingMaxAge \in Nat \ {0} /\ OrphanGrace \in Nat \ {0}
    /\ MaxTime \in Nat /\ MaxCrashes \in Nat

VARIABLES now,
          pc,       \* file |-> how far its upload is
          place,    \* file |-> the directory it is in
          mtime,    \* file |-> time of the last write
          ended,    \* file |-> time at which its body ended
          listed,   \* files with a ready row
          worker,   \* the worker's pass: phase, entries left, entry in hand
          crashes   \* how often the process has died

vars == <<now, pc, place, mtime, ended, listed, worker, crashes>>
upload == <<pc, place, mtime, ended, listed>>

Active == {"receiving", "finishing", "placed"}

Phases == {"resting", "rooms", "staging", "files"}
Hand == {"empty", "old", "unlisted", "doomed"}

Resting == [phase |-> "resting", left |-> {}, file |-> NoFile, hand |-> "empty"]

Init ==
    /\ now = 0
    /\ pc = [f \in Files |-> "new"]
    /\ place = [f \in Files |-> "nowhere"]
    /\ mtime = [f \in Files |-> 0]
    /\ ended = [f \in Files |-> 0]
    /\ listed = {}
    /\ worker = Resting
    /\ crashes = 0

(***************************************************************************)
(* A silent client is cut off after IdleTimeout, and a body that has ended *)
(* is on record, or has failed, within FinishTime.                         *)
(***************************************************************************)
InTime(f) ==
    /\ pc[f] = "receiving" => now < mtime[f] + IdleTimeout
    /\ pc[f] \in {"finishing", "placed"} => now < ended[f] + FinishTime

Tick ==
    /\ now < MaxTime
    /\ \A f \in Files : InTime(f)
    /\ now' = now + 1
    /\ UNCHANGED <<upload, worker, crashes>>

-----------------------------------------------------------------------------
(***************************************************************************)
(* The upload of a file.                                                   *)
(***************************************************************************)
CreateStaging(f) ==
    /\ pc[f] = "new"
    /\ pc' = [pc EXCEPT ![f] = "receiving"]
    /\ place' = [place EXCEPT ![f] = "staging"]
    /\ mtime' = [mtime EXCEPT ![f] = now]
    /\ UNCHANGED <<now, ended, listed, worker, crashes>>

Write(f) ==
    /\ pc[f] = "receiving"
    /\ mtime[f] # now
    /\ mtime' = [mtime EXCEPT ![f] = now]
    /\ UNCHANGED <<now, pc, place, ended, listed, worker, crashes>>

EndOfBody(f) ==
    /\ pc[f] = "receiving"
    /\ pc' = [pc EXCEPT ![f] = "finishing"]
    /\ ended' = [ended EXCEPT ![f] = now]
    /\ UNCHANGED <<now, place, mtime, listed, worker, crashes>>

\* The rename fails if the staging file has been removed.
Rename(f) ==
    /\ pc[f] = "finishing"
    /\ IF place[f] = "staging"
       THEN /\ pc' = [pc EXCEPT ![f] = "placed"]
            /\ place' = [place EXCEPT ![f] = "final"]
       ELSE pc' = [pc EXCEPT ![f] = "failed"] /\ UNCHANGED place
    /\ UNCHANGED <<now, mtime, ended, listed, worker, crashes>>

InsertRow(f) ==
    /\ pc[f] = "placed"
    /\ pc' = [pc EXCEPT ![f] = "done"]
    /\ listed' = listed \union {f}
    /\ UNCHANGED <<now, place, mtime, ended, worker, crashes>>

\* Any error return removes the file from the directory it is in.
Fail(f) ==
    /\ pc[f] \in Active
    /\ pc' = [pc EXCEPT ![f] = "failed"]
    /\ place' = [place EXCEPT ![f] = "nowhere"]
    /\ UNCHANGED <<now, mtime, ended, listed, worker, crashes>>

UploadStep(f) ==
    CreateStaging(f) \/ Write(f) \/ EndOfBody(f) \/ Rename(f) \/ InsertRow(f) \/ Fail(f)

-----------------------------------------------------------------------------
(***************************************************************************)
(* One pass of the worker: rooms, then staging, then files.                *)
(***************************************************************************)
BeginPass ==
    /\ worker.phase = "resting"
    /\ worker' = [worker EXCEPT !.phase = "rooms"]
    /\ UNCHANGED <<now, upload, crashes>>

\* cleanRoom commits the deletion of the rows ...
DeleteRoom(f) ==
    /\ worker.phase = "rooms" /\ worker.hand = "empty"
    /\ f \in listed
    /\ listed' = listed \ {f}
    /\ worker' = [worker EXCEPT !.file = f, !.hand = "doomed"]
    /\ UNCHANGED <<now, pc, place, mtime, ended, crashes>>

\* ... and then removes the files.
RemoveDoomed ==
    /\ worker.hand = "doomed"
    /\ place' = [place EXCEPT ![worker.file] = "nowhere"]
    /\ worker' = [worker EXCEPT !.file = NoFile, !.hand = "empty"]
    /\ UNCHANGED <<now, pc, mtime, ended, listed, crashes>>

InDirectory(dir) == {f \in Files : place[f] = dir}

ReadStagingDir ==
    /\ worker.phase = "rooms" /\ worker.hand = "empty"
    /\ worker' = [worker EXCEPT !.phase = "staging", !.left = InDirectory("staging")]
    /\ UNCHANGED <<now, upload, crashes>>

ReadFilesDir ==
    /\ worker.phase = "staging" /\ worker.left = {} /\ worker.hand = "empty"
    /\ worker' = [worker EXCEPT !.phase = "files", !.left = InDirectory("final")]
    /\ UNCHANGED <<now, upload, crashes>>

EndPass ==
    /\ worker.phase = "files" /\ worker.left = {} /\ worker.hand = "empty"
    /\ worker' = Resting
    /\ UNCHANGED <<now, upload, crashes>>

\* The directory the pass is in.
Directory == IF worker.phase = "staging" THEN "staging" ELSE "final"

Age(f) == now - mtime[f]

\* Mutant: the age is not looked at.
TooOldAlways(f) == TRUE

\* Mutant: the comparison is the wrong way round.
TooOldSwapped(f) ==
    IF worker.phase = "staging" THEN Age(f) < StagingMaxAge ELSE Age(f) < OrphanGrace

TooOld(f) ==
    IF worker.phase = "staging" THEN Age(f) > StagingMaxAge ELSE Age(f) > OrphanGrace

\* Lstat of the next entry, which may have gone in the meantime.
LookAt(f) ==
    /\ worker.phase \in {"staging", "files"} /\ worker.hand = "empty"
    /\ f \in worker.left
    /\ worker' = IF place[f] = Directory /\ TooOld(f)
                 THEN [worker EXCEPT !.left = @ \ {f}, !.file = f, !.hand = "old"]
                 ELSE [worker EXCEPT !.left = @ \ {f}]
    /\ UNCHANGED <<now, upload, crashes>>

AskDatabase ==
    /\ worker.phase = "files" /\ worker.hand = "old"
    /\ worker' = IF worker.file \in listed
                 THEN [worker EXCEPT !.file = NoFile, !.hand = "empty"]
                 ELSE [worker EXCEPT !.hand = "unlisted"]
    /\ UNCHANGED <<now, upload, crashes>>

\* A path that no longer holds the file is left alone.
RemoveEntry ==
    LET f == worker.file
    IN  /\ \/ worker.phase = "staging" /\ worker.hand = "old"
           \/ worker.phase = "files" /\ worker.hand = "unlisted"
        /\ place' = IF place[f] = Directory THEN [place EXCEPT ![f] = "nowhere"] ELSE place
        /\ worker' = [worker EXCEPT !.file = NoFile, !.hand = "empty"]
        /\ UNCHANGED <<now, pc, mtime, ended, listed, crashes>>

SweepStep ==
    \/ RemoveDoomed \/ ReadStagingDir \/ ReadFilesDir \/ EndPass
    \/ AskDatabase \/ RemoveEntry
    \/ \E f \in Files : LookAt(f)

\* The process dies: uploads and the pass are cut off, disk and rows stay.
Crash ==
    /\ pc' = [f \in Files |-> IF pc[f] \in Active THEN "crashed" ELSE pc[f]]
    /\ worker' = Resting
    /\ crashes < MaxCrashes /\ crashes' = crashes + 1
    /\ UNCHANGED <<now, place, mtime, ended, listed>>

Next ==
    \/ Tick
    \/ \E f \in Files : UploadStep(f) \/ DeleteRoom(f)
    \/ BeginPass \/ SweepStep
    \/ Crash

Spec == Init /\ [][Next]_vars

\* The worker's ticker fires and its pass runs on; crashes come to an end.
FairSpec == Spec /\ WF_vars(BeginPass) /\ WF_vars(SweepStep)

-----------------------------------------------------------------------------
\* The variables keep their types.
ReclaimTypeOK ==
    /\ now \in 0 .. MaxTime
    /\ pc \in [Files -> Active \union {"new", "done", "failed", "crashed"}]
    /\ place \in [Files -> {"nowhere", "staging", "final"}]
    /\ mtime \in [Files -> 0 .. MaxTime] /\ ended \in [Files -> 0 .. MaxTime]
    /\ listed \subseteq Files
    /\ worker \in [phase : Phases, left : SUBSET Files,
                   file : Files \union {NoFile}, hand : Hand]
    /\ crashes \in 0 .. MaxCrashes

(***************************************************************************)
(* A listed file is on disk: reconciliation does not take the file of an   *)
(* upload that is about to write its row.                                  *)
(***************************************************************************)
ListedFilesExist == \A f \in listed : place[f] = "final"

(***************************************************************************)
(* The staging file of an upload at work is not swept away under it.       *)
(***************************************************************************)
ActiveStagingKept ==
    \A f \in Files : pc[f] \in {"receiving", "finishing"} => place[f] = "staging"

(***************************************************************************)
(* What nobody will list or remove any more, cut off by a crash of the     *)
(* upload or of the room sweep, is reclaimed once it is old enough.        *)
(***************************************************************************)
Orphan(f) ==
    /\ place[f] # "nowhere" /\ f \notin listed /\ pc[f] \notin Active
    /\ Age(f) > StagingMaxAge /\ Age(f) > OrphanGrace

OrphansReclaimed == \A f \in Files : Orphan(f) ~> place[f] = "nowhere"
=============================================================================
