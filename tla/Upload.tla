------------------------------- MODULE Upload -------------------------------
(***************************************************************************)
(* Store.StreamUpload of src/internal/file/file.go: any number of uploads  *)
(* run at the same time, each a goroutine that                             *)
(*                                                                         *)
(*   checks free space, reads the room's usage, reads the global usage,    *)
(*   acquires a reservation, creates a staging file, streams the body      *)
(*   into it (growing the reservation), syncs, shrinks the reservation,    *)
(*   renames the file into place, inserts its row, releases.               *)
(*                                                                         *)
(* A step of this module is one database statement, one call of the quota  *)
(* manager or one file system call: the grain at which other uploads, the  *)
(* deletion of a room and a crash of the process can come in between.  The *)
(* database has one connection (database.go:16), so a statement is atomic. *)
(* A deferred function runs as steps of its own, in LIFO order: first the  *)
(* staging file is removed, then the reservation released.                 *)
(*                                                                         *)
(* Abstracted: names, identifiers, MIME types; a remove of a file the      *)
(* process itself created succeeds; a process crash loses no written file. *)
(***************************************************************************)
EXTENDS QuotaManager

CONSTANTS MaxFileSize,      \* byte limit of a file
          InitialChunk,     \* InitialQuotaChunk, 64 KiB
          GrowthChunk,      \* QuotaGrowthChunk, 1 MiB
          BufSize,          \* read buffer, 32 KiB
          DeclaredSizes     \* Content-Length figures, 0 when unknown

ASSUME UploadAssumption ==
    /\ MaxFileSize \in Nat \ {0}
    /\ InitialChunk \in Nat \ {0} /\ GrowthChunk \in Nat \ {0}
    /\ BufSize \in Nat \ {0} /\ DeclaredSizes \subseteq Nat

VARIABLES up,        \* upload |-> where it is and its local variables
          staging,   \* uploads whose file is in the staging directory
          final,     \* uploads whose file is in the files directory
          rows,      \* uploads with a ready row in the files table
          rooms,     \* rooms with a row in the rooms table
          doomed     \* files of deleted rooms still to be removed from disk

disk == <<staging, final>>
tables == <<rows, rooms>>
vars == <<up, staging, final, rows, rooms, doomed, ledger>>

\* The uploads share the quota manager; each is handled at most once, and its
\* reservation has its name.
Uploads == ResIds

Ended == {"done", "failed", "crashed"}

Place == {"new", "usage", "global", "acquire", "create", "stream", "shrink",
          "rename", "insert", "stored", "unstage", "unfile", "free"} \union Ended

Outcome == {"none", "low_disk", "room_quota", "global_quota", "file_limit",
            "too_large", "empty", "io"}

\* An upload's local variables.
Request == [pc : Place, outcome : Outcome, room : Rooms,
            used : Nat, count : Nat, total : Nat,
            reserved : Nat, written : 0 .. MaxFileSize]

InitRequest(room) ==
    [pc |-> "new", outcome |-> "none", room |-> room,
     used |-> 0, count |-> 0, total |-> 0, reserved |-> 0, written |-> 0]

Least(a, b) == IF a <= b THEN a ELSE b
Greatest(a, b) == IF a >= b THEN a ELSE b

-----------------------------------------------------------------------------
(***************************************************************************)
(* The usage queries: ready rows only, as committed at this moment.        *)
(***************************************************************************)
sizeOf == [u \in Uploads |-> up[u].written]
ReadyIn(room) == {u \in rows : up[u].room = room}

RoomUsage(room) == Tally(sizeOf, ReadyIn(room))
RoomCount(room) == Cardinality(ReadyIn(room))
TotalUsage == Tally(sizeOf, rows)

(***************************************************************************)
(* How much to reserve, from the upload's own readings.                    *)
(***************************************************************************)
InitialReservation(u, declared) ==
    LET me      == up[u]
        chunk   == IF declared > 0 THEN Least(declared, InitialChunk) ELSE InitialChunk
        bounded == Least(Least(chunk, MaxRoomSize - me.used), MaxFileSize)
    IN  IF MaxTotalStorage > 0
        THEN Least(bounded, MaxTotalStorage - me.total) ELSE bounded

\* Mutant: over-asking is never cut.
ClampNever(asked, needed, headroom) == asked

\* Over-asking is cut to the headroom if the headroom covers the need.
Clamp(asked, needed, headroom) ==
    IF headroom >= needed THEN Least(asked, headroom) ELSE asked

GrowDelta(u, needed) ==
    LET me      == up[u]
        inRoom  == Clamp(Greatest(GrowthChunk, needed), needed,
                         MaxRoomSize - (me.used + me.reserved))
        inTotal == IF MaxTotalStorage > 0
                   THEN Clamp(inRoom, needed, MaxTotalStorage - (me.total + me.reserved))
                   ELSE inRoom
    IN  Clamp(inTotal, needed, MaxFileSize - me.reserved)

-----------------------------------------------------------------------------
At(u, place) == up[u].pc = place
Goto(u, place) == up' = [up EXCEPT ![u].pc = place]
Refuse(u, why, place) == up' = [up EXCEPT ![u].pc = place, ![u].outcome = why]

Init ==
    /\ up \in [Uploads -> {InitRequest(room) : room \in Rooms}]
    /\ staging = {} /\ final = {} /\ rows = {} /\ doomed = {}
    /\ rooms = Rooms
    /\ LedgerInit

\* The handler found the room (app.go); free space on the volume is whatever
\* the file system says, if it says anything.
CheckFreeSpace(u) ==
    /\ At(u, "new")
    /\ up[u].room \in rooms
    /\ \/ Goto(u, "usage")
       \/ \E why \in {"low_disk", "io"} : Refuse(u, why, "failed")
    /\ UNCHANGED <<disk, tables, doomed, ledger>>

ReadRoomUsage(u) ==
    LET room == up[u].room
    IN  /\ At(u, "usage")
        /\ \/ /\ RoomUsage(room) < MaxRoomSize
              /\ up' = [up EXCEPT ![u].used = RoomUsage(room),
                    ![u].count = RoomCount(room),
                    ![u].pc = IF MaxTotalStorage > 0 THEN "global" ELSE "acquire"]
           \/ RoomUsage(room) >= MaxRoomSize /\ Refuse(u, "room_quota", "failed")
           \/ Refuse(u, "io", "failed")
        /\ UNCHANGED <<disk, tables, doomed, ledger>>

ReadGlobalUsage(u) ==
    /\ At(u, "global")
    /\ \/ /\ TotalUsage < MaxTotalStorage
          /\ up' = [up EXCEPT ![u].total = TotalUsage, ![u].pc = "acquire"]
       \/ TotalUsage >= MaxTotalStorage /\ Refuse(u, "global_quota", "failed")
       \/ Refuse(u, "io", "failed")
    /\ UNCHANGED <<disk, tables, doomed, ledger>>

AcquireQuota(u) ==
    LET me == up[u]
    IN  \E declared \in DeclaredSizes :
          LET initial == InitialReservation(u, declared)
          IN  /\ At(u, "acquire")
              /\ Acquire(u, me.room, initial, me.used, me.count, me.total)
              /\ up' = [up EXCEPT ![u].pc = "create", ![u].reserved = initial]
              /\ UNCHANGED <<disk, tables, doomed>>

RefuseQuota(u) ==
    LET me == up[u]
    IN  \E declared \in DeclaredSizes :
          LET initial == InitialReservation(u, declared)
          IN  /\ At(u, "acquire")
              /\ ~CanAcquire(me.room, initial, me.used, me.count, me.total)
              /\ Refuse(u, IF ~SlotFree(me.room, me.count) THEN "file_limit"
                           ELSE IF ~RoomFits(me.room, initial, me.used)
                                THEN "room_quota" ELSE "global_quota", "failed")
              /\ UNCHANGED <<disk, tables, doomed, ledger>>

CreateStaging(u) ==
    /\ At(u, "create")
    /\ \/ Goto(u, "stream") /\ staging' = staging \union {u}
       \/ Refuse(u, "io", "free") /\ UNCHANGED staging
    /\ UNCHANGED <<final, tables, doomed, ledger>>

(***************************************************************************)
(* One turn of the read loop that delivers n bytes of the body.            *)
(***************************************************************************)
\* Mutant: the bytes are written before the reservation covers them.
ReceiveUncovered(u, n) ==
    /\ At(u, "stream")
    /\ up[u].written + n <= MaxFileSize
    /\ up' = [up EXCEPT ![u].written = @ + n]
    /\ UNCHANGED <<disk, tables, doomed, ledger>>

ReceiveWithin(u, n) ==
    LET me == up[u]
    IN  /\ At(u, "stream")
        /\ me.written + n <= MaxFileSize
        /\ me.written + n <= me.reserved
        /\ up' = [up EXCEPT ![u].written = @ + n]
        /\ UNCHANGED <<disk, tables, doomed, ledger>>

ReceiveGrowing(u, n) ==
    LET me    == up[u]
        delta == GrowDelta(u, me.written + n - me.reserved)
    IN  /\ At(u, "stream")
        /\ me.written + n <= MaxFileSize
        /\ me.written + n > me.reserved
        /\ Grow(u, delta, me.used, me.total)
        /\ up' = [up EXCEPT ![u].written = @ + n, ![u].reserved = @ + delta]
        /\ UNCHANGED <<disk, tables, doomed>>

RefuseGrowth(u, n) ==
    LET me    == up[u]
        delta == GrowDelta(u, me.written + n - me.reserved)
    IN  /\ At(u, "stream")
        /\ me.written + n <= MaxFileSize
        /\ me.written + n > me.reserved
        /\ ~CanGrow(u, delta, me.used, me.total)
        /\ Refuse(u, IF ~RoomFits(me.room, delta, me.used)
                     THEN "room_quota" ELSE "global_quota", "unstage")
        /\ UNCHANGED <<disk, tables, doomed, ledger>>

RefuseTooLarge(u, n) ==
    /\ At(u, "stream")
    /\ up[u].written + n > MaxFileSize
    /\ Refuse(u, "too_large", "unstage")
    /\ UNCHANGED <<disk, tables, doomed, ledger>>

\* A read, write, sync or close fails: client gone, idle timeout, disk full.
BodyFails(u) ==
    /\ At(u, "stream")
    /\ Refuse(u, "io", "unstage")
    /\ UNCHANGED <<disk, tables, doomed, ledger>>

\* End of the body: sync and close, an empty file is removed at once.
FinishBody(u) ==
    /\ At(u, "stream")
    /\ IF up[u].written = 0
       THEN Refuse(u, "empty", "free") /\ staging' = staging \ {u}
       ELSE Goto(u, "shrink") /\ UNCHANGED staging
    /\ UNCHANGED <<final, tables, doomed, ledger>>

ShrinkQuota(u) ==
    /\ At(u, "shrink")
    /\ IF up[u].reserved > up[u].written
       THEN Shrink(u, up[u].written) ELSE UNCHANGED ledger
    /\ Goto(u, "rename")
    /\ UNCHANGED <<disk, tables, doomed>>

\* Mutant: a failed rename leaves the staging file.
RenameLeavesStaging(u) ==
    /\ At(u, "rename")
    /\ \/ Goto(u, "insert") /\ final' = final \union {u} /\ staging' = staging \ {u}
       \/ Refuse(u, "io", "free") /\ UNCHANGED disk
    /\ UNCHANGED <<tables, doomed, ledger>>

Rename(u) ==
    /\ At(u, "rename")
    /\ staging' = staging \ {u}
    /\ \/ Goto(u, "insert") /\ final' = final \union {u}
       \/ Refuse(u, "io", "free") /\ UNCHANGED final
    /\ UNCHANGED <<tables, doomed, ledger>>

\* Mutant: the row is inserted although its room is gone.
InsertRowNoForeignKey(u) ==
    /\ At(u, "insert")
    /\ Goto(u, "stored")
    /\ rows' = rows \union {u}
    /\ UNCHANGED <<disk, rooms, doomed, ledger>>

\* The foreign key makes the insert fail when the room has been deleted.
InsertRow(u) ==
    /\ At(u, "insert")
    /\ \/ /\ up[u].room \in rooms
          /\ Goto(u, "stored")
          /\ rows' = rows \union {u}
       \/ /\ Refuse(u, "io", "unfile")
          /\ UNCHANGED rows
    /\ UNCHANGED <<disk, rooms, doomed, ledger>>

(***************************************************************************)
(* The deferred functions and the final release.                           *)
(***************************************************************************)
Unstage(u) ==
    /\ At(u, "unstage")
    /\ Goto(u, "free")
    /\ staging' = staging \ {u}
    /\ UNCHANGED <<final, tables, doomed, ledger>>

Unfile(u) ==
    /\ At(u, "unfile")
    /\ Goto(u, "free")
    /\ final' = final \ {u}
    /\ UNCHANGED <<staging, tables, doomed, ledger>>

\* Mutant: an early return without the deferred release.
ReleaseQuotaOnSuccessOnly(u) ==
    /\ \/ At(u, "stored") /\ Goto(u, "done") /\ Release(u)
       \/ At(u, "free") /\ Goto(u, "failed") /\ UNCHANGED ledger
    /\ UNCHANGED <<disk, tables, doomed>>

ReleaseQuota(u) ==
    /\ \/ At(u, "stored") /\ Goto(u, "done")
       \/ At(u, "free") /\ Goto(u, "failed")
    /\ Release(u)
    /\ UNCHANGED <<disk, tables, doomed>>

UploadStep(u) ==
    \/ ReadRoomUsage(u) \/ ReadGlobalUsage(u)
    \/ AcquireQuota(u) \/ RefuseQuota(u) \/ CreateStaging(u)
    \/ \E n \in 1 .. BufSize :
          ReceiveWithin(u, n) \/ ReceiveGrowing(u, n) \/ RefuseGrowth(u, n)
          \/ RefuseTooLarge(u, n)
    \/ BodyFails(u) \/ FinishBody(u) \/ ShrinkQuota(u) \/ Rename(u)
    \/ InsertRow(u) \/ Unstage(u) \/ Unfile(u) \/ ReleaseQuota(u)

-----------------------------------------------------------------------------
(***************************************************************************)
(* The world around the uploads.                                           *)
(***************************************************************************)
\* cleanRoom: one transaction deletes the room, its rows go by cascade ...
DeleteRoom(room) ==
    /\ room \in rooms
    /\ rooms' = rooms \ {room}
    /\ rows' = rows \ ReadyIn(room)
    /\ doomed' = doomed \union ReadyIn(room)
    /\ UNCHANGED <<up, disk, ledger>>

\* ... and after the commit their files are removed one by one, by cleanRoom
\* or, when the process died in between, by the orphan reconciliation.
RemoveDoomed(u) ==
    /\ u \in doomed
    /\ doomed' = doomed \ {u}
    /\ final' = final \ {u}
    /\ UNCHANGED <<up, staging, tables, ledger>>

\* The process dies: what it held in memory is gone, disk and database stay.
Crash ==
    /\ up' = [u \in Uploads |-> IF At(u, "new") \/ up[u].pc \in Ended
                                THEN up[u] ELSE [up[u] EXCEPT !.pc = "crashed"]]
    /\ Restart
    /\ UNCHANGED <<disk, tables, doomed>>

Next ==
    \/ \E u \in Uploads : CheckFreeSpace(u) \/ UploadStep(u) \/ RemoveDoomed(u)
    \/ \E room \in Rooms : DeleteRoom(room)
    \/ Crash

Spec == Init /\ [][Next]_vars

\* A handler's goroutine runs on, and every read of the body returns: the idle
\* timeout (app.go:224-281) turns a silent client into a read error.  The
\* cleanup worker runs on as well.  A crash or a deletion need never happen.
Fairness ==
    \A u \in Uploads : WF_vars(UploadStep(u)) /\ WF_vars(RemoveDoomed(u))

FairSpec == Spec /\ Fairness

-----------------------------------------------------------------------------
Holding == {"create", "stream", "shrink", "rename", "insert", "stored",
            "unstage", "unfile", "free"}

InFlight(u) == up[u].pc \notin {"new"} \union Ended

\* The variables keep their types.
UploadTypeOK ==
    /\ up \in [Uploads -> Request]
    /\ staging \subseteq Uploads /\ final \subseteq Uploads
    /\ rows \subseteq Uploads /\ doomed \subseteq Uploads
    /\ rooms \subseteq Rooms
    /\ LedgerTypeOK

(***************************************************************************)
(* A file in a directory always has somebody answerable for it: the upload *)
(* still working on it, its row, the deletion of its room, or the crash    *)
(* that cut the upload off.  In particular no error path of StreamUpload   *)
(* leaves a file behind, and a listed file is always there to download.    *)
(***************************************************************************)
FilesAndRowsAgree ==
    /\ \A u \in staging : up[u].pc \in {"stream", "shrink", "rename", "unstage", "crashed"}
    /\ \A u \in final : \/ u \in rows \union doomed
                        \/ up[u].pc \in {"insert", "unfile", "crashed"}
    /\ rows \subseteq final
    /\ staging \intersect final = {}

(***************************************************************************)
(* Every byte an upload has on disk before its row accounts for it is      *)
(* covered by its reservation: growth comes before the write, the shrink   *)
(* keeps what was written, the release comes after the row or the removal. *)
(***************************************************************************)
BytesCovered ==
    \A u \in (staging \union final) \ (rows \union doomed) :
        up[u].pc # "crashed" =>
            u \in Live /\ up[u].written <= reservations[u].bytes

(***************************************************************************)
(* A reservation lives exactly as long as its upload and has the size the  *)
(* upload believes it has: no path of StreamUpload leaks one or gives it   *)
(* back twice, and none survives a restart.                                *)
(***************************************************************************)
ReservationsInFlight ==
    /\ Live = {u \in Uploads : up[u].pc \in Holding}
    /\ \A u \in Live : /\ reservations[u].room = up[u].room
                       /\ up[u].pc \in {"create", "stream", "shrink"} =>
                             reservations[u].bytes = up[u].reserved

(***************************************************************************)
(* What the room and the volume are committed to: ready rows, and the      *)
(* reservations of the uploads that have no row yet.                       *)
(***************************************************************************)
Occupied(room) == RoomUsage(room) + Tally(bytesOf, InRoom(room) \ rows)
Slots(room) == RoomCount(room) + Cardinality(InRoom(room) \ rows)
OccupiedInAll == TotalUsage + Tally(bytesOf, Live \ rows)

(***************************************************************************)
(* Concurrent uploads can take a room or the volume past a limit, but only *)
(* through a usage reading that another upload's commit has made stale: an *)
(* upload whose own reading is current never does.                         *)
(***************************************************************************)
StaleRoom(u) == up'[u] # up[u] /\ up[u].used < RoomUsage(up[u].room)
StaleCount(u) == up'[u] # up[u] /\ up[u].count < RoomCount(up[u].room)
StaleTotal(u) == up'[u] # up[u] /\ up[u].total < TotalUsage

OvershootOnlyWhenStale ==
    [][/\ \A room \in Rooms :
            /\ Occupied(room) <= MaxRoomSize /\ Occupied(room)' > MaxRoomSize
                => \E u \in Uploads : up[u].room = room /\ StaleRoom(u)
            /\ MaxFiles > 0 /\ Slots(room) <= MaxFiles /\ Slots(room)' > MaxFiles
                => \E u \in Uploads : up[u].room = room /\ StaleCount(u)
       /\ MaxTotalStorage > 0 /\ OccupiedInAll <= MaxTotalStorage
            /\ OccupiedInAll' > MaxTotalStorage
            => \E u \in Uploads : StaleTotal(u)]_vars

\* What is stored in a room never exceeds the room's limit.
RoomBytesWithinLimit == \A room \in Rooms : RoomUsage(room) <= MaxRoomSize

(***************************************************************************)
(* An upload that holds the only reservation is not refused growth while a *)
(* whole further buffer would fit by its readings, however much larger a   *)
(* growth chunk is.  Beside others it may be: the headroom that growth is  *)
(* cut to leaves their reservations out.                                   *)
(***************************************************************************)
BufferWouldFit(u) ==
    LET needed == up[u].written + BufSize - up[u].reserved
    IN  RoomFits(up[u].room, needed, up[u].used) /\ GlobalFits(needed, up[u].total)

NoNeedlessRefusal ==
    [][\A u \in Uploads :
        At(u, "stream") /\ At(u, "unstage")' /\ Live = {u}
            /\ up'[u].outcome \in {"room_quota", "global_quota"}
            => ~BufferWouldFit(u)]_vars

(***************************************************************************)
(* Every upload that got as far as the usage query ends, and its           *)
(* reservation with it.                                                    *)
(***************************************************************************)
UploadsEnd == \A u \in Uploads : InFlight(u) ~> (up[u].pc \in Ended /\ u \notin Live)

(***************************************************************************)
(* Of a deleted room nothing stays on disk, not even through an upload     *)
(* that was under way when the room went; what a crash cut off is left to  *)
(* the cleanup.                                                            *)
(***************************************************************************)
DeletedRoomLeavesNothing ==
    \A u \in Uploads :
        up[u].room \notin rooms ~> (At(u, "crashed") \/ u \notin staging \union final)

\* To the people in the rooms the pipeline is a FileShelf.
Shelf == INSTANCE FileShelf WITH
    Files <- Uploads,
    openRooms <- rooms,
    shelf <- {[file |-> u, room |-> up[u].room, size |-> up[u].written] : u \in rows}

ImplementsShelf == Shelf!ShelfSpec
=============================================================================
