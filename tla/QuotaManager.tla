---------------------------- MODULE QuotaManager ----------------------------
(***************************************************************************)
(* The in-flight storage ledger, src/internal/file/quota.go.  Every method *)
(* runs under the manager's mutex, so a call is one atomic step.  A call   *)
(* that returns an error leaves the ledger as it was; the conditions under *)
(* which Acquire and Grow succeed are operators of their own, for callers  *)
(* that have to follow the error return.                                   *)
(*                                                                         *)
(* The manager knows nothing of the database: the usage figures of a call  *)
(* (ready bytes and ready files of the room, ready bytes of all rooms) are *)
(* whatever its caller read some time before.  Here they are any readings. *)
(*                                                                         *)
(* The Go maps roomReserved and roomFiles never store a value below one,   *)
(* so an absent entry is the value 0 of a total function.                  *)
(***************************************************************************)
EXTENDS Tally

CONSTANTS Rooms,            \* room identifiers
          ResIds,           \* reservation identifiers (128-bit random in the code)
          MaxRoomSize,      \* byte limit of a room
          MaxFiles,         \* file limit of a room, 0 for no limit
          MaxTotalStorage   \* byte limit of all rooms, 0 for no limit

ASSUME QuotaAssumption ==
    /\ IsFiniteSet(ResIds)
    /\ MaxRoomSize \in Nat /\ MaxFiles \in Nat /\ MaxTotalStorage \in Nat

VARIABLES reservations,   \* live reservation |-> [room, bytes, files]
          roomReserved,   \* room |-> bytes reserved in it
          roomFiles,      \* room |-> file slots reserved in it
          totalReserved   \* bytes reserved in all rooms

ledger == <<reservations, roomReserved, roomFiles, totalReserved>>

Reservation == [room : Rooms, bytes : Nat, files : {1}]

Live == DOMAIN reservations

\* The fields of the reservations as functions, for sums over them.
bytesOf == [id \in Live |-> reservations[id].bytes]
InRoom(room) == {id \in Live : reservations[id].room = room}

-----------------------------------------------------------------------------
LedgerInit ==
    /\ reservations = [id \in {} |-> 0]
    /\ roomReserved = [room \in Rooms |-> 0]
    /\ roomFiles = [room \in Rooms |-> 0]
    /\ totalReserved = 0

(***************************************************************************)
(* The three limits, each read against the caller's usage figure.          *)
(***************************************************************************)
SlotFree(room, roomCount) ==
    MaxFiles > 0 => roomCount + roomFiles[room] + 1 <= MaxFiles

RoomFits(room, bytes, roomUsage) ==
    roomUsage + roomReserved[room] + bytes <= MaxRoomSize

\* Mutant: the global check forgets what other uploads hold in flight.
GlobalFitsCommittedOnly(bytes, globalUsage) ==
    MaxTotalStorage > 0 => globalUsage + bytes <= MaxTotalStorage

GlobalFits(bytes, globalUsage) ==
    MaxTotalStorage > 0 =>
        globalUsage + totalReserved + bytes <= MaxTotalStorage

CanAcquire(room, bytes, roomUsage, roomCount, globalUsage) ==
    /\ bytes > 0
    /\ SlotFree(room, roomCount)
    /\ RoomFits(room, bytes, roomUsage)
    /\ GlobalFits(bytes, globalUsage)

\* Sums below zero are not kept: the code deletes the entry.
NotBelowZero(n) == IF n <= 0 THEN 0 ELSE n

(***************************************************************************)
(* The four methods.                                                       *)
(***************************************************************************)
\* A fresh random identifier is one no live reservation has.
Acquire(id, room, bytes, roomUsage, roomCount, globalUsage) ==
    /\ id \notin Live
    /\ CanAcquire(room, bytes, roomUsage, roomCount, globalUsage)
    /\ reservations' = [i \in Live \union {id} |->
            IF i = id THEN [room |-> room, bytes |-> bytes, files |-> 1]
                      ELSE reservations[i]]
    /\ roomFiles' = [roomFiles EXCEPT ![room] = @ + 1]
    /\ roomReserved' = [roomReserved EXCEPT ![room] = @ + bytes]
    /\ totalReserved' = totalReserved + bytes

CanGrow(id, bytes, roomUsage, globalUsage) ==
    /\ id \in Live
    /\ RoomFits(reservations[id].room, bytes, roomUsage)
    /\ GlobalFits(bytes, globalUsage)

Grow(id, bytes, roomUsage, globalUsage) ==
    /\ bytes > 0
    /\ CanGrow(id, bytes, roomUsage, globalUsage)
    /\ reservations' = [reservations EXCEPT ![id].bytes = @ + bytes]
    /\ roomReserved' = [roomReserved EXCEPT ![reservations[id].room] = @ + bytes]
    /\ totalReserved' = totalReserved + bytes
    /\ UNCHANGED roomFiles

Shrink(id, target) ==
    LET kept  == NotBelowZero(target)
        delta == reservations[id].bytes - kept
    IN  /\ id \in Live
        /\ kept < reservations[id].bytes
        /\ reservations' = [reservations EXCEPT ![id].bytes = kept]
        /\ roomReserved' = [roomReserved EXCEPT
                ![reservations[id].room] = NotBelowZero(@ - delta)]
        /\ totalReserved' = NotBelowZero(totalReserved - delta)
        /\ UNCHANGED roomFiles

\* Mutant: the file slot is not handed back.
ReleaseKeepsSlot(id) ==
    LET res == reservations[id]
    IN  /\ id \in Live
        /\ roomReserved' = [roomReserved EXCEPT
                ![res.room] = NotBelowZero(@ - res.bytes)]
        /\ totalReserved' = NotBelowZero(totalReserved - res.bytes)
        /\ reservations' = [i \in Live \ {id} |-> reservations[i]]
        /\ UNCHANGED roomFiles

Release(id) ==
    LET res == reservations[id]
    IN  /\ id \in Live
        /\ roomFiles' = [roomFiles EXCEPT ![res.room] = NotBelowZero(@ - res.files)]
        /\ roomReserved' = [roomReserved EXCEPT
                ![res.room] = NotBelowZero(@ - res.bytes)]
        /\ totalReserved' = NotBelowZero(totalReserved - res.bytes)
        /\ reservations' = [i \in Live \ {id} |-> reservations[i]]

\* A new process starts with NewQuotaManager: what was in flight is forgotten.
Restart ==
    /\ reservations' = [id \in {} |-> 0]
    /\ roomReserved' = [room \in Rooms |-> 0]
    /\ roomFiles' = [room \in Rooms |-> 0]
    /\ totalReserved' = 0

(***************************************************************************)
(* The ledger by itself, under callers who pass anything; Upload is the    *)
(* caller the code has.                                                    *)
(***************************************************************************)
AcquireSome(id) ==
    \E room \in Rooms, bytes \in Int, usage, count, global \in Nat :
        Acquire(id, room, bytes, usage, count, global)

GrowSome(id) ==
    \E bytes \in Int, usage, global \in Nat : Grow(id, bytes, usage, global)

ShrinkSome(id) == \E target \in Int : Shrink(id, target)

LedgerNext ==
    \/ \E id \in ResIds :
        \/ AcquireSome(id)
        \/ GrowSome(id)
        \/ ShrinkSome(id)
        \/ Release(id)
    \/ Restart

LedgerSpec == LedgerInit /\ [][LedgerNext]_ledger

-----------------------------------------------------------------------------
\* The ledger's maps hold what their Go types hold, and no negative count.
LedgerTypeOK ==
    /\ Live \subseteq ResIds
    /\ reservations \in [Live -> Reservation]
    /\ roomReserved \in [Rooms -> Nat]
    /\ roomFiles \in [Rooms -> Nat]
    /\ totalReserved \in Nat

(***************************************************************************)
(* The counters Acquire and Grow decide by are exactly what the live       *)
(* reservations add up to, after any sequence of calls: no byte and no     *)
(* file slot is leaked or returned twice, and the clamps to zero in Shrink *)
(* and Release never hide a difference.                                    *)
(***************************************************************************)
FilesExact == \A room \in Rooms : roomFiles[room] = Cardinality(InRoom(room))
RoomBytesExact ==
    \A room \in Rooms : roomReserved[room] = Tally(bytesOf, InRoom(room))
TotalExact == totalReserved = Tally(bytesOf, Live)

CountersExact == FilesExact /\ RoomBytesExact /\ TotalExact

(***************************************************************************)
(* Whatever usage figures the callers pass, however stale, the in-flight   *)
(* reservations by themselves never exceed a limit.                        *)
(***************************************************************************)
ReservedWithinLimits ==
    /\ \A room \in Rooms : roomReserved[room] <= MaxRoomSize
    /\ MaxFiles > 0 => \A room \in Rooms : roomFiles[room] <= MaxFiles
    /\ MaxTotalStorage > 0 => totalReserved <= MaxTotalStorage

=============================================================================
