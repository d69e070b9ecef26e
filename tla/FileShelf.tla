----------------------------- MODULE FileShelf -----------------------------
(***************************************************************************)
(* What the upload pipeline promises to the people in a room: a file       *)
(* becomes visible at one instant, complete, in a room that exists, and    *)
(* disappears only together with its room.                                 *)
(***************************************************************************)
EXTENDS Integers

CONSTANTS Files, Rooms, MaxFileSize

VARIABLES openRooms,   \* rooms that exist
          shelf        \* the visible files, with room and size

shelfVars == <<openRooms, shelf>>

Entry == [file : Files, room : Rooms, size : 1 .. MaxFileSize]

ShelfInit == openRooms = Rooms /\ shelf = {}

Publish(entry) ==
    /\ entry.room \in openRooms
    /\ \A e \in shelf : e.file # entry.file
    /\ shelf' = shelf \union {entry}
    /\ UNCHANGED openRooms

DropRoom(room) ==
    /\ room \in openRooms
    /\ openRooms' = openRooms \ {room}
    /\ shelf' = {e \in shelf : e.room # room}

ShelfNext ==
    \/ \E entry \in Entry : Publish(entry)
    \/ \E room \in Rooms : DropRoom(room)

ShelfSpec == ShelfInit /\ [][ShelfNext]_shelfVars
=============================================================================
