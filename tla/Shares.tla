------------------------------- MODULE Shares -------------------------------
(***************************************************************************)
(* The public shares of one room: CreateShare, RevokeShare and GetByToken  *)
(* of internal/share/share.go under the handlers of internal/app/app.go.   *)
(*                                                                         *)
(* To create a share the creator's request reads the room, counts the      *)
(* active shares, looks for the file and inserts the share's row: four     *)
(* statements, with other requests, the sweep and time between them.       *)
(*                                                                         *)
(* Time is counted in ticks; a stored time is cut to whole seconds.  The   *)
(* room's status changes are module RoomLifecycle's; here they just come.  *)
(***************************************************************************)
EXTENDS Integers, FiniteSets

CONSTANTS Creators,     \* requests of the creator that run at the same time
          ShareIds,     \* identifiers of the shares made during the run
          Files,        \* the room's ready files
          MaxShares,    \* MaxSharesPerRoom
          MaxShareTtl,  \* MaxShareTTL, in ticks
          Ttls,         \* lifetimes asked for
          RoomExpires,  \* end of the room's lifetime
          Second,       \* ticks in a second
          MaxTime       \* the clock stops here (bound)

ASSUME SharesAssumption ==
    /\ IsFiniteSet(Creators) /\ IsFiniteSet(ShareIds) /\ Files # {}
    /\ MaxShares \in Nat \ {0} /\ MaxShareTtl \in Nat \ {0} /\ Ttls \subseteq Nat
    /\ Second \in Nat \ {0} /\ RoomExpires \in Nat /\ RoomExpires % Second = 0
    /\ MaxTime \in Nat

VARIABLES now,
          status,   \* the room's status
          files,    \* ready files in the files table
          shares,   \* rows of the shares table: id |-> file, status, expires
          req       \* creator's request |-> step, file, lifetime, start

vars == <<now, status, files, shares, req>>

Text(t) == t - (t % Second)
Least(a, b) == IF a <= b THEN a ELSE b
Rows == DOMAIN shares

Idle == [pc |-> "idle", file |-> CHOOSE f \in Files : TRUE, ttl |-> 0, start |-> 0]

Init ==
    /\ now = 0
    /\ status = "active"
    /\ files = Files
    /\ shares = [s \in {} |-> 0]
    /\ req = [c \in Creators |-> Idle]

Goto(c, pc) == req' = [req EXCEPT ![c].pc = pc]
Reply(c) == req' = [req EXCEPT ![c] = Idle]

Tick == now < MaxTime /\ now' = now + 1 /\ UNCHANGED <<status, files, shares, req>>

-----------------------------------------------------------------------------
\* room.GetByToken grants: the room is active or counting down.
ReadRoom(c) ==
    \E file \in Files, ttl \in Ttls :
        /\ req[c].pc = "idle"
        /\ status \in {"active", "closing"} /\ now <= RoomExpires
        /\ req' = [req EXCEPT ![c] =
                [pc |-> "count", file |-> file, ttl |-> ttl, start |-> 0]]
        /\ UNCHANGED <<now, status, files, shares>>

\* Mutant: only the shares of the same file are counted.
CountedSameFile(s, c) ==
    shares[s].status = "active" /\ shares[s].expires > Text(now)
        /\ shares[s].file = req[c].file

\* The rows that count against the limit, text compared with text.
Counted(s, c) == shares[s].status = "active" /\ shares[s].expires > Text(now)

CountShares(c) ==
    /\ req[c].pc = "count"
    /\ IF Cardinality({s \in Rows : Counted(s, c)}) >= MaxShares
       THEN Reply(c)
       ELSE req' = [req EXCEPT ![c].pc = "file", ![c].start = now]
    /\ UNCHANGED <<now, status, files, shares>>

\* The file must be there and the room's lifetime not over.
CheckFile(c) ==
    /\ req[c].pc = "file"
    /\ IF req[c].file \in files /\ req[c].start < RoomExpires
       THEN Goto(c, "insert") ELSE Reply(c)
    /\ UNCHANGED <<now, status, files, shares>>

\* Mutant: the share's lifetime is not cut to the room's.
LifetimeUncut(c) ==
    IF req[c].ttl <= 0 \/ req[c].ttl > MaxShareTtl THEN MaxShareTtl ELSE req[c].ttl

Lifetime(c) ==
    Least(IF req[c].ttl <= 0 \/ req[c].ttl > MaxShareTtl THEN MaxShareTtl ELSE req[c].ttl,
          RoomExpires - req[c].start)

\* The foreign keys refuse a share of a file that went with its room.
InsertShare(c) ==
    /\ req[c].pc = "insert"
    /\ IF req[c].file \in files
       THEN \E s \in ShareIds \ Rows :
               shares' = [i \in Rows \union {s} |->
                    IF i = s THEN [file |-> req[c].file, status |-> "active",
                                   expires |-> Text(req[c].start + Lifetime(c))]
                             ELSE shares[i]]
       ELSE UNCHANGED shares
    /\ Reply(c)
    /\ UNCHANGED <<now, status, files>>

\* One guarded update.  The request saw an open room before, as every room was.
RevokeShare(s) ==
    /\ s \in Rows /\ shares[s].status = "active"
    /\ shares' = [shares EXCEPT ![s].status = "revoked"]
    /\ UNCHANGED <<now, status, files, req>>

\* GetByToken, one query: what a visitor of the share's link may download.
CanDownload(s) ==
    /\ status = "active" /\ now <= RoomExpires
    /\ shares[s].status = "active" /\ now <= shares[s].expires

\* The room is closed, expires, and is swept: its rows go by cascade.
RoomMovesOn ==
    /\ \/ status = "active" /\ status' = "closing"
       \/ status \in {"active", "closing"} /\ status' = "ended"
    /\ UNCHANGED <<now, files, shares, req>>

DeleteRoom ==
    /\ status # "deleted"
    /\ status = "ended" \/ now >= RoomExpires
    /\ status' = "deleted"
    /\ files' = {}
    /\ shares' = [s \in {} |-> 0]
    /\ UNCHANGED <<now, req>>

\* Mutant: the comparison takes in the second to come.
SweepSharesEarly ==
    \E start \in 0 .. now :
        LET dead == {s \in Rows : shares[s].expires <= Text(start) + Second
                                    \/ shares[s].status = "revoked"}
        IN  /\ dead # {}
            /\ shares' = [s \in Rows \ dead |-> shares[s]]
            /\ UNCHANGED <<now, status, files, req>>

\* The last step of a cleanup pass, by the time at which the pass began.
SweepShares ==
    \E start \in 0 .. now :
        LET dead == {s \in Rows : shares[s].expires <= Text(start)
                                    \/ shares[s].status = "revoked"}
        IN  /\ dead # {}
            /\ shares' = [s \in Rows \ dead |-> shares[s]]
            /\ UNCHANGED <<now, status, files, req>>

CreateStep(c) == ReadRoom(c) \/ CountShares(c) \/ CheckFile(c) \/ InsertShare(c)

Next ==
    \/ Tick
    \/ \E c \in Creators : CreateStep(c)
    \/ \E s \in ShareIds : RevokeShare(s)
    \/ RoomMovesOn \/ DeleteRoom \/ SweepShares

Spec == Init /\ [][Next]_vars

-----------------------------------------------------------------------------
\* Rows and requests keep their types.
SharesTypeOK ==
    /\ now \in 0 .. MaxTime
    /\ status \in {"active", "closing", "ended", "deleted"}
    /\ files \subseteq Files
    /\ Rows \subseteq ShareIds
    /\ shares \in [Rows -> [file : Files, status : {"active", "revoked"}, expires : Nat]]
    /\ req \in [Creators -> [pc : {"idle", "count", "file", "insert"}, file : Files,
                             ttl : Ttls \union {0}, start : 0 .. MaxTime]]

(***************************************************************************)
(* The shares that can be downloaded exceed the limit by no more than the  *)
(* other requests that were between their count and their insert; with one *)
(* request at a time the limit is kept.  (At the very instant a share ends *)
(* it can still be downloaded but no longer counts.)                       *)
(***************************************************************************)
Usable == {s \in Rows : CanDownload(s) /\ now < shares[s].expires}

OvershootBounded == Cardinality(Usable) <= MaxShares + Cardinality(Creators) - 1

\* The limit as such, which concurrent requests do exceed.
SharesWithinLimit == Cardinality(Usable) <= MaxShares

(***************************************************************************)
(* No share outlives its room, neither its lifetime nor its row and files, *)
(* although a request may insert it long after it read the room.           *)
(***************************************************************************)
SharesDieWithRoom ==
    \A s \in Rows : shares[s].expires <= RoomExpires /\ shares[s].file \in files

(***************************************************************************)
(* The sweep, which compares text of the past, takes no share that can     *)
(* still be used; only its room's end or its creator does.                 *)
(***************************************************************************)
UsableSharesKept ==
    [][\A s \in Usable : s \in Rows' \/ status' = "deleted"]_vars
=============================================================================
