---------------------------- MODULE SharesProofs ----------------------------
(***************************************************************************)
(* The limit on shares and their end, for any number of requests, shares,  *)
(* files, any lifetimes and any length of a second.                        *)
(*                                                                         *)
(* The limit is not kept by the row count alone: what is bounded is the    *)
(* sum of the shares in force and of the requests between their count and  *)
(* their insert.  A request joins the sum only when it found room for it.  *)
(***************************************************************************)
EXTENDS Shares, FiniteSetTheorems, TLAPS

Request == [pc : {"idle", "count", "file", "insert"}, file : Files,
            ttl : Ttls \union {0}, start : 0 .. MaxTime]
Row == [file : Files, status : {"active", "revoked"}, expires : Nat]

\* The shares in force, whatever the room's status.
InForce == {s \in Rows : shares[s].status = "active" /\ now < shares[s].expires}

\* The requests that have been granted a place and not yet taken it.
Granted == {c \in Creators : req[c].pc \in {"file", "insert"}}

PlacesBounded ==
    Cardinality(InForce) + Cardinality(Granted) <= MaxShares + Cardinality(Creators) - 1

\* A request inserts only a share that started within the room's lifetime.
StartsInTime == \A c \in Creators : req[c].pc = "insert" => req[c].start < RoomExpires

SharesInv == SharesTypeOK /\ SharesDieWithRoom /\ StartsInTime /\ PlacesBounded

-----------------------------------------------------------------------------
LEMMA TextBounds ==
    ASSUME NEW t \in Nat
    PROVE  Text(t) \in Nat /\ Text(t) <= t
<1>1. Second \in Nat \ {0}
  BY SharesAssumption
<1>2. /\ t % Second \in 0 .. (Second - 1) /\ t \div Second \in Nat
      /\ t = Second * (t \div Second) + (t % Second)
  BY <1>1
<1>3. Second * (t \div Second) \in Nat
  BY <1>1, <1>2
<1> QED
  BY <1>1, <1>2, <1>3 DEF Text

\* A share that is inserted ends after now and with the room at the latest.
LEMMA LifetimeBounds ==
    ASSUME SharesTypeOK, NEW c \in Creators, req[c].start < RoomExpires
    PROVE  LET ends == Text(req[c].start + Lifetime(c))
           IN  ends \in Nat /\ ends <= RoomExpires
<1>1. /\ req[c].start \in Nat /\ req[c].ttl \in Nat /\ RoomExpires \in Nat
      /\ MaxShareTtl \in Nat
  <2>1. req[c] \in Request
    BY DEF SharesTypeOK, Request
  <2>2. req[c].start \in 0 .. MaxTime /\ req[c].ttl \in Ttls \union {0}
    BY <2>1 DEF Request
  <2>3. MaxTime \in Nat /\ RoomExpires \in Nat /\ MaxShareTtl \in Nat
        /\ \A t \in Ttls : t \in Nat
    BY SharesAssumption
  <2> QED
    BY <2>2, <2>3
<1>2. Lifetime(c) \in Nat /\ req[c].start + Lifetime(c) <= RoomExpires
  BY <1>1 DEF Lifetime, Least
<1>3. req[c].start + Lifetime(c) \in Nat
  BY <1>1, <1>2
<1> QED
  BY <1>1, <1>2, <1>3, TextBounds

LEMMA IdleType == Idle \in Request
  BY SharesAssumption DEF Idle, Request

LEMMA Finite ==
    ASSUME SharesTypeOK
    PROVE  /\ IsFiniteSet(InForce) /\ IsFiniteSet(Granted)
           /\ Cardinality(InForce) \in Nat /\ Cardinality(Granted) \in Nat
           /\ Cardinality(Creators) \in Nat /\ MaxShares \in Nat
           /\ Cardinality(Granted) <= Cardinality(Creators)
<1>1. InForce \subseteq ShareIds /\ Granted \subseteq Creators
  BY DEF InForce, Granted, SharesTypeOK
<1>2. IsFiniteSet(InForce) /\ IsFiniteSet(Granted) /\ IsFiniteSet(Creators)
      /\ Cardinality(Granted) <= Cardinality(Creators)
  BY <1>1, FS_Subset, SharesAssumption
<1> QED
  BY <1>2, FS_CardinalityType, SharesAssumption

\* Places are only given up: a step that adds neither a share nor a grant.
LEMMA PlacesGivenUp ==
    ASSUME SharesInv, SharesTypeOK', InForce' \subseteq InForce, Granted' \subseteq Granted
    PROVE  PlacesBounded'
<1>1. /\ IsFiniteSet(InForce) /\ IsFiniteSet(Granted)
      /\ Cardinality(InForce) \in Nat /\ Cardinality(Granted) \in Nat
      /\ Cardinality(Creators) \in Nat /\ MaxShares \in Nat
  BY Finite DEF SharesInv
<1>2. /\ Cardinality(InForce') <= Cardinality(InForce)
      /\ Cardinality(Granted') <= Cardinality(Granted)
      /\ IsFiniteSet(InForce') /\ IsFiniteSet(Granted')
  BY <1>1, FS_Subset
<1>3. Cardinality(InForce') \in Nat /\ Cardinality(Granted') \in Nat
  BY <1>2, FS_CardinalityType
<1> QED
  BY <1>1, <1>2, <1>3 DEF SharesInv, PlacesBounded

\* A request that moves and leaves the shares alone.
LEMMA RequestMoves ==
    ASSUME SharesInv, NEW c \in Creators, NEW r \in Request,
           req' = [req EXCEPT ![c] = r], UNCHANGED <<now, status, files, shares>>,
           r.pc = "insert" => r.start < RoomExpires
    PROVE  /\ SharesTypeOK' /\ SharesDieWithRoom' /\ StartsInTime'
           /\ InForce' = InForce
           /\ Granted' = IF r.pc \in {"file", "insert"} THEN Granted \union {c}
                         ELSE Granted \ {c}
<1>1. /\ req' \in [Creators -> Request] /\ req'[c] = r
      /\ \A d \in Creators \ {c} : req'[d] = req[d]
  BY DEF SharesInv, SharesTypeOK, Request
<1>2. SharesTypeOK'
  BY <1>1 DEF SharesInv, SharesTypeOK, Request, Rows
<1>3. SharesDieWithRoom'
  BY DEF SharesInv, SharesDieWithRoom, Rows
<1>4. StartsInTime'
  BY <1>1 DEF SharesInv, StartsInTime
<1>5. InForce' = InForce
  BY DEF InForce, Rows
<1>6. Granted' = IF r.pc \in {"file", "insert"} THEN Granted \union {c} ELSE Granted \ {c}
  BY <1>1 DEF Granted
<1> QED
  BY <1>2, <1>3, <1>4, <1>5, <1>6
-----------------------------------------------------------------------------
\* A request whose reply or whose check changes no place but its own.
LEMMA LeavesInForce ==
    ASSUME SharesInv, NEW c \in Creators, NEW r \in Request,
           req' = [req EXCEPT ![c] = r], UNCHANGED <<now, status, files, shares>>,
           r.pc = "insert" => r.start < RoomExpires,
           r.pc \in {"file", "insert"} => c \in Granted
    PROVE  SharesInv'
<1>1. /\ SharesTypeOK' /\ SharesDieWithRoom' /\ StartsInTime' /\ InForce' = InForce
      /\ Granted' = IF r.pc \in {"file", "insert"} THEN Granted \union {c}
                    ELSE Granted \ {c}
  BY RequestMoves
<1>2. Granted' \subseteq Granted
  BY <1>1
<1> QED
  BY <1>1, <1>2, PlacesGivenUp DEF SharesInv

LEMMA ReadRoomKeepsInv ==
    ASSUME SharesInv, NEW c \in Creators, ReadRoom(c)
    PROVE  SharesInv'
<1>1. PICK file \in Files, ttl \in Ttls :
         /\ req' = [req EXCEPT ![c] =
                [pc |-> "count", file |-> file, ttl |-> ttl, start |-> 0]]
         /\ UNCHANGED <<now, status, files, shares>>
  BY DEF ReadRoom
<1>2. [pc |-> "count", file |-> file, ttl |-> ttl, start |-> 0] \in Request
  BY SharesAssumption DEF Request
<1> QED
  BY <1>1, <1>2, LeavesInForce

\* The request joins when it has counted fewer than MaxShares: there are then
\* at most MaxShares - 1 shares in force and at most all requests granted.
LEMMA CountSharesKeepsInv ==
    ASSUME SharesInv, NEW c \in Creators, CountShares(c)
    PROVE  SharesInv'
<1>1. UNCHANGED <<now, status, files, shares>> /\ SharesTypeOK
  BY DEF CountShares, SharesInv
<1>2. CASE Reply(c)
  <2>1. Idle.pc = "idle"
    BY DEF Idle
  <2> QED
    BY <1>1, <1>2, <2>1, IdleType, LeavesInForce DEF Reply
<1>3. CASE ~Reply(c)
  <2> DEFINE counted == {s \in Rows : Counted(s, c)}
             r == [req[c] EXCEPT !.pc = "file", !.start = now]
  <2>1. ~(Cardinality(counted) >= MaxShares)
        /\ req' = [req EXCEPT ![c].pc = "file", ![c].start = now]
    BY <1>3 DEF CountShares
  <2>2. r \in Request /\ r.pc = "file" /\ req' = [req EXCEPT ![c] = r]
    BY <1>1, <2>1 DEF SharesTypeOK, Request
  <2> HIDE DEF r
  <2>3. /\ SharesTypeOK' /\ SharesDieWithRoom' /\ StartsInTime' /\ InForce' = InForce
    BY <1>1, <2>2, RequestMoves
  <2>4. InForce \subseteq counted
    <3>1. now \in Nat /\ Text(now) <= now /\ Text(now) \in Nat
      BY <1>1, SharesAssumption, TextBounds DEF SharesTypeOK
    <3>2. \A s \in Rows : shares[s].expires \in Nat
      BY <1>1 DEF SharesTypeOK
    <3> QED
      BY <3>1, <3>2 DEF InForce, Counted
  <2>5. IsFiniteSet(counted)
    BY <1>1, FS_Subset, SharesAssumption DEF SharesTypeOK
  <2> HIDE DEF counted
  <2>6. Cardinality(InForce) <= Cardinality(counted) /\ Cardinality(counted) \in Nat
    BY <2>4, <2>5, FS_Subset, FS_CardinalityType
  <2>7. /\ Cardinality(InForce)' \in Nat /\ Cardinality(Granted)' \in Nat
        /\ Cardinality(Granted)' <= Cardinality(Creators)
        /\ Cardinality(Creators) \in Nat /\ MaxShares \in Nat
    <3>1. (/\ Cardinality(InForce) \in Nat /\ Cardinality(Granted) \in Nat
           /\ Cardinality(Granted) <= Cardinality(Creators)
           /\ Cardinality(Creators) \in Nat /\ MaxShares \in Nat)'
      BY <2>3, Finite, PTL
    <3> QED
      BY <3>1
  <2>8. PlacesBounded'
    BY <2>1, <2>3, <2>6, <2>7 DEF PlacesBounded
  <2> QED
    BY <2>3, <2>8 DEF SharesInv
<1> QED
  BY <1>2, <1>3

LEMMA CheckFileKeepsInv ==
    ASSUME SharesInv, NEW c \in Creators, CheckFile(c)
    PROVE  SharesInv'
<1>1. UNCHANGED <<now, status, files, shares>> /\ SharesTypeOK /\ req[c].pc = "file"
  BY DEF CheckFile, SharesInv
<1>2. CASE Reply(c)
  <2>1. Idle.pc = "idle"
    BY DEF Idle
  <2> QED
    BY <1>1, <1>2, <2>1, IdleType, LeavesInForce DEF Reply
<1>3. CASE req[c].start < RoomExpires /\ Goto(c, "insert")
  <2> DEFINE r == [req[c] EXCEPT !.pc = "insert"]
  <2>1. /\ r \in Request /\ r.pc = "insert" /\ r.start = req[c].start
        /\ req' = [req EXCEPT ![c] = r]
    BY <1>1, <1>3 DEF SharesTypeOK, Request, Goto
  <2>2. c \in Granted
    BY <1>1 DEF Granted
  <2> HIDE DEF r
  <2> QED
    BY <1>1, <1>3, <2>1, <2>2, LeavesInForce
<1> QED
  BY <1>2, <1>3 DEF CheckFile

\* The insert turns the request's place into a share, or gives it up.
LEMMA InsertShareKeepsInv ==
    ASSUME SharesInv, NEW c \in Creators, InsertShare(c)
    PROVE  SharesInv'
<1>1. /\ UNCHANGED <<now, status, files>> /\ SharesTypeOK /\ Reply(c)
      /\ req[c].pc = "insert" /\ req[c].start < RoomExpires
      /\ c \in Granted /\ Idle \in Request /\ Idle.pc = "idle"
  BY IdleType DEF InsertShare, SharesInv, StartsInTime, Granted, Idle
<1>2. CASE UNCHANGED shares
  BY <1>1, <1>2, LeavesInForce DEF Reply
<1>3. CASE ~UNCHANGED shares
  <2> DEFINE ends == Text(req[c].start + Lifetime(c))
             row == [file |-> req[c].file, status |-> "active", expires |-> ends]
  <2>1. /\ req[c].file \in files
        /\ \E s \in ShareIds \ Rows :
              shares' = [i \in Rows \union {s} |-> IF i = s THEN row ELSE shares[i]]
    BY <1>3 DEF InsertShare
  <2>2. PICK s \in ShareIds \ Rows :
              shares' = [i \in Rows \union {s} |-> IF i = s THEN row ELSE shares[i]]
    BY <2>1
  <2>3. ends \in Nat /\ ends <= RoomExpires
    BY <1>1, LifetimeBounds
  <2> HIDE DEF ends
  <2>4. row \in Row /\ row.expires = ends /\ row.file = req[c].file
    BY <1>1, <2>3 DEF Row, SharesTypeOK
  <2> HIDE DEF row
  <2>5. /\ Rows' = Rows \union {s} /\ shares'[s] = row
        /\ \A i \in Rows : shares'[i] = shares[i]
    BY <2>2 DEF Rows
  <2>6. req' \in [Creators -> Request] /\ req' = [req EXCEPT ![c] = Idle]
    BY <1>1 DEF SharesTypeOK, Request, Reply
  <2>7. SharesTypeOK'
    <3>1. shares' \in [Rows' -> Row] /\ Rows' \subseteq ShareIds
      BY <1>1, <2>2, <2>4, <2>5 DEF SharesTypeOK, Row
    <3> QED
      BY <1>1, <2>6, <3>1 DEF SharesTypeOK, Request, Row
  <2>8. SharesDieWithRoom'
    BY <1>1, <2>1, <2>3, <2>4, <2>5 DEF SharesInv, SharesDieWithRoom
  <2>9. StartsInTime'
    BY <1>1, <2>6 DEF SharesInv, SharesTypeOK, StartsInTime
  <2>10. /\ Granted' = Granted \ {c}
         /\ InForce' \subseteq InForce \union {s} /\ s \notin InForce
    <3>1. Granted' = Granted \ {c}
      BY <1>1, <2>6 DEF SharesTypeOK, Granted
    <3>2. InForce' \subseteq InForce \union {s}
      BY <1>1, <2>5 DEF InForce
    <3> QED
      BY <3>1, <3>2 DEF InForce
  <2>11. PlacesBounded'
    <3>1. /\ IsFiniteSet(InForce) /\ IsFiniteSet(Granted)
          /\ Cardinality(InForce) \in Nat /\ Cardinality(Granted) \in Nat
          /\ Cardinality(Creators) \in Nat /\ MaxShares \in Nat
      BY <1>1, Finite
    <3>2. Cardinality(Granted') = Cardinality(Granted) - 1
      BY <1>1, <2>10, <3>1, FS_RemoveElement
    <3>3. /\ IsFiniteSet(InForce \union {s})
          /\ Cardinality(InForce \union {s}) = Cardinality(InForce) + 1
      BY <2>10, <3>1, FS_AddElement
    <3>4. /\ Cardinality(InForce') <= Cardinality(InForce) + 1
          /\ IsFiniteSet(InForce')
      BY <2>10, <3>3, FS_Subset
    <3>5. Cardinality(InForce') \in Nat
      BY <3>4, FS_CardinalityType
    <3> QED
      BY <3>1, <3>2, <3>4, <3>5 DEF SharesInv, PlacesBounded
  <2> QED
    BY <2>7, <2>8, <2>9, <2>11 DEF SharesInv
<1> QED
  BY <1>2, <1>3

\* The rest of the world only ends shares.
LEMMA WorldKeepsInv ==
    ASSUME SharesInv,
           \/ Tick \/ RoomMovesOn \/ DeleteRoom \/ SweepShares
           \/ \E s \in ShareIds : RevokeShare(s)
    PROVE  SharesInv'
<1>1. SharesTypeOK /\ SharesDieWithRoom
  BY DEF SharesInv
<1>2. req' = req /\ Granted' = Granted
  BY DEF Tick, RoomMovesOn, DeleteRoom, SweepShares, RevokeShare, Granted
<1>3. StartsInTime'
  BY <1>2 DEF SharesInv, StartsInTime
<1>4. CASE Tick
  <2>1. SharesTypeOK'
    BY <1>1, <1>4, SharesAssumption DEF Tick, SharesTypeOK, Rows
  <2>2. SharesDieWithRoom'
    BY <1>1, <1>4 DEF Tick, SharesDieWithRoom, Rows
  <2>3. InForce' \subseteq InForce
    <3>1. now \in Nat /\ now' = now + 1 /\ shares' = shares
          /\ \A s \in Rows : shares[s].expires \in Nat
      BY <1>1, <1>4, SharesAssumption DEF Tick, SharesTypeOK
    <3> QED
      BY <3>1 DEF InForce, Rows
  <2> QED
    BY <1>2, <1>3, <2>1, <2>2, <2>3, PlacesGivenUp DEF SharesInv
<1>5. CASE RoomMovesOn
  <2>1. UNCHANGED <<now, files, shares, req>>
        /\ status' \in {"active", "closing", "ended", "deleted"}
    BY <1>5 DEF RoomMovesOn
  <2>2. SharesTypeOK' /\ SharesDieWithRoom' /\ InForce' \subseteq InForce
    BY <1>1, <2>1 DEF SharesTypeOK, SharesDieWithRoom, Rows, InForce
  <2> QED
    BY <1>2, <1>3, <2>2, PlacesGivenUp DEF SharesInv
<1>6. CASE DeleteRoom
  <2>1. UNCHANGED <<now, req>> /\ files' = {} /\ status' = "deleted" /\ Rows' = {}
        /\ shares' = [s \in {} |-> 0]
    BY <1>6 DEF DeleteRoom, Rows
  <2>2. SharesTypeOK'
    BY <1>1, <2>1 DEF SharesTypeOK
  <2>3. SharesDieWithRoom' /\ InForce' \subseteq InForce
    BY <2>1 DEF SharesDieWithRoom, InForce
  <2> QED
    BY <1>2, <1>3, <2>2, <2>3, PlacesGivenUp DEF SharesInv
<1>7. CASE SweepShares
  <2>1. PICK dead \in SUBSET Rows : shares' = [s \in Rows \ dead |-> shares[s]]
                                    /\ UNCHANGED <<now, status, files, req>>
    <3>1. PICK start \in 0 .. now :
            shares' = [s \in Rows \ {s \in Rows : shares[s].expires <= Text(start)
                                        \/ shares[s].status = "revoked"} |-> shares[s]]
              /\ UNCHANGED <<now, status, files, req>>
      BY <1>7 DEF SweepShares
    <3> QED
      BY <3>1
  <2>2. Rows' = Rows \ dead /\ \A s \in Rows' : shares'[s] = shares[s]
    BY <2>1 DEF Rows
  <2>3. SharesTypeOK'
    BY <1>1, <2>1, <2>2 DEF SharesTypeOK
  <2>4. SharesDieWithRoom' /\ InForce' \subseteq InForce
    BY <1>1, <2>1, <2>2 DEF SharesDieWithRoom, InForce
  <2> QED
    BY <1>2, <1>3, <2>3, <2>4, PlacesGivenUp DEF SharesInv
<1>8. ASSUME NEW s \in ShareIds, RevokeShare(s)
      PROVE  SharesInv'
  <2>1. /\ UNCHANGED <<now, status, files, req>> /\ s \in Rows
        /\ shares' = [shares EXCEPT ![s].status = "revoked"]
    BY <1>8 DEF RevokeShare
  <2>2. /\ shares \in [Rows -> Row]
    BY <1>1 DEF SharesTypeOK, Row
  <2>3. /\ Rows' = Rows /\ shares' \in [Rows -> Row]
        /\ shares'[s].status = "revoked"
        /\ \A i \in Rows : shares'[i].file = shares[i].file
                           /\ shares'[i].expires = shares[i].expires
        /\ \A i \in Rows \ {s} : shares'[i] = shares[i]
    BY <2>1, <2>2 DEF Rows, Row
  <2>4. SharesTypeOK'
    BY <1>1, <2>1, <2>3 DEF SharesTypeOK, Row
  <2>5. SharesDieWithRoom' /\ InForce' \subseteq InForce
    BY <1>1, <2>1, <2>3 DEF SharesDieWithRoom, InForce
  <2> QED
    BY <1>2, <1>3, <2>4, <2>5, PlacesGivenUp DEF SharesInv
<1> QED
  BY <1>4, <1>5, <1>6, <1>7, <1>8

\* The shares in force and the requests on their way to one are bounded
\* together, and no share outlives its room (share.go:77-276).
THEOREM SharesInvariant == Spec => []SharesInv
<1>1. Init => SharesInv
  <2> SUFFICES ASSUME Init PROVE SharesInv
    OBVIOUS
  <2>1. Rows = {} /\ InForce = {} /\ Granted = {}
    BY DEF Init, Rows, InForce, Granted, Idle
  <2>2. SharesTypeOK
    BY <2>1, IdleType, SharesAssumption DEF Init, SharesTypeOK, Request
  <2>3. Cardinality(InForce) = 0 /\ Cardinality(Granted) = 0
    BY <2>1, FS_EmptySet
  <2>4. Cardinality(Creators) \in Nat /\ MaxShares \in Nat \ {0}
    BY SharesAssumption, FS_CardinalityType
  <2>5. PlacesBounded
    BY <2>3, <2>4 DEF PlacesBounded
  <2>6. SharesDieWithRoom /\ StartsInTime
    BY <2>1 DEF Init, SharesDieWithRoom, StartsInTime, Idle
  <2> QED
    BY <2>2, <2>5, <2>6 DEF SharesInv
<1>2. SharesInv /\ [Next]_vars => SharesInv'
  <2> SUFFICES ASSUME SharesInv, [Next]_vars PROVE SharesInv'
    OBVIOUS
  <2>1. CASE UNCHANGED vars
    BY <2>1 DEF vars, SharesInv, SharesTypeOK, Rows, SharesDieWithRoom, StartsInTime,
                PlacesBounded, InForce, Granted
  <2> QED
    BY <2>1, ReadRoomKeepsInv, CountSharesKeepsInv, CheckFileKeepsInv,
       InsertShareKeepsInv, WorldKeepsInv DEF Next, CreateStep
<1> QED
  BY <1>1, <1>2, PTL DEF Spec

\* Rows and requests keep their types.
THEOREM SharesTypeCorrect == Spec => []SharesTypeOK
<1>1. SharesInv => SharesTypeOK
  BY DEF SharesInv
<1> QED
  BY <1>1, SharesInvariant, PTL

\* No share outlives its room, in time or in the tables (share.go:116-131).
THEOREM SharesAlwaysDieWithRoom == Spec => []SharesDieWithRoom
<1>1. SharesInv => SharesDieWithRoom
  BY DEF SharesInv
<1> QED
  BY <1>1, SharesInvariant, PTL

\* With n requests at a time the limit of CreateShare (share.go:86-101) is
\* exceeded by n - 1 at most.
THEOREM OvershootAlwaysBounded == Spec => []OvershootBounded
<1>1. SharesInv => OvershootBounded
  <2> SUFFICES ASSUME SharesInv PROVE OvershootBounded
    OBVIOUS
  <2>1. /\ IsFiniteSet(InForce)
        /\ Cardinality(InForce) \in Nat /\ Cardinality(Granted) \in Nat
        /\ Cardinality(Creators) \in Nat /\ MaxShares \in Nat
    BY Finite DEF SharesInv
  <2>2. Usable \subseteq InForce
    BY DEF Usable, InForce, CanDownload
  <2>3. Cardinality(Usable) <= Cardinality(InForce) /\ IsFiniteSet(Usable)
    BY <2>1, <2>2, FS_Subset
  <2>4. Cardinality(Usable) \in Nat
    BY <2>3, FS_CardinalityType
  <2> QED
    BY <2>1, <2>3, <2>4 DEF SharesInv, PlacesBounded, OvershootBounded
<1> QED
  BY <1>1, SharesInvariant, PTL

\* The sweep of cleanup.go:181-190 takes no share that can still be used.
THEOREM UsableSharesAlwaysKept == Spec => UsableSharesKept
<1>1. SharesInv /\ [Next]_vars
        => (\A s \in Usable : s \in Rows' \/ status' = "deleted")
  <2> SUFFICES ASSUME SharesInv, [Next]_vars, NEW s \in Usable, s \notin Rows'
               PROVE  status' = "deleted"
    OBVIOUS
  <2>1. /\ s \in Rows /\ shares[s].status = "active" /\ now < shares[s].expires
        /\ now \in Nat /\ shares[s].expires \in Nat
    BY SharesAssumption DEF Usable, CanDownload, SharesInv, SharesTypeOK
  <2>2. ~SweepShares
    <3> SUFFICES ASSUME SweepShares PROVE FALSE
      OBVIOUS
    <3>1. PICK start \in 0 .. now :
            shares' = [i \in Rows \ {i \in Rows : shares[i].expires <= Text(start)
                                        \/ shares[i].status = "revoked"} |-> shares[i]]
      BY DEF SweepShares
    <3>2. start \in Nat /\ start <= now /\ Text(start) \in Nat /\ Text(start) <= start
      BY <2>1, TextBounds
    <3>3. ~(shares[s].expires <= Text(start)) /\ shares[s].status # "revoked"
      BY <2>1, <3>2
    <3> QED
      BY <2>1, <3>1, <3>3 DEF Rows
  <2>3. \A c \in Creators : CreateStep(c) => s \in Rows'
    BY <2>1 DEF CreateStep, ReadRoom, CountShares, CheckFile, InsertShare, Rows
  <2>4. \A i \in ShareIds : RevokeShare(i) => s \in Rows'
    BY <2>1 DEF RevokeShare, Rows
  <2>5. Tick \/ RoomMovesOn \/ UNCHANGED vars => s \in Rows'
    BY <2>1 DEF Tick, RoomMovesOn, vars, Rows
  <2>6. DeleteRoom => status' = "deleted"
    BY DEF DeleteRoom
  <2> QED
    BY <2>2, <2>3, <2>4, <2>5, <2>6 DEF Next
<1> QED
  BY <1>1, SharesInvariant, PTL DEF Spec, UsableSharesKept
=============================================================================
