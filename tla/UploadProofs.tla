---------------------------- MODULE UploadProofs ----------------------------
(***************************************************************************)
(* The safety of the upload pipeline and of the quota manager below it,    *)
(* for any number of uploads and rooms, any limits and chunk sizes.        *)
(*                                                                         *)
(* First the ledger by itself: its counters are exact and within the       *)
(* limits, whatever usage figures its callers pass.  The limits follow     *)
(* from the guards; the clamps are harmless because the counters are       *)
(* exact.                                                                  *)
(*                                                                         *)
(* Then the uploads.  Their invariant is a statement about one upload at a *)
(* time, UploadOK(u): it relates the upload's place in StreamUpload to its *)
(* reservation, its files and its row.  A step of an upload leaves all     *)
(* that belongs to the others alone, so it is enough to look at the upload *)
(* that moves.                                                             *)
(*                                                                         *)
(* Last what the rooms are committed to: each upload has an account, the   *)
(* bytes of its row or of its reservation, and only the steps that ask the *)
(* quota manager for bytes raise one.                                      *)
(***************************************************************************)
EXTENDS Upload, FiniteSetTheorems, TLAPS


(***************************************************************************)
(* What a tally over a finite set of holders is worth when one holder is   *)
(* set apart, and that it depends on the amounts of its holders only.      *)
(***************************************************************************)

\* The units of one holder are as many as its amount.
LEMMA UnitsOfOne ==
    ASSUME NEW h, NEW n \in Nat
    PROVE  /\ IsFiniteSet({h} \X (1 .. n))
           /\ Cardinality({h} \X (1 .. n)) = n
<1>1. IsFiniteSet({h}) /\ Cardinality({h}) = 1
  BY FS_Singleton
<1>2. IsFiniteSet(1 .. n) /\ Cardinality(1 .. n) = n
  BY FS_Interval
<1>3. /\ IsFiniteSet({h} \X (1 .. n))
      /\ Cardinality({h} \X (1 .. n)) = Cardinality({h}) * Cardinality(1 .. n)
  BY <1>1, <1>2, FS_Product, Zenon
<1>4. Cardinality({h} \X (1 .. n)) = 1 * n
  BY <1>1, <1>2, <1>3, Zenon
<1> QED
  BY <1>3, <1>4

\* The units of finitely many holders are finitely many.
LEMMA UnitsFinite ==
    ASSUME NEW amount, NEW S, IsFiniteSet(S), \A h \in S : amount[h] \in Nat
    PROVE  IsFiniteSet(Units(amount, S))
<1> DEFINE Own == { {h} \X (1 .. amount[h]) : h \in S }
           own == [h \in S |-> {h} \X (1 .. amount[h])]
<1>1. own \in Surjection(S, Own)
  BY DEF Surjection
<1>2. IsFiniteSet(Own)
  BY <1>1, FS_Surjection
<1>3. ASSUME NEW T \in Own
      PROVE  IsFiniteSet(T)
  <2>1. PICK h \in S : T = {h} \X (1 .. amount[h])
    OBVIOUS
  <2>2. IsFiniteSet({h} \X (1 .. amount[h]))
    BY UnitsOfOne
  <2> QED
    BY <2>1, <2>2, Zenon
<1> QED
  BY <1>2, <1>3, FS_UNION DEF Units

\* A tally is a natural number, and nothing is held by nobody.
LEMMA TallyType ==
    ASSUME NEW amount, NEW S, IsFiniteSet(S), \A h \in S : amount[h] \in Nat
    PROVE  Tally(amount, S) \in Nat
  BY UnitsFinite, FS_CardinalityType DEF Tally

LEMMA TallyEmpty ==
    ASSUME NEW amount
    PROVE  Tally(amount, {}) = 0
<1>1. Units(amount, {}) = {}
  BY DEF Units
<1> QED
  BY <1>1, FS_EmptySet DEF Tally

\* Setting one holder apart lowers the tally by its amount.
LEMMA TallySplit ==
    ASSUME NEW amount, NEW S, IsFiniteSet(S), \A h \in S : amount[h] \in Nat,
           NEW h \in S
    PROVE  Tally(amount, S) = Tally(amount, S \ {h}) + amount[h]
<1> DEFINE One == {h} \X (1 .. amount[h])
           Rest == Units(amount, S \ {h})
<1>1. Units(amount, S) = Rest \union One
  BY DEF Units
<1>2. Rest \intersect One = {}
  BY DEF Units
<1>3. IsFiniteSet(S \ {h})
  BY FS_RemoveElement
<1>4. IsFiniteSet(Rest) /\ Cardinality(Rest) \in Nat
  BY <1>3, UnitsFinite, FS_CardinalityType
<1>5. IsFiniteSet(One) /\ Cardinality(One) = amount[h]
  BY UnitsOfOne
<1> HIDE DEF One, Rest
<1>6. Cardinality(Rest \union One)
        = Cardinality(Rest) + Cardinality(One) - Cardinality(Rest \intersect One)
  BY <1>4, <1>5, FS_Union
<1>7. Cardinality(Rest \intersect One) = 0
  BY <1>2, FS_EmptySet, Zenon
<1>8. Cardinality(One) = amount[h] /\ amount[h] \in Nat
  BY <1>5
<1>9. Cardinality(Rest \union One) = Cardinality(Rest) + amount[h]
  BY <1>4, <1>6, <1>7, <1>8
<1> QED
  BY <1>1, <1>9 DEF Tally, Rest

\* A tally depends on the amounts of its own holders only.
LEMMA TallySame ==
    ASSUME NEW f, NEW g, NEW S, \A h \in S : f[h] = g[h]
    PROVE  Tally(f, S) = Tally(g, S)
<1>1. Units(f, S) = Units(g, S)
  BY DEF Units
<1> QED
  BY <1>1 DEF Tally

\* Changing the amount of one holder moves the tally by the difference.
LEMMA TallyChange ==
    ASSUME NEW f, NEW g, NEW S, IsFiniteSet(S), NEW h \in S,
           \A x \in S : f[x] \in Nat /\ g[x] \in Nat,
           \A x \in S \ {h} : f[x] = g[x]
    PROVE  Tally(g, S) = Tally(f, S) + g[h] - f[h]
<1>1. Tally(f, S) = Tally(f, S \ {h}) + f[h]
  BY TallySplit
<1>2. Tally(g, S) = Tally(g, S \ {h}) + g[h]
  BY TallySplit
<1>3. Tally(f, S \ {h}) = Tally(g, S \ {h})
  BY TallySame
<1>4. IsFiniteSet(S \ {h})
  BY FS_RemoveElement
<1>5. Tally(f, S \ {h}) \in Nat
  BY <1>4, TallyType
<1> QED
  BY <1>1, <1>2, <1>3, <1>5

\* A new holder adds its amount.
LEMMA TallyAdd ==
    ASSUME NEW f, NEW g, NEW S, IsFiniteSet(S), NEW h, h \notin S,
           \A x \in S : f[x] \in Nat /\ g[x] = f[x], g[h] \in Nat
    PROVE  Tally(g, S \union {h}) = Tally(f, S) + g[h]
<1>1. IsFiniteSet(S \union {h})
  BY FS_AddElement
<1>2. (S \union {h}) \ {h} = S
  OBVIOUS
<1>3. Tally(g, S \union {h}) = Tally(g, S) + g[h]
  BY <1>1, <1>2, TallySplit
<1>4. Tally(g, S) = Tally(f, S)
  BY TallySame
<1> QED
  BY <1>3, <1>4

\* A part of the holders holds no more than all of them.
LEMMA TallyMonotone ==
    ASSUME NEW amount, NEW S, IsFiniteSet(S), NEW T \in SUBSET S,
           \A h \in S : amount[h] \in Nat
    PROVE  Tally(amount, T) <= Tally(amount, S)
<1>1. Units(amount, T) \in SUBSET Units(amount, S)
  BY DEF Units
<1>2. IsFiniteSet(Units(amount, S))
  BY UnitsFinite
<1> QED
  BY <1>1, <1>2, FS_Subset DEF Tally

\* Holders with less hold less together.
LEMMA TallyLess ==
    ASSUME NEW f, NEW g, NEW S, IsFiniteSet(S),
           \A x \in S : f[x] \in Nat /\ g[x] \in Nat /\ f[x] <= g[x]
    PROVE  Tally(f, S) <= Tally(g, S)
<1>1. \A x \in S : 1 .. f[x] \subseteq 1 .. g[x]
  OBVIOUS
<1>2. Units(f, S) \in SUBSET Units(g, S)
  <2> SUFFICES ASSUME NEW unit \in Units(f, S)
               PROVE  unit \in Units(g, S)
    OBVIOUS
  <2>1. PICK x \in S : unit \in {x} \X (1 .. f[x])
    BY DEF Units
  <2>2. unit \in {x} \X (1 .. g[x])
    BY <1>1, <2>1
  <2> QED
    BY <2>2 DEF Units
<1>3. IsFiniteSet(Units(g, S))
  BY UnitsFinite
<1> QED
  BY <1>2, <1>3, FS_Subset DEF Tally

\* Those who hold nothing may be left out.
LEMMA TallyIdle ==
    ASSUME NEW amount, NEW S, NEW T \in SUBSET S, \A x \in S \ T : amount[x] = 0
    PROVE  Tally(amount, T) = Tally(amount, S)
<1>1. \A x \in S \ T : 1 .. amount[x] = {}
  OBVIOUS
<1>2. Units(amount, S) = Units(amount, T)
  BY <1>1 DEF Units
<1> QED
  BY <1>2 DEF Tally

\* Two groups apart, each with its own amounts, as one.
LEMMA TallyTogether ==
    ASSUME NEW f, NEW g, NEW h, NEW S, NEW T, IsFiniteSet(S), IsFiniteSet(T),
           S \intersect T = {},
           \A x \in S : f[x] \in Nat /\ h[x] = f[x],
           \A x \in T : g[x] \in Nat /\ h[x] = g[x]
    PROVE  Tally(f, S) + Tally(g, T) = Tally(h, S \union T)
<1>1. Tally(f, S) = Tally(h, S) /\ Tally(g, T) = Tally(h, T)
  BY TallySame
<1>2. IsFiniteSet(Units(h, S)) /\ IsFiniteSet(Units(h, T))
  BY UnitsFinite
<1>3. /\ Units(h, S \union T) = Units(h, S) \union Units(h, T)
      /\ Units(h, S) \intersect Units(h, T) = {}
  BY DEF Units
<1> DEFINE One == Units(h, S)
           Two == Units(h, T)
<1>4. Tally(h, S) = Cardinality(One) /\ Tally(h, T) = Cardinality(Two)
      /\ Tally(h, S \union T) = Cardinality(One \union Two)
  BY <1>3 DEF Tally
<1> HIDE DEF One, Two
<1>5. Cardinality(One \union Two)
        = Cardinality(One) + Cardinality(Two) - Cardinality(One \intersect Two)
  BY <1>2, FS_Union DEF One, Two
<1>6. Cardinality(One \intersect Two) = 0
  BY <1>3, FS_EmptySet, Zenon DEF One, Two
<1>7. Cardinality(One) \in Nat /\ Cardinality(Two) \in Nat
  BY <1>2, FS_CardinalityType DEF One, Two
<1> QED
  BY <1>1, <1>4, <1>5, <1>6, <1>7

(***************************************************************************)
(* The invariant and its steps.                                            *)
(***************************************************************************)

LedgerInv == LedgerTypeOK /\ CountersExact /\ ReservedWithinLimits

\* What the steps below use of a state: finite sets and natural amounts.
LEMMA LedgerShape ==
    ASSUME QuotaAssumption, LedgerTypeOK
    PROVE  /\ IsFiniteSet(Live)
           /\ \A room : IsFiniteSet(InRoom(room)) /\ InRoom(room) \subseteq Live
           /\ \A id \in Live : /\ bytesOf[id] = reservations[id].bytes
                               /\ bytesOf[id] \in Nat
                               /\ reservations[id].room \in Rooms
                               /\ reservations[id].files = 1
                               /\ id \in InRoom(reservations[id].room)
<1>1. IsFiniteSet(Live)
  BY FS_Subset DEF QuotaAssumption, LedgerTypeOK
<1>2. \A room : InRoom(room) \in SUBSET Live
  BY DEF InRoom
<1>3. \A room : IsFiniteSet(InRoom(room))
  BY <1>1, <1>2, FS_Subset
<1>4. \A id \in Live : reservations[id] \in Reservation
  BY DEF LedgerTypeOK
<1> QED
  BY <1>1, <1>2, <1>3, <1>4 DEF bytesOf, InRoom, Reservation

LEMMA InitEstablishesInv ==
    ASSUME QuotaAssumption, LedgerInit
    PROVE  LedgerInv
<1>1. Live = {}
  BY DEF LedgerInit, Live
<1>2. LedgerTypeOK
  BY <1>1 DEF LedgerTypeOK, LedgerInit, Live
<1>3. \A room : InRoom(room) = {}
  BY <1>1 DEF InRoom
<1>4. CountersExact
  BY <1>1, <1>3, FS_EmptySet, TallyEmpty
     DEF CountersExact, FilesExact, RoomBytesExact, TotalExact, LedgerInit
<1>5. ReservedWithinLimits
  BY DEF ReservedWithinLimits, LedgerInit, QuotaAssumption
<1> QED
  BY <1>2, <1>4, <1>5 DEF LedgerInv

\* A new process begins in such a state again.
LEMMA RestartEstablishesInv ==
    ASSUME QuotaAssumption, Restart
    PROVE  LedgerInv'
<1>1. Live' = {}
  BY DEF Restart, Live
<1>2. LedgerTypeOK'
  BY <1>1 DEF LedgerTypeOK, Restart, Live
<1>3. \A room : InRoom(room)' = {}
  BY <1>1 DEF InRoom
<1>4. CountersExact'
  BY <1>1, <1>3, FS_EmptySet, TallyEmpty
     DEF CountersExact, FilesExact, RoomBytesExact, TotalExact, Restart
<1>5. ReservedWithinLimits'
  BY DEF ReservedWithinLimits, Restart, QuotaAssumption
<1> QED
  BY <1>2, <1>4, <1>5 DEF LedgerInv

-----------------------------------------------------------------------------
\* Acquire adds one holder, to one room.
LEMMA AcquireKeepsInv ==
    ASSUME QuotaAssumption, LedgerInv,
           NEW id \in ResIds, NEW room \in Rooms, NEW bytes \in Int,
           NEW usage \in Nat, NEW count \in Nat, NEW global \in Nat,
           Acquire(id, room, bytes, usage, count, global)
    PROVE  LedgerInv'
<1> USE DEF LedgerInv
<1>1. /\ bytes \in Nat /\ usage \in Nat /\ count \in Nat /\ global \in Nat
      /\ MaxRoomSize \in Nat /\ MaxFiles \in Nat /\ MaxTotalStorage \in Nat
  <2>1. bytes > 0
    BY DEF Acquire, CanAcquire
  <2> QED
    BY <2>1 DEF QuotaAssumption
<1>2. id \notin Live /\ Live' = Live \union {id}
  BY DEF Acquire, Live
<1>3. /\ reservations'[id] = [room |-> room, bytes |-> bytes, files |-> 1]
      /\ \A i \in Live : reservations'[i] = reservations[i]
  BY <1>2 DEF Acquire
<1>4. /\ bytesOf'[id] = bytes
      /\ \A i \in Live : bytesOf'[i] = bytesOf[i] /\ bytesOf[i] \in Nat
  BY <1>2, <1>3, LedgerShape DEF bytesOf
<1>5. LedgerTypeOK'
  <2>1. Live' \subseteq ResIds
    BY <1>2 DEF LedgerTypeOK
  <2>2. reservations' \in [Live' -> Reservation]
    BY <1>1, <1>2, <1>3 DEF Acquire, LedgerTypeOK, Reservation
  <2>3. /\ roomReserved' \in [Rooms -> Nat] /\ roomFiles' \in [Rooms -> Nat]
        /\ totalReserved' \in Nat
    BY <1>1 DEF Acquire, LedgerTypeOK
  <2> QED
    BY <2>1, <2>2, <2>3 DEF LedgerTypeOK
<1>6. \A r : InRoom(r)' = IF r = room THEN InRoom(r) \union {id} ELSE InRoom(r)
  BY <1>2, <1>3 DEF InRoom
<1>7. FilesExact'
  <2> SUFFICES ASSUME NEW r \in Rooms
               PROVE  roomFiles'[r] = Cardinality(InRoom(r)')
    BY DEF FilesExact
  <2>1. id \notin InRoom(r) /\ IsFiniteSet(InRoom(r))
    BY <1>2, LedgerShape DEF InRoom
  <2>2. roomFiles[r] = Cardinality(InRoom(r)) /\ roomFiles[r] \in Nat
    BY DEF CountersExact, FilesExact, LedgerTypeOK
  <2>3. CASE r = room
    <3>1. roomFiles'[r] = roomFiles[r] + 1
      BY <2>3 DEF Acquire, LedgerTypeOK
    <3>2. Cardinality(InRoom(r) \union {id}) = Cardinality(InRoom(r)) + 1
      BY <2>1, FS_AddElement
    <3> QED
      BY <1>6, <2>2, <2>3, <3>1, <3>2
  <2>4. CASE r # room
    BY <1>6, <2>2, <2>4 DEF Acquire, LedgerTypeOK
  <2> QED
    BY <2>3, <2>4
<1>8. RoomBytesExact'
  <2> SUFFICES ASSUME NEW r \in Rooms
               PROVE  roomReserved'[r] = Tally(bytesOf', InRoom(r)')
    BY DEF RoomBytesExact
  <2>1. /\ id \notin InRoom(r) /\ IsFiniteSet(InRoom(r))
        /\ InRoom(r) \subseteq Live
    BY <1>2, LedgerShape DEF InRoom
  <2>2. roomReserved[r] = Tally(bytesOf, InRoom(r)) /\ roomReserved[r] \in Nat
    BY DEF CountersExact, RoomBytesExact, LedgerTypeOK
  <2>3. CASE r = room
    <3>1. roomReserved'[r] = roomReserved[r] + bytes
      BY <2>3 DEF Acquire, LedgerTypeOK
    <3>2. Tally(bytesOf', InRoom(r) \union {id}) = Tally(bytesOf, InRoom(r)) + bytes
      BY <1>1, <1>4, <2>1, TallyAdd
    <3> QED
      BY <1>6, <2>2, <2>3, <3>1, <3>2
  <2>4. CASE r # room
    <3>1. roomReserved'[r] = roomReserved[r]
      BY <2>4 DEF Acquire, LedgerTypeOK
    <3>2. Tally(bytesOf', InRoom(r)) = Tally(bytesOf, InRoom(r))
      BY <1>4, <2>1, TallySame
    <3> QED
      BY <1>6, <2>2, <2>4, <3>1, <3>2
  <2> QED
    BY <2>3, <2>4
<1>9. TotalExact'
  <2>1. Tally(bytesOf', Live \union {id}) = Tally(bytesOf, Live) + bytes
    BY <1>1, <1>2, <1>4, LedgerShape, TallyAdd
  <2> QED
    BY <1>2, <2>1 DEF Acquire, CountersExact, TotalExact
<1>10. ReservedWithinLimits'
  <2>1. /\ \A r \in Rooms : roomReserved[r] \in Nat /\ roomFiles[r] \in Nat
        /\ totalReserved \in Nat
    BY DEF LedgerTypeOK
  <2>2. \A r \in Rooms : roomReserved'[r] <= MaxRoomSize
    BY <1>1, <2>1 DEF Acquire, CanAcquire, RoomFits, ReservedWithinLimits, LedgerTypeOK
  <2>3. MaxFiles > 0 => \A r \in Rooms : roomFiles'[r] <= MaxFiles
    BY <1>1, <2>1 DEF Acquire, CanAcquire, SlotFree, ReservedWithinLimits, LedgerTypeOK
  <2>4. MaxTotalStorage > 0 => totalReserved' <= MaxTotalStorage
    BY <1>1, <2>1 DEF Acquire, CanAcquire, GlobalFits, ReservedWithinLimits
  <2> QED
    BY <2>2, <2>3, <2>4 DEF ReservedWithinLimits
<1> QED
  BY <1>5, <1>7, <1>8, <1>9, <1>10 DEF CountersExact

-----------------------------------------------------------------------------
\* A live reservation's bytes and slot are part of its room's counters.
LEMMA HeldByRoom ==
    ASSUME QuotaAssumption, LedgerTypeOK, CountersExact,
           NEW id \in ResIds, id \in Live
    PROVE  LET r == reservations[id].room
           IN  /\ reservations[id].bytes <= roomReserved[r]
               /\ reservations[id].bytes <= totalReserved
               /\ 1 <= roomFiles[r]
<1> DEFINE r == reservations[id].room
<1>1. /\ IsFiniteSet(InRoom(r)) /\ InRoom(r) \subseteq Live
      /\ id \in InRoom(r) /\ r \in Rooms /\ IsFiniteSet(Live)
      /\ \A i \in Live : bytesOf[i] \in Nat
      /\ bytesOf[id] = reservations[id].bytes
  BY LedgerShape
<1>2. IsFiniteSet(InRoom(r) \ {id}) /\ IsFiniteSet(Live \ {id})
  BY <1>1, FS_RemoveElement
<1>3. Tally(bytesOf, InRoom(r) \ {id}) \in Nat /\ Tally(bytesOf, Live \ {id}) \in Nat
  BY <1>1, <1>2, TallyType
<1>4. /\ Tally(bytesOf, InRoom(r)) = Tally(bytesOf, InRoom(r) \ {id}) + bytesOf[id]
      /\ Tally(bytesOf, Live) = Tally(bytesOf, Live \ {id}) + bytesOf[id]
  BY <1>1, TallySplit
<1>5. Cardinality(InRoom(r)) \in Nat /\ Cardinality(InRoom(r)) # 0
  BY <1>1, FS_CardinalityType, FS_EmptySet
<1>6. /\ roomReserved[r] = Tally(bytesOf, InRoom(r))
      /\ totalReserved = Tally(bytesOf, Live)
      /\ roomFiles[r] = Cardinality(InRoom(r))
  BY <1>1 DEF CountersExact, RoomBytesExact, TotalExact, FilesExact
<1>7. reservations[id].bytes \in Nat
  BY <1>1
<1> HIDE DEF r
<1> QED
  BY <1>1, <1>3, <1>4, <1>5, <1>6, <1>7 DEF r

\* Giving one reservation n bytes moves both sums by the same difference.
LEMMA ResizeKeepsExact ==
    ASSUME QuotaAssumption, LedgerTypeOK, CountersExact,
           NEW id \in ResIds, id \in Live, NEW n \in Nat,
           reservations' = [reservations EXCEPT ![id].bytes = n],
           roomReserved' = [roomReserved EXCEPT
                ![reservations[id].room] = @ + n - reservations[id].bytes],
           totalReserved' = totalReserved + n - reservations[id].bytes,
           UNCHANGED roomFiles
    PROVE  LedgerTypeOK' /\ CountersExact'
<1> DEFINE r == reservations[id].room
           old == reservations[id].bytes
<1>1. /\ r \in Rooms /\ old \in Nat /\ bytesOf[id] = old /\ id \in InRoom(r)
      /\ IsFiniteSet(Live)
      /\ \A room : IsFiniteSet(InRoom(room)) /\ InRoom(room) \subseteq Live
      /\ \A i \in Live : bytesOf[i] \in Nat
  BY LedgerShape
<1>2. Live' = Live
  BY DEF Live
<1>3. /\ reservations[id] \in Reservation
      /\ reservations'[id] = [reservations[id] EXCEPT !.bytes = n]
      /\ \A i \in Live \ {id} : reservations'[i] = reservations[i]
  BY DEF LedgerTypeOK, Live
<1>4. /\ bytesOf'[id] = n
      /\ \A i \in Live \ {id} : bytesOf'[i] = bytesOf[i]
      /\ \A i \in Live : bytesOf'[i] \in Nat
  BY <1>1, <1>2, <1>3 DEF bytesOf, Reservation
<1>5. \A room : InRoom(room)' = InRoom(room)
  BY <1>2, <1>3 DEF InRoom, Reservation
<1>6. /\ old <= roomReserved[r] /\ old <= totalReserved
      /\ roomReserved[r] \in Nat /\ totalReserved \in Nat
  BY <1>1, HeldByRoom DEF LedgerTypeOK
<1>7. LedgerTypeOK'
  <2>1. reservations' \in [Live' -> Reservation]
    BY <1>2, <1>3 DEF LedgerTypeOK, Reservation
  <2>2. roomReserved' \in [Rooms -> Nat]
    BY <1>1, <1>6 DEF LedgerTypeOK
  <2>3. totalReserved' \in Nat
    BY <1>1, <1>6
  <2> QED
    BY <1>2, <2>1, <2>2, <2>3 DEF LedgerTypeOK
<1>8. FilesExact'
  BY <1>5 DEF CountersExact, FilesExact
<1>9. RoomBytesExact'
  <2> SUFFICES ASSUME NEW room \in Rooms
               PROVE  roomReserved'[room] = Tally(bytesOf', InRoom(room))
    BY <1>5 DEF RoomBytesExact
  <2>1. roomReserved[room] = Tally(bytesOf, InRoom(room)) /\ roomReserved[room] \in Nat
    BY DEF CountersExact, RoomBytesExact, LedgerTypeOK
  <2>2. CASE room = r
    <3>1. Tally(bytesOf', InRoom(r)) = Tally(bytesOf, InRoom(r)) + n - old
      BY <1>1, <1>4, TallyChange
    <3>2. roomReserved'[r] = roomReserved[r] + n - old
      BY <1>1 DEF LedgerTypeOK
    <3> QED
      BY <2>1, <2>2, <3>1, <3>2
  <2>3. CASE room # r
    <3>1. id \notin InRoom(room)
      BY <2>3 DEF InRoom
    <3>2. Tally(bytesOf', InRoom(room)) = Tally(bytesOf, InRoom(room))
      BY <1>1, <1>4, <3>1, TallySame
    <3>3. roomReserved'[room] = roomReserved[room]
      BY <2>3 DEF LedgerTypeOK
    <3> QED
      BY <2>1, <3>2, <3>3
  <2> QED
    BY <2>2, <2>3
<1>10. TotalExact'
  <2>1. Tally(bytesOf', Live) = Tally(bytesOf, Live) + n - old
    BY <1>1, <1>4, TallyChange
  <2> QED
    BY <1>2, <2>1 DEF CountersExact, TotalExact
<1> QED
  BY <1>7, <1>8, <1>9, <1>10 DEF CountersExact

\* Grow resizes upwards, as far as the guards allow.
LEMMA GrowKeepsInv ==
    ASSUME QuotaAssumption, LedgerInv,
           NEW id \in ResIds, NEW bytes \in Int,
           NEW usage \in Nat, NEW global \in Nat,
           Grow(id, bytes, usage, global)
    PROVE  LedgerInv'
<1> USE DEF LedgerInv
<1> DEFINE r == reservations[id].room
           old == reservations[id].bytes
<1>1. /\ id \in Live /\ r \in Rooms /\ old \in Nat
      /\ roomReserved[r] \in Nat /\ totalReserved \in Nat
  BY LedgerShape DEF Grow, CanGrow, LedgerTypeOK
<1>2. bytes \in Nat /\ usage \in Nat /\ global \in Nat
  <2>1. bytes > 0
    BY DEF Grow
  <2> QED
    BY <2>1 DEF QuotaAssumption
<1>3. /\ reservations' = [reservations EXCEPT ![id].bytes = old + bytes]
      /\ roomReserved' = [roomReserved EXCEPT ![r] = @ + (old + bytes) - old]
      /\ totalReserved' = totalReserved + (old + bytes) - old
      /\ UNCHANGED roomFiles
  <2>1. /\ reservations' = [reservations EXCEPT ![id].bytes = old + bytes]
        /\ UNCHANGED roomFiles
    BY DEF Grow
  <2>2. /\ roomReserved' = [roomReserved EXCEPT ![r] = @ + bytes]
        /\ totalReserved' = totalReserved + bytes
    BY DEF Grow
  <2>3. /\ roomReserved[r] + bytes = roomReserved[r] + (old + bytes) - old
        /\ totalReserved + bytes = totalReserved + (old + bytes) - old
    BY <1>1, <1>2
  <2> QED
    BY <2>1, <2>2, <2>3
<1>4. old + bytes \in Nat
  BY <1>1, <1>2
<1>5. LedgerTypeOK' /\ CountersExact'
  BY <1>1, <1>3, <1>4, ResizeKeepsExact
<1>6. ReservedWithinLimits'
  <2>1. \A room \in Rooms : roomReserved'[room] <= MaxRoomSize
    BY <1>1, <1>2 DEF Grow, CanGrow, RoomFits, ReservedWithinLimits, LedgerTypeOK,
                      QuotaAssumption
  <2>2. MaxTotalStorage > 0 => totalReserved' <= MaxTotalStorage
    BY <1>1, <1>2 DEF Grow, CanGrow, GlobalFits, ReservedWithinLimits, QuotaAssumption
  <2>3. MaxFiles > 0 => \A room \in Rooms : roomFiles'[room] <= MaxFiles
    BY DEF Grow, ReservedWithinLimits
  <2> QED
    BY <2>1, <2>2, <2>3 DEF ReservedWithinLimits
<1> QED
  BY <1>5, <1>6

\* Shrink resizes downwards; its clamps change nothing.
LEMMA ShrinkKeepsInv ==
    ASSUME QuotaAssumption, LedgerInv,
           NEW id \in ResIds, NEW target \in Int, Shrink(id, target)
    PROVE  LedgerInv'
<1> USE DEF LedgerInv
<1> DEFINE r == reservations[id].room
           old == reservations[id].bytes
           kept == NotBelowZero(target)
<1>1. /\ id \in Live /\ r \in Rooms /\ old \in Nat
      /\ roomReserved[r] \in Nat /\ totalReserved \in Nat
      /\ old <= roomReserved[r] /\ old <= totalReserved
  BY LedgerShape, HeldByRoom DEF Shrink, LedgerTypeOK
<1>2. kept \in Nat /\ kept < old
  BY DEF Shrink, NotBelowZero, QuotaAssumption
<1>3. /\ NotBelowZero(roomReserved[r] - (old - kept)) = roomReserved[r] + kept - old
      /\ NotBelowZero(totalReserved - (old - kept)) = totalReserved + kept - old
  <2> HIDE DEF r, old, kept
  <2> QED
    BY <1>1, <1>2 DEF NotBelowZero
<1>4. /\ reservations' = [reservations EXCEPT ![id].bytes = kept]
      /\ roomReserved' = [roomReserved EXCEPT ![r] = @ + kept - old]
      /\ totalReserved' = totalReserved + kept - old
      /\ UNCHANGED roomFiles
  <2> HIDE DEF kept
  <2>1. /\ reservations' = [reservations EXCEPT ![id].bytes = kept]
        /\ roomReserved' = [roomReserved EXCEPT ![r] = NotBelowZero(@ - (old - kept))]
        /\ totalReserved' = NotBelowZero(totalReserved - (old - kept))
        /\ UNCHANGED roomFiles
    BY DEF Shrink, kept
  <2> QED
    BY <1>1, <1>3, <2>1 DEF LedgerTypeOK
<1>5. LedgerTypeOK' /\ CountersExact'
  <2> HIDE DEF kept
  <2> QED
    BY <1>1, <1>2, <1>4, ResizeKeepsExact
<1>6. ReservedWithinLimits'
  <2> HIDE DEF kept
  <2>1. \A room \in Rooms : roomReserved'[room] <= roomReserved[room]
    BY <1>1, <1>2, <1>4 DEF LedgerTypeOK
  <2>2. totalReserved' <= totalReserved
    BY <1>1, <1>2, <1>4
  <2>3. \A room \in Rooms : roomReserved[room] \in Nat /\ roomReserved'[room] \in Nat
    BY <1>5 DEF LedgerTypeOK
  <2>4. totalReserved' \in Nat
    BY <1>5 DEF LedgerTypeOK
  <2> QED
    BY <1>1, <1>4, <2>1, <2>2, <2>3, <2>4 DEF ReservedWithinLimits, QuotaAssumption
<1> QED
  BY <1>5, <1>6

\* Release takes one holder away; its clamps change nothing.
LEMMA ReleaseKeepsInv ==
    ASSUME QuotaAssumption, LedgerInv, NEW id \in ResIds, Release(id)
    PROVE  LedgerInv'
<1> USE DEF LedgerInv
<1> DEFINE r == reservations[id].room
           old == reservations[id].bytes
<1>1. /\ id \in Live /\ r \in Rooms /\ old \in Nat /\ bytesOf[id] = old
      /\ id \in InRoom(r) /\ reservations[id].files = 1
      /\ IsFiniteSet(Live)
      /\ \A room : IsFiniteSet(InRoom(room)) /\ InRoom(room) \subseteq Live
      /\ \A i \in Live : bytesOf[i] \in Nat
  BY LedgerShape DEF Release
<1>2. /\ roomReserved[r] \in Nat /\ totalReserved \in Nat /\ roomFiles[r] \in Nat
      /\ old <= roomReserved[r] /\ old <= totalReserved /\ 1 <= roomFiles[r]
  BY <1>1, HeldByRoom DEF LedgerTypeOK
<1>3. /\ Live' = Live \ {id}
      /\ \A i \in Live \ {id} : reservations'[i] = reservations[i]
  BY DEF Release, Live
<1>4. \A i \in Live \ {id} : bytesOf'[i] = bytesOf[i]
  BY <1>3 DEF bytesOf
<1>5. \A room : InRoom(room)' = InRoom(room) \ {id}
  BY <1>3 DEF InRoom
<1>6. /\ roomFiles' = [roomFiles EXCEPT ![r] = @ - 1]
      /\ roomReserved' = [roomReserved EXCEPT ![r] = @ - old]
      /\ totalReserved' = totalReserved - old
  <2>1. /\ roomFiles' = [roomFiles EXCEPT ![r] = NotBelowZero(@ - 1)]
        /\ roomReserved' = [roomReserved EXCEPT ![r] = NotBelowZero(@ - old)]
        /\ totalReserved' = NotBelowZero(totalReserved - old)
    BY <1>1 DEF Release
  <2>2. /\ NotBelowZero(roomFiles[r] - 1) = roomFiles[r] - 1
        /\ NotBelowZero(roomReserved[r] - old) = roomReserved[r] - old
        /\ NotBelowZero(totalReserved - old) = totalReserved - old
    BY <1>1, <1>2 DEF NotBelowZero
  <2> QED
    BY <1>1, <2>1, <2>2 DEF LedgerTypeOK
<1>7. LedgerTypeOK'
  <2>1. reservations' \in [Live' -> Reservation] /\ Live' \subseteq ResIds
    BY <1>3 DEF Release, LedgerTypeOK, Live
  <2>2. roomReserved' \in [Rooms -> Nat] /\ roomFiles' \in [Rooms -> Nat]
    BY <1>1, <1>2, <1>6 DEF LedgerTypeOK
  <2>3. totalReserved' \in Nat
    BY <1>1, <1>2, <1>6
  <2> QED
    BY <2>1, <2>2, <2>3 DEF LedgerTypeOK
<1>8. FilesExact'
  <2> SUFFICES ASSUME NEW room \in Rooms
               PROVE  roomFiles'[room] = Cardinality(InRoom(room) \ {id})
    BY <1>5 DEF FilesExact
  <2>1. roomFiles[room] = Cardinality(InRoom(room)) /\ roomFiles[room] \in Nat
    BY DEF CountersExact, FilesExact, LedgerTypeOK
  <2>2. CASE room = r
    <3>1. Cardinality(InRoom(r) \ {id}) = Cardinality(InRoom(r)) - 1
      <4> HIDE DEF r
      <4> QED
        BY <1>1, FS_RemoveElement
    <3> QED
      BY <1>1, <1>6, <2>1, <2>2, <3>1 DEF LedgerTypeOK
  <2>3. CASE room # r
    <3>1. InRoom(room) \ {id} = InRoom(room)
      BY <2>3 DEF InRoom
    <3> QED
      BY <1>6, <2>1, <2>3, <3>1 DEF LedgerTypeOK
  <2> QED
    BY <2>2, <2>3
<1>9. RoomBytesExact'
  <2> SUFFICES ASSUME NEW room \in Rooms
               PROVE  roomReserved'[room] = Tally(bytesOf', InRoom(room) \ {id})
    BY <1>5 DEF RoomBytesExact
  <2>1. roomReserved[room] = Tally(bytesOf, InRoom(room)) /\ roomReserved[room] \in Nat
    BY DEF CountersExact, RoomBytesExact, LedgerTypeOK
  <2>2. Tally(bytesOf', InRoom(room) \ {id}) = Tally(bytesOf, InRoom(room) \ {id})
    BY <1>1, <1>4, TallySame
  <2>3. IsFiniteSet(InRoom(room) \ {id})
    BY <1>1, FS_RemoveElement
  <2>4. Tally(bytesOf, InRoom(room) \ {id}) \in Nat
    BY <1>1, <2>3, TallyType
  <2>5. CASE room = r
    <3>1. Tally(bytesOf, InRoom(r)) = Tally(bytesOf, InRoom(r) \ {id}) + old
      BY <1>1, TallySplit
    <3>2. roomReserved'[r] = roomReserved[r] - old
      BY <1>1, <1>6 DEF LedgerTypeOK
    <3> QED
      BY <1>1, <2>1, <2>2, <2>4, <2>5, <3>1, <3>2
  <2>6. CASE room # r
    <3>1. InRoom(room) \ {id} = InRoom(room)
      BY <2>6 DEF InRoom
    <3> QED
      BY <1>6, <2>1, <2>2, <2>6, <3>1 DEF LedgerTypeOK
  <2> QED
    BY <2>5, <2>6
<1>10. TotalExact'
  <2>1. Tally(bytesOf, Live) = Tally(bytesOf, Live \ {id}) + old
    BY <1>1, TallySplit DEF Release
  <2>2. Tally(bytesOf', Live \ {id}) = Tally(bytesOf, Live \ {id})
    BY <1>4, TallySame
  <2>3. IsFiniteSet(Live \ {id})
    BY <1>1, FS_RemoveElement
  <2>4. Tally(bytesOf, Live \ {id}) \in Nat
    BY <1>1, <2>3, TallyType
  <2>5. totalReserved = Tally(bytesOf, Live)
    BY DEF CountersExact, TotalExact
  <2> QED
    BY <1>1, <1>3, <1>6, <2>1, <2>2, <2>4, <2>5 DEF TotalExact
<1>11. ReservedWithinLimits'
  <2>1. \A room \in Rooms : /\ roomReserved'[room] <= roomReserved[room]
                            /\ roomFiles'[room] <= roomFiles[room]
    BY <1>1, <1>2, <1>6 DEF LedgerTypeOK
  <2>2. totalReserved' <= totalReserved
    BY <1>1, <1>2, <1>6
  <2>3. \A room \in Rooms : /\ roomReserved[room] \in Nat /\ roomReserved'[room] \in Nat
                            /\ roomFiles[room] \in Nat /\ roomFiles'[room] \in Nat
    BY <1>7 DEF LedgerTypeOK
  <2>4. totalReserved' \in Nat
    BY <1>7 DEF LedgerTypeOK
  <2> QED
    BY <1>2, <2>1, <2>2, <2>3, <2>4 DEF ReservedWithinLimits, QuotaAssumption
<1> QED
  BY <1>7, <1>8, <1>9, <1>10, <1>11 DEF CountersExact

-----------------------------------------------------------------------------
LEMMA LedgerStepKeepsInv ==
    ASSUME QuotaAssumption, LedgerInv, [LedgerNext]_ledger
    PROVE  LedgerInv'
<1>1. ASSUME NEW id \in ResIds, AcquireSome(id)
      PROVE  LedgerInv'
  BY <1>1, AcquireKeepsInv DEF AcquireSome
<1>2. ASSUME NEW id \in ResIds, GrowSome(id)
      PROVE  LedgerInv'
  BY <1>2, GrowKeepsInv DEF GrowSome
<1>3. ASSUME NEW id \in ResIds, ShrinkSome(id)
      PROVE  LedgerInv'
  BY <1>3, ShrinkKeepsInv DEF ShrinkSome
<1>4. ASSUME NEW id \in ResIds, Release(id)
      PROVE  LedgerInv'
  BY <1>4, ReleaseKeepsInv
<1>5. CASE Restart
  BY <1>5, RestartEstablishesInv
<1>6. CASE UNCHANGED ledger
  BY <1>6 DEF ledger, LedgerInv, LedgerTypeOK, Live, CountersExact, FilesExact,
              RoomBytesExact, TotalExact, InRoom, bytesOf, ReservedWithinLimits
<1> QED
  BY <1>1, <1>2, <1>3, <1>4, <1>5, <1>6 DEF LedgerNext

\* The three parts together are an invariant of the ledger.
THEOREM LedgerInvariant == LedgerSpec => []LedgerInv
<1>1. LedgerInit => LedgerInv
  BY QuotaAssumption, InitEstablishesInv
<1>2. LedgerInv /\ [LedgerNext]_ledger => LedgerInv'
  BY QuotaAssumption, LedgerStepKeepsInv
<1> QED
  BY <1>1, <1>2, PTL DEF LedgerSpec

\* The maps and counters of QuotaManager (quota.go:26-32) keep their types
\* and never go below zero.
THEOREM LedgerTypeCorrect == LedgerSpec => []LedgerTypeOK
<1>1. LedgerInv => LedgerTypeOK
  BY DEF LedgerInv
<1> QED
  BY <1>1, LedgerInvariant, PTL

\* The counters of quota.go:26-32 are what the live reservations add up to,
\* after any sequence of Acquire, Grow, Shrink and Release.
THEOREM CountersAlwaysExact == LedgerSpec => []CountersExact
<1>1. LedgerInv => CountersExact
  BY DEF LedgerInv
<1> QED
  BY <1>1, LedgerInvariant, PTL

\* In-flight reservations alone never exceed a limit, however stale the usage
\* figures passed to Acquire (quota.go:45) and Grow (quota.go:104) are.
THEOREM ReservationsStayWithinLimits == LedgerSpec => []ReservedWithinLimits
<1>1. LedgerInv => ReservedWithinLimits
  BY DEF LedgerInv
<1> QED
  BY <1>1, LedgerInvariant, PTL

-----------------------------------------------------------------------------
(***************************************************************************)
(* The uploads.                                                            *)
(***************************************************************************)
Early == {"new", "usage", "global", "acquire", "create"}

\* The reservation of an upload.
HoldsOK(u) ==
    /\ u \in Live <=> up[u].pc \in Holding
    /\ u \in Live =>
          /\ reservations[u].room = up[u].room
          /\ up[u].pc \in {"create", "stream", "shrink"} =>
                reservations[u].bytes = up[u].reserved
          /\ u \in (staging \union final) \ (rows \union doomed) =>
                up[u].written <= reservations[u].bytes
    /\ up[u].pc \in Early => up[u].written = 0

\* Its files and its row.
DiskOK(u) ==
    /\ u \in staging => up[u].pc \in {"stream", "shrink", "rename", "unstage", "crashed"}
    /\ up[u].pc \in {"stream", "shrink", "rename", "unstage"} => u \in staging
    /\ u \in final => u \in rows \union doomed \/ up[u].pc \in {"insert", "unfile", "crashed"}
    /\ up[u].pc \in {"insert", "unfile"} => u \in final
    /\ u \in rows => u \in final /\ u \notin doomed
    /\ u \in rows \union doomed => up[u].pc \in {"stored", "done", "crashed"}
    /\ u \notin staging \intersect final

UploadOK(u) == HoldsOK(u) /\ DiskOK(u)

UploadInv ==
    /\ UploadTypeOK
    /\ LedgerInv
    /\ \A u \in Uploads : UploadOK(u)

-----------------------------------------------------------------------------
\* The usage queries return natural numbers.
LEMMA UsageType ==
    ASSUME UploadTypeOK, NEW room \in Rooms
    PROVE  RoomUsage(room) \in Nat /\ RoomCount(room) \in Nat /\ TotalUsage \in Nat
<1>1. IsFiniteSet(rows)
  BY QuotaAssumption, FS_Subset DEF UploadTypeOK, Uploads
<1>2. ReadyIn(room) \in SUBSET rows
  BY DEF ReadyIn
<1>3. IsFiniteSet(ReadyIn(room))
  BY <1>1, <1>2, FS_Subset
<1>4. \A u \in rows : sizeOf[u] \in Nat
  BY UploadAssumption DEF UploadTypeOK, sizeOf, Request
<1> QED
  BY <1>1, <1>2, <1>3, <1>4, TallyType, FS_CardinalityType
     DEF RoomUsage, RoomCount, TotalUsage

\* Cutting what was asked for never goes below what is needed.
LEMMA ClampCovers ==
    ASSUME NEW asked \in Int, NEW needed \in Int, NEW headroom \in Int, asked >= needed
    PROVE  Clamp(asked, needed, headroom) \in Int /\ Clamp(asked, needed, headroom) >= needed
  BY DEF Clamp, Least

\* So a growth covers the buffer it is for.
LEMMA GrowthCovers ==
    ASSUME UploadTypeOK, NEW u \in Uploads, NEW needed \in Int
    PROVE  GrowDelta(u, needed) \in Int /\ GrowDelta(u, needed) >= needed
<1> DEFINE asked == Greatest(GrowthChunk, needed)
           roomLeft == MaxRoomSize - (up[u].used + up[u].reserved)
           totalLeft == MaxTotalStorage - (up[u].total + up[u].reserved)
           fileLeft == MaxFileSize - up[u].reserved
           inRoom == Clamp(asked, needed, roomLeft)
           inTotal == IF MaxTotalStorage > 0 THEN Clamp(inRoom, needed, totalLeft) ELSE inRoom
<1>1. roomLeft \in Int /\ totalLeft \in Int /\ fileLeft \in Int
  BY QuotaAssumption, UploadAssumption DEF UploadTypeOK, Request
<1>2. asked \in Int /\ asked >= needed
  BY UploadAssumption DEF Greatest
<1> HIDE DEF asked, roomLeft, totalLeft, fileLeft
<1>3. inRoom \in Int /\ inRoom >= needed
  BY <1>1, <1>2, ClampCovers
<1> HIDE DEF inRoom
<1>4. inTotal \in Int /\ inTotal >= needed
  BY <1>1, <1>3, ClampCovers
<1> HIDE DEF inTotal
<1>5. Clamp(inTotal, needed, fileLeft) \in Int /\ Clamp(inTotal, needed, fileLeft) >= needed
  BY <1>1, <1>4, ClampCovers
<1> QED
  BY <1>5 DEF GrowDelta, asked, roomLeft, totalLeft, fileLeft, inRoom, inTotal

LEMMA InitialReservationType ==
    ASSUME UploadTypeOK, NEW u \in Uploads, NEW declared \in DeclaredSizes
    PROVE  InitialReservation(u, declared) \in Int
<1> DEFINE chunk == IF declared > 0 THEN Least(declared, InitialChunk) ELSE InitialChunk
           bounded == Least(Least(chunk, MaxRoomSize - up[u].used), MaxFileSize)
<1>1. declared \in Nat /\ InitialChunk \in Nat /\ MaxFileSize \in Nat /\ MaxRoomSize \in Nat
         /\ MaxTotalStorage \in Nat /\ up[u].used \in Nat /\ up[u].total \in Nat
  BY QuotaAssumption, UploadAssumption DEF UploadTypeOK, Request
<1>2. bounded \in Int
  BY <1>1 DEF Least
<1> HIDE DEF bounded
<1>3. Least(bounded, MaxTotalStorage - up[u].total) \in Int
  BY <1>1, <1>2 DEF Least
<1> QED
  BY <1>2, <1>3 DEF InitialReservation, bounded

-----------------------------------------------------------------------------
(***************************************************************************)
(* What belongs to another upload stays as it is.                          *)
(***************************************************************************)
Untouched(u) ==
    /\ up'[u] = up[u]
    /\ u \in staging' <=> u \in staging
    /\ u \in final' <=> u \in final
    /\ u \in rows' <=> u \in rows
    /\ u \in doomed' <=> u \in doomed
    /\ u \in Live' <=> u \in Live
    /\ u \in Live => reservations'[u] = reservations[u]

LEMMA UntouchedStaysOK ==
    ASSUME NEW u \in Uploads, UploadOK(u), Untouched(u)
    PROVE  UploadOK(u)'
  BY DEF UploadOK, HoldsOK, DiskOK, Untouched

\* A step of v: it keeps the types, its own part of the invariant, its room and
\* the others.
StepOf(v) ==
    /\ up'[v].room = up[v].room
    /\ UploadTypeOK'
    /\ LedgerInv'
    /\ UploadOK(v)'
    /\ \A u \in Uploads \ {v} : Untouched(u)

LEMMA StepKeepsUploadInv ==
    ASSUME UploadInv, NEW v \in Uploads, StepOf(v)
    PROVE  UploadInv'
  BY UntouchedStaysOK DEF UploadInv, StepOf

LEMMA LedgerUntouched ==
    ASSUME LedgerInv, UNCHANGED ledger
    PROVE  LedgerInv' /\ Live' = Live
  BY DEF ledger, LedgerInv, LedgerTypeOK, Live, CountersExact, FilesExact,
         RoomBytesExact, TotalExact, InRoom, bytesOf, ReservedWithinLimits

-----------------------------------------------------------------------------
(***************************************************************************)
(* A step of v changes v's record alone.                                   *)
(***************************************************************************)
Moves(v) ==
    /\ up' \in [Uploads -> Request]
    /\ up'[v].room = up[v].room
    /\ \A u \in Uploads \ {v} : up'[u] = up[u]

LEMMA RecordMoves ==
    ASSUME UploadTypeOK, NEW v \in Uploads, NEW rec \in Request, rec.room = up[v].room,
           up' = [up EXCEPT ![v] = rec]
    PROVE  Moves(v) /\ up'[v] = rec
  BY DEF UploadTypeOK, Moves

LEMMA GotoMoves ==
    ASSUME UploadTypeOK, NEW v \in Uploads, NEW place \in Place, Goto(v, place)
    PROVE  /\ Moves(v) /\ up'[v].pc = place
           /\ up'[v].reserved = up[v].reserved /\ up'[v].written = up[v].written
<1> DEFINE rec == [up[v] EXCEPT !.pc = place]
<1>1. up[v] \in Request /\ up' = [up EXCEPT ![v] = rec]
  BY DEF UploadTypeOK, Goto
<1>2. /\ rec \in Request /\ rec.room = up[v].room /\ rec.pc = place
      /\ rec.reserved = up[v].reserved /\ rec.written = up[v].written
  BY <1>1 DEF Request
<1> HIDE DEF rec
<1> QED
  BY <1>1, <1>2, RecordMoves

LEMMA RefuseMoves ==
    ASSUME UploadTypeOK, NEW v \in Uploads, NEW why \in Outcome, NEW place \in Place,
           Refuse(v, why, place)
    PROVE  /\ Moves(v) /\ up'[v].pc = place
           /\ up'[v].reserved = up[v].reserved /\ up'[v].written = up[v].written
<1> DEFINE rec == [up[v] EXCEPT !.pc = place, !.outcome = why]
<1>1. up[v] \in Request /\ up' = [up EXCEPT ![v] = rec]
  BY DEF UploadTypeOK, Refuse
<1>2. /\ rec \in Request /\ rec.room = up[v].room /\ rec.pc = place
      /\ rec.reserved = up[v].reserved /\ rec.written = up[v].written
  BY <1>1 DEF Request
<1> HIDE DEF rec
<1> QED
  BY <1>1, <1>2, RecordMoves

LEMMA UsageMoves ==
    ASSUME UploadTypeOK, NEW v \in Uploads, NEW used \in Nat, NEW count \in Nat,
           NEW place \in Place,
           up' = [up EXCEPT ![v].used = used, ![v].count = count, ![v].pc = place]
    PROVE  Moves(v) /\ up'[v].pc = place /\ up'[v].written = up[v].written
<1> DEFINE rec == [up[v] EXCEPT !.used = used, !.count = count, !.pc = place]
<1>1. up[v] \in Request /\ up' = [up EXCEPT ![v] = rec]
  BY DEF UploadTypeOK
<1>2. /\ rec \in Request /\ rec.room = up[v].room /\ rec.pc = place
      /\ rec.written = up[v].written
  BY <1>1 DEF Request
<1> HIDE DEF rec
<1> QED
  BY <1>1, <1>2, RecordMoves

LEMMA TotalMoves ==
    ASSUME UploadTypeOK, NEW v \in Uploads, NEW total \in Nat, NEW place \in Place,
           up' = [up EXCEPT ![v].total = total, ![v].pc = place]
    PROVE  Moves(v) /\ up'[v].pc = place /\ up'[v].written = up[v].written
<1> DEFINE rec == [up[v] EXCEPT !.total = total, !.pc = place]
<1>1. up[v] \in Request /\ up' = [up EXCEPT ![v] = rec]
  BY DEF UploadTypeOK
<1>2. /\ rec \in Request /\ rec.room = up[v].room /\ rec.pc = place
      /\ rec.written = up[v].written
  BY <1>1 DEF Request
<1> HIDE DEF rec
<1> QED
  BY <1>1, <1>2, RecordMoves

LEMMA ReservedMoves ==
    ASSUME UploadTypeOK, NEW v \in Uploads, NEW bytes \in Nat,
           up' = [up EXCEPT ![v].pc = "create", ![v].reserved = bytes]
    PROVE  /\ Moves(v) /\ up'[v].pc = "create"
           /\ up'[v].reserved = bytes /\ up'[v].written = up[v].written
<1> DEFINE rec == [up[v] EXCEPT !.pc = "create", !.reserved = bytes]
<1>1. up[v] \in Request /\ up' = [up EXCEPT ![v] = rec]
  BY DEF UploadTypeOK
<1>2. /\ rec \in Request /\ rec.room = up[v].room /\ rec.pc = "create"
      /\ rec.reserved = bytes /\ rec.written = up[v].written
  BY <1>1 DEF Request, Place
<1> HIDE DEF rec
<1> QED
  BY <1>1, <1>2, RecordMoves

(***************************************************************************)
(* Steps that leave the ledger alone.  Apart from v's record they change   *)
(* v's membership in the directories and in the table.                     *)
(***************************************************************************)
Toggles(v, T, S) == T \in {S, S \union {v}, S \ {v}}

LEMMA QuietStep ==
    ASSUME UploadInv, NEW v \in Uploads, Moves(v),
           Toggles(v, staging', staging), Toggles(v, final', final),
           Toggles(v, rows', rows), UNCHANGED <<rooms, doomed, ledger>>,
           up'[v].pc \in Holding <=> up[v].pc \in Holding,
           v \in Live /\ up'[v].pc \in {"create", "stream", "shrink"} =>
                 /\ up[v].pc \in {"create", "stream", "shrink"}
                 /\ up'[v].reserved = up[v].reserved,
           v \in Live /\ v \in (staging' \union final') \ (rows' \union doomed) =>
                 up'[v].written <= reservations[v].bytes,
           up'[v].pc \in Early => up'[v].written = 0,
           DiskOK(v)'
    PROVE  StepOf(v)
<1>1. LedgerInv' /\ Live' = Live
  BY LedgerUntouched DEF UploadInv
<1>2. UploadTypeOK'
  BY <1>1 DEF UploadInv, UploadTypeOK, LedgerInv, Toggles, Moves
<1>3. HoldsOK(v)'
  <2>1. HoldsOK(v) /\ reservations' = reservations
    BY DEF UploadInv, UploadOK, ledger
  <2> QED
    BY <1>1, <2>1 DEF HoldsOK, Moves
<1>4. \A u \in Uploads \ {v} : Untouched(u)
  BY <1>1 DEF Untouched, Toggles, ledger, Moves
<1> QED
  BY <1>1, <1>2, <1>3, <1>4 DEF StepOf, UploadOK, Moves

LEMMA CheckFreeSpaceStep ==
    ASSUME UploadInv, NEW v \in Uploads, CheckFreeSpace(v)
    PROVE  StepOf(v)
<1>1. UploadOK(v) /\ UploadTypeOK
  BY DEF UploadInv
<1>2. /\ Moves(v) /\ up'[v].written = up[v].written
      /\ up'[v].pc \in {"usage", "failed"}
  BY <1>1, GotoMoves, RefuseMoves DEF CheckFreeSpace, Place, Ended, Outcome
<1>3. up[v].pc = "new" /\ UNCHANGED <<staging, final, rows, rooms, doomed, ledger>>
  BY DEF CheckFreeSpace, At, disk, tables
<1> QED
  BY <1>1, <1>2, <1>3, QuietStep
     DEF Toggles, UploadOK, HoldsOK, DiskOK, Holding, Early

LEMMA RefuseGrowthStep ==
    ASSUME UploadInv, NEW v \in Uploads, NEW n \in 1 .. BufSize, RefuseGrowth(v, n)
    PROVE  StepOf(v)
<1>1. UploadOK(v) /\ UploadTypeOK
  BY DEF UploadInv
<1>2. /\ Moves(v) /\ up'[v].written = up[v].written
      /\ up'[v].pc \in {"unstage"}
  BY SMTT(30), <1>1, GotoMoves, RefuseMoves DEF RefuseGrowth, Place, Ended, Outcome
<1>3. up[v].pc = "stream" /\ UNCHANGED <<staging, final, rows, rooms, doomed, ledger>> /\ up'[v].reserved = up[v].reserved
  BY <1>1, <1>2, GotoMoves, RefuseMoves DEF RefuseGrowth, At, disk, tables, Place, Ended, Outcome
<1> QED
  BY <1>1, <1>2, <1>3, QuietStep
     DEF Toggles, UploadOK, HoldsOK, DiskOK, Holding, Early

LEMMA RefuseTooLargeStep ==
    ASSUME UploadInv, NEW v \in Uploads, NEW n \in 1 .. BufSize, RefuseTooLarge(v, n)
    PROVE  StepOf(v)
<1>1. UploadOK(v) /\ UploadTypeOK
  BY DEF UploadInv
<1>2. /\ Moves(v) /\ up'[v].written = up[v].written
      /\ up'[v].pc \in {"unstage"}
  BY <1>1, GotoMoves, RefuseMoves DEF RefuseTooLarge, Place, Ended, Outcome
<1>3. up[v].pc = "stream" /\ UNCHANGED <<staging, final, rows, rooms, doomed, ledger>> /\ up'[v].reserved = up[v].reserved
  BY <1>1, <1>2, GotoMoves, RefuseMoves DEF RefuseTooLarge, At, disk, tables, Place, Ended, Outcome
<1> QED
  BY <1>1, <1>2, <1>3, QuietStep
     DEF Toggles, UploadOK, HoldsOK, DiskOK, Holding, Early

LEMMA BodyFailsStep ==
    ASSUME UploadInv, NEW v \in Uploads, BodyFails(v)
    PROVE  StepOf(v)
<1>1. UploadOK(v) /\ UploadTypeOK
  BY DEF UploadInv
<1>2. /\ Moves(v) /\ up'[v].written = up[v].written
      /\ up'[v].pc \in {"unstage"}
  BY <1>1, GotoMoves, RefuseMoves DEF BodyFails, Place, Ended, Outcome
<1>3. up[v].pc = "stream" /\ UNCHANGED <<staging, final, rows, rooms, doomed, ledger>>
  BY <1>1, <1>2, GotoMoves, RefuseMoves DEF BodyFails, At, disk, tables, Place, Ended, Outcome
<1> QED
  BY <1>1, <1>2, <1>3, QuietStep
     DEF Toggles, UploadOK, HoldsOK, DiskOK, Holding, Early

LEMMA RefuseQuotaStep ==
    ASSUME UploadInv, NEW v \in Uploads, RefuseQuota(v)
    PROVE  StepOf(v)
<1>1. UploadOK(v) /\ UploadTypeOK
  BY DEF UploadInv
<1>2. /\ Moves(v) /\ up'[v].written = up[v].written
      /\ up'[v].pc \in {"failed"}
  BY SMTT(30), <1>1, GotoMoves, RefuseMoves DEF RefuseQuota, Place, Ended, Outcome
<1>3. up[v].pc = "acquire" /\ UNCHANGED <<staging, final, rows, rooms, doomed, ledger>>
  BY <1>1, <1>2, GotoMoves, RefuseMoves DEF RefuseQuota, At, disk, tables, Place, Ended, Outcome
<1> QED
  BY SMTT(30), <1>1, <1>2, <1>3, QuietStep
     DEF Toggles, UploadOK, HoldsOK, DiskOK, Holding, Early

LEMMA UnstageStep ==
    ASSUME UploadInv, NEW v \in Uploads, Unstage(v)
    PROVE  StepOf(v)
<1>1. UploadOK(v) /\ UploadTypeOK
  BY DEF UploadInv
<1>2. /\ Moves(v) /\ up'[v].written = up[v].written
      /\ up'[v].pc \in {"free"}
  BY <1>1, GotoMoves, RefuseMoves DEF Unstage, Place, Ended, Outcome
<1>3. up[v].pc = "unstage" /\ UNCHANGED <<final, rows, rooms, doomed, ledger>>
      /\ staging' = staging \ {v}
  BY <1>1, <1>2, GotoMoves, RefuseMoves DEF Unstage, At, disk, tables, Place, Ended, Outcome
<1> QED
  BY <1>1, <1>2, <1>3, QuietStep
     DEF Toggles, UploadOK, HoldsOK, DiskOK, Holding, Early

LEMMA UnfileStep ==
    ASSUME UploadInv, NEW v \in Uploads, Unfile(v)
    PROVE  StepOf(v)
<1>1. UploadOK(v) /\ UploadTypeOK
  BY DEF UploadInv
<1>2. /\ Moves(v) /\ up'[v].written = up[v].written
      /\ up'[v].pc \in {"free"}
  BY <1>1, GotoMoves, RefuseMoves DEF Unfile, Place, Ended, Outcome
<1>3. up[v].pc = "unfile" /\ UNCHANGED <<staging, rows, rooms, doomed, ledger>>
      /\ final' = final \ {v}
  BY <1>1, <1>2, GotoMoves, RefuseMoves DEF Unfile, At, disk, tables, Place, Ended, Outcome
<1> QED
  BY <1>1, <1>2, <1>3, QuietStep
     DEF Toggles, UploadOK, HoldsOK, DiskOK, Holding, Early

LEMMA CreateStagingStep ==
    ASSUME UploadInv, NEW v \in Uploads, CreateStaging(v)
    PROVE  StepOf(v)
<1>1. UploadOK(v) /\ UploadTypeOK
  BY DEF UploadInv
<1>2. /\ Moves(v) /\ up'[v].written = up[v].written
      /\ up'[v].pc \in {"stream", "free"}
  BY <1>1, GotoMoves, RefuseMoves DEF CreateStaging, Place, Ended, Outcome
<1>3. up[v].pc = "create" /\ UNCHANGED <<final, rows, rooms, doomed, ledger>>
      /\ up'[v].reserved = up[v].reserved
      /\ staging' = IF up'[v].pc = "stream" THEN staging \union {v} ELSE staging
  BY <1>1, <1>2, GotoMoves, RefuseMoves DEF CreateStaging, At, disk, tables, Place, Ended, Outcome
<1>4. v \in Live => reservations[v].bytes \in Nat
  BY <1>1 DEF UploadTypeOK, LedgerTypeOK, Reservation
<1> QED
  BY <1>1, <1>2, <1>3, <1>4, QuietStep
     DEF Toggles, UploadOK, HoldsOK, DiskOK, Holding, Early

LEMMA FinishBodyStep ==
    ASSUME UploadInv, NEW v \in Uploads, FinishBody(v)
    PROVE  StepOf(v)
<1>1. UploadOK(v) /\ UploadTypeOK
  BY DEF UploadInv
<1>2. /\ Moves(v) /\ up'[v].written = up[v].written
      /\ up'[v].pc \in {"free", "shrink"}
  BY <1>1, GotoMoves, RefuseMoves DEF FinishBody, Place, Ended, Outcome
<1>3. up[v].pc = "stream" /\ UNCHANGED <<final, rows, rooms, doomed, ledger>>
      /\ up'[v].reserved = up[v].reserved
      /\ staging' = IF up'[v].pc = "free" THEN staging \ {v} ELSE staging
  BY <1>1, <1>2, GotoMoves, RefuseMoves DEF FinishBody, At, disk, tables, Place, Ended, Outcome
<1> QED
  BY <1>1, <1>2, <1>3, QuietStep
     DEF Toggles, UploadOK, HoldsOK, DiskOK, Holding, Early

LEMMA RenameStep ==
    ASSUME UploadInv, NEW v \in Uploads, Rename(v)
    PROVE  StepOf(v)
<1>1. UploadOK(v) /\ UploadTypeOK
  BY DEF UploadInv
<1>2. /\ Moves(v) /\ up'[v].written = up[v].written
      /\ up'[v].pc \in {"insert", "free"}
  BY <1>1, GotoMoves, RefuseMoves DEF Rename, Place, Ended, Outcome
<1>3. up[v].pc = "rename" /\ UNCHANGED <<rows, rooms, doomed, ledger>>
      /\ staging' = staging \ {v}
      /\ final' = IF up'[v].pc = "insert" THEN final \union {v} ELSE final
  BY <1>1, <1>2, GotoMoves, RefuseMoves DEF Rename, At, disk, tables, Place, Ended, Outcome
<1> QED
  BY <1>1, <1>2, <1>3, QuietStep
     DEF Toggles, UploadOK, HoldsOK, DiskOK, Holding, Early

LEMMA InsertRowStep ==
    ASSUME UploadInv, NEW v \in Uploads, InsertRow(v)
    PROVE  StepOf(v)
<1>1. UploadOK(v) /\ UploadTypeOK
  BY DEF UploadInv
<1>2. /\ Moves(v) /\ up'[v].written = up[v].written
      /\ up'[v].pc \in {"stored", "unfile"}
  BY <1>1, GotoMoves, RefuseMoves DEF InsertRow, Place, Ended, Outcome
<1>3. up[v].pc = "insert" /\ UNCHANGED <<staging, final, rooms, doomed, ledger>>
      /\ rows' = IF up'[v].pc = "stored" THEN rows \union {v} ELSE rows
  BY <1>1, <1>2, GotoMoves, RefuseMoves DEF InsertRow, At, disk, tables, Place, Ended, Outcome
<1> QED
  BY <1>1, <1>2, <1>3, QuietStep
     DEF Toggles, UploadOK, HoldsOK, DiskOK, Holding, Early

\* The steps that record a usage reading or the arrival of n bytes.
LEMMA ReadRoomUsageStep ==
    ASSUME UploadInv, NEW v \in Uploads, ReadRoomUsage(v)
    PROVE  StepOf(v)
<1>1. UploadOK(v) /\ UploadTypeOK
  BY DEF UploadInv
<1>2. up[v].pc = "usage" /\ UNCHANGED <<staging, final, rows, rooms, doomed, ledger>>
  BY DEF ReadRoomUsage, At, disk, tables
<1>3. /\ Moves(v) /\ up'[v].written = up[v].written
      /\ up'[v].pc \in {"global", "acquire", "failed"}
  <2>1. CASE Refuse(v, "room_quota", "failed") \/ Refuse(v, "io", "failed")
    BY <1>1, <2>1, RefuseMoves DEF Place, Ended, Outcome
  <2>2. CASE ~(Refuse(v, "room_quota", "failed") \/ Refuse(v, "io", "failed"))
    <3>1. up[v].room \in Rooms
      BY <1>1 DEF UploadTypeOK, Request
    <3>2. RoomUsage(up[v].room) \in Nat /\ RoomCount(up[v].room) \in Nat
      BY SMTT(30), <1>1, <3>1, UsageType
    <3>3. PICK used \in Nat, count \in Nat, place \in {"global", "acquire"} :
             up' = [up EXCEPT ![v].used = used, ![v].count = count, ![v].pc = place]
      BY <2>2, <3>2 DEF ReadRoomUsage
    <3>4. place \in Place
      BY <3>3 DEF Place
    <3>5. UploadTypeOK
      BY <1>1
    <3>6. Moves(v) /\ up'[v].pc = place /\ up'[v].written = up[v].written
      BY <3>3, <3>4, <3>5, UsageMoves, Zenon
    <3> QED
      BY <3>3, <3>6
  <2> QED
    BY <2>1, <2>2
<1> QED
  BY <1>1, <1>2, <1>3, QuietStep
     DEF Toggles, UploadOK, HoldsOK, DiskOK, Holding, Early

LEMMA ReadGlobalUsageStep ==
    ASSUME UploadInv, NEW v \in Uploads, ReadGlobalUsage(v)
    PROVE  StepOf(v)
<1>1. UploadOK(v) /\ UploadTypeOK
  BY DEF UploadInv
<1>2. up[v].pc = "global" /\ UNCHANGED <<staging, final, rows, rooms, doomed, ledger>>
  BY DEF ReadGlobalUsage, At, disk, tables
<1>3. /\ Moves(v) /\ up'[v].written = up[v].written
      /\ up'[v].pc \in {"acquire", "failed"}
  <2>1. CASE Refuse(v, "global_quota", "failed") \/ Refuse(v, "io", "failed")
    BY <1>1, <2>1, RefuseMoves DEF Place, Ended, Outcome
  <2>2. CASE ~(Refuse(v, "global_quota", "failed") \/ Refuse(v, "io", "failed"))
    <3>1. up' = [up EXCEPT ![v].total = TotalUsage, ![v].pc = "acquire"]
      BY <2>2 DEF ReadGlobalUsage
    <3>2. TotalUsage \in Nat
      <4>1. up[v].room \in Rooms
        BY <1>1 DEF UploadTypeOK, Request
      <4> QED
        BY <1>1, <4>1, UsageType
    <3> QED
      <4>1. "acquire" \in Place /\ UploadTypeOK
        BY <1>1 DEF Place
      <4>2. Moves(v) /\ up'[v].pc = "acquire" /\ up'[v].written = up[v].written
        BY <3>1, <3>2, <4>1, TotalMoves, Zenon
      <4> QED
        BY <4>2
  <2> QED
    BY <2>1, <2>2
<1> QED
  BY <1>1, <1>2, <1>3, QuietStep
     DEF Toggles, UploadOK, HoldsOK, DiskOK, Holding, Early

LEMMA ReceiveWithinStep ==
    ASSUME UploadInv, NEW v \in Uploads, NEW n \in 1 .. BufSize, ReceiveWithin(v, n)
    PROVE  StepOf(v)
<1>1. UploadOK(v) /\ UploadTypeOK
  BY DEF UploadInv
<1>2. up[v].pc = "stream" /\ UNCHANGED <<staging, final, rows, rooms, doomed, ledger>>
  BY DEF ReceiveWithin, At, disk, tables
<1>3. /\ Moves(v) /\ up'[v].pc = "stream" /\ up'[v].reserved = up[v].reserved
      /\ up'[v].written <= up[v].reserved
  BY <1>1, <1>2, UploadAssumption DEF UploadTypeOK, Request, Moves, ReceiveWithin
<1> QED
  BY <1>1, <1>2, <1>3, QuietStep
     DEF Toggles, UploadOK, HoldsOK, DiskOK, Holding, Early

-----------------------------------------------------------------------------
(***************************************************************************)
(* Steps that call the quota manager.                                      *)
(***************************************************************************)
LEMMA LedgerStep ==
    ASSUME UploadInv, NEW v \in Uploads, Moves(v), LedgerInv',
           UNCHANGED <<disk, tables, doomed>>,
           \A u \in Uploads \ {v} : /\ u \in Live' <=> u \in Live
                                    /\ u \in Live => reservations'[u] = reservations[u],
           UploadOK(v)'
    PROVE  StepOf(v)
<1>1. UploadTypeOK'
  BY DEF UploadInv, UploadTypeOK, LedgerInv, Moves, disk, tables
<1>2. \A u \in Uploads \ {v} : Untouched(u)
  BY DEF Untouched, Moves, disk, tables
<1> QED
  BY <1>1, <1>2 DEF StepOf, Moves

LEMMA AcquireQuotaStep ==
    ASSUME UploadInv, NEW v \in Uploads, AcquireQuota(v)
    PROVE  StepOf(v)
<1>1. UploadOK(v) /\ UploadTypeOK /\ LedgerInv
  BY DEF UploadInv
<1>2. PICK declared \in DeclaredSizes :
          LET initial == InitialReservation(v, declared)
          IN  /\ At(v, "acquire")
              /\ Acquire(v, up[v].room, initial, up[v].used, up[v].count, up[v].total)
              /\ up' = [up EXCEPT ![v].pc = "create", ![v].reserved = initial]
              /\ UNCHANGED <<disk, tables, doomed>>
  BY DEF AcquireQuota
<1> DEFINE initial == InitialReservation(v, declared)
<1>3. initial \in Int
  BY <1>1, InitialReservationType
<1>4. /\ up[v].pc = "acquire" /\ UNCHANGED <<disk, tables, doomed>>
      /\ Acquire(v, up[v].room, initial, up[v].used, up[v].count, up[v].total)
      /\ up' = [up EXCEPT ![v].pc = "create", ![v].reserved = initial]
  BY <1>2 DEF At
<1> HIDE DEF initial
<1>5. /\ up[v].room \in Rooms /\ up[v].used \in Nat /\ up[v].count \in Nat
      /\ up[v].total \in Nat
  BY <1>1 DEF UploadTypeOK, Request
<1>6. LedgerInv'
  BY <1>1, <1>3, <1>4, <1>5, QuotaAssumption, AcquireKeepsInv DEF Uploads
<1>7. initial \in Nat
  BY <1>3, <1>4 DEF Acquire, CanAcquire
<1>8. /\ Moves(v) /\ up'[v].pc = "create" /\ up'[v].reserved = initial
      /\ up'[v].written = up[v].written
  <2>1. PICK bytes \in Nat : bytes = initial
    BY <1>7
  <2>2. up' = [up EXCEPT ![v].pc = "create", ![v].reserved = bytes]
    BY <1>4, <2>1
  <2>3. UploadTypeOK
    BY <1>1
  <2>4. /\ Moves(v) /\ up'[v].pc = "create" /\ up'[v].reserved = bytes
        /\ up'[v].written = up[v].written
    BY <2>2, <2>3, ReservedMoves
  <2> QED
    BY <2>1, <2>4
<1>9. /\ Live' = Live \union {v}
      /\ reservations'[v] = [room |-> up[v].room, bytes |-> initial, files |-> 1]
      /\ \A u \in Live \ {v} : reservations'[u] = reservations[u]
  BY <1>4 DEF Acquire, Live
<1>10. UploadOK(v)'
  <2>1. HoldsOK(v)'
    BY <1>1, <1>4, <1>7, <1>8, <1>9
       DEF UploadOK, HoldsOK, DiskOK, Holding, Early, disk, tables, Moves
  <2>2. DiskOK(v)'
    BY <1>1, <1>4, <1>8 DEF UploadOK, DiskOK, disk, tables
  <2> QED
    BY <2>1, <2>2 DEF UploadOK
<1> QED
  BY <1>4, <1>6, <1>8, <1>9, <1>10, LedgerStep

LEMMA ReceiveGrowingStep ==
    ASSUME UploadInv, NEW v \in Uploads, NEW n \in 1 .. BufSize, ReceiveGrowing(v, n)
    PROVE  StepOf(v)
<1>1. UploadOK(v) /\ UploadTypeOK /\ LedgerInv
  BY DEF UploadInv
<1> DEFINE needed == up[v].written + n - up[v].reserved
           delta == GrowDelta(v, needed)
<1>2. /\ up[v].pc = "stream" /\ UNCHANGED <<disk, tables, doomed>>
      /\ up[v].written + n <= MaxFileSize
      /\ Grow(v, delta, up[v].used, up[v].total)
      /\ up' = [up EXCEPT ![v].written = @ + n, ![v].reserved = @ + delta]
  BY DEF ReceiveGrowing, At
<1>3. /\ up[v].used \in Nat /\ up[v].total \in Nat /\ up[v].written \in Nat
      /\ up[v].reserved \in Nat
  BY <1>1, UploadAssumption DEF UploadTypeOK, Request
<1>4. needed \in Int
  BY <1>3, UploadAssumption
<1>5. delta \in Int /\ delta >= needed
  <2> HIDE DEF needed
  <2> QED
    BY <1>1, <1>4, GrowthCovers
<1> HIDE DEF delta
<1>6. delta > 0 /\ v \in Live
  BY <1>2 DEF Grow, CanGrow
<1>7. LedgerInv'
  BY <1>1, <1>2, <1>3, <1>5, QuotaAssumption, GrowKeepsInv DEF Uploads
<1>8. /\ Moves(v) /\ up'[v].pc = "stream"
      /\ up'[v].reserved = up[v].reserved + delta
      /\ up'[v].written = up[v].written + n
  BY <1>1, <1>2, <1>3, <1>5, <1>6, UploadAssumption
     DEF UploadTypeOK, Request, Moves
<1>9. /\ Live' = Live
      /\ reservations'[v] = [reservations[v] EXCEPT !.bytes = @ + delta]
      /\ \A u \in Live \ {v} : reservations'[u] = reservations[u]
  BY <1>2, <1>6 DEF Grow, Live
<1>10. /\ reservations[v].bytes = up[v].reserved
       /\ reservations'[v].bytes = up'[v].reserved
       /\ reservations'[v].room = reservations[v].room
  BY <1>1, <1>2, <1>6, <1>8, <1>9
     DEF UploadOK, HoldsOK, UploadTypeOK, LedgerTypeOK, Reservation, Live
<1>11. up'[v].written <= up'[v].reserved
  BY <1>3, <1>5, <1>8 DEF needed
<1>12. UploadOK(v)'
  <2>1. HoldsOK(v)'
    BY <1>1, <1>2, <1>6, <1>8, <1>9, <1>10, <1>11
       DEF UploadOK, HoldsOK, Holding, Early, Moves
  <2>2. DiskOK(v)'
    BY <1>1, <1>2, <1>8 DEF UploadOK, DiskOK, disk, tables
  <2> QED
    BY <2>1, <2>2 DEF UploadOK
<1> QED
  BY <1>2, <1>7, <1>8, <1>9, <1>12, LedgerStep

LEMMA ShrinkQuotaStep ==
    ASSUME UploadInv, NEW v \in Uploads, ShrinkQuota(v)
    PROVE  StepOf(v)
<1>1. UploadOK(v) /\ UploadTypeOK /\ LedgerInv
  BY DEF UploadInv
<1>2. up[v].pc = "shrink" /\ UNCHANGED <<disk, tables, doomed>>
  BY DEF ShrinkQuota, At
<1>3. /\ Moves(v) /\ up'[v].pc = "rename"
      /\ up'[v].reserved = up[v].reserved /\ up'[v].written = up[v].written
  BY <1>1, GotoMoves DEF ShrinkQuota, Place
<1>4. up[v].written \in Nat /\ up[v].reserved \in Nat
  BY <1>1, UploadAssumption DEF UploadTypeOK, Request
<1>5. CASE UNCHANGED ledger
  <2>1. UNCHANGED <<staging, final, rows, rooms, doomed, ledger>>
    BY <1>2, <1>5 DEF disk, tables
  <2> QED
    BY <1>1, <1>2, <1>3, <2>1, QuietStep
       DEF Toggles, UploadOK, HoldsOK, DiskOK, Holding, Early
<1>6. CASE Shrink(v, up[v].written)
  <2>1. LedgerInv'
    BY <1>1, <1>4, <1>6, QuotaAssumption, ShrinkKeepsInv DEF Uploads
  <2>2. NotBelowZero(up[v].written) = up[v].written
    BY <1>4 DEF NotBelowZero
  <2>3. /\ v \in Live /\ Live' = Live
        /\ reservations'[v] = [reservations[v] EXCEPT !.bytes = up[v].written]
        /\ \A u \in Live \ {v} : reservations'[u] = reservations[u]
    BY <1>6, <2>2 DEF Shrink, Live
  <2>4. /\ reservations'[v].bytes = up'[v].written
        /\ reservations'[v].room = reservations[v].room
    BY <1>1, <1>3, <2>3 DEF UploadTypeOK, LedgerTypeOK, Reservation, Live
  <2>5. HoldsOK(v)'
    BY <1>1, <1>2, <1>3, <1>4, <2>3, <2>4
       DEF UploadOK, HoldsOK, Holding, Early, Moves
  <2>6. DiskOK(v)'
    BY <1>1, <1>2, <1>3 DEF UploadOK, DiskOK, disk, tables
  <2> QED
    BY <1>2, <1>3, <2>1, <2>3, <2>5, <2>6, LedgerStep DEF UploadOK
<1> QED
  BY <1>5, <1>6 DEF ShrinkQuota

LEMMA ReleaseQuotaStep ==
    ASSUME UploadInv, NEW v \in Uploads, ReleaseQuota(v)
    PROVE  StepOf(v)
<1>1. UploadOK(v) /\ UploadTypeOK /\ LedgerInv
  BY DEF UploadInv
<1>2. /\ up[v].pc \in {"stored", "free"} /\ UNCHANGED <<disk, tables, doomed>>
      /\ Release(v)
  BY DEF ReleaseQuota, At
<1>3. /\ Moves(v) /\ up'[v].written = up[v].written
      /\ up'[v].pc = IF up[v].pc = "stored" THEN "done" ELSE "failed"
  BY <1>1, GotoMoves DEF ReleaseQuota, At, Place, Ended
<1>4. LedgerInv'
  BY <1>1, <1>2, QuotaAssumption, ReleaseKeepsInv DEF Uploads
<1>5. /\ Live' = Live \ {v}
      /\ \A u \in Live \ {v} : reservations'[u] = reservations[u]
  BY <1>2 DEF Release, Live
<1>6. HoldsOK(v)'
  BY <1>1, <1>2, <1>3, <1>5 DEF UploadOK, HoldsOK, Holding, Early
<1>7. DiskOK(v)'
  BY <1>1, <1>2, <1>3 DEF UploadOK, DiskOK, disk, tables
<1> QED
  BY <1>2, <1>3, <1>4, <1>5, <1>6, <1>7, LedgerStep DEF UploadOK

LEMMA EveryUploadStep ==
    ASSUME UploadInv, NEW v \in Uploads, CheckFreeSpace(v) \/ UploadStep(v)
    PROVE  StepOf(v)
<1>1. ASSUME NEW n \in 1 .. BufSize,
             ReceiveWithin(v, n) \/ ReceiveGrowing(v, n) \/ RefuseGrowth(v, n)
                \/ RefuseTooLarge(v, n)
      PROVE  StepOf(v)
  BY <1>1, ReceiveWithinStep, ReceiveGrowingStep, RefuseGrowthStep, RefuseTooLargeStep
<1>2. CASE CheckFreeSpace(v) \/ ReadRoomUsage(v) \/ ReadGlobalUsage(v)
           \/ AcquireQuota(v) \/ RefuseQuota(v) \/ CreateStaging(v)
  BY <1>2, CheckFreeSpaceStep, ReadRoomUsageStep, ReadGlobalUsageStep,
     AcquireQuotaStep, RefuseQuotaStep, CreateStagingStep
<1>3. CASE BodyFails(v) \/ FinishBody(v) \/ ShrinkQuota(v) \/ Rename(v)
           \/ InsertRow(v) \/ Unstage(v) \/ Unfile(v) \/ ReleaseQuota(v)
  BY <1>3, BodyFailsStep, FinishBodyStep, ShrinkQuotaStep, RenameStep,
     InsertRowStep, UnstageStep, UnfileStep, ReleaseQuotaStep
<1> QED
  BY <1>1, <1>2, <1>3 DEF UploadStep

-----------------------------------------------------------------------------
(***************************************************************************)
(* The world around the uploads.                                           *)
(***************************************************************************)
LEMMA DeleteRoomKeepsInv ==
    ASSUME UploadInv, NEW room \in Rooms, DeleteRoom(room)
    PROVE  UploadInv'
<1>1. /\ rows' = rows \ ReadyIn(room) /\ doomed' = doomed \union ReadyIn(room)
      /\ rooms' = rooms \ {room} /\ UNCHANGED <<up, staging, final, ledger>>
      /\ ReadyIn(room) \subseteq rows
  BY DEF DeleteRoom, disk, ReadyIn
<1>2. LedgerInv' /\ Live' = Live /\ reservations' = reservations
  BY <1>1, LedgerUntouched DEF UploadInv, ledger
<1>3. UploadTypeOK'
  BY <1>1, <1>2 DEF UploadInv, UploadTypeOK, LedgerInv
<1>4. ASSUME NEW u \in Uploads
      PROVE  UploadOK(u)'
  <2>1. UploadOK(u) /\ (u \in rows' \union doomed' <=> u \in rows \union doomed)
    BY <1>1 DEF UploadInv
  <2>2. HoldsOK(u)'
    BY <1>1, <1>2, <2>1 DEF UploadOK, HoldsOK
  <2>3. DiskOK(u)'
    BY <1>1, <2>1 DEF UploadOK, DiskOK
  <2> QED
    BY <2>2, <2>3 DEF UploadOK
<1> QED
  BY <1>2, <1>3, <1>4 DEF UploadInv

LEMMA RemoveDoomedKeepsInv ==
    ASSUME UploadInv, NEW v \in Uploads, RemoveDoomed(v)
    PROVE  UploadInv'
<1>1. /\ v \in doomed /\ doomed' = doomed \ {v} /\ final' = final \ {v}
      /\ UNCHANGED <<up, staging, rows, rooms, ledger>>
  BY DEF RemoveDoomed, tables
<1>2. LedgerInv' /\ Live' = Live /\ reservations' = reservations
  BY <1>1, LedgerUntouched DEF UploadInv, ledger
<1>3. UploadTypeOK'
  BY <1>1, <1>2 DEF UploadInv, UploadTypeOK, LedgerInv
<1>4. UploadOK(v)'
  <2>1. UploadOK(v)
    BY DEF UploadInv
  <2>2. HoldsOK(v)'
    BY <1>1, <1>2, <2>1 DEF UploadOK, HoldsOK, DiskOK, Holding
  <2>3. DiskOK(v)'
    BY <1>1, <2>1 DEF UploadOK, DiskOK
  <2> QED
    BY <2>2, <2>3 DEF UploadOK
<1>5. \A u \in Uploads \ {v} : Untouched(u)
  BY <1>1, <1>2 DEF Untouched
<1> QED
  BY <1>1, <1>2, <1>3, <1>4, <1>5, StepKeepsUploadInv DEF StepOf

LEMMA CrashKeepsInv ==
    ASSUME UploadInv, Crash
    PROVE  UploadInv'
<1>1. UNCHANGED <<staging, final, rows, rooms, doomed>>
  BY DEF Crash, disk, tables
<1>2. LedgerInv' /\ Live' = {}
  BY QuotaAssumption, RestartEstablishesInv DEF Crash, Restart, Live
<1>3. /\ up' \in [Uploads -> Request]
      /\ \A u \in Uploads :
            /\ up'[u].written = up[u].written
            /\ up[u].pc \in {"new"} \union Ended => up'[u] = up[u]
            /\ up[u].pc \notin {"new"} \union Ended => up'[u].pc = "crashed"
  BY DEF Crash, UploadInv, UploadTypeOK, Request, At, Place, Ended
<1>4. UploadTypeOK'
  BY <1>1, <1>2, <1>3 DEF UploadInv, UploadTypeOK, LedgerInv
<1>5. ASSUME NEW u \in Uploads
      PROVE  UploadOK(u)'
  <2>1. UploadOK(u) /\ up[u].pc \in Place
    BY DEF UploadInv, UploadTypeOK, Request
  <2>2. CASE up[u].pc \in {"new"} \union Ended
    BY <1>1, <1>2, <1>3, <2>1, <2>2
       DEF UploadOK, HoldsOK, DiskOK, Holding, Early, Ended
  <2>3. CASE up[u].pc \notin {"new"} \union Ended
    BY <1>1, <1>2, <1>3, <2>1, <2>3
       DEF UploadOK, HoldsOK, DiskOK, Holding, Early, Ended
  <2> QED
    BY <2>2, <2>3
<1> QED
  BY <1>2, <1>4, <1>5 DEF UploadInv

LEMMA InitIsOK == Init => UploadInv
<1> SUFFICES ASSUME Init PROVE UploadInv
  OBVIOUS
<1>1. LedgerInv /\ Live = {}
  BY QuotaAssumption, InitEstablishesInv DEF Init, LedgerInit, Live
<1>2. /\ up \in [Uploads -> Request]
      /\ \A u \in Uploads : up[u].pc = "new" /\ up[u].written = 0
  BY UploadAssumption DEF Init, InitRequest, Request, Place, Outcome
<1>3. UploadTypeOK
  BY <1>1, <1>2 DEF Init, UploadTypeOK, LedgerInv
<1> QED
  BY <1>1, <1>2, <1>3
     DEF Init, UploadInv, UploadOK, HoldsOK, DiskOK, Holding

LEMMA UploadInvariantStep ==
    ASSUME UploadInv, [Next]_vars
    PROVE  UploadInv'
<1>1. CASE \E u \in Uploads : CheckFreeSpace(u) \/ UploadStep(u)
  BY <1>1, EveryUploadStep, StepKeepsUploadInv
<1>2. CASE \E u \in Uploads : RemoveDoomed(u)
  BY <1>2, RemoveDoomedKeepsInv
<1>3. CASE \E room \in Rooms : DeleteRoom(room)
  BY <1>3, DeleteRoomKeepsInv
<1>4. CASE Crash
  BY <1>4, CrashKeepsInv
<1>5. CASE UNCHANGED vars
  <2>1. LedgerInv' /\ Live' = Live
    BY <1>5, LedgerUntouched DEF vars, UploadInv
  <2>2. UNCHANGED <<up, staging, final, rows, rooms, doomed, reservations>>
    BY <1>5 DEF vars, ledger
  <2> QED
    BY <2>1, <2>2
       DEF UploadInv, UploadTypeOK, LedgerInv, UploadOK, HoldsOK, DiskOK
<1> QED
  BY <1>1, <1>2, <1>3, <1>4, <1>5 DEF Next

-----------------------------------------------------------------------------
(***************************************************************************)
(* The invariant of StreamUpload (file.go:272-500): in every state that    *)
(* can be reached each upload's place, reservation, files and row fit      *)
(* together.                                                               *)
(***************************************************************************)
THEOREM UploadInvariant == Spec => []UploadInv
  BY InitIsOK, UploadInvariantStep, PTL DEF Spec

\* The local variables of StreamUpload and the ledger keep their types; in
\* particular nothing longer than MaxFileSize is written (file.go:387).
THEOREM UploadTypeCorrect == Spec => []UploadTypeOK
<1>1. UploadInv => UploadTypeOK
  BY DEF UploadInv
<1> QED
  BY <1>1, UploadInvariant, PTL

\* No error path leaves a file behind, and a listed file exists: the deferred
\* removals of file.go:370-376 and 469-485 run on every path that needs them.
THEOREM FilesAndRowsAlwaysAgree == Spec => []FilesAndRowsAgree
<1>1. UploadInv => FilesAndRowsAgree
  BY DEF UploadInv, UploadOK, DiskOK, FilesAndRowsAgree, UploadTypeOK
<1> QED
  BY <1>1, UploadInvariant, PTL

\* The reservation covers every byte on disk that no row accounts for yet,
\* because file.go:391-431 grows it before it writes.
THEOREM BytesAlwaysCovered == Spec => []BytesCovered
<1>1. UploadInv => BytesCovered
  BY DEF UploadInv, UploadOK, HoldsOK, DiskOK, BytesCovered, UploadTypeOK, Holding
<1> QED
  BY <1>1, UploadInvariant, PTL

\* A reservation lives exactly from Acquire (file.go:339) to the deferred
\* Release (file.go:344-349), and has the size the upload believes it has.
THEOREM ReservationsAlwaysInFlight == Spec => []ReservationsInFlight
<1>1. UploadInv => ReservationsInFlight
  <2> SUFFICES ASSUME UploadInv PROVE ReservationsInFlight
    OBVIOUS
  <2>1. Live \subseteq Uploads
    BY DEF UploadInv, LedgerInv, LedgerTypeOK, Uploads
  <2> QED
    BY <2>1 DEF UploadInv, UploadOK, HoldsOK, ReservationsInFlight
<1> QED
  BY <1>1, UploadInvariant, PTL

\* With uploads, crashes and deletions of rooms as the callers, the ledger's
\* counters (quota.go:26-32) are still what the live reservations add up to.
THEOREM UploadCountersExact == Spec => []CountersExact
<1>1. UploadInv => CountersExact
  BY DEF UploadInv, LedgerInv
<1> QED
  BY <1>1, UploadInvariant, PTL

\* However stale the readings of concurrent uploads are, what they hold in
\* flight never exceeds a limit (quota.go:45-98 and 104-133).
THEOREM UploadReservedWithinLimits == Spec => []ReservedWithinLimits
<1>1. UploadInv => ReservedWithinLimits
  BY DEF UploadInv, LedgerInv
<1> QED
  BY <1>1, UploadInvariant, PTL
-----------------------------------------------------------------------------
(***************************************************************************)
(* What the rooms and the volume are committed to.                         *)
(***************************************************************************)
\* From the shrink on a reservation holds no more than the file has, and only
\* a file with something in it gets that far.
CommitOK(u) ==
    /\ up[u].pc \in {"shrink", "rename", "insert"} => up[u].written > 0
    /\ u \in Live /\ up[u].pc \in {"rename", "insert", "stored"} =>
          reservations[u].bytes <= up[u].written

CommitInv == UploadInv /\ \A u \in Uploads : CommitOK(u)

\* What an upload takes of the limits, from its reservation to the end of its
\* row.
account == [u \in Uploads |-> IF u \in rows THEN up[u].written
                              ELSE IF u \in Live THEN reservations[u].bytes
                              ELSE 0]
Committed == rows \union Live
Of(room) == {u \in Uploads : up[u].room = room}

LEMMA AccountType ==
    ASSUME UploadInv
    PROVE  /\ \A u \in Uploads : account[u] \in Nat
           /\ IsFiniteSet(Uploads) /\ rows \subseteq Uploads /\ Live \subseteq Uploads
           /\ \A u \in Uploads : up[u].written \in Nat /\ up[u].room \in Rooms
           /\ \A u \in Live : /\ reservations[u].bytes \in Nat
                              /\ reservations[u].room = up[u].room
           /\ \A room : /\ IsFiniteSet(Of(room)) /\ IsFiniteSet(Of(room) \intersect Committed)
                        /\ IsFiniteSet(ReadyIn(room)) /\ IsFiniteSet(InRoom(room) \ rows)
<1>1. UploadTypeOK /\ LedgerTypeOK /\ \A u \in Uploads : HoldsOK(u)
  BY DEF UploadInv, LedgerInv, UploadOK
<1>2. IsFiniteSet(Uploads) /\ rows \subseteq Uploads /\ Live \subseteq Uploads
  BY <1>1, QuotaAssumption DEF Uploads, UploadTypeOK, LedgerTypeOK
<1>3. \A u \in Uploads : up[u].written \in Nat /\ up[u].room \in Rooms
  BY <1>1, UploadAssumption DEF UploadTypeOK, Request
<1>4. \A u \in Live : reservations[u].bytes \in Nat /\ reservations[u].room = up[u].room
  BY <1>1, <1>2 DEF LedgerTypeOK, Reservation, HoldsOK
<1>5. \A u \in Uploads : account[u] \in Nat
  BY <1>3, <1>4 DEF account
<1>6. ASSUME NEW room
      PROVE  /\ IsFiniteSet(Of(room)) /\ IsFiniteSet(Of(room) \intersect Committed)
             /\ IsFiniteSet(ReadyIn(room)) /\ IsFiniteSet(InRoom(room) \ rows)
  <2>1. /\ Of(room) \in SUBSET Uploads /\ Of(room) \intersect Committed \in SUBSET Uploads
        /\ ReadyIn(room) \in SUBSET Uploads /\ InRoom(room) \ rows \in SUBSET Uploads
    BY <1>2 DEF Of, ReadyIn, InRoom
  <2> QED
    BY <1>2, <2>1, FS_Subset
<1> QED
  BY <1>2, <1>3, <1>4, <1>5, <1>6

\* The commitments of a room and of the volume are what the accounts add up to.
LEMMA OccupiedIsTally ==
    ASSUME UploadInv, NEW room \in Rooms
    PROVE  Occupied(room) = Tally(account, Of(room))
<1> DEFINE ready == ReadyIn(room)
           held == InRoom(room) \ rows
<1>1. /\ ready \union held \in SUBSET Of(room) /\ ready \intersect held = {}
      /\ \A u \in Of(room) \ (ready \union held) : account[u] = 0
      /\ \A u \in ready : sizeOf[u] \in Nat /\ account[u] = sizeOf[u]
      /\ \A u \in held : bytesOf[u] \in Nat /\ account[u] = bytesOf[u]
      /\ IsFiniteSet(ready) /\ IsFiniteSet(held)
  BY AccountType DEF Of, ReadyIn, InRoom, account, sizeOf, bytesOf
<1> HIDE DEF ready, held
<1>2. Tally(sizeOf, ready) + Tally(bytesOf, held) = Tally(account, ready \union held)
  BY <1>1, TallyTogether
<1>3. Tally(account, ready \union held) = Tally(account, Of(room))
  BY <1>1, TallyIdle
<1> QED
  BY <1>2, <1>3 DEF Occupied, RoomUsage, ready, held

LEMMA OccupiedInAllIsTally ==
    ASSUME UploadInv
    PROVE  OccupiedInAll = Tally(account, Uploads)
<1> DEFINE held == Live \ rows
<1>1. /\ rows \union held \in SUBSET Uploads /\ rows \intersect held = {}
      /\ \A u \in Uploads \ (rows \union held) : account[u] = 0
      /\ \A u \in rows : sizeOf[u] \in Nat /\ account[u] = sizeOf[u]
      /\ \A u \in held : bytesOf[u] \in Nat /\ account[u] = bytesOf[u]
  BY AccountType DEF account, sizeOf, bytesOf
<1>2. IsFiniteSet(rows) /\ IsFiniteSet(held)
  BY AccountType, FS_Subset
<1> HIDE DEF held
<1>3. Tally(sizeOf, rows) + Tally(bytesOf, held) = Tally(account, rows \union held)
  BY <1>1, <1>2, TallyTogether
<1>4. Tally(account, rows \union held) = Tally(account, Uploads)
  BY <1>1, TallyIdle
<1> QED
  BY <1>3, <1>4 DEF OccupiedInAll, TotalUsage, held

LEMMA SlotsAreCommitted ==
    ASSUME UploadInv, NEW room \in Rooms
    PROVE  Slots(room) = Cardinality(Of(room) \intersect Committed)
<1> DEFINE ready == ReadyIn(room)
           held == InRoom(room) \ rows
<1>1. /\ ready \union held = Of(room) \intersect Committed /\ ready \intersect held = {}
      /\ IsFiniteSet(ready) /\ IsFiniteSet(held)
  BY AccountType DEF Of, ReadyIn, InRoom, Committed
<1> HIDE DEF ready, held
<1>2. Cardinality(ready \union held)
        = Cardinality(ready) + Cardinality(held) - Cardinality(ready \intersect held)
  BY <1>1, FS_Union
<1>3. Cardinality(ready \intersect held) = 0
  BY <1>1, FS_EmptySet, Zenon
<1>4. Cardinality(ready) \in Nat /\ Cardinality(held) \in Nat
  BY <1>1, FS_CardinalityType
<1>5. Cardinality(ready \union held) = Cardinality(ready) + Cardinality(held)
  BY <1>2, <1>3, <1>4
<1>6. Cardinality(Of(room) \intersect Committed) = Cardinality(ready \union held)
  BY <1>1, Zenon
<1> QED
  BY <1>5, <1>6 DEF Slots, RoomCount, ready, held

\* The same of the state after a step.
AccountsAddUp ==
    /\ \A u \in Uploads : account[u] \in Nat
    /\ \A room \in Rooms : /\ Occupied(room) = Tally(account, Of(room))
                           /\ Slots(room) = Cardinality(Of(room) \intersect Committed)
    /\ OccupiedInAll = Tally(account, Uploads)

LEMMA AddUp == UploadInv => AccountsAddUp
  BY AccountType, OccupiedIsTally, SlotsAreCommitted, OccupiedInAllIsTally
     DEF AccountsAddUp

LEMMA AddUpNext == UploadInv' => AccountsAddUp'
  BY AddUp, PTL

-----------------------------------------------------------------------------
(***************************************************************************)
(* Most steps raise no account and commit no further upload.               *)
(***************************************************************************)
NoMore ==
    /\ \A u \in Uploads : account'[u] <= account[u]
    /\ Committed' \subseteq Committed
    /\ \A u \in Uploads : up'[u].room = up[u].room

LEMMA NoMoreOccupied ==
    ASSUME UploadInv, UploadInv', NoMore
    PROVE  /\ \A room \in Rooms : Occupied(room)' <= Occupied(room)
           /\ \A room \in Rooms : Slots(room)' <= Slots(room)
           /\ OccupiedInAll' <= OccupiedInAll
<1>1. /\ \A u \in Uploads : account[u] \in Nat /\ account'[u] \in Nat
      /\ IsFiniteSet(Uploads)
      /\ \A room : IsFiniteSet(Of(room)) /\ IsFiniteSet(Of(room) \intersect Committed)
  <2>1. \A u \in Uploads : account'[u] \in Nat
    BY AddUpNext DEF AccountsAddUp, Uploads
  <2> QED
    BY <2>1, AccountType
<1>2. \A room : Of(room)' = Of(room)
  BY DEF NoMore, Of
<1>3. ASSUME NEW room \in Rooms
      PROVE  Occupied(room)' <= Occupied(room)
  <2>1. Of(room) \subseteq Uploads
    BY DEF Of
  <2>2. Tally(account', Of(room)) <= Tally(account, Of(room))
    BY <1>1, <2>1, TallyLess DEF NoMore
  <2>3. Occupied(room)' = Tally(account', Of(room)')
    BY AddUpNext DEF AccountsAddUp
  <2> QED
    BY <1>2, <2>2, <2>3, OccupiedIsTally
<1>4. ASSUME NEW room \in Rooms
      PROVE  Slots(room)' <= Slots(room)
  <2>1. (Of(room) \intersect Committed)' \in SUBSET (Of(room) \intersect Committed)
    BY <1>2 DEF NoMore
  <2>2. Cardinality((Of(room) \intersect Committed)') <= Cardinality(Of(room) \intersect Committed)
    BY <1>1, <2>1, FS_Subset
  <2>3. Slots(room)' = Cardinality((Of(room) \intersect Committed)')
    BY AddUpNext DEF AccountsAddUp
  <2> QED
    BY <2>2, <2>3, SlotsAreCommitted
<1>5. OccupiedInAll' <= OccupiedInAll
  <2>1. Tally(account', Uploads) <= Tally(account, Uploads)
    BY <1>1, TallyLess DEF NoMore
  <2>2. OccupiedInAll' = Tally(account', Uploads)
    BY AddUpNext DEF AccountsAddUp, Uploads
  <2> QED
    BY <2>1, <2>2, OccupiedInAllIsTally
<1> QED
  BY <1>3, <1>4, <1>5
-----------------------------------------------------------------------------
(***************************************************************************)
(* The steps of one upload that ask for nothing.                           *)
(***************************************************************************)
Settles(v) ==
    /\ CommitOK(v)'
    /\ account'[v] <= account[v]
    /\ v \in Committed' => v \in Committed

LEMMA SettledStep ==
    ASSUME UploadInv, NEW v \in Uploads, StepOf(v), Settles(v)
    PROVE  NoMore
<1>1. \A u \in Uploads \ {v} : account'[u] = account[u] /\ (u \in Committed' <=> u \in Committed)
  BY DEF StepOf, Untouched, account, Committed, Uploads
<1>2. \A u \in Uploads : account[u] \in Nat
  BY AccountType
<1>3. \A u \in Uploads : account'[u] <= account[u]
  BY <1>1, <1>2 DEF Settles
<1>4. Committed' \subseteq Uploads
  BY DEF StepOf, UploadTypeOK, LedgerTypeOK, Committed, Uploads
<1>5. Committed' \subseteq Committed
  BY <1>1, <1>4 DEF Settles
<1>6. \A u \in Uploads : up'[u].room = up[u].room
  BY DEF StepOf, Untouched
<1> QED
  BY <1>3, <1>5, <1>6 DEF NoMore

LEMMA CommitsKept ==
    ASSUME CommitInv, NEW v \in Uploads, StepOf(v), CommitOK(v)'
    PROVE  CommitInv'
<1>1. \A u \in Uploads \ {v} : CommitOK(u)'
  BY DEF CommitInv, StepOf, Untouched, CommitOK
<1>2. UploadInv'
  BY StepKeepsUploadInv DEF CommitInv
<1> QED
  BY <1>1, <1>2 DEF CommitInv, Uploads

LEMMA QuietSettles ==
    ASSUME UploadInv, NEW v \in Uploads, CommitOK(v), UNCHANGED <<rows, ledger>>,
           v \in rows => up'[v].written = up[v].written,
           up'[v].pc \in {"shrink", "rename", "insert"} => up'[v].written > 0,
           up'[v].pc \in {"rename", "insert", "stored"} =>
                 /\ up[v].pc \in {"rename", "insert", "stored"}
                 /\ up'[v].written = up[v].written
    PROVE  Settles(v)
<1>1. Live' = Live /\ reservations' = reservations
  BY DEF ledger, Live
<1>2. CommitOK(v)'
  BY <1>1 DEF CommitOK
<1>3. account'[v] = account[v]
  BY <1>1 DEF account, Uploads
<1>4. account[v] \in Nat
  BY AccountType
<1> QED
  BY <1>1, <1>2, <1>3, <1>4 DEF Settles, Committed

\* None of these asks the quota manager for more, and none is about the row.
LEMMA PlainSettles ==
    ASSUME UploadInv, NEW v \in Uploads, CommitOK(v),
           \/ CheckFreeSpace(v) \/ ReadRoomUsage(v) \/ ReadGlobalUsage(v) \/ RefuseQuota(v)
           \/ CreateStaging(v) \/ BodyFails(v) \/ FinishBody(v) \/ Rename(v)
           \/ Unstage(v) \/ Unfile(v)
           \/ \E n \in 1 .. BufSize :
                 ReceiveWithin(v, n) \/ RefuseGrowth(v, n) \/ RefuseTooLarge(v, n)
    PROVE  Settles(v)
<1>1. UploadOK(v) /\ up \in [Uploads -> Request] /\ up[v].written \in Nat
  BY UploadAssumption DEF UploadInv, UploadTypeOK, Request
<1>2. CASE CheckFreeSpace(v) \/ ReadRoomUsage(v) \/ ReadGlobalUsage(v) \/ RefuseQuota(v)
  <2>1. /\ UNCHANGED <<rows, ledger>> /\ up'[v].written = up[v].written
        /\ up'[v].pc \in {"usage", "global", "acquire", "failed"}
    BY <1>1, <1>2 DEF CheckFreeSpace, ReadRoomUsage, ReadGlobalUsage, RefuseQuota,
                      Goto, Refuse, Request, tables
  <2> QED
    BY <2>1, QuietSettles
<1>3. CASE CreateStaging(v) \/ BodyFails(v) \/ Unstage(v) \/ Unfile(v)
  <2>1. /\ UNCHANGED <<rows, ledger>> /\ up'[v].written = up[v].written
        /\ up'[v].pc \in {"stream", "free", "unstage"}
    BY <1>1, <1>3 DEF CreateStaging, BodyFails, Unstage, Unfile, Goto, Refuse, Request, tables
  <2> QED
    BY <2>1, QuietSettles
<1>4. CASE FinishBody(v)
  <2>1. /\ UNCHANGED <<rows, ledger>> /\ up'[v].written = up[v].written
        /\ \/ up'[v].pc = "free"
           \/ up'[v].pc = "shrink" /\ up[v].written # 0
    BY <1>1, <1>4 DEF FinishBody, Goto, Refuse, Request, tables
  <2> QED
    BY <1>1, <2>1, QuietSettles
<1>5. CASE Rename(v)
  <2>1. /\ UNCHANGED <<rows, ledger>> /\ up'[v].written = up[v].written
        /\ up[v].pc = "rename" /\ up'[v].pc \in {"insert", "free"}
    BY <1>1, <1>5 DEF Rename, At, Goto, Refuse, Request, tables
  <2> QED
    BY <2>1, QuietSettles DEF CommitOK
<1>6. ASSUME NEW n \in 1 .. BufSize,
             ReceiveWithin(v, n) \/ RefuseGrowth(v, n) \/ RefuseTooLarge(v, n)
      PROVE  Settles(v)
  <2>1. /\ UNCHANGED <<rows, ledger>> /\ up'[v].pc \in {"stream", "unstage"}
        /\ up[v].pc = "stream"
    BY <1>1, <1>6 DEF ReceiveWithin, RefuseGrowth, RefuseTooLarge, At, Refuse, Request, tables
  <2>2. v \notin rows
    BY <1>1, <2>1 DEF UploadOK, DiskOK
  <2> QED
    BY <2>1, <2>2, QuietSettles
<1> QED
  BY <1>2, <1>3, <1>4, <1>5, <1>6

\* The shrink leaves the reservation what was written.
LEMMA ShrinkSettles ==
    ASSUME UploadInv, NEW v \in Uploads, CommitOK(v), ShrinkQuota(v)
    PROVE  Settles(v)
<1>1. /\ UploadOK(v) /\ up \in [Uploads -> Request] /\ up[v].written \in Nat
      /\ up[v].reserved \in Nat /\ LedgerTypeOK
  BY UploadAssumption DEF UploadInv, UploadTypeOK, Request
<1>2. /\ up[v].pc = "shrink" /\ up'[v].pc = "rename" /\ up'[v].written = up[v].written
      /\ UNCHANGED rows
  BY <1>1 DEF ShrinkQuota, At, Goto, Request, tables
<1>3. v \notin rows /\ v \in Live /\ reservations[v].bytes = up[v].reserved
  BY <1>1, <1>2 DEF UploadOK, DiskOK, HoldsOK, Holding
<1>4. /\ Live' = Live /\ reservations'[v].bytes <= up[v].written
      /\ reservations'[v].bytes <= reservations[v].bytes
  <2>1. CASE up[v].reserved > up[v].written
    <3>1. /\ Live' = Live
          /\ reservations' = [reservations EXCEPT ![v].bytes = NotBelowZero(up[v].written)]
      BY <2>1 DEF ShrinkQuota, Shrink, Live
    <3>2. NotBelowZero(up[v].written) = up[v].written
      BY <1>1 DEF NotBelowZero
    <3> QED
      BY <1>1, <1>3, <2>1, <3>1, <3>2 DEF LedgerTypeOK, Reservation
  <2>2. CASE ~(up[v].reserved > up[v].written)
    BY <1>1, <1>3, <2>2 DEF ShrinkQuota, ledger, Live
  <2> QED
    BY <2>1, <2>2
<1>5. CommitOK(v)'
  BY <1>2, <1>4 DEF CommitOK
<1>6. account'[v] <= account[v]
  BY <1>2, <1>3, <1>4 DEF account, Uploads
<1> QED
  BY <1>2, <1>3, <1>4, <1>5, <1>6 DEF Settles, Committed

\* The row takes over what the reservation held.
LEMMA InsertSettles ==
    ASSUME UploadInv, NEW v \in Uploads, CommitOK(v), InsertRow(v)
    PROVE  Settles(v)
<1>1. /\ UploadOK(v) /\ up \in [Uploads -> Request] /\ up[v].written \in Nat
  BY UploadAssumption DEF UploadInv, UploadTypeOK, Request
<1>2. /\ up[v].pc = "insert" /\ up'[v].pc \in {"stored", "unfile"}
      /\ up'[v].written = up[v].written /\ UNCHANGED ledger
      /\ rows' = IF up'[v].pc = "stored" THEN rows \union {v} ELSE rows
  BY <1>1 DEF InsertRow, At, Goto, Refuse, Request
<1>3. v \notin rows /\ v \in Live /\ up[v].written <= reservations[v].bytes
  BY <1>1, <1>2 DEF UploadOK, DiskOK, HoldsOK, Holding
<1>4. Live' = Live /\ reservations' = reservations
  BY <1>2 DEF ledger, Live
<1>5. CommitOK(v)'
  BY <1>2, <1>4 DEF CommitOK
<1>6. account'[v] <= account[v]
  <2>1. account[v] = reservations[v].bytes /\ account[v] \in Nat
    BY <1>3, AccountType DEF account
  <2>2. account'[v] \in {up[v].written, reservations[v].bytes}
    BY <1>2, <1>3, <1>4 DEF account, Uploads
  <2> QED
    BY <1>3, <2>1, <2>2
<1> QED
  BY <1>3, <1>5, <1>6 DEF Settles, Committed

LEMMA ReleaseSettles ==
    ASSUME UploadInv, NEW v \in Uploads, CommitOK(v), ReleaseQuota(v)
    PROVE  Settles(v)
<1>1. up \in [Uploads -> Request] /\ account[v] \in Nat
  BY AccountType DEF UploadInv, UploadTypeOK
<1>2. /\ up'[v].pc \in {"done", "failed"} /\ up'[v].written = up[v].written
      /\ UNCHANGED rows /\ Live' = Live \ {v}
  BY <1>1 DEF ReleaseQuota, Goto, Request, tables, Release, Live
<1>3. CommitOK(v)'
  BY <1>2 DEF CommitOK
<1>4. account'[v] <= account[v]
  BY <1>1, <1>2 DEF account, Uploads
<1> QED
  BY <1>2, <1>3, <1>4 DEF Settles, Committed
-----------------------------------------------------------------------------
(***************************************************************************)
(* The two steps that ask for bytes.                                       *)
(***************************************************************************)
\* What v is granted keeps the room and the volume within their limits by v's
\* own readings; a slot more is asked for with the first bytes only.
Granted(v) ==
    /\ up'[v] # up[v] /\ CommitOK(v)'
    /\ v \notin rows /\ UNCHANGED rows
    /\ up[v].used + roomReserved'[up[v].room] <= MaxRoomSize
    /\ \/ v \in Live
       \/ MaxFiles > 0 => up[v].count + roomFiles'[up[v].room] <= MaxFiles
    /\ MaxTotalStorage > 0 => up[v].total + totalReserved' <= MaxTotalStorage

LEMMA AcquireGrants ==
    ASSUME UploadInv, NEW v \in Uploads, AcquireQuota(v)
    PROVE  Granted(v)
<1>1. PICK initial \in Int :
         /\ up[v].pc = "acquire" /\ UNCHANGED rows
         /\ Acquire(v, up[v].room, initial, up[v].used, up[v].count, up[v].total)
         /\ up' = [up EXCEPT ![v].pc = "create", ![v].reserved = initial]
  <2>1. UploadTypeOK
    BY DEF UploadInv
  <2> QED
    BY <2>1, InitialReservationType DEF AcquireQuota, At, tables
<1>2. /\ up \in [Uploads -> Request] /\ UploadOK(v) /\ LedgerTypeOK
      /\ up[v].room \in Rooms
  BY DEF UploadInv, UploadTypeOK, Request
<1>3. /\ up[v].used \in Nat /\ up[v].count \in Nat /\ up[v].total \in Nat
      /\ roomReserved[up[v].room] \in Nat /\ roomFiles[up[v].room] \in Nat
      /\ totalReserved \in Nat
      /\ MaxRoomSize \in Nat /\ MaxFiles \in Nat /\ MaxTotalStorage \in Nat
  BY <1>2, QuotaAssumption DEF Request, LedgerTypeOK
<1>4. v \notin rows
  BY <1>1, <1>2 DEF UploadOK, DiskOK
<1>5. up'[v].pc = "create" /\ up'[v] # up[v]
  BY <1>1, <1>2 DEF Request
<1>6. /\ roomReserved'[up[v].room] = roomReserved[up[v].room] + initial
      /\ roomFiles'[up[v].room] = roomFiles[up[v].room] + 1
      /\ totalReserved' = totalReserved + initial
      /\ CanAcquire(up[v].room, initial, up[v].used, up[v].count, up[v].total)
  BY <1>1, <1>2 DEF Acquire, LedgerTypeOK
<1> QED
  BY <1>1, <1>3, <1>4, <1>5, <1>6
     DEF Granted, CommitOK, CanAcquire, SlotFree, RoomFits, GlobalFits

LEMMA GrowthGrants ==
    ASSUME UploadInv, NEW v \in Uploads, NEW n \in 1 .. BufSize, ReceiveGrowing(v, n)
    PROVE  Granted(v)
<1> DEFINE delta == GrowDelta(v, up[v].written + n - up[v].reserved)
<1>1. /\ up[v].pc = "stream" /\ UNCHANGED rows
      /\ Grow(v, delta, up[v].used, up[v].total)
      /\ up' = [up EXCEPT ![v].written = @ + n, ![v].reserved = @ + delta]
  BY DEF ReceiveGrowing, At, tables
<1>2. /\ up \in [Uploads -> Request] /\ UploadOK(v) /\ LedgerTypeOK /\ UploadTypeOK
      /\ up[v].room \in Rooms
  BY DEF UploadInv, UploadTypeOK, Request
<1>3. /\ up[v].used \in Nat /\ up[v].total \in Nat /\ up[v].written \in Nat
      /\ up[v].reserved \in Nat
      /\ roomReserved[up[v].room] \in Nat /\ totalReserved \in Nat
      /\ MaxRoomSize \in Nat /\ MaxTotalStorage \in Nat /\ n \in Nat /\ n > 0
  BY <1>2, QuotaAssumption, UploadAssumption DEF Request, LedgerTypeOK
<1>4. v \notin rows
  BY <1>1, <1>2 DEF UploadOK, DiskOK
<1>5. delta \in Int
  <2> DEFINE needed == up[v].written + n - up[v].reserved
  <2>1. needed \in Int
    BY <1>3
  <2> HIDE DEF needed
  <2>2. GrowDelta(v, needed) \in Int
    BY <1>2, <2>1, GrowthCovers
  <2> QED
    BY <2>2 DEF needed
<1> HIDE DEF delta
<1>6. up'[v].pc = "stream" /\ up'[v] # up[v]
  <2>1. up'[v].pc = "stream" /\ up'[v].written = up[v].written + n
    BY <1>1, <1>2 DEF Request
  <2>2. up'[v].written # up[v].written
    BY <1>3, <2>1
  <2> QED
    BY <2>1, <2>2
<1>7. v \in Live /\ reservations[v].room = up[v].room
  BY <1>1, <1>2 DEF Grow, CanGrow, UploadOK, HoldsOK
<1>8. /\ roomReserved'[up[v].room] = roomReserved[up[v].room] + delta
      /\ totalReserved' = totalReserved + delta
      /\ RoomFits(up[v].room, delta, up[v].used) /\ GlobalFits(delta, up[v].total)
  BY <1>1, <1>2, <1>7 DEF Grow, CanGrow, LedgerTypeOK
<1> QED
  BY <1>1, <1>3, <1>4, <1>5, <1>6, <1>7, <1>8
     DEF Granted, CommitOK, RoomFits, GlobalFits

\* Every step of an upload settles or is granted what it asks for.
LEMMA UploadStepKinds ==
    ASSUME CommitInv, NEW v \in Uploads, CheckFreeSpace(v) \/ UploadStep(v)
    PROVE  CommitInv' /\ StepOf(v) /\ (Settles(v) \/ Granted(v))
<1>1. UploadInv /\ CommitOK(v) /\ StepOf(v)
  BY EveryUploadStep DEF CommitInv
<1>2. Settles(v) \/ Granted(v)
  <2>1. ASSUME NEW n \in 1 .. BufSize,
               ReceiveWithin(v, n) \/ ReceiveGrowing(v, n) \/ RefuseGrowth(v, n)
                  \/ RefuseTooLarge(v, n)
        PROVE  Settles(v) \/ Granted(v)
    BY <1>1, <2>1, PlainSettles, GrowthGrants
  <2>2. CASE AcquireQuota(v) \/ ShrinkQuota(v) \/ InsertRow(v) \/ ReleaseQuota(v)
    BY <1>1, <2>2, AcquireGrants, ShrinkSettles, InsertSettles, ReleaseSettles
  <2>3. CASE \/ CheckFreeSpace(v) \/ ReadRoomUsage(v) \/ ReadGlobalUsage(v) \/ RefuseQuota(v)
             \/ CreateStaging(v) \/ BodyFails(v) \/ FinishBody(v) \/ Rename(v)
             \/ Unstage(v) \/ Unfile(v)
    BY <1>1, <2>3, PlainSettles
  <2> QED
    BY <2>1, <2>2, <2>3 DEF UploadStep
<1> QED
  BY <1>1, <1>2, CommitsKept DEF Settles, Granted

\* The deletion of a room, the removal of its files and a crash commit nothing.
LEMMA WorldSettles ==
    ASSUME CommitInv,
           \/ \E u \in Uploads : RemoveDoomed(u)
           \/ \E room \in Rooms : DeleteRoom(room)
           \/ Crash \/ UNCHANGED vars
    PROVE  CommitInv' /\ NoMore
<1>1. /\ UploadInv /\ \A u \in Uploads : CommitOK(u) /\ UploadOK(u)
      /\ up \in [Uploads -> Request]
      /\ \A u \in Uploads : account[u] \in Nat
  BY AccountType DEF CommitInv, UploadInv, UploadTypeOK
<1>2. UploadInv'
  BY <1>1, UploadInvariantStep DEF Next
<1>3. CASE UNCHANGED <<up, rows, ledger>>
  <2>1. UNCHANGED <<account, Committed, Live, reservations>>
    BY <1>3 DEF account, Committed, ledger, Live, Uploads
  <2>2. /\ NoMore /\ \A u \in Uploads : CommitOK(u)'
    BY <1>1, <1>3, <2>1 DEF NoMore, CommitOK
  <2> QED
    BY <1>2, <2>2 DEF CommitInv, Uploads
<1>4. ASSUME NEW room \in Rooms, DeleteRoom(room)
      PROVE  CommitInv' /\ NoMore
  <2>1. rows' \subseteq rows /\ UNCHANGED <<up, ledger>>
    BY <1>4 DEF DeleteRoom
  <2>2. Live' = Live /\ reservations' = reservations
    BY <2>1 DEF ledger, Live
  <2>3. \A u \in Uploads : CommitOK(u)'
    BY <1>1, <2>1, <2>2 DEF CommitOK
  <2>4. ASSUME NEW u \in Uploads
        PROVE  account'[u] <= account[u]
    <3>1. u \in rows /\ u \in Live => reservations[u].bytes <= up[u].written
      BY <1>1 DEF UploadOK, HoldsOK, DiskOK, Holding, CommitOK
    <3>2. up[u].written \in Nat
      BY <1>1, AccountType
    <3> QED
      BY <1>1, <2>1, <2>2, <3>1, <3>2 DEF account, Uploads
  <2>5. NoMore
    BY <2>1, <2>2, <2>4 DEF NoMore, Committed
  <2> QED
    BY <1>2, <2>3, <2>5 DEF CommitInv, Uploads
<1>5. CASE Crash
  <2>1. /\ Live' = {} /\ rows' = rows
        /\ \A u \in Uploads : /\ up'[u].written = up[u].written
                              /\ up'[u].room = up[u].room
                              /\ up'[u].pc \in {up[u].pc, "crashed"}
    BY <1>1, <1>5 DEF Crash, Restart, Live, tables, Request
  <2>2. \A u \in Uploads : CommitOK(u)'
    BY <1>1, <2>1 DEF CommitOK
  <2>3. NoMore
    BY <1>1, <2>1 DEF NoMore, account, Committed, Uploads
  <2> QED
    BY <1>2, <2>2, <2>3 DEF CommitInv, Uploads
<1>6. CASE \E u \in Uploads : RemoveDoomed(u)
  BY <1>3, <1>6 DEF RemoveDoomed, tables
<1>7. CASE UNCHANGED vars
  BY <1>3, <1>7 DEF vars
<1> QED
  BY <1>4, <1>5, <1>6, <1>7

LEMMA CommitInvStep ==
    ASSUME CommitInv, [Next]_vars
    PROVE  /\ CommitInv'
           /\ NoMore \/ \E v \in Uploads : StepOf(v) /\ Granted(v)
<1>1. UploadInv
  BY DEF CommitInv
<1> QED
  BY <1>1, UploadStepKinds, SettledStep, WorldSettles DEF Next

\* Each reservation is backed by its file and each file by its reservation,
\* from the shrink of file.go:454-457 on.
THEOREM CommitInvariant == Spec => []CommitInv
<1>1. Init => CommitInv
  BY InitIsOK DEF CommitInv, CommitOK, Init, InitRequest, LedgerInit, Live
<1> QED
  BY <1>1, CommitInvStep, PTL DEF Spec
-----------------------------------------------------------------------------
(***************************************************************************)
(* What is granted stays within the limits unless a reading was stale.     *)
(***************************************************************************)
\* A room's commitments are at most its ready rows and all its reservations.
AtMostReserved ==
    /\ \A room \in Rooms :
          /\ Occupied(room) <= RoomUsage(room) + roomReserved[room]
          /\ Slots(room) <= RoomCount(room) + roomFiles[room]
    /\ OccupiedInAll <= TotalUsage + totalReserved

LEMMA ReservedCovers == UploadInv => AtMostReserved
<1> SUFFICES ASSUME UploadInv PROVE AtMostReserved
  OBVIOUS
<1>1. /\ UploadTypeOK /\ LedgerTypeOK /\ CountersExact
      /\ IsFiniteSet(Live) /\ \A room : IsFiniteSet(InRoom(room))
      /\ \A u \in Live : bytesOf[u] \in Nat
      /\ \A room : InRoom(room) \subseteq Live
  BY LedgerShape, QuotaAssumption DEF UploadInv, LedgerInv
<1>2. ASSUME NEW room \in Rooms
      PROVE  /\ Occupied(room) <= RoomUsage(room) + roomReserved[room]
             /\ Slots(room) <= RoomCount(room) + roomFiles[room]
  <2>1. InRoom(room) \ rows \in SUBSET InRoom(room) /\ \A u \in InRoom(room) : bytesOf[u] \in Nat
    BY <1>1
  <2>2. Tally(bytesOf, InRoom(room) \ rows) <= Tally(bytesOf, InRoom(room))
    BY <1>1, <2>1, TallyMonotone
  <2>3. Cardinality(InRoom(room) \ rows) <= Cardinality(InRoom(room))
    BY <1>1, <2>1, FS_Subset
  <2>4. IsFiniteSet(InRoom(room) \ rows)
    BY <1>1, <2>1, FS_Subset
  <2>5. /\ Tally(bytesOf, InRoom(room) \ rows) \in Nat
        /\ Cardinality(InRoom(room) \ rows) \in Nat
    BY <2>1, <2>4, TallyType, FS_CardinalityType
  <2>6. /\ roomReserved[room] = Tally(bytesOf, InRoom(room)) /\ roomReserved[room] \in Nat
        /\ roomFiles[room] = Cardinality(InRoom(room)) /\ roomFiles[room] \in Nat
    BY <1>1 DEF CountersExact, RoomBytesExact, FilesExact, LedgerTypeOK
  <2>7. RoomUsage(room) \in Nat /\ RoomCount(room) \in Nat
    BY <1>1, UsageType
  <2> QED
    BY <2>2, <2>3, <2>5, <2>6, <2>7 DEF Occupied, Slots
<1>3. OccupiedInAll <= TotalUsage + totalReserved
  <2>1. Live \ rows \in SUBSET Live
    OBVIOUS
  <2>2. Tally(bytesOf, Live \ rows) <= Tally(bytesOf, Live)
    BY <1>1, <2>1, TallyMonotone
  <2>3. IsFiniteSet(Live \ rows) /\ IsFiniteSet(rows)
    BY <1>1, <2>1, FS_Subset, QuotaAssumption DEF UploadTypeOK, Uploads
  <2>4. Tally(bytesOf, Live \ rows) \in Nat
    BY <1>1, <2>3, TallyType
  <2>5. totalReserved = Tally(bytesOf, Live) /\ totalReserved \in Nat
    BY <1>1 DEF CountersExact, TotalExact, LedgerTypeOK
  <2>6. TotalUsage \in Nat
    <3>1. \A u \in rows : sizeOf[u] \in Nat
      BY <1>1, UploadAssumption DEF UploadTypeOK, sizeOf, Request
    <3> QED
      BY <2>3, <3>1, TallyType DEF TotalUsage
  <2> QED
    BY <2>2, <2>4, <2>5, <2>6 DEF OccupiedInAll
<1> QED
  BY <1>2, <1>3 DEF AtMostReserved

LEMMA ReservedCoversNext == UploadInv' => AtMostReserved'
  BY ReservedCovers, PTL

\* The readings a query would return do not change while rows come and go
\* elsewhere.
LEMMA UsageUnmoved ==
    ASSUME UploadInv, NEW v \in Uploads, StepOf(v), v \notin rows, UNCHANGED rows,
           NEW room
    PROVE  /\ RoomUsage(room)' = RoomUsage(room) /\ RoomCount(room)' = RoomCount(room)
           /\ TotalUsage' = TotalUsage
<1>1. rows \subseteq Uploads
  BY DEF UploadInv, UploadTypeOK
<1>2. ReadyIn(room)' = ReadyIn(room) /\ ReadyIn(room) \subseteq rows
  BY <1>1 DEF ReadyIn, StepOf, Untouched
<1>3. \A u \in rows : sizeOf[u] = sizeOf'[u]
  BY <1>1 DEF sizeOf, StepOf, Untouched, Uploads
<1>4. Tally(sizeOf, ReadyIn(room)) = Tally(sizeOf', ReadyIn(room))
  BY <1>2, <1>3, TallySame
<1>5. Tally(sizeOf, rows) = Tally(sizeOf', rows)
  BY <1>3, TallySame
<1> QED
  BY <1>2, <1>4, <1>5 DEF RoomUsage, RoomCount, TotalUsage

\* A step of an upload leaves the commitments of the other rooms alone.
LEMMA OtherRoomsUnmoved ==
    ASSUME UploadInv, UploadInv', NEW v \in Uploads, StepOf(v),
           NEW room \in Rooms, room # up[v].room
    PROVE  Occupied(room)' = Occupied(room) /\ Slots(room)' = Slots(room)
<1>1. Of(room)' = Of(room) /\ v \notin Of(room) /\ Of(room) \subseteq Uploads
  BY DEF Of, StepOf, Untouched, Uploads
<1>2. \A u \in Of(room) : account[u] = account'[u] /\ (u \in Committed' <=> u \in Committed)
  BY <1>1 DEF account, Committed, StepOf, Untouched, Uploads
<1>3. Tally(account, Of(room)) = Tally(account', Of(room))
  BY <1>2, TallySame
<1>4. (Of(room) \intersect Committed)' = Of(room) \intersect Committed
  BY <1>1, <1>2
<1>5. /\ Occupied(room) = Tally(account, Of(room))
      /\ Slots(room) = Cardinality(Of(room) \intersect Committed)
  BY AddUp DEF AccountsAddUp
<1>6. /\ Occupied(room)' = Tally(account', Of(room)')
      /\ Slots(room)' = Cardinality((Of(room) \intersect Committed)')
  BY AddUpNext DEF AccountsAddUp
<1> QED
  BY <1>1, <1>3, <1>4, <1>5, <1>6

\* What the property says of a step.
StaleWhenOver ==
    /\ \A room \in Rooms :
          /\ Occupied(room) <= MaxRoomSize /\ Occupied(room)' > MaxRoomSize
                => \E u \in Uploads : up[u].room = room /\ StaleRoom(u)
          /\ MaxFiles > 0 /\ Slots(room) <= MaxFiles /\ Slots(room)' > MaxFiles
                => \E u \in Uploads : up[u].room = room /\ StaleCount(u)
    /\ MaxTotalStorage > 0 /\ OccupiedInAll <= MaxTotalStorage
          /\ OccupiedInAll' > MaxTotalStorage
          => \E u \in Uploads : StaleTotal(u)

\* The figures compared are whole numbers.
FiguresWhole ==
    /\ \A room \in Rooms :
          /\ Occupied(room) \in Nat /\ Slots(room) \in Nat
          /\ RoomUsage(room) \in Nat /\ RoomCount(room) \in Nat
          /\ roomReserved[room] \in Nat /\ roomFiles[room] \in Nat
    /\ OccupiedInAll \in Nat /\ TotalUsage \in Nat /\ totalReserved \in Nat

LEMMA Figures == UploadInv => FiguresWhole
<1> SUFFICES ASSUME UploadInv PROVE FiguresWhole
  OBVIOUS
<1>1. UploadTypeOK /\ LedgerTypeOK /\ AccountsAddUp
  BY AddUp DEF UploadInv, LedgerInv
<1>2. ASSUME NEW room \in Rooms
      PROVE  Occupied(room) \in Nat /\ Slots(room) \in Nat
  <2>1. /\ IsFiniteSet(Of(room)) /\ IsFiniteSet(Of(room) \intersect Committed)
        /\ \A u \in Of(room) : account[u] \in Nat
    BY AccountType DEF Of
  <2>2. Tally(account, Of(room)) \in Nat
    BY <2>1, TallyType
  <2>3. Cardinality(Of(room) \intersect Committed) \in Nat
    BY <2>1, FS_CardinalityType
  <2> QED
    BY <1>1, <2>2, <2>3 DEF AccountsAddUp
<1>3. OccupiedInAll \in Nat
  BY <1>1, AccountType, TallyType DEF AccountsAddUp
<1>4. TotalUsage \in Nat
  <2>1. IsFiniteSet(rows) /\ \A u \in rows : sizeOf[u] \in Nat
    BY AccountType, FS_Subset DEF sizeOf
  <2> QED
    BY <2>1, TallyType DEF TotalUsage
<1> QED
  BY <1>1, <1>2, <1>3, <1>4, UsageType DEF FiguresWhole, LedgerTypeOK

LEMMA FiguresNext == UploadInv' => FiguresWhole'
  BY Figures, PTL

LEMMA GrantedWithin ==
    ASSUME UploadInv, UploadInv', NEW v \in Uploads, StepOf(v), Granted(v)
    PROVE  StaleWhenOver
<1>1. PICK mine \in Rooms : mine = up[v].room
  BY DEF UploadInv, UploadTypeOK, Request
<1>2. /\ up[v].used \in Nat /\ up[v].count \in Nat /\ up[v].total \in Nat
      /\ MaxRoomSize \in Nat /\ MaxFiles \in Nat /\ MaxTotalStorage \in Nat
  BY QuotaAssumption DEF UploadInv, UploadTypeOK, Request
<1>3. FiguresWhole /\ FiguresWhole' /\ AtMostReserved'
  BY Figures, FiguresNext, ReservedCoversNext
<1>4. /\ RoomUsage(mine)' = RoomUsage(mine) /\ RoomCount(mine)' = RoomCount(mine)
      /\ TotalUsage' = TotalUsage
  BY UsageUnmoved DEF Granted
<1>5. ASSUME Occupied(mine)' > MaxRoomSize
      PROVE  StaleRoom(v)
  <2>1. /\ Occupied(mine)' <= RoomUsage(mine) + roomReserved'[mine]
        /\ Occupied(mine)' \in Nat /\ roomReserved'[mine] \in Nat /\ RoomUsage(mine) \in Nat
    BY <1>2, <1>3, <1>4 DEF AtMostReserved, FiguresWhole
  <2>2. up[v].used + roomReserved'[mine] <= MaxRoomSize /\ up'[v] # up[v]
    BY <1>1 DEF Granted
  <2>3. up[v].used < RoomUsage(mine)
    BY <1>2, <1>5, <2>1, <2>2
  <2> QED
    BY <2>2, <2>3, <1>1 DEF StaleRoom
<1>6. ASSUME MaxFiles > 0, Slots(mine) <= MaxFiles, Slots(mine)' > MaxFiles
      PROVE  StaleCount(v)
  <2>1. /\ Slots(mine)' <= RoomCount(mine) + roomFiles'[mine]
        /\ Slots(mine)' \in Nat /\ roomFiles'[mine] \in Nat /\ RoomCount(mine) \in Nat
        /\ Slots(mine) \in Nat
    BY <1>2, <1>3, <1>4 DEF AtMostReserved, FiguresWhole
  <2>2. v \notin Live
    <3> SUFFICES ASSUME v \in Live PROVE FALSE
      OBVIOUS
    <3>1. Committed' \subseteq Committed
      <4>1. Committed' \subseteq Uploads
        BY DEF UploadInv, UploadTypeOK, LedgerTypeOK, Committed, Uploads
      <4> QED
        BY <4>1 DEF StepOf, Untouched, Committed
    <3>2. Of(mine)' = Of(mine)
      BY <1>1 DEF Of, StepOf, Untouched, Uploads
    <3>3. (Of(mine) \intersect Committed)' \in SUBSET (Of(mine) \intersect Committed)
      BY <3>1, <3>2
    <3>4. Cardinality((Of(mine) \intersect Committed)')
            <= Cardinality(Of(mine) \intersect Committed)
      BY <3>3, AccountType, FS_Subset
    <3>5. Slots(mine)' = Cardinality((Of(mine) \intersect Committed)')
      BY <1>2, AddUpNext DEF AccountsAddUp
    <3>6. Slots(mine) = Cardinality(Of(mine) \intersect Committed)
      BY <1>2, AddUp DEF AccountsAddUp
    <3> QED
      BY <1>2, <1>6, <2>1, <3>4, <3>5, <3>6
  <2>3. up[v].count + roomFiles'[mine] <= MaxFiles /\ up'[v] # up[v]
    BY <1>1, <1>6, <2>2 DEF Granted
  <2>4. up[v].count < RoomCount(mine)
    BY <1>2, <1>6, <2>1, <2>3
  <2> QED
    BY <2>3, <2>4, <1>1 DEF StaleCount
<1>7. ASSUME MaxTotalStorage > 0, OccupiedInAll' > MaxTotalStorage
      PROVE  StaleTotal(v)
  <2>1. /\ OccupiedInAll' <= TotalUsage + totalReserved'
        /\ OccupiedInAll' \in Nat /\ totalReserved' \in Nat /\ TotalUsage \in Nat
    BY <1>3, <1>4 DEF AtMostReserved, FiguresWhole
  <2>2. up[v].total + totalReserved' <= MaxTotalStorage /\ up'[v] # up[v]
    BY <1>7 DEF Granted
  <2>3. up[v].total < TotalUsage
    BY <1>2, <1>7, <2>1, <2>2
  <2> QED
    BY <2>2, <2>3 DEF StaleTotal
<1>8. ASSUME NEW room \in Rooms, room # mine
      PROVE  /\ ~(Occupied(room) <= MaxRoomSize /\ Occupied(room)' > MaxRoomSize)
             /\ ~(Slots(room) <= MaxFiles /\ Slots(room)' > MaxFiles)
  <2>1. Occupied(room)' = Occupied(room) /\ Slots(room)' = Slots(room)
    BY <1>1, <1>8, OtherRoomsUnmoved
  <2>2. Occupied(room) \in Nat /\ Slots(room) \in Nat
    BY <1>3 DEF FiguresWhole
  <2> QED
    BY <1>2, <2>1, <2>2
<1> QED
  BY <1>1, <1>5, <1>6, <1>7, <1>8 DEF StaleWhenOver

LEMMA NoMoreWithin ==
    ASSUME UploadInv, UploadInv', NoMore
    PROVE  StaleWhenOver
<1>1. FiguresWhole /\ FiguresWhole'
  BY Figures, FiguresNext
<1>2. ASSUME NEW room \in Rooms
      PROVE  /\ ~(Occupied(room) <= MaxRoomSize /\ Occupied(room)' > MaxRoomSize)
             /\ ~(Slots(room) <= MaxFiles /\ Slots(room)' > MaxFiles)
  BY <1>1, NoMoreOccupied, QuotaAssumption DEF FiguresWhole
<1>3. ~(OccupiedInAll <= MaxTotalStorage /\ OccupiedInAll' > MaxTotalStorage)
  BY <1>1, NoMoreOccupied, QuotaAssumption DEF FiguresWhole
<1> QED
  BY <1>2, <1>3 DEF StaleWhenOver

\* Concurrent uploads take a room or the volume past a limit only through a
\* usage reading that another commit has made stale between the queries of
\* file.go:294-315 and the calls of quota.go:45 and 104.
THEOREM OvershootsAreStale == Spec => OvershootOnlyWhenStale
<1>1. CommitInv /\ CommitInv' /\ [Next]_vars => [StaleWhenOver]_vars
  BY CommitInvStep, GrantedWithin, NoMoreWithin DEF CommitInv
<1> QED
  BY <1>1, CommitInvariant, PTL DEF Spec, OvershootOnlyWhenStale, StaleWhenOver
-----------------------------------------------------------------------------
(***************************************************************************)
(* An upload alone in the ledger is not refused what fits.                 *)
(***************************************************************************)
\* Cutting never asks for more, nor for more than a headroom that covers the
\* need.
LEMMA ClampStaysWithin ==
    ASSUME NEW asked \in Int, NEW needed \in Int, NEW headroom \in Int
    PROVE  /\ Clamp(asked, needed, headroom) \in Int
           /\ Clamp(asked, needed, headroom) <= asked
           /\ needed <= headroom => Clamp(asked, needed, headroom) <= headroom
  BY DEF Clamp, Least

\* A growth stays within the room and the volume if the need does.
LEMMA GrowthStaysWithin ==
    ASSUME UploadTypeOK, NEW u \in Uploads, NEW needed \in Int,
           needed <= MaxRoomSize - (up[u].used + up[u].reserved),
           MaxTotalStorage > 0 =>
                needed <= MaxTotalStorage - (up[u].total + up[u].reserved)
    PROVE  /\ GrowDelta(u, needed) <= MaxRoomSize - (up[u].used + up[u].reserved)
           /\ MaxTotalStorage > 0 =>
                GrowDelta(u, needed) <= MaxTotalStorage - (up[u].total + up[u].reserved)
<1> DEFINE asked == Greatest(GrowthChunk, needed)
           roomLeft == MaxRoomSize - (up[u].used + up[u].reserved)
           totalLeft == MaxTotalStorage - (up[u].total + up[u].reserved)
           fileLeft == MaxFileSize - up[u].reserved
           inRoom == Clamp(asked, needed, roomLeft)
           inTotal == IF MaxTotalStorage > 0 THEN Clamp(inRoom, needed, totalLeft) ELSE inRoom
           delta == Clamp(inTotal, needed, fileLeft)
<1>1. /\ roomLeft \in Int /\ totalLeft \in Int /\ fileLeft \in Int /\ asked \in Int
      /\ needed <= roomLeft /\ (MaxTotalStorage > 0 => needed <= totalLeft)
  BY QuotaAssumption, UploadAssumption DEF UploadTypeOK, Request, Greatest
<1>2. delta = GrowDelta(u, needed)
  BY DEF GrowDelta
<1> HIDE DEF asked, roomLeft, totalLeft, fileLeft
<1>3. inRoom \in Int /\ inRoom <= roomLeft
  BY <1>1, ClampStaysWithin
<1> HIDE DEF inRoom
<1>4. /\ inTotal \in Int /\ inTotal <= inRoom
      /\ MaxTotalStorage > 0 => inTotal <= totalLeft
  <2>1. /\ Clamp(inRoom, needed, totalLeft) \in Int
        /\ Clamp(inRoom, needed, totalLeft) <= inRoom
        /\ needed <= totalLeft => Clamp(inRoom, needed, totalLeft) <= totalLeft
    BY <1>1, <1>3, ClampStaysWithin
  <2>2. CASE MaxTotalStorage > 0
    BY <1>1, <2>1, <2>2
  <2>3. CASE ~(MaxTotalStorage > 0)
    BY <1>3, <2>3
  <2> QED
    BY <2>2, <2>3
<1> HIDE DEF inTotal
<1>5. delta \in Int /\ delta <= inTotal
  BY <1>1, <1>4, ClampStaysWithin
<1> HIDE DEF delta
<1>6. delta <= roomLeft /\ (MaxTotalStorage > 0 => delta <= totalLeft)
  BY <1>1, <1>3, <1>4, <1>5
<1> QED
  BY <1>2, <1>6 DEF roomLeft, totalLeft

\* The only reservation is all the counters hold.
LEMMA AloneInLedger ==
    ASSUME UploadInv, NEW u \in Uploads, Live = {u}
    PROVE  /\ roomReserved[up[u].room] = reservations[u].bytes
           /\ totalReserved = reservations[u].bytes
<1>1. /\ CountersExact /\ up[u].room \in Rooms /\ bytesOf[u] = reservations[u].bytes
      /\ bytesOf[u] \in Nat /\ reservations[u].room = up[u].room
  BY AccountType DEF UploadInv, LedgerInv, bytesOf
<1>2. InRoom(up[u].room) = {u}
  BY <1>1 DEF InRoom
<1>3. Tally(bytesOf, {u}) = bytesOf[u]
  <2>1. IsFiniteSet({}) /\ {} \union {u} = {u}
    BY FS_EmptySet
  <2>2. Tally(bytesOf, {} \union {u}) = Tally(bytesOf, {}) + bytesOf[u]
    BY <1>1, <2>1, TallyAdd
  <2> QED
    BY <1>1, <2>1, <2>2, TallyEmpty
<1> QED
  BY <1>1, <1>2, <1>3 DEF CountersExact, RoomBytesExact, TotalExact

\* A refusal to grow of an upload alone in the ledger: a buffer did not fit.
LEMMA RefusedForNeed ==
    ASSUME UploadInv, NEW u \in Uploads, NEW n \in 1 .. BufSize, RefuseGrowth(u, n),
           Live = {u}
    PROVE  ~BufferWouldFit(u)
<1> SUFFICES ASSUME BufferWouldFit(u) PROVE FALSE
  OBVIOUS
<1> DEFINE needed == up[u].written + n - up[u].reserved
           delta == GrowDelta(u, needed)
<1>1. /\ UploadTypeOK /\ needed \in Int /\ delta \in Int
      /\ up[u].used \in Nat /\ up[u].total \in Nat /\ up[u].reserved \in Nat
      /\ up[u].written \in Nat /\ n \in Nat /\ BufSize \in Nat /\ n <= BufSize
      /\ MaxRoomSize \in Nat /\ MaxTotalStorage \in Nat
  <2>1. UploadTypeOK /\ needed \in Int
    BY UploadAssumption DEF UploadInv, UploadTypeOK, Request
  <2> HIDE DEF needed
  <2>2. delta \in Int
    BY <2>1, GrowthCovers
  <2> QED
    BY <2>1, <2>2, QuotaAssumption, UploadAssumption DEF UploadTypeOK, Request
<1>2. /\ up[u].pc = "stream" /\ reservations[u].bytes = up[u].reserved
      /\ reservations[u].room = up[u].room
  BY DEF UploadInv, UploadOK, HoldsOK, RefuseGrowth, At
<1>3. roomReserved[up[u].room] = up[u].reserved /\ totalReserved = up[u].reserved
  BY <1>2, AloneInLedger
<1>4. /\ up[u].used + up[u].reserved + (up[u].written + BufSize - up[u].reserved) <= MaxRoomSize
      /\ MaxTotalStorage > 0 =>
            up[u].total + up[u].reserved + (up[u].written + BufSize - up[u].reserved)
                <= MaxTotalStorage
  BY <1>3 DEF BufferWouldFit, RoomFits, GlobalFits
<1>5. /\ needed <= MaxRoomSize - (up[u].used + up[u].reserved)
      /\ MaxTotalStorage > 0 => needed <= MaxTotalStorage - (up[u].total + up[u].reserved)
  BY <1>1, <1>4
<1>6. ~CanGrow(u, delta, up[u].used, up[u].total)
  BY DEF RefuseGrowth
<1> HIDE DEF needed
<1>7. /\ delta <= MaxRoomSize - (up[u].used + up[u].reserved)
      /\ MaxTotalStorage > 0 => delta <= MaxTotalStorage - (up[u].total + up[u].reserved)
  BY <1>1, <1>5, GrowthStaysWithin
<1> HIDE DEF delta
<1>8. CanGrow(u, delta, up[u].used, up[u].total)
  BY <1>1, <1>2, <1>3, <1>7 DEF CanGrow, RoomFits, GlobalFits
<1> QED
  BY <1>6, <1>8

\* Only a refusal to grow sends an upload from its body to the removal of its
\* file with a quota as the reason.
LEMMA QuotaRefusalIsGrowth ==
    ASSUME UploadInv, [Next]_vars, NEW u \in Uploads, At(u, "stream"), At(u, "unstage")',
           up'[u].outcome \in {"room_quota", "global_quota"}
    PROVE  \E n \in 1 .. BufSize : RefuseGrowth(u, n)
<1>1. /\ up \in [Uploads -> Request] /\ up[u].pc = "stream" /\ up'[u].pc = "unstage"
  BY DEF UploadInv, UploadTypeOK, At
<1>2. CheckFreeSpace(u) \/ UploadStep(u)
  <2>1. ASSUME NEW v \in Uploads, CheckFreeSpace(v) \/ UploadStep(v)
        PROVE  u = v
    BY <1>1, <2>1, EveryUploadStep DEF StepOf, Untouched
  <2>2. up' # up
    BY <1>1
  <2>3. ~Crash
    BY <1>1 DEF Crash, At, Ended, Request
  <2>4. PICK v \in Uploads : CheckFreeSpace(v) \/ UploadStep(v)
    BY <2>2, <2>3 DEF Next, vars, RemoveDoomed, DeleteRoom
  <2> QED
    BY <2>1, <2>4
<1>3. ~(\/ CheckFreeSpace(u) \/ ReadRoomUsage(u) \/ ReadGlobalUsage(u) \/ AcquireQuota(u)
        \/ RefuseQuota(u) \/ CreateStaging(u) \/ ShrinkQuota(u) \/ Rename(u) \/ InsertRow(u)
        \/ Unstage(u) \/ Unfile(u) \/ ReleaseQuota(u))
  BY <1>1 DEF CheckFreeSpace, ReadRoomUsage, ReadGlobalUsage, AcquireQuota, RefuseQuota,
              CreateStaging, ShrinkQuota, Rename, InsertRow, Unstage, Unfile, ReleaseQuota, At
<1>4. \A n \in 1 .. BufSize : ~ReceiveWithin(u, n) /\ ~ReceiveGrowing(u, n)
  BY <1>1 DEF ReceiveWithin, ReceiveGrowing, Request
<1>5. ~FinishBody(u)
  BY <1>1 DEF FinishBody, Goto, Refuse, Request
<1>6. ~BodyFails(u) /\ \A n \in 1 .. BufSize : ~RefuseTooLarge(u, n)
  BY <1>1 DEF BodyFails, RefuseTooLarge, Refuse, Request
<1> QED
  BY <1>2, <1>3, <1>4, <1>5, <1>6 DEF UploadStep

\* The headroom of file.go:399-417 cuts a growth chunk down to what is left, so
\* an upload by itself is refused only when not even a buffer fits.
THEOREM RefusalsAreNeeded == Spec => NoNeedlessRefusal
<1> DEFINE Justified ==
        \A u \in Uploads :
            At(u, "stream") /\ At(u, "unstage")' /\ Live = {u}
                /\ up'[u].outcome \in {"room_quota", "global_quota"}
                => ~BufferWouldFit(u)
<1>1. UploadInv /\ [Next]_vars => [Justified]_vars
  BY QuotaRefusalIsGrowth, RefusedForNeed
<1> QED
  BY <1>1, UploadInvariant, PTL DEF Spec, NoNeedlessRefusal, Justified
-----------------------------------------------------------------------------
(***************************************************************************)
(* To the people in the rooms the pipeline is a FileShelf.                 *)
(***************************************************************************)
OnShelf == {[file |-> u, room |-> up[u].room, size |-> up[u].written] : u \in rows}

\* What is behind the rows does not change: the shelf looks the same.
SameShelf ==
    /\ UNCHANGED tables
    /\ \A u \in rows : up'[u].room = up[u].room /\ up'[u].written = up[u].written

LEMMA SameShelfStutters ==
    ASSUME SameShelf
    PROVE  UNCHANGED Shelf!shelfVars
<1>1. UNCHANGED rooms /\ rows' = rows
  BY DEF SameShelf, tables
<1>2. OnShelf' = OnShelf
  BY <1>1 DEF OnShelf, SameShelf
<1> QED
  BY <1>1, <1>2 DEF Shelf!shelfVars, OnShelf

\* An upload with a row has nothing left to do but to release.
LEMMA OnlyTheRowShows ==
    ASSUME CommitInv, NEW v \in Uploads, CheckFreeSpace(v) \/ UploadStep(v)
    PROVE  SameShelf \/ (InsertRow(v) /\ up'[v].pc = "stored")
<1>1. /\ up \in [Uploads -> Request] /\ rows \subseteq Uploads /\ StepOf(v)
      /\ v \in rows => up[v].pc \in {"stored", "done", "crashed"}
  BY EveryUploadStep DEF CommitInv, UploadInv, UploadTypeOK, UploadOK, DiskOK
<1>2. ASSUME v \in rows
      PROVE  UNCHANGED tables /\ up'[v].written = up[v].written
  <2>1. ReleaseQuota(v)
    BY <1>1, <1>2
       DEF CheckFreeSpace, UploadStep, ReadRoomUsage, ReadGlobalUsage, AcquireQuota,
           RefuseQuota, CreateStaging, ReceiveWithin, ReceiveGrowing, RefuseGrowth,
           RefuseTooLarge, BodyFails, FinishBody, ShrinkQuota, Rename, InsertRow,
           Unstage, Unfile, At
  <2> QED
    BY <1>1, <2>1 DEF ReleaseQuota, Goto, Request
<1>3. CASE InsertRow(v)
  <2>1. up'[v].pc = "stored" \/ UNCHANGED tables
    BY <1>1, <1>3 DEF InsertRow, Goto, Refuse, Request, tables
  <2>2. v \notin rows
    BY <1>1, <1>3 DEF InsertRow, At
  <2> QED
    BY <1>1, <1>3, <2>1, <2>2 DEF SameShelf, StepOf, Untouched
<1>4. CASE ~InsertRow(v)
  <2>1. UNCHANGED tables
    BY <1>4 DEF CheckFreeSpace, UploadStep, ReadRoomUsage, ReadGlobalUsage, AcquireQuota,
           RefuseQuota, CreateStaging, ReceiveWithin, ReceiveGrowing, RefuseGrowth,
           RefuseTooLarge, BodyFails, FinishBody, ShrinkQuota, Rename,
           Unstage, Unfile, ReleaseQuota, tables
  <2> QED
    BY <1>1, <1>2, <2>1 DEF SameShelf, StepOf, Untouched
<1> QED
  BY <1>3, <1>4

\* The insert shows the whole file at once, in a room that exists.
LEMMA InsertPublishes ==
    ASSUME CommitInv, NEW v \in Uploads, InsertRow(v), up'[v].pc = "stored"
    PROVE  Shelf!ShelfNext
<1> DEFINE entry == [file |-> v, room |-> up[v].room, size |-> up[v].written]
<1>1. /\ up \in [Uploads -> Request] /\ rows \subseteq Uploads
      /\ UploadInv /\ UploadOK(v) /\ CommitOK(v)
  BY DEF CommitInv, UploadInv, UploadTypeOK
<1>2. /\ up[v].pc = "insert" /\ up[v].room \in rooms /\ rows' = rows \union {v}
      /\ rooms' = rooms /\ up'[v].room = up[v].room /\ up'[v].written = up[v].written
      /\ \A u \in Uploads \ {v} : up'[u] = up[u]
  BY <1>1 DEF InsertRow, At, Goto, Refuse, Request
<1>3. v \notin rows /\ up[v].written \in 1 .. MaxFileSize /\ up[v].room \in Rooms
  BY <1>1, <1>2, UploadAssumption DEF UploadOK, DiskOK, CommitOK, Request
<1>4. entry \in Shelf!Entry
  BY <1>3 DEF Shelf!Entry
<1>5. OnShelf' = OnShelf \union {entry}
  BY <1>1, <1>2, <1>3 DEF OnShelf
<1>6. \A e \in OnShelf : e.file # v
  BY <1>3 DEF OnShelf
<1>7. Shelf!Publish(entry)
  BY <1>2, <1>5, <1>6 DEF Shelf!Publish, OnShelf
<1> HIDE DEF entry
<1> QED
  BY <1>4, <1>7 DEF Shelf!ShelfNext, Shelf!Publish

\* The deletion of a room takes its files off the shelf, and no others.
LEMMA DeletionDrops ==
    ASSUME CommitInv, NEW room \in Rooms, DeleteRoom(room)
    PROVE  Shelf!ShelfNext
<1>1. rows' = rows \ ReadyIn(room) /\ up' = up /\ room \in rooms /\ rooms' = rooms \ {room}
  BY DEF DeleteRoom
<1>2. OnShelf' = {e \in OnShelf : e.room # room}
  BY <1>1 DEF OnShelf, ReadyIn
<1>3. Shelf!DropRoom(room)
  BY <1>1, <1>2 DEF Shelf!DropRoom, OnShelf
<1> QED
  BY <1>3 DEF Shelf!ShelfNext

LEMMA StepsAreShelfSteps ==
    ASSUME CommitInv, [Next]_vars
    PROVE  [Shelf!ShelfNext]_(Shelf!shelfVars)
<1>1. ASSUME NEW v \in Uploads, CheckFreeSpace(v) \/ UploadStep(v)
      PROVE  Shelf!ShelfNext \/ UNCHANGED Shelf!shelfVars
  BY <1>1, OnlyTheRowShows, InsertPublishes, SameShelfStutters
<1>2. ASSUME NEW u \in Uploads, RemoveDoomed(u)
      PROVE  SameShelf
  BY <1>2 DEF RemoveDoomed, SameShelf
<1>3. ASSUME Crash
      PROVE  SameShelf
  BY <1>3 DEF CommitInv, UploadInv, UploadTypeOK, Crash, SameShelf, Request
<1>4. ASSUME UNCHANGED vars
      PROVE  SameShelf
  BY <1>4 DEF vars, tables, SameShelf
<1> QED
  BY <1>1, <1>2, <1>3, <1>4, DeletionDrops, SameShelfStutters DEF Next

\* A file becomes visible at one instant, complete, in a room that exists
\* (the insert of file.go:478-485 after the rename), and disappears only
\* together with its room.
THEOREM PipelineImplementsShelf == Spec => ImplementsShelf
<1>1. Init => Shelf!ShelfInit
  BY DEF Init, Shelf!ShelfInit
<1>2. CommitInv /\ [Next]_vars => [Shelf!ShelfNext]_(Shelf!shelfVars)
  BY StepsAreShelfSteps
<1> QED
  BY <1>1, <1>2, CommitInvariant, PTL DEF Spec, ImplementsShelf, Shelf!ShelfSpec
=============================================================================
