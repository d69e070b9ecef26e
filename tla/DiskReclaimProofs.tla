------------------------- MODULE DiskReclaimProofs -------------------------
(***************************************************************************)
(* The cleanup worker takes nothing that is in use, for any number of      *)
(* files and any times, provided both ages it goes by are at least as long *)
(* as the longest time an upload can go without a write: the pause the     *)
(* client is allowed and the time to finish the file.                      *)
(*                                                                         *)
(* The invariant says that no upload at work is that old, and that the     *)
(* worker never has such an upload's file in hand, although it looks, asks *)
(* and removes in separate steps: what it found old or unlisted stays so.  *)
(***************************************************************************)
EXTENDS DiskReclaim, TLAPS

(***************************************************************************)
(* The condition on the settings.  The defaults of config.go:54-59 do not  *)
(* meet it for the files directory: the grace period equals the pause by   *)
(* itself.                                                                 *)
(***************************************************************************)
AgesSuffice ==
    /\ StagingMaxAge >= IdleTimeout + FinishTime
    /\ OrphanGrace >= IdleTimeout + FinishTime

\* How old the last write of an upload at work can be.
Young(f) ==
    /\ pc[f] = "receiving" => now <= mtime[f] + IdleTimeout
    /\ pc[f] \in {"finishing", "placed"} =>
          /\ ended[f] <= mtime[f] + IdleTimeout
          /\ now <= ended[f] + FinishTime

\* Where the file of an upload is.
InPlace(f) ==
    /\ pc[f] \in {"receiving", "finishing"} => place[f] = "staging"
    /\ pc[f] = "placed" => place[f] = "final"
    /\ pc[f] = "new" => place[f] = "nowhere"
    /\ f \in listed => pc[f] = "done" /\ place[f] = "final"

\* What the worker has in hand.
HandOK ==
    worker.hand # "empty" =>
        /\ worker.file \in Files
        /\ pc[worker.file] \notin Active \union {"new"}
        /\ worker.hand \in {"unlisted", "doomed"} => worker.file \notin listed

ReclaimInv ==
    /\ AgesSuffice
    /\ ReclaimTypeOK
    /\ \A f \in Files : Young(f) /\ InPlace(f)
    /\ HandOK

-----------------------------------------------------------------------------
\* The variables keep their types whatever the ages are.
LEMMA TypeStep == ReclaimTypeOK /\ [Next]_vars => ReclaimTypeOK'
<1> SUFFICES ASSUME ReclaimTypeOK, [Next]_vars PROVE ReclaimTypeOK'
  OBVIOUS
<1> USE ReclaimAssumption DEF ReclaimTypeOK, Active
<1>1. CASE Tick
  BY <1>1 DEF Tick, upload
<1>2. ASSUME NEW f \in Files, UploadStep(f)
      PROVE  ReclaimTypeOK'
  <2>1. CASE CreateStaging(f) \/ Write(f) \/ EndOfBody(f)
    BY <2>1 DEF CreateStaging, Write, EndOfBody
  <2>2. CASE Rename(f) \/ InsertRow(f) \/ Fail(f)
    BY <2>2 DEF Rename, InsertRow, Fail
  <2> QED
    BY <1>2, <2>1, <2>2 DEF UploadStep
<1>3. ASSUME NEW f \in Files, DeleteRoom(f)
      PROVE  ReclaimTypeOK'
  BY <1>3 DEF DeleteRoom, Hand
<1>4. CASE BeginPass
  BY <1>4 DEF BeginPass, upload, Phases
<1>5. CASE SweepStep
  <2>1. CASE RemoveDoomed
    BY <2>1 DEF RemoveDoomed, Hand
  <2>2. CASE AskDatabase
    BY <2>2 DEF AskDatabase, upload, Hand
  <2>3. CASE RemoveEntry
    <3>1. place' \in [Files -> {"nowhere", "staging", "final"}]
      BY <2>3 DEF RemoveEntry
    <3> QED
      BY <2>3, <3>1 DEF RemoveEntry, Hand
  <2>4. InDirectory("staging") \subseteq Files /\ InDirectory("final") \subseteq Files
    BY DEF InDirectory
  <2>5. CASE ReadStagingDir
    BY <2>4, <2>5 DEF ReadStagingDir, upload, Phases
  <2>6. CASE ReadFilesDir
    BY <2>4, <2>6 DEF ReadFilesDir, upload, Phases
  <2>7. CASE EndPass
    BY <2>7 DEF EndPass, upload, Phases, Hand, Resting
  <2>8. ASSUME NEW f \in Files, LookAt(f)
        PROVE  ReclaimTypeOK'
    BY <2>8 DEF LookAt, upload, Hand
  <2> QED
    BY <1>5, <2>1, <2>2, <2>3, <2>5, <2>6, <2>7, <2>8 DEF SweepStep
<1>6. CASE Crash
  BY <1>6 DEF Crash, Resting, Phases, Hand
<1>7. CASE UNCHANGED vars
  BY <1>7 DEF vars
<1> QED
  BY <1>1, <1>2, <1>3, <1>4, <1>5, <1>6, <1>7 DEF Next

LEMMA InitType == Init => ReclaimTypeOK
  BY ReclaimAssumption DEF Init, ReclaimTypeOK, Resting, Phases, Hand

\* The variables of the reclaim model keep their types (cleanup.go:82-351,
\* file.go:272-500), whatever the ages.
THEOREM ReclaimTypeCorrect == Spec => []ReclaimTypeOK
  BY TypeStep, InitType, PTL DEF Spec

-----------------------------------------------------------------------------
\* An upload at work has written too recently for either pass.
LEMMA ActiveIsNotOld ==
    ASSUME ReclaimInv, NEW f \in Files, pc[f] \in Active
    PROVE  ~TooOld(f)
<1>1. /\ now \in Nat /\ mtime[f] \in Nat /\ ended[f] \in Nat
      /\ IdleTimeout \in Nat /\ FinishTime \in Nat
      /\ StagingMaxAge \in Nat /\ OrphanGrace \in Nat
  BY ReclaimAssumption DEF ReclaimInv, ReclaimTypeOK
<1>2. now <= mtime[f] + IdleTimeout + FinishTime
  BY <1>1 DEF ReclaimInv, Young, Active
<1> QED
  BY <1>1, <1>2 DEF ReclaimInv, AgesSuffice, TooOld, Age

LEMMA TickKeepsInv ==
    ASSUME ReclaimInv, Tick
    PROVE  ReclaimInv'
<1>1. ReclaimTypeOK'
  BY TypeStep DEF ReclaimInv, Next
<1>2. /\ now' = now + 1 /\ UNCHANGED <<upload, worker>>
      /\ \A f \in Files : InTime(f)
  BY DEF Tick
<1>3. ASSUME NEW f \in Files
      PROVE  Young(f)' /\ InPlace(f)'
  <2>1. /\ now \in Nat /\ mtime[f] \in Nat /\ ended[f] \in Nat
        /\ IdleTimeout \in Nat /\ FinishTime \in Nat
    BY ReclaimAssumption DEF ReclaimInv, ReclaimTypeOK
  <2>2. Young(f) /\ InPlace(f) /\ InTime(f)
    BY <1>2 DEF ReclaimInv
  <2> QED
    BY <1>2, <2>1, <2>2 DEF upload, Young, InPlace, InTime
<1> QED
  BY <1>1, <1>2, <1>3 DEF ReclaimInv, HandOK, upload, AgesSuffice

LEMMA UploadKeepsInv ==
    ASSUME ReclaimInv, NEW g \in Files, UploadStep(g)
    PROVE  ReclaimInv'
<1>1. ReclaimTypeOK'
  BY TypeStep DEF ReclaimInv, Next
<1>2. now' = now /\ worker' = worker
  BY DEF UploadStep, CreateStaging, Write, EndOfBody, Rename, InsertRow, Fail
<1>3. /\ now \in Nat /\ mtime[g] \in Nat /\ ended[g] \in Nat
      /\ IdleTimeout \in Nat /\ FinishTime \in Nat
  BY ReclaimAssumption DEF ReclaimInv, ReclaimTypeOK
<1>4. /\ pc \in [Files -> Active \union {"new", "done", "failed", "crashed"}]
      /\ DOMAIN place = Files /\ DOMAIN mtime = Files /\ DOMAIN ended = Files
  BY DEF ReclaimInv, ReclaimTypeOK
<1>5. Young(g) /\ InPlace(g)
  BY DEF ReclaimInv
<1>6. pc[g] \in Active \union {"new"}
  BY DEF UploadStep, CreateStaging, Write, EndOfBody, Rename, InsertRow, Fail, Active
<1>7. ASSUME NEW f \in Files \ {g}
      PROVE  /\ pc'[f] = pc[f] /\ place'[f] = place[f] /\ mtime'[f] = mtime[f]
             /\ ended'[f] = ended[f] /\ (f \in listed' <=> f \in listed)
  BY <1>4 DEF UploadStep, CreateStaging, Write, EndOfBody, Rename, InsertRow, Fail
<1>8. Young(g)' /\ InPlace(g)'
  <2>1. CASE CreateStaging(g)
    BY <1>2, <1>3, <1>4, <1>5, <2>1 DEF CreateStaging, Young, InPlace
  <2>2. CASE Write(g)
    BY <1>2, <1>3, <1>4, <1>5, <2>2 DEF Write, Young, InPlace
  <2>3. CASE EndOfBody(g)
    BY <1>2, <1>3, <1>4, <1>5, <2>3 DEF EndOfBody, Young, InPlace
  <2>4. CASE Rename(g)
    BY <1>2, <1>3, <1>4, <1>5, <2>4 DEF Rename, Young, InPlace
  <2>5. CASE InsertRow(g)
    BY <1>2, <1>3, <1>4, <1>5, <2>5 DEF InsertRow, Young, InPlace
  <2>6. CASE Fail(g)
    BY <1>2, <1>3, <1>4, <1>5, <2>6 DEF Fail, Young, InPlace, Active
  <2> QED
    BY <2>1, <2>2, <2>3, <2>4, <2>5, <2>6 DEF UploadStep
<1>9. ASSUME NEW f \in Files \ {g}
      PROVE  Young(f)' /\ InPlace(f)'
  BY <1>2, <1>7 DEF ReclaimInv, Young, InPlace
<1>10. HandOK'
  <2> SUFFICES ASSUME worker.hand # "empty"
               PROVE  HandOK'
    BY <1>2 DEF HandOK
  <2>1. worker.file \in Files \ {g}
    BY <1>6 DEF ReclaimInv, HandOK
  <2> QED
    BY <1>2, <1>7, <2>1 DEF ReclaimInv, HandOK
<1> QED
  BY <1>1, <1>8, <1>9, <1>10 DEF ReclaimInv, AgesSuffice

\* Steps of the worker that change neither files nor rows.
LEMMA LookingKeepsInv ==
    ASSUME ReclaimInv, ReclaimTypeOK', UNCHANGED <<now, upload>>, HandOK'
    PROVE  ReclaimInv'
  BY DEF ReclaimInv, upload, Young, InPlace, AgesSuffice

\* The removal of a file that is neither listed nor at work.
LEMMA RemovalKeepsInv ==
    ASSUME ReclaimInv, ReclaimTypeOK', UNCHANGED <<now, pc, mtime, ended, listed>>,
           NEW g \in Files, pc[g] \notin Active \union {"new"},
           \A f \in Files \ {g} : place'[f] = place[f],
           g \in listed => place'[g] = place[g],
           worker'.hand = "empty"
    PROVE  ReclaimInv'
<1>1. ASSUME NEW f \in Files
      PROVE  Young(f)' /\ InPlace(f)'
  <2>1. Young(f) /\ InPlace(f)
    BY DEF ReclaimInv
  <2>2. CASE f = g
    BY <2>1, <2>2 DEF Young, InPlace, Active
  <2>3. CASE f # g
    BY <2>1, <2>3 DEF Young, InPlace
  <2> QED
    BY <2>2, <2>3
<1> QED
  BY <1>1 DEF ReclaimInv, HandOK, AgesSuffice

LEMMA WorkerKeepsInv ==
    ASSUME ReclaimInv, BeginPass \/ SweepStep \/ \E f \in Files : DeleteRoom(f)
    PROVE  ReclaimInv'
<1>1. ReclaimTypeOK' /\ ReclaimTypeOK /\ HandOK /\ \A f \in Files : InPlace(f)
  BY TypeStep DEF ReclaimInv, Next
<1>2. worker \in [phase : Phases, left : SUBSET Files,
                  file : Files \union {NoFile}, hand : Hand]
  BY <1>1 DEF ReclaimTypeOK
<1>3. CASE BeginPass
  <2>1. worker'.hand = "empty" \/ (worker'.hand = worker.hand /\ worker'.file = worker.file)
    BY <1>2, <1>3 DEF BeginPass
  <2> QED
    BY <1>1, <1>3, <2>1, LookingKeepsInv DEF BeginPass, HandOK, upload
<1>4. CASE ReadStagingDir \/ ReadFilesDir \/ EndPass
  <2>1. worker'.hand = "empty"
    <3>1. CASE ReadStagingDir
      BY <1>2, <3>1 DEF ReadStagingDir
    <3>2. CASE ReadFilesDir
      BY <1>2, <3>2 DEF ReadFilesDir
    <3>3. CASE EndPass
      BY <3>3 DEF EndPass, Resting
    <3> QED
      BY <1>4, <3>1, <3>2, <3>3
  <2> QED
    BY <1>1, <1>4, <2>1, LookingKeepsInv DEF ReadStagingDir, ReadFilesDir, EndPass, HandOK
<1>5. ASSUME NEW f \in Files, LookAt(f)
      PROVE  ReclaimInv'
  <2>1. CASE place[f] = Directory /\ TooOld(f)
    <3>1. worker'.file = f /\ worker'.hand = "old"
      BY <1>2, <1>5, <2>1 DEF LookAt
    <3>2. pc[f] \notin Active
      BY <2>1, ActiveIsNotOld
    <3>3. pc[f] # "new"
      BY <1>1, <2>1 DEF InPlace, Directory
    <3> QED
      BY <1>1, <1>5, <3>1, <3>2, <3>3, LookingKeepsInv DEF LookAt, HandOK, upload
  <2>2. CASE ~(place[f] = Directory /\ TooOld(f))
    <3>1. worker'.hand = "empty"
      BY <1>2, <1>5, <2>2 DEF LookAt
    <3> QED
      BY <1>1, <1>5, <3>1, LookingKeepsInv DEF LookAt, HandOK
  <2> QED
    BY <2>1, <2>2
<1>6. CASE AskDatabase
  <2>1. \/ worker'.hand = "empty"
        \/ /\ worker.file \notin listed /\ worker'.file = worker.file
           /\ worker'.hand = "unlisted"
    BY <1>2, <1>6 DEF AskDatabase
  <2>2. worker.hand = "old"
    BY <1>6 DEF AskDatabase
  <2> QED
    BY <1>1, <1>6, <2>1, <2>2, LookingKeepsInv DEF AskDatabase, HandOK, upload
<1>7. CASE RemoveEntry
  <2> DEFINE f == worker.file
  <2>1. worker.hand \in {"old", "unlisted"}
    BY <1>7 DEF RemoveEntry
  <2>2. /\ f \in Files /\ pc[f] \notin Active \union {"new"}
        /\ worker.hand = "unlisted" => f \notin listed
    BY <1>1, <2>1 DEF HandOK
  <2>3. f \in listed => place[f] # Directory
    BY <1>1, <1>7, <2>2 DEF RemoveEntry, InPlace, Directory
  <2>4. /\ UNCHANGED <<now, pc, mtime, ended, listed>> /\ worker'.hand = "empty"
        /\ place' = IF place[f] = Directory THEN [place EXCEPT ![f] = "nowhere"] ELSE place
    BY <1>2, <1>7 DEF RemoveEntry
  <2>5. /\ \A g \in Files \ {f} : place'[g] = place[g]
        /\ f \in listed => place'[f] = place[f]
    BY <1>1, <2>3, <2>4 DEF ReclaimTypeOK
  <2> HIDE DEF f
  <2> QED
    BY <1>1, <2>2, <2>4, <2>5, RemovalKeepsInv
<1>8. CASE RemoveDoomed
  <2> DEFINE f == worker.file
  <2>1. f \in Files /\ pc[f] \notin Active \union {"new"} /\ f \notin listed
    BY <1>1, <1>8 DEF HandOK, RemoveDoomed
  <2>2. /\ UNCHANGED <<now, pc, mtime, ended, listed>> /\ worker'.hand = "empty"
        /\ place' = [place EXCEPT ![f] = "nowhere"]
    BY <1>2, <1>8 DEF RemoveDoomed
  <2>3. \A g \in Files \ {f} : place'[g] = place[g]
    BY <1>1, <2>2 DEF ReclaimTypeOK
  <2> HIDE DEF f
  <2> QED
    BY <1>1, <2>1, <2>2, <2>3, RemovalKeepsInv
<1>9. ASSUME NEW f \in Files, DeleteRoom(f)
      PROVE  ReclaimInv'
  <2>1. /\ f \in listed /\ listed' = listed \ {f}
        /\ UNCHANGED <<now, pc, place, mtime, ended>>
    BY <1>9 DEF DeleteRoom
  <2>2. worker'.file = f /\ worker'.hand = "doomed"
    BY <1>2, <1>9 DEF DeleteRoom
  <2>3. pc[f] = "done"
    BY <1>1, <2>1 DEF InPlace
  <2>4. HandOK'
    BY <2>1, <2>2, <2>3 DEF HandOK, Active
  <2>5. \A g \in Files : Young(g)' /\ InPlace(g)'
    BY <2>1 DEF ReclaimInv, Young, InPlace
  <2> QED
    BY <1>1, <2>4, <2>5 DEF ReclaimInv, AgesSuffice
<1> QED
  BY <1>3, <1>4, <1>5, <1>6, <1>7, <1>8, <1>9 DEF SweepStep

LEMMA CrashStaysReclaimed ==
    ASSUME ReclaimInv, Crash
    PROVE  ReclaimInv'
<1>1. ReclaimTypeOK'
  BY TypeStep DEF ReclaimInv, Next
<1>2. /\ UNCHANGED <<now, place, mtime, ended, listed>>
      /\ pc' = [f \in Files |-> IF pc[f] \in Active THEN "crashed" ELSE pc[f]]
      /\ worker'.hand = "empty"
  BY DEF Crash, Resting
<1>3. \A f \in Files : Young(f)' /\ InPlace(f)'
  BY <1>2 DEF ReclaimInv, Young, InPlace, Active
<1> QED
  BY <1>1, <1>2, <1>3 DEF ReclaimInv, HandOK, AgesSuffice

\* With sufficient ages, the worker never has the file of an upload at work
\* in hand (cleanup.go:270-351).
THEOREM ReclaimInvariant == AgesSuffice /\ Spec => []ReclaimInv
<1>1. AgesSuffice /\ Init => ReclaimInv
  <2> SUFFICES ASSUME AgesSuffice, Init PROVE ReclaimInv
    OBVIOUS
  <2> QED
    BY InitType DEF ReclaimInv, Init, Young, InPlace, HandOK, Resting
<1>2. ReclaimInv /\ [Next]_vars => ReclaimInv'
  <2> SUFFICES ASSUME ReclaimInv, [Next]_vars PROVE ReclaimInv'
    OBVIOUS
  <2>1. CASE UNCHANGED vars
    BY <2>1 DEF vars, ReclaimInv, ReclaimTypeOK, Young, InPlace, HandOK, AgesSuffice
  <2> QED
    BY <2>1, TickKeepsInv, UploadKeepsInv, WorkerKeepsInv, CrashStaysReclaimed DEF Next
<1> QED
  BY <1>1, <1>2, PTL DEF Spec

\* A listed file is on disk: reconcileOrphanFiles (cleanup.go:302) takes no
\* file whose row is about to be written, if the grace period is sufficient.
THEOREM ListedFilesAlwaysExist == AgesSuffice /\ Spec => []ListedFilesExist
<1>1. ReclaimInv => ListedFilesExist
  BY DEF ReclaimInv, ListedFilesExist, ReclaimTypeOK, InPlace
<1> QED
  BY <1>1, ReclaimInvariant, PTL

\* cleanStaging (cleanup.go:270) takes no file an upload is writing, if the
\* staging age is sufficient.
THEOREM ActiveStagingAlwaysKept == AgesSuffice /\ Spec => []ActiveStagingKept
<1>1. ReclaimInv => ActiveStagingKept
  BY DEF ReclaimInv, ActiveStagingKept, InPlace
<1> QED
  BY <1>1, ReclaimInvariant, PTL
=============================================================================
