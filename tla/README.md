# HAMAL in TLA+

HAMAL is a self-hosted server for temporary file transfer in a local network:
a creator opens a *room* with a lifetime and perhaps a PIN, participants upload
and download files, the creator can publish single files by *share* links, and
a cleanup worker removes what has ended.  It is one Go process with one SQLite
file, a staging directory and a files directory, beside which the container's
health check starts the same program every half minute.

These modules describe the parts of the server in which the order of steps
matters, the TLC runs check them on small instances, and the proofs carry the
safety properties of all server modules to every instance.  All paths below are relative to
`src/`; `PROJECT.json` holds the line-by-line correspondence (`map`), the runs,
the mutants, the hazards with the lines where they bite, and the findings.

## 1. Inventory

### Components

| Component | Code | State | Operations |
|---|---|---|---|
| Quota manager | `internal/file/quota.go` | in memory: reservations and three counters | `Acquire`, `Grow`, `Shrink`, `Release`, getters |
| Upload pipeline | `internal/file/file.go` | staging and files directory, `files` table, local variables of a request | `StreamUpload`, queries |
| Room lifecycle | `internal/room/room.go` | `rooms` table | `Create`, `GetByToken`, `StartClosing`, `CloseByRoomID`, `Close` |
| PIN lockout and sessions | `internal/room/room.go`, `pin.go` | attempts and lock in the room's row, `sessions` table | `VerifyAndRecordPINAttempt`, `UnlockRoom`, `CreateSession`, `ValidateSession` |
| Public shares | `internal/share/share.go` | `shares` table | `CreateShare`, `RevokeShare`, `GetByToken`, listing |
| Cleanup worker | `internal/cleanup/cleanup.go` | none between passes | `RunOnce`: overdue countdowns, rooms, staging, shares, sessions, orphans |
| Rate limiter | `internal/app/ratelimit.go` | in memory: bucket per address | `Allow` |
| HTTP handlers | `internal/app/app.go` | none | order of the calls above, authorisation, idle timeout of bodies |
| Client page | `internal/app/static/site.js` | timers, upload queue, flags | polling, uploading, closing, PIN form |
| Start and stop | `cmd/lan-drop/main.go`, `internal/storage`, `internal/database` | secret file, schema version, worker and listener | settings, secret, migrations, first cleanup, health check, shutdown |
| Configuration | `internal/config/config.go` | none | parse and validate, limiters built from it |
| Tokens, PIN hashes, QR codes, logging, templates | | none | pure functions |

### How they interact

Requests run as goroutines.  They meet in four places: the database, which has
one connection (`database.go:16`), so that a statement or a transaction is
atomic and nothing larger is; the quota manager and the rate limiter, each
under a mutex, so that a call is atomic; the two directories, where a file
system call is atomic; and time.  The cleanup worker is one more goroutine that
passes over everything once a minute and once at the start, and the stop of
the process at any moment loses memory and keeps disk and database.

The page in the browser is a concurrent program of its own: one callback at a
time, but answers, timers and the user in any order.  It meets the server in
its requests only.

An upload touches all of them in turn: the handler reads the room, the pipeline
reads usage from the database, reserves in the manager, writes to the staging
directory, grows the reservation, renames into the files directory, inserts the
row, releases.  Room deletion takes rows by foreign-key cascade in one
transaction and files afterwards, one by one.

### What is hard

* A reading is used after the state has moved on: usage figures in an upload,
  the copy of the row in `GetByToken`, the lock a PIN request saw, the count of
  shares, the batch of the sweep, the `Lstat` of a directory entry.
* Two stores are kept in step without a common transaction: disk and table,
  reservation and row.
* Errors in the middle, cleaned up by deferred functions and by hand.
* A crash between any two steps.
* Three clocks: `time.Now()`, text cut to seconds, modification times.  And
  limits of time that have to fit together (idle timeout, staging age, orphan
  grace, countdown, lifetime).
* Things that must happen in the end: release, deletion, reclamation, a service
  that is up when it is wanted, a page that falls silent.
* Two processes on one data directory: server and health check, both of which
  write the secret and migrate.

### What makes each component correct

* **Quota manager**: counters equal the sum of live reservations; in-flight
  reservations never exceed a limit by themselves.
* **Upload**: bytes on disk are always covered by a reservation or a row; a row
  has its file and a file in place has an upload or a row to answer for it;
  limits hold; each upload ends and gives back what it took; to a visitor a
  file appears at once and complete.
* **Room**: the status moves forward only; a countdown runs undisturbed; nobody
  is let in after the lifetime; only finished rooms are deleted, all of them.
* **PIN**: each failure counts once; a lock binds also those who read the row
  before it; failures are spaced by the cooldown; an accepted PIN admits.
* **Shares**: the limit; no share outlives its file or room; the sweep takes
  only dead ones.
* **Reclamation**: neither an upload at work nor a listed file loses its file;
  every leftover goes.
* **Rate limiter**: one token bucket per address, whatever is forgotten;
  `Retry-After` is long enough.
* **Sessions**: earned by the right PIN only, and kept as long as the room.
* **Start and stop**: the server's secret is the one on disk; each migration is
  applied once and in order; the database is closed under nobody; the settings
  are what was written; the service ends up as the operator wants it.
* **Page**: one upload at a time in the order picked; polling never stops before
  the end of the page, and stops for good after it.
* **Answers**: who was told that a room is closed or closing, or was let in, can
  rely on it, restarts included.

## 2. Modules

| Module | Models | Notes |
|---|---|---|
| `Tally` | sum of a function over a finite set, as a cardinality | used by the ledger and the usage queries |
| `QuotaManager` | quota manager | one action per method, guards as operators of their own so that a caller can follow the error return |
| `FileShelf` | abstract: what visitors see of uploads | publish a complete file in an existing room, drop a room |
| `Upload` | `StreamUpload`, room deletion, crash | EXTENDS `QuotaManager`, whose methods it calls; implements `FileShelf` |
| `RoomLifecycle` | room rows, requests on copies and their answers, the sweep of rooms | |
| `DiskReclaim` | age-based removal of files against uploads and crashes | |
| `PinLockout` | PIN attempts of overlapping requests, the sessions they earn, their sweep | |
| `Shares` | public shares of one room | |
| `TokenBucket` | abstract: one bucket per address | |
| `RateLimiter` | the limiter's map with eviction | implements `TokenBucket` |
| `Settings` | settings: byte sizes in machine words, validation, limiters built from them | operators only |
| `Startup` | server and health check from launch to exit | EXTENDS `Settings` |
| `ClientPage` | the room page in the browser against a room that ends | |
| `UploadProofs`, `RoomLifecycleProofs`, `RateLimiterProofs`, `DiskReclaimProofs`, `PinLockoutProofs`, `SharesProofs`, `StartupProofs`, `ClientPageProofs` | the theorems, one module per component | checked by TLAPS; `UploadProofs` begins with those of the quota manager |
| `MC*` | instances for TLC | |

A definition whose comment begins with *Mutant* is a plausible mistake in the
code, kept beside the definition it would replace; each property is refuted by
at least one of them, which shows that the property depends on the code.

### State and actions against the code

**QuotaManager.**  `reservations`, `roomReserved`, `roomFiles` and
`totalReserved` are the fields of the Go struct; the Go maps delete an entry at
zero, which a total function shows as the value 0.  `Acquire`, `Grow`, `Shrink`
and `Release` have their guards and clamps; the usage figures are parameters
with any value, because the manager cannot know how old they are.  `Restart` is
a new process.

**Upload.**  `up[u].pc` is the place in `StreamUpload`; `used`, `count`,
`total`, `reserved`, `written` are its local variables.  One action is one
statement on the database, one call of the manager or one file system call.
The read loop has an action for each outcome of a turn: bytes within the
reservation, with growth, refused growth, file too large, failure.  The
deferred functions (`Unstage`, then `ReleaseQuota`) and the explicit removes
(`Unfile`) are steps.  `DeleteRoom` and `RemoveDoomed` are `cleanRoom`, `Crash`
the end of the process.  The stores' own checks apart, the handler looks at the
room once, before it calls `StreamUpload`, and so does `CheckFreeSpace`; a room
that starts to close afterwards changes nothing for the upload, a room that is
deleted does.

**RoomLifecycle.**  `room[r]` is the row, `req[q]` a request with the copy it
read.  `ReadRoom`, `Judge`, `MarkClosed`/`MarkExpired` are the three stages of
`GetByToken`; then the request views, closes or starts the countdown.
`BeginPass`, `CloseOverdue`, `SelectBatch`, `CleanRoom` are the cleanup pass,
which compares text of the time at which it began.  `answer` is what a close
request was told when it was through: "closed", "closing", `ErrRoomNotFound` or a
database error, the last two a 500 for the browser.  Any statement can fail: the
lazy updates of `GetByToken` ignore it, `StartClosing` and `CloseByRoomID` report
it and leave the room as it was.  The answer stays through a crash, for it was
given.

**DiskReclaim.**  `place` and `mtime` are what the file system knows of a file,
`listed` its row, `pc` its upload, `worker` the pass with the entry in hand:
`LookAt` is the `Lstat` and the age check, `AskDatabase` the query,
`RemoveEntry` the remove.

**PinLockout.**  `row` holds attempts and lock; a request passes `ReadRow`,
`CheckLock` (the copy), the slow key derivation, one of the `Record...` actions
(the transaction), `Reread`, `CreateSession`; at each of them a database error, an
ended request or the random source can end it with "error", while "ended" is the
room's fault.  One error goes unnoticed, that of the reset after a right PIN
(`room.go:316`).  `outcome` is what the browser was told and outlives a crash.
`failures` and `lastWrong` are history variables that the code does not have.  `sessions` is the
`room_sessions` table; a session has the expiry of its room.
`IsParticipantAuthenticated` is the handlers' check with `ValidateSession`,
`SweepSessions` the cleanup's delete, and `DeleteRoom` the cascade.

**Shares.**  `CreateShare` is `ReadRoom`, `CountShares`, `CheckFile`,
`InsertShare`; `RevokeShare` and `SweepShares` are single statements.

**RateLimiter.**  `buckets` is the map; `AllowNew`, `Allow` and `Refuse` are
the outcomes of `Allow`.  Tokens are counted in parts so that refill is exact
integer arithmetic.  `promised` is a history variable.

**Settings.**  An environment is what the operator wrote, number and unit apart.
`CutUnit` follows the code's list of suffixes, `EnvBytes` multiplies in words
(`Wrap`), `Accepted` is `LoadFromEnv` without an error.  The limiters `New`
builds are part of it because they are made of the settings alone, one of them
with a product that can wrap.

**Startup.**  `proc[p].pc` is the place of the server or of the health check in
`main` and `New`.  Writing the secret is two steps, because `os.WriteFile`
truncates before it writes; a migration is two as well, the look at its row and
the transaction.  `worker` is the cleanup goroutine, `busy` the handlers at
work.  `Stop` is SIGTERM, which kills until `main` has asked to be told of it;
`Kill`, `ListenFails` and failing writes are the faults.  The server's end is the
container's and takes the health check along.  `missing` is a history variable.

**ClientPage.**  `poll[c]` is one chain of polls: a request on its way, its
answer on the way back, or the timer for the next one; `pollTimer` is the
variable of that name, which knows the last timer only.  `uploadQueue` and
`isUploading` are the page's, `xhrs` and `nextTimers` what the browser holds for
it.  `shown` is the set of visible cards.  A request is sent, answered by the
room as it is then, and taken later, in that order and with anything between.
`close` follows the close button: `OpenConfirm` needs the active card, but the
question it opens lies outside the cards (`participant.html:243`,
`creator.html:254`) and `showInactive` leaves it open, so `PressClose` looks at
nothing else.

## 3. Runs

Every run fits in minutes on two workers.  Deadlock is not checked where the
clock of the model stops, every upload has ended, the page has fallen silent or
the operator wants no service, which is the end of the instance and not of the
program.

| Run | Instance | Shows |
|---|---|---|
| `upload_concurrent` | 2 uploads, 2 rooms, fair | disk, rows, reservations and counters agree at every step; reservations by themselves stay within the limits, and these are passed only through a stale reading; an upload alone is not refused growth that would fit; visitors see a `FileShelf`; uploads end; a deleted room leaves nothing |
| `upload_room_bytes` | 2 uploads, 1 room | violation, see findings |
| `lifecycle` | 1 room, 2 requests, sweep, crash, failing statements | status forward, countdown honoured, grants within the lifetime, close requests answered truly and for good, only finished rooms deleted |
| `lifecycle_live` | 2 rooms, batch of 1, 1 request, fair | expired rooms are deleted, countdowns end |
| `reclaim` | 2 files, 1 crash, ages above the idle timeout, fair | no file of an upload at work or of a row is removed; orphans are reclaimed |
| `reclaim_grace` | 1 file, grace equal to the idle timeout (the defaults) | violation, see findings |
| `pin_lockout` | 2 requests, threshold 2, two cooldowns, crash, failing statements | attempts counted, locks hold, failures spaced, accepted PINs admit, sessions earned and kept |
| `shares` | 2 creator's requests, 3 shares, limit 1, 2 files | overshoot bounded by concurrency, shares die with room and file, the sweep keeps usable ones |
| `shares_limit` | 2 creator's requests | violation, see findings |
| `rate_limiter` | 3 clients, map crowded at 2, time 10 | no bucket in debt or over its burst; implements `TokenBucket`; `Retry-After` honoured |
| `startup` | server and health check, 4 migrations, 2 handlers, good and bad settings, words of 5 bits, fair | the server has the secret on disk; migrations once each and in order; settings as written; clean stop; the operator obeyed |
| `client_page` | each kind of page, 2 poll chains, 2 files, fair | uploads in order; polling until the end and not after it; the end is final; the page follows its room to the end and falls silent |

The type invariants (`...TypeOK`) are theorems and not among the runs'
properties, but for the limiter's, which says that no bucket is in debt or
overfull.

### Bounds

* *Two* uploads, requests or creators: each hazard listed is a race of one
  actor's reading with one other actor's step.
* *Sizes* are in units of the first chunk.  Limits are chosen so that a file
  fits alone and two together do not, by the volume or, through a stale count of
  files, in one room; that a buffer can cross the reservation and the file limit;
  and that a growth chunk can be too large where a buffer is not.
* *Time* is bounded by `MaxTime`, chosen so that a room lives, counts down,
  ends and is swept, that a lock ends and the next, longer one begins, that a
  bucket is emptied, refilled, forgotten and met again.  A second has two ticks
  wherever text and clock are compared: one tick lies inside the second.
* *Crashes* are bounded in `DiskReclaim` (`MaxCrashes`), failures in
  `PinLockout` (`MaxAttempts`, above the length of the list of cooldowns plus
  the threshold, so that the last one repeats).  In `Startup` nothing bounds
  kills and restarts: the store is finite.
* *Words* in `Startup` have five bits and units the factors 2, 4 and 8, so that a
  size wraps to a negative number, to zero and to a small positive one.  The
  environments are a good one and all that differ from it in one setting.
* *Polls*: `ClientPage` has two chains at once (`MaxChains`), the first one and
  one more by an upload, a return to the tab or the PIN form.  While both are in
  use these three have to wait, which the page would not do; the proofs have no
  such bound.

### Fairness

* `Upload`: weak fairness of each upload's steps.  A goroutine runs on; a read
  of the body returns, because `idleTimeoutReader` (`app.go:224-281`) turns a
  silent client into an error; a body is bounded by `MaxFileSize`.  Removal of a
  deleted room's files is fair because what `cleanRoom` misses the orphan
  reconciliation takes.  Crash and deletion are not fair.
* `RoomLifecycle`, `DiskReclaim`: the worker's ticker fires and its pass runs
  on (`cleanup.go:82-97`, `main.go:55-64`), the clock advances (lifecycle only), and
  crashes come to an end.  Requests are not fair: nobody has to visit a room.
* `Startup`: Docker launches what is wanted (`docker-compose.yml:12`), `main` and
  the worker run on, and faults come to an end (`<>[][Ordinary]_vars`).  The stop
  of the worker has strong fairness: `select` picks at random among what is
  ready (`cleanup.go:89-95`), so it does not prefer the ticker for ever.
  Handlers are not fair, they may hang; nor are health checks and the operator.
* `ClientPage`: the browser runs its callbacks, each request is answered or
  fails, and failures come to an end.  Fairness of the uploads is that of their
  answers and of the pause between two taken together, as at most one of these is
  ever due (`UploadsInOrder`).  The user, the room and the page's own clock are
  not fair.

## 4. Findings

1. **Room limit passed by concurrent uploads** (`upload_room_bytes`, code bug).
   `StreamUpload` reads the room's usage (`file.go:295`) before it reserves and
   uses the figure for every growth.  An upload that inserts its row and
   releases its reservation in between is counted in neither.  The same holds
   for the number of files and, with its own query, for all rooms together.
   `OvershootOnlyWhenStale` shows that this is the only way past a limit.
2. **Orphan reconciliation against a slow client** (`reclaim_grace`, code bug).
   The age of a finalized file is counted from its last write, which the rename
   keeps.  With the defaults (grace and idle timeout both ten minutes) a client
   that pauses almost to the timeout before the end of its body puts a file in
   place that is already older than the grace period.  If the pass looks at it
   before its row is inserted, the row stays and the file goes.  `reclaim` shows
   that a grace period above the idle timeout plus the time to finish is
   enough.
3. **Limit of active shares** (`shares_limit`, code bug).  Count and insert are
   separate statements; `OvershootBounded` shows by how much the limit can be
   passed.

Other disagreements and exceptions were met; they are hazards, and exceptions in
the properties:

* The comment at `file.go:398` says that growth is cut to the headroom "so we
  don't over-request", but the headroom leaves out what others have reserved.  A
  growth step can then be refused although the bytes the upload needs would fit:
  with a volume of 4 and one upload holding 2, a second one holding 1 asks for
  2 more where 1 is left and all it needs.  `NoNeedlessRefusal` therefore speaks
  of an upload that holds the only reservation.
* `Config.Validate` accepts a staging age below the idle timeout, with which the
  sweep removes the file of an upload that is only pausing (`ActiveStagingKept`
  needs the opposite).
* Byte sizes above `2^63 - 1` wrap before they are validated (`config.go:298`),
  and a management rate above `2^62` turns the upload limiter off
  (`app.go:91`): the two exceptions in `SettingsFaithful`.
* A process that dies while it writes the first secret leaves a short file, which
  every later start refuses (`storage.go:44`): the exception in
  `OperatorObeyed`.  If server and health check both find the file missing, the
  one that writes last is read by the next start, while the server goes on with
  its own: the exception in `SecretAgrees`.
* A status answer that was on its way when the page ended shows the room's card
  again (`site.js:979-1023`, which do not look at `isTerminated`), and so does the
  answer of a close question that stayed open when the page ended
  (`site.js:1325-1354`).  `EndIsFinal` therefore says that an ended page stays as
  it is once no answer, countdown or open question is left, that no poll ever
  begins on it, and that its polls and its queue, once died out, stay so.
* A close request can be answered 500 both when the room is gone
  (`ErrRoomNotFound`) and when the database failed and the room is open
  (`app.go:820`, `app.go:843`).  `CloseAnswersTrue` holds the first to be true and
  promises nothing for the second.
* An accepted PIN gets no session when the second look at the room, the random
  source or the insert fails (`app.go:678-681`, `room.go:386-406`), although the
  room may be entered and the count has been reset.  `AcceptedPinAdmits` leaves
  these out and excludes every other cause but the end of the room.

## 5. Proofs

Every theorem is about the specification without fairness, for all values of the
constants that the module's assumption allows.  Every safety invariant, action
property and refinement that a passing run checks is the conclusion of one.

`UploadProofs` begins with the ledger by itself, for all rooms, finite sets of
reservations, limits in `Nat` and any amounts and readings (`QuotaAssumption`):

* `LedgerInvariant`: `LedgerSpec => []LedgerInv`, where `LedgerInv` is
  `LedgerTypeOK /\ CountersExact /\ ReservedWithinLimits`;
* `LedgerTypeCorrect`, `CountersAlwaysExact`, `ReservationsStayWithinLimits`,
  one for each part.

None of the three parts is inductive alone.  The counters are natural numbers
only because the clamps at zero in `Shrink` and `Release` never bite, which
follows from exactness: what is taken off a counter is a term of the sum it
equals.  The limits survive `Shrink` and `Release` for the same reason, and
`Acquire` and `Grow` by their guards, where readings are natural numbers.  The
proof has one lemma per method, in it one step per conjunct.  Below them lie
lemmas on what setting one holder apart and changing the amount of one holder do
to a sum over a finite set.  A sum by a fold cannot be unfolded by the installed
provers (the library's facts about folds and recursive functions take an operator
as a parameter), so `Tally` counts units instead: it is the cardinality of a set
of pairs, and the lemmas follow from the library's facts about finite sets.

It goes on, for any number of uploads and rooms, with `UploadInv`: types,
the ledger's invariant, and for each upload `HoldsOK` and `DiskOK`, which say at
which steps it holds a reservation, of what size, and where its file and its row
are.  Each step moves one upload (`Moves`), so one lemma covers all steps that
leave the ledger alone (`QuietStep`), and those that call a method use the
method's lemma from the ledger: that `Acquire` asks for a natural number
and `Grow` for no less than the buffer needs (`GrowthCovers`) is what makes
`BytesCovered` survive the write that follows.  From it follow
`FilesAndRowsAlwaysAgree`, `BytesAlwaysCovered`, `ReservationsAlwaysInFlight`,
`UploadCountersExact` and `UploadReservedWithinLimits`.

`OvershootsAreStale` compares sums before and after a step.  A sum over rows plus
a sum over reservations without a row is awkward to follow, since an insert moves
an upload from one to the other.  So each upload is given one `account`: what it
wrote once it has a row, what it holds in reserve before, nothing otherwise.  The
commitments of a room and of the volume are sums of accounts over sets that no
step changes (`AddUp`), and the slots taken are the uploads that have either.
Every step then falls under one of two heads (`CommitInvStep`).  Either it raises
no account and commits no further upload (`NoMore`), and no sum grows; that an
insert or the deletion of a room is such a step needs `CommitInv`: from the
shrink on a reservation holds no more than its file, or a room that is deleted
just before the release would seem to take bytes.  Or it is an `Acquire` or a
`Grow` that the manager grants (`Granted`): then room and volume stay within the
limits by the upload's own readings, the counters being at least the
reservations that count (`ReservedCovers`), and an overshoot means that a reading
is less than what the query would return now.

`RefusalsAreNeeded` rests on `AloneInLedger` (with one reservation the counters
are its bytes) and `GrowthStaysWithin`: if a buffer fits the headroom, each of
the three cuts leaves a growth that fits it as well.  `PipelineImplementsShelf`
maps steps to steps: the insert of a row is a `Publish`, the deletion of a room a
`DropRoom`, and everything else, a crash included, leaves the rows and what is
behind them alone (`SameShelf`), because an upload with a row has nothing left to
do but to release.  That the published size is not zero comes from `CommitInv`,
that the file was not on the shelf before from `DiskOK`.

`RateLimiterProofs` assumes what `LimiterAssumption` says, above all that a
burst refills within the time after which an entry is forgotten
(`StaleAfter * Rate >= Burst`; `app.go:89-92`, `ratelimit.go:28-33` and `:61`),
and proves:

* `LimiterInvariant`, `LimiterTypeCorrect`: `LimiterTypeOK` together with
  `PromisesKept`, which ties each promised time to the bucket it was made for;
* `RetryAfterAlwaysHonoured`: rounding up to whole seconds is enough, and what a
  refused request does to its bucket never breaks an earlier promise;
* `LimiterImplementsTokenBucket`: a tick is a refill of all buckets, a request
  let through pays from its own, a refused one changes nothing, and an eviction
  is invisible because a stale bucket is full.  `TokenBucket` bounds what is
  let through; that nobody is refused too much is left to `RetryAfterAlwaysHonoured`,
  as a refused request is a stutter of it.

`RoomLifecycleProofs` proves, for any rooms, requests, lifetimes, countdown,
retention and batch size (`LifecycleAssumption`), the invariant `LifecycleInv`:
types; a countdown's deadline lies within the lifetime (`RowOK`); what a copy
of a row read some time ago still tells of the row (`CopyOK`: same expiry, a
countdown seen is still the same one or over); what the selection of a batch
still tells of its rooms (`BatchOK`).  `RoomSteps` shows that with it every step
is, for each room, one of six, whoever takes it.  From that list follow
`StatusMovesForward`, `CountdownsHonoured` and `OnlyFinishedRoomsAreDeleted`,
and from `CopyOK` follows `GrantsAreWithinLifetime`.  `BatchOK` is needed
because `CleanRoom` does not look at the row again, `CopyOK` because the
updates after a reading are guarded by the status only.  `CloseAnswersAreTrue`
has two halves.  `AnsweredTruly` goes through the steps that answer and shows
that what each answers is true of the row it leaves (`Meant`), which `CopyOK`
relates to the copy that the answer was decided on.  `AnswersStayTrue` shows that
no later step of anybody undoes it: a row that admits nobody admits nobody after
the step (`OverForGood`), and "closing" leads on to closed or deleted only.  For
that `RowOK` also says that an expired row is past its lifetime.

`DiskReclaimProofs` proves `ListedFilesAlwaysExist` and
`ActiveStagingAlwaysKept` under `AgesSuffice`: both ages are at least the idle
timeout plus the time an upload takes to finish.  That is the condition that the
defaults miss and `reclaim_grace` breaks.  `ReclaimInv` says how old the last
write of an upload at work can be (`Young`), where its file is (`InPlace`), and
what the entry in the worker's hand still tells of its file (`HandOK`): that it
was too old for an upload at work, and, once asked for, not listed - which stays
so, because only an upload at work inserts a row.  Type correctness needs no
condition.

`PinLockoutProofs` proves, for any requests, threshold and list of cooldowns,
`LockoutInv`: types, `AttemptsCounted`, that a stored lock is the cooldown of the
last failure (`LockIsLast`), what requests and sessions have behind them
(`RequestOK`, `SessionOK`), and that whoever was turned away for the room's sake
was turned away from a room that is over (`TurnedAwayOK`).  Because answers
outlive a crash, `SessionOK` has to hold for sessions that were stored before it.  From it follow `AttemptsAlwaysCounted`,
`LockAlwaysHolds`, `FailuresAlwaysSpaced`, `AcceptedPinAlwaysAdmits` and
`SessionsAlwaysEarnedAndKept`.

`SharesProofs` proves `SharesAlwaysDieWithRoom`, `UsableSharesAlwaysKept` and
`OvershootAlwaysBounded` for any number of requests.  The last needs
`PlacesBounded`: shares that count and requests past the check together take up
no more places than the limit and one less than all requests allow, a request
that has just counted having found room for one.

`StartupProofs` proves, for any number of migrations, handlers and settings,
`SecretAlwaysAgrees`, `SchemaAlwaysComplete` and `AlwaysStopsCleanly`.  The
invariant ties each process's place to what it has in hand (`SecretInv`: who can
still write the secret, and that it had found the file missing), its next
migration to the schema (`SchemaInv`) and the worker to the server's place
(`StopInv`).  `SettingsAlwaysFaithful` needs one fact more, that a process past
its configuration runs with settings that were accepted (`Settled`), and then
arithmetic for every width of a word: a product that fits a word is kept by the
wrap-around (`WrapKeeps`), and a positive rate makes a usable limiter
(`LimiterSound`).

`ClientPageProofs` proves, for any number of chains of polls and of files
(`PageAssumption`), `PageIInv`: types, `PollInv` for the polls and `UploadInv`
for the queue.  Neither half needs the other.  `PageNeverBlind` is inductive only
with `TimerKnown`: `pollTimer` names a timer still to fire, so clearing it never
ends a poll that is under way, and every callback that clears it sends a poll or
ends the page.  `UploadsInOrder` is inductive only with the three shapes of
`QueueInv`: a request for the file before the queue's first, the pause between
two requests, or nothing to do.  `EndIsAlwaysFinal` follows from `PageIInv` step
by step: with no answer outstanding and no question open only timers are left to
fire and uploads to end, and on an ended page neither sends a poll
(`NoPollAfterEnd`, `SilenceStays`).  `PageEnds` can therefore be stated without
"for ever": that the page gets there is TLC's, that it stays is proved.

### What is only model-checked

* Liveness (`UploadsEnd`, `DeletedRoomLeavesNothing`, `ExpiredRoomsDeleted`,
  `CountdownsEnd`, `OrphansReclaimed`, `OperatorObeyed`, `PageEnds`): fairness and ENABLED are out of the
  prover's reach.
* No module uses RECURSIVE operators or induction over data, which the prover
  could not follow.

## 6. What is not modelled

* *The rest of the client*: start page, rendering of lists and progress, modals
  but the close question, clipboard, previews, share dialogs.  They hold no state
  that requests or timers race for.  In one place `ClientPage` allows more than
  the page does: a guest's page that has ended and shows its active card again
  offers the close button once more, in the code only if it never showed the
  closing card.
* *Other settings*: those that are texts (addresses, paths, URLs, CIDRs, modes)
  count as one, acceptable or not.
* *Handlers' replies*: status codes, headers, cookies, pages and address
  resolution keep no state; only the close handler's answer is modelled.  The
  order in which handlers call the stores is in the modules of the stores.
* *Tokens, PIN hashes, QR codes, logging, templates*: pure functions.  A token
  is a model value, a PIN right or wrong.
* *The health check's probe files* (`storage.go:79-92`): one that is killed in
  between leaves its probe behind, in the data directory for good.
* *Durability below the process*: a crash of the process loses no written file;
  a crash of the machine is not considered.

## 7. What is left

1. Composition of `RoomLifecycle` with `Upload` and `Shares`: the status check of
   a handler and the life of what it admitted, with the clock of the room.
2. `ClientPage` with three chains for liveness.
3. How far concurrent uploads can overshoot at most, as a theorem: the runs and
   `OvershootsAreStale` say when they do, not by how much.
