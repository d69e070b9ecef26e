------------------------------ MODULE Settings ------------------------------
(***************************************************************************)
(* What becomes of the operator's settings: LoadFromEnv and Validate of    *)
(* internal/config/config.go, and the rate limiters that New               *)
(* (internal/app/app.go) builds from them.                                 *)
(*                                                                         *)
(* An environment gives every setting a written value, the default where   *)
(* the variable is not set.  A byte size is written with a unit; all other *)
(* numbers are plain, and strconv and time.ParseDuration refuse the ones   *)
(* that do not fit.  The settings that are texts (addresses, paths, URLs,  *)
(* CIDRs, log and cookie modes) count as one: all acceptable or not.       *)
(***************************************************************************)
EXTENDS Integers, Sequences, FiniteSets

CONSTANTS Word,         \* int64 and int go from -Word to Word - 1; 2^63 in the code
          Factor,       \* unit |-> its factor
          Environments  \* the environments an operator may have written

ByteSettings == {"MaxFileSize", "MaxRoomSize", "MaxTotalStorage", "MinFreeSpace"}
NumberSettings ==
    {"MinTTL", "DefaultTTL", "MaxTTL", "DefaultShareTTL", "MaxShareTTL",
     "CleanupInterval", "CleanupBatchSize", "StagingMaxAge", "OrphanGracePeriod",
     "ClosedRoomRetention", "UploadIdleTimeout", "MaxFilesPerRoom",
     "MaxSharesPerRoom", "ShareManagementRateLimit", "ShareAccessRateLimit"}

\* The suffixes envBytes looks for, in its order.
Units == <<"gib", "mib", "kib", "gb", "mb", "kb", "b">>
UnitNames == {Units[i] : i \in DOMAIN Units} \union {"none"}

ASSUME SettingsAssumption ==
    /\ Word \in Nat \ {0}
    /\ Factor \in [UnitNames -> Nat \ {0}] /\ Factor["none"] = 1
    /\ \A e \in Environments :
          /\ \A f \in ByteSettings : e[f].digits \in Int /\ e[f].unit \in UnitNames
          /\ \A f \in NumberSettings : e[f] \in -Word .. Word - 1
          /\ e.texts \in BOOLEAN /\ e.secret \in {"none", "short", "given"}

-----------------------------------------------------------------------------
\* Two's complement: what is left of n in a word.
Wrap(n) == ((n + Word) % (2 * Word)) - Word

\* Every unit ends in itself and in "b".
EndsIn(unit, suffix) == unit # "none" /\ suffix \in {unit, "b"}

\* The suffix that is cut off: the first of the list that matches.
CutUnit(unit) ==
    LET matching == {i \in DOMAIN Units : EndsIn(unit, Units[i])}
    IN  IF matching = {} THEN "none"
        ELSE Units[CHOOSE i \in matching : \A j \in matching : i <= j]

\* What is left must be a number that is not negative and fits ParseInt.
BytesParse(w) == CutUnit(w.unit) = w.unit /\ w.digits \in 0 .. Word - 1

EnvBytes(w) == Wrap(w.digits * Factor[CutUnit(w.unit)])

\* The settings in force under e.
Load(e) ==
    [f \in ByteSettings \union NumberSettings |->
        IF f \in ByteSettings THEN EnvBytes(e[f]) ELSE e[f]]

Validate(c) ==
    /\ 0 < c["MinTTL"] /\ c["MinTTL"] <= c["DefaultTTL"] /\ c["DefaultTTL"] <= c["MaxTTL"]
    /\ 0 < c["DefaultShareTTL"] /\ c["DefaultShareTTL"] <= c["MaxShareTTL"]
    /\ \A f \in {"MaxFileSize", "MaxRoomSize", "MaxTotalStorage", "MaxFilesPerRoom",
                 "CleanupInterval", "CleanupBatchSize", "StagingMaxAge",
                 "OrphanGracePeriod", "UploadIdleTimeout", "MaxSharesPerRoom",
                 "ShareManagementRateLimit", "ShareAccessRateLimit"} : c[f] > 0
    /\ c["MinFreeSpace"] >= 0 /\ c["ClosedRoomRetention"] >= 0

\* LoadFromEnv returns without an error.
Accepted(e) ==
    /\ e.texts /\ e.secret # "short"
    /\ \A f \in ByteSettings : BytesParse(e[f])
    /\ Validate(Load(e))

-----------------------------------------------------------------------------
(***************************************************************************)
(* NewIPRateLimiter, per minute; a limiter without rate limits nothing.    *)
(***************************************************************************)
Disabled == [rate |-> 0, burst |-> 0]

\* Mutant: a burst that divides down to nothing stays nothing.
NewIPRateLimiterNoFloor(rate, burst) ==
    IF rate <= 0 THEN Disabled ELSE [rate |-> rate, burst |-> burst]

NewIPRateLimiter(rate, burst) ==
    IF rate <= 0 THEN Disabled
    ELSE [rate |-> rate,
          burst |-> IF burst > 0 THEN burst
                    ELSE IF rate \div 6 < 5 THEN 5 ELSE rate \div 6]

Limiters(c) ==
    LET manage == c["ShareManagementRateLimit"]
        access == c["ShareAccessRateLimit"]
    IN  [room     |-> NewIPRateLimiter(manage, manage \div 3),
         auth     |-> NewIPRateLimiter(manage, manage \div 3),
         upload   |-> NewIPRateLimiter(Wrap(manage * 2), manage),
         download |-> NewIPRateLimiter(access, access \div 6)]
=============================================================================
