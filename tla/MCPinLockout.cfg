\* Overlapping right and wrong attempts, unlocks, the end of the room, crashes.
SPECIFICATION Spec
CONSTANTS
    Requests = {q1, q2}
    Threshold = 2
    Cooldowns <- MCCooldowns
    Second = 2
    Lifetime = 6
    MaxAttempts = 4
    MaxTime = 8
SYMMETRY Symmetry
CHECK_DEADLOCK FALSE
INVARIANTS
    AttemptsCounted
    SessionsEarnedAndKept
PROPERTIES
    LockHolds
    FailuresSpaced
    AcceptedPinAdmits
