\* Bursts, refusals, pauses and evictions of three clients.
SPECIFICATION Spec
CONSTANTS
    Clients = {i1, i2, i3}
    Rate = 1
    Unit = 3
    Burst = 6
    Second = 2
    MaxClients = 1
    StaleAfter = 6
    MaxTime = 10
SYMMETRY Symmetry
CHECK_DEADLOCK FALSE
INVARIANTS
    LimiterTypeOK
PROPERTIES
    RetryAfterHonoured
    ImplementsTokenBucket
