\* Two overlapping requests: the limit of active shares is exceeded.
SPECIFICATION Spec
CONSTANTS
    Creators = {c1, c2}
    ShareIds = {s1, s2, s3}
    Files = {f1}
    MaxShares = 1
    MaxShareTtl = 4
    Ttls <- MCTtls
    RoomExpires = 4
    Second = 2
    MaxTime = 3
CHECK_DEADLOCK FALSE
INVARIANT SharesWithinLimit
