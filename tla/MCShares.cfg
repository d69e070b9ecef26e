\* Two overlapping requests for shares in a room that ends.
SPECIFICATION Spec
CONSTANTS
    Creators = {c1, c2}
    ShareIds = {s1, s2, s3}
    Files = {f1, f2}
    MaxShares = 1
    MaxShareTtl = 4
    Ttls <- MCTtls
    RoomExpires = 4
    Second = 2
    MaxTime = 4
SYMMETRY Symmetry
CHECK_DEADLOCK FALSE
INVARIANTS
    OvershootBounded
    SharesDieWithRoom
PROPERTIES
    UsableSharesKept
