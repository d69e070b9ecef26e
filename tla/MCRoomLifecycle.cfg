\* One room, two concurrent requests and the sweep.
SPECIFICATION Spec
CONSTANTS
    Rooms = {r1}
    Requests = {q1, q2}
    Second = 2
    Ttls <- MCTtls
    CloseDelay = 3
    Retention = 3
    Batch = 1
    MaxTime = 8
CHECK_DEADLOCK FALSE
INVARIANTS
    CloseAnswersTrue
PROPERTIES
    StatusForward
    CountdownHonoured
    GrantsWithinLifetime
    OnlyFinishedRoomsDeleted
