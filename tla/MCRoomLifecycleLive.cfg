\* Two rooms, one request, a sweep of one room a pass.
SPECIFICATION FairSpec
CONSTANTS
    Rooms = {r1, r2}
    Requests = {q1}
    Second = 2
    Ttls <- MCOneTtl
    CloseDelay = 2
    Retention = 0
    Batch = 1
    MaxTime = 4
CHECK_DEADLOCK FALSE
PROPERTIES
    ExpiredRoomsDeleted
    CountdownsEnd
