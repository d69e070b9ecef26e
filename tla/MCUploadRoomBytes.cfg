\* Two concurrent uploads take a room past its byte limit.
SPECIFICATION Spec
CONSTANTS
    ResIds = {u1, u2}
    Rooms = {r1}
    MaxFileSize = 3
    MaxRoomSize = 4
    MaxFiles = 0
    MaxTotalStorage = 0
    InitialChunk = 1
    GrowthChunk = 2
    BufSize = 2
    DeclaredSizes <- MCDeclaredSizes
CHECK_DEADLOCK FALSE
INVARIANT RoomBytesWithinLimit
