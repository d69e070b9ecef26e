\* Two fair uploads, interleaved with each other, room deletion and crashes.
SPECIFICATION FairSpec
CONSTANTS
    ResIds = {u1, u2}
    Rooms = {r1, r2}
    MaxFileSize = 3
    MaxRoomSize = 4
    MaxFiles = 1
    MaxTotalStorage = 4
    InitialChunk = 1
    GrowthChunk = 2
    BufSize = 2
    DeclaredSizes <- MCDeclaredSizes
CHECK_DEADLOCK FALSE
INVARIANTS
    FilesAndRowsAgree
    BytesCovered
    ReservationsInFlight
    CountersExact
    ReservedWithinLimits
PROPERTIES
    OvershootOnlyWhenStale
    NoNeedlessRefusal
    ImplementsShelf
    UploadsEnd
    DeletedRoomLeavesNothing
