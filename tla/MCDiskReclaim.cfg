\* Ages above the longest upload pause: the sweep takes leftovers, and only them.
SPECIFICATION FairSpec
CONSTANTS
    Files = {f1, f2}
    NoFile = none
    IdleTimeout = 2
    FinishTime = 1
    StagingMaxAge = 3
    OrphanGrace = 3
    MaxTime = 6
    MaxCrashes = 1
CHECK_DEADLOCK FALSE
INVARIANTS
    ListedFilesExist
    ActiveStagingKept
PROPERTIES
    OrphansReclaimed
