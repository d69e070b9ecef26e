\* The idle timeout equals the orphan grace, as in the defaults.
SPECIFICATION Spec
CONSTANTS
    Files = {f1}
    NoFile = none
    IdleTimeout = 2
    FinishTime = 1
    StagingMaxAge = 3
    OrphanGrace = 2
    MaxTime = 5
    MaxCrashes = 0
CHECK_DEADLOCK FALSE
INVARIANT ListedFilesExist
