SPECIFICATION FailSpec
CONSTANTS
    UeCount = 2
    WorkerCount = 1
    UpfThreadCount = 1
    IdSpace = 8
    MaxCycles = 1
    MaxTimeouts = 0
    MaxLosses = 0
    MayCrash = FALSE
    MaxRestFailures = 1
INVARIANTS
    OnlyUpfExits
    DetachGutiMatches
    FailsClosed
    FailureContained
PROPERTIES
    WorkersFreed
CHECK_DEADLOCK FALSE
