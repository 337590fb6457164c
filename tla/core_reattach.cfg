SPECIFICATION Spec
CONSTANTS
    UeCount = 1
    WorkerCount = 1
    UpfThreadCount = 2
    IdSpace = 8
    MaxCycles = 2
    MaxTimeouts = 2
    MaxLosses = 2
    MayCrash = TRUE
INVARIANTS
    ConvInv
CHECK_DEADLOCK FALSE
