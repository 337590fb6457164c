SPECIFICATION LiveSpec
CONSTANTS
    UeCount = 2
    WorkerCount = 1
    UpfThreadCount = 1
    IdSpace = 8
    MaxCycles = 2
    MaxTimeouts = 0
    MaxLosses = 0
    MayCrash = FALSE
PROPERTIES
    AttachCompletes
    DetachCompletes
    EventuallyClean
