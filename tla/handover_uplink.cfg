SPECIFICATION HoSpec
CONSTANTS
    UeCount = 2
    WorkerCount = 1
    UpfThreadCount = 1
    IdSpace = 8
    MaxCycles = 1
    MaxTimeouts = 0
    MaxLosses = 0
    MayCrash = FALSE
    N4PortsMatch = FALSE
    MaxHoTimeouts = 0
INVARIANTS
    TargetHasUplink
CHECK_DEADLOCK FALSE
