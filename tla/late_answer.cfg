SPECIFICATION Spec
CONSTANTS
    UeCount = 2
    WorkerCount = 1
    UpfThreadCount = 1
    IdSpace = 8
    MaxCycles = 1
    MaxTimeouts = 1
    MaxLosses = 0
    MayCrash = FALSE
INVARIANT
    AnswerMatches
