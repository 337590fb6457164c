SPECIFICATION Spec
CONSTANTS
    UeCount = 2
    WorkerCount = 2
    UpfThreadCount = 1
    IdSpace = 8
    MaxCycles = 2
    MaxTimeouts = 0
    MaxLosses = 0
    MayCrash = FALSE
INVARIANTS
    TypeOK
    NoProcessExits
    SessionSound
    DownlinkIsolation
    AnswerMatches
    NoResidue
    KeyAgreement
    ReleaseAfterModify
    BearerInv
    RecordInv
PROPERTIES
    IdNeverReused
    ImplementsSession
