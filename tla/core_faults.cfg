SPECIFICATION Spec
CONSTANTS
    UeCount = 2
    WorkerCount = 1
    UpfThreadCount = 1
    IdSpace = 8
    MaxCycles = 1
    MaxTimeouts = 1
    MaxLosses = 1
    MayCrash = FALSE
INVARIANTS
    AmfBindingSound
    DetachGutiMatches
    UdmAgreesWithUe
    LookupsOwned
    ImsiTravels
PROPERTIES
    ImplementsRegistration
CHECK_DEADLOCK FALSE
