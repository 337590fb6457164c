SPECIFICATION HoLiveSpec
CONSTANTS
    UeCount = 1
    WorkerCount = 2
    UpfThreadCount = 1
    IdSpace = 8
    MaxCycles = 2
    MaxTimeouts = 0
    MaxLosses = 0
    MayCrash = TRUE
    N4PortsMatch = TRUE
    MaxHoTimeouts = 1
INVARIANTS
    HoTypeOK
    HandoverKeepsSession
    IndirectTunnelLeads
    ToldWhenSwitched
    TornDownIsGone
PROPERTIES
    HandoverHandled
    DetachAnswered
    LostAmfNoticed
