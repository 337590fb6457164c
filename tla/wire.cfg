SPECIFICATION WireLiveSpec
CONSTANTS
    BufSize = 9
    LenWidth = 2
    HmacLen = 2
    BlockLen = 2
    Capacity = 3
    MaxMessages = 3
    Messages <- MCMessages
INVARIANTS
    WireTypeOK
    InStep
PROPERTIES
    ImplementsChannel
    Delivered
    EndNoticed
