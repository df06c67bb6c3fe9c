CONSTANTS
    NBuffers = 10
    Buffer <- MCBuffer
    Null = Null
    BufferSize = 3
    MaxBuffers = 3
    FlushInterval = 2
    BootTime = 3
    MaxLines = 9
    MaxTime = 4
SPECIFICATION FairSpec
INVARIANTS
    TypeOK
    AssertsHold
    OneOwner
PROPERTIES
    ImplementsContract
CHECK_DEADLOCK FALSE
