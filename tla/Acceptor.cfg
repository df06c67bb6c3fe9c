CONSTANTS
    Client = {a, b, c, d}
    NumThreads = 2
    NumFds = 4
    MaxFds = 3
SPECIFICATION FairSpec
INVARIANTS
    TypeOK
    LoopsPublished
    ListenerHears
    DescriptorsAccounted
    Balanced
PROPERTIES
    EveryPeerAnswered
CHECK_DEADLOCK FALSE
