CONSTANTS
    Writer = {u, v}
    MaxQueue = 2
    SplitLines = 4
    MaxLines = 4
    MaxDay = 2
SPECIFICATION FairSpec
INVARIANTS
    TypeOK
    LinesAccounted
    Durable
PROPERTIES
    LostOnlyByRace
    ImplementsQueue
CHECK_DEADLOCK FALSE
