CONSTANTS
    NumTimers = 3
    NumFds = 1
    Worker = {w1, w2}
    MaxUsers = 1
    MaxRequests = 0
    Signal = {"TERM"}
    MaxPieces = 1
    MaxTime = 1
SPECIFICATION Spec
INVARIANTS
    TypeOK
    OneAtATime
    TimersSound
    EveryoneTimed
CHECK_DEADLOCK FALSE
