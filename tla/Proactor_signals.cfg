CONSTANTS
    NumTimers = 1
    NumFds = 1
    Worker = {w1}
    MaxUsers = 1
    MaxRequests = 0
    Signal = {"TERM"}
    MaxPieces = 1
    MaxTime = 0
SPECIFICATION FairSpec
PROPERTY
    SignalsHandled
CHECK_DEADLOCK FALSE
