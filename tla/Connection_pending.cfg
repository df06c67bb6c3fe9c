CONSTANTS
    Conn = {a}
    NumLoops = 1
    NumFds = 1
    None = None
SPECIFICATION FairSpec
PROPERTIES
    PendingSent
CHECK_DEADLOCK FALSE
