CONSTANTS
    Conn = {a, b}
    NumLoops = 2
    NumFds = 1
    None = None
SPECIFICATION FairSpec
INVARIANTS
    TablesAgree
PROPERTIES
    RequestsRead
CHECK_DEADLOCK FALSE
