CONSTANTS
    Conn = {a, b}
    NumLoops = 1
    NumFds = 2
    None = None
SYMMETRY Symmetry
SPECIFICATION Spec
INVARIANTS
    TypeOK
    OneTimer
    NothingLingers
    HandlersAlive
    Watched
    InterestMatches
PROPERTIES
    NoTruncation
CHECK_DEADLOCK FALSE
