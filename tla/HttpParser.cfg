CONSTANTS
    Letters <- MCLetters
    Streams <- MCStreams
    IntMax = 20
SPECIFICATION Spec
INVARIANTS
    TypeOK
    NoExtraAnswer
    Exact
    HeadersTrue
    CrashesOnlyOnBadLength
    NothingPending
CHECK_DEADLOCK FALSE
