CONSTANTS
    Letters <- MCLetters
    Streams <- MCStreams
    IntMax = 20
SPECIFICATION Spec
INVARIANTS
    Pipelines
CHECK_DEADLOCK FALSE
