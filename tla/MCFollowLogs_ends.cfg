SPECIFICATION FollowSpec
CONSTANTS
    Preamble = 1
    MaxLines = 3
CHECK_DEADLOCK FALSE
INVARIANTS
    PanicIsReported
PROPERTY
    FollowEnds
