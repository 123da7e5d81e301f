SPECIFICATION FollowSpec
CONSTANTS
    Preamble = 1
    MaxLines = 1
CHECK_DEADLOCK FALSE
PROPERTY
    ShutdownIsRemoved
