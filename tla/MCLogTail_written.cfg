SPECIFICATION Spec
CONSTANTS
    Existing <- Empty
    Chunks <- Whole
    MaxLen = 4
CHECK_DEADLOCK FALSE
PROPERTY
    WrittenIsSent
