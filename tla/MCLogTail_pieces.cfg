SPECIFICATION Spec
CONSTANTS
    Existing <- Begun
    Chunks <- Pieces
    MaxLen = 6
CHECK_DEADLOCK FALSE
INVARIANTS
    LinesIntact
PROPERTY
    ExistingIsSent
