SPECIFICATION Spec
CONSTANTS
    a = a
    b = b
    c = c
    None = None
    Items <- ItemSet
    Programs <- AllPrograms
    getNextReadyChildren <- NextReady
CHECK_DEADLOCK FALSE
INVARIANTS
    OneAtATime
PROPERTIES
    ChildrenFirst
    SerialNilMeansDone
    FailureReported
    Ends
