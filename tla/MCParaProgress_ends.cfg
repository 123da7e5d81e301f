SPECIFICATION Spec
CONSTANTS
    N = 2
    Options <- AllOptions
CHECK_DEADLOCK FALSE
INVARIANTS
    SerialInOrder
PROPERTIES
    NilMeansReported
    FailureReported
    Ends
