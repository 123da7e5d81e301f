CONSTANTS
    None = None
    Creators = {c1}
    Starters = {s1, s2}
    Deleters = {}
    Killers = {k1}
    Forced = {}
    Crashable = {c1, s1}
    SerialReuse = TRUE
SPECIFICATION Spec
\* Commands are issued at most once: the system comes to rest.
CHECK_DEADLOCK FALSE
INVARIANTS
    OneStartWins
    StartReturnsAfterExec
    LockStep
PROPERTIES
    CreateReturns
    StartReturnsWhenInitDies
    NoOrphan
