CONSTANTS
    None = None
    Creators = {c1, c2}
    Starters = {s1}
    Deleters = {d1, d2}
    Killers = {}
    Forced = {d2}
    Crashable = {c1, s1}
    SerialReuse = TRUE
SPECIFICATION Spec
\* Commands are issued at most once: the system comes to rest.
CHECK_DEADLOCK FALSE
INVARIANTS
    ReleasedInitIsRecorded
    
    IndInv
PROPERTIES
    
    ImplementsOCI
