SPECIFICATION Spec
CONSTANTS
    r1 = r1
    s1 = s1
    s2 = s2
    t1 = t1
    p1 = p1
    x1 = x1
    None = None
    Runs <- OneRun
    Starts <- TwoStarts
    Stops <- OneStop
    Pauses <- OnePause
    Removes <- OneRemove
    Foreground <- Attended
    AutoRemove <- Attended
    Crashable <- Steering
    Modes = {TRUE, FALSE}
    SerialOnly <- Attended
CHECK_DEADLOCK FALSE
INVARIANTS
    AliveIsNotExited
    RunningIsRecorded
    RemovedLeavesNothing
PROPERTY
    StopMeansGone
