CONSTANTS
    FD = {f1, f2}
    Timer = {t1, t2}
    NULL = NULL
    TIMESLOT = 1
    MaxData = 2
    WheelTimer = {w1, w2}
    N = 3
    TI = 1
    Timeouts <- MCTimeouts
SPECIFICATION MCSpec
CHECK_DEADLOCK FALSE
INVARIANTS
    TimersMatchConnections
    NoStaleEvent
PROPERTIES
    WheelServes
    IdleIsClosed
