CONSTANTS
    Pid = {p1, p2}
    NoPid = NoPid
    USER_LIMIT = 2
    MaxForks = 3
    MaxMessages = 2
    Fd = {1, 2, 3}
    T_USER_LIMIT = 3
    MaxActs = 4
SPECIFICATION MCSpec
CHECK_DEADLOCK FALSE
INVARIANTS
    TablesAgree
    TurnsComplete
    OwnText
PROPERTIES
    StopsClean
