CONSTANTS
    BUF_SIZE = 2
    MaxBytes = 3
    Fd = {1, 2, 3, 4, 5}
    Conn = {c1, c2}
    NULL = NULL
SPECIFICATION MCSpec
CHECK_DEADLOCK FALSE
INVARIANTS
    AnswerComplete
    PoolsSound
PROPERTIES
    ImplementsRelay
    PassedOn
