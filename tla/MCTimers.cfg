CONSTANTS
    N = 3
    TI = 1
    Timer = {t1, t2, t3, t4}
    NULL = NULL
    Timeouts <- MCTimeouts
SPECIFICATION MCSpec
SYMMETRY Symmetry
INVARIANT ContainersSound
PROPERTY ContainersFire
