CONSTANTS
    Worker = {w1, w2}
    Producer = {p1, p2}
    Nobody = Nobody
    m_max_requests = 1
    NullRequests = {3}
    MaxAppends = 4
    MAX = 10
SPECIFICATION MCSpec
CHECK_DEADLOCK FALSE
INVARIANTS
    ExactlyOnce
    NoLostWakeup
    ConsumesInOrder
PROPERTY ThreadsEnd
