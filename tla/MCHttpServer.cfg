CONSTANTS
    Fd = {1, 2}
    Worker = {w1, w2}
    Main = Main
    MAX_FD = 3
    m_max_requests = 0
    Unanswerable = TRUE
    MaxAccepts = 2
SPECIFICATION FairSpec
CHECK_DEADLOCK FALSE
INVARIANTS
    OneHolder
    NoneForgotten
    CountExact
PROPERTY Served
