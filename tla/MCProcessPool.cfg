CONSTANTS
    Sizes <- MCSizes
    ByteValues = 4
    MaxConns <- MCConns
    MaxCrashes = 1
SPECIFICATION FairSpec
CHECK_DEADLOCK FALSE
INVARIANTS
    TableAgrees
    WaitsOnlyIfMissed
PROPERTIES
    Balanced
    TermStops
