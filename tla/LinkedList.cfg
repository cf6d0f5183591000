CONSTANTS
    Node = {1, 2, 3, 4}
    Elem = {1, 2}
SPECIFICATION Spec
CHECK_DEADLOCK FALSE
INVARIANT ClearFreesAll
