SPECIFICATION MCSpec
CHECK_DEADLOCK FALSE
INVARIANTS
    RedBlackTree
    ImplementsSet
    ComputesReference
    CutAnywhere
    AcceptsGrammar
    AnswerFits
PROPERTIES
    LoopFound
