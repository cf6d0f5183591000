CONSTANTS
    MaxUnits = 3
    MaxKeys = 3
    BUFSIZE = 2
SPECIFICATION MCSpec
CHECK_DEADLOCK FALSE
INVARIANTS
    OptionsAgree
    StreamsDecoded
    AnswersMatched
PROPERTY ComesToAnEnd
