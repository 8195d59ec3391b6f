CONSTANTS
    Names <- MCNames
    MainDict <- LimitDict
    AnnoDict <- MCAnnoDict
    Blocks <- LimitBlocks
    Tuples <- LimitTuples
    U32 = 24
    MaxOperations = 3
    FailingCallbacks <- CallbackNames
SPECIFICATION FairSpec
INVARIANTS
    LimitOnlyForLongStreams
PROPERTIES
    Termination
CHECK_DEADLOCK FALSE
