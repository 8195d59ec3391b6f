CONSTANTS
    Names <- MCNames
    MainDict <- LimitDict
    AnnoDict <- MCAnnoDict
    Blocks <- LimitBlocks
    Tuples <- LimitTuples
    U32 = 64
    MaxOperations = 3
    FailingCallbacks <- CallbackNames
SPECIFICATION Spec
INVARIANTS
    CallbackErrorIsReturned
CHECK_DEADLOCK FALSE
