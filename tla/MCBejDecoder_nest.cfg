CONSTANTS
    Names <- MCNames
    MainDict <- MCMainDict
    AnnoDict <- MCAnnoDict
    Blocks <- NestBlocks
    Tuples <- NestTuples
    U32 = 64
    MaxOperations = 8
    FailingCallbacks <- CallbackNames
SPECIFICATION Spec
INVARIANTS
    TypeOK
    NamesOnlyInSets
    ContextIsInnermost
    AcceptedIsNested
    SingleRoot
PROPERTIES
    Progress
    ImplementsNesting
CHECK_DEADLOCK FALSE
