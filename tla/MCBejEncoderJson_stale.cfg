CONSTANTS
    Names <- MCNames
    MainDict <- MCMainDict
    AnnoDict <- MCAnnoDict
    AnnotationNames <- MCAnnotationNames
    Nodes <- SessionNodes
    NULL = NULL
    Trees <- SessionTrees
    Calls <- SessionCalls
    Garbage <- SessionGarbage
    IndexRange = 65536
    StackMayFail = FALSE
    OutputErrors <- NoErrors
    Values <- SessionValues
    MaxEncodes = 3
SPECIFICATION JsonSpec
INVARIANTS
    SameObjectEncodesAgain
CHECK_DEADLOCK FALSE
