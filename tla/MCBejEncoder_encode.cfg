CONSTANTS
    Names <- MCNames
    MainDict <- MCMainDict
    AnnoDict <- MCAnnoDict
    AnnotationNames <- MCAnnotationNames
    Nodes <- MCNodes
    NULL = NULL
    Trees <- MCTrees
    Calls <- MCCalls
    Garbage <- MCGarbage
    IndexRange = 2
    StackMayFail = TRUE
    OutputErrors <- MCOutputErrors
SPECIFICATION FairSpec
INVARIANTS
    TypeOK
    EncodingIsExact
    FirstErrorIsReturned
    OutputIsPrefix
PROPERTIES
    Termination
CHECK_DEADLOCK FALSE
