CONSTANTS
    Names <- MCNames
    MainDict <- FamiliesDict
    AnnoDict <- MCAnnoDict
    Blocks <- MCBlocks
    Tuples = {}
    U32 = 65536
    MaxOperations = 50
    FailingCallbacks = {}
    NULL = NULL
    Nodes = {root, n1, n2, n3, n4}
    First = root
    Trees = {}
    Calls <- MCCalls
    StackMayFail = FALSE
    OutputErrors = {}
    StringBytes = 300
    AnnotationNames <- MCAnnotationNames
    MainTypes <- FamiliesTypes
    AnnoTypes <- MCAnnoTypes
    Garbage <- MCGarbage
    IndexRange = 65536
SPECIFICATION RoundTripSpec
INVARIANTS
    AcceptedIsSame
SYMMETRY Interchangeable
CHECK_DEADLOCK FALSE
