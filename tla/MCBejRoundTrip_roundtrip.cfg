CONSTANTS
    Names <- MCNames
    MainDict <- MCMainDict
    AnnoDict <- MCAnnoDict
    Blocks <- MCBlocks
    Tuples = {}
    U32 = 65536
    MaxOperations = 50
    FailingCallbacks = {}
    NULL = NULL
    Nodes = {root, n1, n2, n3, n4}
    First = root
    Trees = {}
    Calls <- MCCalls
    StackMayFail = FALSE
    OutputErrors = {}
    StringBytes = 300
    AnnotationNames <- MCAnnotationNames
    MainTypes <- MCMainTypes
    AnnoTypes <- MCAnnoTypes
    Garbage <- MCGarbage
    IndexRange = 2
SPECIFICATION RoundTripSpec
INVARIANTS
    RoundTrip
    ReadsWhatWasWritten
    TreeIsWellBuilt
SYMMETRY Interchangeable
CHECK_DEADLOCK FALSE
