CONSTANTS
    Names <- MCNames
    MainDict <- MCMainDict
    AnnoDict <- MCAnnoDict
    Blocks <- JsonBlocks
    Tuples <- JsonTuples
    U32 = 64
    MaxOperations = 8
    FailingCallbacks <- JsonFailingCallbacks
SPECIFICATION JsonSpec
INVARIANTS
    JsonTypeOK
    OutputIsJsonPrefix
    BracketsFollowStack
    AcceptedIsJson
