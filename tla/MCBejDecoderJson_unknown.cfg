CONSTANTS
    Names <- MCNames
    MainDict <- MCMainDict
    AnnoDict <- MCAnnoDict
    Blocks <- UnknownBlocks
    Tuples <- UnknownTuples
    U32 = 64
    MaxOperations = 8
    FailingCallbacks <- JsonFailingCallbacks
SPECIFICATION JsonSpec
INVARIANTS
    SuccessIsJson
