CONSTANTS
    Byte = 8
    IntBytes = 4
    Numbers <- MCNumbers
    BEJ_REAL_PRECISION = 3
    FractDigits = 4
    MaxZeros = 3
    Names <- MCNames
    MainDict <- MCNoEntries
    AnnoDict <- MCNoEntries
    Tables <- MCTables
    Keys <- MCKeys
    Elsewhere <- MCElsewhere
    OffsetRange = 64
    MaxLength = 7
SPECIFICATION PrimitivesSpec
INVARIANTS
    TypeOK
    SizeIsExact
    IntegersSurvive
    RealsSurvive
    LookupIsFirstMatch
CHECK_DEADLOCK FALSE
