CONSTANTS
    Byte = 8
    IntBytes = 4
    Numbers <- SmallReals
    BEJ_REAL_PRECISION = 3
    FractDigits = 4
    MaxZeros = 3
SPECIFICATION Spec
INVARIANTS
    WholeIncludesSign
CHECK_DEADLOCK FALSE
