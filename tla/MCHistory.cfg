SPECIFICATION Spec
CONSTANTS
    SIZE = 2
    BYTE = 8
    Record = {r1, r2, r3}
    NoRecord = NoRecord
    Blank = Blank
    Torn = Torn
SYMMETRY RecordSymmetry
INVARIANTS
    SizeBounded
    ReadableWhole
PROPERTIES
    DropsOnlyWhenFull
    ImplementsLog
CHECK_DEADLOCK TRUE
