SPECIFICATION SpecStore
CONSTANTS
    dx <- MC_dx
    dy <- MC_dy
    WORD = 4096
    MOST = 99
    HALFWAY = 50
    Sensed <- MC_Sensed
    Reading <- MC_Reading
    UINT32_MAX = UINT32_MAX
    Torn = Torn
    Uncorrected = Uncorrected
INVARIANTS
    PairOfOneCalibration
    CalibratedReadsMaster
    ShownMonotone
CHECK_DEADLOCK TRUE
