SPECIFICATION SpecAge
CONSTANTS
    LOW = 16
    HIGH = 16
    PERIOD = 3
    Cuts = {4, 16, 64}
    AGE_BOUND = 30
    div_for_time <- MC_div_for_time
INVARIANTS
    ReadsTrueTime
    ResumeClose
    AgeHonest
PROPERTIES
    CutWriteClose
