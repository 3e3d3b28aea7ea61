SPECIFICATION SpecPulse
CONSTANTS
    SAMPLENUM = 8
    Level = {0, 2, 4, 7, 10}
    Ground = 2
    STEEP = 2
    DROP = 7
    xmin <- MCxmin
    xmax <- MCxmax
    SCALE = 4
    TMP_MAX = 30
    Light <- MCLight
    LIGHT_SHIFT = 1
INVARIANTS
    RisesCounted
    EnergyBounded
