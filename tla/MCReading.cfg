SPECIFICATION FairReading
CONSTANTS
    AVG_BUFFER_SIZE = 2
    HALF = 16
    SLOWNESS = 80
    MVALUE = 4
    BITS = 9
    Power <- MC_Power
    Samples = {0, 3, 40}
    Lights = {0, 10}
    dx <- MC_dx
    dy <- MC_dy
    WORD = 256
    MOST = 40
INVARIANTS
    AverageOfTaken
    ReadingTrueOrTop
PROPERTIES
    StepsTowards
    ComesDown
