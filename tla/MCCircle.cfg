SPECIFICATION FairSpec
CONSTANTS
    OLED_UPDATE = 3
    AUTO_HOLD_POWERSAVE = 4
    AUTO_HOLD_REALTIME = 5
    POWERSAVE_PERIOD = 6
    AUTO_POWER_OFF = 7
    PRE_POWER_OFF = 5
    RECORDS = 1
    Keys <- AllKeys
    Commands <- AllCommands
INVARIANTS
    LaserLimited
    HistoryShowsRecord
    MessageStaysLit
    GroundRenewed
PROPERTIES
    PowerSaveMeasures
