SPECIFICATION FairSpec
CONSTANTS
    Byte = {zero, P, W, M, L, R}
    Zero = zero
    COMMAND_POWERON = P
    COMMAND_SWITCH = W
    PM25_CALIBRATION_CODE = M
    PM25_UNLOCK_CODE = L
    PM25_ERASE_CODE = R
    Digits = {wiped, nought, d1}
    Wiped = wiped
    Nought = nought
    Identity = Identity
    STEADY = 2
    STEADY_CAP = 2
PROPERTIES
    EachChangeUnlocked
    PendingResolved
