SPECIFICATION FairSpec
CONSTANTS
    SIZE_FOR_UART_RX = 2
    Byte = {zero, S, E, M, other}
    Zero = zero
    START_CODE = S
    END_CODE = E
    PM25_CALIBRATION_CODE = M
PROPERTIES
    ReturnsTakenCommand
CHECK_DEADLOCK TRUE
