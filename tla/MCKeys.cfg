SPECIFICATION Spec
CONSTANTS
    KEY_CLICK_TIME = 2
    KEY_HOLD_TIME = 4
    KEY_LONG_HOLD_TIME = 6
    KEY_IGNORE_HOLD_TIME = 8
    LAST_CAP = 10
    Pressable <- AnyKey
INVARIANTS
    PowerOnDeliberate
PROPERTIES
    PressTurnsOnce
    OneActPerPress
