SPECIFICATION SpecDisplay
CONSTANTS
    STEPS = 8
    notes <- MC_notes
    Sizes <- MC_Sizes
    div_for_time <- MC_div_for_time
    Inputs <- MC_Inputs
INVARIANTS
    LevelFollows
    NothingLeftOver
    NumbersReadable
