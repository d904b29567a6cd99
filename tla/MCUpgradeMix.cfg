CONSTANTS
    Types = {"soft"}
    MixMode = TRUE
    AutoTimer = FALSE
    Budget = 2
SPECIFICATION Spec
CHECK_DEADLOCK FALSE
INVARIANTS
    MixModeSelects
