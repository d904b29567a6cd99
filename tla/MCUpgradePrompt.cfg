CONSTANTS
    Types = {"soft"}
    MixMode = FALSE
    AutoTimer = TRUE
    Budget = 2
SPECIFICATION Spec
CHECK_DEADLOCK FALSE
PROPERTIES
    PromptTimesOut
