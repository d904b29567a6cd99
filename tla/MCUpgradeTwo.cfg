CONSTANTS
    Types = {"soft", "tmpl"}
    MixMode = FALSE
    AutoTimer = FALSE
    Budget = 2
SPECIFICATION Spec
CHECK_DEADLOCK FALSE
INVARIANTS
    ChecksCanBeRepeated
