CONSTANTS
    Types = {"soft"}
    MixMode = FALSE
    AutoTimer = TRUE
    Budget = 3
SPECIFICATION Spec
CHECK_DEADLOCK FALSE
INVARIANTS
    TypeOK NoFault BurnsUndisturbed EndsAreCurrent DownloadsAreWatched SomebodyWorks
