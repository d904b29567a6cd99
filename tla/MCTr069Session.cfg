CONSTANTS
    Loads = {"conf", "firm", "own"}
    FileType <- MCFileType
    Config = {"conf"}
    Legible = {"own"}
    Tries = 3
    Budgets <- MCBudgets
SPECIFICATION FairSpec
CHECK_DEADLOCK FALSE
INVARIANTS
    TypeOK WorkIsAtTheHead LoadsSurvive RecordsSurvive NoRebootLoop QuietHasACause
PROPERTIES
    EventsAreHeard LoadsAreReported
