CONSTANTS
    Size = 5
    WaitLock = TRUE
    OneStore = FALSE
    MaxBytes = 14
SPECIFICATION FairSpec
CHECK_DEADLOCK FALSE
INVARIANTS
    ReadsAreTheStream GrantsAreKept
PROPERTIES
    PipeUntilTorn WriterResumes
