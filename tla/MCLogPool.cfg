CONSTANTS
    Size = 12
    OneStore = FALSE
    Header = 1
    Prefix = 1
    Slack = 1
    Texts = {0, 2}
    MaxBlock = 2
    MaxBytes = 26
    MaxArrive = 2
SPECIFICATION FairSpec
CHECK_DEADLOCK FALSE
INVARIANTS
    BlocksAreWhole NobodyForgets
PROPERTY
    BlocksAreRead
