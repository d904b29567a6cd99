CONSTANTS
    f1 = f1  f2 = f2
    c1 = c1  c2 = c2
    Funcs = {f1}
    Args = {1, 2}
    Clients = {c1, c2}
    PoolSize = 2
    HourClocks = 2
    PipeCap = 1
    Intervals = {1, 2}
    Loops = {0, 1}
    MaxClock = 2
    MaxBusy = 1
    NoKey = NoKey
    NoFunc = NoFunc
SPECIFICATION FairSpec
CHECK_DEADLOCK FALSE
INVARIANTS
    ListSound NoLostWakeup BoundedLateness BatchFits DeletedNeverTaken
PROPERTY
    DueTimerServed
