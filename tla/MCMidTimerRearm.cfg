CONSTANTS
    f1 = f1
    c1 = c1
    Funcs = {f1}
    Args = {1, 2}
    Clients = {c1}
    PoolSize = 2
    HourClocks = 2
    PipeCap = 1
    Intervals = {1, 2}
    Loops = {0, 1}
    MaxClock = 3
    MaxBusy = 1
    NoKey = NoKey
    NoFunc = NoFunc
SPECIFICATION SpecRearm
CHECK_DEADLOCK FALSE
PROPERTY
    IntervalRespected
