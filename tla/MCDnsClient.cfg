CONSTANTS
    a = a
    b = b
    Asks <- OneOrBoth
    Servers = {2}
    Calls = 2
    Hosts = {a, b}
    Timeouts = {1}
    Addrs = {d1, d2}
    Slots = 1
    PoolSize = 2
    PipeSize = 1
    ToArray <- One
    TimeoutMin = 2
    TimeoutMax = 2
    MaxAsked = 1
    None = None
SPECIFICATION FairSpec
CHECK_DEADLOCK FALSE
INVARIANTS
    TypeOK InOnePlace AnswersFindTheirCaller SomebodyListens
PROPERTY
    EveryCallEnds
