CONSTANTS
    s1 = s1  s2 = s2
    m1 = m1  m2 = m2  m3 = m3
    h1 = h1  h2 = h2
    o1 = o1  r1 = r1
    Loop = Loop
    Senders = {s1}
    Handlers = {h1, h2}
    Whats = {0}
    Args = {0}
    Objs = {o1}
    Runs = {r1}
    Static = {m1}
    Heap = {m2}
    Delays = {0, 1}
    AtFront = AtFront
    MaxTurn = 1
    MaxClock = 2
    Poll = 1
    Null = Null
SPECIFICATION FairSpec
CHECK_DEADLOCK FALSE
INVARIANTS
    OneOwner SenderFifo TargetsAlive
PROPERTIES
    ImplementsDelayQueue DueMessageServed
