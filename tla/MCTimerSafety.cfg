SPECIFICATION FairSpec
CONSTANTS
    e1 = e1
    e2 = e2
    h1 = h1
    b1 = b1
    Events = {e1, e2, h1, b1}
    Delays = {1, 7}
    Handler <- AllEvents
    Period = 2
    Rounding = 1
    CounterMod = 6
    TimevalMax = 1000
    Horizon = 2
    Latency = 1
INVARIANTS
    QueueConsistent NoEventStranded TimerInv LoneEventOnTime
PROPERTIES
    EventRuns
CHECK_DEADLOCK FALSE
