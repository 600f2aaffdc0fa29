SPECIFICATION FairSpec
CONSTANTS
    Requests = {r1, r2}
    Keys = {k1, k2}
    Records = {e1}
    RequestDeadline = 2
    SynthesisDeadline = 1
    Grace = 1
    MaxProbes = 1
    ProbeTimeout = 1
    MinRemaining = 1
    MinSynthesis = 0
    DesiredItems = 2
    Overrun = 0
    LastArrival = 1
INVARIANTS
    CacheIsDelivered
PROPERTIES
    EveryRequestEnds
CHECK_DEADLOCK FALSE
