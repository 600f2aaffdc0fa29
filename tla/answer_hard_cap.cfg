SPECIFICATION Spec
CONSTANTS
    Requests = {r1}
    Keys = {k1}
    Records = {e1}
    RequestDeadline = 4
    SynthesisDeadline = 2
    Grace = 1
    MaxProbes = 2
    ProbeTimeout = 1
    MinRemaining = 1
    MinSynthesis = 0
    DesiredItems = 2
    Overrun = 3
    LastArrival = 0
INVARIANTS
    WithinHardCap
CHECK_DEADLOCK FALSE
