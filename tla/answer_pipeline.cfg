SPECIFICATION Spec
CONSTANTS
    Requests = {r1, r2}
    Keys = {k1}
    Records = {e1, e2}
    RequestDeadline = 4
    SynthesisDeadline = 1
    Grace = 1
    MaxProbes = 2
    ProbeTimeout = 1
    MinRemaining = 1
    MinSynthesis = 0
    DesiredItems = 2
    Overrun = 0
    LastArrival = 1
SYMMETRY MCSymmetry
INVARIANTS
    OneDeadline
    AnsweredInTime
    AnswerRestsOnReported
CHECK_DEADLOCK FALSE
