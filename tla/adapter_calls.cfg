SPECIFICATION FairSpec
CONSTANTS
    e1 = e1
    e2 = e2
    c1 = c1
    c2 = c2
    Engines <- MCEngines
    Candidates <- MCCandidates
    Calls <- AllCallNames
INVARIANTS
    NothingLeftRunning
    EmptyIsThorough
    FoundIsKept
PROPERTY CallEnds
CHECK_DEADLOCK FALSE
