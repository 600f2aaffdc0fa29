SPECIFICATION FairSpec
CONSTANTS
    Plans <- BothPlans
    SingleTick = 30
    MixedTick = 10
    N = 3
    ConcurrencyCap = 2
    SourceTimeout = 3
    WaveTimeout = 4
    MixedWaveTimeout = 3
    UnwindMax = 1
    EarlyStop = {1}
    AstaTimeout = 1
INVARIANTS
    PermitAccounting
    HardBudgets
    NoOrphans
    FinishedWorkKept
    WholeBudget
    ReportsTrue
PROPERTIES
    NoCallAfterCut
    RunEnds
CHECK_DEADLOCK FALSE
