SPECIFICATION Spec
CONSTANTS
    Plans <- OnlySingle
    SingleTick = 40
    MixedTick = 10
    N = 3
    ConcurrencyCap = 3
    SourceTimeout = 3
    WaveTimeout = 3
    MixedWaveTimeout = 3
    UnwindMax = 1
    EarlyStop = {1}
    AstaTimeout = 1
INVARIANT EarlyStopIsSuccess
CHECK_DEADLOCK FALSE
