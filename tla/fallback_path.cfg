SPECIFICATION FairSpec
CONSTANTS
    Plans <- MCPlans
    Labels = {"single", "mixed"}
    MCMarkers = {"filing", "generic", "impact", "europePmc"}
    AstaTimeout = 1
    UnwindMax = 1
INVARIANTS
    WithinBudget
    HitsKept
    GapsExplain
    ReasonHonest
    AskedOnce
    AstaIsLastResort
PROPERTIES
    SettlesByContract
    Terminates
CHECK_DEADLOCK FALSE
