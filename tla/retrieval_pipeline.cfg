SPECIFICATION PipelineSpec
CONSTANTS
    Outcomes <- MCOutcomes
    FollowedMarkers <- MCFollowedMarkers
    MaxSlices = 2
    TokenBudget = 4
    TopK = 3
    SupplementalMin = 2
INVARIANTS
    PlanSound
    WorksAreTold
    SupplementKept
    UnclippedIsWhole
    RolesFollowPlan
PROPERTY LoopsEnd
