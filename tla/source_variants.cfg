SPECIFICATION Spec
CONSTANTS
    Plans <- MCPlans
    Wordings = {"cross_domain_fragment_focus", "document_focus", "core_focus", "policy_focus",
                "industry_cjk_gloss", "industry_focus", "academic_source_hint",
                "academic_lookup"}
    TickLength = 10
    UnwindMax = 1
INVARIANTS
    EndsAsWaveAssumes
    HitsSurvive
    NothingFoundIsThorough
    RetryFollows
PROPERTY BacksOff
CHECK_DEADLOCK FALSE
