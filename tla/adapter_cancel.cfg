SPECIFICATION Spec
CONSTANTS
    e1 = e1
    e2 = e2
    c1 = c1
    c2 = c2
    Engines <- MCEngines
    Candidates <- MCCandidates
    Calls = {"news_rss"}
INVARIANT CancelledOnlyByCaller
CHECK_DEADLOCK FALSE
