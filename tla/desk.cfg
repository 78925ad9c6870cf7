SPECIFICATION FairSpec
CONSTANTS
    Jobs = {own, other}
    OwnJob = own
    AwayJobs = {other}
    LoadsFail = TRUE
    MaxReqs = 1
    MaxLoads = 1
INVARIANTS
    PollingSurvives
    StreamAccounted
    BlankOnlyWhileRegenerating
PROPERTIES
    DeskSettles
