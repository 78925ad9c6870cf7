SPECIFICATION FairSpec
CONSTANTS
    None = None
    Rows = {1, 2}
    DocIds = {d1, d2}
    Urls = {u1, u2}
    Contents = {c1, c2, c3}
    Bundled <- OneBundles
    NearPairs <- OneNear
    Intakes = {bot}
    Recoverers = {loop}
    Retriers = {}
    Purgers = {}
    MaxAttempts = 2
    RecoverLimit = 1
    AutoExpand = TRUE
    AttachmentsFail = TRUE
    Crashable = {}
CHECK_DEADLOCK FALSE
INVARIANTS EveryDocumentAccounted ExhaustedIsFailed
PROPERTY KeepsFairRetryPolicy
