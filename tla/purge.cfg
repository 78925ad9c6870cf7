SPECIFICATION Spec
CONSTANTS
    None = None
    Rows = {1}
    DocIds = {d1, d2}
    Urls = {u1}
    Contents = {c1, c2}
    Bundled = {}
    NearPairs = {}
    Intakes = {bot}
    Recoverers = {}
    Retriers = {manual}
    Purgers = {operator}
    MaxAttempts = 2
    RecoverLimit = 1
    AutoExpand = TRUE
    AttachmentsFail = TRUE
    Crashable = {bot}
CHECK_DEADLOCK FALSE
PROPERTY StoreRespectsTombstones
SYMMETRY Symmetry
