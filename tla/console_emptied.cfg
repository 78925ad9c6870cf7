SPECIFICATION PanelsSpec
CONSTANTS
    Sections = {"themes"}
    None = None
    Default = t0
    Themes = {t1}
    Tokens = {k1}
    MaxCalls = 1
    MaxEdits = 1
PROPERTY EmptiedIsGone
