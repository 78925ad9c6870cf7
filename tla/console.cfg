SPECIFICATION PanelsSpec
CONSTANTS
    Sections = {"providers", "limits", "themes", "tokens"}
    None = None
    Default = t0
    Themes = {t1}
    Tokens = {k1, k2}
    MaxCalls = 2
    MaxEdits = 1
INVARIANTS PanelsTypeOK PanelIsServer
PROPERTIES SaveChangesOnlyEdits PanelComesBack
