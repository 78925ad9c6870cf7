SPECIFICATION Spec
CONSTANTS
    t1 = t1
    t2 = t2
    Themes = {t1, t2}
    First = t1
    Docs = {1, 2, 3}
    Home <- HomeOf
    Stored = {2, 3}
    MaxSyncs = 2
INVARIANTS
    ThemesStayApart
    SelectedIsAsked
    ReadReachesServer
PROPERTY LoadingEnds
