SPECIFICATION Spec
CONSTANTS
    Themes = {"t1", "t2"}
    First = "t1"
    Docs = {1, 2}
    Home <- MCHome
    Queries = {"a"}
    Match <- MCMatch
    Bare = {2}
    Views = {"graph", "reader"}
    Flags = {"hidden"}
    Changed = {1}
    MaxCalls = 3
INVARIANTS ListFollowsDocuments FlagsSettle
PROPERTY LastSearchWins
