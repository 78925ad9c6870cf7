SPECIFICATION ClientSpec
CONSTANTS
    a1 = a1
    a2 = a2
    admin = admin
    friend = friend
    Accts = {a1, a2}
    Seeded = {a1}
    Handles = {admin, friend}
    Domain <- OneServer
    Admin <- AdminOfBoth
    Lists = {reading}
    SeedPosts <- Seed
    MaxPosts = 3
INVARIANTS
    ClientTypeOK
    BoostsCounted
PROPERTIES
    ReadOnlyStaysSilent
CHECK_DEADLOCK FALSE
