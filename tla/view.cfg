SPECIFICATION Spec
CONSTANTS
    t1 = t1  t2 = t2  f1 = f1  f2 = f2  f3 = f3
    a1 = a1  a2 = a2  a3 = a3  Nobody = Nobody
    u1 = "u1"
    Themes = {t1, t2}
    Items = {1, 2, 3}
    Posts = {1, 2, 3, 4}
    Pubs = {1, 2}
    Feeds = {f1, f2, f3}
    FeedOf <- FeedOfItem
    Filters = {"text"}
    Text = "text"
    Passes <- FilterPasses
    Accounts = {a1, a2, a3}
    Main <- MainOf
    ItemTheme <- ThemeOfItem
    FeedTheme <- ThemeOfFeed
    AccountTheme <- ThemeOfAccount
    Columns <- ColumnsOf
    Front <- FrontOf
    AccountOf <- OfAccount
    Column <- InColumn
    Reply <- ReplyTo
    Sent = {1}
    Users = {"u1"}
    Author <- AuthorOf
INVARIANTS ShownIsOwn TimelineExists SearchCanBeLeft LinkShowsTarget
