----------------------------- MODULE SyndicationView -----------------------------
(***************************************************************************)
(* What the two tabs of the syndication page show.                         *)
(*                                                                         *)
(* One page holds the inbox of a theme (tab kb) and a client of the        *)
(* accounts connected to it (tab client).  Both can show what other users  *)
(* published, and each leads to the other: from an item to its post, from  *)
(* a post to its item, from either to a publication.  Changing the theme   *)
(* changes the data under both tabs; each theme remembers its tab.  The    *)
(* page is drawn for the new theme only once its database has answered:    *)
(* until then (late) the rows, links and boxes of the theme before are     *)
(* there and do what they do, with the state of the new one.               *)
(*                                                                         *)
(* An item, post or publication is a number, newest first.  Which of them  *)
(* there are is fixed here (KnowledgeInbox and FediClient say how they     *)
(* change).  The read marks, check boxes and article menus are left out,   *)
(* the order of the list, the client's text filter and the settings other  *)
(* than the tab.                                                           *)
(***************************************************************************)
EXTENDS Naturals

CONSTANTS
    Themes,
    Items, Posts, Pubs, \* what there is to read, as numbers
    Feeds, FeedOf,      \* the feed an item came from
    Filters, Text, Passes, \* adaptive, protocol and text filter: the items each lets pass
    Accounts, Main,     \* connected accounts, and the first of each theme
    ItemTheme, FeedTheme, AccountTheme,
    Columns, Front,     \* an account's timelines, and the first of them
    AccountOf, Column, Reply, \* of a post
    Sent,               \* the posts that were sent to the inbox
    Nobody,             \* no account
    Users, Author       \* the users who published, and who published what

None == 0
Nowhere == "nowhere"

\* Timelines that belong to no account, and the results of a search.
VIRTUAL == {"sent", "features", "peers"}
Search == "search"
Manage == "manage"

Names == UNION {Columns[a] : a \in Accounts}

ASSUME ViewAssumption ==
    /\ Items \subseteq Nat \ {None} /\ Posts \subseteq Nat \ {None} /\ Pubs \subseteq Nat \ {None}
    /\ FeedOf \in [Items -> Feeds] /\ Passes \in [Filters -> SUBSET Items]
    /\ Main \in [Themes -> Accounts] /\ \A t \in Themes : AccountTheme[Main[t]] = t
    /\ Nobody \notin Accounts /\ Names \cap (VIRTUAL \cup {Search, Nowhere}) = {}
    /\ ItemTheme \in [Items -> Themes] /\ FeedTheme \in [Feeds -> Themes] /\ AccountTheme \in [Accounts -> Themes]
    /\ Front \in [Accounts -> Names] /\ \A a \in Accounts : Front[a] \in Columns[a] \ {Manage}
    /\ AccountOf \in [Posts -> Accounts] /\ Column \in [Posts -> (Names \ {Manage}) \cup {Nowhere}]
    /\ Reply \in [Posts -> Posts \cup {None}]
    /\ Sent \subseteq Posts /\ Author \in [Pubs -> Users] /\ "all" \notin Users

VARIABLES
    theme, tab,                 \* state
    slots,                      \* the tab each theme's settings remember
    node, filters, item,        \* state.treeSel, its filters, selectedItemId
    acc, tl, prev, post, profile, \* cs
    user, pub,                  \* ps
    panel, drawn, late,         \* the tab and theme the page was last drawn for, and
                                \* whether the theme was changed since
    opened                      \* history: what a link of the last step leads to

page == <<panel, drawn, late>>
inbox == <<node, filters, item>>
setting == <<theme, tab, slots>>
vars == <<setting, inbox, acc, tl, prev, post, profile, user, pub, page, opened>>

Tabs == {"client", "kb"}

Keys == Users \cup {"all"}
All == [kind |-> "virtual", value |-> "all"]
Nodes == {All} \cup [kind : {"feed"}, value : Feeds] \cup [kind : {"peer"}, value : Keys]
Nothing == [kind |-> "nothing", id |-> None]
Things == {Nothing} \cup [kind : {"item"}, id : Items] \cup [kind : {"post"}, id : Posts] \cup [kind : {"pub"}, id : Pubs]

TypeOK ==
    /\ theme \in Themes /\ tab \in Tabs /\ slots \in [Themes -> Tabs]
    /\ node \in Nodes /\ filters \subseteq Filters /\ item \in Items \cup {None}
    /\ acc \in Accounts \cup {Nobody}
    /\ {tl, prev} \subseteq Names \cup VIRTUAL \cup {Search, Nowhere}
    /\ post \in Posts \cup {None} /\ profile \in BOOLEAN
    /\ user \in Keys /\ pub \in Pubs \cup {None} /\ opened \in Things
    /\ panel \in Tabs /\ drawn \in Themes /\ late \in BOOLEAN

-----------------------------------------------------------------------------
(* The inbox                                                               *)

Newest(S) == IF S = {} THEN None ELSE CHOOSE x \in S : \A y \in S : x <= y

Own(t) == {i \in Items : ItemTheme[i] = t}
PostTheme(p) == AccountTheme[AccountOf[p]]

getVisibleItems ==
    IF node.kind = "peer" THEN {}
    ELSE {i \in Own(theme) : /\ node.kind = "feed" => FeedOf[i] = node.value
                             /\ \A f \in filters : i \in Passes[f]}

visible(key) == {q \in Pubs : key \in {"all", Author[q]}}

\* The selected publication, or the first one listed for that user.
selectedPub(key, q) == IF q \in visible(key) THEN q ELSE Newest(visible(key))

-----------------------------------------------------------------------------
(* The client                                                              *)

timelinesOf(a) == Columns[a]

\* Mutant: the timeline is taken as it is.
ensureSelection_Unchecked(a, l) ==
    IF l \in VIRTUAL THEN [acc |-> a, tl |-> l]
    ELSE IF a = Nobody THEN [acc |-> Main[theme'], tl |-> Front[Main[theme']]]
    ELSE [acc |-> a, tl |-> l]

ensureSelection(a, l) ==
    IF l \in VIRTUAL THEN [acc |-> a, tl |-> l]
    ELSE LET known == a # Nobody /\ AccountTheme[a] = theme'
             now == IF known THEN a ELSE Main[theme']
         IN [acc |-> now,
             tl |-> IF known /\ (l = Search \/ l \in timelinesOf(now)) THEN l ELSE Front[now]]

visiblePosts(a, l) ==
    {p \in Posts : /\ PostTheme(p) = theme'
                   /\ IF l = "sent" THEN p \in Sent
                      ELSE AccountOf[p] = a /\ l \in {Search, Column[p]}}

NoList == {"features", Manage}

\* Mutant: the post that is selected is not looked up in this theme.
keptPost_Any(p, a, l) ==
    IF p # None THEN p
    ELSE IF l \in NoList THEN None
    ELSE Newest(visiblePosts(a, l))

\* A post of this theme stays selected, whether the timeline shows it or not.
keptPost(p, a, l) ==
    IF p # None /\ PostTheme(p) = theme' THEN p
    ELSE IF l \in NoList THEN None
    ELSE Newest(visiblePosts(a, l))

\* The client is drawn for account a, timeline l and selected post p.
renderStream(a, l, p) ==
    LET v == ensureSelection(a, l) IN
    /\ acc' = v.acc /\ tl' = v.tl
    /\ post' = IF v.tl = "peers" THEN p ELSE keptPost(p, v.acc, v.tl)

\* The list of publications is drawn, if it is shown, with q selected.
renderPeers(q) ==
    pub' = IF tab' = "client" /\ tl' = "peers" THEN selectedPub(user', q)
           ELSE IF tab' = "kb" /\ node'.kind = "peer" THEN selectedPub(node'.value, q)
           ELSE q

\* The page is drawn: the tab that is shown, for the theme that is shown.
renderAll(a, l, p, q) ==
    /\ IF tab' = "client" THEN renderStream(a, l, p) ELSE acc' = a /\ tl' = l /\ post' = p
    /\ renderPeers(q)
    /\ panel' = tab' /\ drawn' = theme' /\ late' = FALSE

\* A control of theme t can be on the page: t is the theme it was drawn for, or,
\* after a list alone was drawn again, the one that is shown.
OnPage(t) == t = drawn \/ (late /\ t = theme)

-----------------------------------------------------------------------------
(* What the reader of the tab shows                                        *)

readerKb ==
    IF node.kind = "peer" THEN [kind |-> "pub", id |-> pub]
    ELSE IF item \in Own(theme) THEN [kind |-> "item", id |-> item]
    ELSE [kind |-> "item", id |-> Newest(getVisibleItems)]

readerClient ==
    IF tl = "peers" THEN [kind |-> "pub", id |-> pub]
    ELSE IF profile \/ tl \in NoList THEN Nothing
    ELSE [kind |-> "post", id |-> post]

reader == IF tab = "kb" THEN readerKb ELSE readerClient

-----------------------------------------------------------------------------
(* The page                                                                *)

Shows(thing) == opened' = thing

setAppTab(t) ==
    /\ tab' = t
    /\ slots' = [slots EXCEPT ![theme] = t]
    /\ theme' = theme

loadPrefs(t) == slots[t]

firstItem(t) == Newest(Own(t))

\* A filter stays set, and the page stays as it is.
changeTheme(t) ==
    /\ t # theme
    /\ theme' = t /\ tab' = loadPrefs(t) /\ item' = firstItem(t) /\ node' = All
    /\ acc' = Nobody /\ tl' = Nowhere /\ post' = None /\ profile' = FALSE
    /\ late' = TRUE
    /\ Shows(Nothing)
    /\ UNCHANGED <<slots, filters, prev, user, pub, panel, drawn>>

\* The theme's database has answered, or something was clicked that only draws
\* the page again.
Redraw ==
    /\ UNCHANGED <<setting, inbox, prev, profile, user, opened>>
    /\ renderAll(acc, tl, post, pub)

\* The address the page is opened with may name a theme and a tab.
Load(t, b) ==
    /\ theme' = t /\ tab' = b /\ item' = firstItem(t) /\ node' = All /\ filters' = {}
    /\ prev' = Nowhere /\ profile' = FALSE /\ user' = "all"
    /\ Shows(Nothing)
    /\ UNCHANGED slots
    /\ renderAll(Nobody, Nowhere, None, None)

clickTab(t) ==
    /\ setAppTab(t)
    /\ Shows(Nothing)
    /\ UNCHANGED <<inbox, prev, profile, user>>
    /\ renderAll(acc, tl, post, pub)

-----------------------------------------------------------------------------
(* Steps in the inbox                                                      *)

InInbox == panel = "kb" /\ UNCHANGED <<setting, prev, profile, user>>

selectNode(n) ==
    /\ InInbox
    /\ n.kind = "feed" => FeedTheme[n.value] = drawn
    /\ node' = n
    /\ Shows(Nothing)
    /\ UNCHANGED <<filters, item>>
    /\ renderAll(acc, tl, post, pub)

\* The text filter draws the list alone.
setFilter(f) ==
    /\ InInbox
    /\ filters' = IF f \in filters THEN filters \ {f} ELSE filters \cup {f}
    /\ Shows(Nothing)
    /\ UNCHANGED <<node, item>>
    /\ IF f = Text THEN UNCHANGED <<acc, tl, post, page>> /\ renderPeers(pub)
       ELSE renderAll(acc, tl, post, pub)

Passing == {i \in Items : \A f \in filters : i \in Passes[f]}

\* A click on a row, or j and k.  A row of a list that is not drawn again is
\* selected whatever is shown by now.
selectItem(i) ==
    /\ UNCHANGED <<setting, prev, profile, user>>
    /\ \/ tab = "kb" /\ i \in getVisibleItems /\ Shows([kind |-> "item", id |-> i])
       \/ late /\ panel = "kb" /\ i \in Passing /\ OnPage(ItemTheme[i]) /\ Shows(Nothing)
    /\ item' = i
    /\ UNCHANGED <<node, filters>>
    /\ renderAll(acc, tl, post, pub)

-----------------------------------------------------------------------------
(* Steps in the client                                                     *)

InClient == panel = "client" /\ UNCHANGED <<setting, inbox>>

switchTimeline(a, l) ==
    /\ InClient
    /\ \/ a = acc /\ l \in VIRTUAL \ {"peers"}
       \/ a \in Accounts /\ OnPage(AccountTheme[a]) /\ l \in timelinesOf(a)
    /\ profile' = FALSE
    /\ Shows(Nothing)
    /\ UNCHANGED <<prev, user>>
    /\ renderAll(a, l, None, pub)

\* A click on a row, or j and k.
selectPost(p) ==
    /\ UNCHANGED <<setting, inbox, prev, user>>
    /\ \/ tab = "client" /\ p \in visiblePosts(acc, tl) /\ Shows([kind |-> "post", id |-> p])
       \/ late /\ panel = "client" /\ OnPage(PostTheme(p)) /\ Shows(Nothing)
    /\ profile' = FALSE
    /\ renderAll(acc, tl, p, pub)

openProfile(on) ==
    /\ InClient
    /\ tl # "peers" /\ on # profile
    /\ profile' = on
    /\ Shows(Nothing)
    /\ UNCHANGED <<prev, user>>
    /\ renderAll(acc, tl, post, pub)

\* Mutant: a search from the results of another one is to return to them.
cameFrom_Any == tl

cameFrom == IF tl = Search THEN prev ELSE tl

\* The first account searches, whichever account is shown.
search ==
    /\ InClient
    /\ prev' = cameFrom
    /\ profile' = FALSE
    /\ Shows(Nothing)
    /\ UNCHANGED user
    /\ renderAll(Main[theme], Search, None, pub)

\* Text in the search box filters the timeline: the client alone is drawn, even
\* when the theme by now shows the other tab.
typeSearch ==
    /\ InClient
    /\ tl # Search
    /\ UNCHANGED <<prev, profile, user, page, opened>>
    /\ renderStream(acc, tl, post) /\ renderPeers(pub)

\* A profile stays open.
closeSearch ==
    /\ InClient
    /\ tl = Search \/ late
    /\ Shows(Nothing)
    /\ UNCHANGED <<prev, profile, user>>
    /\ renderAll(acc, prev, None, pub)

-----------------------------------------------------------------------------
(* Links                                                                   *)

\* Mutant: the text in the search box and the filters stay.
clearedFilters_Kept == filters

clearedFilters == {}

\* The item is found when the link is clicked: it is one of this theme.
openKbItem(i) ==
    /\ i \in Own(theme) /\ (late \/ reader.kind # "item")
    /\ node' = All /\ filters' = clearedFilters /\ item' = i
    /\ setAppTab("kb")
    /\ Shows([kind |-> "item", id |-> i])
    /\ UNCHANGED <<prev, profile, user>>
    /\ renderAll(acc, tl, post, pub)

\* A reply is shown in the timeline of the post its thread hangs on.
Anchor[p \in Posts] == IF Column[p] = Nowhere /\ Reply[p] # None THEN Anchor[Reply[p]] ELSE p

\* A thread begins with a post that answers none: the way up ends.
ASSUME ThreadAssumption == \A p \in Posts : Anchor[p] \in Posts

\* The timeline a post is opened in.
openPost(p) ==
    LET c == Column[Anchor[p]] IN IF c \in Names THEN c ELSE Front[AccountOf[p]]

\* A link to what another theme has leads to the client and no further.
deadEnd ==
    /\ Shows(Nothing)
    /\ UNCHANGED profile
    /\ renderAll(acc, tl, post, pub)

openClientPost(p) ==
    /\ OnPage(PostTheme(p))
    /\ setAppTab("client")
    /\ UNCHANGED <<inbox, prev, user>>
    /\ IF PostTheme(p) = theme
       THEN /\ profile' = FALSE
            /\ Shows([kind |-> "post", id |-> p])
            /\ renderAll(AccountOf[p], openPost(p), p, pub)
       ELSE deadEnd

openAccount(a) ==
    /\ OnPage(AccountTheme[a])
    /\ setAppTab("client")
    /\ UNCHANGED <<inbox, prev, user>>
    /\ IF AccountTheme[a] = theme
       THEN profile' = FALSE /\ Shows(Nothing) /\ renderAll(a, Front[a], None, pub)
       ELSE deadEnd

\* What a user published is listed in tab t, with q selected.
showPeerView(t, key, q) ==
    /\ setAppTab(t)
    /\ user' = key
    /\ UNCHANGED <<filters, item, prev>>
    /\ IF t = "kb"
       THEN node' = [kind |-> "peer", value |-> key] /\ UNCHANGED profile /\ renderAll(acc, tl, post, q)
       ELSE UNCHANGED node /\ profile' = FALSE /\ renderAll(acc, "peers", None, q)

\* In the client's tree, or in the menu of the page.
showPeers(t, key) ==
    /\ (t = "client" /\ panel = "client") \/ (t = tab /\ key = "all")
    /\ Shows(Nothing)
    /\ showPeerView(t, key, None)

\* The publication an item or a post comes from is shown in the same tab.
gotoPub(q) ==
    /\ late \/ (reader.kind \in {"item", "post"} /\ reader.id # None)
    /\ Shows([kind |-> "pub", id |-> q])
    /\ showPeerView(tab, "all", q)

\* Click, or j and k, in the list of publications.
openPub(q) ==
    /\ \/ late /\ Shows(Nothing)
       \/ /\ IF tab = "kb" THEN node.kind = "peer" /\ q \in visible(node.value)
             ELSE tl = "peers" /\ q \in visible(user)
          /\ Shows([kind |-> "pub", id |-> q])
    /\ UNCHANGED <<setting, inbox, prev, profile, user>>
    /\ renderAll(acc, tl, post, q)

-----------------------------------------------------------------------------
Init ==
    /\ theme \in Themes /\ tab \in Tabs /\ slots \in [Themes -> Tabs]
    /\ node = All /\ filters = {} /\ item = firstItem(theme)
    /\ prev = Nowhere /\ profile = FALSE /\ user = "all" /\ pub = None /\ opened = Nothing
    /\ panel = tab /\ drawn = theme /\ late = FALSE
    /\ IF tab = "client"
       THEN /\ acc = Main[theme] /\ tl = Front[acc]
            /\ post = Newest({p \in Posts : AccountOf[p] = acc /\ Column[p] = tl})
       ELSE acc = Nobody /\ tl = Nowhere /\ post = None

Inbox == \/ \E n \in Nodes : selectNode(n)
         \/ \E f \in Filters : setFilter(f)
         \/ \E i \in Items : selectItem(i)

Client == \/ \E a \in Accounts \cup {Nobody}, l \in Names \cup VIRTUAL : switchTimeline(a, l)
          \/ \E p \in Posts : selectPost(p)
          \/ \E on \in BOOLEAN : openProfile(on)
          \/ search \/ typeSearch \/ closeSearch

Link == \/ \E i \in Items : openKbItem(i)
        \/ \E p \in Posts : openClientPost(p)
        \/ \E a \in Accounts : openAccount(a)
        \/ \E t \in Tabs, key \in Keys : showPeers(t, key)
        \/ \E q \in Pubs : gotoPub(q) \/ openPub(q)

Next ==
    \/ \E t \in Themes : changeTheme(t)
    \/ \E t \in Themes, b \in Tabs : Load(t, b)
    \/ \E t \in Tabs : clickTab(t)
    \/ Redraw \/ Inbox \/ Client \/ Link

Spec == Init /\ [][Next]_vars

-----------------------------------------------------------------------------
(* Once the page is drawn, nothing of another theme is read in it and no   *)
(* account of another theme is shown, whatever was clicked before it was   *)
(* (renderStream, ensureSelection, renderStreamAndReader).                 *)
ShownIsOwn ==
    ~late => /\ reader.kind = "item" => reader.id \in Own(theme) \cup {None}
             /\ reader.kind = "post" /\ reader.id # None => PostTheme(reader.id) = theme
             /\ tab = "client" /\ acc # Nobody => AccountTheme[acc] = theme

(* Once it is drawn, the client shows a timeline there is: one of the      *)
(* account it shows, after any chain of themes, accounts, searches, links  *)
(* and clicks on the controls of another theme (ensureSelection).          *)
TimelineExists ==
    tab = "client" /\ ~late => \/ tl \in VIRTUAL
                               \/ acc # Nobody /\ tl \in timelinesOf(acc) \cup {Search}

(* Closing a search leaves it: a search never remembers a search.  One     *)
(* begun before the page is drawn remembers no timeline, and leaving it    *)
(* shows the first (bindStatic, closeSearch).                              *)
SearchCanBeLeft == tl = Search => prev # Search

(* A link, and a click and a key in a list of the theme that is shown,     *)
(* shows what it leads to, whatever was selected, filtered, opened or      *)
(* searched before in either tab, and an item is found in the list too     *)
(* (openKbItem, openPost, showPeerView).                                   *)
LinkShowsTarget ==
    opened # Nothing =>
       /\ reader = opened
       /\ opened.kind = "item" => opened.id \in getVisibleItems
================================================================================
