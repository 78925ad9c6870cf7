------------------------- MODULE SyndicationViewProofs -------------------------
(***************************************************************************)
(* What holds of the two tabs for any themes, items, posts, publications,  *)
(* accounts and timelines, whatever is clicked before the page is drawn    *)
(* for a theme: nothing of another theme is shown once it is, the timeline *)
(* there is, a search can be left, and a link shows its target.            *)
(***************************************************************************)
EXTENDS SyndicationView, TLAPS, WellFoundedInduction

Lines == Names \cup VIRTUAL \cup {Search, Nowhere}

(***************************************************************************)
(* The newest of a set is one of it.                                       *)
(***************************************************************************)
LEMMA LeastExists ==
    ASSUME NEW S, S \subseteq Nat, S # {}
    PROVE  \E x \in S : \A y \in S : x <= y
<1> DEFINE Less == OpToRel(<, Nat)
<1>1. PICK x \in S : \A y \in S : <<y, x>> \notin Less
    BY NatLessThanWellFounded, WFMin, Zenon
<1>2. \A y \in S : ~(y < x)
    BY <1>1, Zenon DEF OpToRel
<1> QED
    BY <1>2

LEMMA NewestTyped ==
    ASSUME NEW S, S \subseteq Nat
    PROVE  Newest(S) \in S \cup {None}
BY LeastExists DEF Newest

LEMMA PubTyped ==
    ASSUME NEW key, NEW q \in Pubs \cup {None}
    PROVE  selectedPub(key, q) \in Pubs \cup {None}
<1>1. visible(key) \subseteq Pubs /\ visible(key) \subseteq Nat
    BY ViewAssumption DEF visible
<1> QED
    BY <1>1, NewestTyped DEF selectedPub

LEMMA ItemTyped ==
    ASSUME NEW t \in Themes
    PROVE  /\ Newest(Own(t)) \in Own(t) \cup {None}
           /\ Own(t) \subseteq Items
<1>1. Own(t) \subseteq Items /\ Own(t) \subseteq Nat
    BY ViewAssumption DEF Own
<1> QED
    BY <1>1, NewestTyped

LEMMA ColumnsAreNames ==
    ASSUME NEW a \in Accounts
    PROVE  /\ timelinesOf(a) \subseteq Names
           /\ Front[a] \in timelinesOf(a)
BY ViewAssumption DEF timelinesOf, Names

(***************************************************************************)
(* Drawing the client: for whatever account, timeline and post, it ends    *)
(* with an account and a post of the theme and a timeline of the account,  *)
(* and with a search only if it was drawn for one.  Two lists ask no       *)
(* account and one no post, and leave them as they are.                    *)
(***************************************************************************)
Foreign(a, t) == a # Nobody /\ AccountTheme[a] # t

StreamOK(l) ==
    /\ acc' \in Accounts \cup {Nobody} /\ tl' \in Lines /\ post' \in Posts \cup {None}
    /\ ~Foreign(acc', theme')
    /\ post' # None /\ tl' # "peers" => PostTheme(post') = theme'
    /\ tl' \in VIRTUAL \/ (acc' # Nobody /\ tl' \in timelinesOf(acc') \cup {Search})
    /\ tl' = Search => l = Search

LEMMA SelectionEnsured ==
    ASSUME theme' \in Themes, NEW a \in Accounts \cup {Nobody}, NEW l \in Lines,
           Foreign(a, theme') => l \notin VIRTUAL
    PROVE  LET v == ensureSelection(a, l) IN
           /\ v.acc \in Accounts \cup {Nobody} /\ v.tl \in Lines
           /\ ~Foreign(v.acc, theme')
           /\ v.tl \in VIRTUAL \/ (v.acc # Nobody /\ v.tl \in timelinesOf(v.acc) \cup {Search})
           /\ v.tl = Search => l = Search
<1>1. CASE l \in VIRTUAL
    BY <1>1 DEF ensureSelection, VIRTUAL, Search
<1>2. CASE l \notin VIRTUAL /\ a # Nobody /\ AccountTheme[a] = theme'
    <2>1. a \in Accounts /\ AccountTheme[a] = theme'
        BY <1>2
    <2>2. ensureSelection(a, l) =
            [acc |-> a, tl |-> IF l = Search \/ l \in timelinesOf(a) THEN l ELSE Front[a]]
        BY <1>2, <2>1 DEF ensureSelection
    <2>3. Front[a] # Search
        BY <2>1, ColumnsAreNames, ViewAssumption DEF Search
    <2> QED
        BY <1>2, <2>1, <2>2, <2>3, ColumnsAreNames DEF Lines, Foreign
<1>3. CASE l \notin VIRTUAL /\ ~(a # Nobody /\ AccountTheme[a] = theme')
    <2> DEFINE m == Main[theme']
    <2>1. m \in Accounts /\ AccountTheme[m] = theme' /\ m # Nobody
        BY ViewAssumption
    <2>2. ensureSelection(a, l) = [acc |-> m, tl |-> Front[m]]
        BY <1>3 DEF ensureSelection
    <2> HIDE DEF m
    <2>3. Front[m] # Search
        BY <2>1, ColumnsAreNames, ViewAssumption DEF Search
    <2> QED
        BY <2>1, <2>2, <2>3, ColumnsAreNames DEF Lines, Foreign
<1> QED
    BY <1>1, <1>2, <1>3

LEMMA PostKept ==
    ASSUME NEW p \in Posts \cup {None}, NEW a, NEW l
    PROVE  LET k == keptPost(p, a, l) IN
           k \in Posts \cup {None} /\ (k # None => PostTheme(k) = theme')
<1>1. visiblePosts(a, l) \subseteq Posts /\ visiblePosts(a, l) \subseteq Nat
    BY ViewAssumption DEF visiblePosts
<1>2. \A k \in visiblePosts(a, l) : PostTheme(k) = theme'
    BY DEF visiblePosts
<1>3. Newest(visiblePosts(a, l)) \in visiblePosts(a, l) \cup {None}
    BY <1>1, NewestTyped
<1> QED
    BY <1>1, <1>2, <1>3 DEF keptPost

LEMMA StreamDrawn ==
    ASSUME theme' \in Themes,
           NEW a \in Accounts \cup {Nobody}, NEW l \in Lines, NEW p \in Posts \cup {None},
           Foreign(a, theme') => l \notin VIRTUAL,
           renderStream(a, l, p)
    PROVE  StreamOK(l)
<1> DEFINE v == ensureSelection(a, l)
<1>1. /\ v.acc \in Accounts \cup {Nobody} /\ v.tl \in Lines
      /\ ~Foreign(v.acc, theme')
      /\ v.tl \in VIRTUAL \/ (v.acc # Nobody /\ v.tl \in timelinesOf(v.acc) \cup {Search})
      /\ v.tl = Search => l = Search
    BY SelectionEnsured
<1>2. /\ acc' = v.acc /\ tl' = v.tl
      /\ post' = IF v.tl = "peers" THEN p ELSE keptPost(p, v.acc, v.tl)
    BY DEF renderStream
<1> HIDE DEF v
<1>3. post' \in Posts \cup {None} /\ (post' # None /\ tl' # "peers" => PostTheme(post') = theme')
    BY <1>2, PostKept
<1> QED
    BY <1>1, <1>2, <1>3 DEF StreamOK

(***************************************************************************)
(* The invariant.  Only an inbox hides an account of another theme, and    *)
(* then a timeline that is looked up when the client is drawn: a page that *)
(* still shows the client after a theme change may leave one.              *)
(***************************************************************************)
PageIsDrawn == ~late => panel = tab /\ drawn = theme

AccountIsHidden == Foreign(acc, theme) => tab = "kb" /\ panel = "kb" /\ tl \notin VIRTUAL

PostIsOwn == tab = "client" /\ ~late /\ tl # "peers" /\ post # None => PostTheme(post) = theme

IInv == /\ TypeOK /\ TimelineExists /\ prev # Search
        /\ PageIsDrawn /\ AccountIsHidden /\ PostIsOwn

LEMMA PageDrawn ==
    ASSUME IInv,
           NEW a \in Accounts \cup {Nobody}, NEW l \in Lines, NEW p \in Posts \cup {None},
           NEW q \in Pubs \cup {None},
           renderAll(a, l, p, q),
           theme' \in Themes, tab' \in Tabs, slots' \in [Themes -> Tabs],
           node' \in Nodes, filters' \subseteq Filters, item' \in Items \cup {None},
           prev' \in Lines, profile' \in BOOLEAN, user' \in Keys, opened' \in Things,
           Foreign(a, theme') => l \notin VIRTUAL,
           prev' # Search
    PROVE  IInv'
<1>1. /\ IF tab' = "client" THEN renderStream(a, l, p) ELSE acc' = a /\ tl' = l /\ post' = p
      /\ panel' = tab' /\ drawn' = theme' /\ late' = FALSE
    BY DEF renderAll
<1>2. pub' \in Pubs \cup {None}
    BY PubTyped DEF renderAll, renderPeers
<1>3. CASE tab' = "client"
    <2>1. StreamOK(l)
        BY <1>1, <1>3, StreamDrawn
    <2>2. TypeOK'
        BY <1>1, <1>2, <2>1 DEF TypeOK, StreamOK, Lines
    <2>3. TimelineExists' /\ prev' # Search
        BY <2>1 DEF TimelineExists, StreamOK, timelinesOf
    <2>4. PageIsDrawn' /\ AccountIsHidden' /\ PostIsOwn'
        BY <1>1, <2>1 DEF PageIsDrawn, AccountIsHidden, PostIsOwn, StreamOK, Foreign, PostTheme
    <2> QED
        BY <2>2, <2>3, <2>4 DEF IInv
<1>4. CASE tab' = "kb"
    <2>1. acc' = a /\ tl' = l /\ post' = p
        BY <1>1, <1>4
    <2>2. TypeOK'
        BY <1>1, <1>2, <2>1 DEF TypeOK, Lines
    <2>3. TimelineExists' /\ prev' # Search
        BY <1>4, <2>1 DEF TimelineExists
    <2>4. PageIsDrawn' /\ AccountIsHidden' /\ PostIsOwn'
        BY <1>1, <1>4, <2>1 DEF PageIsDrawn, AccountIsHidden, PostIsOwn, Foreign
    <2> QED
        BY <2>2, <2>3, <2>4 DEF IInv
<1> QED
    BY <1>3, <1>4 DEF Tabs

\* What the invariant says of the account, timeline, post and publication that are shown.
LEMMA Shown ==
    ASSUME IInv
    PROVE  /\ acc \in Accounts \cup {Nobody} /\ post \in Posts \cup {None}
           /\ Foreign(acc, theme) => tab = "kb" /\ panel = "kb" /\ tl \notin VIRTUAL
           /\ tl \in Lines /\ prev \in Lines /\ pub \in Pubs \cup {None}
           /\ theme \in Themes /\ tab \in Tabs /\ slots \in [Themes -> Tabs]
           /\ node \in Nodes /\ filters \subseteq Filters /\ item \in Items \cup {None}
           /\ profile \in BOOLEAN /\ user \in Keys /\ opened \in Things
           /\ panel \in Tabs /\ drawn \in Themes /\ late \in BOOLEAN
           /\ prev # Search
           /\ None \in Pubs \cup {None} /\ None \in Posts \cup {None}
BY DEF IInv, TypeOK, AccountIsHidden, Lines

LEMMA LinkTyped ==
    /\ Nothing \in Things
    /\ \A i \in Items : [kind |-> "item", id |-> i] \in Things
    /\ \A p \in Posts : [kind |-> "post", id |-> p] \in Things
    /\ \A q \in Pubs : [kind |-> "pub", id |-> q] \in Things
BY DEF Things

LEMMA NodeTyped == All \in Nodes
BY DEF All, Nodes

LEMMA LinesTyped ==
    /\ Nowhere \in Lines /\ Nowhere # Search /\ Nowhere \notin VIRTUAL
    /\ "peers" \in Lines /\ "peers" # Search /\ "all" \in Keys /\ Search \in Lines
    /\ \A l \in Names : l \in Lines /\ l # Search /\ l \notin VIRTUAL
BY ViewAssumption DEF Lines, Nowhere, Search, VIRTUAL, Keys

LEMMA InitInv == Init => IInv
<1> SUFFICES ASSUME Init PROVE IInv
    OBVIOUS
<1>1. theme \in Themes /\ tab \in Tabs
    BY DEF Init
<1>2. item \in Items \cup {None}
    BY <1>1, ItemTyped DEF Init, firstItem
<1>3. /\ acc \in Accounts \cup {Nobody} /\ tl \in Lines /\ post \in Posts \cup {None}
      /\ ~Foreign(acc, theme)
      /\ post # None => PostTheme(post) = theme
      /\ tl # Search
      /\ tab = "client" => acc # Nobody /\ tl \in timelinesOf(acc)
    <2>1. CASE tab = "client"
        <3> DEFINE S == {p \in Posts : AccountOf[p] = acc /\ Column[p] = tl}
        <3>1. acc = Main[theme] /\ tl = Front[acc] /\ post = Newest(S)
            BY <2>1 DEF Init
        <3>2. acc \in Accounts /\ AccountTheme[acc] = theme /\ acc # Nobody
            BY <1>1, <3>1, ViewAssumption
        <3>3. S \subseteq Posts /\ S \subseteq Nat /\ \A p \in S : AccountOf[p] = acc
            BY ViewAssumption
        <3> HIDE DEF S
        <3>4. post \in S \cup {None}
            BY <3>1, <3>3, NewestTyped
        <3>5. post \in Posts \cup {None} /\ (post # None => PostTheme(post) = theme)
            BY <3>2, <3>3, <3>4 DEF PostTheme
        <3>6. tl \in timelinesOf(acc) /\ tl \in Lines /\ tl # Search
            BY <3>1, <3>2, ColumnsAreNames, ViewAssumption DEF Lines, Search
        <3> QED
            BY <3>2, <3>5, <3>6 DEF Foreign
    <2>2. CASE tab # "client"
        BY <2>2, LinesTyped DEF Init, Foreign
    <2> QED
        BY <2>1, <2>2
<1>4. /\ slots \in [Themes -> Tabs] /\ node = All /\ filters = {} /\ prev = Nowhere
      /\ profile = FALSE /\ user = "all" /\ pub = None /\ opened = Nothing
      /\ panel = tab /\ drawn = theme /\ late = FALSE
    BY DEF Init
<1>5. TypeOK
    BY <1>1, <1>2, <1>3, <1>4, NodeTyped, LinkTyped DEF TypeOK, Lines, Keys
<1>6. PageIsDrawn /\ AccountIsHidden /\ PostIsOwn
    BY <1>3, <1>4 DEF PageIsDrawn, AccountIsHidden, PostIsOwn
<1>7. TimelineExists /\ prev # Search
    BY <1>3, <1>4, LinesTyped DEF TimelineExists
<1> QED
    BY <1>5, <1>6, <1>7 DEF IInv

(***************************************************************************)
(* The page                                                                *)
(***************************************************************************)
PageStep == \/ \E t \in Themes : changeTheme(t)
            \/ \E t \in Themes, b \in Tabs : Load(t, b)
            \/ \E t \in Tabs : clickTab(t)
            \/ Redraw

LEMMA PageInv == ASSUME IInv, PageStep PROVE IInv'
<1> USE Shown, NodeTyped, LinkTyped, LinesTyped
<1>1. ASSUME NEW t \in Themes, changeTheme(t) PROVE IInv'
    <2>1. /\ theme' = t /\ tab' = slots[t] /\ item' = Newest(Own(t)) /\ node' = All
          /\ acc' = Nobody /\ tl' = Nowhere /\ post' = None /\ profile' = FALSE
          /\ late' = TRUE /\ opened' = Nothing
          /\ UNCHANGED <<slots, filters, prev, user, pub, panel, drawn>>
        BY <1>1 DEF changeTheme, loadPrefs, firstItem, Shows
    <2>2. item' \in Items \cup {None}
        BY <2>1, ItemTyped
    <2>3. TypeOK'
        BY <2>1, <2>2 DEF TypeOK, Lines
    <2> QED
        BY <2>1, <2>3 DEF IInv, TimelineExists, PageIsDrawn, AccountIsHidden,
                          PostIsOwn, Foreign
<1>2. ASSUME NEW t \in Themes, NEW b \in Tabs, Load(t, b) PROVE IInv'
    <2>1. item' \in Items \cup {None}
        BY <1>2, ItemTyped DEF Load, firstItem
    <2>2. renderAll(Nobody, Nowhere, None, None)
        BY <1>2 DEF Load
    <2> QED
        BY <1>2, <2>1, <2>2, PageDrawn DEF Load, Shows, Foreign
<1>3. ASSUME NEW t \in Tabs, clickTab(t) PROVE IInv'
    <2>1. renderAll(acc, tl, post, pub)
        BY <1>3 DEF clickTab
    <2> QED
        BY <1>3, <2>1, PageDrawn DEF clickTab, setAppTab, Shows, inbox
<1>4. CASE Redraw
    <2>1. renderAll(acc, tl, post, pub)
        BY <1>4 DEF Redraw
    <2> QED
        BY <1>4, <2>1, PageDrawn DEF Redraw, setting, inbox
<1> QED
    BY <1>1, <1>2, <1>3, <1>4 DEF PageStep

(***************************************************************************)
(* Steps in the inbox                                                      *)
(***************************************************************************)
LEMMA InboxInv == ASSUME IInv, Inbox PROVE IInv'
<1> USE Shown, NodeTyped, LinkTyped, LinesTyped
<1>1. ASSUME NEW n \in Nodes, selectNode(n) PROVE IInv'
    <2>1. renderAll(acc, tl, post, pub)
        BY <1>1 DEF selectNode
    <2> QED
        BY <1>1, <2>1, PageDrawn DEF selectNode, InInbox, setting, Shows
<1>2. ASSUME NEW f \in Filters, setFilter(f) PROVE IInv'
    <2>1. filters' \subseteq Filters
        BY <1>2 DEF setFilter
    <2>2. CASE f # Text
        <3>1. renderAll(acc, tl, post, pub)
            BY <1>2, <2>2 DEF setFilter
        <3> QED
            BY <1>2, <2>1, <3>1, PageDrawn DEF setFilter, InInbox, setting, Shows
    <2>3. CASE f = Text
        <3>1. /\ UNCHANGED <<theme, tab, slots, prev, profile, user, node, item, acc, tl, post,
                            panel, drawn, late>>
              /\ opened' = Nothing /\ renderPeers(pub)
            BY <1>2, <2>3 DEF setFilter, InInbox, setting, Shows, page
        <3>2. pub' \in Pubs \cup {None}
            BY <3>1, PubTyped DEF renderPeers
        <3>3. TypeOK'
            BY <2>1, <3>1, <3>2 DEF TypeOK, Lines
        <3> QED
            BY <3>1, <3>3 DEF IInv, TimelineExists, PageIsDrawn, AccountIsHidden,
                              PostIsOwn, Foreign, PostTheme
    <2> QED
        BY <2>2, <2>3
<1>3. ASSUME NEW i \in Items, selectItem(i) PROVE IInv'
    <2>1. /\ renderAll(acc, tl, post, pub) /\ item' = i /\ opened' \in Things
          /\ UNCHANGED <<theme, tab, slots, prev, profile, user, node, filters>>
        BY <1>3 DEF selectItem, setting, Shows
    <2> QED
        BY <2>1, PageDrawn
<1> QED
    BY <1>1, <1>2, <1>3 DEF Inbox

(***************************************************************************)
(* Steps in the client                                                     *)
(***************************************************************************)
LEMMA ClientInv == ASSUME IInv, Client PROVE IInv'
<1> USE Shown, NodeTyped, LinkTyped, LinesTyped
<1>1. ASSUME NEW a \in Accounts \cup {Nobody}, NEW l \in Names \cup VIRTUAL, switchTimeline(a, l)
      PROVE  IInv'
    <2>1. /\ renderAll(a, l, None, pub) /\ profile' = FALSE /\ opened' = Nothing
          /\ UNCHANGED <<theme, tab, slots, prev, user, node, filters, item>> /\ panel = "client"
        BY <1>1 DEF switchTimeline, InClient, setting, inbox, Shows
    <2>2. l \in Lines /\ l # Search
        BY DEF Lines, VIRTUAL, Search
    <2>3. Foreign(a, theme') => l \notin VIRTUAL
        <3>1. CASE a = acc
            BY <2>1, <3>1
        <3>2. CASE a # acc
            BY <1>1, <3>2, ColumnsAreNames DEF switchTimeline
        <3> QED
            BY <3>1, <3>2
    <2> QED
        BY <2>1, <2>2, <2>3, PageDrawn
<1>2. ASSUME NEW p \in Posts, selectPost(p) PROVE IInv'
    <2>1. /\ renderAll(acc, tl, p, pub) /\ profile' = FALSE /\ opened' \in Things
          /\ UNCHANGED <<theme, tab, slots, prev, user, node, filters, item>>
        BY <1>2 DEF selectPost, setting, inbox, Shows
    <2> QED
        BY <2>1, PageDrawn
<1>3. ASSUME NEW on \in BOOLEAN, openProfile(on) PROVE IInv'
    <2>1. renderAll(acc, tl, post, pub)
        BY <1>3 DEF openProfile
    <2> QED
        BY <1>3, <2>1, PageDrawn DEF openProfile, InClient, setting, inbox, Shows
<1>4. CASE search
    <2>1. /\ renderAll(Main[theme], Search, None, pub) /\ profile' = FALSE /\ opened' = Nothing
          /\ UNCHANGED <<theme, tab, slots, user, node, filters, item>> /\ prev' = cameFrom
        BY <1>4 DEF search, InClient, setting, inbox, Shows
    <2>2. Main[theme] \in Accounts /\ ~Foreign(Main[theme], theme')
        BY <2>1, ViewAssumption DEF Foreign
    <2>3. prev' \in Lines /\ prev' # Search
        BY <2>1 DEF cameFrom
    <2> QED
        BY <2>1, <2>2, <2>3, PageDrawn
<1>5. CASE closeSearch
    <2>1. /\ renderAll(acc, prev, None, pub) /\ panel = "client"
          /\ UNCHANGED <<theme, tab, slots, prev, profile, user, node, filters, item>>
          /\ opened' = Nothing /\ (tl = Search \/ late)
        BY <1>5 DEF closeSearch, InClient, setting, inbox, Shows
    <2>2. ~Foreign(acc, theme')
        BY <2>1
    <2> QED
        BY <2>1, <2>2, PageDrawn
<1>6. CASE typeSearch
    <2>1. /\ renderStream(acc, tl, post) /\ renderPeers(pub) /\ panel = "client" /\ tl # Search
          /\ UNCHANGED <<theme, tab, slots, prev, profile, user, node, filters, item,
                         panel, drawn, late, opened>>
        BY <1>6 DEF typeSearch, InClient, setting, inbox, page
    <2>2. StreamOK(tl)
        BY <2>1, StreamDrawn
    <2>3. pub' \in Pubs \cup {None}
        BY <2>1, PubTyped DEF renderPeers
    <2>4. TypeOK'
        BY <2>1, <2>2, <2>3 DEF TypeOK, Lines, StreamOK
    <2>5. TimelineExists' /\ prev' # Search
        BY <2>1, <2>2 DEF TimelineExists, StreamOK, timelinesOf
    <2>6. PageIsDrawn' /\ AccountIsHidden' /\ PostIsOwn'
        BY <2>1, <2>2 DEF IInv, PageIsDrawn, AccountIsHidden, PostIsOwn, StreamOK, Foreign, PostTheme
    <2> QED
        BY <2>4, <2>5, <2>6 DEF IInv
<1> QED
    BY <1>1, <1>2, <1>3, <1>4, <1>5, <1>6 DEF Client

(***************************************************************************)
(* Links                                                                   *)
(***************************************************************************)
LEMMA TabSet ==
    ASSUME IInv, NEW t \in Tabs, setAppTab(t)
    PROVE  theme' = theme /\ tab' = t /\ slots' \in [Themes -> Tabs]
BY Shown DEF setAppTab

LEMMA OpenedIn ==
    ASSUME NEW p \in Posts
    PROVE  openPost(p) \in Names /\ AccountOf[p] \in Accounts
BY ViewAssumption DEF openPost

LEMMA DeadEnd ==
    ASSUME IInv, NEW t \in Tabs, setAppTab(t), UNCHANGED <<inbox, prev, user>>, deadEnd
    PROVE  IInv'
<1>1. renderAll(acc, tl, post, pub) /\ profile' = profile /\ opened' = Nothing
    BY DEF deadEnd, Shows
<1> QED
    BY <1>1, Shown, TabSet, LinkTyped, PageDrawn DEF inbox

LEMMA PeersViewed ==
    ASSUME IInv, NEW t \in Tabs, NEW key \in Keys, NEW q \in Pubs \cup {None},
           t = "client" => ~Foreign(acc, theme),
           opened' \in Things, showPeerView(t, key, q)
    PROVE  IInv'
<1> USE Shown, LinesTyped
<1>1. theme' = theme /\ tab' = t /\ slots' \in [Themes -> Tabs]
    BY TabSet DEF showPeerView
<1>2. CASE t = "kb"
    <2> DEFINE n == [kind |-> "peer", value |-> key]
    <2>1. n \in Nodes
        BY DEF Nodes
    <2>2. renderAll(acc, tl, post, q) /\ node' = n /\ profile' = profile
        BY <1>2 DEF showPeerView
    <2> HIDE DEF n
    <2> QED
        BY <1>1, <2>1, <2>2, PageDrawn DEF showPeerView
<1>3. CASE t = "client"
    <2>1. renderAll(acc, "peers", None, q) /\ node' = node /\ profile' = FALSE
        BY <1>3 DEF showPeerView
    <2> QED
        BY <1>1, <1>3, <2>1, PageDrawn DEF showPeerView
<1> QED
    BY <1>2, <1>3 DEF Tabs

LEMMA LinkInv == ASSUME IInv, Link PROVE IInv'
<1> USE Shown, NodeTyped, LinkTyped, LinesTyped
<1>0. "client" \in Tabs /\ "kb" \in Tabs
    BY DEF Tabs
<1>1. ASSUME NEW i \in Items, openKbItem(i) PROVE IInv'
    <2>1. renderAll(acc, tl, post, pub) /\ setAppTab("kb")
        BY <1>1 DEF openKbItem
    <2> QED
        BY <1>0, <1>1, <2>1, TabSet, PageDrawn DEF openKbItem, clearedFilters, Shows
<1>2. ASSUME NEW p \in Posts, openClientPost(p) PROVE IInv'
    <2>1. setAppTab("client") /\ UNCHANGED <<inbox, prev, user>>
        BY <1>2 DEF openClientPost
    <2>2. CASE PostTheme(p) = theme
        <3>1. /\ renderAll(AccountOf[p], openPost(p), p, pub) /\ profile' = FALSE
              /\ opened' = [kind |-> "post", id |-> p]
            BY <1>2, <2>2 DEF openClientPost, Shows
        <3>2. openPost(p) \in Lines /\ openPost(p) # Search /\ openPost(p) \notin VIRTUAL
            BY OpenedIn
        <3> QED
            BY <1>0, <2>1, <3>1, <3>2, OpenedIn, TabSet, PageDrawn DEF inbox
    <2>3. CASE PostTheme(p) # theme
        BY <1>0, <1>2, <2>1, <2>3, DeadEnd DEF openClientPost
    <2> QED
        BY <2>2, <2>3
<1>3. ASSUME NEW a \in Accounts, openAccount(a) PROVE IInv'
    <2>1. setAppTab("client") /\ UNCHANGED <<inbox, prev, user>>
        BY <1>3 DEF openAccount
    <2>2. CASE AccountTheme[a] = theme
        <3>1. renderAll(a, Front[a], None, pub) /\ profile' = FALSE /\ opened' = Nothing
            BY <1>3, <2>2 DEF openAccount, Shows
        <3>2. Front[a] \in Lines /\ Front[a] # Search /\ Front[a] \notin VIRTUAL
            BY ColumnsAreNames
        <3> QED
            BY <1>0, <2>1, <3>1, <3>2, TabSet, PageDrawn DEF inbox
    <2>3. CASE AccountTheme[a] # theme
        BY <1>0, <1>3, <2>1, <2>3, DeadEnd DEF openAccount
    <2> QED
        BY <2>2, <2>3
<1>4. ASSUME NEW t \in Tabs, NEW key \in Keys, showPeers(t, key) PROVE IInv'
    <2>1. opened' = Nothing /\ showPeerView(t, key, None)
        BY <1>4 DEF showPeers, Shows
    <2>2. t = "client" => ~Foreign(acc, theme)
        BY <1>4 DEF showPeers
    <2> QED
        BY <2>1, <2>2, PeersViewed
<1>5. ASSUME NEW q \in Pubs, gotoPub(q) PROVE IInv'
    <2>1. opened' \in Things /\ showPeerView(tab, "all", q)
        BY <1>5 DEF gotoPub, Shows
    <2>2. tab = "client" => ~Foreign(acc, theme)
        OBVIOUS
    <2> QED
        BY <2>1, <2>2, PeersViewed
<1>6. ASSUME NEW q \in Pubs, openPub(q) PROVE IInv'
    <2>1. /\ renderAll(acc, tl, post, q) /\ opened' \in Things
          /\ UNCHANGED <<theme, tab, slots, node, filters, item, prev, profile, user>>
        BY <1>6 DEF openPub, setting, inbox, Shows
    <2> QED
        BY <2>1, PageDrawn
<1> QED
    BY <1>1, <1>2, <1>3, <1>4, <1>5, <1>6 DEF Link

LEMMA StepInv == IInv /\ [Next]_vars => IInv'
<1>1. ASSUME IInv, UNCHANGED vars PROVE IInv'
    BY <1>1 DEF vars, setting, inbox, page, IInv, TypeOK, TimelineExists,
                PageIsDrawn, AccountIsHidden, PostIsOwn, Foreign, PostTheme
<1>2. ASSUME IInv, Next PROVE IInv'
    BY <1>2, PageInv, InboxInv, ClientInv, LinkInv DEF Next, PageStep
<1> QED
    BY <1>1, <1>2

LEMMA Inductive == Spec => []IInv
BY InitInv, StepInv, PTL DEF Spec

(***************************************************************************)
(* Every variable has its type in every reachable state.                   *)
(***************************************************************************)
THEOREM TypeCorrect == Spec => []TypeOK
BY Inductive, PTL DEF IInv

LEMMA ShownFollows == IInv => ShownIsOwn
<1> SUFFICES ASSUME IInv, ~late PROVE ShownIsOwn
    BY DEF ShownIsOwn
<1>1. ASSUME reader.kind = "item" PROVE reader.id \in Own(theme) \cup {None}
    <2>1. getVisibleItems \subseteq Own(theme) /\ getVisibleItems \subseteq Nat
        BY ViewAssumption DEF getVisibleItems, Own
    <2>2. Newest(getVisibleItems) \in Own(theme) \cup {None}
        BY <2>1, NewestTyped
    <2>3. tab = "kb" /\ reader = readerKb
        BY <1>1 DEF reader, readerClient, Nothing
    <2> QED
        BY <1>1, <2>2, <2>3 DEF readerKb
<1>2. ASSUME reader.kind = "post", reader.id # None PROVE PostTheme(reader.id) = theme
    <2>1. tab # "kb" /\ reader = readerClient
        BY <1>2 DEF reader, readerKb
    <2>2. tl # "peers" /\ reader.id = post
        BY <1>2, <2>1 DEF readerClient, Nothing
    <2> QED
        BY <1>2, <2>1, <2>2, Shown DEF IInv, PostIsOwn, Tabs
<1>3. ASSUME tab = "client", acc # Nobody PROVE AccountTheme[acc] = theme
    BY <1>3, Shown DEF Foreign
<1> QED
    BY <1>1, <1>2, <1>3 DEF ShownIsOwn

(***************************************************************************)
(* Once the page is drawn, whatever was clicked before, nothing of another *)
(* theme is read in it, and no account of another theme is shown.          *)
(***************************************************************************)
THEOREM NothingForeignIsShown == Spec => []ShownIsOwn
BY Inductive, ShownFollows, PTL

(***************************************************************************)
(* Once it is drawn, the client shows a timeline there is, for any         *)
(* accounts and timelines and any clicks in the page of the theme before.  *)
(***************************************************************************)
THEOREM TimelinesExist == Spec => []TimelineExists
BY Inductive, PTL DEF IInv

(***************************************************************************)
(* A search never remembers a search to return to.                         *)
(***************************************************************************)
THEOREM SearchesCanBeLeft == Spec => []SearchCanBeLeft
<1>1. IInv => SearchCanBeLeft
    BY DEF IInv, SearchCanBeLeft
<1> QED
    BY <1>1, Inductive, PTL

(***************************************************************************)
(* Where links lead.  A step that follows none opens nothing; one that     *)
(* does leaves the reader on its target, because drawing the page, then    *)
(* and later, keeps a timeline that lists posts, a post of the theme and a *)
(* publication that is listed.                                             *)
(***************************************************************************)
StaysListed ==
    opened # Nothing =>
       /\ ~late
       /\ opened.kind = "pub" => opened.id \in visible(IF tab = "kb" THEN node.value ELSE user)

LandInv == LinkShowsTarget /\ StaysListed

NotPosts == NoList \cup {"peers"}

\* A timeline that lists posts is drawn as one that does.
LEMMA ListKept ==
    ASSUME theme' \in Themes, NEW a \in Accounts \cup {Nobody}, NEW l, l \notin NotPosts
    PROVE  ensureSelection(a, l).tl \notin NotPosts
<1>1. \A b \in Accounts : Front[b] \notin NotPosts
    BY ViewAssumption DEF NotPosts, NoList, VIRTUAL
<1>2. Main[theme'] \in Accounts
    BY ViewAssumption
<1>3. CASE l \in VIRTUAL
    BY <1>3 DEF ensureSelection
<1>4. CASE l \notin VIRTUAL
    <2>1. CASE a # Nobody /\ AccountTheme[a] = theme' /\ (l = Search \/ l \in timelinesOf(a))
        BY <1>4, <2>1 DEF ensureSelection
    <2>2. CASE a # Nobody /\ AccountTheme[a] = theme' /\ ~(l = Search \/ l \in timelinesOf(a))
        <3>1. ensureSelection(a, l).tl = Front[a]
            BY <1>4, <2>2 DEF ensureSelection
        <3> QED
            BY <1>1, <2>2, <3>1
    <2>3. CASE ~(a # Nobody /\ AccountTheme[a] = theme')
        <3>1. ensureSelection(a, l).tl = Front[Main[theme']]
            BY <1>4, <2>3 DEF ensureSelection
        <3> QED
            BY <1>1, <1>2, <3>1
    <2> QED
        BY <2>1, <2>2, <2>3
<1> QED
    BY <1>3, <1>4

\* A post of the theme that is drawn in a list is what the reader shows.
LEMMA PostShown ==
    ASSUME theme' \in Themes, NEW a \in Accounts \cup {Nobody}, NEW l, l \notin NotPosts,
           NEW p \in Posts, PostTheme(p) = theme',
           renderStream(a, l, p), tab' = "client", profile' = FALSE, late' = FALSE,
           opened' = [kind |-> "post", id |-> p]
    PROVE  LandInv'
<1> DEFINE v == ensureSelection(a, l)
<1>1. tl' = v.tl /\ post' = IF v.tl = "peers" THEN p ELSE keptPost(p, v.acc, v.tl)
    BY DEF renderStream
<1>2. v.tl \notin NotPosts
    BY ListKept
<1> HIDE DEF v
<1>3. p # None
    BY ViewAssumption
<1>4. post' = p
    BY <1>1, <1>3 DEF keptPost
<1>5. reader' = opened'
    BY <1>1, <1>2, <1>4 DEF reader, readerClient, NotPosts
<1>6. opened'.kind = "post"
    OBVIOUS
<1> QED
    BY <1>5, <1>6 DEF LandInv, LinkShowsTarget, StaysListed

\* An item of the theme that is in the list is what the reader shows.
LEMMA ItemShown ==
    ASSUME NEW i \in Items, tab' = "kb", item' = i, node'.kind # "peer", i \in Own(theme'),
           i \in getVisibleItems', late' = FALSE, opened' = [kind |-> "item", id |-> i]
    PROVE  LandInv'
<1>1. reader' = opened'
    BY DEF reader, readerKb, Own
<1>2. opened'.kind = "item" /\ opened'.id = i
    OBVIOUS
<1> QED
    BY <1>1, <1>2 DEF LandInv, LinkShowsTarget, StaysListed

\* A publication that is listed is what the reader shows.
LEMMA PubShown ==
    ASSUME NEW q \in Pubs, renderPeers(q), late' = FALSE, opened' = [kind |-> "pub", id |-> q],
           \/ tab' = "client" /\ tl' = "peers" /\ q \in visible(user')
           \/ tab' = "kb" /\ node'.kind = "peer" /\ q \in visible(node'.value)
    PROVE  LandInv'
<1>1. pub' = q
    BY DEF renderPeers, selectedPub
<1>2. reader' = opened'
    BY <1>1 DEF reader, readerKb, readerClient
<1>3. opened'.kind = "pub" /\ opened'.id = q
    OBVIOUS
<1>4. q \in visible(IF tab' = "kb" THEN node'.value ELSE user')
    OBVIOUS
<1> QED
    BY <1>2, <1>3, <1>4 DEF LandInv, LinkShowsTarget, StaysListed, visible

LEMMA NoLinkFollowed == ASSUME opened' = Nothing PROVE LandInv'
BY DEF LandInv, LinkShowsTarget, StaysListed

\* Drawing the page, or the client, again leaves the reader on the target.
LEMMA StillShown ==
    ASSUME IInv, LandInv, theme' = theme, tab' = tab, UNCHANGED <<inbox, profile, user, opened>>,
           opened # Nothing => late' = FALSE,
           tab = "client" => renderStream(acc, tl, post),
           renderPeers(pub)
    PROVE  LandInv'
<1> SUFFICES ASSUME opened # Nothing PROVE LandInv'
    BY NoLinkFollowed
<1>1. /\ ~late /\ late' = FALSE /\ reader = opened /\ opened \in Things
      /\ opened.kind = "item" => opened.id \in getVisibleItems
      /\ opened.kind = "pub" => opened.id \in visible(IF tab = "kb" THEN node.value ELSE user)
    BY Shown DEF LandInv, LinkShowsTarget, StaysListed
<1>2. theme' \in Themes /\ tab \in Tabs /\ node' = node /\ filters' = filters /\ item' = item
    BY Shown DEF inbox
<1>3. CASE opened.kind = "item"
    <2>1. PICK i \in Items : opened = [kind |-> "item", id |-> i]
        BY <1>1, <1>3 DEF Things, Nothing
    <2>2. tab = "kb" /\ node.kind # "peer"
        BY <1>1, <1>2, <1>3 DEF reader, readerKb, readerClient, Nothing, Tabs
    <2>3. i \in getVisibleItems /\ i \in Own(theme)
        BY <1>1, <2>1, <2>2 DEF getVisibleItems
    <2>4. i \in getVisibleItems' /\ i \in Own(theme')
        BY <1>2, <2>3 DEF getVisibleItems, Own
    <2>5. reader' = reader
        <3>1. getVisibleItems' = getVisibleItems
            BY <1>2 DEF getVisibleItems, Own
        <3>2. readerKb' = readerKb
            BY <1>2, <2>2, <3>1 DEF readerKb, Own
        <3> QED
            BY <2>2, <3>2 DEF reader
    <2>6. reader' = opened' /\ opened'.kind = "item" /\ opened'.id = i
        BY <1>1, <2>1, <2>5
    <2> QED
        BY <1>1, <2>4, <2>6 DEF LandInv, LinkShowsTarget, StaysListed
<1>4. CASE opened.kind = "post"
    <2>1. PICK p \in Posts : opened = [kind |-> "post", id |-> p]
        BY <1>1, <1>4 DEF Things, Nothing
    <2>2. /\ tab = "client" /\ tl \notin NotPosts /\ profile # TRUE /\ post = p
        <3>1. reader = [kind |-> "post", id |-> p]
            BY <1>1, <2>1
        <3>2. tab = "client" /\ reader = readerClient
            BY <1>2, <3>1 DEF reader, readerKb, Tabs
        <3>3. tl # "peers"
            BY <3>1, <3>2 DEF readerClient
        <3>4. ~(profile \/ tl \in NoList)
            BY <3>1, <3>2, <3>3 DEF readerClient, Nothing
        <3> QED
            <4>1. reader = [kind |-> "post", id |-> post]
                BY <3>2, <3>3, <3>4 DEF readerClient
            <4>2. tl \notin NotPosts
                BY <3>3, <3>4 DEF NotPosts
            <4>3. profile # TRUE
                BY <3>4
            <4>4. post = p
                BY <3>1, <4>1
            <4> QED
                BY <3>2, <4>2, <4>3, <4>4
    <2>3. p # None /\ PostTheme(p) = theme'
        BY <1>1, <2>2, ViewAssumption DEF IInv, PostIsOwn, NotPosts
    <2>4. profile' = FALSE
        BY <2>2, Shown
    <2>5. acc \in Accounts \cup {Nobody}
        BY Shown
    <2> QED
        BY <1>1, <1>2, <2>1, <2>2, <2>3, <2>4, <2>5, PostShown
<1>5. CASE opened.kind = "pub"
    <2>1. PICK q \in Pubs : opened = [kind |-> "pub", id |-> q]
        BY <1>1, <1>5 DEF Things, Nothing
    <2>2. pub = q
        BY <1>1, <2>1 DEF reader, readerKb, readerClient, Nothing
    <2>3. CASE tab = "kb"
        <3>1. node.kind = "peer" /\ q \in visible(node.value)
            BY <1>1, <2>1, <2>3 DEF reader, readerKb
        <3> QED
            BY <1>1, <1>2, <2>1, <2>2, <2>3, <3>1, PubShown
    <2>4. CASE tab = "client"
        <3>1. tl = "peers" /\ q \in visible(user)
            BY <1>1, <2>1, <2>4 DEF reader, readerClient, Nothing
        <3>2. tl' = "peers"
            BY <2>4, <3>1 DEF renderStream, ensureSelection, VIRTUAL
        <3> QED
            BY <1>1, <2>1, <2>2, <2>4, <3>1, <3>2, PubShown
    <2> QED
        BY <1>2, <2>3, <2>4 DEF Tabs
<1> QED
    BY <1>1, <1>3, <1>4, <1>5 DEF Things, Nothing

LEMMA PageLands == ASSUME IInv, LandInv, PageStep PROVE LandInv'
<1>1. ASSUME NEW t \in Themes, changeTheme(t) PROVE LandInv'
    BY <1>1, NoLinkFollowed DEF changeTheme, Shows
<1>2. ASSUME NEW t \in Themes, NEW b \in Tabs, Load(t, b) PROVE LandInv'
    BY <1>2, NoLinkFollowed DEF Load, Shows
<1>3. ASSUME NEW t \in Tabs, clickTab(t) PROVE LandInv'
    BY <1>3, NoLinkFollowed DEF clickTab, Shows
<1>4. CASE Redraw
    <2>1. /\ UNCHANGED <<setting, inbox, profile, user, opened>>
          /\ renderAll(acc, tl, post, pub)
        BY <1>4 DEF Redraw
    <2> QED
        BY <2>1, StillShown DEF setting, renderAll
<1> QED
    BY <1>1, <1>2, <1>3, <1>4 DEF PageStep

LEMMA InboxLands == ASSUME IInv, Inbox PROVE LandInv'
<1>1. ASSUME NEW i \in Items, selectItem(i) PROVE LandInv'
    <2>1. CASE tab = "kb" /\ i \in getVisibleItems /\ opened' = [kind |-> "item", id |-> i]
        <3>1. /\ tab' = "kb" /\ item' = i /\ theme' = theme /\ node' = node /\ filters' = filters
              /\ late' = FALSE
            BY <1>1, <2>1 DEF selectItem, setting, renderAll
        <3>2. node.kind # "peer" /\ i \in Own(theme)
            BY <2>1 DEF getVisibleItems
        <3>3. i \in getVisibleItems'
            BY <2>1, <3>1, <3>2 DEF getVisibleItems, Own
        <3> QED
            BY <2>1, <3>1, <3>2, <3>3, ItemShown
    <2>2. CASE opened' = Nothing
        BY <2>2, NoLinkFollowed
    <2> QED
        BY <1>1, <2>1, <2>2 DEF selectItem, Shows
<1>2. ASSUME NEW n \in Nodes, selectNode(n) PROVE LandInv'
    BY <1>2, NoLinkFollowed DEF selectNode, Shows
<1>3. ASSUME NEW f \in Filters, setFilter(f) PROVE LandInv'
    BY <1>3, NoLinkFollowed DEF setFilter, Shows
<1> QED
    BY <1>1, <1>2, <1>3 DEF Inbox

LEMMA ClientLands == ASSUME IInv, LandInv, Client PROVE LandInv'
<1>1. ASSUME NEW p \in Posts, selectPost(p) PROVE LandInv'
    <2>1. CASE tab = "client" /\ p \in visiblePosts(acc, tl) /\ opened' = [kind |-> "post", id |-> p]
        <3>1. /\ tab' = "client" /\ theme' = theme /\ profile' = FALSE
              /\ renderStream(acc, tl, p) /\ late' = FALSE
            BY <1>1, <2>1 DEF selectPost, setting, renderAll
        <3>2. PostTheme(p) = theme' /\ (tl = "sent" \/ tl \in {Search, Column[p]})
            BY <2>1 DEF visiblePosts
        <3>3. tl \notin NotPosts
            <4>1. Column[p] \in (Names \ {Manage}) \cup {Nowhere} /\ Names \cap VIRTUAL = {}
                BY ViewAssumption
            <4>2. Column[p] \notin NotPosts
                BY <4>1 DEF NotPosts, NoList, VIRTUAL, Nowhere, Manage
            <4>3. "sent" \notin NotPosts /\ Search \notin NotPosts
                BY DEF NotPosts, NoList, Search, Manage
            <4> QED
                BY <3>2, <4>2, <4>3
        <3>4. theme' \in Themes /\ acc \in Accounts \cup {Nobody}
            BY <3>1, Shown
        <3> QED
            BY <2>1, <3>1, <3>2, <3>3, <3>4, PostShown
    <2>2. CASE opened' = Nothing
        BY <2>2, NoLinkFollowed
    <2> QED
        BY <1>1, <2>1, <2>2 DEF selectPost, Shows
<1>2. ASSUME NEW a \in Accounts \cup {Nobody}, NEW l \in Names \cup VIRTUAL, switchTimeline(a, l)
      PROVE  LandInv'
    BY <1>2, NoLinkFollowed DEF switchTimeline, Shows
<1>3. ASSUME NEW on \in BOOLEAN, openProfile(on) PROVE LandInv'
    BY <1>3, NoLinkFollowed DEF openProfile, Shows
<1>4. CASE search
    BY <1>4, NoLinkFollowed DEF search, Shows
<1>5. CASE closeSearch
    BY <1>5, NoLinkFollowed DEF closeSearch, Shows
<1>6. CASE typeSearch
    <2>1. /\ UNCHANGED <<setting, inbox, profile, user, late, opened>>
          /\ renderStream(acc, tl, post) /\ renderPeers(pub)
        BY <1>6 DEF typeSearch, InClient, page
    <2>2. opened # Nothing => late' = FALSE
        BY <2>1, Shown DEF LandInv, StaysListed
    <2> QED
        BY <2>1, <2>2, StillShown DEF setting
<1> QED
    BY <1>1, <1>2, <1>3, <1>4, <1>5, <1>6 DEF Client

\* A post is opened in a list of posts.
LEMMA PostOpened ==
    ASSUME NEW p \in Posts
    PROVE  openPost(p) \notin NotPosts
<1> DEFINE c == Column[Anchor[p]]
<1>1. AccountOf[p] \in Accounts
    BY ViewAssumption
<1>2. Front[AccountOf[p]] \in Names \ {Manage}
    BY <1>1, ViewAssumption
<1>3. c \in (Names \ {Manage}) \cup {Nowhere}
    BY ThreadAssumption, ViewAssumption
<1>4. openPost(p) = IF c \in Names THEN c ELSE Front[AccountOf[p]]
    BY DEF openPost
<1>5. Nowhere \notin Names
    BY ViewAssumption
<1> HIDE DEF c
<1>6. openPost(p) \in Names \ {Manage}
    BY <1>2, <1>3, <1>4, <1>5
<1> QED
    BY <1>6, ViewAssumption DEF NotPosts, NoList, VIRTUAL

\* A publication is listed under the key it is opened with.
LEMMA PeersLand ==
    ASSUME IInv, NEW q \in Pubs, showPeerView(tab, "all", q),
           opened' = [kind |-> "pub", id |-> q]
    PROVE  LandInv'
<1>1. tab' = tab /\ user' = "all" /\ q \in visible("all") /\ tab \in Tabs
    BY Shown DEF showPeerView, setAppTab, visible
<1>2. CASE tab = "kb"
    <2>1. renderPeers(q) /\ late' = FALSE /\ node'.kind = "peer" /\ node'.value = "all"
        BY <1>2 DEF showPeerView, renderAll
    <2> QED
        BY <1>1, <1>2, <2>1, PubShown
<1>3. CASE tab = "client"
    <2>1. renderPeers(q) /\ late' = FALSE /\ renderStream(acc, "peers", None)
        BY <1>1, <1>3 DEF showPeerView, renderAll
    <2>2. tl' = "peers"
        BY <2>1 DEF renderStream, ensureSelection, VIRTUAL
    <2> QED
        BY <1>1, <1>3, <2>1, <2>2, PubShown
<1> QED
    BY <1>1, <1>2, <1>3 DEF Tabs

LEMMA LinkLands == ASSUME IInv, Link PROVE LandInv'
<1>1. ASSUME NEW i \in Items, openKbItem(i) PROVE LandInv'
    <2>1. /\ tab' = "kb" /\ item' = i /\ opened' = [kind |-> "item", id |-> i]
          /\ theme' = theme /\ node' = All /\ filters' = {} /\ i \in Own(theme) /\ late' = FALSE
        BY <1>1 DEF openKbItem, setAppTab, clearedFilters, Shows, renderAll
    <2>2. node'.kind \notin {"peer", "feed"}
        BY <2>1 DEF All
    <2>3. i \in Own(theme')
        BY <2>1
    <2>4. i \in getVisibleItems'
        BY <2>1, <2>2, <2>3 DEF getVisibleItems, Own
    <2> QED
        BY <2>1, <2>2, <2>3, <2>4, ItemShown
<1>2. ASSUME NEW p \in Posts, openClientPost(p) PROVE LandInv'
    <2>1. tab' = "client" /\ theme' = theme /\ theme' \in Themes
        BY <1>2, Shown DEF openClientPost, setAppTab
    <2>2. CASE PostTheme(p) = theme
        <3>1. /\ renderStream(AccountOf[p], openPost(p), p) /\ opened' = [kind |-> "post", id |-> p]
              /\ profile' = FALSE /\ late' = FALSE /\ PostTheme(p) = theme'
            BY <1>2, <2>1, <2>2 DEF openClientPost, renderAll, Shows
        <3>2. AccountOf[p] \in Accounts \cup {Nobody}
            BY ViewAssumption
        <3> QED
            BY <2>1, <3>1, <3>2, PostOpened, PostShown
    <2>3. CASE PostTheme(p) # theme
        BY <1>2, <2>3, NoLinkFollowed DEF openClientPost, deadEnd, Shows
    <2> QED
        BY <2>2, <2>3
<1>3. ASSUME NEW a \in Accounts, openAccount(a) PROVE LandInv'
    BY <1>3, NoLinkFollowed DEF openAccount, deadEnd, Shows
<1>4. ASSUME NEW t \in Tabs, NEW key \in Keys, showPeers(t, key) PROVE LandInv'
    BY <1>4, NoLinkFollowed DEF showPeers, Shows
<1>5. ASSUME NEW q \in Pubs, gotoPub(q) PROVE LandInv'
    BY <1>5, PeersLand DEF gotoPub, Shows
<1>6. ASSUME NEW q \in Pubs, openPub(q) PROVE LandInv'
    <2>0. CASE opened' = Nothing
        BY <2>0, NoLinkFollowed
    <2>1. CASE opened' # Nothing
        <3>1. /\ tab' = tab /\ user' = user /\ node' = node /\ opened' = [kind |-> "pub", id |-> q]
              /\ renderAll(acc, tl, post, q) /\ tab \in Tabs
              /\ IF tab = "kb" THEN node.kind = "peer" /\ q \in visible(node.value)
                 ELSE tl = "peers" /\ q \in visible(user)
            BY <1>6, <2>1, Shown DEF openPub, setting, inbox, Shows
        <3>2. renderPeers(q) /\ late' = FALSE
            BY <3>1 DEF renderAll
        <3>3. CASE tab = "kb"
            BY <3>1, <3>2, <3>3, PubShown
        <3>4. CASE tab = "client"
            <4>1. tl = "peers" /\ q \in visible(user') /\ tab' = "client"
                BY <3>1, <3>4
            <4>2. tl' = "peers"
                BY <3>1, <4>1 DEF renderAll, renderStream, ensureSelection, VIRTUAL
            <4> QED
                BY <3>1, <3>2, <4>1, <4>2, PubShown
        <3> QED
            BY <3>1, <3>3, <3>4 DEF Tabs
    <2> QED
        BY <2>0, <2>1
<1> QED
    BY <1>1, <1>2, <1>3, <1>4, <1>5, <1>6 DEF Link

LEMMA StepLands == IInv /\ LandInv /\ [Next]_vars => LandInv'
<1>1. ASSUME LandInv, UNCHANGED vars PROVE LandInv'
    BY <1>1 DEF vars, setting, inbox, page, LandInv, LinkShowsTarget, StaysListed, reader, readerKb,
                readerClient, getVisibleItems, Own
<1>2. ASSUME IInv, LandInv, Next PROVE LandInv'
    BY <1>2, PageLands, InboxLands, ClientLands, LinkLands DEF Next, PageStep
<1> QED
    BY <1>1, <1>2

LEMMA InitLands == Init => LandInv
BY DEF Init, LandInv, LinkShowsTarget, StaysListed

(***************************************************************************)
(* Every link, and every click and key in a list of the theme that is      *)
(* shown, leaves the reader on what it leads to, whatever was selected,    *)
(* filtered or searched before, and an item is in the list beside it.      *)
(***************************************************************************)
THEOREM LinksLand == Spec => []LinkShowsTarget
BY InitLands, StepLands, Inductive, PTL DEF Spec, LandInv
================================================================================
