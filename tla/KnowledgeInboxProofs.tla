------------------------- MODULE KnowledgeInboxProofs -------------------------
(***************************************************************************)
(* What holds of the inbox for any themes, posts, links, documents,        *)
(* publications and accounts.  Every item fits among those before it: it   *)
(* stands for a URL they do not stand for, unless it comes from the form   *)
(* or from a publication, is the one copy of its publication, and is a     *)
(* document only of its own theme.                                         *)
(***************************************************************************)
EXTENDS KnowledgeInbox, TLAPS, SequenceTheorems, FiniteSetTheorems, WellFoundedInduction

\* The item in place k of the items s of theme t fits among those before it.
Fits(s, t, k) ==
    /\ s[k].from \in AllDocs => s[k].from \in Docs[t]
    /\ \A j \in 1..(k - 1) :
         /\ s[j].url = s[k].url => s[k].from \in {"form"} \cup Pubs
         /\ s[k].from \in Pubs => s[j].from # s[k].from

ItemsFit == \A t \in Themes : \A k \in DOMAIN items[t] : Fits(items[t], t, k)

\* The URL of a post is one of those it shows.
PostsStand ==
    \A t \in Themes : \A i \in DOMAIN posts[t] : posts[t][i].url \in posts[t][i].urls

Copied(s, p) == \E k \in DOMAIN s : s[k].from = p

\* A theme's book has an import of what there is a copy of.
LedgerFits ==
    \A t \in Themes, p \in Pubs : ledger[t][p]["import"] = IF Copied(items[t], p) THEN 1 ELSE 0

InboxInv == TypeOK /\ ItemsFit /\ PostsStand /\ LedgerFits

(***************************************************************************)
(* Sequences                                                               *)
(***************************************************************************)
LEMMA SetSequenced ==
    ASSUME NEW S, IsFiniteSet(S)
    PROVE  /\ Cardinality(S) \in Nat
           /\ SetToSeq(S) \in Seq(S)
           /\ Len(SetToSeq(S)) = Cardinality(S)
           /\ \A m, n \in 1..Len(SetToSeq(S)) : SetToSeq(S)[m] = SetToSeq(S)[n] => m = n
<1>1. Cardinality(S) \in Nat /\ ExistsBijection(1..Cardinality(S), S)
    BY FS_CardinalityType
<1>2. PICK f \in [1..Cardinality(S) -> S] : IsInjective(f)
    BY <1>1 DEF ExistsBijection, Bijection, Injection, IsInjective
<1>3. SetToSeq(S) \in [1..Cardinality(S) -> S] /\ IsInjective(SetToSeq(S))
    BY <1>2 DEF SetToSeq
<1>4. SetToSeq(S) \in Seq(S) /\ Len(SetToSeq(S)) = Cardinality(S)
    BY <1>1, <1>3
<1> QED
    BY <1>1, <1>3, <1>4, DOMAIN SetToSeq(S) = 1..Len(SetToSeq(S)) DEF IsInjective

LEMMA FunctionIsSeq ==
    ASSUME NEW S, NEW n \in Nat, NEW f \in [1..n -> S]
    PROVE  f \in Seq(S) /\ Len(f) = n
OBVIOUS

\* One of the items with a URL of the post is the newest.
LEMMA ItemFound ==
    ASSUME TypeOK, NEW q \in Post, q.sent <= Len(here)
    PROVE  /\ kbItemFor(here, q) \in 0..Len(here)
           /\ kbItemFor(here, q) = 0 =>
                q.sent = 0 /\ \A k \in DOMAIN here : here[k].url \notin q.urls
<1> DEFINE same == {k \in DOMAIN here : here[k].url \in q.urls}
           back == {Len(here) - k : k \in same}
<1>1. here \in Seq(Item) /\ Len(here) \in Nat /\ DOMAIN here = 1..Len(here)
    BY DEF TypeOK, here
<1>2. q.sent \in Nat
    BY DEF Post
<1>3. ASSUME same # {}
      PROVE  \E k \in same : \A j \in same : j <= k
    <2>1. back \subseteq Nat /\ back # {}
        BY <1>1, <1>3
    <2>2. PICK x \in back : \A y \in back : <<y, x>> \notin OpToRel(<, Nat)
        BY <2>1, NatLessThanWellFounded, WFMin, Zenon
    <2>3. \A y \in back : ~(y < x)
        BY <2>1, <2>2, Zenon DEF OpToRel
    <2>4. PICK k \in same : x = Len(here) - k
        OBVIOUS
    <2>5. ASSUME NEW j \in same
          PROVE  j <= k
        <3>1. Len(here) - j \in back /\ j \in Nat /\ k \in Nat
            BY <1>1
        <3>2. ~(Len(here) - j < Len(here) - k)
            BY <2>3, <2>4, <3>1
        <3> QED
            BY <1>1, <3>1, <3>2
    <2> QED
        BY <2>5
<1>4. CASE q.sent # 0
    BY <1>1, <1>2, <1>4 DEF kbItemFor
<1>5. CASE q.sent = 0 /\ same = {}
    BY <1>1, <1>5 DEF kbItemFor
<1>6. CASE q.sent = 0 /\ same # {}
    <2>1. PICK k \in same : \A j \in same : j <= k
        BY <1>3, <1>6
    <2>2. kbItemFor(here, q) = CHOOSE c \in same : \A j \in same : j <= c
        BY <1>6 DEF kbItemFor
    <2>3. kbItemFor(here, q) \in same
        BY <2>1, <2>2
    <2> QED
        BY <1>1, <2>3
<1> QED
    BY <1>4, <1>5, <1>6

(***************************************************************************)
(* The items of the shown theme become its, of which I are ingested        *)
(***************************************************************************)
\* The items here are still there, with the tags they had and more, and those of
\* withdrawn publications are published or not as they were.
Extends(its) ==
    /\ its \in Seq(Item) /\ Len(here) <= Len(its)
    /\ \A k \in DOMAIN here : /\ its[k].from = here[k].from /\ its[k].url = here[k].url
                              /\ here[k].tags \subseteq its[k].tags
                              /\ here[k].linked => its[k].linked
                              /\ \/ its[k].published = here[k].published
                                 \/ here[k].from \notin retracted

LEMMA HereTyped ==
    ASSUME TypeOK
    PROVE  /\ theme \in Themes /\ here \in Seq(Item) /\ Len(here) \in Nat
           /\ DOMAIN here = 1..Len(here) /\ Extends(here)
           /\ shown \in Seq(Post) /\ Len(shown) \in Nat /\ DOMAIN shown = 1..Len(shown)
           /\ \A i \in DOMAIN shown : shown[i] \in Post /\ shown[i].sent <= Len(here)
BY DEF TypeOK, here, shown, Extends

LEMMA FitsAsBefore ==
    ASSUME NEW t, NEW s, NEW r, NEW k \in Nat \ {0}, Fits(s, t, k),
           \A j \in 1..k : r[j].from = s[j].from /\ r[j].url = s[j].url
    PROVE  Fits(r, t, k)
BY DEF Fits

\* What EntitiesNeedDocuments asks of a step.
Documented ==
    \A t \in Themes : \A e \in entities'[t] \ entities[t] :
        \/ e \in GraphNames[t]
        \/ \E k \in DOMAIN items'[t] : items'[t][k].linked /\ e \in items'[t][k].doc

\* What an action on the items has to show.
Stocked ==
    /\ DOMAIN items' = Themes
    /\ \A t \in Themes : items'[t] \in Seq(Item) /\ Len(items[t]) <= Len(items'[t])
    /\ entities' \in [Themes -> SUBSET Names]
    /\ ItemsFit' /\ Documented

\* The items of the shown theme are those of its, and the other themes' are
\* untouched.
Now(its) ==
    /\ Stocked
    /\ Len(items'[theme]) = Len(its)
    /\ \A t \in Themes \ {theme} : items'[t] = items[t]
    /\ \A k \in DOMAIN its : /\ items'[theme][k].from = its[k].from
                             /\ items'[theme][k].published = its[k].published

LEMMA ItemIngested ==
    ASSUME NEW i \in Item, NEW b \in BOOLEAN
    PROVE  LET j == ingested(i, b) IN
           /\ j \in Item /\ j.from = i.from /\ j.url = i.url /\ j.tags = i.tags
           /\ j.published = i.published /\ (i.linked => j.linked)
           /\ b => j.linked /\ j.doc = i.tags \ Noise
<1> DEFINE v == i.linked \/ b
           d == IF b THEN i.tags \ Noise ELSE i.doc
<1>1. v \in BOOLEAN /\ (i.linked => v) /\ (b => v)
    OBVIOUS
<1>2. d \in SUBSET Names /\ (b => d = i.tags \ Noise)
    BY DEF Item
<1>3. ingested(i, b) = [i EXCEPT !.linked = v, !.doc = d]
    BY DEF ingested, Item
<1> HIDE DEF v, d
<1>4. LET j == [i EXCEPT !.linked = v, !.doc = d] IN
      /\ j \in Item /\ j.from = i.from /\ j.url = i.url /\ j.tags = i.tags
      /\ j.published = i.published /\ j.linked = v /\ j.doc = d
    BY <1>1, <1>2 DEF Item
<1> QED
    BY <1>1, <1>2, <1>3, <1>4

LEMMA Becoming ==
    ASSUME InboxInv, NEW its, NEW I \in SUBSET DOMAIN its, Become(its, I), Extends(its),
           \A k \in DOMAIN its \ DOMAIN here : Fits(its, theme, k)
    PROVE  Now(its)
<1> DEFINE its2 == [k \in DOMAIN its |-> ingested(its[k], k \in I)]
<1>1. /\ theme \in Themes /\ here \in Seq(Item) /\ Len(here) \in Nat /\ DOMAIN here = 1..Len(here)
      /\ here = items[theme]
    BY HereTyped DEF InboxInv, here
<1>2. its \in Seq(Item) /\ Len(its) \in Nat /\ DOMAIN its = 1..Len(its) /\ Len(here) <= Len(its)
    BY DEF Extends
<1>3. \A k \in DOMAIN its : /\ its2[k] \in Item /\ its2[k].from = its[k].from
                            /\ its2[k].url = its[k].url /\ its2[k].tags = its[k].tags
                            /\ its2[k].published = its[k].published
                            /\ (its[k].linked => its2[k].linked)
                            /\ k \in I => its2[k].linked /\ its2[k].doc = its[k].tags \ Noise
    <2> TAKE k \in DOMAIN its
    <2>1. its[k] \in Item /\ (k \in I) \in BOOLEAN
        BY <1>2
    <2>2. its2[k] = ingested(its[k], k \in I)
        OBVIOUS
    <2> DEFINE i == its[k]
               b == k \in I
    <2>3. i \in Item /\ b \in BOOLEAN /\ its2[k] = ingested(i, b)
        BY <2>1, <2>2
    <2> HIDE DEF its2, i, b
    <2>4. /\ its2[k] \in Item /\ its2[k].from = i.from /\ its2[k].url = i.url
          /\ its2[k].tags = i.tags /\ its2[k].published = i.published
          /\ (i.linked => its2[k].linked)
          /\ b => its2[k].linked /\ its2[k].doc = i.tags \ Noise
        BY <2>3, ItemIngested
    <2> QED
        BY <2>4 DEF i, b
<1>4. its2 \in Seq(Item) /\ Len(its2) = Len(its)
    <2>1. its2 \in [1..Len(its) -> Item]
        BY <1>2, <1>3
    <2> QED
        BY <1>2, <2>1, FunctionIsSeq
<1>5. DOMAIN items = Themes /\ \A t \in Themes : items[t] \in Seq(Item)
    BY DEF InboxInv, TypeOK
<1>6. items' = [items EXCEPT ![theme] = its2]
    BY DEF Become
<1> HIDE DEF its2
<1>7. /\ DOMAIN items' = Themes /\ items'[theme] = its2
      /\ \A t \in Themes \ {theme} : items'[t] = items[t]
    BY <1>1, <1>5, <1>6
<1>8. \A t \in Themes : items'[t] \in Seq(Item) /\ Len(items[t]) <= Len(items'[t])
    BY <1>1, <1>2, <1>4, <1>5, <1>7
<1>9. entities' = [entities EXCEPT ![theme] = @ \cup UNION {its[k].tags \ Noise : k \in I}]
    BY DEF Become
<1>10. entities' \in [Themes -> SUBSET Names]
    <2>1. \A k \in I : its[k].tags \subseteq Names
        <3>1. ASSUME NEW i \in Item
              PROVE  i.tags \subseteq Names
            BY DEF Item
        <3> QED
            BY <1>2, <3>1
    <2>2. UNION {its[k].tags \ Noise : k \in I} \subseteq Names
        BY <2>1
    <2> QED
        BY <1>1, <1>9, <2>2 DEF InboxInv, TypeOK
<1>11. ItemsFit'
    <2> SUFFICES ASSUME NEW t \in Themes, NEW k \in DOMAIN items'[t]
                 PROVE  Fits(items'[t], t, k)
        BY DEF ItemsFit, Fits
    <2>1. CASE t # theme
        BY <1>7, <2>1 DEF InboxInv, ItemsFit
    <2>2. CASE t = theme /\ k \in DOMAIN here
        <3>1. Fits(here, t, k)
            BY <1>1, <2>2 DEF InboxInv, ItemsFit
        <3>2. k \in Nat \ {0} /\ k <= Len(here)
            BY <1>1, <2>2
        <3>3. \A j \in 1..k : its2[j].from = here[j].from /\ its2[j].url = here[j].url
            <4>1. \A j \in 1..k : j \in DOMAIN here /\ j \in DOMAIN its
                BY <1>1, <1>2, <3>2
            <4> QED
                BY <1>3, <4>1 DEF Extends
        <3> QED
            BY <1>7, <2>2, <3>1, <3>2, <3>3, FitsAsBefore
    <2>3. CASE t = theme /\ k \notin DOMAIN here
        <3>1. k \in DOMAIN its /\ k \in Nat \ {0} /\ k <= Len(its)
            BY <1>2, <1>4, <1>7, <2>3
        <3>2. \A j \in 1..k : its2[j].from = its[j].from /\ its2[j].url = its[j].url
            BY <1>2, <1>3, <3>1
        <3>3. Fits(its, t, k)
            BY <2>3, <3>1
        <3> QED
            BY <1>7, <2>3, <3>1, <3>2, <3>3, FitsAsBefore
    <2> QED
        BY <2>1, <2>2, <2>3
<1>12. Documented
    <2> SUFFICES ASSUME NEW t \in Themes, NEW e \in entities'[t], e \notin entities[t]
                 PROVE  \E k \in DOMAIN items'[t] : items'[t][k].linked /\ e \in items'[t][k].doc
        BY DEF Documented
    <2>1. t = theme /\ e \in UNION {its[k].tags \ Noise : k \in I}
        BY <1>1, <1>9 DEF InboxInv, TypeOK
    <2>2. PICK k \in I : e \in its[k].tags \ Noise
        BY <2>1
    <2>3. k \in DOMAIN its /\ k \in DOMAIN its2
        BY <1>2, <1>4
    <2> QED
        BY <1>3, <1>7, <2>1, <2>2, <2>3
<1> QED
    BY <1>1, <1>2, <1>3, <1>4, <1>7, <1>8, <1>10, <1>11, <1>12 DEF Stocked, Now

\* Where no item is made of p, as many have a copy of it as before.
LEMMA CopiesKept ==
    ASSUME InboxInv, NEW its, Extends(its), Now(its), NEW p,
           \A k \in DOMAIN its \ DOMAIN here : its[k].from # p
    PROVE  \A t \in Themes : Copied(items'[t], p) <=> Copied(items[t], p)
<1>1. /\ theme \in Themes /\ here = items[theme] /\ DOMAIN here = 1..Len(here) /\ Len(here) \in Nat
      /\ its \in Seq(Item) /\ Len(its) \in Nat /\ DOMAIN its = 1..Len(its) /\ Len(here) <= Len(its)
      /\ \A k \in DOMAIN here : its[k].from = here[k].from
    BY HereTyped DEF InboxInv, here, Extends
<1>2. /\ DOMAIN items'[theme] = DOMAIN its
      /\ \A k \in DOMAIN its : items'[theme][k].from = its[k].from
      /\ \A t \in Themes \ {theme} : items'[t] = items[t]
    <2>1. items'[theme] \in Seq(Item) /\ Len(items'[theme]) = Len(its)
        BY <1>1 DEF Now, Stocked
    <2> QED
        BY <1>1, <2>1 DEF Now
<1>3. \A k \in DOMAIN here : k \in DOMAIN its
    BY <1>1
<1>4. Copied(items'[theme], p) <=> Copied(items[theme], p)
    BY <1>1, <1>2, <1>3 DEF Copied
<1> QED
    BY <1>2, <1>4

\* The posts of the themes, next to their items.
PostsTyped ==
    /\ DOMAIN posts = Themes
    /\ \A t \in Themes : posts[t] \in Seq(Post)
    /\ \A t \in Themes : \A i \in DOMAIN posts[t] : posts[t][i].sent <= Len(items[t])

LEMMA PostsKept ==
    ASSUME InboxInv, posts' = posts, Stocked
    PROVE  PostsTyped' /\ PostsStand'
<1>1. PostsStand'
    BY DEF InboxInv, PostsStand
<1>2. ASSUME NEW t \in Themes, NEW i \in DOMAIN posts[t]
      PROVE  posts[t][i].sent <= Len(items'[t])
    <2>1. /\ posts[t] \in Seq(Post) /\ posts[t][i].sent <= Len(items[t])
          /\ items[t] \in Seq(Item) /\ items'[t] \in Seq(Item) /\ Len(items[t]) <= Len(items'[t])
        BY DEF InboxInv, TypeOK, Stocked
    <2>2. posts[t][i].sent \in Nat
        <3>1. posts[t][i] \in Post
            BY <2>1
        <3> QED
            BY <3>1 DEF Post
    <2>3. Len(items[t]) \in Nat /\ Len(items'[t]) \in Nat
        BY <2>1
    <2> QED
        BY <2>1, <2>2, <2>3
<1> QED
    BY <1>1, <1>2 DEF InboxInv, TypeOK, PostsTyped

\* What RetractionRespected asks of a step.
RetractedLeftAlone ==
    \A p \in retracted \cap retracted' :
        /\ \A t \in Themes : ledger'[t][p] = ledger[t][p]
        /\ \A t \in Themes : \A k \in DOMAIN items[t] :
             items[t][k].from = p => items'[t][k].published = items[t][k].published

LEMMA CopiesLeftAlone ==
    ASSUME InboxInv, NEW its, Extends(its), Now(its), NEW t \in Themes, NEW k \in DOMAIN items[t],
           items[t][k].from \in retracted
    PROVE  items'[t][k].published = items[t][k].published
<1>1. CASE t = theme
    <2>1. k \in DOMAIN here /\ DOMAIN here = 1..Len(here) /\ Len(here) \in Nat /\ here = items[theme]
        BY <1>1, HereTyped DEF InboxInv, here
    <2>2. k \in DOMAIN its
        BY <2>1 DEF Extends
    <2> QED
        BY <1>1, <2>1, <2>2 DEF Extends, Now
<1>2. CASE t # theme
    BY <1>2 DEF Now
<1> QED
    BY <1>1, <1>2

\* What is done with items and posts but not with publications.
LEMMA ItemsOnly ==
    ASSUME InboxInv, NEW its, Extends(its), Now(its), PostsTyped', PostsStand',
           \A k \in DOMAIN its \ DOMAIN here : its[k].from \notin Pubs,
           UNCHANGED <<theme, peers, syncs>>,
           feeds' \in [Themes -> SUBSET AllFeeds], slot' \in [Themes -> SUBSET AllFeeds]
    PROVE  InboxInv' /\ RetractedLeftAlone /\ Documented
<1>1. LedgerFits'
    <2>1. ledger' = ledger
        BY DEF peers
    <2>2. \A p \in Pubs, t \in Themes : Copied(items'[t], p) <=> Copied(items[t], p)
        BY CopiesKept
    <2> QED
        BY <2>1, <2>2 DEF InboxInv, LedgerFits
<1>2. TypeOK'
    BY DEF InboxInv, TypeOK, PostsTyped, Now, Stocked, peers
<1>3. RetractedLeftAlone
    BY CopiesLeftAlone DEF RetractedLeftAlone, peers
<1> QED
    BY <1>1, <1>2, <1>3 DEF InboxInv, Now, Stocked

(***************************************************************************)
(* The ways into the inbox                                                 *)
(***************************************************************************)
LEMMA NewItem ==
    ASSUME NEW from \in {"post", "link", "form"} \cup AllDocs \cup Pubs, NEW url \in Urls,
           NEW tags \in SUBSET Names
    PROVE  LET i == newItem(from, url, tags) IN
           /\ i \in Item /\ i.from = from /\ i.url = url /\ i.tags = tags
           /\ i.linked = FALSE /\ i.doc = {} /\ i.published = FALSE
BY DEF newItem, Item

LEMMA ItemAppended ==
    ASSUME InboxInv, NEW i \in Item, i.from \notin AllDocs,
           i.from \in Pubs => ~Copied(here, i.from),
           \A k \in DOMAIN here : here[k].url = i.url => i.from \in {"form"} \cup Pubs
    PROVE  LET its == Append(here, i) IN
           /\ Extends(its) /\ Len(its) = Len(here) + 1 /\ its[Len(its)] = i
           /\ \A k \in DOMAIN its \ DOMAIN here : k = Len(its) /\ Fits(its, theme, k)
<1> DEFINE its == Append(here, i)
<1>1. here \in Seq(Item) /\ Len(here) \in Nat /\ DOMAIN here = 1..Len(here)
    BY HereTyped DEF InboxInv
<1>2. /\ its \in Seq(Item) /\ Len(its) = Len(here) + 1 /\ DOMAIN its = 1..(Len(here) + 1)
      /\ its[Len(here) + 1] = i
      /\ \A k \in DOMAIN here : its[k] = here[k]
    BY <1>1
<1> HIDE DEF its
<1>3. Extends(its)
    BY <1>1, <1>2 DEF Extends
<1>4. Fits(its, theme, Len(here) + 1)
    <2>1. 1..(Len(here) + 1 - 1) = DOMAIN here
        BY <1>1
    <2> QED
        BY <1>2, <2>1 DEF Fits, Copied
<1>5. \A k \in DOMAIN its \ DOMAIN here : k = Len(here) + 1
    BY <1>1, <1>2
<1>6. QED
    BY <1>2, <1>3, <1>4, <1>5 DEF its

LEMMA Ingested ==
    ASSUME InboxInv, NEW I \in SUBSET DOMAIN here, Become(here, I),
           UNCHANGED <<theme, posts, registered, peers, syncs>>
    PROVE  InboxInv' /\ RetractedLeftAlone /\ Documented
<1>1. Extends(here) /\ Now(here)
    BY HereTyped, Becoming DEF InboxInv
<1>2. PostsTyped' /\ PostsStand'
    BY <1>1, PostsKept DEF Now
<1>3. feeds' \in [Themes -> SUBSET AllFeeds] /\ slot' \in [Themes -> SUBSET AllFeeds]
    BY DEF InboxInv, TypeOK, registered
<1> QED
    BY <1>1, <1>2, <1>3, ItemsOnly

LEMMA LinkSent ==
    ASSUME InboxInv, NEW url \in Links, sendLinkToKb(url)
    PROVE  InboxInv' /\ RetractedLeftAlone /\ Documented
<1> DEFINE i == newItem("link", url, {})
           its == Append(here, i)
<1>1. i \in Item /\ i.from = "link" /\ i.url = url
    <2>1. url \in Urls /\ {} \in SUBSET Names
        BY InboxAssumption
    <2> QED
        BY <2>1 DEF newItem, Item
<1>2. Become(its, {}) /\ \A k \in DOMAIN here : here[k].url # url
    BY DEF sendLinkToKb
<1> HIDE DEF i
<1>3. i.from \notin AllDocs /\ i.from \notin Pubs
    BY <1>1, InboxAssumption
<1>4. /\ Extends(its) /\ \A k \in DOMAIN its \ DOMAIN here : k = Len(its) /\ Fits(its, theme, k)
      /\ its[Len(its)] = i
    BY <1>1, <1>2, <1>3, ItemAppended
<1> HIDE DEF its
<1>5. Now(its)
    BY <1>2, <1>4, Becoming
<1>6. PostsTyped' /\ PostsStand'
    BY <1>5, PostsKept DEF Now, sendLinkToKb
<1>7. feeds' \in [Themes -> SUBSET AllFeeds] /\ slot' \in [Themes -> SUBSET AllFeeds]
    BY DEF InboxInv, TypeOK, registered, sendLinkToKb
<1> QED
    BY <1>3, <1>4, <1>5, <1>6, <1>7, ItemsOnly DEF sendLinkToKb

LEMMA Subscribed ==
    ASSUME InboxInv, NEW url \in Links, NEW name \in Typed, Subscribe(url, {name})
    PROVE  InboxInv' /\ RetractedLeftAlone /\ Documented
<1> DEFINE i == newItem("form", url, {name})
           its == Append(here, i)
<1>1. i \in Item /\ i.from = "form"
    <2>1. url \in Urls /\ {name} \in SUBSET Names
        BY InboxAssumption
    <2> QED
        BY <2>1 DEF newItem, Item
<1>2. Become(its, {})
    BY DEF Subscribe
<1> HIDE DEF i
<1>3. i.from \notin AllDocs /\ i.from \notin Pubs
    BY <1>1, InboxAssumption
<1>4. /\ Extends(its) /\ \A k \in DOMAIN its \ DOMAIN here : k = Len(its) /\ Fits(its, theme, k)
      /\ its[Len(its)] = i
    BY <1>1, <1>2, <1>3, ItemAppended
<1> HIDE DEF its
<1>5. Now(its)
    BY <1>2, <1>4, Becoming
<1>6. PostsTyped' /\ PostsStand'
    BY <1>5, PostsKept DEF Now, Subscribe
<1>7. feeds' \in [Themes -> SUBSET AllFeeds] /\ slot' \in [Themes -> SUBSET AllFeeds]
    BY DEF InboxInv, TypeOK, registered, Subscribe
<1> QED
    BY <1>3, <1>4, <1>5, <1>6, <1>7, ItemsOnly DEF Subscribe

LEMMA TagAdded ==
    ASSUME InboxInv, NEW k \in DOMAIN here, NEW name \in Typed, AddTag(k, name)
    PROVE  InboxInv' /\ RetractedLeftAlone /\ Documented
<1> DEFINE i == [here[k] EXCEPT !.tags = @ \cup {name}]
           its == [here EXCEPT ![k].tags = @ \cup {name}]
<1>1. here \in Seq(Item) /\ Len(here) \in Nat /\ DOMAIN here = 1..Len(here) /\ here[k] \in Item
    BY HereTyped DEF InboxInv
<1>2. /\ i \in Item /\ i.from = here[k].from /\ i.url = here[k].url /\ i.linked = here[k].linked
      /\ here[k].tags \subseteq i.tags /\ i.published = here[k].published
    <2>1. name \in Names
        BY InboxAssumption
    <2> QED
        BY <1>1, <2>1 DEF Item
<1>3. its = [here EXCEPT ![k] = i]
    BY <1>1
<1>4. Become(its, {})
    BY DEF AddTag
<1> HIDE DEF i, its
<1>5. /\ its \in Seq(Item) /\ Len(its) = Len(here) /\ DOMAIN its = DOMAIN here
      /\ \A j \in DOMAIN here : its[j] = IF j = k THEN i ELSE here[j]
    BY <1>1, <1>2, <1>3
<1>6. Extends(its)
    BY <1>1, <1>2, <1>5 DEF Extends
<1>7. Now(its)
    BY <1>4, <1>5, <1>6, Becoming
<1>8. PostsTyped' /\ PostsStand'
    BY <1>7, PostsKept DEF Now, AddTag
<1>9. feeds' \in [Themes -> SUBSET AllFeeds] /\ slot' \in [Themes -> SUBSET AllFeeds]
    BY DEF InboxInv, TypeOK, registered, AddTag
<1> QED
    BY <1>5, <1>6, <1>7, <1>8, <1>9, ItemsOnly DEF AddTag

LEMMA EntityAdded ==
    ASSUME InboxInv, NEW k \in DOMAIN here, NEW name \in Typed, AddEntity(k, name)
    PROVE  InboxInv' /\ RetractedLeftAlone /\ Documented
<1> DEFINE i == [here[k] EXCEPT !.doc = @ \cup {name}]
           its == [here EXCEPT ![k] = i]
<1>1. /\ here \in Seq(Item) /\ Len(here) \in Nat /\ DOMAIN here = 1..Len(here) /\ here[k] \in Item
      /\ theme \in Themes /\ here = items[theme] /\ name \in Names
    BY HereTyped, InboxAssumption DEF InboxInv, here
<1>2. /\ i \in Item /\ i.from = here[k].from /\ i.url = here[k].url /\ i.linked = here[k].linked
      /\ i.tags = here[k].tags /\ i.published = here[k].published /\ name \in i.doc
    BY <1>1 DEF Item
<1>3. /\ items' = [items EXCEPT ![theme] = its] /\ here[k].linked
      /\ entities' = [entities EXCEPT ![theme] = @ \cup {name}]
      /\ UNCHANGED <<theme, posts, registered, peers, syncs>>
    BY <1>1 DEF AddEntity, InboxInv, TypeOK
<1> HIDE DEF i
<1>4. /\ its \in Seq(Item) /\ Len(its) = Len(here) /\ DOMAIN its = DOMAIN here
      /\ \A j \in DOMAIN here : its[j] = IF j = k THEN i ELSE here[j]
    BY <1>1, <1>2
<1> HIDE DEF its
<1>5. Extends(its)
    BY <1>1, <1>2, <1>4 DEF Extends
<1>6. /\ DOMAIN items' = Themes /\ items'[theme] = its
      /\ \A t \in Themes \ {theme} : items'[t] = items[t]
      /\ entities' \in [Themes -> SUBSET Names]
      /\ \A t \in Themes : \A e \in entities'[t] \ entities[t] : t = theme /\ e = name
    BY <1>1, <1>3 DEF InboxInv, TypeOK
<1>7. \A t \in Themes : items'[t] \in Seq(Item) /\ Len(items[t]) <= Len(items'[t])
    BY <1>1, <1>4, <1>6 DEF InboxInv, TypeOK
<1>8. ItemsFit'
    <2> SUFFICES ASSUME NEW t \in Themes, NEW j \in DOMAIN items'[t]
                 PROVE  Fits(items'[t], t, j)
        BY DEF ItemsFit, Fits
    <2>1. CASE t # theme
        BY <1>6, <2>1 DEF InboxInv, ItemsFit
    <2>2. CASE t = theme
        <3>1. j \in DOMAIN here /\ j \in Nat \ {0} /\ \A l \in 1..j : l \in DOMAIN here
            BY <1>1, <1>4, <1>6, <2>2
        <3>2. Fits(here, t, j)
            BY <1>1, <2>2, <3>1 DEF InboxInv, ItemsFit
        <3>3. \A l \in 1..j : its[l].from = here[l].from /\ its[l].url = here[l].url
            BY <1>2, <1>4, <3>1
        <3> QED
            BY <1>6, <2>2, <3>1, <3>2, <3>3, FitsAsBefore
    <2> QED
        BY <2>1, <2>2
<1>9. Documented
    <2>1. k \in DOMAIN items'[theme] /\ items'[theme][k].linked /\ name \in items'[theme][k].doc
        BY <1>2, <1>3, <1>4, <1>6
    <2> QED
        BY <1>6, <2>1 DEF Documented
<1>10. Now(its)
    BY <1>4, <1>6, <1>7, <1>8, <1>9 DEF Now, Stocked
<1>11. PostsTyped' /\ PostsStand'
    BY <1>3, <1>10, PostsKept DEF Now
<1>12. feeds' \in [Themes -> SUBSET AllFeeds] /\ slot' \in [Themes -> SUBSET AllFeeds]
    BY <1>3 DEF InboxInv, TypeOK, registered
<1> QED
    BY <1>3, <1>4, <1>5, <1>10, <1>11, <1>12, ItemsOnly

\* Posts that become items one after the other: none of them has one, and none
\* shows what a post before it stands for.
LEMMA PostsBecomeItems ==
    ASSUME InboxInv, NEW order \in Seq(DOMAIN shown),
           \A n \in DOMAIN order : \A k \in DOMAIN here : here[k].url \notin shown[order[n]].urls,
           \A m, n \in DOMAIN order : m < n => shown[order[m]].url \notin shown[order[n]].urls
    PROVE  LET its == createKbItemFromPost(here, shown, order).items IN
           /\ Extends(its) /\ Len(its) = Len(here) + Len(order)
           /\ \A k \in DOMAIN its \ DOMAIN here : its[k].from = "post" /\ Fits(its, theme, k)
<1> DEFINE new == [n \in DOMAIN order |-> newItem("post", shown[order[n]].url, shown[order[n]].tags)]
           its == here \o new
<1>1. /\ theme \in Themes /\ here \in Seq(Item) /\ Len(here) \in Nat /\ DOMAIN here = 1..Len(here)
      /\ shown = posts[theme] /\ \A i \in DOMAIN shown : shown[i] \in Post
    BY HereTyped DEF InboxInv, shown
<1>2. Len(order) \in Nat /\ DOMAIN order = 1..Len(order) /\ \A n \in DOMAIN order : order[n] \in DOMAIN shown
    OBVIOUS
<1>3. \A n \in DOMAIN order : new[n] \in Item /\ new[n].from = "post" /\ new[n].url = shown[order[n]].url
    <2> TAKE n \in DOMAIN order
    <2>1. shown[order[n]] \in Post
        BY <1>1, <1>2
    <2>2. shown[order[n]].url \in Urls /\ shown[order[n]].tags \in SUBSET Names
        BY <2>1 DEF Post
    <2>3. new[n] = newItem("post", shown[order[n]].url, shown[order[n]].tags)
        OBVIOUS
    <2> HIDE DEF new
    <2> QED
        BY <2>2, <2>3 DEF newItem, Item
<1>4. new \in Seq(Item) /\ Len(new) = Len(order)
    <2>1. new \in [1..Len(order) -> Item]
        BY <1>2, <1>3
    <2> HIDE DEF new
    <2> QED
        BY <1>2, <2>1, FunctionIsSeq
<1> HIDE DEF new
<1>5. /\ its \in Seq(Item) /\ Len(its) = Len(here) + Len(order)
      /\ DOMAIN its = 1..(Len(here) + Len(order))
      /\ \A k \in 1..(Len(here) + Len(order)) :
           its[k] = IF k <= Len(here) THEN here[k] ELSE new[k - Len(here)]
    <2>1. here \o new \in Seq(Item) /\ Len(here \o new) = Len(here) + Len(new)
        BY <1>1, <1>4, ConcatProperties
    <2>2. \A k \in 1..(Len(here) + Len(new)) :
            (here \o new)[k] = IF k <= Len(here) THEN here[k] ELSE new[k - Len(here)]
        BY <1>1, <1>4, ConcatProperties
    <2>3. its = here \o new
        OBVIOUS
    <2> HIDE DEF its
    <2> QED
        BY <1>4, <2>1, <2>2, <2>3
<1> HIDE DEF its
<1>6. Extends(its)
    BY <1>1, <1>2, <1>5 DEF Extends
<1>7. ASSUME NEW k \in DOMAIN its \ DOMAIN here
      PROVE  its[k].from = "post" /\ Fits(its, theme, k)
    <2> DEFINE n == k - Len(here)
    <2>1. n \in DOMAIN order /\ k \in Nat /\ k > Len(here) /\ its[k] = new[n]
        BY <1>1, <1>2, <1>5
    <2> HIDE DEF n
    <2>2. its[k].from = "post" /\ its[k].url = shown[order[n]].url
        BY <1>3, <2>1
    <2>3. order[n] \in DOMAIN shown /\ shown[order[n]].url \in shown[order[n]].urls
        BY <1>1, <1>2, <2>1 DEF InboxInv, PostsStand
    <2>4. its[k].from \notin AllDocs /\ its[k].from \notin Pubs
        BY <2>2, InboxAssumption
    <2>5. ASSUME NEW j \in 1..(k - 1)
          PROVE  its[j].url # its[k].url
        <3>1. CASE j <= Len(here)
            <4>1. j \in DOMAIN here /\ its[j] = here[j]
                BY <1>1, <1>2, <1>5, <3>1
            <4> QED
                BY <2>1, <2>2, <2>3, <4>1
        <3>2. CASE j > Len(here)
            <4> DEFINE m == j - Len(here)
            <4>1. m \in DOMAIN order /\ m < n /\ its[j] = new[m]
                BY <1>1, <1>2, <1>5, <2>1, <3>2 DEF n
            <4> HIDE DEF m
            <4>2. its[j].url = shown[order[m]].url
                BY <1>3, <4>1
            <4> QED
                BY <2>1, <2>2, <2>3, <4>1, <4>2
        <3> QED
            BY <1>1, <2>1, <3>1, <3>2
    <2> QED
        BY <2>2, <2>3, <2>4, <2>5 DEF Fits
<1> QED
    BY <1>5, <1>6, <1>7 DEF createKbItemFromPost, its, new

LEMMA PostsKnowTheirItems ==
    ASSUME InboxInv, NEW order \in Seq(DOMAIN shown),
           Now(createKbItemFromPost(here, shown, order).items),
           posts' = [posts EXCEPT ![theme] = createKbItemFromPost(here, shown, order).posts],
           Len(createKbItemFromPost(here, shown, order).items) = Len(here) + Len(order)
    PROVE  PostsTyped' /\ PostsStand'
<1> DEFINE chosen(i) == CHOOSE n \in DOMAIN order : order[n] = i
           ps == [i \in DOMAIN shown |->
                    IF \E n \in DOMAIN order : order[n] = i
                    THEN [shown[i] EXCEPT !.sent = Len(here) + chosen(i)] ELSE shown[i]]
<1>1. /\ theme \in Themes /\ Len(here) \in Nat /\ here = items[theme]
      /\ shown = posts[theme] /\ shown \in Seq(Post) /\ Len(shown) \in Nat
      /\ DOMAIN shown = 1..Len(shown)
      /\ \A i \in DOMAIN shown : shown[i] \in Post /\ shown[i].sent <= Len(here)
    BY HereTyped DEF InboxInv, shown, here
<1>2. Len(order) \in Nat /\ DOMAIN order = 1..Len(order)
    OBVIOUS
<1>3. posts' = [posts EXCEPT ![theme] = ps]
    BY DEF createKbItemFromPost
<1>4. ASSUME NEW i \in DOMAIN shown
      PROVE  /\ ps[i] \in Post /\ ps[i].sent <= Len(here) + Len(order)
             /\ ps[i].url = shown[i].url /\ ps[i].urls = shown[i].urls
    <2>1. CASE \E n \in DOMAIN order : order[n] = i
        <3> DEFINE c == Len(here) + chosen(i)
        <3>1. chosen(i) \in DOMAIN order
            BY <2>1
        <3>2. c \in Nat /\ c <= Len(here) + Len(order)
            BY <1>1, <1>2, <3>1
        <3>3. ps[i] = [shown[i] EXCEPT !.sent = c]
            BY <2>1
        <3> HIDE DEF c, ps, chosen
        <3> QED
            BY <1>1, <3>2, <3>3 DEF Post
    <2>2. CASE ~\E n \in DOMAIN order : order[n] = i
        <3>1. ps[i] = shown[i]
            BY <2>2
        <3>2. shown[i].sent \in Nat
            BY <1>1 DEF Post
        <3> HIDE DEF ps
        <3> QED
            BY <1>1, <1>2, <3>1, <3>2
    <2> QED
        BY <2>1, <2>2
<1>5. ps \in Seq(Post) /\ DOMAIN ps = DOMAIN shown
    <2>1. ps \in [1..Len(shown) -> Post]
        BY <1>1, <1>4
    <2> HIDE DEF ps
    <2> QED
        BY <1>1, <2>1, FunctionIsSeq
<1> HIDE DEF ps
<1>6. /\ DOMAIN posts' = Themes /\ posts'[theme] = ps
      /\ \A t \in Themes \ {theme} : posts'[t] = posts[t] /\ items'[t] = items[t]
      /\ Len(items'[theme]) = Len(here) + Len(order)
    BY <1>1, <1>3 DEF InboxInv, TypeOK, Now
<1>7. PostsTyped'
    <2>1. ASSUME NEW t \in Themes
          PROVE  /\ posts'[t] \in Seq(Post)
                 /\ \A i \in DOMAIN posts'[t] : posts'[t][i].sent <= Len(items'[t])
        <3>1. CASE t = theme
            BY <1>4, <1>5, <1>6, <3>1
        <3>2. CASE t # theme
            BY <1>6, <3>2 DEF InboxInv, TypeOK
        <3> QED
            BY <3>1, <3>2
    <2> QED
        BY <1>6, <2>1 DEF PostsTyped
<1>8. PostsStand'
    <2>1. ASSUME NEW t \in Themes, NEW i \in DOMAIN posts'[t]
          PROVE  posts'[t][i].url \in posts'[t][i].urls
        <3>1. CASE t = theme
            <4>1. i \in DOMAIN shown /\ posts'[t][i] = ps[i]
                BY <1>5, <1>6, <3>1
            <4>2. shown[i].url \in shown[i].urls
                BY <1>1, <4>1 DEF InboxInv, PostsStand
            <4>3. ps[i].url = shown[i].url /\ ps[i].urls = shown[i].urls
                BY <1>4, <4>1
            <4> QED
                BY <4>1, <4>2, <4>3
        <3>2. CASE t # theme
            BY <1>6, <3>2 DEF InboxInv, PostsStand
        <3> QED
            BY <3>1, <3>2
    <2> QED
        BY <2>1 DEF PostsStand
<1> QED
    BY <1>7, <1>8

LEMMA PostSent ==
    ASSUME InboxInv, NEW i \in DOMAIN shown, NEW ingestNow \in BOOLEAN, sendToKb(i, ingestNow)
    PROVE  InboxInv' /\ RetractedLeftAlone /\ Documented
<1> DEFINE k == kbItemFor(here, shown[i])
           new == createKbItemFromPost(here, shown, <<i>>)
           I == IF ingestNow THEN {Len(new.items)} ELSE {}
<1>1. /\ shown[i] \in Post /\ shown[i].sent <= Len(here) /\ DOMAIN here = 1..Len(here)
      /\ Len(here) \in Nat
    BY HereTyped DEF InboxInv
<1>2. /\ k \in 0..Len(here)
      /\ k = 0 => \A j \in DOMAIN here : here[j].url \notin shown[i].urls
    BY <1>1, ItemFound DEF InboxInv
<1>3. CASE k # 0
    <2>1. k \in DOMAIN here /\ ingestItemToClaire(k)
        BY <1>1, <1>2, <1>3 DEF sendToKb
    <2> QED
        BY <2>1, Ingested DEF ingestItemToClaire
<1>4. CASE k = 0
    <2>1. /\ Become(new.items, I) /\ posts' = [posts EXCEPT ![theme] = new.posts]
          /\ UNCHANGED <<theme, registered, peers, syncs>>
        BY <1>4 DEF sendToKb
    <2>2. <<i>> \in Seq(DOMAIN shown) /\ Len(<<i>>) = 1 /\ DOMAIN <<i>> = {1} /\ <<i>>[1] = i
        OBVIOUS
    <2>3. /\ \A n \in DOMAIN <<i>> : \A j \in DOMAIN here : here[j].url \notin shown[<<i>>[n]].urls
          /\ \A m, n \in DOMAIN <<i>> : ~(m < n)
        BY <1>2, <1>4, <2>2
    <2>4. /\ Extends(new.items) /\ Len(new.items) = Len(here) + 1
          /\ \A j \in DOMAIN new.items \ DOMAIN here :
               new.items[j].from = "post" /\ Fits(new.items, theme, j)
        BY <2>2, <2>3, PostsBecomeItems
    <2>5. I \subseteq DOMAIN new.items
        <3>1. DOMAIN new.items = 1..Len(new.items)
            BY <2>4 DEF Extends
        <3> QED
            BY <1>1, <2>4, <3>1
    <2>6. Now(new.items)
        <3> HIDE DEF new, I
        <3> QED
            BY <2>1, <2>4, <2>5, Becoming
    <2>7. PostsTyped' /\ PostsStand'
        BY <2>1, <2>2, <2>4, <2>6, PostsKnowTheirItems
    <2>8. \A j \in DOMAIN new.items \ DOMAIN here : new.items[j].from \notin Pubs
        BY <2>4, InboxAssumption
    <2>9. feeds' \in [Themes -> SUBSET AllFeeds] /\ slot' \in [Themes -> SUBSET AllFeeds]
        BY <2>1 DEF InboxInv, TypeOK, registered
    <2> HIDE DEF new
    <2> QED
        BY <2>1, <2>4, <2>6, <2>7, <2>8, <2>9, ItemsOnly
<1> QED
    BY <1>3, <1>4

LEMMA FeedRegistered ==
    ASSUME InboxInv, NEW f \in Feeds[theme], registerFeed(f)
    PROVE  InboxInv' /\ RetractedLeftAlone /\ Documented
<1>1. /\ theme \in Themes /\ Len(shown) \in Nat /\ DOMAIN shown = 1..Len(shown)
      /\ \A i \in DOMAIN shown : shown[i] \in Post /\ shown[i].sent <= Len(here)
    BY HereTyped DEF InboxInv
<1>2. PICK I \in SUBSET DOMAIN shown : \E order \in [1..Cardinality(I) -> I] :
        LET new == createKbItemFromPost(here, shown, order) IN
        /\ I = {i \in DOMAIN shown :
                  /\ f \in shown[i].feeds
                  /\ kbItemFor(here, shown[i]) = 0
                  /\ \A j \in I : j < i => shown[j].url \notin shown[i].urls}
        /\ \A m, n \in DOMAIN order : m < n => order[m] < order[n]
        /\ addKbFeed(f)
        /\ Become(new.items, {})
        /\ posts' = [posts EXCEPT ![theme] = new.posts]
        /\ UNCHANGED <<theme, peers, syncs>>
    BY Zenon DEF registerFeed
<1>3. PICK order \in [1..Cardinality(I) -> I] :
        LET new == createKbItemFromPost(here, shown, order) IN
        /\ I = {i \in DOMAIN shown :
                  /\ f \in shown[i].feeds
                  /\ kbItemFor(here, shown[i]) = 0
                  /\ \A j \in I : j < i => shown[j].url \notin shown[i].urls}
        /\ \A m, n \in DOMAIN order : m < n => order[m] < order[n]
        /\ addKbFeed(f)
        /\ Become(new.items, {})
        /\ posts' = [posts EXCEPT ![theme] = new.posts]
        /\ UNCHANGED <<theme, peers, syncs>>
    BY <1>2, Zenon
<1> DEFINE new == createKbItemFromPost(here, shown, order)
<1>4. Cardinality(I) \in Nat
    <2>1. IsFiniteSet(DOMAIN shown)
        BY <1>1, FS_Interval
    <2> QED
        BY <2>1, FS_Subset, FS_CardinalityType
<1>5. order \in Seq(DOMAIN shown) /\ \A n \in DOMAIN order : order[n] \in I
    <2>1. order \in [1..Cardinality(I) -> DOMAIN shown]
        OBVIOUS
    <2> QED
        BY <1>4, <2>1, FunctionIsSeq
<1>6. \A n \in DOMAIN order : \A k \in DOMAIN here : here[k].url \notin shown[order[n]].urls
    <2> TAKE n \in DOMAIN order
    <2>1. order[n] \in DOMAIN shown /\ kbItemFor(here, shown[order[n]]) = 0
        BY <1>3, <1>5
    <2> QED
        BY <1>1, <2>1, ItemFound DEF InboxInv
<1>7. \A m, n \in DOMAIN order : m < n => shown[order[m]].url \notin shown[order[n]].urls
    <2> TAKE m, n \in DOMAIN order
    <2>1. order[m] \in I /\ order[n] \in I /\ (m < n => order[m] < order[n])
        BY <1>3, <1>5
    <2>2. order[m] < order[n] => shown[order[m]].url \notin shown[order[n]].urls
        BY <1>3, <2>1
    <2> QED
        BY <2>1, <2>2
<1>8. /\ Extends(new.items) /\ Len(new.items) = Len(here) + Len(order)
      /\ \A j \in DOMAIN new.items \ DOMAIN here :
           new.items[j].from = "post" /\ Fits(new.items, theme, j)
    BY <1>5, <1>6, <1>7, PostsBecomeItems
<1>9. Now(new.items)
    <2>1. Become(new.items, {})
        BY <1>3
    <2> HIDE DEF new
    <2> QED
        BY <1>8, <2>1, Becoming
<1>10. PostsTyped' /\ PostsStand'
    BY <1>3, <1>5, <1>8, <1>9, PostsKnowTheirItems
<1>11. \A j \in DOMAIN new.items \ DOMAIN here : new.items[j].from \notin Pubs
    BY <1>8, InboxAssumption
<1>12. feeds' \in [Themes -> SUBSET AllFeeds] /\ slot' \in [Themes -> SUBSET AllFeeds]
    BY <1>1, <1>3 DEF InboxInv, TypeOK, AllFeeds, addKbFeed
<1>13. UNCHANGED <<theme, peers, syncs>>
    BY <1>3
<1> HIDE DEF new
<1> QED
    BY <1>8, <1>9, <1>10, <1>11, <1>12, <1>13, ItemsOnly

(***************************************************************************)
(* Publishing                                                              *)
(***************************************************************************)
LEMMA ItemMarked ==
    ASSUME NEW i \in Item, NEW b \in BOOLEAN
    PROVE  LET j == [i EXCEPT !.published = @ \/ b] IN
           /\ j \in Item /\ j.from = i.from /\ j.url = i.url /\ j.tags = i.tags
           /\ j.linked = i.linked /\ (~b => j.published = i.published)
<1> DEFINE v == i.published \/ b
<1>1. v \in BOOLEAN /\ (~b => v = i.published)
    BY DEF Item
<1>2. [i EXCEPT !.published = @ \/ b] = [i EXCEPT !.published = v]
    OBVIOUS
<1> HIDE DEF v
<1>3. LET j == [i EXCEPT !.published = v] IN
      /\ j \in Item /\ j.from = i.from /\ j.url = i.url /\ j.tags = i.tags
      /\ j.linked = i.linked /\ j.published = v
    BY <1>1 DEF Item
<1> QED
    BY <1>1, <1>2, <1>3

\* The posts that accounts of the theme make.
LEMMA Spoken ==
    ASSUME InboxInv, NEW A \in SUBSET Accts, NEW card, \A a \in A : card[a] \in SUBSET Urls,
           Speak(A, card), Stocked
    PROVE  PostsTyped' /\ PostsStand'
<1> DEFINE accts == SetToSeq(A)
           made == [n \in DOMAIN accts |-> ownPost(accts[n], card[accts[n]])]
           ps == shown \o made
<1>1. /\ theme \in Themes /\ shown = posts[theme] /\ shown \in Seq(Post) /\ Len(shown) \in Nat
      /\ DOMAIN shown = 1..Len(shown)
    BY HereTyped DEF InboxInv, shown
<1>2. accts \in Seq(A) /\ Len(accts) \in Nat /\ DOMAIN accts = 1..Len(accts)
    <2>1. IsFiniteSet(A)
        BY InboxAssumption, FS_Subset
    <2>2. accts \in Seq(A)
        BY <2>1, SetSequenced
    <2> HIDE DEF accts
    <2> QED
        BY <2>2
<1>3. posts' = [posts EXCEPT ![theme] = ps]
    BY DEF Speak
<1> HIDE DEF accts
<1>4. \A n \in DOMAIN accts : /\ made[n] \in Post /\ made[n].sent = 0
                              /\ made[n].url \in made[n].urls
    <2> TAKE n \in DOMAIN accts
    <2>1. accts[n] \in Accts /\ card[accts[n]] \in SUBSET Urls
        BY <1>2
    <2>2. Site[accts[n]] \in Urls
        BY <2>1, InboxAssumption
    <2>3. made[n] = ownPost(accts[n], card[accts[n]])
        OBVIOUS
    <2>4. "home" \in AllFeeds
        BY InboxAssumption
    <2> HIDE DEF made
    <2> QED
        BY <2>1, <2>2, <2>3, <2>4 DEF ownPost, Post
<1>5. made \in Seq(Post) /\ Len(made) = Len(accts)
    <2>1. made \in [1..Len(accts) -> Post]
        BY <1>2, <1>4
    <2> HIDE DEF made
    <2> QED
        BY <1>2, <2>1, FunctionIsSeq
<1> HIDE DEF made
<1>6. /\ ps \in Seq(Post) /\ Len(ps) = Len(shown) + Len(accts)
      /\ \A i \in 1..(Len(shown) + Len(accts)) :
           ps[i] = IF i <= Len(shown) THEN shown[i] ELSE made[i - Len(shown)]
    <2>1. shown \o made \in Seq(Post) /\ Len(shown \o made) = Len(shown) + Len(made)
        BY <1>1, <1>5, ConcatProperties
    <2>2. \A i \in 1..(Len(shown) + Len(made)) :
            (shown \o made)[i] = IF i <= Len(shown) THEN shown[i] ELSE made[i - Len(shown)]
        BY <1>1, <1>5, ConcatProperties
    <2>3. ps = shown \o made
        OBVIOUS
    <2> HIDE DEF ps
    <2> QED
        BY <1>5, <2>1, <2>2, <2>3
<1> HIDE DEF ps
<1>7. DOMAIN ps = 1..(Len(shown) + Len(accts))
    BY <1>6
<1>8. /\ DOMAIN posts' = Themes /\ posts'[theme] = ps
      /\ \A t \in Themes \ {theme} : posts'[t] = posts[t]
    BY <1>1, <1>3 DEF InboxInv, TypeOK
<1>9. ASSUME NEW t \in Themes, NEW i \in DOMAIN posts'[t]
       PROVE  \/ i \in DOMAIN posts[t] /\ posts'[t][i] = posts[t][i]
              \/ \E n \in DOMAIN accts : posts'[t][i] = made[n]
    <2>1. CASE t = theme
        <3>1. i \in 1..(Len(shown) + Len(accts)) /\ posts'[t][i] = ps[i]
            BY <1>7, <1>8, <2>1
        <3>2. i > Len(shown) => i - Len(shown) \in DOMAIN accts
            BY <1>1, <1>2, <3>1
        <3> QED
            BY <1>1, <1>6, <2>1, <3>1, <3>2
    <2>2. CASE t # theme
        BY <1>8, <2>2
    <2> QED
        BY <2>1, <2>2
<1>10. PostsTyped'
    <2>1. \A t \in Themes : posts'[t] \in Seq(Post)
        BY <1>6, <1>8 DEF InboxInv, TypeOK
    <2>2. ASSUME NEW t \in Themes, NEW i \in DOMAIN posts'[t]
          PROVE  posts'[t][i].sent <= Len(items'[t])
        <3>1. /\ Len(items[t]) \in Nat /\ Len(items'[t]) \in Nat /\ Len(items[t]) <= Len(items'[t])
            BY DEF InboxInv, TypeOK, Stocked
        <3>2. CASE i \in DOMAIN posts[t] /\ posts'[t][i] = posts[t][i]
            <4>1. posts[t][i].sent <= Len(items[t]) /\ posts[t][i] \in Post
                BY <3>2 DEF InboxInv, TypeOK
            <4>2. posts[t][i].sent \in Nat
                BY <4>1 DEF Post
            <4> QED
                BY <3>1, <3>2, <4>1, <4>2
        <3>3. CASE \E n \in DOMAIN accts : posts'[t][i] = made[n]
            BY <1>4, <3>1, <3>3
        <3> QED
            BY <1>9, <3>2, <3>3
    <2> QED
        BY <1>8, <2>1, <2>2 DEF PostsTyped
<1>11. PostsStand'
    <2>1. ASSUME NEW t \in Themes, NEW i \in DOMAIN posts'[t]
          PROVE  posts'[t][i].url \in posts'[t][i].urls
        <3>1. CASE i \in DOMAIN posts[t] /\ posts'[t][i] = posts[t][i]
            BY <3>1 DEF InboxInv, PostsStand
        <3>2. CASE \E n \in DOMAIN accts : posts'[t][i] = made[n]
            BY <1>4, <3>2
        <3> QED
            BY <1>9, <3>1, <3>2
    <2> QED
        BY <2>1 DEF PostsStand
<1> QED
    BY <1>10, <1>11

LEMMA ItemPublished ==
    ASSUME InboxInv, NEW k \in DOMAIN here, here[k].from \notin Pubs,
           NEW mode, NEW A \in SUBSET Accts, PublishItem(k, mode, A)
    PROVE  InboxInv' /\ RetractedLeftAlone /\ Documented
<1> DEFINE i == [here[k] EXCEPT !.published = TRUE]
           its == [here EXCEPT ![k].published = TRUE]
           I == IF mode = "ingested_create" /\ ~here[k].linked THEN {k} ELSE {}
<1>1. here \in Seq(Item) /\ Len(here) \in Nat /\ DOMAIN here = 1..Len(here) /\ here[k] \in Item
    BY HereTyped DEF InboxInv
<1>2. /\ i \in Item /\ i.from = here[k].from /\ i.url = here[k].url /\ i.linked = here[k].linked
      /\ here[k].tags = i.tags
    BY <1>1 DEF Item
<1>3. its = [here EXCEPT ![k] = i]
    BY <1>1
<1>4. Become(its, I) /\ UNCHANGED <<theme, registered, peers, syncs>> /\ recordOutbound(k, mode, A)
    BY DEF PublishItem
<1> HIDE DEF i, its
<1>5. /\ its \in Seq(Item) /\ Len(its) = Len(here) /\ DOMAIN its = DOMAIN here
      /\ \A j \in DOMAIN here : its[j] = IF j = k THEN i ELSE here[j]
    BY <1>1, <1>2, <1>3
<1>6. Extends(its)
    <2>1. here[k].from \notin retracted
        BY DEF InboxInv, TypeOK
    <2> QED
        BY <1>1, <1>2, <1>5, <2>1 DEF Extends
<1>7. I \subseteq DOMAIN its
    BY <1>5
<1>8. Now(its)
    <2> HIDE DEF I
    <2> QED
        BY <1>4, <1>5, <1>6, <1>7, Becoming
<1>9. PostsTyped' /\ PostsStand'
    <2>1. here[k].url \in Urls
        BY <1>1 DEF Item
    <2>2. PICK B \in SUBSET A : Speak(B, [a \in A |-> {here[k].url}])
        BY <1>4 DEF recordOutbound
    <2>3. PICK card : card = [a \in A |-> {here[k].url}]
        OBVIOUS
    <2>4. B \in SUBSET Accts /\ \A a \in B : card[a] \in SUBSET Urls
        BY <2>1, <2>3
    <2> QED
        BY <1>8, <2>2, <2>3, <2>4, Spoken DEF Now
<1>10. feeds' \in [Themes -> SUBSET AllFeeds] /\ slot' \in [Themes -> SUBSET AllFeeds]
    BY <1>4 DEF InboxInv, TypeOK, registered
<1> QED
    BY <1>4, <1>5, <1>6, <1>8, <1>9, <1>10, ItemsOnly

(***************************************************************************)
(* What other users published                                              *)
(***************************************************************************)
Count(b) == IF b THEN 1 ELSE 0

LEMMA Imported ==
    ASSUME InboxInv, NEW p \in Pubs
    PROVE  LET its == imported(p) IN
           /\ Extends(its) /\ \A k \in DOMAIN here : its[k] = here[k]
           /\ \A k \in DOMAIN its \ DOMAIN here : its[k].from = p /\ Fits(its, theme, k)
           /\ Copied(its, p) /\ Len(its) = Len(here) + 1 - Count(Copied(here, p))
           /\ place(its, p) \in DOMAIN its /\ its[place(its, p)].from = p
<1> DEFINE its == imported(p)
           i == newItem(p, Share[p], PubTags[p])
<1>1. here \in Seq(Item) /\ Len(here) \in Nat /\ DOMAIN here = 1..Len(here) /\ Extends(here)
    BY HereTyped DEF InboxInv
<1>2. importedItem(p) # {} <=> Copied(here, p)
    BY DEF importedItem, Copied
<1>3. ASSUME Copied(its, p)
      PROVE  place(its, p) \in DOMAIN its /\ its[place(its, p)].from = p
    BY <1>3 DEF place, Copied
<1>4. CASE Copied(here, p)
    <2>1. its = here
        BY <1>2, <1>4 DEF imported
    <2> HIDE DEF its
    <2> QED
        BY <1>1, <1>3, <1>4, <2>1 DEF Count, its
<1>5. CASE ~Copied(here, p)
    <2>1. its = Append(here, i)
        BY <1>2, <1>5 DEF imported
    <2>2. i \in Item /\ i.from = p /\ i.url = Share[p]
        <3>1. p \in {"post", "link", "form"} \cup AllDocs \cup Pubs
            OBVIOUS
        <3>2. Share[p] \in Urls /\ PubTags[p] \in SUBSET Names
            BY InboxAssumption
        <3> QED
            BY <3>1, <3>2 DEF newItem, Item
    <2> HIDE DEF i, its
    <2>3. i.from \notin AllDocs
        BY <2>2, InboxAssumption
    <2>6. /\ Extends(its) /\ Len(its) = Len(here) + 1 /\ its[Len(its)] = i
          /\ \A k \in DOMAIN its \ DOMAIN here : k = Len(its) /\ Fits(its, theme, k)
        BY <1>5, <2>1, <2>2, <2>3, ItemAppended
    <2>7. \A k \in DOMAIN here : its[k] = here[k]
        BY <1>1, <2>1, <2>2
    <2>8. Len(its) \in DOMAIN its
        BY <1>1, <2>6 DEF Extends
    <2>9. Copied(its, p)
        BY <2>2, <2>6, <2>8 DEF Copied
    <2> QED
        BY <1>1, <1>3, <1>5, <2>2, <2>6, <2>7, <2>9 DEF Count, its
<1> QED
    BY <1>4, <1>5

LEMMA Logged ==
    ASSUME InboxInv, NEW p \in Pubs, NEW imports \in Nat, NEW acts \in [Modes -> Nat],
           Log(p, imports, acts)
    PROVE  /\ ledger' \in [Themes -> [Pubs -> [Acts -> Nat]]]
           /\ stats' \in [Pubs -> [imports: Int, reshares: Int]]
           /\ ledger'[theme][p]["import"] = ledger[theme][p]["import"] + imports
           /\ \A t \in Themes, q \in Pubs :
                t # theme \/ q # p => ledger'[t][q] = ledger[t][q]
           /\ (imports = 0 /\ \A m \in Modes : acts[m] = 0) => ledger'[theme][p] = ledger[theme][p]
<1> DEFINE log == [m \in Acts |-> ledger[theme][p][m] + IF m = "import" THEN imports ELSE acts[m]]
<1>1. theme \in Themes /\ ledger \in [Themes -> [Pubs -> [Acts -> Nat]]]
    BY DEF InboxInv, TypeOK
<1>2. log \in [Acts -> Nat]
    BY <1>1 DEF Acts
<1>3. log["import"] = ledger[theme][p]["import"] + imports
    BY DEF Acts
<1>4. (imports = 0 /\ \A m \in Modes : acts[m] = 0) => log = ledger[theme][p]
    <2> SUFFICES ASSUME imports = 0, \A m \in Modes : acts[m] = 0
                 PROVE  log = ledger[theme][p]
        OBVIOUS
    <2>1. \A m \in Acts : log[m] = ledger[theme][p][m]
        BY <1>1 DEF Acts
    <2> HIDE DEF log
    <2> QED
        BY <1>1, <1>2, <2>1
<1>5. ledger' = [ledger EXCEPT ![theme][p] = log]
    BY DEF Log
<1> HIDE DEF log
<1>6. /\ ledger' \in [Themes -> [Pubs -> [Acts -> Nat]]] /\ ledger'[theme][p] = log
      /\ \A t \in Themes, q \in Pubs : t # theme \/ q # p => ledger'[t][q] = ledger[t][q]
    BY <1>1, <1>2, <1>5
<1>7. stats' \in [Pubs -> [imports: Int, reshares: Int]]
    <2> DEFINE a == stats[p].imports + imports
               b == stats[p].reshares + acts["boost"] + acts["quote"] + acts["link"]
                       + acts["import_publish"]
               s1 == [stats EXCEPT ![p].imports = a]
    <2>1. stats[p].imports \in Int /\ stats[p].reshares \in Int
        BY DEF InboxInv, TypeOK
    <2>2. a \in Int /\ b \in Int
        BY <2>1 DEF Modes
    <2>3. stats' = [s1 EXCEPT ![p].reshares = b]
        BY DEF Log, InboxInv, TypeOK
    <2> HIDE DEF a, b
    <2>4. s1 \in [Pubs -> [imports: Int, reshares: Int]]
        BY <2>2 DEF InboxInv, TypeOK
    <2> HIDE DEF s1
    <2> QED
        BY <2>2, <2>3, <2>4
<1> QED
    BY <1>3, <1>4, <1>6, <1>7

\* Imports and reshares of p: its holds the copy that is there now.
LEMMA PeerStep ==
    ASSUME InboxInv, NEW p \in Pubs, NEW its, Extends(its), Now(its), PostsTyped', PostsStand',
           \A k \in DOMAIN its \ DOMAIN here : its[k].from = p,
           NEW imports \in Nat, NEW acts \in [Modes -> Nat], Log(p, imports, acts),
           imports = Count(Copied(its, p)) - Count(Copied(here, p)),
           p \in retracted => imports = 0 /\ \A m \in Modes : acts[m] = 0,
           UNCHANGED <<theme, registered, retracted, syncs>>
    PROVE  InboxInv' /\ RetractedLeftAlone /\ Documented
<1>1. /\ theme \in Themes /\ here = items[theme] /\ its \in Seq(Item)
      /\ Len(its) \in Nat /\ DOMAIN its = 1..Len(its)
    BY HereTyped DEF InboxInv, here, Extends
<1>2. Copied(items'[theme], p) <=> Copied(its, p)
    <2>1. DOMAIN items'[theme] = DOMAIN its
        <3>1. items'[theme] \in Seq(Item) /\ Len(items'[theme]) = Len(its)
            BY <1>1 DEF Now, Stocked
        <3> QED
            BY <1>1, <3>1
    <2> QED
        BY <2>1 DEF Now, Copied
<1>3. /\ ledger' \in [Themes -> [Pubs -> [Acts -> Nat]]]
      /\ stats' \in [Pubs -> [imports: Int, reshares: Int]]
      /\ ledger'[theme][p]["import"] = ledger[theme][p]["import"] + imports
      /\ \A t \in Themes, q \in Pubs : t # theme \/ q # p => ledger'[t][q] = ledger[t][q]
      /\ (imports = 0 /\ \A m \in Modes : acts[m] = 0) => ledger'[theme][p] = ledger[theme][p]
    BY Logged
<1>4. LedgerFits'
    <2>1. ASSUME NEW t \in Themes, NEW q \in Pubs
          PROVE  ledger'[t][q]["import"] = IF Copied(items'[t], q) THEN 1 ELSE 0
        <3>1. ledger[t][q]["import"] = IF Copied(items[t], q) THEN 1 ELSE 0
            BY DEF InboxInv, LedgerFits
        <3>2. CASE t = theme /\ q = p
            BY <1>1, <1>2, <1>3, <3>1, <3>2 DEF Count
        <3>3. CASE t # theme
            BY <1>3, <3>1, <3>3 DEF Now
        <3>4. CASE q # p
            <4>1. Copied(items'[t], q) <=> Copied(items[t], q)
                BY <3>4, CopiesKept
            <4> QED
                BY <1>3, <3>1, <3>4, <4>1
        <3> QED
            BY <3>2, <3>3, <3>4
    <2> QED
        BY <2>1 DEF LedgerFits
<1>5. TypeOK'
    BY <1>3 DEF InboxInv, TypeOK, PostsTyped, Now, Stocked, registered
<1>6. RetractedLeftAlone
    <2>1. ASSUME NEW q \in retracted, NEW t \in Themes
          PROVE  ledger'[t][q] = ledger[t][q]
        <3>1. q \in Pubs
            BY DEF InboxInv, TypeOK
        <3>2. CASE t = theme /\ q = p
            BY <1>3, <3>2
        <3> QED
            BY <1>3, <3>1, <3>2
    <2> QED
        BY <2>1, CopiesLeftAlone DEF RetractedLeftAlone
<1> QED
    BY <1>4, <1>5, <1>6 DEF InboxInv, Now, Stocked

LEMMA PubImported ==
    ASSUME InboxInv, NEW p \in Pubs, NEW ingestNow \in BOOLEAN, importToKb(p, ingestNow)
    PROVE  InboxInv' /\ RetractedLeftAlone /\ Documented
<1> DEFINE its == imported(p)
           I == IF ingestNow THEN unlinked(its, {place(its, p)}) ELSE {}
           imports == Len(its) - Len(here)
           acts == [m \in Modes |-> 0]
<1>1. /\ Become(its, I) /\ Log(p, imports, acts) /\ mayImport(p)
      /\ UNCHANGED <<theme, posts, registered, retracted, syncs>>
    BY DEF importToKb
<1>2. /\ Extends(its) /\ \A k \in DOMAIN its \ DOMAIN here : its[k].from = p /\ Fits(its, theme, k)
      /\ Copied(its, p) /\ Len(its) = Len(here) + 1 - Count(Copied(here, p))
      /\ place(its, p) \in DOMAIN its
    BY Imported
<1>3. Len(here) \in Nat
    BY HereTyped DEF InboxInv
<1>4. I \subseteq DOMAIN its
    BY <1>2 DEF unlinked
<1>5. p \in retracted => Copied(here, p)
    BY <1>1 DEF mayImport, importedItem, Copied
<1>6. acts \in [Modes -> Nat] /\ \A m \in Modes : acts[m] = 0
    OBVIOUS
<1>7. imports \in Nat /\ imports = Count(Copied(its, p)) - Count(Copied(here, p))
    BY <1>2, <1>3 DEF Count
<1>8. p \in retracted => imports = 0
    BY <1>2, <1>5, <1>7 DEF Count
<1> HIDE DEF its, I, imports, acts
<1>9. Now(its)
    BY <1>1, <1>2, <1>4, Becoming
<1>10. PostsTyped' /\ PostsStand'
    BY <1>1, <1>9, PostsKept DEF Now
<1> QED
    BY <1>1, <1>2, <1>6, <1>7, <1>8, <1>9, <1>10, PeerStep

LEMMA PubReshared ==
    ASSUME InboxInv, NEW p \in Pubs, NEW mode \in Modes, NEW A \in SUBSET Accts,
           openReshare(p, mode, A)
    PROVE  InboxInv' /\ RetractedLeftAlone /\ Documented
<1> DEFINE publish == mode = "import_publish"
           its == IF publish THEN imported(p) ELSE here
           k == IF publish THEN {place(its, p)} ELSE {}
           asked(m) == Cardinality({a \in A : requestFor(p, a, mode) = m})
           its2 == [j \in DOMAIN its |-> [its[j] EXCEPT !.published = @ \/ j \in k]]
           I == unlinked(its, k)
           imports == Len(its) - Len(here)
           acts == [m \in Modes |-> asked(m)]
<1>1. /\ Become(its2, I) /\ recordReshare(p, mode, A) /\ Log(p, imports, acts)
      /\ modeAllowed(p, mode)
      /\ UNCHANGED <<theme, registered, retracted, syncs>>
    BY DEF openReshare
<1>2. /\ here \in Seq(Item) /\ Len(here) \in Nat /\ DOMAIN here = 1..Len(here) /\ Extends(here)
    BY HereTyped DEF InboxInv
<1>3. /\ Extends(its) /\ \A j \in DOMAIN here : its[j] = here[j]
      /\ \A j \in DOMAIN its \ DOMAIN here : its[j].from = p /\ Fits(its, theme, j)
      /\ imports \in Nat /\ imports = Count(Copied(its, p)) - Count(Copied(here, p))
      /\ k \subseteq DOMAIN its /\ \A j \in k : its[j].from = p
    <2>1. CASE publish
        <3> DEFINE its3 == imported(p)
        <3>1. /\ Extends(its3) /\ \A j \in DOMAIN here : its3[j] = here[j]
              /\ \A j \in DOMAIN its3 \ DOMAIN here : its3[j].from = p /\ Fits(its3, theme, j)
              /\ Copied(its3, p) /\ Len(its3) = Len(here) + 1 - Count(Copied(here, p))
              /\ place(its3, p) \in DOMAIN its3 /\ its3[place(its3, p)].from = p
            BY Imported
        <3>2. its = its3 /\ k = {place(its3, p)}
            BY <2>1
        <3> HIDE DEF its3, its, k
        <3> QED
            BY <1>2, <3>1, <3>2 DEF Count
    <2>2. CASE ~publish
        <3>1. its = here /\ k = {}
            BY <2>2
        <3> HIDE DEF its, k
        <3> QED
            BY <1>2, <3>1 DEF Count
    <2> QED
        BY <2>1, <2>2
<1>4. acts \in [Modes -> Nat]
    <2>1. ASSUME NEW m \in Modes
          PROVE  asked(m) \in Nat
        <3>1. IsFiniteSet(A)
            BY InboxAssumption, FS_Subset
        <3>2. {a \in A : requestFor(p, a, mode) = m} \in SUBSET A
            OBVIOUS
        <3> QED
            BY <3>1, <3>2, FS_Subset, FS_CardinalityType
    <2> HIDE DEF asked
    <2> QED
        BY <2>1
<1>5. I \subseteq DOMAIN its
    BY <1>3 DEF unlinked
<1>6. p \notin retracted
    BY <1>1 DEF modeAllowed
<1>7. recordReshare(p, mode, A)
    BY <1>1
<1> HIDE DEF its, k, I, imports, acts
<1>8. \A j \in DOMAIN its :
        /\ its2[j] \in Item /\ its2[j].from = its[j].from /\ its2[j].url = its[j].url
        /\ its2[j].tags = its[j].tags /\ its2[j].linked = its[j].linked
        /\ j \notin k => its2[j].published = its[j].published
    <2> TAKE j \in DOMAIN its
    <2> DEFINE i == its[j]
               b == j \in k
    <2>1. i \in Item /\ b \in BOOLEAN /\ its2[j] = [i EXCEPT !.published = @ \/ b]
        BY <1>3 DEF Extends
    <2> HIDE DEF its2, i, b
    <2>2. /\ its2[j] \in Item /\ its2[j].from = i.from /\ its2[j].url = i.url
          /\ its2[j].tags = i.tags /\ its2[j].linked = i.linked
          /\ (~b => its2[j].published = i.published)
        BY <2>1, ItemMarked
    <2> QED
        BY <2>2 DEF i, b
<1>9. its \in Seq(Item) /\ Len(its) \in Nat /\ DOMAIN its = 1..Len(its) /\ Len(here) <= Len(its)
    BY <1>3 DEF Extends
<1>10. its2 \in Seq(Item) /\ Len(its2) = Len(its) /\ DOMAIN its2 = DOMAIN its
    <2>1. its2 \in [1..Len(its) -> Item]
        BY <1>8, <1>9
    <2> HIDE DEF its2
    <2> QED
        BY <1>9, <2>1, FunctionIsSeq
<1> HIDE DEF its2
<1>11. Extends(its2)
    <2>1. \A j \in DOMAIN here : j \in DOMAIN its
        BY <1>2, <1>9
    <2>2. \A j \in DOMAIN here : here[j].from \in retracted => j \notin k
        BY <1>3, <1>6
    <2>3. ASSUME NEW j \in DOMAIN here
          PROVE  /\ its2[j].from = here[j].from /\ its2[j].url = here[j].url
                 /\ here[j].tags \subseteq its2[j].tags
                 /\ here[j].linked => its2[j].linked
                 /\ \/ its2[j].published = here[j].published
                    \/ here[j].from \notin retracted
        BY <1>3, <1>8, <2>1, <2>2
    <2> QED
        BY <1>9, <1>10, <2>3 DEF Extends
<1>12. \A j \in DOMAIN its2 \ DOMAIN here : its2[j].from = p /\ Fits(its2, theme, j)
    <2> TAKE j \in DOMAIN its2 \ DOMAIN here
    <2>1. j \in DOMAIN its \ DOMAIN here /\ j \in Nat \ {0} /\ j <= Len(its)
        BY <1>9, <1>10
    <2>2. its[j].from = p /\ Fits(its, theme, j)
        BY <1>3, <2>1
    <2>3. \A l \in 1..j : its2[l].from = its[l].from /\ its2[l].url = its[l].url
        BY <1>8, <1>9, <2>1
    <2> QED
        BY <1>8, <2>1, <2>2, <2>3, FitsAsBefore
<1>13. Now(its2)
    BY <1>1, <1>5, <1>10, <1>11, <1>12, Becoming
<1>14. PostsTyped' /\ PostsStand'
    <2>1. {Share[p]} \in SUBSET Urls /\ {} \in SUBSET Urls
        BY InboxAssumption
    <2>2. PICK card : card = [a \in A |-> IF requestFor(p, a, mode) = "quote" THEN {} ELSE {Share[p]}]
        OBVIOUS
    <2>3. PICK B \in SUBSET A : Speak(B, card)
        BY <1>7, <2>2 DEF recordReshare
    <2>4. B \in SUBSET Accts /\ \A a \in B : card[a] \in SUBSET Urls
        BY <2>1, <2>2
    <2> QED
        BY <1>13, <2>3, <2>4, Spoken DEF Now
<1>15. Copied(its2, p) <=> Copied(its, p)
    BY <1>8, <1>10 DEF Copied
<1>16. imports = Count(Copied(its2, p)) - Count(Copied(here, p))
    BY <1>3, <1>15 DEF Count
<1> QED
    BY <1>1, <1>3, <1>4, <1>6, <1>11, <1>12, <1>13, <1>14, <1>16, PeerStep

(***************************************************************************)
(* Themes, their databases, and the page                                   *)
(***************************************************************************)
LEMMA PubRetracted ==
    ASSUME InboxInv, NEW p \in Pubs, simulateRetract(p)
    PROVE  InboxInv' /\ RetractedLeftAlone /\ Documented
BY DEF simulateRetract, registered, InboxInv, TypeOK, ItemsFit, Fits, PostsStand, LedgerFits,
       RetractedLeftAlone, Documented

LEMMA ThemeSwitched ==
    ASSUME InboxInv, NEW t \in Themes, switchTheme(t)
    PROVE  InboxInv' /\ RetractedLeftAlone /\ Documented
<1>1. TypeOK'
    <2>1. syncs' \in [Themes -> 0..MaxSyncs]
        <3>1. syncs \in [Themes -> 0..MaxSyncs] /\ MaxSyncs \in Nat
            BY InboxAssumption DEF InboxInv, TypeOK
        <3>2. syncs[t] \in 0..MaxSyncs /\ syncs[t] < MaxSyncs
            BY <3>1 DEF switchTheme
        <3>3. syncs[t] + 1 \in 0..MaxSyncs
            BY <3>1, <3>2
        <3> QED
            BY <3>1, <3>3 DEF switchTheme
    <2> QED
        BY <2>1 DEF InboxInv, TypeOK, switchTheme, registered, peers
<1>2. ItemsFit' /\ PostsStand' /\ LedgerFits' /\ RetractedLeftAlone /\ Documented
    BY DEF InboxInv, switchTheme, registered, peers, ItemsFit, Fits, PostsStand, LedgerFits,
           RetractedLeftAlone, Documented
<1> QED
    BY <1>1, <1>2 DEF InboxInv

LEMMA SeedTyped ==
    /\ DOMAIN SeedPosts = Themes
    /\ \A t \in Themes :
         /\ SeedPosts[t] \in Seq(Post)
         /\ \A i \in DOMAIN SeedPosts[t] :
              SeedPosts[t][i].sent = 0 /\ SeedPosts[t][i].url \in SeedPosts[t][i].urls
BY InboxAssumption

LEMMA PageReloaded ==
    ASSUME InboxInv, Reload
    PROVE  InboxInv' /\ RetractedLeftAlone /\ Documented
<1>1. /\ items' = [t \in Themes |-> <<>>] /\ entities' = [t \in Themes |-> {}]
      /\ ledger' = [t \in Themes |-> [q \in Pubs |-> [m \in Acts |-> 0]]]
      /\ stats' = [q \in Pubs |-> [imports |-> 0, reshares |-> 0]]
      /\ posts' = SeedPosts /\ feeds' = slot /\ retracted' = {}
      /\ theme' \in Themes /\ slot' = slot
    BY DEF Reload, Fresh
<1>2. syncs' \in [Themes -> 0..MaxSyncs]
    BY InboxAssumption DEF Reload
<1>3. \A t \in Themes : items'[t] = <<>> /\ items'[t] \in Seq(Item) /\ Len(items'[t]) = 0
                        /\ DOMAIN items'[t] = {}
    BY <1>1
<1>4. TypeOK'
    <2>1. /\ theme' \in Themes /\ DOMAIN items' = Themes /\ DOMAIN posts' = Themes
          /\ feeds' \in [Themes -> SUBSET AllFeeds] /\ slot' \in [Themes -> SUBSET AllFeeds]
        BY <1>1, SeedTyped DEF InboxInv, TypeOK
    <2>2. \A t \in Themes : /\ posts'[t] \in Seq(Post)
                            /\ \A i \in DOMAIN posts'[t] : posts'[t][i].sent <= Len(items'[t])
        BY <1>1, <1>3, SeedTyped
    <2>3. entities' \in [Themes -> SUBSET Names] /\ retracted' \subseteq Pubs
        BY <1>1
    <2>4. ledger' \in [Themes -> [Pubs -> [Acts -> Nat]]]
        BY <1>1
    <2>5. stats' \in [Pubs -> [imports: Int, reshares: Int]]
        BY <1>1
    <2> QED
        BY <1>2, <1>3, <2>1, <2>2, <2>3, <2>4, <2>5 DEF TypeOK
<1>5. ItemsFit' /\ RetractedLeftAlone /\ Documented
    BY <1>1, <1>3 DEF ItemsFit, RetractedLeftAlone, Documented
<1>6. PostsStand'
    BY <1>1, SeedTyped DEF PostsStand
<1>7. LedgerFits'
    BY <1>1, <1>3 DEF LedgerFits, Copied, Acts
<1> QED
    BY <1>4, <1>5, <1>6, <1>7 DEF InboxInv

LEMMA InboxInit ==
    Init => InboxInv
<1> SUFFICES ASSUME Init
             PROVE  InboxInv
    OBVIOUS
<1>1. /\ items = [t \in Themes |-> <<>>] /\ entities = [t \in Themes |-> {}]
      /\ ledger = [t \in Themes |-> [q \in Pubs |-> [m \in Acts |-> 0]]]
      /\ stats = [q \in Pubs |-> [imports |-> 0, reshares |-> 0]]
      /\ posts = SeedPosts /\ retracted = {} /\ theme \in Themes
      /\ feeds = [t \in Themes |-> {}] /\ slot = feeds
    BY DEF Init, Fresh
<1>2. syncs \in [Themes -> 0..MaxSyncs]
    BY InboxAssumption DEF Init
<1>3. \A t \in Themes : items[t] = <<>> /\ items[t] \in Seq(Item) /\ Len(items[t]) = 0
                        /\ DOMAIN items[t] = {}
    BY <1>1
<1>4. TypeOK
    <2>1. \A t \in Themes : /\ posts[t] \in Seq(Post)
                            /\ \A i \in DOMAIN posts[t] : posts[t][i].sent <= Len(items[t])
        BY <1>1, <1>3, SeedTyped
    <2>2. /\ DOMAIN items = Themes /\ DOMAIN posts = Themes /\ retracted \subseteq Pubs
          /\ entities \in [Themes -> SUBSET Names]
          /\ feeds \in [Themes -> SUBSET AllFeeds] /\ slot \in [Themes -> SUBSET AllFeeds]
        BY <1>1, SeedTyped
    <2>3. ledger \in [Themes -> [Pubs -> [Acts -> Nat]]]
        BY <1>1
    <2>4. stats \in [Pubs -> [imports: Int, reshares: Int]]
        BY <1>1
    <2> QED
        BY <1>1, <1>2, <1>3, <2>1, <2>2, <2>3, <2>4 DEF TypeOK
<1>5. ItemsFit
    BY <1>1, <1>3 DEF ItemsFit
<1>6. PostsStand
    BY <1>1, SeedTyped DEF PostsStand
<1>7. LedgerFits
    BY <1>1, <1>3 DEF LedgerFits, Copied, Acts
<1> QED
    BY <1>4, <1>5, <1>6, <1>7 DEF InboxInv

\* The answers about a theme, shown or not: its documents come after its items.
LEMMA DatabaseSynced ==
    ASSUME InboxInv, NEW t \in Themes, syncLiveThemeDb(t)
    PROVE  InboxInv' /\ RetractedLeftAlone /\ Documented
<1>1. PICK graph \in SUBSET GraphNames[t], docs \in SUBSET Docs[t] :
        LET new == {d \in docs : \A k \in DOMAIN items[t] : items[t][k].url # DocUrl[d]}
            live == SetToSeq({[newItem(d, DocUrl[d], {}) EXCEPT !.linked = TRUE] : d \in new}) IN
        /\ \A d, e \in docs : DocUrl[d] = DocUrl[e] => d = e
        /\ items' = [items EXCEPT ![t] = @ \o live]
        /\ entities' = [entities EXCEPT ![t] = @ \cup graph]
    BY DEF syncLiveThemeDb
<1> DEFINE new == {d \in docs : \A k \in DOMAIN items[t] : items[t][k].url # DocUrl[d]}
           itemOf == [d \in new |-> [newItem(d, DocUrl[d], {}) EXCEPT !.linked = TRUE]]
           fresh == {[newItem(d, DocUrl[d], {}) EXCEPT !.linked = TRUE] : d \in new}
           live == SetToSeq(fresh)
           its == items[t] \o live
<1>2. /\ items[t] \in Seq(Item) /\ Len(items[t]) \in Nat /\ DOMAIN items[t] = 1..Len(items[t])
      /\ DOMAIN items = Themes /\ entities \in [Themes -> SUBSET Names]
    BY DEF InboxInv, TypeOK
<1>3. \A d \in new :
        /\ d \in Docs[t] /\ d \in AllDocs /\ itemOf[d] \in Item
        /\ itemOf[d].from = d /\ itemOf[d].url = DocUrl[d]
    <2> TAKE d \in new
    <2>1. d \in AllDocs /\ d \in Docs[t]
        BY DEF AllDocs
    <2>2. DocUrl[d] \in Urls
        BY <2>1, InboxAssumption
    <2>3. itemOf[d] = [newItem(d, DocUrl[d], {}) EXCEPT !.linked = TRUE]
        OBVIOUS
    <2> HIDE DEF itemOf, new
    <2> QED
        BY <2>1, <2>2, <2>3 DEF newItem, Item
<1>4. IsFiniteSet(fresh)
    <2>1. new \in SUBSET Docs[t] /\ IsFiniteSet(Docs[t])
        BY InboxAssumption
    <2>2. IsFiniteSet(new)
        BY <2>1, FS_Subset
    <2>3. itemOf \in Surjection(new, fresh)
        BY DEF Surjection
    <2> QED
        BY <2>2, <2>3, FS_Surjection
<1>5. /\ live \in Seq(fresh) /\ Len(live) \in Nat /\ DOMAIN live = 1..Len(live)
      /\ \A m, n \in DOMAIN live : live[m] = live[n] => m = n
    <2>1. /\ live \in Seq(fresh)
          /\ \A m, n \in 1..Len(live) : live[m] = live[n] => m = n
        BY <1>4, SetSequenced
    <2> HIDE DEF live
    <2> QED
        BY <2>1
<1> HIDE DEF live
<1>6. \A n \in DOMAIN live : \E d \in new : live[n] = itemOf[d]
    <2> TAKE n \in DOMAIN live
    <2>1. live[n] \in fresh
        BY <1>5
    <2> QED
        BY <2>1
<1>7. \A d, e \in new : DocUrl[d] = DocUrl[e] => d = e
    BY <1>1
<1>8. items' = [items EXCEPT ![t] = its] /\ entities' = [entities EXCEPT ![t] = @ \cup graph]
    BY <1>1 DEF live
<1>9. \A d \in new : \A k \in DOMAIN items[t] : items[t][k].url # DocUrl[d]
    OBVIOUS
<1> HIDE DEF fresh, itemOf, new
<1>10. /\ its \in Seq(Item) /\ Len(its) = Len(items[t]) + Len(live)
       /\ \A k \in 1..(Len(items[t]) + Len(live)) :
            its[k] = IF k <= Len(items[t]) THEN items[t][k] ELSE live[k - Len(items[t])]
    <2>1. live \in Seq(Item)
        BY <1>3, <1>5, <1>6
    <2>2. items[t] \o live \in Seq(Item) /\ Len(items[t] \o live) = Len(items[t]) + Len(live)
        BY <1>2, <2>1, ConcatProperties
    <2>3. \A k \in 1..(Len(items[t]) + Len(live)) : (items[t] \o live)[k] =
            IF k <= Len(items[t]) THEN items[t][k] ELSE live[k - Len(items[t])]
        BY <1>2, <2>1, ConcatProperties
    <2>4. its = items[t] \o live
        OBVIOUS
    <2> HIDE DEF its
    <2> QED
        BY <2>2, <2>3, <2>4
<1> HIDE DEF its
<1>11. DOMAIN its = 1..(Len(items[t]) + Len(live))
    BY <1>10
<1>12. /\ DOMAIN items' = Themes /\ items'[t] = its
       /\ \A u \in Themes \ {t} : items'[u] = items[u]
    BY <1>2, <1>8
<1>13. \A k \in DOMAIN items[t] : k \in DOMAIN its /\ its[k] = items[t][k]
    BY <1>2, <1>5, <1>10, <1>11
<1>14. ASSUME NEW k \in DOMAIN its \ DOMAIN items[t]
       PROVE  \E n \in DOMAIN live, d \in new :
                /\ n = k - Len(items[t]) /\ live[n] = itemOf[d]
                /\ its[k].from = d /\ its[k].url = DocUrl[d]
    <2> DEFINE n == k - Len(items[t])
    <2>1. n \in DOMAIN live /\ its[k] = live[n]
        BY <1>2, <1>5, <1>10, <1>11
    <2>2. PICK d \in new : live[n] = itemOf[d]
        BY <1>6, <2>1
    <2> HIDE DEF n
    <2>3. its[k].from = d /\ its[k].url = DocUrl[d]
        BY <1>3, <2>1, <2>2
    <2> QED
        BY <2>1, <2>2, <2>3 DEF n
<1>15. ASSUME NEW k \in DOMAIN its \ DOMAIN items[t]
       PROVE  Fits(its, t, k)
    <2>1. PICK n \in DOMAIN live, d \in new :
            /\ n = k - Len(items[t]) /\ live[n] = itemOf[d]
            /\ its[k].from = d /\ its[k].url = DocUrl[d]
        BY <1>14
    <2>2. d \in Docs[t] /\ d \in AllDocs /\ d \notin Pubs
        BY <1>3, InboxAssumption
    <2>3. ASSUME NEW j \in 1..(k - 1)
          PROVE  its[j].url # its[k].url
        <3>1. k \in Nat /\ j \in Nat /\ j < k /\ j \in DOMAIN its
            BY <1>2, <1>5, <1>11
        <3>2. CASE j \in DOMAIN items[t]
            BY <1>9, <1>13, <2>1, <3>2
        <3>3. CASE j \notin DOMAIN items[t]
            <4>1. PICK m \in DOMAIN live, e \in new :
                    /\ m = j - Len(items[t]) /\ live[m] = itemOf[e]
                    /\ its[j].from = e /\ its[j].url = DocUrl[e]
                BY <1>14, <3>1, <3>3
            <4>2. m # n
                BY <1>2, <2>1, <3>1, <4>1
            <4>3. d # e
                BY <1>5, <2>1, <4>1, <4>2
            <4> QED
                BY <1>7, <2>1, <4>1, <4>3
        <3> QED
            BY <3>2, <3>3
    <2> QED
        BY <2>1, <2>2, <2>3 DEF Fits
<1>16. /\ UNCHANGED <<theme, posts, registered, peers>>
       /\ syncs' = [syncs EXCEPT ![t] = @ - 1] /\ syncs[t] > 0
    BY DEF syncLiveThemeDb
<1>17. Stocked
    <2>1. \A u \in Themes : items'[u] \in Seq(Item) /\ Len(items[u]) <= Len(items'[u])
        <3>1. Len(items[t]) <= Len(its)
            BY <1>2, <1>5, <1>10
        <3>2. ASSUME NEW u \in Themes, u # t
              PROVE  items'[u] \in Seq(Item) /\ Len(items[u]) <= Len(items'[u])
            BY <1>12, <3>2 DEF InboxInv, TypeOK
        <3> QED
            BY <1>10, <1>12, <3>1, <3>2
    <2>2. entities' \in [Themes -> SUBSET Names]
        <3>1. graph \subseteq Names
            BY InboxAssumption
        <3> QED
            BY <1>2, <1>8, <3>1
    <2>3. ItemsFit'
        <3> SUFFICES ASSUME NEW u \in Themes, NEW k \in DOMAIN items'[u]
                     PROVE  Fits(items'[u], u, k)
            BY DEF ItemsFit, Fits
        <3>1. CASE u # t
            BY <1>12, <3>1 DEF InboxInv, ItemsFit
        <3>2. CASE u = t /\ k \in DOMAIN items[t]
            <4>1. Fits(items[t], t, k)
                BY <3>2 DEF InboxInv, ItemsFit
            <4>2. k \in Nat \ {0} /\ \A j \in 1..k : j \in DOMAIN items[t]
                BY <1>2, <3>2
            <4>3. \A j \in 1..k : its[j].from = items[t][j].from /\ its[j].url = items[t][j].url
                BY <1>13, <4>2
            <4> QED
                BY <1>12, <3>2, <4>1, <4>2, <4>3, FitsAsBefore
        <3>3. CASE u = t /\ k \notin DOMAIN items[t]
            BY <1>12, <1>15, <3>3
        <3> QED
            BY <3>1, <3>2, <3>3
    <2>4. Documented
        BY <1>2, <1>8 DEF Documented
    <2> QED
        BY <1>12, <2>1, <2>2, <2>3, <2>4 DEF Stocked
<1>18. PostsTyped' /\ PostsStand'
    BY <1>16, <1>17, PostsKept
<1>19. LedgerFits'
    <2>1. \A u \in Themes, p \in Pubs : Copied(items'[u], p) <=> Copied(items[u], p)
        <3>1. ASSUME NEW p \in Pubs
              PROVE  Copied(its, p) <=> Copied(items[t], p)
            <4>1. \A k \in DOMAIN its \ DOMAIN items[t] : its[k].from # p
                BY <1>3, <1>14, InboxAssumption
            <4> QED
                BY <1>13, <4>1 DEF Copied
        <3> QED
            BY <1>12, <3>1
    <2> QED
        BY <1>16, <2>1 DEF InboxInv, LedgerFits, peers
<1>20. TypeOK'
    <2>1. syncs' \in [Themes -> 0..MaxSyncs]
        <3>1. syncs \in [Themes -> 0..MaxSyncs] /\ MaxSyncs \in Nat
            BY InboxAssumption DEF InboxInv, TypeOK
        <3>2. syncs[t] - 1 \in 0..MaxSyncs
            BY <1>16, <3>1
        <3> QED
            BY <1>16, <3>1, <3>2
    <2> QED
        BY <1>16, <1>17, <1>18, <2>1 DEF InboxInv, TypeOK, PostsTyped, Stocked, registered, peers
<1>21. RetractedLeftAlone
    <2>1. \A u \in Themes : \A k \in DOMAIN items[u] : items'[u][k] = items[u][k]
        BY <1>12, <1>13
    <2> QED
        BY <1>16, <2>1 DEF RetractedLeftAlone, peers
<1> QED
    BY <1>17, <1>18, <1>19, <1>20, <1>21 DEF InboxInv, Stocked

(***************************************************************************)
(* Every step                                                              *)
(***************************************************************************)
LEMMA InboxStep ==
    ASSUME InboxInv, [Next]_vars
    PROVE  InboxInv' /\ RetractedLeftAlone /\ Documented
<1>1. CASE \E i \in DOMAIN shown, ingestNow \in BOOLEAN : sendToKb(i, ingestNow)
    BY <1>1, PostSent
<1>2. CASE \E url \in Links : sendLinkToKb(url)
    BY <1>2, LinkSent
<1>3. CASE \E f \in Feeds[theme] : registerFeed(f)
    BY <1>3, FeedRegistered
<1>4. CASE \E url \in Links, name \in Typed : Subscribe(url, {name})
    BY <1>4, Subscribed
<1>5. CASE \E k \in DOMAIN here : ingestItemToClaire(k)
    <2>1. PICK k \in DOMAIN here : ingestItemToClaire(k)
        BY <1>5
    <2> QED
        BY <2>1, Ingested DEF ingestItemToClaire
<1>6. CASE \E k \in DOMAIN here, name \in Typed : AddTag(k, name) \/ AddEntity(k, name)
    BY <1>6, TagAdded, EntityAdded
<1>7. CASE \E K \in SUBSET DOMAIN here : ingestSelected(K)
    <2>1. PICK K \in SUBSET DOMAIN here : ingestSelected(K)
        BY <1>7
    <2> QED
        BY <2>1, Ingested DEF ingestSelected
<1>8. CASE \E k \in DOMAIN here : openPublishModal(k)
    <2>1. PICK k \in DOMAIN here, mode \in {"boost", "quote_boost", "ingested_create"},
               A \in SUBSET Accts : here[k].from \notin Pubs /\ PublishItem(k, mode, A)
        BY <1>8 DEF openPublishModal
    <2> QED
        BY <2>1, ItemPublished
<1>9. CASE \E p \in Pubs : simulateRetract(p)
    BY <1>9, PubRetracted
<1>10. CASE \E p \in Pubs : \E ingestNow \in BOOLEAN : importToKb(p, ingestNow)
    BY <1>10, PubImported
<1>11. CASE \E p \in Pubs : \E mode \in Modes, A \in SUBSET Accts : openReshare(p, mode, A)
    BY <1>11, PubReshared
<1>12. CASE Reload
    BY <1>12, PageReloaded
<1>13. CASE \E t \in Themes : switchTheme(t)
    BY <1>13, ThemeSwitched
<1>14. CASE \E t \in Themes : syncLiveThemeDb(t)
    BY <1>14, DatabaseSynced
<1>15. CASE UNCHANGED vars
    BY <1>15 DEF vars, peers, registered, InboxInv, TypeOK, ItemsFit, Fits, PostsStand, LedgerFits,
                 RetractedLeftAlone, Documented
<1> QED
    BY <1>1, <1>2, <1>3, <1>4, <1>5, <1>6, <1>7, <1>8, <1>9, <1>10, <1>11, <1>12, <1>13, <1>14,
       <1>15 DEF Next, ItemStep, PublishStep

LEMMA InboxInvariant ==
    Spec => []InboxInv
<1>1. Init => InboxInv
    BY InboxInit
<1>2. InboxInv /\ [Next]_vars => InboxInv'
    BY InboxStep
<1> QED
    BY <1>1, <1>2, PTL DEF Spec

(***************************************************************************)
(* The items, posts, entities, books and feeds of every theme are what     *)
(* they should be, and no post knows an item that is not there.            *)
(***************************************************************************)
THEOREM TypeCorrect ==
    Spec => []TypeOK
<1>1. InboxInv => TypeOK
    BY DEF InboxInv
<1> QED
    BY <1>1, InboxInvariant, PTL

(***************************************************************************)
(* Only the subscription form and the import of a publication that has no  *)
(* copy make a second item for a URL (kbItemFor, sendLinkToKb, importToKb, *)
(* syncLiveThemeDb).                                                       *)
(***************************************************************************)
THEOREM UrlsAreTheirItems ==
    Spec => []OneItemPerUrl
<1>1. ASSUME InboxInv
      PROVE  OneItemPerUrl
    <2> SUFFICES ASSUME NEW t \in Themes, NEW j \in DOMAIN items[t], NEW k \in DOMAIN items[t],
                        j < k, items[t][j].url = items[t][k].url
                 PROVE  \/ items[t][k].from = "form"
                        \/ items[t][k].from \in Pubs /\ items[t][k].from # items[t][j].from
        BY DEF OneItemPerUrl
    <2>1. items[t] \in Seq(Item)
        BY <1>1 DEF InboxInv, TypeOK
    <2>2. j \in 1..(k - 1)
        BY <2>1
    <2> QED
        BY <1>1, <2>2 DEF InboxInv, ItemsFit, Fits
<1> QED
    BY <1>1, InboxInvariant, PTL

(***************************************************************************)
(* A name becomes an entity of a theme from its database or in the         *)
(* document of an item ingested there, and by no other way of its tags     *)
(* (ingestItemToClaire, data-add-entity, syncLiveThemeDb).                 *)
(***************************************************************************)
THEOREM EntitiesAreDocumented ==
    Spec => EntitiesNeedDocuments
<1>1. InboxInv /\ [Next]_vars => Documented
    BY InboxStep
<1>2. Documented => [Documented]_vars
    OBVIOUS
<1> QED
    BY <1>1, InboxInvariant, PTL DEF Spec, EntitiesNeedDocuments, Documented

(***************************************************************************)
(* The documents of a database are items of its own theme, whatever theme  *)
(* is shown when they arrive (syncLiveThemeDb).                            *)
(***************************************************************************)
THEOREM DocumentsAtHome ==
    Spec => []DocumentsStayHome
<1>1. InboxInv => DocumentsStayHome
    BY DEF InboxInv, ItemsFit, Fits, DocumentsStayHome
<1> QED
    BY <1>1, InboxInvariant, PTL

(***************************************************************************)
(* A theme's book has one import of a publication for every copy of it in  *)
(* the theme, and there is one copy at most (importToKb, openReshare).     *)
(***************************************************************************)
THEOREM ImportForEveryCopy ==
    Spec => []CopiesCounted
<1>1. ASSUME InboxInv
      PROVE  CopiesCounted
    <2> SUFFICES ASSUME NEW t \in Themes, NEW p \in Pubs
                 PROVE  ledger[t][p]["import"] =
                          Cardinality({k \in DOMAIN items[t] : items[t][k].from = p})
        BY DEF CopiesCounted
    <2> DEFINE copies == {k \in DOMAIN items[t] : items[t][k].from = p}
    <2>1. ledger[t][p]["import"] = IF copies # {} THEN 1 ELSE 0
        BY <1>1 DEF InboxInv, LedgerFits, Copied
    <2>2. CASE copies = {}
        BY <2>1, <2>2, FS_EmptySet
    <2>3. CASE copies # {}
        <3>1. PICK k \in copies : TRUE
            BY <2>3
        <3>2. \A j \in copies : j = k
            <4> TAKE j \in copies
            <4>1. items[t] \in Seq(Item)
                BY <1>1 DEF InboxInv, TypeOK
            <4>2. j \in Nat \ {0} /\ k \in Nat \ {0}
                BY <4>1
            <4>3. ~(j < k)
                <5>1. j < k => j \in 1..(k - 1)
                    BY <4>2
                <5> QED
                    BY <1>1, <5>1 DEF InboxInv, ItemsFit, Fits
            <4>4. ~(k < j)
                <5>1. k < j => k \in 1..(j - 1)
                    BY <4>2
                <5> QED
                    BY <1>1, <5>1 DEF InboxInv, ItemsFit, Fits
            <4> QED
                BY <4>2, <4>3, <4>4
        <3>3. copies = {k}
            BY <3>1, <3>2
        <3> QED
            BY <2>1, <2>3, <3>3, FS_Singleton
    <2> QED
        BY <2>2, <2>3
<1> QED
    BY <1>1, InboxInvariant, PTL

(***************************************************************************)
(* A publication that its author has withdrawn is sent nowhere any more,   *)
(* nor is the copy of it that a theme keeps (openReshare,                  *)
(* openPublishModal).                                                      *)
(***************************************************************************)
THEOREM RetractedStaysUnsent ==
    Spec => RetractionRespected
<1>1. InboxInv /\ [Next]_vars => [RetractedLeftAlone]_vars
    BY InboxStep
<1>2. [RetractedLeftAlone]_vars =>
        [\A p \in retracted \cap retracted' :
           /\ \A t \in Themes : ledger'[t][p] = ledger[t][p]
           /\ \A t \in Themes : \A k \in DOMAIN items[t] :
                items[t][k].from = p => items'[t][k].published = items[t][k].published]_vars
    BY DEF RetractedLeftAlone
<1> QED
    BY <1>1, <1>2, InboxInvariant, PTL DEF Spec, RetractionRespected

(***************************************************************************)
(* The books                                                               *)
(***************************************************************************)
LEMMA EntriesAdded ==
    ASSUME NEW S, IsFiniteSet(S), NEW C, IsFiniteSet(C), S \cap C = {}
    PROVE  IsFiniteSet(S \cup C) /\ Cardinality(S \cup C) = Cardinality(S) + Cardinality(C)
<1>1. IsFiniteSet(S \cup C) /\ Cardinality(S \cup C) = Cardinality(S) + Cardinality(C) - Cardinality(S \cap C)
    BY FS_Union
<1>2. Cardinality(S \cap C) = 0
    BY FS_EmptySet
<1>3. Cardinality(S) \in Nat /\ Cardinality(C) \in Nat
    BY FS_CardinalityType
<1>4. Cardinality(S \cup C) = Cardinality(S) + Cardinality(C)
    BY ONLY <1>1, <1>2, <1>3
<1> QED
    BY <1>1, <1>4

\* An entry is an act with the publication in the book of some theme.
LEMMA EntryIs ==
    ASSUME NEW p, NEW M, NEW z
    PROVE  z \in Entries(p, M) <=>
             \E t \in Themes, m \in M : \E n \in 1..ledger[t][p][m] : z = <<<<t, m>>, n>>
<1> DEFINE of(t, m) == {<<t, m>>} \X (1..ledger[t][p][m])
<1>1. \A t, m : z \in of(t, m) <=> \E n \in 1..ledger[t][p][m] : z = <<<<t, m>>, n>>
    OBVIOUS
<1> HIDE DEF of
<1>2. z \in UNION {of(t, m) : t \in Themes, m \in M} <=> \E t \in Themes, m \in M : z \in of(t, m)
    OBVIOUS
<1>3. Entries(p, M) = UNION {of(t, m) : t \in Themes, m \in M}
    BY DEF Entries, of
<1> QED
    BY <1>1, <1>2, <1>3

\* The shown counts are those of the books, which have finitely many entries.
BooksFit ==
    \A p \in Pubs :
        /\ IsFiniteSet(Entries(p, {"import"})) /\ stats[p].imports = Cardinality(Entries(p, {"import"}))
        /\ IsFiniteSet(Entries(p, Modes)) /\ stats[p].reshares = Cardinality(Entries(p, Modes))

\* What is logged is added to the book of the shown theme and to the counts.
LEMMA LoggedCounts ==
    ASSUME InboxInv, NEW p \in Pubs, NEW imports \in Nat, NEW acts \in [Modes -> Nat],
           Log(p, imports, acts)
    PROVE  /\ ledger'[theme][p]["import"] = ledger[theme][p]["import"] + imports
           /\ \A m \in Modes : ledger'[theme][p][m] = ledger[theme][p][m] + acts[m]
           /\ \A t \in Themes, q \in Pubs :
                t # theme \/ q # p => ledger'[t][q] = ledger[t][q]
           /\ stats'[p].imports = stats[p].imports + imports
           /\ stats'[p].reshares = stats[p].reshares + acts["boost"] + acts["quote"] + acts["link"]
                                   + acts["import_publish"]
           /\ \A q \in Pubs \ {p} : stats'[q] = stats[q]
<1> DEFINE log == [m \in Acts |-> ledger[theme][p][m] + IF m = "import" THEN imports ELSE acts[m]]
           a == stats[p].imports + imports
           b == stats[p].reshares + acts["boost"] + acts["quote"] + acts["link"] + acts["import_publish"]
           s1 == [stats EXCEPT ![p].imports = a]
<1>1. theme \in Themes /\ ledger \in [Themes -> [Pubs -> [Acts -> Nat]]]
      /\ stats \in [Pubs -> [imports: Int, reshares: Int]]
    BY DEF InboxInv, TypeOK
<1>2. ledger' = [ledger EXCEPT ![theme][p] = log] /\ stats' = [s1 EXCEPT ![p].reshares = b]
    BY <1>1 DEF Log
<1>3. log["import"] = ledger[theme][p]["import"] + imports
      /\ \A m \in Modes : log[m] = ledger[theme][p][m] + acts[m]
    BY DEF Acts, Modes
<1>4. a \in Int /\ b \in Int
    BY <1>1 DEF Modes
<1> HIDE DEF log, a, b
<1>5. /\ ledger'[theme][p] = log
      /\ \A t \in Themes, q \in Pubs : t # theme \/ q # p => ledger'[t][q] = ledger[t][q]
    BY <1>1, <1>2
<1>6. /\ s1 \in [Pubs -> [imports: Int, reshares: Int]] /\ s1[p].imports = a
      /\ \A q \in Pubs \ {p} : s1[q] = stats[q]
    BY <1>1, <1>4
<1> HIDE DEF s1
<1>7. /\ stats'[p].imports = a /\ stats'[p].reshares = b
      /\ \A q \in Pubs \ {p} : stats'[q] = stats[q]
    BY <1>2, <1>4, <1>6
<1> QED
    BY <1>3, <1>5, <1>7 DEF a, b

\* It adds as many entries as it adds to the counts.
LEMMA BooksLogged ==
    ASSUME InboxInv, BooksFit, NEW p \in Pubs, NEW imports \in Nat, NEW acts \in [Modes -> Nat],
           Log(p, imports, acts), theme' = theme
    PROVE  BooksFit'
<1> DEFINE c == ledger[theme][p]
           N(m, d) == (c[m] + 1)..(c[m] + d)
           B(m, d) == {<<theme, m>>} \X N(m, d)
           S == Entries(p, Modes)
           S1 == S \cup B("boost", acts["boost"])
           S2 == S1 \cup B("quote", acts["quote"])
           S3 == S2 \cup B("link", acts["link"])
           S4 == S3 \cup B("import_publish", acts["import_publish"])
<1>1. /\ theme \in Themes /\ c \in [Acts -> Nat] /\ stats \in [Pubs -> [imports: Int, reshares: Int]]
      /\ ledger \in [Themes -> [Pubs -> [Acts -> Nat]]]
    BY DEF InboxInv, TypeOK
<1>2. /\ ledger'[theme][p]["import"] = c["import"] + imports
      /\ \A m \in Modes : ledger'[theme][p][m] = c[m] + acts[m]
      /\ \A t \in Themes, q \in Pubs :
                t # theme \/ q # p => ledger'[t][q] = ledger[t][q]
      /\ stats'[p].imports = stats[p].imports + imports
      /\ stats'[p].reshares = stats[p].reshares + acts["boost"] + acts["quote"] + acts["link"]
                              + acts["import_publish"]
      /\ \A q \in Pubs \ {p} : stats'[q] = stats[q]
    BY LoggedCounts
<1> HIDE DEF c
<1>3. ASSUME NEW q \in Pubs \ {p}, NEW M
      PROVE  Entries(q, M)' = Entries(q, M)
    <2>1. \A t \in Themes : ledger'[t][q] = ledger[t][q]
        BY <1>2
    <2> QED
        BY <2>1 DEF Entries
<1>4. ASSUME NEW M \in SUBSET Acts, NEW d \in [M -> Nat],
             \A m \in M : ledger'[theme][p][m] = c[m] + d[m], NEW z
      PROVE  z \in Entries(p, M)' <=> z \in Entries(p, M) \/ \E m \in M : z \in B(m, d[m])
    <2>1. z \in Entries(p, M)' <=>
            \E t \in Themes, m \in M : \E n \in 1..ledger'[t][p][m] : z = <<<<t, m>>, n>>
        <3> DEFINE of(t, m) == {<<t, m>>} \X (1..ledger'[t][p][m])
        <3>1. \A t, m : z \in of(t, m) <=> \E n \in 1..ledger'[t][p][m] : z = <<<<t, m>>, n>>
            OBVIOUS
        <3> HIDE DEF of
        <3>2. z \in UNION {of(t, m) : t \in Themes, m \in M} <=> \E t \in Themes, m \in M : z \in of(t, m)
            OBVIOUS
        <3>3. Entries(p, M)' = UNION {of(t, m) : t \in Themes, m \in M}
            BY DEF Entries, of
        <3> QED
            BY <3>1, <3>2, <3>3
    <2>2. ASSUME NEW m \in M
          PROVE  1..(c[m] + d[m]) = 1..c[m] \cup N(m, d[m])
        <3>1. c[m] \in Nat /\ d[m] \in Nat
            BY <1>1
        <3> QED
            BY <3>1
    <2>3. \A t \in Themes : t # theme => ledger'[t][p] = ledger[t][p]
        BY <1>2
    <2>4. ASSUME z \in Entries(p, M)'
          PROVE  z \in Entries(p, M) \/ \E m \in M : z \in B(m, d[m])
        <3>1. PICK t \in Themes, m \in M : \E n \in 1..ledger'[t][p][m] : z = <<<<t, m>>, n>>
            BY <2>1, <2>4
        <3>2. CASE t # theme
            BY <2>3, <3>1, <3>2, EntryIs
        <3>3. CASE t = theme
            <4>1. PICK n \in 1..c[m] \cup N(m, d[m]) : z = <<<<theme, m>>, n>>
                BY <1>4, <2>2, <3>1, <3>3
            <4>2. CASE n \in 1..c[m]
                BY <1>1, <4>1, <4>2, EntryIs DEF c
            <4>3. CASE n \in N(m, d[m])
                BY <4>1, <4>3
            <4> QED
                BY <4>1, <4>2, <4>3
        <3> QED
            BY <3>2, <3>3
    <2>5. ASSUME z \in Entries(p, M)
          PROVE  z \in Entries(p, M)'
        <3>1. PICK t \in Themes, m \in M : \E n \in 1..ledger[t][p][m] : z = <<<<t, m>>, n>>
            BY <2>5, EntryIs
        <3>2. CASE t # theme
            BY <2>1, <2>3, <3>1, <3>2
        <3>3. CASE t = theme
            <4>1. PICK n \in 1..c[m] : z = <<<<theme, m>>, n>>
                BY <3>1, <3>3 DEF c
            <4>2. n \in 1..ledger'[theme][p][m]
                BY <1>4, <2>2
            <4> QED
                BY <1>1, <2>1, <4>1, <4>2
        <3> QED
            BY <3>2, <3>3
    <2>6. ASSUME NEW m \in M, z \in B(m, d[m])
          PROVE  z \in Entries(p, M)'
        <3>1. PICK n \in N(m, d[m]) : z = <<<<theme, m>>, n>>
            BY <2>6
        <3>2. n \in 1..ledger'[theme][p][m]
            BY <1>4, <2>2
        <3> QED
            BY <1>1, <2>1, <3>1, <3>2
    <2> QED
        BY <2>4, <2>5, <2>6
<1>5. \A M : \A m \in M : \A n : <<<<theme, m>>, n>> \in Entries(p, M) => n \in 1..c[m]
    BY EntryIs DEF c
<1>a. ASSUME NEW T, IsFiniteSet(T), NEW m \in Acts, NEW d \in Nat,
             \A n \in N(m, d) : <<<<theme, m>>, n>> \notin T
      PROVE  IsFiniteSet(T \cup B(m, d)) /\ Cardinality(T \cup B(m, d)) = Cardinality(T) + d
    <2>1. PICK e : e = <<theme, m>>
        OBVIOUS
    <2>2. PICK n : n = N(m, d)
        OBVIOUS
    <2>3. PICK b : b = {e} \X n
        OBVIOUS
    <2>4. b = B(m, d)
        BY <2>1, <2>2, <2>3
    <2>5. c[m] \in Nat
        BY <1>1
    <2>6. IsFiniteSet(n) /\ Cardinality(n) = d
        <3>1. PICK a \in Nat : a = c[m]
            BY <2>5
        <3>2. n = (a + 1)..(a + d)
            BY <2>2, <3>1
        <3>3. IsFiniteSet((a + 1)..(a + d)) /\ Cardinality((a + 1)..(a + d)) = d
            BY FS_Interval
        <3> QED
            BY ONLY <3>2, <3>3
    <2>7. T \cap b = {}
        BY <1>a, <2>1, <2>2, <2>3
    <2>8. IsFiniteSet({e}) /\ Cardinality({e}) = 1
        BY FS_Singleton
    <2>9. IsFiniteSet(b) /\ Cardinality(b) = 1 * d
        BY ONLY <2>3, <2>6, <2>8, FS_Product
    <2>10. IsFiniteSet(T) /\ d \in Nat
        BY <1>a
    <2> HIDE DEF B, N
    <2>11. IsFiniteSet(T \cup b) /\ Cardinality(T \cup b) = Cardinality(T) + Cardinality(b)
        BY ONLY <2>7, <2>9, <2>10, EntriesAdded
    <2> QED
        BY <2>4, <2>9, <2>10, <2>11
<1>6. /\ IsFiniteSet(Entries(p, {"import"})') /\ Cardinality(Entries(p, {"import"})') = stats'[p].imports
    <2> DEFINE I == Entries(p, {"import"})
               d == [m \in {"import"} |-> imports]
    <2>1. IsFiniteSet(I) /\ stats[p].imports = Cardinality(I) /\ c["import"] \in Nat
        BY <1>1 DEF BooksFit, Acts
    <2>2. \A n \in N("import", imports) : <<<<theme, "import">>, n>> \notin I
        BY <1>5, <2>1
    <2>3. /\ IsFiniteSet(I \cup B("import", imports))
          /\ Cardinality(I \cup B("import", imports)) = Cardinality(I) + imports
        <3>1. "import" \in Acts
            BY DEF Acts
        <3> HIDE DEF B, I
        <3> QED
            BY <1>a, <2>1, <2>2, <3>1
    <2>4. d \in [{"import"} -> Nat] /\ d["import"] = imports /\ {"import"} \in SUBSET Acts
        BY DEF Acts
    <2> HIDE DEF d, B
    <2>5. \A z : z \in I' <=> z \in I \/ z \in B("import", imports)
        BY <1>2, <1>4, <2>4
    <2>6. I' = I \cup B("import", imports)
        BY <2>5
    <2> QED
        BY <1>2, <2>1, <2>3, <2>6
<1>7. /\ IsFiniteSet(Entries(p, Modes)') /\ Cardinality(Entries(p, Modes)') = stats'[p].reshares
    <2>1. \A m \in Modes : m \in Acts /\ c[m] \in Nat /\ acts[m] \in Nat
        BY <1>1 DEF Acts
    <2>2. {"boost", "quote", "link", "import_publish"} = Modes
        BY DEF Modes
    <2>3. IsFiniteSet(S) /\ stats[p].reshares = Cardinality(S)
        BY DEF BooksFit
    <2>4. \A m \in Modes : \A n \in N(m, acts[m]) : <<<<theme, m>>, n>> \notin S
        BY <1>5, <2>1
    <2>5. \A m, l, d : m # l => \A n : <<<<theme, m>>, n>> \notin B(l, d)
        OBVIOUS
    <2> HIDE DEF S
    <2>6. IsFiniteSet(S1) /\ Cardinality(S1) = Cardinality(S) + acts["boost"]
        <3>1. \A n \in N("boost", acts["boost"]) : <<<<theme, "boost">>, n>> \notin S
            BY <2>2, <2>4
        <3> HIDE DEF B, N
        <3> QED
            BY <1>a, <2>1, <2>2, <2>3, <3>1
    <2>7. IsFiniteSet(S2) /\ Cardinality(S2) = Cardinality(S1) + acts["quote"]
        <3>1. \A n \in N("quote", acts["quote"]) : <<<<theme, "quote">>, n>> \notin S1
            BY <2>2, <2>4, <2>5
        <3> HIDE DEF S1, B, N
        <3> QED
            BY <1>a, <2>1, <2>2, <2>6, <3>1
    <2>8. IsFiniteSet(S3) /\ Cardinality(S3) = Cardinality(S2) + acts["link"]
        <3>1. \A n \in N("link", acts["link"]) : <<<<theme, "link">>, n>> \notin S2
            BY <2>2, <2>4, <2>5
        <3> HIDE DEF S2, B, N
        <3> QED
            BY <1>a, <2>1, <2>2, <2>7, <3>1
    <2>9. IsFiniteSet(S4) /\ Cardinality(S4) = Cardinality(S3) + acts["import_publish"]
        <3>1. \A n \in N("import_publish", acts["import_publish"]) :
                <<<<theme, "import_publish">>, n>> \notin S3
            BY <2>2, <2>4, <2>5
        <3> HIDE DEF S3, B, N
        <3> QED
            BY <1>a, <2>1, <2>2, <2>8, <3>1
    <2>10. Modes \in SUBSET Acts
        BY DEF Acts
    <2>11. \A z : z \in Entries(p, Modes)' <=> z \in S \/ \E m \in Modes : z \in B(m, acts[m])
        BY <1>2, <1>4, <2>10 DEF S
    <2> HIDE DEF B
    <2>12. Entries(p, Modes)' = S4
        BY <2>2, <2>11
    <2>13. Cardinality(S) \in Nat
        BY <2>3, FS_CardinalityType
    <2>14. \A m \in {"boost", "quote", "link", "import_publish"} : acts[m] \in Nat
        BY <2>1, <2>2
    <2> HIDE DEF S1, S2, S3, S4
    <2>15. Cardinality(S4) = Cardinality(S) + acts["boost"] + acts["quote"] + acts["link"]
                             + acts["import_publish"]
        BY <2>6, <2>7, <2>8, <2>9, <2>13, <2>14
    <2> QED
        BY <1>2, <2>3, <2>9, <2>12, <2>15
<1>8. ASSUME NEW q \in Pubs \ {p}
      PROVE  /\ IsFiniteSet(Entries(q, {"import"})') /\ stats'[q].imports = Cardinality(Entries(q, {"import"})')
             /\ IsFiniteSet(Entries(q, Modes)') /\ stats'[q].reshares = Cardinality(Entries(q, Modes)')
    BY <1>2, <1>3 DEF BooksFit
<1> QED
    BY <1>6, <1>7, <1>8 DEF BooksFit

LEMMA BooksUntouched ==
    ASSUME BooksFit, UNCHANGED <<ledger, stats>>
    PROVE  BooksFit'
<1>1. \A p, M : Entries(p, M)' = Entries(p, M)
    BY DEF Entries
<1>2. stats' = stats
    OBVIOUS
<1> QED
    BY ONLY BooksFit, <1>1, <1>2 DEF BooksFit

\* The page comes with empty books.
LEMMA BooksEmpty ==
    ASSUME ledger = Fresh.ledger, stats = Fresh.stats
    PROVE  BooksFit
<1>1. ASSUME NEW p \in Pubs, NEW M \in SUBSET Acts
      PROVE  Entries(p, M) = {}
    <2>1. \A t \in Themes, m \in M : ledger[t][p][m] = 0
        BY DEF Fresh
    <2>2. \A z : z \notin Entries(p, M)
        BY <2>1, EntryIs
    <2> QED
        BY <2>2
<1>2. \A p \in Pubs : stats[p].imports = 0 /\ stats[p].reshares = 0
    BY DEF Fresh
<1>3. {"import"} \in SUBSET Acts /\ Modes \in SUBSET Acts
    BY DEF Acts
<1>4. IsFiniteSet({}) /\ Cardinality({}) = 0
    BY FS_EmptySet
<1> QED
    BY <1>1, <1>2, <1>3, <1>4 DEF BooksFit

LEMMA BooksReloaded ==
    ASSUME ledger' = Fresh.ledger, stats' = Fresh.stats
    PROVE  BooksFit'
<1>1. ASSUME NEW p \in Pubs, NEW M \in SUBSET Acts
      PROVE  Entries(p, M)' = {}
    <2>1. \A t \in Themes, m \in M : 1..ledger'[t][p][m] = {}
        BY DEF Fresh
    <2> QED
        BY <2>1 DEF Entries
<1>2. \A p \in Pubs : stats'[p].imports = 0 /\ stats'[p].reshares = 0
    BY DEF Fresh
<1>3. {"import"} \in SUBSET Acts /\ Modes \in SUBSET Acts
    BY DEF Acts
<1>4. IsFiniteSet({}) /\ Cardinality({}) = 0
    BY FS_EmptySet
<1> QED
    BY <1>1, <1>2, <1>3, <1>4 DEF BooksFit

LEMMA BooksImported ==
    ASSUME InboxInv, BooksFit, NEW p \in Pubs, NEW ingestNow \in BOOLEAN, importToKb(p, ingestNow)
    PROVE  BooksFit'
<1>1. PICK imports, acts : /\ imports = Len(imported(p)) - Len(here)
                           /\ acts = [m \in Modes |-> 0]
    OBVIOUS
<1>2. Log(p, imports, acts) /\ theme' = theme
    BY <1>1 DEF importToKb
<1>3. Len(imported(p)) = Len(here) + 1 - Count(Copied(here, p))
    BY Imported
<1>4. Len(here) \in Nat
    BY HereTyped DEF InboxInv
<1>5. imports \in Nat /\ acts \in [Modes -> Nat]
    BY <1>1, <1>3, <1>4 DEF Count
<1> QED
    BY ONLY InboxInv, BooksFit, p \in Pubs, <1>2, <1>5, BooksLogged

LEMMA BooksReshared ==
    ASSUME InboxInv, BooksFit, NEW p \in Pubs, NEW mode \in Modes, NEW A \in SUBSET Accts,
           openReshare(p, mode, A)
    PROVE  BooksFit'
<1> DEFINE its == IF mode = "import_publish" THEN imported(p) ELSE here
           asked(m) == Cardinality({a \in A : requestFor(p, a, mode) = m})
<1>1. PICK imports, acts : imports = Len(its) - Len(here) /\ acts = [m \in Modes |-> asked(m)]
    OBVIOUS
<1>2. Log(p, imports, acts) /\ theme' = theme
    BY <1>1 DEF openReshare
<1>3. Len(imported(p)) = Len(here) + 1 - Count(Copied(here, p))
    BY Imported
<1>4. Len(here) \in Nat
    BY HereTyped DEF InboxInv
<1>5. imports \in Nat
    BY <1>1, <1>3, <1>4 DEF Count
<1>6. ASSUME NEW m \in Modes
      PROVE  asked(m) \in Nat
    <2>1. IsFiniteSet(A)
        BY InboxAssumption, FS_Subset
    <2>2. {a \in A : requestFor(p, a, mode) = m} \in SUBSET A
        OBVIOUS
    <2> QED
        BY <2>1, <2>2, FS_Subset, FS_CardinalityType
<1> HIDE DEF asked
<1>7. acts \in [Modes -> Nat]
    BY <1>1, <1>6
<1> QED
    BY ONLY InboxInv, BooksFit, p \in Pubs, <1>2, <1>5, <1>7, BooksLogged

LEMMA BooksStep ==
    ASSUME InboxInv, BooksFit, [Next]_vars
    PROVE  BooksFit'
<1>1. CASE ItemStep
    <2>1. UNCHANGED peers
        BY <1>1 DEF ItemStep, sendToKb, sendLinkToKb, registerFeed, Subscribe, AddTag, AddEntity,
                    ingestItemToClaire, ingestSelected
    <2> QED
        BY <2>1, BooksUntouched DEF peers
<1>2. CASE PublishStep
    <2>1. CASE \E k \in DOMAIN here : openPublishModal(k)
        <3>1. UNCHANGED peers
            BY <2>1 DEF openPublishModal, PublishItem
        <3> QED
            BY <3>1, BooksUntouched DEF peers
    <2>2. CASE \E p \in Pubs : simulateRetract(p)
        BY <2>2, BooksUntouched DEF simulateRetract
    <2>3. CASE \E p \in Pubs : \E ingestNow \in BOOLEAN : importToKb(p, ingestNow)
        BY <2>3, BooksImported
    <2>4. CASE \E p \in Pubs : \E mode \in Modes, A \in SUBSET Accts : openReshare(p, mode, A)
        BY <2>4, BooksReshared
    <2> QED
        BY <1>2, <2>1, <2>2, <2>3, <2>4 DEF PublishStep
<1>3. CASE Reload
    BY <1>3, BooksReloaded DEF Reload
<1>4. CASE \E t \in Themes : switchTheme(t) \/ syncLiveThemeDb(t)
    <2>1. UNCHANGED peers
        BY <1>4 DEF switchTheme, syncLiveThemeDb
    <2> QED
        BY <2>1, BooksUntouched DEF peers
<1>5. CASE UNCHANGED vars
    BY <1>5, BooksUntouched DEF vars, peers
<1> QED
    BY <1>1, <1>2, <1>3, <1>4, <1>5 DEF Next

(***************************************************************************)
(* The counts shown to everyone are the acts in the books of all themes,   *)
(* and a book has one import for every copy the theme has: nothing that    *)
(* is counted is lost, and nothing is counted twice (importToKb,           *)
(* recordReshare).                                                         *)
(***************************************************************************)
THEOREM BooksAreBalanced ==
    Spec => []BooksBalance
<1>1. Init => BooksFit
    BY BooksEmpty DEF Init
<1>2. InboxInv /\ BooksFit /\ [Next]_vars => BooksFit'
    BY BooksStep
<1>3. ASSUME InboxInv, BooksFit, CopiesCounted
      PROVE  BooksBalance
    <2>1. ASSUME NEW p \in Pubs
          PROVE  stats[p] = [imports |-> Cardinality(Entries(p, {"import"})),
                             reshares |-> Cardinality(Entries(p, Modes))]
        <3>1. stats[p] \in [imports: Int, reshares: Int]
            BY <1>3 DEF InboxInv, TypeOK
        <3>2. /\ stats[p].imports = Cardinality(Entries(p, {"import"}))
              /\ stats[p].reshares = Cardinality(Entries(p, Modes))
            BY <1>3 DEF BooksFit
        <3> QED
            BY <3>1, <3>2
    <2> QED
        BY <1>3, <2>1 DEF BooksBalance
<1> QED
    BY <1>1, <1>2, <1>3, InboxInvariant, ImportForEveryCopy, PTL DEF Spec

===============================================================================
