---------------------------- MODULE KnowledgeInbox ----------------------------
(***************************************************************************)
(* The inbox of the knowledge base in the syndication page: items come     *)
(* from posts of the timelines, from links, from feeds, from what other    *)
(* users of the instance published, from the subscription form and from    *)
(* the database of the theme.  Ingesting an item makes its tags entities   *)
(* of the theme, and more may be typed for an item that is ingested;       *)
(* publishing it makes posts.                                              *)
(*                                                                         *)
(* The page serves several themes, one at a time, and everything but the   *)
(* publications is a theme's own.  All but the registered feeds is gone    *)
(* with the page.  A dialog blocks the page and is one action together     *)
(* with its outcome; the answer to a sync comes whenever it comes.         *)
(*                                                                         *)
(* Items are told apart by the URL they stand for.  Read marks, stars,     *)
(* filters and the text of what is sent are left out, and so are the marks *)
(* of a boost and the deletion of posts (FediClient), and the title that   *)
(* stands among the entities of a document that has no others.             *)
(***************************************************************************)
EXTENDS Integers, FiniteSets, Sequences, SequencesExt

CONSTANTS
    Themes,
    Names,      \* tags and entities
    Noise,      \* the tags that never become entities
    Urls,
    Accts,      \* the connected accounts that may publish
    Writers,    \* those of each theme
    Proto,      \* the protocol of an account
    Quoters,    \* the accounts whose servers have quotes
    Site,       \* the URL given to every post the account makes
    SeedPosts,  \* the posts a theme comes with
    Links,      \* trending links, and what is typed into the form, by URL
    Typed,      \* the tags and entities a user may type
    Feeds,      \* what each theme can register as a feed, "home" among them
    Docs,       \* the documents in the database of each theme
    DocUrl,
    GraphNames, \* the entities in the database of each theme
    Pubs,       \* the publications of other users
    Share,      \* the public page of a publication
    PubTags,    \* its entities
    PubProtos,  \* the protocols it was published with
    Quotable,   \* the publications that may be quoted
    Importable, \* and imported
    MaxItems, MaxPosts, MaxReshares, MaxSyncs    \* bounds

Total(counts) == FoldFunction(LAMBDA m, n : m + n, 0, counts)
AllDocs == UNION {Docs[t] : t \in Themes}
AllFeeds == UNION {Feeds[t] : t \in Themes}
Item == [from: {"post", "link", "form"} \cup AllDocs \cup Pubs, url: Urls,
         tags: SUBSET Names, linked: BOOLEAN, doc: SUBSET Names, published: BOOLEAN]
Post == [acct: Accts, urls: SUBSET Urls, url: Urls, tags: SUBSET Names, feeds: SUBSET AllFeeds,
         sent: Nat]
Modes == {"boost", "quote", "link", "import_publish"}
Acts == Modes \cup {"import"}

ASSUME InboxAssumption ==
    /\ Noise \subseteq Names /\ Typed \subseteq Names /\ Links \subseteq Urls /\ "home" \in AllFeeds
    /\ Quotable \subseteq Pubs /\ Importable \subseteq Pubs
    /\ Site \in [Accts -> Urls] /\ Share \in [Pubs -> Urls] /\ DocUrl \in [AllDocs -> Urls]
    /\ PubTags \in [Pubs -> SUBSET Names]
    /\ SeedPosts \in [Themes -> Seq(Post)]
    /\ \A t \in Themes : \A i \in DOMAIN SeedPosts[t] :
         SeedPosts[t][i].sent = 0 /\ SeedPosts[t][i].url \in SeedPosts[t][i].urls
    /\ \A t \in Themes : IsFiniteSet(Docs[t]) /\ GraphNames[t] \subseteq Names
    /\ \A t, u \in Themes : t # u => Docs[t] \cap Docs[u] = {}
    /\ AllDocs \cap Pubs = {} /\ {"post", "link", "form"} \cap (AllDocs \cup Pubs) = {}
    /\ IsFiniteSet(Accts) /\ Quoters \subseteq Accts /\ \A t \in Themes : Writers[t] \subseteq Accts
    /\ \A n \in {MaxItems, MaxPosts, MaxReshares, MaxSyncs} : n \in Nat
    /\ MaxSyncs > 0

VARIABLES
    theme,      \* state.themeId
    items,      \* the items of each theme, oldest first
    entities,   \* existingEntities
    posts,      \* the posts of each theme, oldest first
    feeds,      \* the registered feeds of each theme
    slot,       \* those in the local storage of the browser
    retracted,  \* the publications their authors have withdrawn
    ledger,     \* what was done with a publication from a theme, counted
    stats,      \* p.stats: the counts over all themes
    syncs       \* syncs of a theme that are under way

vars == <<theme, items, entities, posts, feeds, slot, retracted, ledger, stats, syncs>>
peers == <<retracted, ledger, stats>>
registered == <<feeds, slot>>

TypeOK ==
    /\ theme \in Themes
    /\ DOMAIN items = Themes /\ DOMAIN posts = Themes
    /\ \A t \in Themes : items[t] \in Seq(Item) /\ posts[t] \in Seq(Post)
    /\ \A t \in Themes : \A i \in DOMAIN posts[t] : posts[t][i].sent <= Len(items[t])
    /\ entities \in [Themes -> SUBSET Names]
    /\ feeds \in [Themes -> SUBSET AllFeeds]
    /\ slot \in [Themes -> SUBSET AllFeeds]
    /\ retracted \subseteq Pubs
    /\ ledger \in [Themes -> [Pubs -> [Acts -> Nat]]]
    /\ stats \in [Pubs -> [imports: Int, reshares: Int]]
    /\ syncs \in [Themes -> 0..MaxSyncs]

(***************************************************************************)
(* Items                                                                   *)
(***************************************************************************)
newItem(from, url, tags) ==
    [from |-> from, url |-> url, tags |-> tags, linked |-> FALSE, doc |-> {},
     published |-> FALSE]

\* The item of a post: the one it became, else the newest with a URL of its
\* own or of its card; 0 if there is none.
kbItemFor(its, post) ==
    LET same == {k \in DOMAIN its : its[k].url \in post.urls} IN
    IF post.sent # 0 THEN post.sent
    ELSE IF same = {} THEN 0 ELSE CHOOSE k \in same : \A j \in same : j <= k

here == items[theme]
shown == posts[theme]
Room(n) == n + Total([t \in Themes |-> Len(items[t])]) <= MaxItems

\* An item once it is ingested, or not: what linkedDoc had before is gone.
ingested(item, now) ==
    [item EXCEPT !.linked = @ \/ now, !.doc = IF now THEN item.tags \ Noise ELSE @]

\* The items of the shown theme become its, of which I are ingested now.
\* Mutant: the tags of an item are entities as soon as it is in the inbox.
Become_TagsAreEntities(its, I) ==
    /\ Room(Len(its) - Len(here))
    /\ items' = [items EXCEPT ![theme] = [k \in DOMAIN its |-> ingested(its[k], k \in I)]]
    /\ entities' = [entities EXCEPT ![theme] =
         @ \cup UNION {its[k].tags \ Noise : k \in DOMAIN its}]

Become(its, I) ==
    /\ Room(Len(its) - Len(here))
    /\ items' = [items EXCEPT ![theme] = [k \in DOMAIN its |-> ingested(its[k], k \in I)]]
    /\ entities' = [entities EXCEPT ![theme] =
         @ \cup UNION {its[k].tags \ Noise : k \in I}]

\* Ingesting an item that is linked already is offered, too.
ingestItemToClaire(k) ==
    /\ Become(here, {k})
    /\ UNCHANGED <<theme, posts, registered, peers, syncs>>

\* The items and posts once those of order have become items, one by one.
\* Mutant: the post is given an id made anew.
createKbItemFromPost_IdAnew(its, ps, order) ==
    [items |-> its \o [n \in DOMAIN order |->
                        newItem("post", ps[order[n]].url, ps[order[n]].tags)],
     posts |-> [i \in DOMAIN ps |->
         IF \E n \in DOMAIN order : order[n] = i
         THEN [ps[i] EXCEPT !.sent = Len(its) + 1 + CHOOSE n \in DOMAIN order : order[n] = i]
         ELSE ps[i]]]

createKbItemFromPost(its, ps, order) ==
    [items |-> its \o [n \in DOMAIN order |->
                        newItem("post", ps[order[n]].url, ps[order[n]].tags)],
     posts |-> [i \in DOMAIN ps |->
         IF \E n \in DOMAIN order : order[n] = i
         THEN [ps[i] EXCEPT !.sent = Len(its) + CHOOSE n \in DOMAIN order : order[n] = i]
         ELSE ps[i]]]

sendToKb(i, ingestNow) ==
    LET k == kbItemFor(here, shown[i])
        new == createKbItemFromPost(here, shown, <<i>>) IN
    \/ /\ k # 0 /\ ingestNow /\ ~here[k].linked
       /\ ingestItemToClaire(k)
    \/ /\ k = 0
       /\ Become(new.items, IF ingestNow THEN {Len(new.items)} ELSE {})
       /\ posts' = [posts EXCEPT ![theme] = new.posts]
       /\ UNCHANGED <<theme, registered, peers, syncs>>

sendLinkToKb(url) ==
    /\ \A k \in DOMAIN here : here[k].url # url
    /\ Become(Append(here, newItem("link", url, {})), {})
    /\ UNCHANGED <<theme, posts, registered, peers, syncs>>

\* addKbFeed writes the registered feeds of the theme to its slot.
addKbFeed(f) ==
    /\ feeds' = [feeds EXCEPT ![theme] = @ \cup {f}]
    /\ slot' = [slot EXCEPT ![theme] = feeds'[theme]]

\* A timeline or an author.  Its posts become items one after the other, but for
\* those with an item in the inbox or by a post before them.
\* Mutant: which of them have an item is asked before the first is made.
registerFeed_AskedBefore(f) ==
    \E I \in SUBSET DOMAIN shown : \E order \in [1..Cardinality(I) -> I] :
        LET new == createKbItemFromPost(here, shown, order) IN
        /\ f \notin feeds[theme]
        /\ I = {i \in DOMAIN shown : f \in shown[i].feeds /\ kbItemFor(here, shown[i]) = 0}
        /\ \A m, n \in DOMAIN order : m < n => order[m] < order[n]
        /\ addKbFeed(f)
        /\ Become(new.items, {})
        /\ posts' = [posts EXCEPT ![theme] = new.posts]
        /\ UNCHANGED <<theme, peers, syncs>>

registerFeed(f) ==
    \E I \in SUBSET DOMAIN shown : \E order \in [1..Cardinality(I) -> I] :
        LET new == createKbItemFromPost(here, shown, order) IN
        /\ f \notin feeds[theme]
        /\ I = {i \in DOMAIN shown :
                  /\ f \in shown[i].feeds
                  /\ kbItemFor(here, shown[i]) = 0
                  /\ \A j \in I : j < i => shown[j].url \notin shown[i].urls}
        /\ \A m, n \in DOMAIN order : m < n => order[m] < order[n]
        /\ addKbFeed(f)
        /\ Become(new.items, {})
        /\ posts' = [posts EXCEPT ![theme] = new.posts]
        /\ UNCHANGED <<theme, peers, syncs>>

\* The form asks nobody whether there is such an item.  Its feed is always new
\* and is left out.
Subscribe(url, tags) ==
    /\ Become(Append(here, newItem("form", url, tags)), {})
    /\ UNCHANGED <<theme, posts, registered, peers, syncs>>

AddTag(k, name) ==
    /\ Become([here EXCEPT ![k].tags = @ \cup {name}], {})
    /\ UNCHANGED <<theme, posts, registered, peers, syncs>>

\* An entity for the document of an ingested item.  A tag that never becomes an
\* entity does so here.
AddEntity(k, name) ==
    /\ here[k].linked
    /\ items' = [items EXCEPT ![theme][k].doc = @ \cup {name}]
    /\ entities' = [entities EXCEPT ![theme] = @ \cup {name}]
    /\ UNCHANGED <<theme, posts, registered, peers, syncs>>

ingestSelected(K) ==
    /\ K # {} /\ \A k \in K : ~here[k].linked
    /\ Become(here, K)
    /\ UNCHANGED <<theme, posts, registered, peers, syncs>>

(***************************************************************************)
(* Publishing                                                              *)
(***************************************************************************)
ownPost(a, urls) ==
    [acct |-> a, urls |-> {Site[a]} \cup urls, url |-> Site[a], tags |-> {}, feeds |-> {"home"},
     sent |-> 0]

\* Each of A makes a post; card holds the URLs its card is of.
Speak(A, card) ==
    LET accts == SetToSeq(A)
        ps == shown \o [n \in DOMAIN accts |-> ownPost(accts[n], card[accts[n]])] IN
    /\ Len(shown) + Cardinality(A) <= MaxPosts
    /\ posts' = [posts EXCEPT ![theme] = ps]

\* An item published by the accounts A: recordOutbound boosts the post the item
\* came from, where the account shows it.  Imported items have a dialog of
\* their own, openReshare.
recordOutbound(k, mode, A) ==
    LET shows(a) == \E i \in DOMAIN shown : shown[i].acct = a /\ shown[i].sent = k IN
    Speak({a \in A : ~(mode = "boost" /\ shows(a))}, [a \in A |-> {here[k].url}])

PublishItem(k, mode, A) ==
    /\ A # {} /\ A \subseteq Writers[theme]
    /\ recordOutbound(k, mode, A)
    /\ Become([here EXCEPT ![k].published = TRUE],
              IF mode = "ingested_create" /\ ~here[k].linked THEN {k} ELSE {})
    /\ UNCHANGED <<theme, registered, peers, syncs>>

\* Mutant: the dialog of every item is the common one.
openPublishModal_Common(k) ==
    \E mode \in {"boost", "quote_boost", "ingested_create"}, A \in SUBSET Accts :
        PublishItem(k, mode, A)

openPublishModal(k) ==
    /\ here[k].from \notin Pubs
    /\ \E mode \in {"boost", "quote_boost", "ingested_create"}, A \in SUBSET Accts :
         PublishItem(k, mode, A)

(***************************************************************************)
(* What other users published                                              *)
(***************************************************************************)
importedItem(p) == {k \in DOMAIN here : here[k].from = p}
touched(p) ==
    importedItem(p) # {} \/ \E m \in Modes : ledger[theme][p][m] > 0
listable(p) == p \in retracted => touched(p)

mayImport(p) == importedItem(p) # {} \/ p \in Importable \ retracted

modeAllowed(p, mode) ==
    /\ p \notin retracted
    /\ mode = "quote" => p \in Quotable
    /\ mode = "import_publish" => mayImport(p)
    /\ mode = "boost" => PubProtos[p] # {}

\* importToKb: the items with an import of p, and the position of that import.
imported(p) ==
    IF importedItem(p) # {} THEN here ELSE Append(here, newItem(p, Share[p], PubTags[p]))
place(its, p) == CHOOSE k \in DOMAIN its : its[k].from = p
unlinked(its, K) == {k \in K : ~its[k].linked}

\* The books after imports and acts of each mode with p.
Log(p, imports, acts) ==
    /\ ledger' = [ledger EXCEPT ![theme][p] =
         [m \in Acts |-> @[m] + IF m = "import" THEN imports ELSE acts[m]]]
    /\ stats' = [stats EXCEPT
         ![p].imports = @ + imports,
         ![p].reshares = @ + acts["boost"] + acts["quote"] + acts["link"] + acts["import_publish"]]

\* Mutant: an import is counted when its item is there already.
importToKb_Again(p, ingestNow) ==
    LET its == imported(p) IN
    /\ listable(p) /\ mayImport(p)
    /\ Become(its, IF ingestNow THEN unlinked(its, {place(its, p)}) ELSE {})
    /\ \A m \in Acts : ledger[theme][p][m] <= MaxReshares
    /\ Log(p, 1, [m \in Modes |-> 0])
    /\ UNCHANGED <<theme, posts, registered, retracted, syncs>>

importToKb(p, ingestNow) ==
    LET its == imported(p) IN
    /\ listable(p) /\ mayImport(p)
    /\ Become(its, IF ingestNow THEN unlinked(its, {place(its, p)}) ELSE {})
    /\ Log(p, Len(its) - Len(here), [m \in Modes |-> 0])
    /\ UNCHANGED <<theme, posts, registered, retracted, syncs>>

\* What is sent for account a: a boost or a quote needs a post by the author
\* with the protocol of the account, a quote a server that has them, and it is a
\* link otherwise.
requestFor(p, a, mode) ==
    IF \/ mode \in {"boost", "quote"} /\ Proto[a] \notin PubProtos[p]
       \/ mode = "quote" /\ a \notin Quoters
    THEN "link" ELSE mode

\* A quote has no card.
recordReshare(p, mode, A) ==
    Speak({a \in A : requestFor(p, a, mode) # "boost"},
          [a \in A |-> IF requestFor(p, a, mode) = "quote" THEN {} ELSE {Share[p]}])

\* openReshare and its submit.
openReshare(p, mode, A) ==
    LET publish == mode = "import_publish"
        its == IF publish THEN imported(p) ELSE here
        k == IF publish THEN {place(its, p)} ELSE {}
        asked(m) == Cardinality({a \in A : requestFor(p, a, mode) = m}) IN
    /\ listable(p) /\ modeAllowed(p, mode)
    /\ A # {} /\ A \subseteq Writers[theme]
    /\ Total([q \in Pubs |-> stats[q].reshares]) + Cardinality(A) <= MaxReshares
    /\ recordReshare(p, mode, A)
    /\ Become([j \in DOMAIN its |-> [its[j] EXCEPT !.published = @ \/ j \in k]], unlinked(its, k))
    /\ Log(p, Len(its) - Len(here), [m \in Modes |-> asked(m)])
    /\ UNCHANGED <<theme, registered, retracted, syncs>>

\* The author withdraws the publication.
simulateRetract(p) ==
    /\ p \notin retracted
    /\ retracted' = retracted \cup {p}
    /\ UNCHANGED <<theme, items, entities, posts, registered, ledger, stats, syncs>>

(***************************************************************************)
(* Themes, their databases, and the page                                   *)
(***************************************************************************)
switchTheme(t) ==
    /\ t # theme /\ syncs[t] < MaxSyncs
    /\ theme' = t
    /\ syncs' = [syncs EXCEPT ![t] = @ + 1]
    /\ UNCHANGED <<items, entities, posts, registered, peers>>

\* The answers about theme t: entities, and documents that are new to it.
\* Either may be missing.  Of documents with one URL the first is taken: an
\* answer with several is as the one with that alone.
\* Mutant: the documents are put into the theme shown by now.
syncLiveThemeDb_Shown(t) ==
    /\ syncs[t] > 0
    /\ syncs' = [syncs EXCEPT ![t] = @ - 1]
    /\ \E graph \in SUBSET GraphNames[t], docs \in SUBSET Docs[t] :
         LET new == {d \in docs : \A k \in DOMAIN here : here[k].url # DocUrl[d]}
             live == SetToSeq({[newItem(d, DocUrl[d], {}) EXCEPT !.linked = TRUE] : d \in new}) IN
         /\ \A d, e \in docs : DocUrl[d] = DocUrl[e] => d = e
         /\ Room(Len(live))
         /\ items' = [items EXCEPT ![theme] = @ \o live]
         /\ entities' = [entities EXCEPT ![t] = @ \cup graph]
    /\ UNCHANGED <<theme, posts, registered, peers>>

syncLiveThemeDb(t) ==
    /\ syncs[t] > 0
    /\ syncs' = [syncs EXCEPT ![t] = @ - 1]
    /\ \E graph \in SUBSET GraphNames[t], docs \in SUBSET Docs[t] :
         LET new == {d \in docs : \A k \in DOMAIN items[t] : items[t][k].url # DocUrl[d]}
             live == SetToSeq({[newItem(d, DocUrl[d], {}) EXCEPT !.linked = TRUE] : d \in new}) IN
         /\ \A d, e \in docs : DocUrl[d] = DocUrl[e] => d = e
         /\ Room(Len(live))
         /\ items' = [items EXCEPT ![t] = @ \o live]
         /\ entities' = [entities EXCEPT ![t] = @ \cup graph]
    /\ UNCHANGED <<theme, posts, registered, peers>>

Fresh ==
    [items |-> [t \in Themes |-> <<>>], entities |-> [t \in Themes |-> {}],
     ledger |-> [t \in Themes |-> [p \in Pubs |-> [m \in Acts |-> 0]]],
     stats |-> [p \in Pubs |-> [imports |-> 0, reshares |-> 0]]]

Init ==
    /\ theme \in Themes
    /\ items = Fresh.items /\ entities = Fresh.entities /\ posts = SeedPosts
    /\ feeds = [t \in Themes |-> {}] /\ slot = feeds
    /\ retracted = {} /\ ledger = Fresh.ledger /\ stats = Fresh.stats
    /\ syncs = [t \in Themes |-> IF t = theme THEN 1 ELSE 0]

\* The page is loaded again, from an address that may name another theme.  The
\* registered feeds come from the slots.
Reload ==
    /\ theme' \in Themes
    /\ items' = Fresh.items /\ entities' = Fresh.entities /\ posts' = SeedPosts
    /\ feeds' = slot
    /\ retracted' = {} /\ ledger' = Fresh.ledger /\ stats' = Fresh.stats
    /\ syncs' = [t \in Themes |-> IF t = theme' THEN 1 ELSE 0]
    /\ UNCHANGED slot

ItemStep ==
    \/ \E i \in DOMAIN shown, ingestNow \in BOOLEAN : sendToKb(i, ingestNow)
    \/ \E url \in Links : sendLinkToKb(url)
    \/ \E f \in Feeds[theme] : registerFeed(f)
    \/ \E url \in Links, name \in Typed : Subscribe(url, {name})
    \/ \E k \in DOMAIN here : ingestItemToClaire(k)
    \/ \E k \in DOMAIN here, name \in Typed : AddTag(k, name) \/ AddEntity(k, name)
    \/ \E K \in SUBSET DOMAIN here : ingestSelected(K)

PublishStep ==
    \/ \E k \in DOMAIN here : openPublishModal(k)
    \/ \E p \in Pubs :
         \/ simulateRetract(p)
         \/ \E ingestNow \in BOOLEAN : importToKb(p, ingestNow)
         \/ \E mode \in Modes, A \in SUBSET Accts : openReshare(p, mode, A)

Next ==
    \/ ItemStep \/ PublishStep \/ Reload
    \/ \E t \in Themes : switchTheme(t) \/ syncLiveThemeDb(t)

Spec == Init /\ [][Next]_vars

(***************************************************************************)
(* Properties                                                              *)
(***************************************************************************)
\* A second item for a URL is made by the subscription form and by an import of
\* a publication that has no copy yet, and by nothing else, in whatever order
\* posts, feeds, links, imports and answers of the database come (kbItemFor,
\* sendLinkToKb, importToKb, syncLiveThemeDb).
OneItemPerUrl ==
    \A t \in Themes : \A j, k \in DOMAIN items[t] :
        j < k /\ items[t][j].url = items[t][k].url =>
            \/ items[t][k].from = "form"
            \/ items[t][k].from \in Pubs /\ items[t][k].from # items[t][j].from

\* A name becomes an entity of a theme from its database, or in the document of
\* an item that is ingested there: tags of items in the inbox, on their way from
\* posts, imports, the form or the reader, never do
\* (ingestItemToClaire, data-add-entity, the header of syndication_client.js).
EntitiesNeedDocuments ==
    [][\A t \in Themes : \A e \in entities'[t] \ entities[t] :
        \/ e \in GraphNames[t]
        \/ \E k \in DOMAIN items'[t] : items'[t][k].linked /\ e \in items'[t][k].doc]_vars

\* The documents of a database are items of its own theme, whatever theme is
\* shown when they arrive (syncLiveThemeDb).
DocumentsStayHome ==
    \A t \in Themes : \A k \in DOMAIN items[t] : items[t][k].from \in AllDocs =>
        items[t][k].from \in Docs[t]

\* A theme's book has one import of a publication for every copy (importToKb).
CopiesCounted ==
    \A t \in Themes, p \in Pubs :
        ledger[t][p]["import"] = Cardinality({k \in DOMAIN items[t] : items[t][k].from = p})

\* The acts of the modes M in the books on p: the n-th of mode m in theme t's.
Entries(p, M) == UNION {{<<t, m>>} \X (1..ledger[t][p][m]) : t \in Themes, m \in M}

\* The counts shown to everyone are those of the themes' own books, which count
\* the copies (importToKb, recordReshare).
BooksBalance ==
    /\ \A p \in Pubs :
         stats[p] = [imports |-> Cardinality(Entries(p, {"import"})),
                     reshares |-> Cardinality(Entries(p, Modes))]
    /\ CopiesCounted

\* A publication that its author has withdrawn is sent nowhere any more, nor is
\* the copy of it that a theme keeps (openReshare, openPublishModal).
RetractionRespected ==
    [][\A p \in retracted \cap retracted' :
        /\ \A t \in Themes : ledger'[t][p] = ledger[t][p]
        /\ \A t \in Themes : \A k \in DOMAIN items[t] :
             items[t][k].from = p => items'[t][k].published = items[t][k].published]_vars
===============================================================================
