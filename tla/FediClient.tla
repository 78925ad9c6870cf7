------------------------------ MODULE FediClient ------------------------------
(***************************************************************************)
(* The federated client of one knowledge theme: the accounts connected to  *)
(* remote servers, the posts of their timelines, and what the user does    *)
(* with them.  The page is a prototype that plays the server's part, so    *)
(* every handler runs to its end at once; a modal dialog blocks the rest   *)
(* of the page, and is one action together with its outcome.               *)
(*                                                                         *)
(* Two accounts may show posts of the same author.  The handlers that act  *)
(* on an author look for "the account of the author" as that of the oldest *)
(* post by that author, whatever account the user is looking at.           *)
(*                                                                         *)
(* Filters, polls, translations, bookmarks and likes touch nothing else    *)
(* and are left out; a like is counted the way a boost is.  "timeline"     *)
(* stands for the home timeline and the conversations.  Only of other      *)
(* people's posts does it matter who may see them.                         *)
(***************************************************************************)
EXTENDS Integers, FiniteSets

CONSTANTS
    Accts,      \* accounts that may be connected
    Seeded,     \* those the theme comes with
    Handles,    \* the authors of other people's posts
    Domain,     \* the server of each author and of each account
    Admin,      \* the author of the welcome post of each account's server
    Lists,      \* lists an account may have
    SeedPosts,  \* the posts the theme comes with, a sequence
    MaxPosts    \* bound: posts ever made

Post == [acct: Accts, author: Handles \cup Accts, vis: {"public", "private"},
         tl: {"timeline", "scheduled", "notifications", "thread"},
         boosted: BOOLEAN, boosts: Int]

ASSUME ClientAssumption ==
    /\ Seeded \subseteq Accts /\ Seeded # {} /\ Handles \cap Accts = {}
    /\ DOMAIN Domain = Accts \cup Handles
    /\ Admin \in [Accts -> Handles]
    /\ MaxPosts \in Nat
    /\ \E n \in 0..MaxPosts : SeedPosts \in [1..n -> Post]
    /\ \A i \in DOMAIN SeedPosts : SeedPosts[i].acct \in Seeded /\ SeedPosts[i].boosts = 0
    /\ \A i \in DOMAIN SeedPosts : ~SeedPosts[i].boosted /\ SeedPosts[i].author \in Handles

VARIABLES
    public,     \* theme.isPublic
    accts,      \* the connected accounts
    writable,   \* those with canPublish and the write scopes
    posts,      \* theme.posts, by creation
    made,       \* how many posts there ever were
    muted,      \* acc.mutes
    blocked,    \* acc.blocks
    domains,    \* acc.domainBlocks
    following,  \* the followed authors: profiles[handle].rel.following
    members,    \* profiles[handle].rel.lists
    lists       \* acc.lists

clientVars == <<public, accts, writable, posts, made, muted, blocked, domains, following,
          members, lists>>
relations == <<muted, blocked, domains, following, members, lists>>
themeVars == <<public, accts, writable>>

ClientTypeOK ==
    /\ public \in BOOLEAN
    /\ accts \in SUBSET Accts
    /\ writable \in SUBSET accts
    /\ made \in 0..MaxPosts
    /\ DOMAIN posts \subseteq 1..made
    /\ \A p \in DOMAIN posts : posts[p] \in Post
    /\ muted \in [Accts -> SUBSET Handles]
    /\ blocked \in [Accts -> SUBSET Handles]
    /\ domains \in [Accts -> SUBSET {Domain[h] : h \in Handles}]
    /\ following \in SUBSET Handles
    /\ members \in [Handles -> SUBSET Lists]
    /\ lists \in [Accts -> SUBSET Lists]

(***************************************************************************)
(* What the handlers are built from                                        *)
(***************************************************************************)
canWrite(a) == a \in writable
own(p) == posts[p].author \in Accts
by(h) == {p \in DOMAIN posts : posts[p].author = h}

\* The account of the first post by h; the shown account, which may be any,
\* when there is none.
profileAccounts(h) ==
    IF by(h) = {} THEN accts
    ELSE {posts[p].acct : p \in {q \in by(h) : \A r \in by(h) : q <= r}}

hiddenReason(p, a) ==
    /\ ~own(p)
    /\ \/ posts[p].author \in muted[a] \cup blocked[a]
       \/ Domain[posts[p].author] \in domains[a]

visiblePosts(a, tl) ==
    {p \in DOMAIN posts : posts[p].acct = a /\ posts[p].tl = tl /\ ~hiddenReason(p, a)}

\* The search of the shown account looks through every post but the
\* scheduled ones, the hidden ones too.
searchResults(a) ==
    {p \in DOMAIN posts : posts[p].acct = a /\ posts[p].tl # "scheduled"}

\* What can be selected: a post of a timeline, or of a search.
Selectable ==
    UNION {searchResults(a) \cup visiblePosts(a, "scheduled") : a \in accts}

\* The buttons under a post.  The keys r, b and q work without the button.
restricted(p) == posts[p].vis = "private" /\ ~own(p)
actionBar(p) ==
    IF posts[p].tl = "scheduled" THEN {"sched-cancel"}
    ELSE {"reply"} \cup (IF restricted(p) THEN {} ELSE {"boost", "quote"})

newPost(a, h, vis, tl) ==
    [acct |-> a, author |-> h, vis |-> vis, tl |-> tl, boosted |-> FALSE, boosts |-> 0]

\* posts with one more at the end.
push(ps, n, q) == [p \in DOMAIN ps \cup {n} |-> IF p = n THEN q ELSE ps[p]]
Add(q) == made < MaxPosts /\ posts' = push(posts, made + 1, q) /\ made' = made + 1

without(p) == [q \in DOMAIN posts \ {p} |-> posts[q]]

\* A theme of the page itself, or a clone of the first one for a theme only
\* the server knows.  The clone makes the accounts of a private theme read-only;
\* a theme of the page's own takes the server's is_public and leaves them.
ClientInit ==
    /\ public \in BOOLEAN
    /\ accts = Seeded
    /\ \E clone \in BOOLEAN :
         writable \in IF clone THEN (IF public THEN {Seeded} ELSE {{}}) ELSE SUBSET Seeded
    /\ posts = SeedPosts
    /\ made = Cardinality(DOMAIN SeedPosts)
    /\ muted = [a \in Accts |-> {}]
    /\ blocked = [a \in Accts |-> {}]
    /\ domains = [a \in Accts |-> {}]
    /\ following \in SUBSET Handles
    /\ members = [h \in Handles |-> {}]
    /\ lists = [a \in Accts |-> Lists]

(***************************************************************************)
(* Accounts                                                                *)
(***************************************************************************)
\* openConnect: the account, and a welcome post by the server's
\* administrator.  The same server may be connected twice.
addAccount(a, canPublish) ==
    /\ accts' = accts \cup {a}
    /\ writable' = IF canPublish THEN writable \cup {a} ELSE writable

Connect(a, allowPublish) ==
    /\ a \notin accts
    /\ addAccount(a, public /\ allowPublish)
    /\ Add(newPost(a, Admin[a], "public", "timeline"))
    /\ UNCHANGED <<public, relations>>

(***************************************************************************)
(* Posts                                                                   *)
(***************************************************************************)
boostOf(p, on) == [posts EXCEPT ![p].boosted = on, ![p].boosts = @ + (IF on THEN 1 ELSE -1)]

toggleAction(p) ==
    /\ canWrite(posts[p].acct)
    /\ posts' = boostOf(p, ~posts[p].boosted)
    /\ UNCHANGED <<themeVars, made, relations>>

BoostButton(p) == p \in Selectable /\ "boost" \in actionBar(p) /\ toggleAction(p)
BoostKey(p) == p \in Selectable /\ toggleAction(p)

\* openCompose and its submit.  A reply is by the account that shows the post.
Reply(p) ==
    /\ p \in Selectable /\ canWrite(posts[p].acct)
    /\ Add(newPost(posts[p].acct, posts[p].acct, "public", "thread"))
    /\ UNCHANGED <<themeVars, relations>>

\* A new post or a quote, by accounts of choice, one post each.
Compose(a) ==
    /\ canWrite(a)
    /\ \E tl \in {"timeline", "scheduled"} : Add(newPost(a, a, "public", tl))
    /\ UNCHANGED <<themeVars, relations>>

Remove(p) ==
    /\ canWrite(posts[p].acct)
    /\ posts' = without(p)
    /\ UNCHANGED <<themeVars, made, relations>>

deletePost(p) == p \in Selectable /\ own(p) /\ Remove(p)
cancelScheduled(p) == p \in Selectable /\ "sched-cancel" \in actionBar(p) /\ Remove(p)

\* Delete and write again: the post is gone before the dialog opens, and the
\* new one, if it is sent, starts at zero.
Redraft(p) ==
    /\ p \in Selectable /\ own(p) /\ canWrite(posts[p].acct) /\ made < MaxPosts
    /\ \E tl \in {"timeline", "scheduled"} :
         posts' = push(without(p), made + 1, newPost(posts[p].acct, posts[p].acct, "public", tl))
    /\ made' = made + 1
    /\ UNCHANGED <<themeVars, relations>>

\* Publishing an item of the knowledge base by an account: a boost of the
\* post the item came from, if the account shows it, or a post of its own.
\* Mutant: a post that is boosted already is boosted again.
recordOutbound_Twice(a, p) ==
    /\ canWrite(a)
    /\ IF p \in DOMAIN posts
       THEN /\ posts[p].acct = a
            /\ posts' = [posts EXCEPT ![p].boosted = TRUE, ![p].boosts = @ + 1]
            /\ UNCHANGED made
       ELSE Add(newPost(a, a, "public", "timeline"))
    /\ UNCHANGED <<themeVars, relations>>

recordOutbound(a, p) ==
    /\ canWrite(a)
    /\ IF p \in DOMAIN posts
       THEN /\ posts[p].acct = a
            /\ posts' = IF posts[p].boosted THEN posts ELSE boostOf(p, TRUE)
            /\ UNCHANGED made
       ELSE Add(newPost(a, a, "public", "timeline"))
    /\ UNCHANGED <<themeVars, relations>>

\* Accepting a notification request lets its mention in.
AcceptRequest(a, h) ==
    /\ canWrite(a)
    /\ Add(newPost(a, h, "public", "notifications"))
    /\ UNCHANGED <<themeVars, relations>>

(***************************************************************************)
(* Authors                                                                 *)
(***************************************************************************)
\* Mutant: the scope of the account looked at is asked, not of the changed one.
setMute_AsksShown(h, on) ==
    \E a \in profileAccounts(h) :
        /\ writable # {}
        /\ muted' = [muted EXCEPT ![a] = IF on THEN @ \cup {h} ELSE @ \ {h}]
        /\ UNCHANGED <<themeVars, posts, made, blocked, domains, following, members, lists>>

setMute(h, on) ==
    \E a \in profileAccounts(h) :
        /\ canWrite(a)
        /\ muted' = [muted EXCEPT ![a] = IF on THEN @ \cup {h} ELSE @ \ {h}]
        /\ UNCHANGED <<themeVars, posts, made, blocked, domains, following, members, lists>>

\* A block also ends the following, and leaves the lists.
setBlock(h, on) ==
    \E a \in profileAccounts(h) :
        /\ canWrite(a)
        /\ blocked' = [blocked EXCEPT ![a] = IF on THEN @ \cup {h} ELSE @ \ {h}]
        /\ following' = IF on THEN following \ {h} ELSE following
        /\ UNCHANGED <<themeVars, posts, made, muted, domains, members, lists>>

\* Mutant: the author instead of the author's server.
blockDomain_Author(h) ==
    \E a \in profileAccounts(h) :
        /\ canWrite(a)
        /\ domains' = [domains EXCEPT ![a] = @ \cup {h}]
        /\ UNCHANGED <<themeVars, posts, made, muted, blocked, following, members, lists>>

blockDomain(h) ==
    \E a \in profileAccounts(h) :
        /\ canWrite(a)
        /\ domains' = [domains EXCEPT ![a] = @ \cup {Domain[h]}]
        /\ UNCHANGED <<themeVars, posts, made, muted, blocked, following, members, lists>>

\* The menu of a post is offered by the account that shows it.
runMenu(p) ==
    LET a == posts[p].acct
        h == posts[p].author IN
    /\ p \in Selectable /\ h \in Handles /\ canWrite(a)
    /\ \/ setMute(h, h \notin muted[a])
       \/ setBlock(h, h \notin blocked[a])
       \/ Domain[h] # Domain[a] /\ blockDomain(h)

\* The profile of an author: follow, mute, block.
Follow(h) ==
    \E a \in profileAccounts(h) :
        /\ canWrite(a)
        /\ IF h \in following
           THEN following' = following \ {h} /\ members' = [members EXCEPT ![h] = {}]
           ELSE following' = following \cup {h} /\ UNCHANGED members
        /\ UNCHANGED <<themeVars, posts, made, muted, blocked, domains, lists>>

runRel(h) ==
    \/ Follow(h)
    \/ \E a \in profileAccounts(h) : setMute(h, h \notin muted[a]) \/ setBlock(h, h \notin blocked[a])

toggleListMember(h, l) ==
    \E a \in profileAccounts(h) :
        /\ canWrite(a) /\ l \in lists[a]
        /\ h \in following
        /\ members' = [members EXCEPT ![h] = IF l \in @ THEN @ \ {l} ELSE @ \cup {l}]
        /\ UNCHANGED <<themeVars, posts, made, muted, blocked, domains, following, lists>>

\* The manage screen of an account; mutes and blocks are again undone where
\* the author's account is.
undoDomain(a, d) ==
    /\ canWrite(a)
    /\ domains' = [domains EXCEPT ![a] = @ \ {d}]
    /\ UNCHANGED <<themeVars, posts, made, muted, blocked, following, members, lists>>

\* Deleting a list leaves its members' entries.
setList(a, l) ==
    /\ canWrite(a)
    /\ lists' = [lists EXCEPT ![a] = IF l \in @ THEN @ \ {l} ELSE @ \cup {l}]
    /\ UNCHANGED <<themeVars, posts, made, muted, blocked, domains, following, members>>

runManage(a) ==
    \/ \E h \in muted[a] : setMute(h, FALSE)
    \/ \E h \in blocked[a] : setBlock(h, FALSE)
    \/ \E d \in domains[a] : undoDomain(a, d)
    \/ \E l \in Lists : setList(a, l)

PostStep ==
    \/ \E p \in DOMAIN posts :
         \/ BoostButton(p) \/ BoostKey(p) \/ Reply(p) \/ deletePost(p)
         \/ cancelScheduled(p) \/ Redraft(p) \/ runMenu(p)
    \/ \E a \in accts : Compose(a) \/ \E p \in DOMAIN posts \cup {0} : recordOutbound(a, p)
    \/ \E a \in accts, h \in Handles : AcceptRequest(a, h)

AccountStep ==
    \/ \E a \in Accts, allowPublish \in BOOLEAN : Connect(a, allowPublish)
    \/ \E h \in Handles : runRel(h) \/ \E l \in Lists : toggleListMember(h, l)
    \/ \E a \in accts : runManage(a)

ClientNext == PostStep \/ AccountStep
ClientSpec == ClientInit /\ [][ClientNext]_clientVars

(***************************************************************************)
(* Properties                                                              *)
(***************************************************************************)
\* A boost is counted once however it came about - by the button, by the key or
\* by publishing the item the post became (toggleAction, recordOutbound).
BoostsCounted == \A p \in DOMAIN posts : posts[p].boosts = IF posts[p].boosted THEN 1 ELSE 0

\* What an account has said and whom it keeps away.
Said(a) == {p \in DOMAIN posts : posts[p].author = a \/ (posts[p].acct = a /\ posts[p].boosted)}

\* Nothing is done in the name of an account without write scopes, whichever
\* account the user was looking at when asking for it (guard, setMute, setBlock).
ReadOnlyStaysSilent ==
    [][\A a \in accts \ writable :
        /\ Said(a)' = Said(a)
        /\ <<muted[a], blocked[a], domains[a], lists[a]>>' =
           <<muted[a], blocked[a], domains[a], lists[a]>>]_clientVars
===============================================================================
