---------------------------- MODULE LiveClientProofs ----------------------------
(***************************************************************************)
(* The proofs about the two pages of syndication that keep lists of what   *)
(* they show, the live page and the federated client.                      *)
(*                                                                         *)
(* The live page, for any themes, documents and number of syncs: its       *)
(* types, that a theme's list only has documents of its own database, and  *)
(* that the server knows of what is shown as read.  An answer on its way   *)
(* is only as good as what the server read, so Fits speaks of the answers  *)
(* too: they hold documents of their theme, and what they say was seen the *)
(* server has marked.                                                      *)
(*                                                                         *)
(* The client, for every number of accounts, authors, servers, lists and   *)
(* posts: every boost is counted once, and nothing is done in the name of  *)
(* an account without write scopes.  The handlers ask the scope of the     *)
(* account a post is shown by, or of the one an author is found at.  That  *)
(* this is the account in whose name they act rests on two facts about the *)
(* posts: one of the user's own is shown by the account that wrote it, and *)
(* every post by a connected account.                                      *)
(***************************************************************************)
EXTENDS SyndicationLive, FediClient, FiniteSetTheorems, WellFoundedInduction, TLAPS

-----------------------------------------------------------------------------
(* The live page                                                           *)

Answer == [theme: Themes, held: SUBSET Docs, seen: SUBSET Docs]
Answers == UNION {[S -> Nat \ {0}] : S \in SUBSET Answer}
ThemeLists == [Themes -> [Docs -> Row]]
Databases == [held: SUBSET Docs, seen: SUBSET Docs]

\* The list l of the page against what was told and what the databases have.
Listing(l, marks, db) ==
    \A t \in Themes, d \in Docs :
        /\ l[t][d].on => Home[d] = t
        /\ l[t][d].unread => d \in db.held
        /\ l[t][d].on /\ ~l[t][d].unread => d \in marks \cup db.seen

Reading(bag, db) ==
    \A a \in DOMAIN bag :
        /\ a.held \subseteq db.held /\ a.seen \subseteq db.seen
        /\ \A d \in a.held : Home[d] = a.theme

Typed ==
    /\ theme \in Themes /\ selected \in Docs \cup {None} /\ loading \in BOOLEAN
    /\ list \in ThemeLists /\ server \in Databases
    /\ asked \in [Themes -> Nat] /\ answers \in Answers /\ broken \in BOOLEAN
    /\ form = NoForm \/ form \in [kind: {"ingest", "dispatch"}, doc: Docs]

Fits ==
    /\ Typed
    /\ told \subseteq server.held /\ server.seen \subseteq server.held
    /\ Listing(list, told, server) /\ Reading(answers, server)

(***************************************************************************)
(* The newest document                                                     *)
(***************************************************************************)
Below == {s \in Nat \X Nat : s[1] < s[2]}

LEMMA BelowWellFounded == IsWellFoundedOn(Below, Nat)
<1>1. Below = OpToRel(<, Nat)
    BY DEF Below, OpToRel
<1> QED
    BY <1>1, NatLessThanWellFounded

LEMMA NewestIsThere == ASSUME NEW D \in SUBSET Docs, D # {} PROVE Newest(D) \in D
<1>0. D \subseteq Nat
    BY LiveAssumption
<1>1. PICK m \in D : \A y \in D : ~(<<y, m>> \in Below)
    BY <1>0, BelowWellFounded, WFMin
<1>2. ASSUME NEW e \in D PROVE m <= e
    <2>1. m \in Nat /\ e \in Nat
        BY <1>0
    <2>2. ~(e < m)
        <3>1. <<e, m>> \in Nat \X Nat /\ <<e, m>>[1] = e /\ <<e, m>>[2] = m
            BY <2>1
        <3> QED BY <1>1, <1>2, <3>1 DEF Below
    <2> QED BY <2>1, <2>2
<1> QED
    BY <1>2 DEF Newest

(***************************************************************************)
(* Bags of answers                                                         *)
(***************************************************************************)
LEMMA AddAnswer ==
    ASSUME NEW b \in Answers, NEW a \in Answer
    PROVE  b (+) SetToBag({a}) \in Answers /\ DOMAIN (b (+) SetToBag({a})) = DOMAIN b \cup {a}
<1>1. PICK S \in SUBSET Answer : b \in [S -> Nat \ {0}]
    BY DEF Answers
<1>2. SetToBag({a}) \in [{a} -> Nat \ {0}]
    BY DEF SetToBag
<1>3. b (+) SetToBag({a}) \in [S \cup {a} -> Nat \ {0}]
    BY <1>1, <1>2 DEF (+)
<1> QED
    BY <1>1, <1>3 DEF Answers

LEMMA RemoveAnswer ==
    ASSUME NEW b \in Answers, NEW a
    PROVE  /\ b (-) SetToBag({a}) \in Answers /\ DOMAIN (b (-) SetToBag({a})) \subseteq DOMAIN b
           /\ DOMAIN b \ {a} \subseteq DOMAIN (b (-) SetToBag({a}))
<1>1. PICK S \in SUBSET Answer : b \in [S -> Nat \ {0}]
    BY DEF Answers
<1>2. DOMAIN SetToBag({a}) = {a} /\ SetToBag({a})[a] = 1
    BY DEF SetToBag
<1> DEFINE c == [e \in S |-> IF e \in DOMAIN SetToBag({a}) THEN b[e] - SetToBag({a})[e] ELSE b[e]]
           T == {e \in S : c[e] > 0}
<1>3. \A e \in S : c[e] \in Int
    BY <1>1, <1>2
<1>4. b (-) SetToBag({a}) = [e \in T |-> c[e]]
    BY <1>1 DEF (-)
<1> HIDE DEF c
<1>5. [e \in T |-> c[e]] \in [T -> Nat \ {0}]
    BY <1>3
<1>6. T \in SUBSET Answer
    BY <1>1
<1>7. S \ {a} \subseteq T
    BY <1>1, <1>2 DEF c
<1> QED
    BY <1>1, <1>4, <1>5, <1>6, <1>7 DEF Answers

(***************************************************************************)
(* The page's functions                                                    *)
(***************************************************************************)

\* m is the list l, but for what is there in full.
Like(l, m) ==
    /\ m \in ThemeLists
    /\ \A t \in Themes, d \in Docs : m[t][d].on = l[t][d].on /\ m[t][d].unread = l[t][d].unread

LEMMA HydrateLike ==
    ASSUME NEW l \in ThemeLists, NEW t \in Themes, NEW d \in Docs
    PROVE  Like(l, hydrateLiveDocument(l, t, d))
<1>1. Like(l, l)
    BY DEF Like
<1> DEFINE m == [l EXCEPT ![t][d].full = TRUE]
           r == [l[t][d] EXCEPT !.full = TRUE]
           f == [l[t] EXCEPT ![d] = r]
<1>2. l[t] \in [Docs -> Row] /\ l[t][d] \in Row
    BY DEF ThemeLists
<1>3. r \in Row /\ r.on = l[t][d].on /\ r.unread = l[t][d].unread
    BY <1>2 DEF Row
<1>4. m = [l EXCEPT ![t] = f]
    OBVIOUS
<1> HIDE DEF r, m
<1>5. f \in [Docs -> Row] /\ f[d] = r /\ \A e \in Docs \ {d} : f[e] = l[t][e]
    BY <1>2, <1>3
<1> HIDE DEF f
<1>6. m \in ThemeLists /\ m[t] = f /\ \A u \in Themes \ {t} : m[u] = l[u]
    BY <1>4, <1>5 DEF ThemeLists
<1>7. Like(l, m)
    BY <1>3, <1>5, <1>6 DEF Like
<1> QED
    BY <1>1, <1>7 DEF hydrateLiveDocument, m

LEMMA LikeFollows ==
    ASSUME NEW l, NEW m, NEW n, Like(l, m), Like(m, n)
    PROVE  Like(l, n)
BY DEF Like

LEMMA RenderLike ==
    ASSUME NEW l \in ThemeLists, NEW sel \in Docs \cup {None}, theme' \in Themes,
           renderStreamAndReader(l, sel)
    PROVE  Like(l, list') /\ selected' \in Docs \cup {None}
<1> DEFINE visible == getVisibleDocuments(l[theme'])
<1>1. CASE list' = l /\ selected' = sel
    BY <1>1 DEF Like
<1>2. CASE ~(list' = l /\ selected' = sel)
    <2>1. /\ visible # {} /\ selected' = Newest(visible)
          /\ list' = hydrateLiveDocument(l, theme', selected')
        BY <1>2 DEF renderStreamAndReader
    <2>2. selected' \in Docs
        <3>1. visible \in SUBSET Docs
            BY DEF getVisibleDocuments
        <3> QED BY <2>1, <3>1, NewestIsThere
    <2> QED BY <2>1, <2>2, HydrateLike
<1> QED
    BY <1>1, <1>2

LEMMA LikeListing ==
    ASSUME NEW l, NEW m, NEW marks, NEW db, Like(l, m), Listing(l, marks, db)
    PROVE  Listing(m, marks, db)
BY DEF Like, Listing

\* The documents D marked as read.
LEMMA ReadListing ==
    ASSUME Fits, NEW D \in SUBSET Docs, markDocumentSeen(D)
    PROVE  /\ Read(list, D) \in ThemeLists
           /\ Listing(Read(list, D), told', server) /\ told' \subseteq server.held
           /\ \A d \in Docs : /\ Read(list, D)[theme][d].on = list[theme][d].on
                             /\ Read(list, D)[theme][d].full = list[theme][d].full
<1> DEFINE row(d) == [list[theme][d] EXCEPT !.unread = @ /\ d \notin D]
           f == [d \in Docs |-> row(d)]
<1>0. list \in ThemeLists /\ theme \in Themes
    BY DEF Fits, Typed
<1>1. ASSUME NEW d \in Docs
      PROVE  /\ row(d) \in Row /\ row(d).on = list[theme][d].on
             /\ row(d).unread = (list[theme][d].unread /\ d \notin D)
             /\ row(d).full = list[theme][d].full
    <2>1. list[theme][d] \in Row
        BY <1>0 DEF ThemeLists
    <2> QED BY <2>1 DEF Row
<1>2. Read(list, D) = [list EXCEPT ![theme] = f]
    BY DEF Read
<1>3. \A d \in Docs : f[d] = row(d)
    OBVIOUS
<1>4. f \in [Docs -> Row]
    BY <1>1
<1> HIDE DEF row, f
<1> DEFINE m == [list EXCEPT ![theme] = f]
<1>5. m \in ThemeLists /\ m[theme] = f /\ \A t \in Themes \ {theme} : m[t] = list[t]
    BY <1>0, <1>4 DEF ThemeLists
<1> HIDE DEF m
<1>6. told' \subseteq server.held /\ told \subseteq told'
      /\ \A d \in D : list[theme][d].unread => d \in told'
    BY <1>0 DEF markDocumentSeen, Fits, Listing
<1>7. Listing(m, told', server)
    <2> SUFFICES ASSUME NEW t \in Themes, NEW d \in Docs
                 PROVE  /\ m[t][d].on => Home[d] = t
                        /\ m[t][d].unread => d \in server.held
                        /\ m[t][d].on /\ ~m[t][d].unread => d \in told' \cup server.seen
        BY DEF Listing
    <2>1. /\ list[t][d].on => Home[d] = t
          /\ list[t][d].unread => d \in server.held
          /\ list[t][d].on /\ ~list[t][d].unread => d \in told \cup server.seen
        BY DEF Fits, Listing
    <2>2. CASE t = theme
        BY <1>1, <1>3, <1>5, <1>6, <2>1, <2>2
    <2>3. CASE t # theme
        BY <1>5, <1>6, <2>1, <2>3
    <2> QED BY <2>2, <2>3
<1> QED
    BY <1>1, <1>2, <1>3, <1>5, <1>6, <1>7 DEF m

(***************************************************************************)
(* Steps                                                                   *)
(***************************************************************************)
LEMMA InitFits == Init => Fits
<1> SUFFICES ASSUME Init PROVE Fits
    OBVIOUS
<1>1. NoRow \in Row /\ ~NoRow.on /\ ~NoRow.unread
    BY DEF NoRow, Row
<1>2. list \in ThemeLists /\ Listing(list, told, server)
    <2>1. list = [t \in Themes |-> [d \in Docs |-> NoRow]]
        BY DEF Init
    <2>2. \A t \in Themes, d \in Docs : list[t][d] = NoRow
        BY <2>1
    <2> QED BY <1>1, <2>1, <2>2 DEF ThemeLists, Listing
<1>3. EmptyBag \in Answers /\ DOMAIN EmptyBag = {}
    <2>1. EmptyBag \in [{} -> Nat \ {0}]
        BY DEF EmptyBag, SetToBag
    <2> QED BY <2>1 DEF Answers
<1>4. server \in Databases /\ server.seen = {} /\ told = {} /\ answers = EmptyBag
    BY LiveAssumption DEF Init, Databases
<1>5. asked \in [Themes -> Nat]
    BY DEF Init
<1>6. Typed
    BY <1>2, <1>3, <1>4, <1>5, LiveAssumption DEF Typed, Init
<1>7. Reading(answers, server)
    BY <1>3, <1>4 DEF Reading
<1> QED
    BY <1>2, <1>4, <1>6, <1>7 DEF Fits

LEMMA ListFits == Fits => list \in ThemeLists /\ Listing(list, told, server)
BY DEF Fits, Typed

\* Fits once more, after a step that says what it leaves alone.
LEMMA ReaderStep ==
    ASSUME Fits, NEW d \in Docs, openDocument(d) \/ markRead
    PROVE  Fits'
<1>1. PICK D \in SUBSET Docs :
        /\ markDocumentSeen(D)
        /\ UNCHANGED <<theme, loading, server, asked, answers, broken, form>>
        /\ \E sel \in Docs \cup {None} :
              \/ renderStreamAndReader(Read(list, D), sel)
              \/ renderStreamAndReader(hydrateLiveDocument(Read(list, D), theme, d), sel)
    <2>1. CASE openDocument(d)
        <3>1. PICK D \in {{}, {d}} :
                /\ markDocumentSeen(D)
                /\ UNCHANGED <<theme, loading, server, asked, answers, broken, form>>
                /\ renderStreamAndReader(hydrateLiveDocument(Read(list, D), theme, d), d)
            BY <2>1 DEF openDocument
        <3> QED BY <3>1
    <2>2. CASE markRead
        <3>1. Listed \subseteq Docs /\ selected \in Docs \cup {None}
            BY DEF Listed, Fits, Typed
        <3>2. PICK D \in (SUBSET Listed) \ {{}} :
                  /\ markDocumentSeen(D)
                  /\ UNCHANGED <<theme, loading, server, asked, answers, broken, form>>
                  /\ renderStreamAndReader(Read(list, D), selected)
            BY <2>2 DEF markRead
        <3> QED BY <3>1, <3>2
    <2> QED BY <2>1, <2>2
<1>a. PICK sel \in Docs \cup {None}, l \in {Read(list, D), hydrateLiveDocument(Read(list, D), theme, d)} :
        renderStreamAndReader(l, sel)
    BY <1>1
<1>2. theme \in Themes /\ theme' = theme
    BY <1>1 DEF Fits, Typed
<1>3. /\ Read(list, D) \in ThemeLists /\ Listing(Read(list, D), told', server)
      /\ told' \subseteq server.held
    BY <1>1, ReadListing
<1>4. Like(Read(list, D), l)
    BY <1>2, <1>3, HydrateLike DEF Like
<1>5. Like(l, list') /\ selected' \in Docs \cup {None}
    BY <1>a, <1>2, <1>4, RenderLike DEF Like
<1>6. list' \in ThemeLists /\ Listing(list', told', server)
    BY <1>3, <1>4, <1>5, LikeFollows, LikeListing DEF Like
<1> QED
    BY <1>1, <1>3, <1>5, <1>6 DEF Fits, Typed

LEMMA SyncStep ==
    ASSUME Fits, NEW sel \in Docs \cup {None}, theme' \in Themes, Sync(sel),
           broken' \in BOOLEAN, UNCHANGED <<told, answers>>,
           server' \in Databases, server'.seen = server.seen, server.held \subseteq server'.held,
           form' = NoForm \/ form' \in [kind: {"ingest", "dispatch"}, doc: Docs]
    PROVE  Fits'
<1>1. Like(list, list') /\ selected' \in Docs \cup {None}
    BY ListFits, RenderLike DEF Sync
<1>2. Listing(list', told, server)
    BY <1>1, ListFits, LikeListing
<1>3. Listing(list', told', server')
    BY <1>2 DEF Listing
<1>4. asked' \in [Themes -> Nat] /\ loading' \in BOOLEAN
    BY DEF Sync, Fits, Typed
<1>5. Typed'
    BY <1>1, <1>4 DEF Typed, Like, Fits
<1>6. Reading(answers', server') /\ told' \subseteq server'.held /\ server'.seen \subseteq server'.held
    BY DEF Fits, Reading
<1> QED
    BY <1>3, <1>5, <1>6 DEF Fits

\* A sync is back, with lists that fit.
LEMMA BackStep ==
    ASSUME Fits, NEW t \in Themes, NEW l \in ThemeLists, Listing(l, told, server), Back(t, l),
           asked' \in [Themes -> Nat], answers' \in Answers, DOMAIN answers' \subseteq DOMAIN answers
    PROVE  Fits'
<1> DEFINE kept == {d \in Docs : l[t][d].on}
           new == IF selected = None /\ kept # {} THEN Newest(kept) ELSE selected
           due == toHydrate(selected, new)
           m == IF due = None THEN l ELSE hydrateLiveDocument(l, t, due)
<1>1. /\ UNCHANGED <<theme, server, told, form>> /\ loading' = FALSE /\ broken' = (broken /\ t # theme)
      /\ renderStreamAndReader(m, new)
    BY Zenon DEF Back
<1>2. new \in Docs \cup {None}
    <2>1. kept \in SUBSET Docs
        OBVIOUS
    <2> HIDE DEF kept
    <2>2. kept # {} => Newest(kept) \in Docs
        BY <2>1, NewestIsThere
    <2> QED BY <2>2 DEF Fits, Typed
<1> HIDE DEF new
<1>3. due \in Docs \cup {None}
    BY <1>2 DEF toHydrate, Fits, Typed
<1> HIDE DEF due
<1>4. Like(l, m)
    BY <1>3, HydrateLike DEF Like
<1> HIDE DEF m
<1>5. Like(m, list') /\ selected' \in Docs \cup {None}
    BY <1>1, <1>2, <1>4, RenderLike DEF Fits, Typed, Like
<1>6. list' \in ThemeLists /\ Listing(list', told, server)
    BY <1>4, <1>5, LikeFollows, LikeListing DEF Like
<1>7. Typed'
    BY <1>1, <1>5, <1>6 DEF Typed, Fits
<1>8. Reading(answers', server')
    BY <1>1 DEF Reading, Fits
<1> QED
    BY <1>1, <1>6, <1>7, <1>8 DEF Fits

LEMMA AnswerStep ==
    ASSUME Fits, NEW a \in BagToSet(answers), syncAnswered(a)
    PROVE  Fits'
<1> DEFINE row(d) == IF d \in a.held THEN [on |-> TRUE, unread |-> d \notin a.seen, full |-> FALSE]
                     ELSE NoRow
           f == [d \in Docs |-> row(d)]
           l == [list EXCEPT ![a.theme] = f]
<1>0. list \in ThemeLists /\ answers \in Answers
    BY DEF Fits, Typed
<1>1. a \in DOMAIN answers /\ a \in Answer /\ a.theme \in Themes
    BY <1>0 DEF Answers, BagToSet, Answer
<1>2. /\ answers' = answers (-) SetToBag({a}) /\ UNCHANGED asked
      /\ Back(a.theme, l)
    BY DEF syncAnswered, themeOf
<1>3. \A d \in Docs : /\ row(d) \in Row
                      /\ row(d).on => d \in a.held
                      /\ row(d).unread => d \in a.held
                      /\ row(d).on /\ ~row(d).unread => d \in a.seen
    BY DEF Row, NoRow
<1>4. f \in [Docs -> Row] /\ \A d \in Docs : f[d] = row(d)
    BY <1>3
<1> HIDE DEF row, f
<1>5. l \in ThemeLists /\ l[a.theme] = f /\ \A t \in Themes \ {a.theme} : l[t] = list[t]
    BY <1>0, <1>1, <1>4 DEF ThemeLists
<1> HIDE DEF l
<1>6. Listing(l, told, server)
    <2> SUFFICES ASSUME NEW t \in Themes, NEW d \in Docs
                 PROVE  /\ l[t][d].on => Home[d] = t
                        /\ l[t][d].unread => d \in server.held
                        /\ l[t][d].on /\ ~l[t][d].unread => d \in told \cup server.seen
        BY DEF Listing
    <2>1. CASE t = a.theme
        <3>1. a.held \subseteq server.held /\ a.seen \subseteq server.seen /\ \A e \in a.held : Home[e] = t
            BY <1>1, <2>1 DEF Fits, Reading
        <3> QED BY <1>3, <1>4, <1>5, <2>1, <3>1
    <2>2. CASE t # a.theme
        BY <1>5, <2>2 DEF Fits, Listing
    <2> QED BY <2>1, <2>2
<1>7. answers' \in Answers /\ DOMAIN answers' \subseteq DOMAIN answers /\ asked' \in [Themes -> Nat]
    BY <1>0, <1>2, RemoveAnswer DEF Fits, Typed
<1> QED
    BY <1>1, <1>2, <1>5, <1>6, <1>7, BackStep

LEMMA ServerStep ==
    ASSUME Fits, NEW t \in Themes, serverReads(t) \/ syncRefused(t) \/ syncFails(t)
    PROVE  Fits'
<1>0. answers \in Answers /\ asked \in [Themes -> Nat] /\ server \in Databases
    BY DEF Fits, Typed
<1>1. asked' \in [Themes -> Nat]
    BY <1>0 DEF serverReads, syncRefused, syncFails
<1>2. CASE serverReads(t)
    <2> DEFINE kept == {d \in server.held : Home[d] = t}
               a == [theme |-> t, held |-> kept, seen |-> kept \cap server.seen]
    <2>1. a \in Answer /\ a.held = kept /\ a.seen = kept \cap server.seen /\ a.theme = t
        BY <1>0 DEF Answer, Databases
    <2>2. answers' = answers (+) SetToBag({a})
        BY <1>2 DEF serverReads
    <2>3. UNCHANGED <<page, server, told, broken, form>>
        BY <1>2 DEF serverReads
    <2>4. /\ a.held \subseteq server.held /\ a.seen \subseteq server.seen
          /\ \A d \in a.held : Home[d] = a.theme
        BY <2>1
    <2> HIDE DEF a
    <2>5. answers' \in Answers /\ DOMAIN answers' = DOMAIN answers \cup {a}
        BY <1>0, <2>1, <2>2, AddAnswer
    <2>6. Reading(answers', server')
        BY <2>3, <2>4, <2>5 DEF Reading, Fits
    <2> QED
        BY <1>1, <2>3, <2>5, <2>6 DEF Fits, Typed, page
<1>3. CASE syncRefused(t)
    BY <1>0, <1>1, <1>3, ListFits, BackStep DEF syncRefused
<1>4. CASE syncFails(t)
    <2>1. /\ UNCHANGED <<theme, server, told, answers, form>>
          /\ loading' \in BOOLEAN /\ broken' \in BOOLEAN
          /\ renderStreamAndReader(list, selected)
        BY <1>4 DEF syncFails, notLoading, Fits, Typed
    <2>2. Like(list, list') /\ selected' \in Docs \cup {None}
        BY <2>1, ListFits, RenderLike DEF Fits, Typed
    <2>3. list' \in ThemeLists /\ Listing(list', told', server')
        BY <2>1, <2>2, ListFits, LikeListing DEF Like
    <2> QED
        BY <1>1, <2>1, <2>2, <2>3 DEF Fits, Typed
<1> QED
    BY <1>2, <1>3, <1>4

LEMMA FormStep ==
    ASSUME Fits,
           \/ formAnswered \/ formFails
           \/ \E d \in Docs : seenArrives(d) \/ submitIngest(d) \/ openDispatchModal(d)
    PROVE  Fits'
<1>0. /\ server \in Databases /\ theme \in Themes /\ told \subseteq Docs
      /\ server.seen \subseteq server.held /\ told \subseteq server.held
    BY DEF Fits, Typed, Databases
<1>1. ASSUME form # NoForm, Stores
      PROVE  /\ server' \in Databases /\ server'.seen = server.seen /\ server.held \subseteq server'.held
             /\ form.doc \in Docs
    <2>1. form.doc \in Docs
        BY <1>1 DEF Fits, Typed
    <2> QED BY <1>0, <1>1, <2>1 DEF Stores, Databases
<1>2. CASE formAnswered
    <2> DEFINE sel == IF form.kind = "ingest" THEN form.doc ELSE selected
    <2>1. /\ form # NoForm /\ Stores /\ form' = NoForm /\ Sync(sel)
          /\ UNCHANGED <<theme, told, answers, broken>>
        BY <1>2 DEF formAnswered
    <2>2. sel \in Docs \cup {None} /\ broken \in BOOLEAN
        BY <1>1, <2>1 DEF Fits, Typed
    <2> HIDE DEF sel
    <2> QED
        BY <1>0, <1>1, <2>1, <2>2, SyncStep
<1>3. CASE formFails
    <2>1. /\ UNCHANGED <<page, told, asked, answers, broken>> /\ form' = NoForm
          /\ server' \in Databases /\ server'.seen = server.seen /\ server.held \subseteq server'.held
        BY <1>0, <1>1, <1>3 DEF formFails
    <2>2. Listing(list', told', server') /\ Reading(answers', server')
        BY <2>1 DEF Fits, Listing, Reading, page
    <2> QED
        BY <1>0, <2>1, <2>2 DEF Fits, Typed, page
<1>4. ASSUME NEW d \in Docs, seenArrives(d) PROVE Fits'
    <2>1. d \in told /\ server' = [server EXCEPT !.seen = server.seen \cup {d}] /\ UNCHANGED <<page, calls>>
        BY <1>4 DEF seenArrives
    <2>2. /\ server' \in Databases /\ server'.held = server.held /\ server'.seen = server.seen \cup {d}
          /\ server'.seen \subseteq server'.held
        BY <1>0, <2>1 DEF Databases
    <2>3. Listing(list', told', server') /\ Reading(answers', server')
        BY <2>1, <2>2 DEF Fits, Listing, Reading, page, calls
    <2> QED
        BY <1>0, <2>1, <2>2, <2>3 DEF Fits, Typed, page, calls
<1>5. ASSUME NEW d \in Docs, submitIngest(d) \/ openDispatchModal(d) PROVE Fits'
    BY <1>5 DEF submitIngest, openDispatchModal, Fits, Typed, page
<1> QED
    BY <1>2, <1>3, <1>4, <1>5

LEMMA SwitchStep ==
    ASSUME Fits, refresh \/ \E t \in Themes : changeTheme(t)
    PROVE  Fits'
<1>1. CASE refresh
    BY <1>1, SyncStep DEF refresh, Fits, Typed
<1>2. ASSUME NEW t \in Themes, changeTheme(t) PROVE Fits'
    BY <1>2, SyncStep DEF changeTheme, Fits, Typed
<1> QED
    BY <1>1, <1>2

(***************************************************************************)
(* What is selected is asked for                                           *)
(***************************************************************************)
\* The selected document is asked for, or will be.
Asks == asked[theme] > 0 \/ broken \/ \E a \in BagToSet(answers) : a.theme = theme

LEMMA HydrateFull ==
    ASSUME NEW l \in ThemeLists, NEW d \in Docs, theme' \in Themes, l[theme'][d].on
    PROVE  hydrateLiveDocument(l, theme', d)[theme'][d].full
<1> DEFINE r == [l[theme'][d] EXCEPT !.full = TRUE]
           f == [l[theme'] EXCEPT ![d] = r]
<1>1. l[theme'] \in [Docs -> Row] /\ l[theme'][d] \in Row
    BY DEF ThemeLists
<1>2. r.full
    BY <1>1 DEF Row
<1>3. hydrateLiveDocument(l, theme', d) = [l EXCEPT ![theme'] = f]
    BY DEF hydrateLiveDocument
<1> HIDE DEF r
<1>4. f[d] = r
    BY <1>1
<1> HIDE DEF f
<1>5. [l EXCEPT ![theme'] = f][theme'] = f
    BY DEF ThemeLists
<1> QED
    BY <1>2, <1>3, <1>4, <1>5

\* Whatever the page is drawn with, what it selects by itself it asks for.
LEMMA RenderAsks ==
    ASSUME NEW l \in ThemeLists, NEW sel \in Docs \cup {None}, theme' \in Themes,
           renderStreamAndReader(l, sel),
           sel # None /\ l[theme'][sel].on => l[theme'][sel].full \/ Asks'
    PROVE  SelectedIsAsked'
<1> DEFINE visible == getVisibleDocuments(l[theme'])
<1>1. visible = {d \in Docs : l[theme'][d].on}
    BY DEF getVisibleDocuments
<1>2. CASE /\ (sel # None /\ l[theme'][sel].on) \/ visible = {}
           /\ list' = l /\ selected' = sel
    <2>1. Listed' = visible
        BY <1>1, <1>2 DEF Listed
    <2> QED BY <1>1, <1>2, <2>1 DEF SelectedIsAsked, Asks
<1>3. CASE /\ visible # {} /\ selected' = Newest(visible)
           /\ list' = hydrateLiveDocument(l, theme', selected')
    <2>1. selected' \in visible /\ selected' \in Docs
        BY <1>1, <1>3, NewestIsThere
    <2>2. list'[theme'][selected'].full
        BY <1>1, <1>3, <2>1, HydrateFull
    <2>3. selected' # None
        BY <2>1, LiveAssumption DEF None
    <2> QED BY <2>2, <2>3 DEF SelectedIsAsked
<1> QED
    BY <1>2, <1>3 DEF renderStreamAndReader

LEMMA ReaderAsks ==
    ASSUME Fits, SelectedIsAsked, markRead \/ \E d \in Docs : openDocument(d)
    PROVE  SelectedIsAsked'
<1>1. theme \in Themes /\ Listed \subseteq Docs /\ selected \in Docs \cup {None}
    BY DEF Fits, Typed, Listed
<1>2. CASE markRead
    <2>1. PICK D \in SUBSET Docs :
             /\ markDocumentSeen(D)
             /\ UNCHANGED <<theme, loading, server, asked, answers, broken, form>>
             /\ renderStreamAndReader(Read(list, D), selected)
        BY <1>1, <1>2 DEF markRead
    <2>2. Asks' <=> Asks
        BY <2>1 DEF Asks
    <2>3. selected # None /\ Read(list, D)[theme][selected].on =>
             Read(list, D)[theme][selected].full \/ Asks
        BY <1>1, <2>1, ReadListing DEF SelectedIsAsked, Listed, Asks
    <2> QED BY <1>1, <2>1, <2>2, <2>3, ReadListing, RenderAsks
<1>3. ASSUME NEW d \in Docs, openDocument(d) PROVE SelectedIsAsked'
    <2>1. PICK D \in SUBSET Docs :
             /\ markDocumentSeen(D)
             /\ UNCHANGED <<theme, loading, server, asked, answers, broken, form>>
             /\ renderStreamAndReader(hydrateLiveDocument(Read(list, D), theme, d), d)
        BY <1>3 DEF openDocument
    <2> DEFINE l == hydrateLiveDocument(Read(list, D), theme, d)
    <2>2. Read(list, D) \in ThemeLists /\ theme' = theme
        BY <2>1, ReadListing
    <2>3. Like(Read(list, D), l)
        BY <1>1, <2>2, HydrateLike
    <2>4. l[theme'][d].on => l[theme'][d].full
        BY <1>1, <2>2, <2>3, HydrateFull DEF Like
    <2>5. l \in ThemeLists /\ renderStreamAndReader(l, d)
        BY <2>1, <2>3 DEF Like
    <2> HIDE DEF l
    <2> QED BY <1>1, <2>2, <2>4, <2>5, RenderAsks
<1> QED
    BY <1>2, <1>3

LEMMA SyncAsks ==
    ASSUME Fits, NEW sel \in Docs \cup {None}, theme' \in Themes, Sync(sel)
    PROVE  SelectedIsAsked'
<1>1. asked'[theme'] > 0
    BY DEF Sync, Fits, Typed
<1>2. list \in ThemeLists /\ renderStreamAndReader(list, sel)
    BY DEF Sync, Fits, Typed
<1> QED
    BY <1>1, <1>2, RenderAsks DEF Asks

\* A sync of the shown theme asks for what is selected; one of another theme
\* leaves the shown list, and what is on its way for it, as they are.
LEMMA BackAsks ==
    ASSUME Fits, SelectedIsAsked, NEW t \in Themes, NEW l \in ThemeLists, Back(t, l),
           t # theme => l[theme] = list[theme] /\ asked'[theme] = asked[theme],
           \A a \in BagToSet(answers) : a.theme # t => a \in BagToSet(answers')
    PROVE  SelectedIsAsked'
<1> DEFINE kept == {d \in Docs : l[t][d].on}
           new == IF selected = None /\ kept # {} THEN Newest(kept) ELSE selected
           due == toHydrate(selected, new)
           m == IF due = None THEN l ELSE hydrateLiveDocument(l, t, due)
<1>1. /\ theme' = theme /\ broken' = (broken /\ t # theme)
      /\ renderStreamAndReader(m, new)
    BY Zenon DEF Back
<1>2. theme \in Themes /\ selected \in Docs \cup {None}
    BY DEF Fits, Typed
<1>3. due = new
    BY DEF toHydrate
<1>4. new \in Docs \cup {None} /\ (selected # None => new = selected)
    <2>1. kept # {} => Newest(kept) \in Docs
        BY NewestIsThere
    <2> QED BY <1>2, <2>1
<1> HIDE DEF new, due
<1>5. Like(l, m)
    BY <1>3, <1>4, HydrateLike DEF Like
<1>6. ASSUME new # None, m[theme][new].on PROVE m[theme][new].full \/ Asks'
    <2>1. new \in Docs /\ l[theme][new].on
        BY <1>2, <1>4, <1>5, <1>6 DEF Like
    <2>2. CASE t = theme
        BY <1>1, <1>2, <1>3, <1>6, <2>1, <2>2, HydrateFull
    <2>3. CASE t # theme
        <3>1. m = l /\ new \in Listed
            BY <1>1, <2>1, <2>3 DEF hydrateLiveDocument, Listed
        <3>2. new = selected
            BY <1>4, <3>1 DEF SelectedIsAsked
        <3>3. list[theme][new].full \/ Asks
            BY <1>6, <3>1, <3>2 DEF SelectedIsAsked, Asks
        <3>4. Asks => Asks'
            BY <1>1, <2>3 DEF Asks
        <3> QED BY <2>3, <3>1, <3>3, <3>4
    <2> QED BY <2>2, <2>3
<1>7. m \in ThemeLists
    BY <1>5 DEF Like
<1> HIDE DEF m
<1> QED
    BY <1>1, <1>2, <1>4, <1>6, <1>7, RenderAsks

LEMMA AnswerAsks ==
    ASSUME Fits, SelectedIsAsked, NEW a \in BagToSet(answers), syncAnswered(a)
    PROVE  SelectedIsAsked'
<1> DEFINE f == [d \in Docs |-> IF d \in a.held
                                THEN [on |-> TRUE, unread |-> d \notin a.seen, full |-> FALSE]
                                ELSE NoRow]
           l == [list EXCEPT ![a.theme] = f]
<1>1. list \in ThemeLists /\ answers \in Answers /\ theme \in Themes
    BY DEF Fits, Typed
<1>2. a.theme \in Themes
    BY <1>1 DEF Answers, BagToSet, Answer
<1>3. /\ answers' = answers (-) SetToBag({a}) /\ UNCHANGED asked
      /\ Back(a.theme, l)
    BY DEF syncAnswered, themeOf
<1>4. f \in [Docs -> Row]
    BY DEF Row, NoRow
<1> HIDE DEF f
<1>5. l \in ThemeLists /\ (a.theme # theme => l[theme] = list[theme])
    BY <1>1, <1>2, <1>4 DEF ThemeLists
<1> HIDE DEF l
<1>6. \A b \in BagToSet(answers) : b.theme # a.theme => b \in BagToSet(answers')
    BY <1>1, <1>3, RemoveAnswer DEF BagToSet
<1> QED
    BY <1>2, <1>3, <1>5, <1>6, BackAsks

LEMMA ServerAsks ==
    ASSUME Fits, SelectedIsAsked, NEW t \in Themes, serverReads(t) \/ syncRefused(t) \/ syncFails(t)
    PROVE  SelectedIsAsked'
<1>1. /\ answers \in Answers /\ asked \in [Themes -> Nat] /\ server \in Databases
      /\ theme \in Themes /\ selected \in Docs \cup {None} /\ list \in ThemeLists
    BY DEF Fits, Typed
<1>2. CASE serverReads(t)
    <2> DEFINE kept == {d \in server.held : Home[d] = t}
    <2>1. PICK a \in Answer : a = [theme |-> t, held |-> kept, seen |-> kept \cap server.seen]
        BY <1>1 DEF Answer, Databases
    <2>2. /\ answers' = answers (+) SetToBag({a}) /\ UNCHANGED <<page, broken>>
          /\ asked' = [asked EXCEPT ![t] = @ - 1]
        BY <1>2, <2>1 DEF serverReads
    <2>3. BagToSet(answers') = BagToSet(answers) \cup {a} /\ a.theme = t
        BY <1>1, <2>1, <2>2, AddAnswer DEF BagToSet
    <2>4. Asks => Asks'
        BY <1>1, <2>2, <2>3 DEF Asks, page
    <2>5. Listed' = Listed /\ selected' = selected /\ list' = list /\ theme' = theme
        BY <2>2 DEF page, Listed
    <2> QED BY <2>4, <2>5 DEF SelectedIsAsked, Asks
<1>3. CASE syncRefused(t)
    BY <1>1, <1>3, BackAsks DEF syncRefused
<1>4. CASE syncFails(t)
    <2>1. /\ theme' = theme /\ broken' = (broken \/ t = theme) /\ answers' = answers
          /\ (t # theme => asked'[theme] = asked[theme])
          /\ renderStreamAndReader(list, selected)
        BY <1>1, <1>4 DEF syncFails
    <2>2. Asks => Asks'
        BY <2>1 DEF Asks
    <2>3. selected # None /\ list[theme'][selected].on => list[theme'][selected].full \/ Asks'
        BY <1>1, <2>1, <2>2 DEF SelectedIsAsked, Listed, Asks
    <2> QED BY <1>1, <2>1, <2>3, RenderAsks
<1> QED
    BY <1>2, <1>3, <1>4

LEMMA StepAsks ==
    ASSUME Fits, SelectedIsAsked, [Next]_vars
    PROVE  SelectedIsAsked'
<1>1. theme \in Themes /\ selected \in Docs \cup {None}
    BY DEF Fits, Typed
<1>2. CASE refresh
    BY <1>1, <1>2, SyncAsks DEF refresh
<1>3. ASSUME NEW t \in Themes, changeTheme(t) PROVE SelectedIsAsked'
    BY <1>3, SyncAsks DEF changeTheme
<1>4. CASE formAnswered
    <2> DEFINE sel == IF form.kind = "ingest" THEN form.doc ELSE selected
    <2>1. form # NoForm /\ Sync(sel) /\ theme' = theme
        BY <1>4 DEF formAnswered
    <2>2. sel \in Docs \cup {None}
        BY <1>1, <2>1 DEF Fits, Typed
    <2> HIDE DEF sel
    <2> QED BY <1>1, <2>1, <2>2, SyncAsks
<1>5. CASE \/ formFails \/ UNCHANGED vars
           \/ \E d \in Docs : seenArrives(d) \/ submitIngest(d) \/ openDispatchModal(d)
    <2>1. UNCHANGED <<page, asked, answers, broken>>
        BY <1>5 DEF formFails, vars, seenArrives, submitIngest, openDispatchModal, calls, page
    <2> QED BY <2>1 DEF page, SelectedIsAsked, Listed
<1> QED
    BY <1>2, <1>3, <1>4, <1>5, ReaderAsks, ServerAsks, AnswerAsks DEF Next, User, Answered

\* What the page and the answers hold fits in every reachable state.
THEOREM AllFits == Spec => []Fits
<1>1. Fits /\ [Next]_vars => Fits'
    <2> SUFFICES ASSUME Fits, [Next]_vars PROVE Fits'
        OBVIOUS
    <2>1. CASE Next
        <3>1. CASE markRead
            <4>1. PICK d \in Docs : TRUE
                BY <3>1 DEF markRead, Listed
            <4> QED BY <3>1, ReaderStep
        <3> QED
            BY <2>1, <3>1, ReaderStep, SwitchStep, ServerStep, AnswerStep, FormStep DEF Next, User, Answered
    <2>2. CASE UNCHANGED vars
        BY <2>2 DEF vars, Fits, Typed
    <2> QED BY <2>1, <2>2
<1> QED
    BY <1>1, InitFits, PTL DEF Spec

\* The types of the page, for any themes, documents and number of syncs.
THEOREM TypeCorrect == Spec => []TypeOK
<1>1. Fits => TypeOK
    <2> SUFFICES ASSUME Fits PROVE TypeOK
        OBVIOUS
    <2>1. BagToSet(answers) \subseteq Answer
        <3>1. answers \in Answers
            BY DEF Fits, Typed
        <3>2. PICK S \in SUBSET Answer : answers \in [S -> Nat \ {0}]
            BY <3>1 DEF Answers
        <3> QED BY <3>2 DEF BagToSet
    <2> QED BY <2>1 DEF TypeOK, Fits, Typed, Answer, ThemeLists, Databases
<1> QED
    BY <1>1, AllFits, PTL

\* The list of a theme only has documents of the theme's database, whichever
\* theme is shown when an answer comes.
THEOREM ThemesApart == Spec => []ThemesStayApart
<1>1. Fits => ThemesStayApart
    BY DEF Fits, Listing, ThemesStayApart
<1> QED
    BY <1>1, AllFits, PTL

\* The server has marked, or was told of, whatever is shown as read.
THEOREM ReadMarksReach == Spec => []ReadReachesServer
<1>1. Fits => ReadReachesServer
    BY DEF Fits, Listing, ReadReachesServer
<1> QED
    BY <1>1, AllFits, PTL

\* What is selected is there in full, or asked for, or a sync that will ask is
\* under way or failed, whenever syncs replace the list (syncLiveThemeDb), and
\* nothing is selected only of an empty list.
THEOREM SelectionIsAsked == Spec => []SelectedIsAsked
<1>1. Init => SelectedIsAsked
    <2> SUFFICES ASSUME Init PROVE SelectedIsAsked
        OBVIOUS
    <2>1. ASSUME NEW d \in Docs PROVE ~list[theme][d].on
        BY LiveAssumption DEF Init, NoRow
    <2> QED BY <2>1 DEF Init, SelectedIsAsked, Listed
<1>2. Fits /\ SelectedIsAsked /\ [Next]_vars => SelectedIsAsked'
    BY StepAsks
<1> QED
    BY <1>1, <1>2, AllFits, PTL DEF Spec

-----------------------------------------------------------------------------
(* The federated client                                                    *)

(***************************************************************************)
(* The invariant.                                                          *)
(***************************************************************************)
\* Every post is shown by a connected account, one's own by its author.
PostAtHome(p) ==
    /\ posts[p].acct \in accts
    /\ own(p) => posts[p].author = posts[p].acct

PostsInv ==
    /\ made \in 0..MaxPosts /\ DOMAIN posts \subseteq 1..made
    /\ \A p \in DOMAIN posts : posts[p] \in Post /\ PostAtHome(p)
    /\ BoostsCounted

ThemeTyped == public \in BOOLEAN /\ accts \in SUBSET Accts /\ writable \in SUBSET accts

RelationsTyped ==
    /\ muted \in [Accts -> SUBSET Handles]
    /\ blocked \in [Accts -> SUBSET Handles]
    /\ domains \in [Accts -> SUBSET {Domain[h] : h \in Handles}]
    /\ following \in SUBSET Handles
    /\ members \in [Handles -> SUBSET Lists]
    /\ lists \in [Accts -> SUBSET Lists]

ClientInv == ThemeTyped /\ RelationsTyped /\ PostsInv

\* A step does nothing in the name of a read-only account.
Silent ==
    \A a \in accts \ writable :
        /\ Said(a)' = Said(a)
        /\ <<muted[a], blocked[a], domains[a], lists[a]>>' =
           <<muted[a], blocked[a], domains[a], lists[a]>>

\* What every step does: it keeps the invariant, and the silence.
Good == ClientInv' /\ Silent

(***************************************************************************)
(* Accounts and posts that steps act on.                                   *)
(***************************************************************************)
LEMMA AuthorsAccounts ==
    ASSUME ClientInv, NEW h PROVE profileAccounts(h) \subseteq accts
BY DEF profileAccounts, by, ClientInv, PostsInv, PostAtHome

LEMMA SelectableIsPost ==
    ASSUME NEW p \in Selectable PROVE p \in DOMAIN posts
BY DEF Selectable, searchResults, visiblePosts

LEMMA NewPostTyped ==
    ASSUME NEW a \in Accts, NEW h \in Handles \cup Accts,
           NEW tl \in {"timeline", "scheduled", "notifications", "thread"}
    PROVE  /\ newPost(a, h, "public", tl) \in Post
           /\ newPost(a, h, "public", tl).acct = a
           /\ newPost(a, h, "public", tl).author = h
           /\ ~newPost(a, h, "public", tl).boosted
           /\ newPost(a, h, "public", tl).boosts = 0
BY DEF newPost, Post

(***************************************************************************)
(* A new post, after some were deleted that no read-only account shows, is *)
(* one more that is well formed; a read-only account has said nothing new. *)
(***************************************************************************)
LEMMA NewPostFits ==
    ASSUME ClientInv, accts \subseteq accts', writable \subseteq writable',
           NEW D \in SUBSET DOMAIN posts, \A p \in D : canWrite(posts[p].acct),
           made < MaxPosts, made' = made + 1,
           NEW q \in Post, ~q.boosted, q.boosts = 0, q.acct \in accts',
           q.author \in Accts => q.author = q.acct /\ canWrite(q.acct),
           posts' = push([p \in DOMAIN posts \ D |-> posts[p]], made + 1, q)
    PROVE  PostsInv' /\ \A a \in accts \ writable : Said(a)' = Said(a)
<1>1. made \in Nat /\ MaxPosts \in Nat /\ made + 1 \notin DOMAIN posts
    BY ClientAssumption DEF ClientInv, PostsInv
<1>2. /\ DOMAIN posts' = (DOMAIN posts \ D) \cup {made + 1}
      /\ posts'[made + 1] = q
      /\ \A p \in DOMAIN posts \ D : posts'[p] = posts[p]
    BY <1>1 DEF push
<1>3. PostsInv'
    <2>1. made' \in 0..MaxPosts /\ DOMAIN posts' \subseteq 1..made'
        BY <1>1, <1>2 DEF ClientInv, PostsInv
    <2>2. ASSUME NEW p \in DOMAIN posts'
          PROVE  /\ posts'[p] \in Post /\ PostAtHome(p)'
                 /\ posts'[p].boosts = IF posts'[p].boosted THEN 1 ELSE 0
        BY <1>1, <1>2 DEF ClientInv, PostsInv, PostAtHome, own, BoostsCounted
    <2> QED BY <2>1, <2>2 DEF PostsInv, BoostsCounted
<1>4. ASSUME NEW a \in accts \ writable PROVE Said(a)' = Said(a)
    <2>1. ASSUME NEW p \in D PROVE p \notin Said(a)
        BY ClientAssumption DEF Said, canWrite, ClientInv, ThemeTyped, PostsInv, PostAtHome, own
    <2>2. q.author # a
        BY DEF canWrite, ClientInv, ThemeTyped
    <2> QED BY <1>1, <1>2, <2>1, <2>2 DEF Said
<1> QED BY <1>3, <1>4

LEMMA AddFits ==
    ASSUME ClientInv, accts \subseteq accts', writable \subseteq writable',
           NEW a \in Accts, a \in accts', NEW h \in Handles \cup Accts,
           NEW tl \in {"timeline", "scheduled", "notifications", "thread"},
           h \in Accts => h = a /\ canWrite(a),
           Add(newPost(a, h, "public", tl))
    PROVE  PostsInv' /\ \A x \in accts \ writable : Said(x)' = Said(x)
<1> DEFINE q == newPost(a, h, "public", tl)
<1>1. q \in Post /\ q.acct = a /\ q.author = h /\ ~q.boosted /\ q.boosts = 0
    BY NewPostTyped
<1> HIDE DEF q
<1>2. made < MaxPosts /\ made' = made + 1
      /\ posts' = push(posts, made + 1, q)
    BY DEF Add, q
<1>3. push(posts, made + 1, q) = push([p \in DOMAIN posts \ {} |-> posts[p]], made + 1, q)
    BY DEF push
<1> QED BY <1>1, <1>2, <1>3, NewPostFits

(***************************************************************************)
(* Deleting a post of a writable account.                                  *)
(***************************************************************************)
LEMMA RemoveIsGood ==
    ASSUME ClientInv, NEW p \in DOMAIN posts, Remove(p) PROVE Good
<1> USE DEF Remove, themeVars, relations
<1>1. DOMAIN posts' = DOMAIN posts \ {p} /\ \A q \in DOMAIN posts' : posts'[q] = posts[q]
    BY DEF without
<1>2. PostsInv'
    BY <1>1 DEF ClientInv, PostsInv, PostAtHome, own, BoostsCounted
<1>3. ASSUME NEW a \in accts \ writable PROVE Said(a)' = Said(a)
    <2>1. p \notin Said(a)
        BY ClientAssumption DEF Said, canWrite, ClientInv, ThemeTyped, PostsInv, PostAtHome, own
    <2> QED BY <1>1, <2>1 DEF Said
<1> QED BY <1>2, <1>3 DEF Good, Silent, ClientInv, ThemeTyped, RelationsTyped

(***************************************************************************)
(* Boosting: an account is writable, and the boost is counted.             *)
(***************************************************************************)
LEMMA BoostIsGood ==
    ASSUME ClientInv, NEW p \in DOMAIN posts, canWrite(posts[p].acct),
           NEW on \in BOOLEAN, on = ~posts[p].boosted,
           posts' = boostOf(p, on), UNCHANGED <<themeVars, made, relations>>
    PROVE  Good
<1> USE DEF themeVars, relations
<1>1. posts[p] \in Post
    BY DEF ClientInv, PostsInv
<1> DEFINE d == IF on THEN 1 ELSE -1
           q == [posts[p] EXCEPT !.boosted = on, !.boosts = @ + d]
<1>2. posts' = [posts EXCEPT ![p] = q]
    BY DEF boostOf
<1>3. /\ q \in Post /\ q.acct = posts[p].acct /\ q.author = posts[p].author
      /\ q.boosted = on /\ q.boosts = posts[p].boosts + d
    <2> DEFINE n == posts[p].boosts + d
               s == [posts[p] EXCEPT !.boosted = on]
    <2>1. n \in Int
        BY <1>1 DEF Post
    <2>2. /\ s \in Post /\ s.acct = posts[p].acct /\ s.author = posts[p].author /\ s.boosted = on
        BY <1>1 DEF Post
    <2>3. q = [s EXCEPT !.boosts = n]
        BY <1>1 DEF Post
    <2> HIDE DEF n, s, q
    <2>4. /\ q \in Post /\ q.acct = s.acct /\ q.author = s.author
          /\ q.boosted = s.boosted /\ q.boosts = n
        BY <2>1, <2>2, <2>3 DEF Post
    <2> QED BY <2>2, <2>4 DEF n
<1> HIDE DEF q
<1>4. DOMAIN posts' = DOMAIN posts /\ posts'[p] = q /\ \A r \in DOMAIN posts \ {p} : posts'[r] = posts[r]
    BY <1>2
<1>5. q.boosts = IF q.boosted THEN 1 ELSE 0
    BY <1>1, <1>3 DEF ClientInv, PostsInv, BoostsCounted, Post
<1>6. PostsInv'
    BY <1>3, <1>4, <1>5 DEF ClientInv, PostsInv, PostAtHome, own, BoostsCounted
<1>7. ASSUME NEW a \in accts \ writable PROVE Said(a)' = Said(a)
    BY <1>3, <1>4 DEF Said, canWrite
<1> QED BY <1>6, <1>7 DEF Good, Silent, ClientInv, ThemeTyped, RelationsTyped

LEMMA ToggleIsGood ==
    ASSUME ClientInv, NEW p \in DOMAIN posts, toggleAction(p) PROVE Good
<1>1. (~posts[p].boosted) \in BOOLEAN
    BY DEF ClientInv, PostsInv, Post
<1> QED BY <1>1, BoostIsGood DEF toggleAction

(***************************************************************************)
(* The posts one writes: replies, new posts and quotes, drafts of deleted  *)
(* ones, items that are published, and the mentions one lets in.           *)
(***************************************************************************)
LEMMA AddIsGood ==
    ASSUME ClientInv, NEW a \in accts, NEW h \in Handles \cup Accts,
           NEW tl \in {"timeline", "scheduled", "notifications", "thread"},
           h \in Accts => h = a /\ canWrite(a),
           Add(newPost(a, h, "public", tl)), UNCHANGED <<themeVars, relations>>
    PROVE  Good
<1>1. a \in Accts /\ accts' = accts /\ writable' = writable
    BY DEF ClientInv, ThemeTyped, themeVars
<1>2. PostsInv' /\ \A x \in accts \ writable : Said(x)' = Said(x)
    BY <1>1, AddFits
<1> QED BY <1>2 DEF Good, Silent, ClientInv, ThemeTyped, RelationsTyped, themeVars, relations

LEMMA WritableIsAccount ==
    ASSUME ClientInv, NEW a, canWrite(a) PROVE a \in accts /\ a \in Accts
BY DEF ClientInv, ThemeTyped, canWrite

LEMMA ReplyIsGood ==
    ASSUME ClientInv, NEW p \in DOMAIN posts, Reply(p) PROVE Good
BY AddIsGood, WritableIsAccount DEF Reply

LEMMA ComposeIsGood ==
    ASSUME ClientInv, NEW a \in accts, Compose(a) PROVE Good
BY AddIsGood, WritableIsAccount DEF Compose

LEMMA RedraftIsGood ==
    ASSUME ClientInv, NEW p \in DOMAIN posts, Redraft(p) PROVE Good
<1> USE DEF themeVars, relations
<1>1. PICK tl \in {"timeline", "scheduled"} :
        posts' = push(without(p), made + 1, newPost(posts[p].acct, posts[p].acct, "public", tl))
    BY DEF Redraft
<1> DEFINE a == posts[p].acct
           q == newPost(a, a, "public", tl)
<1>2. a \in Accts /\ a \in accts /\ canWrite(a)
    BY WritableIsAccount DEF Redraft
<1>3. q \in Post /\ q.acct = a /\ q.author = a /\ ~q.boosted /\ q.boosts = 0
    BY <1>2, NewPostTyped
<1>4. posts' = push([r \in DOMAIN posts \ {p} |-> posts[r]], made + 1, q)
    BY <1>1 DEF without
<1> HIDE DEF q
<1>5. PostsInv' /\ \A x \in accts \ writable : Said(x)' = Said(x)
    BY <1>2, <1>3, <1>4, NewPostFits DEF Redraft
<1> QED BY <1>5 DEF Redraft, Good, Silent, ClientInv, ThemeTyped, RelationsTyped

LEMMA OutboundIsGood ==
    ASSUME ClientInv, NEW a \in accts, NEW p \in DOMAIN posts \cup {0}, recordOutbound(a, p)
    PROVE  Good
<1>1. CASE p \notin DOMAIN posts
    BY <1>1, AddIsGood, WritableIsAccount DEF recordOutbound
<1>2. CASE p \in DOMAIN posts /\ posts[p].boosted
    BY <1>2 DEF recordOutbound, Good, Silent, Said, ClientInv, ThemeTyped, RelationsTyped, PostsInv,
                PostAtHome, own, BoostsCounted, themeVars, relations
<1>3. CASE p \in DOMAIN posts /\ ~posts[p].boosted
    BY <1>3, BoostIsGood DEF recordOutbound
<1> QED BY <1>1, <1>2, <1>3

LEMMA RequestIsGood ==
    ASSUME ClientInv, NEW a \in accts, NEW h \in Handles, AcceptRequest(a, h) PROVE Good
BY ClientAssumption, AddIsGood DEF AcceptRequest

LEMMA ConnectIsGood ==
    ASSUME ClientInv, NEW a \in Accts, NEW allowPublish \in BOOLEAN, Connect(a, allowPublish)
    PROVE  Good
<1> USE DEF Connect, addAccount, relations
<1>1. /\ accts \subseteq accts' /\ writable \subseteq writable' /\ a \in accts'
      /\ accts' \in SUBSET Accts /\ writable' \in SUBSET accts'
    BY DEF ClientInv, ThemeTyped
<1>2. Admin[a] \in Handles /\ Admin[a] \notin Accts
    BY ClientAssumption
<1>3. PostsInv' /\ \A x \in accts \ writable : Said(x)' = Said(x)
    BY <1>1, <1>2, AddFits
<1> QED BY <1>1, <1>3 DEF Good, Silent, ClientInv, ThemeTyped, RelationsTyped

(***************************************************************************)
(* Authors, servers and lists: what is kept of them is the account's the   *)
(* author is found at, and that account may write.                         *)
(***************************************************************************)
LEMMA RelationIsGood ==
    ASSUME ClientInv, UNCHANGED <<themeVars, posts, made>>, RelationsTyped',
           NEW a, canWrite(a),
           \A x \in Accts \ {a} : <<muted[x], blocked[x], domains[x], lists[x]>>' =
                                  <<muted[x], blocked[x], domains[x], lists[x]>>
    PROVE  Good
<1>1. PostsInv' /\ ThemeTyped'
    BY DEF ClientInv, PostsInv, ThemeTyped, PostAtHome, own, BoostsCounted, themeVars
<1>2. \A x \in accts : Said(x)' = Said(x)
    BY DEF Said
<1> QED BY <1>1, <1>2 DEF Good, Silent, ClientInv, ThemeTyped, canWrite

LEMMA MuteIsGood ==
    ASSUME ClientInv, NEW h \in Handles, NEW on \in BOOLEAN, setMute(h, on) PROVE Good
<1>1. PICK a \in profileAccounts(h) :
        /\ canWrite(a)
        /\ muted' = [muted EXCEPT ![a] = IF on THEN @ \cup {h} ELSE @ \ {h}]
        /\ UNCHANGED <<themeVars, posts, made, blocked, domains, following, members, lists>>
    BY DEF setMute
<1>2. RelationsTyped'
    BY <1>1, WritableIsAccount DEF ClientInv, RelationsTyped
<1>3. \A x \in Accts \ {a} : muted'[x] = muted[x]
    BY <1>1 DEF ClientInv, RelationsTyped
<1> QED BY <1>1, <1>2, <1>3, RelationIsGood

LEMMA BlockIsGood ==
    ASSUME ClientInv, NEW h \in Handles, NEW on \in BOOLEAN, setBlock(h, on) PROVE Good
<1>1. PICK a \in profileAccounts(h) :
        /\ canWrite(a)
        /\ blocked' = [blocked EXCEPT ![a] = IF on THEN @ \cup {h} ELSE @ \ {h}]
        /\ following' = IF on THEN following \ {h} ELSE following
        /\ UNCHANGED <<themeVars, posts, made, muted, domains, members, lists>>
    BY DEF setBlock
<1>2. RelationsTyped'
    BY <1>1, WritableIsAccount DEF ClientInv, RelationsTyped
<1>3. \A x \in Accts \ {a} : blocked'[x] = blocked[x]
    BY <1>1 DEF ClientInv, RelationsTyped
<1> QED BY <1>1, <1>2, <1>3, RelationIsGood

LEMMA BlockDomainIsGood ==
    ASSUME ClientInv, NEW h \in Handles, blockDomain(h) PROVE Good
<1>1. PICK a \in profileAccounts(h) :
        /\ canWrite(a)
        /\ domains' = [domains EXCEPT ![a] = @ \cup {Domain[h]}]
        /\ UNCHANGED <<themeVars, posts, made, muted, blocked, following, members, lists>>
    BY DEF blockDomain
<1>2. RelationsTyped'
    BY <1>1, WritableIsAccount DEF ClientInv, RelationsTyped
<1>3. \A x \in Accts \ {a} : domains'[x] = domains[x]
    BY <1>1 DEF ClientInv, RelationsTyped
<1> QED BY <1>1, <1>2, <1>3, RelationIsGood

LEMMA UndoDomainIsGood ==
    ASSUME ClientInv, NEW a \in accts, NEW d \in domains[a], undoDomain(a, d) PROVE Good
<1>1. RelationsTyped'
    BY WritableIsAccount DEF undoDomain, ClientInv, RelationsTyped
<1>2. \A x \in Accts \ {a} : domains'[x] = domains[x]
    BY DEF undoDomain, ClientInv, RelationsTyped
<1> QED BY <1>1, <1>2, RelationIsGood DEF undoDomain

LEMMA ListIsGood ==
    ASSUME ClientInv, NEW a \in accts, NEW l \in Lists, setList(a, l) PROVE Good
<1>1. RelationsTyped'
    BY WritableIsAccount DEF setList, ClientInv, RelationsTyped
<1>2. \A x \in Accts \ {a} : lists'[x] = lists[x]
    BY DEF setList, ClientInv, RelationsTyped
<1> QED BY <1>1, <1>2, RelationIsGood DEF setList

LEMMA FollowIsGood ==
    ASSUME ClientInv, NEW h \in Handles, Follow(h) PROVE Good
<1>1. PICK a \in profileAccounts(h) :
        /\ canWrite(a)
        /\ IF h \in following
           THEN following' = following \ {h} /\ members' = [members EXCEPT ![h] = {}]
           ELSE following' = following \cup {h} /\ UNCHANGED members
        /\ UNCHANGED <<themeVars, posts, made, muted, blocked, domains, lists>>
    BY DEF Follow
<1>2. RelationsTyped'
    BY <1>1 DEF ClientInv, RelationsTyped
<1> QED BY <1>1, <1>2, RelationIsGood

LEMMA MemberIsGood ==
    ASSUME ClientInv, NEW h \in Handles, NEW l \in Lists, toggleListMember(h, l) PROVE Good
<1>1. PICK a \in profileAccounts(h) :
        /\ canWrite(a)
        /\ members' = [members EXCEPT ![h] = IF l \in @ THEN @ \ {l} ELSE @ \cup {l}]
        /\ UNCHANGED <<themeVars, posts, made, muted, blocked, domains, following, lists>>
    BY DEF toggleListMember
<1>2. RelationsTyped'
    BY <1>1 DEF ClientInv, RelationsTyped
<1> QED BY <1>1, <1>2, RelationIsGood

(***************************************************************************)
(* The menu of a post, the profile of an author, the manage screen.        *)
(***************************************************************************)
LEMMA MenuIsGood ==
    ASSUME ClientInv, NEW p \in DOMAIN posts, runMenu(p) PROVE Good
<1> DEFINE a == posts[p].acct
           h == posts[p].author
<1>1. h \in Handles
    BY DEF runMenu
<1>2. (h \notin muted[a]) \in BOOLEAN /\ (h \notin blocked[a]) \in BOOLEAN
    OBVIOUS
<1> QED BY <1>1, <1>2, MuteIsGood, BlockIsGood, BlockDomainIsGood DEF runMenu

LEMMA RelIsGood ==
    ASSUME ClientInv, NEW h \in Handles, runRel(h) PROVE Good
<1>1. CASE Follow(h)
    BY <1>1, FollowIsGood
<1>2. ASSUME NEW a \in profileAccounts(h), setMute(h, h \notin muted[a]) \/ setBlock(h, h \notin blocked[a])
      PROVE  Good
    <2>1. (h \notin muted[a]) \in BOOLEAN /\ (h \notin blocked[a]) \in BOOLEAN
        OBVIOUS
    <2> QED BY <1>2, <2>1, MuteIsGood, BlockIsGood
<1> QED BY <1>1, <1>2 DEF runRel

LEMMA ManageIsGood ==
    ASSUME ClientInv, NEW a \in accts, runManage(a) PROVE Good
<1>1. muted[a] \subseteq Handles /\ blocked[a] \subseteq Handles
    BY DEF ClientInv, ThemeTyped, RelationsTyped
<1> QED BY <1>1, MuteIsGood, BlockIsGood, UndoDomainIsGood, ListIsGood DEF runManage

(***************************************************************************)
(* Initially, and after every step.                                        *)
(***************************************************************************)
LEMMA InitGood == ASSUME ClientInit PROVE ClientInv
<1> USE ClientAssumption DEF ClientInit
<1>1. PICK n \in 0..MaxPosts : SeedPosts \in [1..n -> Post]
    OBVIOUS
<1>2. n \in Nat /\ 1..n = DOMAIN SeedPosts
    BY <1>1
<1>3. made = n
    <2>1. Cardinality(1..n) = IF 1 > n THEN 0 ELSE n - 1 + 1
        BY <1>2, FS_Interval
    <2> QED BY <1>2, <2>1
<1>4. ThemeTyped
    BY DEF ThemeTyped
<1>5. RelationsTyped
    BY DEF RelationsTyped
<1>6. PostsInv
    <2>1. made \in 0..MaxPosts /\ DOMAIN posts \subseteq 1..made
        BY <1>1, <1>2, <1>3
    <2>2. ASSUME NEW p \in DOMAIN posts
          PROVE  /\ posts[p] \in Post /\ PostAtHome(p)
                 /\ posts[p].boosts = IF posts[p].boosted THEN 1 ELSE 0
        BY <1>1 DEF PostAtHome, own
    <2> QED BY <2>1, <2>2 DEF PostsInv, BoostsCounted
<1> QED BY <1>4, <1>5, <1>6 DEF ClientInv

LEMMA StepGood == ASSUME ClientInv, [ClientNext]_clientVars PROVE Good
<1>1. CASE PostStep
    BY <1>1, SelectableIsPost, ToggleIsGood, ReplyIsGood, RemoveIsGood, RedraftIsGood, MenuIsGood,
       ComposeIsGood, OutboundIsGood, RequestIsGood
    DEF PostStep, BoostButton, BoostKey, deletePost, cancelScheduled
<1>2. CASE AccountStep
    BY <1>2, ConnectIsGood, RelIsGood, MemberIsGood, ManageIsGood DEF AccountStep
<1>3. CASE UNCHANGED clientVars
    BY <1>3 DEF clientVars, Good, Silent, Said, ClientInv, ThemeTyped, RelationsTyped, PostsInv, PostAtHome,
                own, BoostsCounted
<1> QED BY <1>1, <1>2, <1>3 DEF ClientNext

LEMMA ClientInvariant == ClientSpec => []ClientInv
<1>1. ClientInv /\ [ClientNext]_clientVars => ClientInv'
    BY StepGood DEF Good
<1> QED BY InitGood, <1>1, PTL DEF ClientSpec

(***************************************************************************)
(* The client's state has its type, and every post is shown by a connected *)
(* account (the theme's accounts and posts).                               *)
(***************************************************************************)
THEOREM ClientTyped == ClientSpec => []ClientTypeOK
<1>1. ClientInv => ClientTypeOK
    BY DEF ClientInv, ThemeTyped, RelationsTyped, PostsInv, ClientTypeOK
<1> QED BY <1>1, ClientInvariant, PTL

(***************************************************************************)
(* A boost is counted once, however often the button, the key and the      *)
(* publishing of items meet (toggleAction, recordOutbound).                *)
(***************************************************************************)
THEOREM BoostsAreCounted == ClientSpec => []BoostsCounted
<1>1. ClientInv => BoostsCounted
    BY DEF ClientInv, PostsInv
<1> QED BY <1>1, ClientInvariant, PTL

(***************************************************************************)
(* No step says anything or keeps anybody away in the name of an account   *)
(* without write scopes (guard, setMute, setBlock, the manage screen).     *)
(***************************************************************************)
THEOREM ReadOnlyIsSilent == ClientSpec => ReadOnlyStaysSilent
<1>1. ClientInv /\ [ClientNext]_clientVars => [Silent]_clientVars
    BY StepGood DEF Good
<1> QED BY <1>1, ClientInvariant, PTL DEF ClientSpec, ReadOnlyStaysSilent, Silent
===============================================================================
