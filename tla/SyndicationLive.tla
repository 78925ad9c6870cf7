---------------------------- MODULE SyndicationLive ----------------------------
(***************************************************************************)
(* The syndication page over the theme databases of the server.            *)
(*                                                                         *)
(* The page shows one theme at a time, but its requests come back whenever *)
(* they come back, to whatever theme is shown by then.  A request keeps    *)
(* what the server read when it got there.  Read marks are set in the page *)
(* before the server is told.                                              *)
(*                                                                         *)
(* A document is a number, newest first.  Settings, filters, pins, the     *)
(* choice of the body and the list of dispatches are left out; marking as  *)
(* read takes any documents of the list.  A document that was asked for    *)
(* once counts as there in full.                                           *)
(***************************************************************************)
EXTENDS Integers, FiniteSets, Bags

CONSTANTS
    Themes,
    First,      \* resolveInitialThemeKey()
    Docs,
    Home,       \* the theme whose database holds a document
    Stored,     \* the documents there are when the page is opened
    MaxSyncs    \* bound: syncs under way

None == 0

ASSUME LiveAssumption ==
    /\ First \in Themes /\ Docs \subseteq Nat \ {None} /\ Stored \subseteq Docs
    /\ Home \in [Docs -> Themes]
    /\ MaxSyncs \in Nat

VARIABLES
    theme, selected, loading,    \* state
    list,       \* theme.documents
    server,     \* the documents the databases hold and have marked as seen
    told,       \* documents a request to mark them was sent for
    asked,      \* syncs of each theme that have not reached the server
    answers,    \* the bag of its answers on their way
    broken,     \* history: the last sync of the shown theme failed
    form        \* the ingest or dispatch under way

vars == <<theme, selected, loading, list, server, told, asked, answers, broken, form>>
page == <<theme, selected, loading, list>>
calls == <<told, asked, answers, broken, form>>

Row == [on: BOOLEAN, unread: BOOLEAN, full: BOOLEAN]
NoRow == [on |-> FALSE, unread |-> FALSE, full |-> FALSE]
NoForm == [kind |-> "none", doc |-> None]

TypeOK ==
    /\ theme \in Themes /\ selected \in Docs \cup {None} /\ loading \in BOOLEAN
    /\ list \in [Themes -> [Docs -> Row]]
    /\ server \in [held: SUBSET Docs, seen: SUBSET Docs] /\ server.seen \subseteq server.held
    /\ told \subseteq Docs
    /\ asked \in [Themes -> Nat]
    /\ BagToSet(answers) \subseteq [theme: Themes, held: SUBSET Docs, seen: SUBSET Docs]
    /\ broken \in BOOLEAN
    /\ form = NoForm \/ form \in [kind: {"ingest", "dispatch"}, doc: Docs]

-----------------------------------------------------------------------------
(* The list and the reader                                                 *)

getVisibleDocuments(rows) == {d \in Docs : rows[d].on}

Newest(D) == CHOOSE d \in D : \A e \in D : d <= e

\* The request names the theme that is shown: for another theme's document it
\* finds nothing.
hydrateLiveDocument(l, t, d) ==
    IF l[t][d].on /\ t = theme' THEN [l EXCEPT ![t][d].full = TRUE] ELSE l

\* The page is drawn with the documents l and sel selected.
renderStreamAndReader(l, sel) ==
    LET rows == l[theme']
        visible == getVisibleDocuments(rows) IN
    IF (sel # None /\ rows[sel].on) \/ visible = {}
    THEN list' = l /\ selected' = sel
    ELSE /\ selected' = Newest(visible)
         /\ list' = hydrateLiveDocument(l, theme', selected')

\* Documents D of the shown theme are marked as read.
\* Mutant: they are shown as read first, and markDocumentSeen finds nothing to do.
markDocumentSeen_ShownFirst(D) == UNCHANGED told

markDocumentSeen(D) == told' = told \cup {d \in D : list[theme][d].unread}

Read(l, D) == [l EXCEPT ![theme] = [d \in Docs |-> [l[theme][d] EXCEPT !.unread = @ /\ d \notin D]]]

Listed == {d \in Docs : list[theme][d].on}

openDocument(d) ==
    /\ d \in Listed
    /\ \E D \in {{}, {d}} :
          /\ markDocumentSeen(D)
          /\ UNCHANGED <<theme, loading, server, asked, answers, broken, form>>
          /\ renderStreamAndReader(hydrateLiveDocument(Read(list, D), theme, d), d)

markRead ==
    /\ \E D \in (SUBSET Listed) \ {{}} :
          /\ markDocumentSeen(D)
          /\ UNCHANGED <<theme, loading, server, asked, answers, broken, form>>
          /\ renderStreamAndReader(Read(list, D), selected)

-----------------------------------------------------------------------------
(* Syncs                                                                   *)

UnderWay ==
    BagCardinality(answers) + Cardinality({s \in Themes \X (1..MaxSyncs) : s[2] <= asked[s[1]]})

\* A sync of the theme shown from now on begins.
Sync(sel) ==
    /\ UnderWay < MaxSyncs
    /\ asked' = [asked EXCEPT ![theme'] = @ + 1]
    /\ loading' = TRUE
    /\ renderStreamAndReader(list, sel)

refresh ==
    /\ UNCHANGED <<theme, server, told, answers, broken, form>>
    /\ Sync(selected)

changeTheme(t) ==
    /\ t # theme
    /\ theme' = t
    /\ broken' = FALSE
    /\ UNCHANGED <<server, told, answers, form>>
    /\ Sync(None)

serverReads(t) ==
    /\ asked[t] > 0
    /\ asked' = [asked EXCEPT ![t] = @ - 1]
    /\ LET own == {d \in server.held : Home[d] = t} IN
       answers' = answers (+) SetToBag({[theme |-> t, held |-> own, seen |-> own \cap server.seen]})
    /\ UNCHANGED <<page, server, told, broken, form>>

\* The theme an answer belongs to is the one that was shown when the sync began.
\* Mutant: it is the one that is shown now.
themeOf_Shown(a) == theme

themeOf(a) == a.theme

\* What is selected is asked for once the documents are new.
\* Mutant: only when the sync selects it.
toHydrate_IfNew(sel, new) == IF sel = None THEN new ELSE None

toHydrate(sel, new) == IF sel = None THEN new ELSE sel

\* A sync of theme t is back, with the lists l.
Back(t, l) ==
    LET own == {d \in Docs : l[t][d].on}
        new == IF selected = None /\ own # {} THEN Newest(own) ELSE selected
        due == toHydrate(selected, new) IN
    /\ loading' = FALSE
    /\ broken' = (broken /\ t # theme)
    /\ UNCHANGED <<theme, server, told, form>>
    /\ renderStreamAndReader(IF due = None THEN l ELSE hydrateLiveDocument(l, t, due), new)

syncAnswered(a) ==
    LET t == themeOf(a) IN
    /\ BagIn(a, answers)
    /\ answers' = answers (-) SetToBag({a})
    /\ UNCHANGED asked
    /\ Back(t, [list EXCEPT ![t] = [d \in Docs |->
                  IF d \in a.held
                  THEN [on |-> TRUE, unread |-> d \notin a.seen, full |-> FALSE]
                  ELSE NoRow]])

\* The server refuses the documents, the page keeps those it has.
syncRefused(t) ==
    /\ asked[t] > 0
    /\ asked' = [asked EXCEPT ![t] = @ - 1]
    /\ UNCHANGED answers
    /\ Back(t, list)

\* Mutant: a failed sync leaves loading set.
notLoading_Stuck == loading

notLoading == FALSE

syncFails(t) ==
    /\ asked[t] > 0
    /\ asked' = [asked EXCEPT ![t] = @ - 1]
    /\ loading' = notLoading
    /\ broken' = (broken \/ t = theme)
    /\ UNCHANGED <<theme, server, told, answers, form>>
    /\ renderStreamAndReader(list, selected)

-----------------------------------------------------------------------------
(* What changes the databases                                              *)

seenArrives(d) ==
    /\ d \in told \ server.seen
    /\ server' = [server EXCEPT !.seen = @ \cup {d}]
    /\ UNCHANGED <<page, calls>>

\* A document is ingested into the shown theme, or dispatched from there.
submitIngest(d) ==
    /\ form = NoForm /\ Home[d] = theme
    /\ form' = [kind |-> "ingest", doc |-> d]
    /\ UNCHANGED <<page, server, told, asked, answers, broken>>

openDispatchModal(d) ==
    /\ form = NoForm /\ Listed # {} /\ Home[d] # theme
    /\ form' = [kind |-> "dispatch", doc |-> d]
    /\ UNCHANGED <<page, server, told, asked, answers, broken>>

Stores == server' = [server EXCEPT !.held = @ \cup {form.doc}]

\* The theme that is shown by now is synced, with an ingested document selected.
formAnswered ==
    /\ form # NoForm
    /\ form' = NoForm
    /\ Stores
    /\ UNCHANGED <<theme, told, answers, broken>>
    /\ Sync(IF form.kind = "ingest" THEN form.doc ELSE selected)

\* It fails, or its answer is lost.
formFails ==
    /\ form # NoForm
    /\ form' = NoForm
    /\ Stores \/ UNCHANGED server
    /\ UNCHANGED <<page, told, asked, answers, broken>>

-----------------------------------------------------------------------------
Init ==
    /\ theme = First /\ selected = None /\ loading = TRUE
    /\ list = [t \in Themes |-> [d \in Docs |-> NoRow]]
    /\ server = [held |-> Stored, seen |-> {}]
    /\ told = {} /\ asked = [t \in Themes |-> IF t = First THEN 1 ELSE 0] /\ answers = EmptyBag /\ broken = FALSE
    /\ form = NoForm

Answered ==
    \/ \E t \in Themes : serverReads(t) \/ syncRefused(t) \/ syncFails(t)
    \/ \E a \in BagToSet(answers) : syncAnswered(a)

User ==
    \/ markRead \/ refresh
    \/ \E t \in Themes : changeTheme(t)
    \/ \E d \in Docs : openDocument(d) \/ submitIngest(d) \/ openDispatchModal(d)

Next ==
    \/ User
    \/ Answered
    \/ \E d \in Docs : seenArrives(d)
    \/ formAnswered \/ formFails

\* A request is answered or it fails.
Spec == Init /\ [][Next]_vars /\ WF_vars(Answered)

-----------------------------------------------------------------------------
(* A theme's list only ever holds documents of its own database, whichever *)
(* theme is shown when a sync comes back (syncLiveThemeDb).                *)
ThemesStayApart ==
    \A t \in Themes, d \in Docs : list[t][d].on => Home[d] = t

(* The reader does not stay with the brief text of the list: the selected  *)
(* document has been asked for in full, though a sync may replace it at    *)
(* any time, unless a sync that will ask is under way or the last one      *)
(* failed; and nothing is selected only if there is nothing to show.       *)
SelectedIsAsked ==
    IF selected = None THEN Listed = {}
    ELSE selected \in Listed => \/ list[theme][selected].full
                               \/ asked[theme] > 0 \/ broken
                               \/ \E a \in BagToSet(answers) : a.theme = theme

(* What the page shows as read the server knows, or has been told.         *)
ReadReachesServer ==
    \A t \in Themes, d \in Docs :
       list[t][d].on /\ ~list[t][d].unread => d \in told \cup server.seen

(* The page does not say it is loading for ever.                           *)
LoadingEnds == loading ~> ~loading
================================================================================
