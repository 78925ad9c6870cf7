----------------------------- MODULE DocumentList -----------------------------
(***************************************************************************)
(* The document list of the page: its search boxes, the search on the      *)
(* server, bookmarks and hidden documents, the right to write and the      *)
(* change of the theme; and the check box of the document's panel, which   *)
(* hides it.  The box is drawn from the document as it was read, is set by *)
(* the one who clicks it and set again when a call ends, so it may stand   *)
(* otherwise than the list has it: a click sends what the box shows.       *)
(*                                                                         *)
(* Searches, toggles and loads of the list are answered whenever they are  *)
(* answered.  A search counts up currentSearchSeq; here a search under way *)
(* is live while the counter still stands at its number.  The page's side  *)
(* is one record, and the page's functions map it to the next one.         *)
(*                                                                         *)
(* Documents come and go in other modules.  The order of the list, its     *)
(* day headings and scores are left out, as are the camera, the cluster of *)
(* marked nodes and the phone's drawers.  The results of a search are the  *)
(* numbers of its documents.  A document is read and drawn in one step: an *)
(* answer that comes late is one read early and drawn again.               *)
(***************************************************************************)
EXTENDS Integers, FiniteSets

CONSTANTS
    Themes, First,
    Docs,
    Home,           \* the theme that holds a document
    Queries,        \* texts one can type
    Match,          \* the documents whose title or summary has the text
    Bare,           \* the documents without a detailed text
    Views,          \* what the middle of the page shows
    Flags,          \* pinned and hidden
    Changed,        \* documents that are opened, bookmarked or hidden
    MaxCalls        \* bound: searches, toggles and loads of a session, the first load included

Blank == ""
IsMissing == "is:missing-detail"

ASSUME ListAssumption ==
    /\ First \in Themes /\ Home \in [Docs -> Themes]
    /\ Match \in [Queries -> SUBSET Docs] /\ Bare \subseteq Docs
    /\ {"graph", "reader"} \subseteq Views /\ Views \subseteq {"graph", "reader", "stream"}
    /\ "hidden" \in Flags /\ Flags \subseteq {"pinned", "hidden"} /\ Changed \subseteq Docs
    /\ Blank \notin Queries /\ IsMissing \notin Queries
    /\ MaxCalls \in Nat \ {0}

VARIABLES
    page,       \* what the page holds and shows
    server,     \* the documents the databases have bookmarked and hidden
    toggles,    \* toggles under way
    homing,     \* changes of the theme that await the statistics
    asked,      \* loads of a theme's list that have not reached the server
    answers,    \* lists on their way back
    panel,      \* the document shown beside the page: its check box and what it was drawn from
    muddled,    \* history: documents a toggle may have left wrong
    latest,     \* history: the last search, or 0 if text or a key ended it
    made        \* the toggles and loads of the session so far, for the bound

vars == <<page, server, toggles, homing, asked, answers, panel, muddled, latest, made>>
calls == <<server, toggles, homing, asked, answers, muddled, made>>
rest == <<calls, panel, latest>>

Scopes == {"owner", "other"}       \* the others have no right to write
Boxes == Queries \cup {Blank, IsMissing}
Marks == [Flags -> SUBSET Docs]
Search == [n: 1..MaxCalls, query: Boxes, kind: {"list", "graph"}, live: BOOLEAN,
           aborted: BOOLEAN, phase: {"sent", "body"}]
Toggle == [doc: Docs, flag: Flags, val: BOOLEAN, own: BOOLEAN, change: BOOLEAN, done: BOOLEAN]
Panel == [doc: Docs, was: BOOLEAN, box: BOOLEAN]

Unmarked == 0
ByLabel == -1
NoTimer == "no timer"
NoResults == [n |-> 0, query |-> Blank, docs |-> {}, hits |-> FALSE]

TypeOK ==
    /\ page \in [access: Scopes, known: BOOLEAN, theme: Themes,
                 view: Views,
                 docq: Boxes, q: Boxes, active: BOOLEAN, showHidden: BOOLEAN,
                 timer: Boxes \cup {NoTimer}, started: 0..MaxCalls,
                 searches: SUBSET Search,
                 results: [n: 0..MaxCalls, query: Boxes, docs: SUBSET Docs, hits: BOOLEAN],
                 marked: {ByLabel} \cup 0..MaxCalls,
                 held: SUBSET Docs, is: Marks,
                 shown: [kind: {"list", "results", "prompt", "failed"}, text: Boxes,
                         docs: SUBSET Docs, hidden: SUBSET Docs, tools: BOOLEAN]]
    /\ \A s \in page.searches : s.live => s.n = page.started
    /\ server \in Marks
    /\ toggles \subseteq Toggle
    /\ homing \in 0..MaxCalls
    /\ asked \in [Themes -> Nat]
    /\ answers \subseteq [theme: Themes, is: Marks]
    /\ panel \subseteq Panel
    /\ muddled \subseteq Docs
    /\ latest \in 0..MaxCalls
    /\ made \in 1..MaxCalls

-----------------------------------------------------------------------------
(* What the page's functions make of the page p                            *)

canWrite(p) == p.access = "owner"

cancelServerSearch(p) ==
    [p EXCEPT !.searches = {[s EXCEPT !.aborted = TRUE] : s \in {r \in @ : r.phase = "body"}}]

\* currentSearchSeq++ comes with an abort everywhere.
Overtake(p) ==
    LET c == cancelServerSearch(p) IN
    [c EXCEPT !.searches = {[s EXCEPT !.live = FALSE] : s \in @}]

Matches(text) ==
    IF text = Blank THEN Docs
    ELSE IF text = IsMissing THEN Bare
    ELSE Match[text]

\* Titles and summaries that hold the text, in doDocServerSearch.
Named(text) == IF text \in Queries THEN Match[text] ELSE {}

Listed(p, text) == (p.held \cap Matches(text)) \ p.is.hidden

renderServerDocs(p) ==
    [p EXCEPT !.shown = [kind |-> "results", text |-> p.results.query, docs |-> p.results.docs,
                         hidden |-> {}, tools |-> canWrite(p)]]

Prompt(p) ==
    [p EXCEPT !.shown = [kind |-> "prompt", text |-> Blank, docs |-> {}, hidden |-> {},
                         tools |-> FALSE]]

List(p, text) ==
    [p EXCEPT !.shown =
        [kind |-> "list", text |-> text, docs |-> Listed(p, text),
         hidden |-> IF canWrite(p) /\ p.showHidden
                    THEN p.held \cap Matches(text) \cap p.is.hidden ELSE {},
         tools |-> canWrite(p)]]

renderDocs(p, text) ==
    IF p.results.n # 0 /\ p.results.query = text THEN renderServerDocs(p)
    ELSE IF p.active THEN IF text = Blank THEN Prompt(p) ELSE List(Overtake(p), text)
    ELSE List(p, text)

onDocqInput(p, v) ==
    renderDocs([p EXCEPT !.active = TRUE,
                         !.results = IF @.query = v THEN @ ELSE NoResults,
                         !.q = IF p.view = "reader" THEN v ELSE @], v)

clearServerSearch(p) ==
    LET c == cancelServerSearch(p) IN
    renderDocs([c EXCEPT !.results = NoResults, !.docq = Blank, !.active = FALSE,
                         !.q = IF p.view = "reader" THEN Blank ELSE @], Blank)

Ask(p, text, kind) ==
    LET c == Overtake(p) IN
    [c EXCEPT !.started = @ + 1,
              !.searches = @ \cup {[n |-> c.started + 1, query |-> text, kind |-> kind,
                                    live |-> TRUE, aborted |-> FALSE, phase |-> "sent"]}]

doDocServerSearch(p, text) ==
    IF text = Blank THEN clearServerSearch(p) ELSE Ask(p, text, "list")

semanticSearch(p, text) == IF text = Blank THEN p ELSE Ask(p, text, "graph")

hl(p, text) ==
    LET c == Overtake(p) IN [c EXCEPT !.marked = IF text = Blank THEN Unmarked ELSE ByLabel]

\* Mutant: typing does not count up, a search under way goes on.
onSearchInput_Running(p, v) ==
    IF v = Blank THEN hl([p EXCEPT !.timer = NoTimer], v) ELSE [p EXCEPT !.timer = v]

onSearchInput(p, v) ==
    LET c == Overtake(p) IN
    IF v = Blank THEN hl([c EXCEPT !.timer = NoTimer], v) ELSE [c EXCEPT !.timer = v]

onCenterSearchInput(p, v) ==
    LET typed == [p EXCEPT !.q = v, !.docq = v] IN
    CASE p.view = "reader" -> onDocqInput(typed, v)
      [] p.view = "stream" -> typed
      [] OTHER -> onSearchInput(typed, v)

updateCenterSearchMode(p) ==
    IF p.q = Blank \/ p.view = "stream" THEN p
    ELSE IF p.view = "reader" THEN onDocqInput(p, p.q)
    ELSE hl(p, p.q)

setCenterView(p, v) ==
    IF p.view = v THEN p ELSE updateCenterSearchMode([p EXCEPT !.view = v])

setAccessScope(p, scope) ==
    LET u == updateCenterSearchMode([p EXCEPT !.access = scope,
                                              !.showHidden = @ /\ scope = "owner"]) IN
    renderDocs(u, u.docq)

expireWriteAccess(p) == setAccessScope(p, "other")

\* closeReader leads from the reader to the graph.
resetWorkspaceState(p) ==
    LET c == Overtake(p)
        list == renderDocs([c EXCEPT !.active = FALSE, !.docq = Blank,
                                     !.view = IF @ = "reader" THEN "graph" ELSE @], Blank) IN
    [list EXCEPT !.q = Blank, !.timer = NoTimer, !.marked = Unmarked]

Init ==
    /\ page = [access |-> "other", known |-> FALSE, theme |-> First, view |-> "graph",
               docq |-> Blank, q |-> Blank, active |-> FALSE, showHidden |-> FALSE, timer |-> NoTimer,
               started |-> 0, searches |-> {}, results |-> NoResults, marked |-> Unmarked,
               held |-> {}, is |-> [f \in Flags |-> {}],
               shown |-> [kind |-> "list", text |-> Blank, docs |-> {}, hidden |-> {},
                          tools |-> FALSE]]
    /\ server \in [Flags -> SUBSET Changed]
    /\ toggles = {} /\ homing = 0 /\ answers = {} /\ panel = {} /\ muddled = {}
    /\ latest = 0 /\ made = 1
    /\ asked = [t \in Themes |-> IF t = First THEN 1 ELSE 0]

-----------------------------------------------------------------------------
(* What one does to the boxes and the list                                 *)

Room == page.started + homing + made < MaxCalls

\* A text in the list's box ends a search, unless it is the one whose results
\* are shown; in the graph's box every text does.
Ended(v) == IF v # Blank /\ ~(page.results.n # 0 /\ page.results.query = v) THEN 0 ELSE latest
EndedInCenter(v) ==
    IF page.view = "reader" THEN Ended(v) ELSE IF page.view = "stream" THEN latest ELSE 0

\* A search is the latest once it is started.
Started(before) == IF page'.started = page.started THEN before ELSE page'.started

TypeInList(v) ==
    /\ page' = onDocqInput([page EXCEPT !.docq = v], v)
    /\ latest' = Ended(v) /\ UNCHANGED <<calls, panel>>

EnterInList == (page.docq = Blank \/ Room)
    /\ page' = doDocServerSearch(page, page.docq)
    /\ latest' = Started(latest) /\ UNCHANGED <<calls, panel>>

CloseResults == page.shown.kind = "results"
    /\ page' = clearServerSearch(page) /\ UNCHANGED rest

TypeInCenter(v) ==
    /\ page' = onCenterSearchInput(page, v)
    /\ latest' = EndedInCenter(v) /\ UNCHANGED <<calls, panel>>

focusMobileSearch ==
    /\ page' = onCenterSearchInput([page EXCEPT !.active = TRUE], Blank)
    /\ latest' = EndedInCenter(Blank) /\ UNCHANGED <<calls, panel>>

EnterInCenter ==
    /\ page.view # "stream" /\ (page.view = "reader" /\ page.q # Blank => Room)
    /\ LET c == [Overtake(page) EXCEPT !.timer = NoTimer] IN
       page' = IF page.view = "reader" THEN doDocServerSearch(c, page.q) ELSE hl(c, page.q)
    /\ latest' = Started(0) /\ UNCHANGED <<calls, panel>>

doSemantic ==
    /\ Room
    /\ page' = IF page.docq # Blank THEN doDocServerSearch(page, page.docq)
               ELSE semanticSearch(page, page.q)
    /\ latest' = Started(latest) /\ UNCHANGED <<calls, panel>>

DebounceFires ==
    /\ page.timer # NoTimer
    /\ page' = hl([page EXCEPT !.timer = NoTimer], page.timer)
    /\ latest' = 0 /\ UNCHANGED <<calls, panel>>

highlightSearchInGraph ==
    /\ page.shown.kind = "results" /\ page.results.n # 0 /\ page.results.hits
    /\ page' = [setCenterView(page, "graph") EXCEPT !.marked = page.results.n]
    /\ UNCHANGED rest

filterDocsByMissingDetail ==
    page' = renderDocs([page EXCEPT !.docq = IsMissing], IsMissing) /\ UNCHANGED rest

toggleShowHidden ==
    /\ canWrite(page) /\ page.shown.kind = "list"
    /\ \E d \in page.held : d \in page.is.hidden \cap Matches(page.shown.text)
    /\ page' = LET p == [page EXCEPT !.showHidden = ~@] IN renderDocs(p, p.docq)
    /\ UNCHANGED rest

SwitchView(v) == page' = setCenterView(page, v) /\ UNCHANGED rest

\* The documents' tab of a phone.
RevealDocs ==
    /\ page' = LET p == setCenterView(page, IF page.view = "reader" THEN "graph" ELSE page.view) IN
               renderDocs([p EXCEPT !.active = FALSE, !.docq = Blank], Blank)
    /\ UNCHANGED rest

-----------------------------------------------------------------------------
(* The panel of a document                                                 *)

\* The panel drawn again from the document it holds.
Drawn == {[b EXCEPT !.box = b.was] : b \in panel}

\* Its box as a toggle that ended sets it, whichever document is shown by then.
Ticked(t) ==
    IF t.flag = "hidden" THEN {[b EXCEPT !.box = t.val] : b \in panel} ELSE panel

\* A document of the list is opened, and may not come.
openReader(d) ==
    /\ d \in page.held \cap Changed
    /\ page' = LET p == setCenterView(page, "reader") IN renderDocs(p, p.docq)
    /\ LET is == d \in server["hidden"] IN panel' \in {{}, {[doc |-> d, was |-> is, box |-> is]}}
    /\ UNCHANGED <<calls, latest>>

\* After a node, the graph or news of the server: what it holds, or read again.
renderDocPanel ==
    /\ \E b \in panel : \E is \in {b.was, b.doc \in server["hidden"]} :
          panel' = {[b EXCEPT !.was = is, !.box = is]}
    /\ UNCHANGED <<page, calls, latest>>

-----------------------------------------------------------------------------
(* Searches are answered                                                   *)

\* A search that was overtaken or aborted has no answer any more to wait for.
SearchAnswered(s) ==
    /\ s.phase = "sent"
    /\ LET others == [page EXCEPT !.searches = @ \ {s}] IN
       \/ /\ page' = [others EXCEPT !.searches = @ \cup {[s EXCEPT !.phase = "body"]}]
          /\ UNCHANGED panel
       \/ page' = others /\ UNCHANGED panel
       \/ page' = expireWriteAccess(others) /\ panel' = Drawn
    /\ UNCHANGED <<calls, latest>>

\* H are the sources of the hits.  An aborted body reads as no hits at all.
Show(p, s, H) ==
    IF s.kind = "graph" THEN [p EXCEPT !.marked = s.n]
    ELSE renderServerDocs([p EXCEPT !.results =
            [n |-> s.n, query |-> s.query, hits |-> H # {},
             docs |-> {d \in p.held : /\ d \in p.is.hidden => canWrite(p)
                                      /\ d \in H \cup Named(s.query)}]])

SearchRead(s) ==
    /\ s.phase = "body"
    /\ \E H \in SUBSET {d \in Docs : Home[d] = page.theme /\ ~s.aborted} :
          LET others == [page EXCEPT !.searches = @ \ {s}] IN
          page' = IF s.live THEN Show(others, s, H) ELSE others
    /\ UNCHANGED rest

-----------------------------------------------------------------------------
(* Bookmarks and hidden documents                                          *)

Put(set, d, val) == IF val THEN set \cup {d} ELSE set \ {d}

\* The page shows the flag at val.
Flag(p, d, flag, val) ==
    LET f == [p EXCEPT !.is = [p.is EXCEPT ![flag] = Put(p.is[flag], d, val)]] IN renderDocs(f, f.docq)

Under(d) == \E t \in toggles : t.doc = d
Loading == answers # {} \/ \E t \in Themes : asked[t] > 0

\* What a click asks for.  A star asks for the other state than its row shows,
\* and a row of results may be older than the list; the check box for what it
\* shows itself once it is clicked.
Asks(d, flag, val) ==
    IF flag = "hidden" THEN \E b \in panel : b.doc = d /\ b.box = ~val
    ELSE IF page.shown.kind = "results" THEN d \in page.shown.docs
    ELSE d \in page.held /\ val = (d \notin page.is[flag])

\* togglePin, and toggleHide once the question is answered.
Toggles(d, flag, val) ==
    LET t == [doc |-> d, flag |-> flag, val |-> val, own |-> d \in page.held,
              change |-> val # (d \in page.is[flag]), done |-> FALSE] IN
    /\ canWrite(page) /\ d \in Changed /\ Asks(d, flag, val)
    /\ t \notin toggles /\ Room /\ made' = made + 1
    /\ page' = IF t.own THEN Flag(page, d, flag, val) ELSE renderDocs(page, page.docq)
    /\ toggles' = toggles \cup {t}
    /\ panel' = Ticked(t)
    /\ muddled' = IF Under(d) \/ Loading THEN muddled \cup {d} ELSE muddled
    /\ UNCHANGED <<server, homing, asked, answers, latest>>

ToggleReaches(t) ==
    /\ ~t.done /\ [t EXCEPT !.done = TRUE] \notin toggles
    /\ server' = [server EXCEPT ![t.flag] = Put(@, t.doc, t.val)]
    /\ toggles' = (toggles \ {t}) \cup {[t EXCEPT !.done = TRUE]}
    /\ UNCHANGED <<page, homing, asked, answers, panel, muddled, latest, made>>

ToggleAnswered(t) ==
    /\ t.done /\ toggles' = toggles \ {t}
    /\ panel' = Ticked(t)
    /\ UNCHANGED <<page, server, homing, asked, answers, muddled, latest, made>>

\* The flag is turned in the object the toggle took out of the list: to what it
\* was, if the toggle asked for a change.
Revert(p, t) == IF t.own THEN Flag(p, t.doc, t.flag, ~t.val) ELSE p
Muddle(t) == IF t.done \/ ~t.change THEN muddled \cup {t.doc} ELSE muddled

\* Mutant: only a call that fails on its way is taken back.
ToggleRefused_Kept(t) ==
    /\ ~t.done /\ toggles' = toggles \ {t}
    /\ \/ page' = page /\ panel' = Ticked(t)
       \/ page' = expireWriteAccess(page) /\ panel' = Drawn
    /\ muddled' = Muddle(t)
    /\ UNCHANGED <<server, homing, asked, answers, latest, made>>

\* The server refuses the call; the box stays as it was clicked.
ToggleRefused(t) ==
    /\ ~t.done /\ toggles' = toggles \ {t}
    /\ \/ page' = Revert(page, t) /\ panel' = Ticked(t)
       \/ page' = Revert(expireWriteAccess(page), t) /\ panel' = Drawn
    /\ muddled' = Muddle(t)
    /\ UNCHANGED <<server, homing, asked, answers, latest, made>>

\* The call or its answer is lost.
ToggleLost(t) ==
    /\ toggles' = toggles \ {t} /\ page' = Revert(page, t)
    /\ panel' = Ticked(t)
    /\ muddled' = Muddle(t)
    /\ UNCHANGED <<server, homing, asked, answers, latest, made>>

-----------------------------------------------------------------------------
(* The list is loaded, the theme changes                                   *)

Loads(theme) ==
    /\ asked' = [asked EXCEPT ![theme] = @ + 1]
    /\ made' = made + 1
    /\ muddled' = muddled \cup {t.doc : t \in toggles}

\* refreshGraph asks for the list too.
RefreshList ==
    /\ Room /\ Loads(page.theme)
    /\ UNCHANGED <<page, server, toggles, homing, answers, panel, latest>>

LoadReaches(theme) ==
    /\ asked[theme] > 0
    /\ asked' = [asked EXCEPT ![theme] = @ - 1]
    /\ answers' = answers \cup {[theme |-> theme, is |-> server]}
    /\ UNCHANGED <<page, server, toggles, homing, panel, muddled, latest, made>>

Disown == toggles' = {[t EXCEPT !.own = FALSE] : t \in toggles}

Fill(p, held, is) == [p EXCEPT !.held = held, !.is = [f \in Flags |-> is[f] \cap held]]

\* Mutant: the list is not drawn again.
LoadAnswered_Undrawn(a) ==
    /\ page' = Fill(page, {d \in Docs : Home[d] = a.theme}, a.is)
    /\ answers' = answers \ {a} /\ Disown
    /\ UNCHANGED <<server, homing, asked, panel, muddled, latest, made>>

LoadAnswered(a) ==
    /\ page' = LET p == Fill(page, {d \in Docs : Home[d] = a.theme}, a.is) IN renderDocs(p, p.docq)
    /\ answers' = answers \ {a} /\ Disown
    /\ UNCHANGED <<server, homing, asked, panel, muddled, latest, made>>

\* A load that fails in loadThemeDocuments; in refreshGraph nothing happens.
LoadFails(theme) ==
    /\ asked[theme] > 0 /\ asked' = [asked EXCEPT ![theme] = @ - 1]
    /\ \/ /\ page' = [Fill(page, {}, server) EXCEPT !.shown =
                        [kind |-> "failed", text |-> page.docq, docs |-> {},
                         hidden |-> page.shown.hidden, tools |-> page.shown.tools]]
          /\ Disown
       \/ UNCHANGED <<page, toggles>>
    /\ UNCHANGED <<server, homing, answers, panel, muddled, latest, made>>

switchKnowledgeTheme(theme) ==
    /\ theme # page.theme /\ Room
    /\ page' = resetWorkspaceState([page EXCEPT !.theme = theme])
    /\ homing' = homing + 1
    /\ panel' = {} /\ latest' = 0
    /\ UNCHANGED <<server, toggles, asked, answers, muddled, made>>

\* enterHome has the statistics: the list of the theme is asked for.
enterHome ==
    /\ homing > 0
    /\ homing' = homing - 1
    /\ page' = setCenterView(page, "graph")
    /\ Loads(page.theme)
    /\ UNCHANGED <<server, toggles, answers, panel, latest>>

\* whoami tells the scope, or fails.
whoami(scope) ==
    /\ ~page.known /\ page' = setAccessScope([page EXCEPT !.known = TRUE], scope)
    /\ panel' = Drawn /\ UNCHANGED <<calls, latest>>

-----------------------------------------------------------------------------

User ==
    \/ \E v \in Queries \cup {Blank} : TypeInList(v)
    \/ EnterInList \/ CloseResults
    \/ \E v \in Queries \cup {Blank} : TypeInCenter(v)
    \/ focusMobileSearch \/ EnterInCenter \/ doSemantic
    \/ highlightSearchInGraph \/ filterDocsByMissingDetail \/ toggleShowHidden
    \/ \E v \in Views : SwitchView(v)
    \/ RevealDocs
    \/ \E d \in Docs, f \in Flags, val \in BOOLEAN : Toggles(d, f, val)
    \/ \E d \in Docs : openReader(d)
    \/ \E t \in Themes : switchKnowledgeTheme(t)

Answered ==
    \/ \E s \in page.searches : SearchAnswered(s) \/ SearchRead(s)
    \/ \E t \in toggles : ToggleReaches(t) \/ ToggleAnswered(t) \/ ToggleRefused(t) \/ ToggleLost(t)
    \/ \E t \in Themes : LoadReaches(t) \/ LoadFails(t)
    \/ \E a \in answers : LoadAnswered(a)
    \/ enterHome

Next ==
    \/ User \/ Answered \/ DebounceFires \/ RefreshList \/ renderDocPanel
    \/ \E s \in Scopes : whoami(s)

Spec == Init /\ [][Next]_vars

-----------------------------------------------------------------------------
(* Properties                                                              *)

\* The list and the marks of the graph only ever take the answer of the last
\* search that was started, and only if nothing was typed or entered since that
\* ends it: a text in the graph's box, or one in the list's box that is not
\* erased, and no theme was chosen; however the answers and their bodies
\* overtake one another (currentSearchSeq, onSearchInput, renderDocs, hl).
LastSearchWins ==
    [][/\ page'.results.n \notin {0, page.results.n} => page'.results.n = latest
       /\ page'.marked \notin {Unmarked, ByLabel, page.marked, page.results.n}
             => page'.marked = latest]_vars

\* The list is never behind the documents and flags the page holds: every
\* toggle, refusal, load and change of the theme draws it again (renderDocs).
ListFollowsDocuments ==
    page.shown.kind = "list" => page.shown.docs = Listed(page, page.shown.text)

\* With no toggle under way the page shows a document's flags as the server
\* has them, also after refusals, expired sessions, changes of the theme and
\* clicks on a check box that stands wrong, as every refused hide leaves it.
\* Excepted are documents of which a toggle met another one or a load, one whose
\* answer was lost, and one that asked for what was already there and failed:
\* taking that back turns the flag over (togglePin, toggleHide).
FlagsSettle ==
    \A d \in page.held \ muddled, f \in Flags :
        ~Under(d) => (d \in page.is[f] <=> d \in server[f])
===============================================================================
