---------------------------- MODULE Presentations ----------------------------
(***************************************************************************)
(* The tab that shows the slides of a document, has them written by the    *)
(* server and shares them.                                                 *)
(*                                                                         *)
(* The server writes in the background, one document after another.  The   *)
(* page sends a call, and once that is accepted a chain of timers and      *)
(* calls asks for the result until there is one or two minutes are over,   *)
(* here after MaxPolls calls.  All documents use the same frame, button    *)
(* and share box; a chain goes on while presPollTargetId is its document,  *)
(* so a chain that was stopped goes on if the same document is asked for   *)
(* again before the chain has looked.                                      *)
(*                                                                         *)
(* What the page knows of a document's slides it reads in allDocs, or else *)
(* in the one document it holds, curReaderDocData.  Both change behind the *)
(* open tab, which is drawn again by some of these changes only.           *)
(*                                                                         *)
(* The messages, the slide numbers, printing, full screen, slides written  *)
(* anew for a changed text, and purged documents are left out.             *)
(***************************************************************************)
EXTENDS Integers

CONSTANTS
    Docs, None,
    MaxCalls,       \* bound: presses of the buttons for the slides and for the link
    MaxPolls        \* bound: calls of a chain in its two minutes

ASSUME PresentationsAssumption ==
    None \notin Docs /\ MaxCalls \in Nat \ {0} /\ MaxPolls \in Nat \ {0}

VARIABLES
    page,       \* what the page holds and shows
    loads,      \* the document loadDocPanel has asked for; bound: one at a time
    chains,     \* chains of polls; own is the chain whose timer presPollTimer holds
    posts,      \* how many calls to have slides written are under way, of each document
    shares,     \* how many calls for a link are under way
    server,     \* what the server says of each document's slides
    tasks,      \* documents whose slides the server has been told to write
    made        \* the calls so far

vars == <<page, loads, chains, posts, shares, server, tasks, made>>

Maybe == Docs \cup {None}
Marks == {"no", "yes", "unknown"}
Chain == [of: Docs, phase: {"timer", "asked"}, own: BOOLEAN, polls: 0..MaxPolls]

\* has is what updatePresentationView finds of a document: the list's mark, or
\* that of the document held, or nothing.  shown is what one sees of the tab: a
\* closed tab shows nothing, as every way into it draws it, and the button is
\* seen with an offer only, which draws it anew.
Page ==
    [owner: BOOLEAN, enabled: BOOLEAN, doc: Maybe, has: [Docs -> Marks],
     shown: [kind: {"closed", "off", "pick", "offer", "frame"}, of: Maybe],
     button: [visible: BOOLEAN, working: BOOLEAN],
     box: {"closed", "making", "link", "failed"},
     target: Maybe]

Statuses == {"none", "writing", "ready", "failed"}

TypeOK ==
    /\ page \in Page /\ loads \subseteq Docs
    /\ chains \subseteq Chain /\ \A c, e \in chains : c.own /\ e.own => c = e
    /\ posts \in [Docs -> Nat] /\ shares \in Nat
    /\ server \in [Docs -> Statuses] /\ tasks \subseteq Docs
    /\ made \in 0..MaxCalls

-----------------------------------------------------------------------------
(* What the page's functions make of the page p                            *)

Tab(p) == p.shown.kind # "closed"

Show(p, kind, of, visible) ==
    [p EXCEPT !.shown = [kind |-> kind, of |-> of], !.box = "closed",
              !.button = [visible |-> visible, working |-> FALSE]]

updatePresentationView(p, d) ==
    IF ~p.enabled THEN Show(p, "off", None, FALSE)
    ELSE IF d = None THEN Show(p, "pick", None, FALSE)
    ELSE IF p.has[d] = "no" THEN Show(p, "offer", d, p.owner)
    ELSE Show(p, "frame", d, FALSE)

\* The page p draws the tab of d, if it is open.
Drawn(p, d) == IF Tab(p) THEN updatePresentationView(p, d) ELSE p

OnPresentationReady(p, d) ==
    Drawn([p EXCEPT !.has[d] = IF @ = "unknown" THEN @ ELSE "yes"], d)

Retry(p) == [p EXCEPT !.button.working = FALSE]

\* Without a chosen document the first of the list is shown, if there is one.
Chosen(p) == IF p.doc = None THEN Maybe ELSE {p.doc}

\* A share box that was closed stays so, whatever is put in it.
Filled(p, box) == [p EXCEPT !.box = IF @ = "closed" THEN @ ELSE box]

\* What an answer may say of the slides of d; one that was asked for earlier
\* knows nothing of slides written since.
Says(d) == IF server[d] = "ready" THEN {"no", "yes"} ELSE {"no"}

Init ==
    /\ \E owner, enabled \in BOOLEAN :
        page = [owner |-> owner, enabled |-> enabled, doc |-> None,
                has |-> [d \in Docs |-> "unknown"],
                shown |-> [kind |-> "closed", of |-> None],
                button |-> [visible |-> FALSE, working |-> FALSE],
                box |-> "closed", target |-> None]
    /\ server \in [Docs -> {"none", "ready"}]
    /\ loads = {} /\ chains = {} /\ posts = [d \in Docs |-> 0] /\ shares = 0
    /\ tasks = {} /\ made = 0

-----------------------------------------------------------------------------
(* What one does                                                           *)

Server == UNCHANGED <<server, tasks>>
Calls == UNCHANGED <<posts, shares, made>>

\* loadDocPanel draws the tab at once if the page p holds the document already,
\* and asks for the document otherwise.
loadDocPanel(p) ==
    \/ p.doc = None /\ page' = p /\ UNCHANGED loads
    \/ /\ p.doc # None /\ UNCHANGED loads
       /\ page' = Drawn(p, p.doc)
    \/ p.doc # None /\ page' = p /\ loads = {} /\ loads' = {p.doc}

ShowTab ==
    /\ \E d \in Chosen(page) : page' = updatePresentationView(page, d)
    /\ UNCHANGED <<loads, chains>> /\ Calls /\ Server

LeaveTab ==
    /\ Tab(page) /\ page' = Show(page, "closed", None, FALSE)
    /\ UNCHANGED <<loads, chains>> /\ Calls /\ Server

\* openReader stays in the tab if that is open.
OpenReader(d) ==
    /\ page' = Drawn([page EXCEPT !.doc = d], d)
    /\ UNCHANGED <<loads, chains>> /\ Calls /\ Server

\* The picker of the graph.
setActiveDoc(d) ==
    /\ ~Tab(page) /\ loadDocPanel([page EXCEPT !.doc = d])
    /\ UNCHANGED chains /\ Calls /\ Server

\* Home: the document is given up at once, and the tab is left (LeaveTab) when
\* the statistics are there.
GoHome ==
    /\ page.doc # None /\ page' = [page EXCEPT !.doc = None]
    /\ UNCHANGED <<loads, chains>> /\ Calls /\ Server

\* Another theme, where the slides may be switched off, and home.
ThemeChanges ==
    /\ \E d \in Chosen(page), enabled \in BOOLEAN :
        page' = [Drawn([page EXCEPT !.enabled = enabled], d) EXCEPT !.doc = None]
    /\ UNCHANGED <<loads, chains>> /\ Calls /\ Server

\* A session that expires; with a node selected the panel is the node's.
setAccessScope(p) ==
    \/ loadDocPanel(p)
    \/ page' = p /\ UNCHANGED loads

AccessExpires ==
    /\ setAccessScope([page EXCEPT !.owner = FALSE])
    /\ UNCHANGED chains /\ Calls /\ Server

\* stopPresentationPolling ends the chain whose timer is held; a chain that
\* waits for an answer sees the changed target.
Stopped(C) == {c \in C : ~(c.own /\ c.phase = "timer")}

GeneratePresentation ==
    /\ page.shown.kind = "offer" /\ page.button.visible /\ ~page.button.working
    /\ page.enabled /\ page.doc # None /\ made < MaxCalls
    /\ made' = made + 1
    /\ page' = [page EXCEPT !.button.working = TRUE, !.target = None]
    /\ chains' = Stopped(chains)
    /\ posts' = [posts EXCEPT ![page.doc] = @ + 1]
    /\ UNCHANGED <<loads, shares>> /\ Server

presentationShare ==
    /\ page.shown.kind = "frame" /\ page.enabled /\ page.doc # None
    /\ made < MaxCalls /\ made' = made + 1
    /\ page' = [page EXCEPT !.box = "making"]
    /\ shares' = shares + 1
    /\ UNCHANGED <<loads, chains, posts>> /\ Server

-----------------------------------------------------------------------------
(* What comes from the server, behind the open tab or in it                *)

\* The list is replaced (refreshGraph, loadThemeDocuments, which empties it if
\* the call fails) or the document held is (renderReader, pollForUpdates).  The
\* tab is not drawn again.  The answers may come late.
Refreshed ==
    /\ \E d \in Docs : \E mark \in Says(d) \cup {"unknown"} :
        page' = [page EXCEPT !.has[d] = mark]
    /\ UNCHANGED <<loads, chains>> /\ Calls /\ Server

\* Mutant: nobody looks whether the document is still the chosen one.
PanelLoaded_Unchecked(d) ==
    /\ \E mark \in Says(d) : page' =
            Drawn([page EXCEPT !.has[d] = mark], d)
    /\ UNCHANGED chains /\ Calls /\ Server

\* loadDocPanel has its document: the mark goes to the document held and to the
\* list, and the tab is drawn, if the document is still the chosen one.
PanelLoaded(d) ==
    /\ IF page.doc # d THEN UNCHANGED page
       ELSE \E mark \in Says(d) : page' = Drawn([page EXCEPT !.has[d] = mark], d)
    /\ UNCHANGED chains /\ Calls /\ Server

PanelAnswered(d) ==
    /\ loads' = loads \ {d}
    /\ \/ PanelLoaded(d)
       \/ UNCHANGED <<page, chains>> /\ Calls /\ Server

-----------------------------------------------------------------------------
(* The server                                                              *)

\* get_or_create_presentation has its turn and says so; until then the server
\* says what it said before.
ServerStarts(d) ==
    /\ d \in tasks /\ server[d] # "ready" /\ \A e \in Docs : server[e] # "writing"
    /\ server' = [server EXCEPT ![d] = "writing"]
    /\ UNCHANGED <<page, loads, chains, tasks>> /\ Calls

\* The slides are there, or the server could not write them.
ServerEnds(d) ==
    /\ server[d] = "writing" /\ tasks' = tasks \ {d}
    /\ \E s \in {"ready", "failed"} : server' = [server EXCEPT ![d] = s]
    /\ UNCHANGED <<page, loads, chains>> /\ Calls

\* A task that fails before it has said that it writes.
ServerRefuses(d) ==
    /\ d \in tasks /\ server[d] # "writing" /\ tasks' = tasks \ {d}
    /\ UNCHANGED <<page, loads, chains, server>> /\ Calls

-----------------------------------------------------------------------------
(* Answers to the calls for slides, and timers                             *)

\* The chain c goes on with a timer of 2.5 s, which presPollTimer now holds.
Timed(C, c) == {[r EXCEPT !.own = FALSE] : r \in C \ {c}}
               \cup {[c EXCEPT !.phase = "timer", !.own = TRUE]}

PostReady(d) ==
    /\ server[d] = "ready" /\ page' = OnPresentationReady(page, d)
    /\ UNCHANGED <<chains, tasks>>

\* Mutant: an accepted call is taken for one that is done.
PostAccepted_Ready(d) ==
    /\ server[d] # "ready" /\ tasks' = tasks \cup {d}
    /\ page' = OnPresentationReady(page, d)
    /\ UNCHANGED chains

PostAccepted(d) ==
    /\ server[d] # "ready" /\ tasks' = tasks \cup {d}
    /\ page' = [page EXCEPT !.target = d]
    /\ chains' = Timed(chains, [of |-> d, phase |-> "timer", own |-> TRUE, polls |-> 0])

\* Refused, or no answer; the server may have taken it up for all that.
PostFails(d) ==
    /\ page' = Retry(page) /\ UNCHANGED chains
    /\ tasks' \in {tasks, IF server[d] = "ready" THEN tasks ELSE tasks \cup {d}}

PostAnswered(d) ==
    /\ posts[d] > 0 /\ posts' = [posts EXCEPT ![d] = @ - 1]
    /\ UNCHANGED <<loads, shares, server, made>>
    /\ PostReady(d) \/ PostAccepted(d) \/ PostFails(d)

Counts(c) == page.target = c.of

\* Mutant: the two minutes are never over.
PollStep_Endless(c) ==
    /\ c.phase = "timer" /\ UNCHANGED <<page, loads>> /\ Calls /\ Server
    /\ chains' = (chains \ {c}) \cup
            IF Counts(c) THEN {[c EXCEPT !.phase = "asked"]} ELSE {}

\* A step of the chain: it is out of date, its time is over, or it asks.
PollStep(c) ==
    /\ c.phase = "timer" /\ UNCHANGED loads /\ Calls /\ Server
    /\ IF ~Counts(c) THEN chains' = chains \ {c} /\ UNCHANGED page
       ELSE IF c.polls = MaxPolls
       THEN /\ chains' = Stopped(chains \ {c})
            /\ page' = [Retry(page) EXCEPT !.target = None]
       ELSE /\ chains' = (chains \ {c}) \cup {[c EXCEPT !.phase = "asked", !.polls = @ + 1]}
            /\ UNCHANGED page

Ends(c, p) == chains' = Stopped(chains \ {c}) /\ page' = [p EXCEPT !.target = None]

PollAnswered(c) ==
    /\ c.phase = "asked" /\ UNCHANGED loads /\ Calls /\ Server
    /\ IF ~Counts(c) THEN chains' = chains \ {c} /\ UNCHANGED page
       ELSE CASE server[c.of] = "ready" -> Ends(c, OnPresentationReady(page, c.of))
              [] server[c.of] = "failed" -> Ends(c, Retry(page))
              [] OTHER -> chains' = Timed(chains, c) /\ UNCHANGED page

\* Mutant: an answer that is lost is the end of the chain.
PollLost_Ends(c) ==
    c.phase = "asked" /\ chains' = chains \ {c} /\ UNCHANGED <<page, loads>> /\ Calls /\ Server

\* No answer, or none that can be read.
PollLost(c) ==
    /\ c.phase = "asked" /\ UNCHANGED <<page, loads>> /\ Calls /\ Server
    /\ chains' = IF Counts(c) THEN Timed(chains, c) ELSE chains \ {c}

ShareAnswered ==
    /\ shares > 0 /\ shares' = shares - 1 /\ UNCHANGED <<chains, posts, made>> /\ Server
    /\ \/ \E box \in {"link", "failed"} : page' = Filled(page, box) /\ UNCHANGED loads
       \/ setAccessScope([Filled(page, "failed") EXCEPT !.owner = FALSE])

-----------------------------------------------------------------------------

User ==
    \/ ShowTab \/ LeaveTab \/ GoHome \/ ThemeChanges \/ GeneratePresentation \/ presentationShare
    \/ \E d \in Docs : OpenReader(d) \/ setActiveDoc(d)

Answered ==
    \/ \E d \in Docs : PostAnswered(d)
    \/ \E c \in chains : PollStep(c) \/ PollAnswered(c) \/ PollLost(c)
    \/ ShareAnswered

Loaded == Refreshed \/ AccessExpires \/ \E d \in loads : PanelAnswered(d)

Written == \E d \in Docs : ServerStarts(d) \/ ServerEnds(d) \/ ServerRefuses(d)

Next == User \/ Answered \/ Loaded \/ Written

\* Timers fire, and every call is answered or fails.
Spec == Init /\ [][Next]_vars /\ WF_vars(Answered)

-----------------------------------------------------------------------------
(* Properties                                                              *)

Busy(p) == p.shown.kind = "offer" /\ p.button.working

Working == Busy(page)

\* While the button says that slides are being written, a call is under way or a
\* chain asks for them that still counts, whatever was generated, left and
\* stopped before; while the box says that a link is being made, a call for one
\* is under way (generatePresentationForCurrentDoc, presentationShare).
WorkIsUnderWay ==
    /\ Working => (\E d \in Docs : posts[d] > 0) \/ \E c \in chains : Counts(c)
    /\ page.box = "making" => shares > 0

\* The button of the tab has slides written of the document that the tab offers
\* them of: generatePresentationForCurrentDoc asks for the chosen document, not
\* for the one that is shown, and late panels, finished slides of another
\* document, themes and sessions draw the tab (updatePresentationView).
ButtonWritesOffer ==
    page.shown.kind = "offer" /\ page.doc # None => page.shown.of = page.doc

\* The page believes of a document that there are slides only if the server has
\* them, however many calls were accepted, lost, overtaken or failed; so a frame
\* without slides is drawn of documents only that the page knows nothing of
\* (_onPresentationReady, loadDocPanel, the list).
KnownSlidesExist == \A d \in Docs : page.has[d] = "yes" => server[d] = "ready"

\* The button does not stay at work: after two minutes at the latest one can
\* press it again or sees the slides (generatePresentationForCurrentDoc).
GenerationEnds == Working ~> ~Working
===============================================================================
