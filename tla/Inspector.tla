------------------------------ MODULE Inspector ------------------------------
(***************************************************************************)
(* The panel beside the graph: the node one has clicked, the document one  *)
(* reads, the popup over a node, the view of a node's neighbours, the      *)
(* search of a path, the collected nodes and what is asked about them.     *)
(*                                                                         *)
(* Everything the panel shows is asked from the server and answered        *)
(* whenever it is answered; calls is the bag of what is on its way.  The   *)
(* panel is one element, which every function writes over.  The page's     *)
(* side is one record, and the page's functions map it to the next one.    *)
(*                                                                         *)
(* The texts, the camera, the menus of a node, the history of the phone's  *)
(* browser and the presentation of a document are left out: a drawer that  *)
(* is closed by a step back is closed here at once.  Any node is a node of *)
(* any document.                                                           *)
(***************************************************************************)
EXTENDS Integers, Sequences, Bags, BagsExt

CONSTANTS
    Docs, Nodes, None,
    MaxCalls        \* bound: calls the user makes in a session

ASSUME InspectorAssumption == None \notin Docs \cup Nodes /\ MaxCalls \in Nat \ {0}

VARIABLES page      \* what the page holds, shows and waits for

Request == [kind: {"node", "pop", "promote", "research"}, of: Nodes]
           \cup [kind: {"read", "doc", "poll", "seen", "research"}, of: Docs]
           \cup [kind: {"synth", "stats"}, of: {None}]
Maybe(S) == S \cup {None}

TypeOK ==
    /\ DOMAIN page = {"owner", "phone", "view", "active", "reading", "held", "busy",
                      "selected", "isolated", "node", "panel", "sheet", "hover", "pop",
                      "synth", "path", "calls", "made"}
    /\ {page.owner, page.phone, page.busy, page.sheet} \subseteq BOOLEAN
    /\ page.view \in {"graph", "reader"}
    /\ {page.active, page.reading, page.held} \subseteq Maybe(Docs)
    /\ {page.selected, page.isolated, page.node, page.hover} \subseteq Maybe(Nodes)
    /\ page.panel \in
        [kind: {"hint", "loading", "doc", "node", "work", "answer", "path", "found"},
         of: Maybe(Docs \cup Nodes), tools: BOOLEAN, alone: BOOLEAN]
    /\ page.pop \in [req: Maybe(Nodes), of: Maybe(Nodes), level: 0..2,
                     timer: Maybe(Nodes), stray: SUBSET Nodes]
    /\ page.synth \subseteq Nodes
    /\ page.path \in [on: BOOLEAN, from: Maybe(Nodes), drawn: BOOLEAN, notice: {"", "start", "end"}]
    /\ IsABag(page.calls) /\ BagToSet(page.calls) \subseteq Request
    /\ page.made \in 0..MaxCalls

-----------------------------------------------------------------------------
(* What the page's functions make of the page p                            *)

canWrite(p) == p.owner

Send(p, kind, of) == [p EXCEPT !.calls = BagAdd(@, [kind |-> kind, of |-> of])]

Panel(p, kind, of) ==
    [p EXCEPT !.panel = [kind |-> kind, of |-> of, tools |-> FALSE, alone |-> FALSE]]
Hint(p) == Panel(p, "hint", None)

hideNodePop(p) ==
    [p EXCEPT !.hover = None,
              !.pop = [@ EXCEPT !.req = None, !.timer = None]]

\* closeDrawer and closeDetailPane; drawer and detail open and close together.
closeDrawer(p) == [hideNodePop(p) EXCEPT !.sheet = FALSE]
openDetailPane(p) == [hideNodePop(p) EXCEPT !.sheet = TRUE]

\* revealWorkspace("graph")
Reveal(p) == [closeDrawer(p) EXCEPT !.view = "graph"]

canShowNodePop(p) == ~(p.phone /\ p.sheet)

showNodePop(p, n) ==
    IF ~canShowNodePop(p) THEN hideNodePop(p)
    ELSE Send([p EXCEPT !.pop = [@ EXCEPT !.req = n, !.of = n, !.level = 0, !.timer = None]],
              "pop", n)

loadNode(p, n, hide) == Send(IF hide THEN hideNodePop(p) ELSE p, "node", n)

renderPanel(p, n) ==
    [p EXCEPT !.node = n,
              !.panel = [kind |-> "node", of |-> n, tools |-> canWrite(p), alone |-> p.isolated = n]]

\* toggleNodeIsolation draws only the panel of the node it is about.
toggleNodeIsolation(p, n) ==
    LET q == IF p.isolated = n THEN [p EXCEPT !.isolated = None]
             ELSE [p EXCEPT !.isolated = n, !.selected = n] IN
    IF q.node = n THEN renderPanel(q, n) ELSE q

\* The last lines of clearSelections and of a click beside the nodes.
Unselect(p) ==
    LET q == [p EXCEPT !.selected = None, !.isolated = None] IN
    IF p.isolated # None /\ p.node # None THEN renderPanel(q, p.node) ELSE q

markDocumentSeen(p, d) == IF canWrite(p) THEN Send(p, "seen", d) ELSE p

renderDocPanel(p, d) ==
    [p EXCEPT !.held = d,
              !.panel = [kind |-> "doc", of |-> d, tools |-> canWrite(p), alone |-> FALSE]]

loadDocPanel(p, d) ==
    IF p.held = d THEN markDocumentSeen(renderDocPanel(p, d), d)
    ELSE Send(Panel(p, "loading", d), "doc", d)

setActiveDoc(p, d) ==
    IF d = None THEN Hint([p EXCEPT !.active = None, !.selected = None])
    ELSE loadDocPanel([p EXCEPT !.active = d, !.reading = d, !.selected = None], d)

openReader(p, d) ==
    LET h == IF p.sheet /\ p.phone THEN closeDrawer(p) ELSE hideNodePop(p) IN
    Send(Panel([h EXCEPT !.reading = d, !.active = d, !.selected = None, !.busy = TRUE,
                         !.view = "reader"], "loading", d), "read", d)

openDocGraph(p, d) ==
    LET q == setActiveDoc(Reveal(p), d) IN IF p.phone THEN [q EXCEPT !.busy = FALSE] ELSE q

renderReader(p, d) == [p EXCEPT !.held = d, !.busy = FALSE]

\* Mutant: the panel keeps what it shows until it is loaded again.
setAccessScope_Unblanked(p, owner) ==
    LET q == [p EXCEPT !.owner = owner, !.synth = IF owner THEN @ ELSE {}] IN
    IF q.selected # None THEN loadNode(q, q.selected, TRUE)
    ELSE IF q.active # None THEN loadDocPanel(q, q.active)
    ELSE Hint(q)

setAccessScope(p, owner) ==
    LET q == [Hint(p) EXCEPT !.owner = owner, !.synth = IF owner THEN @ ELSE {}] IN
    IF q.selected # None THEN loadNode(q, q.selected, TRUE)
    ELSE IF q.active # None THEN loadDocPanel(q, q.active)
    ELSE Hint(q)

expireWriteAccess(p) == setAccessScope(p, FALSE)

showPathHint(p) ==
    Reveal([Panel(p, "path", p.path.from) EXCEPT
                !.path = [@ EXCEPT !.notice = IF p.path.from = None THEN "start" ELSE "end"]])

\* The path mode with n picked.
askPath(p, n) == showPathHint([p EXCEPT !.path = [@ EXCEPT !.on = TRUE, !.from = n]])

NoPath == [on |-> FALSE, from |-> None, drawn |-> FALSE, notice |-> ""]

togglePathMode(p) ==
    IF p.path.on THEN Hint([p EXCEPT !.path = NoPath])
    ELSE askPath(p, None)

computePath(p, found) ==
    openDetailPane(Panel([p EXCEPT !.path = [@ EXCEPT !.from = None, !.drawn = found,
                                                      !.notice = ""]], "found", None))

restartPath(p) == askPath(p, None)

clearPath(p) == Reveal(Hint([p EXCEPT !.path = NoPath]))

toggleSynth(p, n) == [p EXCEPT !.synth = IF n \in @ THEN @ \ {n} ELSE @ \cup {n}]

resetWorkspaceState(p) ==
    LET q == [closeDrawer(p) EXCEPT !.busy = FALSE, !.view = "graph", !.isolated = None]
        r == IF q.path.on THEN clearPath(q) ELSE q IN
    Hint([r EXCEPT !.active = None, !.selected = None, !.reading = None, !.held = None])

Init ==
    \E owner, phone \in BOOLEAN :
        page = [owner |-> owner, phone |-> phone, view |-> "graph",
                active |-> None, reading |-> None, held |-> None, busy |-> FALSE,
                selected |-> None, isolated |-> None, node |-> None,
                panel |-> [kind |-> "hint", of |-> None, tools |-> FALSE, alone |-> FALSE],
                sheet |-> FALSE, hover |-> None,
                pop |-> [req |-> None, of |-> None, level |-> 0, timer |-> None, stray |-> {}],
                synth |-> {}, path |-> NoPath, calls |-> EmptyBag, made |-> 0]

-----------------------------------------------------------------------------
(* What one does                                                           *)

Room == page.made < MaxCalls
Count(p) == [p EXCEPT !.made = @ + 1]

\* A press on the graph closes an open drawer first.
Pressed == IF page.sheet THEN closeDrawer(page) ELSE page

PickPathNode(n) ==
    /\ page.view = "graph" /\ page.path.on
    /\ LET p == hideNodePop(Pressed) IN
       IF p.path.from = None THEN page' = askPath(p, n)
       ELSE \E found \in BOOLEAN : page' = computePath(p, found)

ClickToCollect(n) ==
    /\ page.view = "graph" /\ ~page.path.on /\ canWrite(page)
    /\ page' = toggleSynth(hideNodePop(Pressed), n)

ClickNode(n) ==
    /\ page.view = "graph" /\ ~page.path.on /\ Room
    /\ LET p == Count(Pressed)
           s == [p EXCEPT !.selected = n] IN
       page' = IF ~p.phone THEN openDetailPane(loadNode(hideNodePop(s), n, TRUE))
               ELSE IF p.selected = n /\ p.pop.req # None THEN openDetailPane(p)
               ELSE showNodePop(loadNode(s, n, FALSE), n)

ClickBeside ==
    /\ page.view = "graph" /\ page' = Unselect(hideNodePop(Pressed))

Escape ==
    /\ page' = IF page.sheet THEN closeDrawer(page) ELSE Unselect(page)

ToggleDrawer ==
    /\ page' = IF page.sheet THEN closeDrawer(page) ELSE openDetailPane(page)

\* A node in the graph, or one of the buttons of a document's panel.
Hover(n) ==
    /\ ~page.phone /\ (page.view = "graph" \/ page.panel.kind = "doc") /\ canShowNodePop(page)
    /\ page' = [page EXCEPT !.hover = n]

Leave == ~page.phone /\ page' = hideNodePop(page)

HoverFires ==
    /\ page.hover # None /\ Room
    /\ page' = showNodePop(Count([page EXCEPT !.hover = None]), page.hover)

\* A neighbour's link loads the node and does not select it.
FollowNeighbour(n) ==
    page.panel.kind = "node" /\ Room /\ page' = loadNode(Count(page), n, TRUE)

focusNode(n) ==
    /\ page.panel.kind = "doc" /\ Room
    /\ page' = Reveal(loadNode(Count([page EXCEPT !.selected = n]), n, TRUE))

\* The links back are bound otherwise: they are followed when nothing is under way.
BackToDocument ==
    /\ page.panel.kind = "node" /\ page.active # None /\ page.calls = EmptyBag
    /\ page' = loadDocPanel(page, page.active)

OpenReader(d) == Room /\ page' = openReader(Count(page), d)

chooseGraphDoc(d) == page.view = "graph" /\ Room /\ page' = setActiveDoc(Count(page), d)

OpenDocGraph(d) == Room /\ page' = openDocGraph(Count(page), d)

\* The tabs of the middle.  On a phone the reader opens some document.
ShowGraph == page' = [page EXCEPT !.view = "graph"]
ShowReader(d) ==
    IF page.phone /\ page.reading = None THEN Room /\ page' = openReader(Count(page), d)
    ELSE page' = [page EXCEPT !.view = "reader"]

Isolate == page.panel.kind = "node" /\ page' = toggleNodeIsolation(page, page.panel.of)

addToSynth ==
    /\ page.panel.kind = "node" /\ page.panel.tools /\ canWrite(page) /\ Room
    /\ LET n == page.panel.of
           p == Count([page EXCEPT !.synth = @ \cup {n}]) IN
       page' = IF n = p.selected THEN loadNode(p, n, TRUE) ELSE p

RemoveChip(n) == n \in page.synth /\ canWrite(page) /\ page' = toggleSynth(page, n)

synth ==
    /\ canWrite(page) /\ page.synth # {} /\ Room
    /\ page' = Send(openDetailPane(Panel(Count(page), "work", None)), "synth", None)

doResearch ==
    /\ page.panel.kind = "node" /\ page.panel.tools /\ canWrite(page) /\ Room
    /\ page.selected # None \/ page.active # None
    /\ page' = Send(openDetailPane(Panel(Count(page), "work", None)), "research",
                    IF page.selected # None THEN page.selected ELSE page.active)

\* The alias that is to be the node's name, once the question is answered.
promoteEntityAlias ==
    /\ page.panel.kind = "node" /\ page.panel.tools /\ canWrite(page) /\ Room
    /\ page' = Send(Count(page), "promote", page.panel.of)

TogglePath == page' = togglePathMode(page)
AnotherPath == page.panel.kind = "found" /\ page' = restartPath(page)
ClearPath == page.panel.kind = "found" /\ page' = clearPath(page)

\* runPurgeCheck has burnt the document.
Purged ==
    /\ canWrite(page) /\ page.active # None
    /\ page' = [page EXCEPT !.active = None, !.held = None]

Home == page' = resetWorkspaceState(page)

\* The statistics have changed: the active document is asked for again.
PollFindsChange ==
    /\ page.active # None /\ Room /\ page' = Send(Count(page), "poll", page.active)

-----------------------------------------------------------------------------
(* Answers                                                                 *)

Waiting(kind, of) == BagIn([kind |-> kind, of |-> of], page.calls)
Taken(kind, of) == [page EXCEPT !.calls = BagRemove(@, [kind |-> kind, of |-> of])]

\* The node, no such node, or no answer: a failure is not caught.
NodeAnswered(n) ==
    /\ Waiting("node", n)
    /\ LET p == Taken("node", n) IN page' \in {renderPanel(p, n), Hint(p), p}

\* Mutant: the popup takes any answer.
PopAnswered_Unchecked(n) ==
    /\ Waiting("pop", n)
    /\ LET p == Taken("pop", n)
           more == [p EXCEPT !.pop = [@ EXCEPT !.of = n, !.level = 1]] IN
       page' = IF canShowNodePop(p) /\ p.pop.req # None THEN more ELSE p

\* With a document among the sources a timer adds it to the popup; the variable
\* of an earlier timer is lost.
PopAnswered(n) ==
    /\ Waiting("pop", n)
    /\ LET p == Taken("pop", n)
           more == [p EXCEPT !.pop = [@ EXCEPT !.of = n, !.level = 1]]
           timed == [more EXCEPT !.pop = [@ EXCEPT !.timer = n,
                                                   !.stray = p.pop.stray \cup ({p.pop.timer} \ {None})]] IN
       page' \in IF canShowNodePop(p) /\ p.pop.req = n THEN {more, timed, p} ELSE {p}

PopExpands(n) ==
    /\ n = page.pop.timer \/ n \in page.pop.stray
    /\ LET p == IF n = page.pop.timer THEN [page EXCEPT !.pop = [@ EXCEPT !.timer = None]]
                ELSE [page EXCEPT !.pop = [@ EXCEPT !.stray = page.pop.stray \ {n}]] IN
       page' = IF canShowNodePop(p) /\ p.pop.req = n
               THEN [p EXCEPT !.pop = [@ EXCEPT !.of = n, !.level = 2]] ELSE p

\* Mutant: the panel is drawn for whichever document comes.
ReadAnswered_Unchecked(d) ==
    /\ Waiting("read", d)
    /\ page' = markDocumentSeen(renderDocPanel(renderReader(Taken("read", d), d), d), d)

ReadAnswered(d) ==
    /\ Waiting("read", d)
    /\ LET p == renderReader(Taken("read", d), d) IN
       page' = markDocumentSeen(IF p.active = d THEN renderDocPanel(p, d) ELSE p, d)

\* Mutant: the reader stays busy.
ReadFails_Busy(d) ==
    /\ Waiting("read", d)
    /\ LET p == Taken("read", d) IN
       page' = IF p.active = d THEN Hint(p) ELSE p

\* No such document, or no answer.
ReadFails(d) ==
    /\ Waiting("read", d)
    /\ LET p == [Taken("read", d) EXCEPT !.busy = FALSE] IN
       page' = IF p.active = d THEN Hint(p) ELSE p

\* A failure is shown wherever one has gone.
DocAnswered(d) ==
    /\ Waiting("doc", d)
    /\ LET p == Taken("doc", d) IN
       page' \in {Hint(p)} \cup
                 IF p.active = d THEN {markDocumentSeen(renderDocPanel(p, d), d)} ELSE {p}

PollAnswered(d) ==
    /\ Waiting("poll", d)
    /\ LET p == Taken("poll", d) IN
       page' \in {p, IF p.active = d THEN renderDocPanel(p, d) ELSE p}

SeenAnswered(d) ==
    /\ Waiting("seen", d)
    /\ LET p == Taken("seen", d) IN page' \in {p, expireWriteAccess(p)}

\* synth and doResearch write over the panel; a lost session loads it again first.
WorkAnswered(kind, of) ==
    /\ kind \in {"synth", "research"} /\ Waiting(kind, of)
    /\ LET p == Taken(kind, of) IN
       page' \in {Panel(p, "answer", of), Hint(p), Hint(expireWriteAccess(p))}

\* The link below a result of a research that began at a node.
BackToNode ==
    /\ page.panel.kind = "answer" /\ page.panel.of \in Nodes /\ page.calls = EmptyBag
    /\ page' = loadNode(page, page.panel.of, TRUE)

PromoteAnswered(n) ==
    /\ Waiting("promote", n)
    /\ LET p == Taken("promote", n) IN page' \in {renderPanel(p, n), p, expireWriteAccess(p)}

-----------------------------------------------------------------------------

User ==
    \/ \E n \in Nodes :
        \/ PickPathNode(n) \/ ClickToCollect(n) \/ ClickNode(n) \/ Hover(n)
        \/ FollowNeighbour(n) \/ focusNode(n) \/ RemoveChip(n)
    \/ \E d \in Docs : OpenReader(d) \/ OpenDocGraph(d) \/ ShowReader(d)
    \/ \E d \in Maybe(Docs) : chooseGraphDoc(d)
    \/ ClickBeside \/ Escape \/ ToggleDrawer \/ Leave
    \/ BackToDocument \/ BackToNode \/ ShowGraph \/ Isolate
    \/ addToSynth \/ synth \/ doResearch \/ promoteEntityAlias
    \/ TogglePath \/ AnotherPath \/ ClearPath \/ Purged \/ Home

Answered ==
    \/ \E n \in Nodes : NodeAnswered(n) \/ PopAnswered(n) \/ PromoteAnswered(n)
    \/ \E d \in Docs :
        ReadAnswered(d) \/ ReadFails(d) \/ DocAnswered(d) \/ PollAnswered(d) \/ SeenAnswered(d)
    \/ \E of \in Maybe(Docs \cup Nodes), kind \in {"synth", "research"} : WorkAnswered(kind, of)

Next == User \/ Answered \/ HoverFires \/ (\E n \in Nodes : PopExpands(n)) \/ PollFindsChange

Spec == Init /\ [][Next]_page

-----------------------------------------------------------------------------
(* Properties                                                              *)

\* A document that comes late never takes the panel of another one: whatever is
\* drawn as a document's panel is the document that is active then (openReader,
\* loadDocPanel, pollForUpdates).
LateDocsAreActive ==
    [][page'.panel.kind = "doc" /\ page'.panel # page.panel => page'.panel.of = page'.active]_page

\* The panel offers what the page's state allows, whichever answer drew it last:
\* without the right to write there is no button that writes and nothing
\* collected, also after a late call found the session expired (setAccessScope,
\* renderPanel, renderDocPanel); the button of a node says whether the graph is
\* reduced to its neighbours, also after that view was left by other means
\* (toggleNodeIsolation, clearSelections); the notice over the graph asks for
\* the node the next click picks, and a path is drawn in the path mode only
\* (showPathHint, computePath, clearPath).
ControlsTrue ==
    /\ ~canWrite(page) => ~page.panel.tools /\ page.synth = {}
    /\ page.panel.kind = "node" => (page.panel.alone <=> page.isolated = page.panel.of)
    /\ page.path.notice = "start" => page.path.on /\ page.path.from = None
    /\ page.path.notice = "end" <=> page.path.on /\ page.path.from # None
    /\ page.path.drawn => page.path.on

\* A popup that is open shows the node it was opened for, whichever answers and
\* timers are still to come, and never lies over the phone's open drawer
\* (showNodePop, hideNodePop, canShowNodePop).
PopupIsOwn ==
    page.pop.req # None => page.pop.of = page.pop.req /\ canShowNodePop(page)

\* The panel says that a document is being loaded only while a call for the
\* active one is under way, unless that was purged; the reader is busy only
\* while a document for it is under way (openReader, loadDocPanel).
LoadingIsAsked ==
    /\ page.panel.kind = "loading" /\ page.active # None
         => Waiting("read", page.active) \/ Waiting("doc", page.active)
    /\ page.busy => \E d \in Docs : Waiting("read", d)
===============================================================================
