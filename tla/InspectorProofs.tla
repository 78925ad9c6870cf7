---------------------------- MODULE InspectorProofs ----------------------------
(***************************************************************************)
(* What holds of the panel, the popup and the path mode for any documents  *)
(* and nodes and any number of calls.                                      *)
(*                                                                         *)
(* Every function of the page keeps Fits: the record has its type, the     *)
(* controls of the panel say what holds, and an open popup is its own.     *)
(* Every function keeps Asked, too: what is waited for is under way.       *)
(***************************************************************************)
EXTENDS Inspector, TLAPS

Calls == UNION {[S -> Nat \ {0}] : S \in SUBSET Request}

Panels == [kind: {"hint", "loading", "doc", "node", "work", "answer", "path", "found"},
           of: Maybe(Docs \cup Nodes), tools: BOOLEAN, alone: BOOLEAN]
Pops == [req: Maybe(Nodes), of: Maybe(Nodes), level: 0..2,
         timer: Maybe(Nodes), stray: SUBSET Nodes]
Paths == [on: BOOLEAN, from: Maybe(Nodes), drawn: BOOLEAN, notice: {"", "start", "end"}]

Page == [owner: BOOLEAN, phone: BOOLEAN, view: {"graph", "reader"},
         active: Maybe(Docs), reading: Maybe(Docs), held: Maybe(Docs), busy: BOOLEAN,
         selected: Maybe(Nodes), isolated: Maybe(Nodes), node: Maybe(Nodes),
         panel: Panels, sheet: BOOLEAN, hover: Maybe(Nodes), pop: Pops,
         synth: SUBSET Nodes, path: Paths, calls: Calls, made: 0..MaxCalls]

\* What the functions of the page need, whatever the panel shows ...
Rest(p) ==
    /\ ~p.owner => p.synth = {}
    /\ p.path.notice = "start" => p.path.on /\ p.path.from = None
    /\ p.path.notice = "end" <=> p.path.on /\ p.path.from # None
    /\ p.path.drawn => p.path.on
    /\ p.pop.req # None => p.pop.of = p.pop.req /\ ~(p.phone /\ p.sheet)

\* ... and what the panel needs.  A node's panel is that of page.node, or
\* toggleNodeIsolation would leave it as it is.
Drawn(p) ==
    /\ ~p.owner => ~p.panel.tools
    /\ p.panel.kind = "node" => /\ p.node # None /\ p.panel.of = p.node
                                /\ p.panel.alone <=> p.isolated = p.node

Fits(p) == p \in Page /\ Rest(p) /\ Drawn(p)

LEMMA MaybeHolds ==
    /\ None \in Maybe(Docs) /\ None \in Maybe(Nodes)
    /\ \A d \in Docs : d \in Maybe(Docs)
    /\ \A n \in Nodes : n \in Maybe(Nodes)
BY DEF Maybe

\* The fields that say what one looks at and waits for are free.
LEMMA SameFits ==
    ASSUME NEW p, Fits(p), NEW q \in Page,
           q.owner = p.owner, q.phone = p.phone, q.sheet = p.sheet, q.panel = p.panel,
           q.node = p.node, q.isolated = p.isolated, q.synth = p.synth, q.path = p.path, q.pop = p.pop
    PROVE  Fits(q)
BY DEF Fits, Rest, Drawn

LEMMA SendFits ==
    ASSUME NEW p, Fits(p), NEW kind, NEW of, [kind |-> kind, of |-> of] \in Request
    PROVE  Fits(Send(p, kind, of))
<1> DEFINE r == [kind |-> kind, of |-> of]
           b == BagAdd(p.calls, r)
<1>1. b \in Calls
    <2>1. PICK S \in SUBSET Request : p.calls \in [S -> Nat \ {0}]
        BY DEF Fits, Page, Calls
    <2>2. b \in [S \cup {r} -> Nat \ {0}]
        <3> HIDE DEF r
        <3> QED BY <2>1 DEF BagAdd
    <2> QED BY <2>2 DEF Calls
<1> HIDE DEF b
<1>2. [p EXCEPT !.calls = b] \in Page
    BY <1>1 DEF Fits, Page
<1>3. Send(p, kind, of) = [p EXCEPT !.calls = b]
    BY DEF Send, b
<1>4. p \in Page
    BY DEF Fits
<1> QED
    BY <1>2, <1>3, <1>4, SameFits DEF Page

LEMMA DrawnFits ==
    ASSUME NEW p \in Page, Rest(p), NEW x \in Panels,
           ~p.owner => ~x.tools,
           x.kind = "node" => p.node # None /\ x.of = p.node /\ (x.alone <=> p.isolated = x.of)
    PROVE  Fits([p EXCEPT !.panel = x])
<1> DEFINE q == [p EXCEPT !.panel = x]
<1>1. q \in Page
    BY DEF Page
<1>2. /\ q.panel = x /\ q.owner = p.owner /\ q.phone = p.phone /\ q.sheet = p.sheet
      /\ q.node = p.node /\ q.isolated = p.isolated /\ q.synth = p.synth /\ q.path = p.path
      /\ q.pop = p.pop
    BY DEF Page
<1> HIDE DEF q
<1>3. Rest(q) /\ Drawn(q)
    BY <1>2 DEF Rest, Drawn
<1> QED
    BY <1>1, <1>3 DEF Fits, q

LEMMA PanelFits ==
    ASSUME NEW p \in Page, Rest(p), NEW kind \in {"hint", "loading", "work", "answer", "path", "found"},
           NEW of \in Maybe(Docs \cup Nodes)
    PROVE  Fits(Panel(p, kind, of))
<1>1. [kind |-> kind, of |-> of, tools |-> FALSE, alone |-> FALSE] \in Panels
    BY DEF Panels
<1> QED
    BY <1>1, DrawnFits DEF Panel

LEMMA HintFits == ASSUME NEW p \in Page, Rest(p) PROVE Fits(Hint(p))
BY PanelFits DEF Hint, Maybe

LEMMA PopFits ==
    ASSUME NEW p, Fits(p), NEW x \in Pops,
           x.req # None => x.of = x.req /\ ~(p.phone /\ p.sheet)
    PROVE  Fits([p EXCEPT !.pop = x])
<1> DEFINE q == [p EXCEPT !.pop = x]
<1>1. q \in Page
    BY DEF Fits, Page
<1>2. /\ q.panel = p.panel /\ q.owner = p.owner /\ q.phone = p.phone /\ q.sheet = p.sheet
      /\ q.node = p.node /\ q.isolated = p.isolated /\ q.synth = p.synth /\ q.path = p.path
      /\ q.pop = x
    BY DEF Fits, Page
<1> HIDE DEF q
<1>3. Rest(q) /\ Drawn(q)
    BY <1>2 DEF Fits, Rest, Drawn
<1> QED
    BY <1>1, <1>3 DEF Fits, q

LEMMA SheetFits ==
    ASSUME NEW p, Fits(p), NEW b \in BOOLEAN, b => p.pop.req = None
    PROVE  Fits([p EXCEPT !.sheet = b])
<1> DEFINE q == [p EXCEPT !.sheet = b]
<1>1. q \in Page
    BY DEF Fits, Page
<1>2. /\ q.panel = p.panel /\ q.owner = p.owner /\ q.phone = p.phone /\ q.sheet = b
      /\ q.node = p.node /\ q.isolated = p.isolated /\ q.synth = p.synth /\ q.path = p.path
      /\ q.pop = p.pop
    BY DEF Fits, Page
<1> HIDE DEF q
<1>3. Rest(q) /\ Drawn(q)
    BY <1>2 DEF Fits, Rest, Drawn
<1> QED
    BY <1>1, <1>3 DEF Fits, q

LEMMA PathFits ==
    ASSUME NEW p \in Page, Rest(p), NEW x \in Paths,
           x.notice = "start" => x.on /\ x.from = None,
           x.notice = "end" <=> x.on /\ x.from # None,
           x.drawn => x.on
    PROVE  /\ [p EXCEPT !.path = x] \in Page /\ Rest([p EXCEPT !.path = x])
           /\ Fits(p) => Fits([p EXCEPT !.path = x])
<1> DEFINE q == [p EXCEPT !.path = x]
<1>1. q \in Page
    BY DEF Page
<1>2. /\ q.owner = p.owner /\ q.phone = p.phone /\ q.sheet = p.sheet /\ q.panel = p.panel
      /\ q.node = p.node /\ q.isolated = p.isolated /\ q.synth = p.synth /\ q.path = x
      /\ q.pop = p.pop
    BY DEF Page
<1> HIDE DEF q
<1>3. Rest(q) /\ (Drawn(p) => Drawn(q))
    BY <1>2 DEF Rest, Drawn
<1> QED
    BY <1>1, <1>3 DEF Fits, q

LEMMA HidePopFits ==
    ASSUME NEW p, Fits(p)
    PROVE  Fits(hideNodePop(p)) /\ hideNodePop(p).pop.req = None
<1> DEFINE x == [p.pop EXCEPT !.req = None, !.timer = None]
<1>1. x \in Pops /\ x.req = None
    BY MaybeHolds DEF Fits, Page, Pops
<1>2. hideNodePop(p) = [p EXCEPT !.hover = None, !.pop = x]
    BY DEF hideNodePop
<1> HIDE DEF x
<1> DEFINE q == [p EXCEPT !.hover = None, !.pop = x]
<1>3. q \in Page
    BY <1>1, MaybeHolds DEF Fits, Page
<1>4. /\ q.panel = p.panel /\ q.owner = p.owner /\ q.phone = p.phone /\ q.sheet = p.sheet
      /\ q.node = p.node /\ q.isolated = p.isolated /\ q.synth = p.synth /\ q.path = p.path
      /\ q.pop = x
    BY DEF Fits, Page
<1> HIDE DEF q
<1>5. Rest(q) /\ Drawn(q)
    BY <1>1, <1>4 DEF Fits, Rest, Drawn
<1> QED
    BY <1>1, <1>2, <1>3, <1>4, <1>5 DEF Fits, q

LEMMA CloseFits == ASSUME NEW p, Fits(p) PROVE Fits(closeDrawer(p))
BY HidePopFits, SheetFits DEF closeDrawer

LEMMA PaneFits == ASSUME NEW p, Fits(p) PROVE Fits(openDetailPane(p))
BY HidePopFits, SheetFits DEF openDetailPane

LEMMA RevealFits == ASSUME NEW p, Fits(p) PROVE Fits(Reveal(p)) /\ Reveal(p).panel = p.panel
<1> DEFINE h == closeDrawer(p)
           v == [h EXCEPT !.view = "graph"]
<1>1. Fits(h)
    BY CloseFits
<1>2. h.panel = p.panel
    BY DEF closeDrawer, hideNodePop, Fits, Page
<1>3. Reveal(p) = v
    BY DEF Reveal
<1> HIDE DEF h
<1>4. h \in Page
    BY <1>1 DEF Fits
<1>5. v \in Page
    BY <1>4 DEF Page
<1>6. v.panel = h.panel /\ Fits(v)
    BY <1>1, <1>4, <1>5, SameFits DEF Page
<1> QED
    BY <1>2, <1>3, <1>6

LEMMA Requests ==
    /\ \A n \in Nodes, k \in {"node", "pop", "promote", "research"} : [kind |-> k, of |-> n] \in Request
    /\ \A d \in Docs, k \in {"read", "doc", "poll", "seen", "research"} : [kind |-> k, of |-> d] \in Request
    /\ \A k \in {"synth", "stats"} : [kind |-> k, of |-> None] \in Request
BY DEF Request

LEMMA LoadNodeFits ==
    ASSUME NEW p, Fits(p), NEW n \in Nodes, NEW hide \in BOOLEAN
    PROVE  Fits(loadNode(p, n, hide))
BY HidePopFits, SendFits, Requests DEF loadNode

LEMMA ShowPopFits ==
    ASSUME NEW p, Fits(p), NEW n \in Nodes
    PROVE  Fits(showNodePop(p, n))
<1> DEFINE x == [p.pop EXCEPT !.req = n, !.of = n, !.level = 0, !.timer = None]
<1>1. CASE canShowNodePop(p)
    <2>1. x \in Pops /\ x.of = x.req
        <3>1. p.pop \in Pops
            BY DEF Fits, Page
        <3>2. /\ n \in Maybe(Nodes) /\ None \in Maybe(Nodes) /\ 0 \in 0..2
            BY DEF Maybe
        <3> QED BY <3>1, <3>2 DEF Pops
    <2>2. showNodePop(p, n) = Send([p EXCEPT !.pop = x], "pop", n)
        BY <1>1 DEF showNodePop
    <2> HIDE DEF x
    <2>3. Fits([p EXCEPT !.pop = x])
        BY <1>1, <2>1, PopFits DEF canShowNodePop
    <2> QED
        BY <2>2, <2>3, SendFits, Requests
<1> QED
    BY <1>1, HidePopFits DEF showNodePop

\* A node is drawn, whatever the panel showed.
LEMMA RenderFits ==
    ASSUME NEW p \in Page, Rest(p), NEW n \in Nodes
    PROVE  Fits(renderPanel(p, n))
<1> DEFINE x == [kind |-> "node", of |-> n, tools |-> p.owner, alone |-> p.isolated = n]
<1>1. x \in Panels
    BY DEF Panels, Maybe, Page
<1>2. renderPanel(p, n) = [p EXCEPT !.node = n, !.panel = x]
    BY Zenon DEF renderPanel, canWrite
<1>3. x.tools = p.owner /\ x.of = n /\ x.alone = (p.isolated = n)
    OBVIOUS
<1> HIDE DEF x
<1>4. [p EXCEPT !.node = n, !.panel = x] \in Page
    BY <1>1, MaybeHolds DEF Page
<1> DEFINE q == [p EXCEPT !.node = n, !.panel = x]
<1>5. /\ q.node = n /\ q.panel = x /\ q.owner = p.owner /\ q.synth = p.synth
      /\ q.path = p.path /\ q.pop = p.pop /\ q.phone = p.phone /\ q.sheet = p.sheet
      /\ q.isolated = p.isolated
    BY DEF Page
<1> HIDE DEF q
<1>6. Rest(q) /\ Drawn(q)
    BY <1>3, <1>5, InspectorAssumption DEF Rest, Drawn
<1> QED
    BY <1>2, <1>4, <1>6 DEF Fits, q

LEMMA FreeFits ==
    ASSUME NEW p, Fits(p), NEW a \in Maybe(Docs), NEW r \in Maybe(Docs), NEW h \in Maybe(Docs),
           NEW s \in Maybe(Nodes), NEW b \in BOOLEAN, NEW v \in {"graph", "reader"}
    PROVE  /\ Fits([p EXCEPT !.active = a]) /\ Fits([p EXCEPT !.selected = s])
           /\ Fits([p EXCEPT !.reading = r]) /\ Fits([p EXCEPT !.held = h])
           /\ Fits([p EXCEPT !.busy = b]) /\ Fits([p EXCEPT !.view = v])
           /\ Fits([p EXCEPT !.hover = s])
<1> p \in Page
    BY DEF Fits
<1>1. Fits([p EXCEPT !.active = a])
    BY SameFits DEF Page
<1>2. Fits([p EXCEPT !.selected = s])
    BY SameFits DEF Page
<1>3. Fits([p EXCEPT !.reading = r])
    BY SameFits DEF Page
<1>4. Fits([p EXCEPT !.held = h])
    BY SameFits DEF Page
<1>5. Fits([p EXCEPT !.busy = b])
    BY SameFits DEF Page
<1>6. Fits([p EXCEPT !.view = v])
    BY SameFits DEF Page
<1>7. Fits([p EXCEPT !.hover = s])
    BY SameFits DEF Page
<1> QED
    BY <1>1, <1>2, <1>3, <1>4, <1>5, <1>6, <1>7

\* Several at once.
LEMMA LookFits ==
    ASSUME NEW p, Fits(p), NEW a \in Maybe(Docs), NEW r \in Maybe(Docs), NEW s \in Maybe(Nodes)
    PROVE  /\ Fits([p EXCEPT !.active = a, !.selected = s])
           /\ Fits([p EXCEPT !.active = a, !.reading = r, !.selected = s])
<1> p \in Page
    BY DEF Fits
<1>1. Fits([p EXCEPT !.active = a, !.selected = s])
    BY SameFits DEF Page
<1>2. Fits([p EXCEPT !.active = a, !.reading = r, !.selected = s])
    BY SameFits DEF Page
<1> QED
    BY <1>1, <1>2

LEMMA HoldFits ==
    ASSUME NEW p, Fits(p), NEW a \in Maybe(Docs), NEW h \in Maybe(Docs), NEW b \in BOOLEAN
    PROVE  Fits([p EXCEPT !.held = h, !.busy = b]) /\ Fits([p EXCEPT !.active = a, !.held = h])
<1> p \in Page
    BY DEF Fits
<1>1. Fits([p EXCEPT !.held = h, !.busy = b])
    BY SameFits DEF Page
<1>2. Fits([p EXCEPT !.active = a, !.held = h])
    BY SameFits DEF Page
<1> QED
    BY <1>1, <1>2

LEMMA IsolationFits ==
    ASSUME NEW p, Fits(p), NEW n \in Nodes, p.panel.kind = "node" => p.node = n
    PROVE  Fits(toggleNodeIsolation(p, n))
<1> DEFINE q == IF p.isolated = n THEN [p EXCEPT !.isolated = None]
                ELSE [p EXCEPT !.isolated = n, !.selected = n]
<1>1. q \in Page /\ Rest(q) /\ q.node = p.node /\ q.panel = p.panel /\ q.owner = p.owner
    <2>1. CASE p.isolated = n
        BY <2>1 DEF Fits, Page, Rest, Maybe
    <2>2. CASE p.isolated # n
        <3> DEFINE i == [p EXCEPT !.isolated = n]
                   s == [i EXCEPT !.selected = n]
        <3>1. i \in Page /\ Rest(i) /\ i.node = p.node /\ i.panel = p.panel /\ i.owner = p.owner
            BY MaybeHolds DEF Fits, Page, Rest
        <3> HIDE DEF i
        <3>2. s \in Page /\ Rest(s) /\ s.node = i.node /\ s.panel = i.panel /\ s.owner = i.owner
            BY <3>1, MaybeHolds DEF Page, Rest
        <3>3. q = s
            BY <2>2 DEF i
        <3> QED BY <3>1, <3>2, <3>3
    <2> QED BY <2>1, <2>2
<1>2. toggleNodeIsolation(p, n) = IF q.node = n THEN renderPanel(q, n) ELSE q
    BY Zenon DEF toggleNodeIsolation
<1> HIDE DEF q
<1>3. CASE q.node = n
    BY <1>1, <1>2, <1>3, RenderFits
<1>4. CASE q.node # n
    BY <1>1, <1>2, <1>4 DEF Fits, Drawn
<1> QED
    BY <1>3, <1>4

LEMMA UnselectFits ==
    ASSUME NEW p, Fits(p)
    PROVE  Fits(Unselect(p))
<1> DEFINE q == [p EXCEPT !.selected = None, !.isolated = None]
<1>1. /\ q \in Page /\ Rest(q) /\ q.node = p.node /\ q.panel = p.panel /\ q.owner = p.owner
      /\ q.isolated = None
    <2>1. q \in Page
        BY MaybeHolds DEF Fits, Page
    <2>2. /\ q.node = p.node /\ q.panel = p.panel /\ q.owner = p.owner /\ q.isolated = None
          /\ q.synth = p.synth /\ q.path = p.path /\ q.pop = p.pop
          /\ q.phone = p.phone /\ q.sheet = p.sheet
        BY DEF Fits, Page
    <2> HIDE DEF q
    <2> QED BY <2>1, <2>2 DEF Fits, Rest
<1>2. Unselect(p) = IF p.isolated # None /\ p.node # None THEN renderPanel(q, p.node) ELSE q
    BY Zenon DEF Unselect
<1>3. p.node \in Nodes \cup {None}
    BY DEF Fits, Page, Maybe
<1> HIDE DEF q
<1>4. CASE p.isolated # None /\ p.node # None
    BY <1>1, <1>2, <1>3, <1>4, RenderFits
<1>5. CASE p.isolated = None
    BY <1>1, <1>2, <1>5 DEF Fits, Drawn
<1>6. CASE p.isolated # None /\ p.node = None
    BY <1>1, <1>2, <1>6 DEF Fits, Drawn
<1> QED
    BY <1>4, <1>5, <1>6

LEMMA SeenFits == ASSUME NEW p, Fits(p), NEW d \in Docs PROVE Fits(markDocumentSeen(p, d))
BY SendFits, Requests DEF markDocumentSeen

LEMMA DocPanelFits ==
    ASSUME NEW p, Fits(p), NEW d \in Docs
    PROVE  Fits(renderDocPanel(p, d))
<1> DEFINE x == [kind |-> "doc", of |-> d, tools |-> p.owner, alone |-> FALSE]
           h == [p EXCEPT !.held = d]
<1>1. x \in Panels /\ x.kind = "doc" /\ x.tools = p.owner
    BY DEF Panels, Maybe, Fits, Page
<1>2. renderDocPanel(p, d) = [p EXCEPT !.held = d, !.panel = x]
    BY Zenon DEF renderDocPanel, canWrite
<1> HIDE DEF x
<1> DEFINE q == [p EXCEPT !.held = d, !.panel = x]
<1>3. q \in Page
    BY <1>1, MaybeHolds DEF Fits, Page
<1>4. /\ q.node = p.node /\ q.panel = x /\ q.owner = p.owner /\ q.synth = p.synth
      /\ q.path = p.path /\ q.pop = p.pop /\ q.phone = p.phone /\ q.sheet = p.sheet
    BY DEF Fits, Page
<1> HIDE DEF q
<1>5. Rest(q) /\ Drawn(q)
    BY <1>1, <1>4 DEF Fits, Rest, Drawn
<1> QED
    BY <1>2, <1>3, <1>5 DEF Fits, q

LEMMA LoadDocFits ==
    ASSUME NEW p, Fits(p), NEW d \in Docs
    PROVE  Fits(loadDocPanel(p, d))
<1>1. Fits(Panel(p, "loading", d))
    BY PanelFits DEF Maybe, Fits
<1> QED
    BY <1>1, DocPanelFits, SeenFits, SendFits, Requests DEF loadDocPanel

LEMMA ActiveFits ==
    ASSUME NEW p, Fits(p), NEW d \in Maybe(Docs)
    PROVE  Fits(setActiveDoc(p, d))
<1>1. Fits([p EXCEPT !.active = None, !.selected = None])
    BY LookFits DEF Maybe
<1>2. ASSUME d \in Docs PROVE Fits([p EXCEPT !.active = d, !.reading = d, !.selected = None])
    BY <1>2, LookFits DEF Maybe
<1> QED
    BY <1>1, <1>2, HintFits, LoadDocFits DEF setActiveDoc, Maybe, Fits

LEMMA OpenFits ==
    ASSUME NEW p, Fits(p), NEW d \in Docs
    PROVE  Fits(openReader(p, d))
<1> DEFINE h == IF p.sheet /\ p.phone THEN closeDrawer(p) ELSE hideNodePop(p)
           q == [h EXCEPT !.reading = d, !.active = d, !.selected = None, !.busy = TRUE, !.view = "reader"]
<1>1. Fits(h)
    BY CloseFits, HidePopFits
<1> HIDE DEF h
<1>2. Fits(q)
    <2>1. h \in Page
        BY <1>1 DEF Fits
    <2>2. q \in Page
        BY <2>1, MaybeHolds DEF Page
    <2>3. /\ q.owner = h.owner /\ q.phone = h.phone /\ q.sheet = h.sheet /\ q.panel = h.panel
          /\ q.node = h.node /\ q.isolated = h.isolated /\ q.synth = h.synth /\ q.path = h.path
          /\ q.pop = h.pop
        BY <2>1 DEF Page
    <2> HIDE DEF q
    <2> QED BY <1>1, <2>2, <2>3, SameFits
<1>3. openReader(p, d) = Send(Panel(q, "loading", d), "read", d)
    BY Zenon DEF openReader, h
<1> HIDE DEF q
<1>4. Fits(Panel(q, "loading", d))
    BY <1>2, PanelFits DEF Maybe, Fits
<1> QED
    BY <1>3, <1>4, SendFits, Requests

LEMMA OpenGraphFits ==
    ASSUME NEW p, Fits(p), NEW d \in Docs
    PROVE  Fits(openDocGraph(p, d))
<1>1. Fits(setActiveDoc(Reveal(p), d))
    BY RevealFits, ActiveFits DEF Maybe
<1>2. Fits([setActiveDoc(Reveal(p), d) EXCEPT !.busy = FALSE])
    BY <1>1, FreeFits DEF Maybe
<1> QED
    BY <1>1, <1>2 DEF openDocGraph

LEMMA ReaderFits == ASSUME NEW p, Fits(p), NEW d \in Docs PROVE Fits(renderReader(p, d))
BY HoldFits DEF renderReader, Maybe

\* The session is lost.
LEMMA ExpiredFits ==
    ASSUME NEW p, Fits(p)
    PROVE  Fits(expireWriteAccess(p))
<1> DEFINE h == Hint(p)
           q == [h EXCEPT !.owner = FALSE, !.synth = {}]
<1>1. Fits(h) /\ h.panel.tools = FALSE /\ h.panel.kind = "hint"
    BY HintFits DEF Hint, Panel, Fits, Page
<1>2. expireWriteAccess(p) = IF q.selected # None THEN loadNode(q, q.selected, TRUE)
                             ELSE IF q.active # None THEN loadDocPanel(q, q.active)
                             ELSE Hint(q)
    <2> DEFINE r == [h EXCEPT !.owner = FALSE, !.synth = IF FALSE THEN @ ELSE {}]
    <2>1. r = q
        OBVIOUS
    <2>2. expireWriteAccess(p) = IF r.selected # None THEN loadNode(r, r.selected, TRUE)
                                 ELSE IF r.active # None THEN loadDocPanel(r, r.active)
                                 ELSE Hint(r)
        BY Zenon DEF expireWriteAccess, setAccessScope
    <2> QED BY <2>1, <2>2, Zenon
<1> HIDE DEF h
<1>3. Fits(q) /\ q.selected \in Maybe(Nodes) /\ q.active \in Maybe(Docs)
    BY <1>1 DEF Fits, Page, Rest, Drawn
<1> HIDE DEF q
<1> QED
    BY <1>2, <1>3, LoadNodeFits, LoadDocFits, HintFits DEF Maybe, Fits

(***************************************************************************)
(* The path mode                                                           *)
(***************************************************************************)
LEMMA AskFits ==
    ASSUME NEW p, Fits(p), NEW n \in Maybe(Nodes)
    PROVE  Fits(askPath(p, n)) /\ askPath(p, n).panel.kind = "path"
<1> DEFINE y == [p.path EXCEPT !.on = TRUE, !.from = n]
           r == [p EXCEPT !.path = y]
           h == Panel(r, "path", r.path.from)
           x == [h.path EXCEPT !.notice = IF r.path.from = None THEN "start" ELSE "end"]
<1>1. p.path \in Paths /\ p \in Page
    BY DEF Fits, Page
<1>2. y \in Paths /\ y.on /\ y.from = n /\ y.drawn = p.path.drawn
    BY <1>1 DEF Paths
<1>3. askPath(p, n) = Reveal([h EXCEPT !.path = x])
    BY DEF askPath, showPathHint
<1> HIDE DEF y
<1>4. /\ r \in Page /\ r.path = y /\ r.pop = p.pop /\ r.owner = p.owner /\ r.synth = p.synth
      /\ r.phone = p.phone /\ r.sheet = p.sheet
    BY <1>1, <1>2 DEF Page
<1> HIDE DEF r
<1> DEFINE z == [kind |-> "path", of |-> r.path.from, tools |-> FALSE, alone |-> FALSE]
<1>5. z \in Panels
    BY <1>2, <1>4 DEF Panels, Maybe
<1>6. h = [r EXCEPT !.panel = z] /\ z.kind = "path" /\ z.tools = FALSE
    BY DEF Panel
<1> HIDE DEF z, h
<1>7. /\ h \in Page /\ h.path = y /\ h.pop = p.pop /\ h.owner = p.owner /\ h.synth = p.synth
      /\ h.phone = p.phone /\ h.sheet = p.sheet /\ h.panel = z
    BY <1>4, <1>5, <1>6 DEF Page
<1>8. x \in Paths /\ x.on /\ x.from = n /\ x.drawn = p.path.drawn
      /\ x.notice = IF n = None THEN "start" ELSE "end"
    BY <1>2, <1>4, <1>7 DEF Paths
<1> HIDE DEF x
<1> DEFINE k == [h EXCEPT !.path = x]
<1>9. /\ k \in Page /\ k.path = x /\ k.pop = p.pop /\ k.owner = p.owner /\ k.synth = p.synth
      /\ k.phone = p.phone /\ k.sheet = p.sheet /\ k.panel = z
    BY <1>7, <1>8 DEF Page
<1> HIDE DEF k
<1>10. Fits(k)
    BY <1>6, <1>8, <1>9 DEF Fits, Rest, Drawn
<1> QED
    BY <1>3, <1>6, <1>9, <1>10, RevealFits DEF k

LEMMA NoPathFits ==
    ASSUME NEW p \in Page, Rest(p)
    PROVE  Fits(Hint([p EXCEPT !.path = NoPath]))
<1>1. NoPath \in Paths
    BY DEF NoPath, Paths, Maybe
<1>2. NoPath.notice = "" /\ ~NoPath.drawn /\ ~NoPath.on
    BY DEF NoPath
<1> QED
    BY <1>1, <1>2, PathFits, HintFits

LEMMA ClearPathFits == ASSUME NEW p \in Page, Rest(p) PROVE Fits(clearPath(p))
BY NoPathFits, RevealFits DEF clearPath

LEMMA ToggleFits == ASSUME NEW p, Fits(p) PROVE Fits(togglePathMode(p))
BY NoPathFits, AskFits DEF togglePathMode, Maybe, Fits

LEMMA ComputeFits ==
    ASSUME NEW p, Fits(p), p.path.on, NEW found \in BOOLEAN
    PROVE  Fits(computePath(p, found))
<1> DEFINE x == [p.path EXCEPT !.from = None, !.drawn = found, !.notice = ""]
<1>1. p.path \in Paths /\ p \in Page
    BY DEF Fits, Page
<1>2. x \in Paths /\ x.on /\ x.from = None /\ x.notice = ""
    BY <1>1 DEF Paths, Maybe
<1>3. computePath(p, found) = openDetailPane(Panel([p EXCEPT !.path = x], "found", None))
    BY DEF computePath
<1> HIDE DEF x
<1>4. Fits([p EXCEPT !.path = x])
    BY <1>1, <1>2, PathFits DEF Fits
<1> QED
    BY <1>3, <1>4, PanelFits, PaneFits DEF Maybe, Fits

(***************************************************************************)
(* The collected nodes, and home                                           *)
(***************************************************************************)
LEMMA CollectFits ==
    ASSUME NEW p, Fits(p), p.owner, NEW S \in SUBSET Nodes
    PROVE  Fits([p EXCEPT !.synth = S])
<1> DEFINE q == [p EXCEPT !.synth = S]
<1>1. q \in Page
    BY DEF Fits, Page
<1>2. /\ q.owner /\ q.phone = p.phone /\ q.sheet = p.sheet /\ q.panel = p.panel
      /\ q.node = p.node /\ q.isolated = p.isolated /\ q.path = p.path /\ q.pop = p.pop
    BY DEF Fits, Page
<1> HIDE DEF q
<1> QED
    BY <1>1, <1>2 DEF Fits, Rest, Drawn, q

LEMMA SynthFits ==
    ASSUME NEW p, Fits(p), p.owner, NEW n \in Nodes
    PROVE  Fits(toggleSynth(p, n))
<1> DEFINE S == IF n \in p.synth THEN p.synth \ {n} ELSE p.synth \cup {n}
<1>1. S \in SUBSET Nodes
    BY DEF Fits, Page
<1>2. toggleSynth(p, n) = [p EXCEPT !.synth = S]
    BY DEF toggleSynth
<1> HIDE DEF S
<1> QED
    BY <1>1, <1>2, CollectFits

LEMMA ResetFits == ASSUME NEW p, Fits(p) PROVE Fits(resetWorkspaceState(p))
<1> DEFINE c == closeDrawer(p)
           q == [c EXCEPT !.busy = FALSE, !.view = "graph", !.isolated = None]
           r == IF q.path.on THEN clearPath(q) ELSE q
           z == [r EXCEPT !.active = None, !.selected = None, !.reading = None, !.held = None]
<1>1. Fits(c)
    BY CloseFits
<1>2. resetWorkspaceState(p) = Hint(z)
    BY Zenon DEF resetWorkspaceState
<1> HIDE DEF c
<1>3. q \in Page
    BY <1>1, MaybeHolds DEF Fits, Page
<1>4. /\ q.owner = c.owner /\ q.synth = c.synth /\ q.path = c.path /\ q.pop = c.pop
      /\ q.phone = c.phone /\ q.sheet = c.sheet
    BY <1>1 DEF Fits, Page
<1> HIDE DEF q
<1>5. Rest(q)
    BY <1>1, <1>4 DEF Fits, Rest
<1>6. r \in Page /\ Rest(r)
    BY <1>3, <1>5, ClearPathFits DEF Fits
<1> HIDE DEF r
<1>7. z \in Page
    BY <1>6, MaybeHolds DEF Page
<1>8. /\ z.owner = r.owner /\ z.synth = r.synth /\ z.path = r.path /\ z.pop = r.pop
      /\ z.phone = r.phone /\ z.sheet = r.sheet
    BY <1>6 DEF Page
<1> HIDE DEF z
<1>9. Rest(z)
    BY <1>6, <1>8 DEF Rest
<1> QED
    BY <1>2, <1>7, <1>9, HintFits

(***************************************************************************)
(* What one does                                                           *)
(***************************************************************************)
LEMMA CountFits ==
    ASSUME NEW p, Fits(p), p.made < MaxCalls
    PROVE  Fits(Count(p)) /\ Count(p).owner = p.owner /\ Count(p).phone = p.phone
<1> p \in Page
    BY DEF Fits
<1>1. p.made + 1 \in 0..MaxCalls
    BY InspectorAssumption DEF Page
<1>2. [p EXCEPT !.made = p.made + 1] \in Page
    BY <1>1 DEF Page
<1>3. Count(p) = [p EXCEPT !.made = p.made + 1]
    BY DEF Count
<1> QED
    BY <1>2, <1>3, SameFits DEF Page

LEMMA PressedFits == ASSUME Fits(page) PROVE Fits(Pressed)
BY CloseFits DEF Pressed

LEMMA PathStep ==
    ASSUME Fits(page), NEW n \in Nodes, PickPathNode(n)
    PROVE  Fits(page')
<1> DEFINE p == hideNodePop(Pressed)
<1>1. Fits(p)
    BY PressedFits, HidePopFits
<1>2. p.path = page.path
    BY DEF Fits, Page, Pressed, closeDrawer, hideNodePop
<1>3. page.path.on
    BY DEF PickPathNode
<1>4. IF p.path.from = None THEN page' = askPath(p, n)
      ELSE \E found \in BOOLEAN : page' = computePath(p, found)
    BY Zenon DEF PickPathNode
<1> HIDE DEF p
<1> QED
    BY <1>1, <1>2, <1>3, <1>4, AskFits, ComputeFits DEF Maybe

LEMMA PressStep ==
    ASSUME Fits(page), NEW n \in Nodes, ClickToCollect(n) \/ ClickNode(n) \/ RemoveChip(n)
    PROVE  Fits(page')
<1>1. CASE ClickToCollect(n)
    <2>1. Fits(hideNodePop(Pressed))
        BY PressedFits, HidePopFits
    <2>2. hideNodePop(Pressed).owner
        BY <1>1 DEF ClickToCollect, canWrite, Fits, Page, Pressed, closeDrawer, hideNodePop
    <2> QED
        BY <1>1, <2>1, <2>2, SynthFits DEF ClickToCollect
<1>2. CASE ClickNode(n)
    <2> DEFINE p == Count(Pressed)
               s == [p EXCEPT !.selected = n]
    <2>1. Fits(Pressed) /\ Pressed.made < MaxCalls
        BY <1>2, PressedFits DEF ClickNode, Room, Fits, Page, Pressed, closeDrawer, hideNodePop
    <2>2. Fits(p)
        BY <2>1, CountFits
    <2>3. page' = IF ~p.phone THEN openDetailPane(loadNode(hideNodePop(s), n, TRUE))
                  ELSE IF p.selected = n /\ p.pop.req # None THEN openDetailPane(p)
                  ELSE showNodePop(loadNode(s, n, FALSE), n)
        BY <1>2, Zenon DEF ClickNode
    <2> HIDE DEF p
    <2>4. Fits(s)
        BY <2>2, FreeFits DEF Maybe
    <2> QED
        BY <2>2, <2>3, <2>4, PaneFits, LoadNodeFits, HidePopFits, ShowPopFits
<1>3. CASE RemoveChip(n)
    BY <1>3, SynthFits DEF RemoveChip, canWrite
<1> QED
    BY <1>1, <1>2, <1>3

LEMMA NodeStep ==
    ASSUME Fits(page), NEW n \in Nodes, Hover(n) \/ FollowNeighbour(n) \/ focusNode(n)
    PROVE  Fits(page')
<1>1. CASE Hover(n)
    BY <1>1, FreeFits DEF Hover, Maybe
<1>2. CASE FollowNeighbour(n)
    BY <1>2, CountFits, LoadNodeFits DEF FollowNeighbour, Room
<1>3. CASE focusNode(n)
    <2> DEFINE s == [page EXCEPT !.selected = n]
    <2>a. Fits(s)
        BY FreeFits DEF Maybe
    <2>b. s.made = page.made
        BY DEF Fits, Page
    <2>1. Fits(s) /\ s.made < MaxCalls
        BY <1>3, <2>a, <2>b DEF focusNode, Room
    <2>2. page' = Reveal(loadNode(Count(s), n, TRUE))
        BY <1>3, Zenon DEF focusNode
    <2> HIDE DEF s
    <2> QED
        BY <2>1, <2>2, CountFits, LoadNodeFits, RevealFits
<1> QED
    BY <1>1, <1>2, <1>3

LEMMA DocumentStep ==
    ASSUME Fits(page), NEW d \in Maybe(Docs),
           \/ d \in Docs /\ (OpenReader(d) \/ OpenDocGraph(d) \/ ShowReader(d))
           \/ chooseGraphDoc(d)
    PROVE  Fits(page')
<1>1. CASE d \in Docs /\ OpenReader(d)
    BY <1>1, CountFits, OpenFits DEF OpenReader, Room
<1>2. CASE d \in Docs /\ OpenDocGraph(d)
    BY <1>2, CountFits, OpenGraphFits DEF OpenDocGraph, Room
<1>3. CASE d \in Docs /\ ShowReader(d)
    BY <1>3, CountFits, OpenFits, FreeFits DEF ShowReader, Room, Maybe
<1>4. CASE chooseGraphDoc(d)
    BY <1>4, CountFits, ActiveFits DEF chooseGraphDoc, Room
<1> QED
    BY <1>1, <1>2, <1>3, <1>4

LEMMA NodePanel ==
    ASSUME Fits(page), page.panel.kind = "node"
    PROVE  page.panel.of = page.node /\ page.panel.of \in Nodes
<1>1. page.panel.of = page.node /\ page.node # None
    BY DEF Fits, Drawn
<1>2. page.node \in Maybe(Nodes)
    BY DEF Fits, Page
<1> QED
    BY <1>1, <1>2 DEF Maybe

LEMMA ViewStep ==
    ASSUME Fits(page),
           ClickBeside \/ Escape \/ ToggleDrawer \/ Leave \/ ShowGraph \/ Isolate
           \/ TogglePath \/ AnotherPath \/ ClearPath \/ Purged \/ Home
    PROVE  Fits(page')
<1>1. CASE ClickBeside
    BY <1>1, PressedFits, HidePopFits, UnselectFits DEF ClickBeside
<1>2. CASE Escape
    BY <1>2, CloseFits, UnselectFits DEF Escape
<1>3. CASE ToggleDrawer
    BY <1>3, CloseFits, PaneFits DEF ToggleDrawer
<1>4. CASE Leave
    BY <1>4, HidePopFits DEF Leave
<1>5. CASE ShowGraph
    BY <1>5, FreeFits DEF ShowGraph, Maybe
<1>6. CASE Isolate
    BY <1>6, NodePanel, IsolationFits DEF Isolate
<1>7. CASE TogglePath
    BY <1>7, ToggleFits DEF TogglePath
<1>8. CASE AnotherPath
    BY <1>8, AskFits DEF AnotherPath, restartPath, Maybe
<1>9. CASE ClearPath
    BY <1>9, ClearPathFits DEF ClearPath, Fits
<1>10. CASE Purged
    BY <1>10, HoldFits DEF Purged, Maybe
<1>11. CASE Home
    BY <1>11, ResetFits DEF Home
<1> QED
    BY <1>1, <1>2, <1>3, <1>4, <1>5, <1>6, <1>7, <1>8, <1>9, <1>10, <1>11

LEMMA WorkStep ==
    ASSUME Fits(page),
           \/ BackToDocument \/ BackToNode \/ addToSynth \/ synth \/ doResearch
           \/ promoteEntityAlias \/ HoverFires \/ PollFindsChange
    PROVE  Fits(page')
<1>0. /\ page.active \in Maybe(Docs) /\ page.selected \in Maybe(Nodes) /\ page.hover \in Maybe(Nodes)
      /\ page.synth \in SUBSET Nodes
      /\ page \in Page /\ Rest(page)
    BY DEF Fits, Page
<1>c. ASSUME Room PROVE Fits(Count(page)) /\ Count(page).owner = page.owner
    BY <1>c, CountFits DEF Room
<1>1. CASE BackToDocument
    BY <1>0, <1>1, LoadDocFits DEF BackToDocument, Maybe
<1>2. CASE BackToNode
    BY <1>2, LoadNodeFits DEF BackToNode
<1>3. CASE addToSynth
    <2> DEFINE n == page.panel.of
               c == [page EXCEPT !.synth = @ \cup {n}]
    <2>1. n \in Nodes /\ page.owner /\ Room
        BY <1>3, NodePanel DEF addToSynth, canWrite
    <2>2. Fits(c) /\ c.made = page.made
        <3>1. page.synth \cup {n} \in SUBSET Nodes
            BY <1>0, <2>1
        <3>2. c = [page EXCEPT !.synth = page.synth \cup {n}]
            OBVIOUS
        <3>3. c.made = page.made
            BY <1>0 DEF Page
        <3> QED BY <2>1, <3>1, <3>2, <3>3, CollectFits
    <2>3. page' = IF n = page.selected THEN loadNode(Count(c), n, TRUE) ELSE Count(c)
        <3>1. Count(c).selected = page.selected
            BY <1>0, <2>2 DEF Count, Page
        <3>2. page' = IF n = Count(c).selected THEN loadNode(Count(c), n, TRUE) ELSE Count(c)
            BY <1>3 DEF addToSynth
        <3> QED BY <3>1, <3>2
    <2>4. Fits(Count(c))
        BY <2>1, <2>2, CountFits DEF Room
    <2> HIDE DEF c
    <2> QED BY <2>1, <2>3, <2>4, LoadNodeFits
<1>4. CASE synth
    <2>1. Fits(Panel(Count(page), "work", None))
        BY <1>4, <1>c, PanelFits DEF synth, Fits, Maybe
    <2> QED BY <1>4, <2>1, PaneFits, SendFits, Requests DEF synth
<1>5. CASE doResearch
    <2>1. Fits(Panel(Count(page), "work", None))
        BY <1>5, <1>c, PanelFits DEF doResearch, Fits, Maybe
    <2> DEFINE of == IF page.selected # None THEN page.selected ELSE page.active
    <2>2. [kind |-> "research", of |-> of] \in Request
        BY <1>0, <1>5, Requests DEF doResearch, Maybe
    <2>3. page' = Send(openDetailPane(Panel(Count(page), "work", None)), "research", of)
        BY <1>5 DEF doResearch
    <2> HIDE DEF of
    <2> QED BY <2>1, <2>2, <2>3, PaneFits, SendFits
<1>6. CASE promoteEntityAlias
    BY <1>6, <1>c, NodePanel, SendFits, Requests DEF promoteEntityAlias
<1>7. CASE HoverFires
    <2> DEFINE h == [page EXCEPT !.hover = None]
    <2>1. Fits(h) /\ h.made = page.made
        BY <1>0, FreeFits DEF Maybe, Page
    <2>2. Fits(Count(h))
        BY <1>7, <2>1, CountFits DEF HoverFires, Room
    <2> QED BY <1>0, <1>7, <2>2, ShowPopFits DEF HoverFires, Maybe
<1>8. CASE PollFindsChange
    BY <1>0, <1>8, <1>c, SendFits, Requests DEF PollFindsChange, Maybe
<1> QED
    BY <1>1, <1>2, <1>3, <1>4, <1>5, <1>6, <1>7, <1>8

LEMMA UserFits == ASSUME Fits(page), User PROVE Fits(page')
BY PathStep, PressStep, NodeStep, DocumentStep, ViewStep, WorkStep DEF User, Maybe

(***************************************************************************)
(* Answers                                                                 *)
(***************************************************************************)
LEMMA TakenFits ==
    ASSUME Fits(page), NEW kind, NEW of
    PROVE  Fits(Taken(kind, of))
<1> DEFINE r == [kind |-> kind, of |-> of]
           b == BagRemove(page.calls, r)
<1>1. page \in Page /\ page.calls \in Calls
    BY DEF Fits, Page
<1>2. b \in Calls
    <2>1. PICK S \in SUBSET Request : page.calls \in [S -> Nat \ {0}]
        BY <1>1 DEF Calls
    <2> HIDE DEF r
    <2>2. CASE r \in S /\ page.calls[r] = 1
        <3>1. b \in [S \ {r} -> Nat \ {0}]
            BY <2>1, <2>2 DEF BagRemove
        <3> QED BY <3>1 DEF Calls
    <2>3. CASE r \in S /\ page.calls[r] # 1
        <3>1. b \in [S -> Nat \ {0}]
            BY <2>1, <2>3 DEF BagRemove
        <3> QED BY <3>1 DEF Calls
    <2>4. CASE r \notin S
        <3>1. b = page.calls
            BY <2>1, <2>4 DEF BagRemove
        <3> QED BY <1>1, <3>1
    <2> QED BY <2>2, <2>3, <2>4
<1>3. Taken(kind, of) = [page EXCEPT !.calls = b]
    BY DEF Taken
<1> HIDE DEF b
<1>4. [page EXCEPT !.calls = b] \in Page
    BY <1>1, <1>2 DEF Page
<1> QED
    BY <1>1, <1>3, <1>4, SameFits DEF Page

LEMMA PopAnswerFits ==
    ASSUME Fits(page), NEW n \in Nodes, PopAnswered(n)
    PROVE  Fits(page')
<1> DEFINE p == Taken("pop", n)
           x == [p.pop EXCEPT !.of = n, !.level = 1]
           y == [x EXCEPT !.timer = n, !.stray = p.pop.stray \cup ({p.pop.timer} \ {None})]
           more == [p EXCEPT !.pop = [@ EXCEPT !.of = n, !.level = 1]]
           timed == [more EXCEPT !.pop = [@ EXCEPT !.timer = n,
                                                   !.stray = p.pop.stray \cup ({p.pop.timer} \ {None})]]
<1>1. Fits(p)
    BY TakenFits
<1>2. page' \in IF canShowNodePop(p) /\ p.pop.req = n THEN {more, timed, p} ELSE {p}
    BY Zenon DEF PopAnswered
<1> HIDE DEF p
<1>3. p.pop \in Pops /\ p \in Page
    BY <1>1 DEF Fits, Page
<1>6. more = [p EXCEPT !.pop = x] /\ more.pop = x
    BY <1>3 DEF Page
<1>7. timed = [more EXCEPT !.pop = y]
    <2> HIDE DEF more, x
    <2> QED BY <1>6
<1>4. x \in Pops /\ x.req = p.pop.req /\ x.of = n
    <2>1. n \in Maybe(Nodes) /\ 1 \in 0..2
        BY DEF Maybe
    <2> QED BY <1>3, <2>1 DEF Pops
<1>8. y \in Pops /\ y.req = x.req /\ y.of = x.of
    <2> HIDE DEF x
    <2>1. n \in Maybe(Nodes) /\ ({p.pop.timer} \ {None}) \in SUBSET Nodes
        BY <1>3 DEF Pops, Maybe
    <2>2. p.pop.stray \cup ({p.pop.timer} \ {None}) \in SUBSET Nodes
        BY <1>3, <2>1 DEF Pops
    <2> QED BY <1>4, <2>1, <2>2 DEF Pops
<1> HIDE DEF x, y, more, timed
<1>5. ASSUME canShowNodePop(p), p.pop.req = n
      PROVE  Fits(more) /\ Fits(timed)
    <2>1. Fits(more) /\ more.phone = p.phone /\ more.sheet = p.sheet
        <3>1. Fits(more)
            BY <1>1, <1>4, <1>5, <1>6, PopFits DEF canShowNodePop
        <3>2. more.phone = p.phone /\ more.sheet = p.sheet
            BY <1>3, <1>6 DEF Page
        <3> QED BY <3>1, <3>2
    <2>2. ~(more.phone /\ more.sheet)
        BY <1>5, <2>1 DEF canShowNodePop
    <2> QED
        BY <1>4, <1>5, <1>7, <1>8, <2>1, <2>2, PopFits
<1> QED
    BY <1>1, <1>2, <1>5

LEMMA ExpandFits ==
    ASSUME Fits(page), NEW n \in Nodes, PopExpands(n)
    PROVE  Fits(page')
<1> DEFINE x == [page.pop EXCEPT !.timer = None]
           y == [page.pop EXCEPT !.stray = page.pop.stray \ {n}]
           p == IF n = page.pop.timer THEN [page EXCEPT !.pop = [@ EXCEPT !.timer = None]]
                ELSE [page EXCEPT !.pop = [@ EXCEPT !.stray = page.pop.stray \ {n}]]
           z == [p.pop EXCEPT !.of = n, !.level = 2]
<1>a. page' = IF canShowNodePop(p) /\ p.pop.req = n
              THEN [p EXCEPT !.pop = [@ EXCEPT !.of = n, !.level = 2]] ELSE p
    BY Zenon DEF PopExpands
<1>1. page' = IF canShowNodePop(p) /\ p.pop.req = n THEN [p EXCEPT !.pop = z] ELSE p
    <2> HIDE DEF p
    <2> QED BY <1>a
<1>b. p = IF n = page.pop.timer THEN [page EXCEPT !.pop = x] ELSE [page EXCEPT !.pop = y]
    OBVIOUS
<1> HIDE DEF p
<1>2. page.pop \in Pops /\ page \in Page
    BY DEF Fits, Page
<1>3. /\ x \in Pops /\ x.req = page.pop.req /\ x.of = page.pop.of
      /\ y \in Pops /\ y.req = page.pop.req /\ y.of = page.pop.of
    <2>1. None \in Maybe(Nodes)
        BY DEF Maybe
    <2> QED BY <1>2, <2>1 DEF Pops
<1> HIDE DEF x, y
<1>4. page.pop.req # None => page.pop.of = page.pop.req /\ ~(page.phone /\ page.sheet)
    BY DEF Fits, Rest
<1>5. Fits(p)
    BY <1>b, <1>3, <1>4, PopFits
<1>6. p.pop \in Pops
    BY <1>5 DEF Fits, Page
<1>7. z \in Pops /\ z.req = p.pop.req /\ z.of = n
    <2>1. n \in Maybe(Nodes) /\ 2 \in 0..2
        BY DEF Maybe
    <2> QED BY <1>6, <2>1 DEF Pops
<1> HIDE DEF z
<1> QED
    BY <1>1, <1>5, <1>7, PopFits DEF canShowNodePop

LEMMA AnswerFits == ASSUME Fits(page), Answered PROVE Fits(page')
<1>1. ASSUME NEW n \in Nodes, NodeAnswered(n) PROVE Fits(page')
    <2>1. Fits(Taken("node", n))
        BY TakenFits
    <2> QED BY <1>1, <2>1, RenderFits, HintFits DEF NodeAnswered, Fits
<1>2. ASSUME NEW n \in Nodes, PromoteAnswered(n) PROVE Fits(page')
    <2>1. Fits(Taken("promote", n))
        BY TakenFits
    <2> QED BY <1>2, <2>1, RenderFits, ExpiredFits DEF PromoteAnswered, Fits
<1>3. ASSUME NEW d \in Docs, ReadAnswered(d) PROVE Fits(page')
    <2>1. Fits(renderReader(Taken("read", d), d))
        BY TakenFits, ReaderFits
    <2> QED BY <1>3, <2>1, DocPanelFits, SeenFits DEF ReadAnswered
<1>4. ASSUME NEW d \in Docs, ReadFails(d) PROVE Fits(page')
    <2> DEFINE p == [Taken("read", d) EXCEPT !.busy = FALSE]
    <2>1. Fits(p)
        BY TakenFits, FreeFits DEF Maybe
    <2>2. page' = IF p.active = d THEN Hint(p) ELSE p
        BY <1>4 DEF ReadFails
    <2> HIDE DEF p
    <2> QED BY <2>1, <2>2, HintFits DEF Fits
<1>5. ASSUME NEW d \in Docs, DocAnswered(d) PROVE Fits(page')
    <2>1. Fits(Taken("doc", d))
        BY TakenFits
    <2> QED BY <1>5, <2>1, HintFits, DocPanelFits, SeenFits DEF DocAnswered, Fits
<1>6. ASSUME NEW d \in Docs, PollAnswered(d) PROVE Fits(page')
    BY <1>6, TakenFits, DocPanelFits DEF PollAnswered
<1>7. ASSUME NEW d \in Docs, SeenAnswered(d) PROVE Fits(page')
    BY <1>7, TakenFits, ExpiredFits DEF SeenAnswered
<1>8. ASSUME NEW of \in Maybe(Docs \cup Nodes), NEW kind \in {"synth", "research"},
             WorkAnswered(kind, of)
      PROVE  Fits(page')
    <2>1. Fits(Taken(kind, of)) /\ Fits(expireWriteAccess(Taken(kind, of)))
        BY TakenFits, ExpiredFits
    <2> QED BY <1>8, <2>1, PanelFits, HintFits DEF WorkAnswered, Fits
<1> QED
    BY <1>1, <1>2, <1>3, <1>4, <1>5, <1>6, <1>7, <1>8, PopAnswerFits DEF Answered

LEMMA InitFits == Init => Fits(page)
<1> SUFFICES ASSUME Init PROVE Fits(page)
    OBVIOUS
<1> DEFINE panel == [kind |-> "hint", of |-> None, tools |-> FALSE, alone |-> FALSE]
           pop == [req |-> None, of |-> None, level |-> 0, timer |-> None, stray |-> {}]
<1>1. EmptyBag \in Calls
    <2>1. EmptyBag \in [{} -> Nat \ {0}]
        BY DEF EmptyBag, SetToBag
    <2> QED BY <2>1 DEF Calls
<1>2. NoPath \in Paths /\ NoPath.notice = "" /\ ~NoPath.on /\ ~NoPath.drawn
    BY DEF NoPath, Paths, Maybe
<1>3. panel \in Panels /\ panel.kind = "hint" /\ ~panel.tools
    BY DEF Panels, Maybe
<1>4. pop \in Pops /\ pop.req = None
    BY MaybeHolds DEF Pops
<1>5. PICK o \in BOOLEAN, ph \in BOOLEAN :
        page = [owner |-> o, phone |-> ph, view |-> "graph",
                active |-> None, reading |-> None, held |-> None, busy |-> FALSE,
                selected |-> None, isolated |-> None, node |-> None,
                panel |-> panel, sheet |-> FALSE, hover |-> None, pop |-> pop,
                synth |-> {}, path |-> NoPath, calls |-> EmptyBag, made |-> 0]
    BY Zenon DEF Init
<1> HIDE DEF panel, pop
<1>6. None \in Maybe(Docs) /\ None \in Maybe(Nodes) /\ 0 \in 0..MaxCalls
    BY InspectorAssumption DEF Maybe
<1>7. page \in Page
    BY <1>1, <1>2, <1>3, <1>4, <1>5, <1>6 DEF Page
<1>8. Rest(page) /\ Drawn(page)
    BY <1>2, <1>3, <1>4, <1>5 DEF Rest, Drawn
<1> QED
    BY <1>7, <1>8 DEF Fits

(***************************************************************************)
(* Every reachable page fits: it has its type, and its controls and its    *)
(* popup say what holds.                                                   *)
(***************************************************************************)
THEOREM PageFits == Spec => []Fits(page)
<1>1. Fits(page) /\ [Next]_page => Fits(page)'
    <2> SUFFICES ASSUME Fits(page), [Next]_page PROVE Fits(page')
        OBVIOUS
    <2>1. CASE UNCHANGED page
        BY <2>1
    <2>2. CASE Next
        BY <2>2, UserFits, AnswerFits, ExpandFits, WorkStep DEF Next
    <2> QED BY <2>1, <2>2
<1> QED
    BY <1>1, InitFits, PTL DEF Spec

LEMMA FitsTyped == Fits(page) => TypeOK
<1> SUFFICES ASSUME Fits(page) PROVE TypeOK
    OBVIOUS
<1>1. page \in Page
    BY DEF Fits
<1>2. PICK S \in SUBSET Request : page.calls \in [S -> Nat \ {0}]
    BY <1>1 DEF Page, Calls
<1>3. IsABag(page.calls) /\ BagToSet(page.calls) \subseteq Request
    BY <1>2 DEF IsABag, BagToSet
<1> QED
    BY <1>1, <1>3 DEF TypeOK, Page, Panels, Pops, Paths

\* The types of the page, for any documents, nodes and number of calls.
THEOREM TypeCorrect == Spec => []TypeOK
BY PageFits, FitsTyped, PTL

\* Buttons, collected nodes, the mark of the isolated view and the notice of the
\* path mode say what the page's state allows.
THEOREM ControlsAreTrue == Spec => []ControlsTrue
<1>1. Fits(page) => ControlsTrue
    BY DEF Fits, Rest, Drawn, ControlsTrue, canWrite
<1> QED
    BY <1>1, PageFits, PTL

\* An open popup shows the node it was opened for.
THEOREM PopupsAreOwn == Spec => []PopupIsOwn
<1>1. Fits(page) => PopupIsOwn
    BY DEF Fits, Rest, PopupIsOwn, canShowNodePop
<1> QED
    BY <1>1, PageFits, PTL

(***************************************************************************)
(* A document's panel is drawn for the active document only                *)
(***************************************************************************)

\* What a step may make of the panel: it is as it was, or shows no document, or
\* the active one.
Kept(p) == p.panel = page.panel \/ (p.panel.kind = "doc" => p.panel.of = p.active)

LEMMA StillKept ==
    ASSUME NEW p, NEW q, Kept(p), q.panel = p.panel, q.active = p.active
    PROVE  Kept(q)
BY DEF Kept

LEMMA SendKept ==
    ASSUME NEW p, Fits(p), Kept(p), NEW kind, NEW of
    PROVE  Kept(Send(p, kind, of)) /\ Send(p, kind, of).active = p.active
<1> DEFINE b == BagAdd(p.calls, [kind |-> kind, of |-> of])
<1>1. Send(p, kind, of) = [p EXCEPT !.calls = b]
    BY DEF Send
<1> HIDE DEF b
<1>2. [p EXCEPT !.calls = b].panel = p.panel /\ [p EXCEPT !.calls = b].active = p.active
    BY DEF Fits, Page
<1> QED
    BY <1>1, <1>2, StillKept

\* Fields that are not the panel and not the active document.
LEMMA FreeKept ==
    ASSUME NEW p, Fits(p), Kept(p), NEW x
    PROVE  /\ Kept([p EXCEPT !.selected = x]) /\ Kept([p EXCEPT !.busy = x])
           /\ Kept([p EXCEPT !.view = x]) /\ Kept([p EXCEPT !.hover = x])
           /\ Kept([p EXCEPT !.synth = x]) /\ Kept([p EXCEPT !.pop = x])
           /\ Kept([p EXCEPT !.sheet = x]) /\ Kept([p EXCEPT !.calls = x])
           /\ Kept([p EXCEPT !.made = x])
<1> p \in Page
    BY DEF Fits
<1>1. Kept([p EXCEPT !.selected = x])
    BY StillKept DEF Page
<1>2. Kept([p EXCEPT !.busy = x])
    BY StillKept DEF Page
<1>3. Kept([p EXCEPT !.view = x])
    BY StillKept DEF Page
<1>4. Kept([p EXCEPT !.hover = x])
    BY StillKept DEF Page
<1>5. Kept([p EXCEPT !.synth = x])
    BY StillKept DEF Page
<1>6. Kept([p EXCEPT !.pop = x])
    BY StillKept DEF Page
<1>7. Kept([p EXCEPT !.sheet = x])
    BY StillKept DEF Page
<1>8. Kept([p EXCEPT !.calls = x])
    BY StillKept DEF Page
<1>9. Kept([p EXCEPT !.made = x])
    BY StillKept DEF Page
<1> QED
    BY <1>1, <1>2, <1>3, <1>4, <1>5, <1>6, <1>7, <1>8, <1>9

LEMMA PanelKept ==
    ASSUME NEW p \in Page, NEW kind, kind # "doc", NEW of
    PROVE  Kept(Panel(p, kind, of))
<1> DEFINE x == [kind |-> kind, of |-> of, tools |-> FALSE, alone |-> FALSE]
<1>1. x.kind # "doc"
    OBVIOUS
<1>2. Panel(p, kind, of) = [p EXCEPT !.panel = x]
    BY DEF Panel
<1> HIDE DEF x
<1>3. [p EXCEPT !.panel = x].panel = x
    BY DEF Page
<1> QED
    BY <1>1, <1>2, <1>3 DEF Kept

LEMMA HintKept == ASSUME NEW p \in Page PROVE Kept(Hint(p))
BY PanelKept DEF Hint

LEMMA HidePopKept ==
    ASSUME NEW p, Fits(p), Kept(p)
    PROVE  /\ Kept(hideNodePop(p)) /\ Fits(hideNodePop(p))
           /\ hideNodePop(p).active = p.active
<1> DEFINE x == [p.pop EXCEPT !.req = None, !.timer = None]
           q == [p EXCEPT !.hover = None, !.pop = x]
<1>1. hideNodePop(p) = q
    BY DEF hideNodePop
<1> HIDE DEF x
<1>2. q.panel = p.panel /\ q.active = p.active
    BY DEF Fits, Page
<1> HIDE DEF q
<1> QED
    BY <1>1, <1>2, StillKept, HidePopFits

LEMMA DrawerKept ==
    ASSUME NEW p, Fits(p), Kept(p)
    PROVE  Kept(closeDrawer(p)) /\ Kept(openDetailPane(p)) /\ Kept(Reveal(p))
<1>1. Kept(closeDrawer(p)) /\ Kept(openDetailPane(p))
    BY HidePopKept, FreeKept DEF closeDrawer, openDetailPane
<1>2. Kept(Reveal(p))
    BY <1>1, CloseFits, FreeKept DEF Reveal
<1> QED
    BY <1>1, <1>2

LEMMA NodeKept ==
    ASSUME NEW p, Fits(p), Kept(p), NEW n \in Nodes, NEW hide \in BOOLEAN
    PROVE  Kept(loadNode(p, n, hide)) /\ Kept(showNodePop(p, n))
<1>1. Kept(loadNode(p, n, hide))
    BY HidePopKept, SendKept DEF loadNode
<1> DEFINE x == [p.pop EXCEPT !.req = n, !.of = n, !.level = 0, !.timer = None]
           q == [p EXCEPT !.pop = x]
<1>2. CASE canShowNodePop(p)
    <2>1. showNodePop(p, n) = [q EXCEPT !.calls = BagAdd(q.calls, [kind |-> "pop", of |-> n])]
        BY <1>2 DEF showNodePop, Send
    <2> HIDE DEF x
    <2>2. Kept(q) /\ q.panel = p.panel /\ q.active = p.active /\ DOMAIN q = DOMAIN p
        BY FreeKept DEF Fits, Page
    <2> DEFINE b == BagAdd(q.calls, [kind |-> "pop", of |-> n])
    <2>3. [q EXCEPT !.calls = b].panel = q.panel /\ [q EXCEPT !.calls = b].active = q.active
        <3> HIDE DEF b
        <3>1. p \in Page
            BY DEF Fits
        <3> QED BY <3>1 DEF Page
    <2> HIDE DEF q, b
    <2> QED
        BY <1>1, <2>1, <2>2, <2>3, StillKept DEF b
<1> QED
    BY <1>1, <1>2, HidePopKept DEF showNodePop

LEMMA RenderKept == ASSUME NEW p \in Page, NEW n PROVE Kept(renderPanel(p, n))
<1> DEFINE x == [kind |-> "node", of |-> n, tools |-> p.owner, alone |-> p.isolated = n]
<1>1. x.kind = "node"
    OBVIOUS
<1>2. renderPanel(p, n) = [p EXCEPT !.node = n, !.panel = x]
    BY Zenon DEF renderPanel, canWrite
<1> HIDE DEF x
<1>3. [p EXCEPT !.node = n, !.panel = x].panel = x
    BY DEF Page
<1> QED
    BY <1>1, <1>2, <1>3 DEF Kept

LEMMA DocPanelKept ==
    ASSUME NEW p, Fits(p), NEW d \in Docs
    PROVE  /\ renderDocPanel(p, d).active = p.active
           /\ p.active = d => Kept(renderDocPanel(p, d))
<1> DEFINE x == [kind |-> "doc", of |-> d, tools |-> p.owner, alone |-> FALSE]
           q == [p EXCEPT !.held = d, !.panel = x]
<1>1. x.of = d
    OBVIOUS
<1>2. renderDocPanel(p, d) = q
    BY Zenon DEF renderDocPanel, canWrite
<1> HIDE DEF x
<1>3. q.panel = x /\ q.active = p.active
    BY DEF Fits, Page
<1> HIDE DEF q
<1> QED
    BY <1>1, <1>2, <1>3 DEF Kept

LEMMA SeenKept ==
    ASSUME NEW p, Fits(p), Kept(p), NEW d \in Docs
    PROVE  Kept(markDocumentSeen(p, d))
BY SendKept DEF markDocumentSeen

LEMMA LoadDocKept ==
    ASSUME NEW p, Fits(p), NEW d \in Docs, p.active = d
    PROVE  Kept(loadDocPanel(p, d))
<1>1. Kept(Panel(p, "loading", d)) /\ Fits(Panel(p, "loading", d))
    BY PanelKept, PanelFits DEF Fits, Maybe
<1> QED
    BY <1>1, DocPanelKept, DocPanelFits, SeenKept, SendKept DEF loadDocPanel

LEMMA IsolationKept ==
    ASSUME NEW p, Fits(p), Kept(p), NEW n \in Nodes
    PROVE  Kept(toggleNodeIsolation(p, n))
<1> DEFINE a == [p EXCEPT !.isolated = None]
           b == [p EXCEPT !.isolated = n, !.selected = n]
           q == IF p.isolated = n THEN a ELSE b
<1>1. a \in Page /\ b \in Page
    BY MaybeHolds DEF Fits, Page
<1>2. a.panel = p.panel /\ a.active = p.active /\ b.panel = p.panel /\ b.active = p.active
    BY DEF Fits, Page
<1>3. toggleNodeIsolation(p, n) = IF q.node = n THEN renderPanel(q, n) ELSE q
    BY Zenon DEF toggleNodeIsolation
<1> HIDE DEF a, b
<1>4. q \in Page /\ q.panel = p.panel /\ q.active = p.active
    BY <1>1, <1>2
<1> HIDE DEF q
<1> QED
    BY <1>3, <1>4, RenderKept, StillKept

LEMMA UnselectKept == ASSUME NEW p, Fits(p), Kept(p) PROVE Kept(Unselect(p))
<1> DEFINE q == [p EXCEPT !.selected = None, !.isolated = None]
<1>1. q \in Page
    BY MaybeHolds DEF Fits, Page
<1>2. q.panel = p.panel /\ q.active = p.active
    BY DEF Fits, Page
<1>3. Unselect(p) = IF p.isolated # None /\ p.node # None THEN renderPanel(q, p.node) ELSE q
    BY Zenon DEF Unselect
<1> HIDE DEF q
<1> QED
    BY <1>1, <1>2, <1>3, RenderKept, StillKept

LEMMA ActiveKept ==
    ASSUME NEW p, Fits(p), NEW d \in Maybe(Docs)
    PROVE  Kept(setActiveDoc(p, d))
<1> DEFINE a == [p EXCEPT !.active = None, !.selected = None]
           b == [p EXCEPT !.active = d, !.reading = d, !.selected = None]
<1>1. Fits(a)
    BY LookFits DEF Maybe
<1>2. d \in Docs => Fits(b)
    BY LookFits DEF Maybe
<1>3. b.active = d
    BY DEF Fits, Page
<1>4. setActiveDoc(p, d) = IF d = None THEN Hint(a) ELSE loadDocPanel(b, d)
    BY Zenon DEF setActiveDoc
<1> HIDE DEF a, b
<1> QED
    BY <1>1, <1>2, <1>3, <1>4, HintKept, LoadDocKept DEF Maybe, Fits

LEMMA OpenKept == ASSUME NEW p, Fits(p), NEW d \in Docs PROVE Kept(openReader(p, d))
<1> DEFINE h == IF p.sheet /\ p.phone THEN closeDrawer(p) ELSE hideNodePop(p)
           q == [h EXCEPT !.reading = d, !.active = d, !.selected = None, !.busy = TRUE, !.view = "reader"]
<1>1. Fits(h)
    BY CloseFits, HidePopFits
<1>2. openReader(p, d) = Send(Panel(q, "loading", d), "read", d)
    BY Zenon DEF openReader
<1> HIDE DEF h
<1>3. q \in Page
    BY <1>1, MaybeHolds DEF Fits, Page
<1>4. /\ q.owner = h.owner /\ q.phone = h.phone /\ q.sheet = h.sheet /\ q.synth = h.synth
      /\ q.path = h.path /\ q.pop = h.pop
    BY <1>1 DEF Fits, Page
<1> HIDE DEF q
<1>5. Rest(q)
    BY <1>1, <1>4 DEF Fits, Rest
<1>6. Kept(Panel(q, "loading", d)) /\ Fits(Panel(q, "loading", d))
    BY <1>3, <1>5, PanelKept, PanelFits DEF Maybe
<1> QED
    BY <1>2, <1>6, SendKept

LEMMA OpenGraphKept == ASSUME NEW p, Fits(p), NEW d \in Docs PROVE Kept(openDocGraph(p, d))
<1>1. Fits(setActiveDoc(Reveal(p), d)) /\ Kept(setActiveDoc(Reveal(p), d))
    BY RevealFits, ActiveFits, ActiveKept DEF Maybe
<1> QED
    BY <1>1, FreeKept DEF openDocGraph

LEMMA ExpiredKept == ASSUME NEW p, Fits(p) PROVE Kept(expireWriteAccess(p))
<1> DEFINE h == Hint(p)
           q == [h EXCEPT !.owner = FALSE, !.synth = {}]
<1>1. Fits(h) /\ h.panel.tools = FALSE /\ h.panel.kind = "hint"
    BY HintFits DEF Hint, Panel, Fits, Page
<1>2. expireWriteAccess(p) = IF q.selected # None THEN loadNode(q, q.selected, TRUE)
                             ELSE IF q.active # None THEN loadDocPanel(q, q.active)
                             ELSE Hint(q)
    <2> DEFINE r == [h EXCEPT !.owner = FALSE, !.synth = IF FALSE THEN @ ELSE {}]
    <2>1. r = q
        OBVIOUS
    <2>2. expireWriteAccess(p) = IF r.selected # None THEN loadNode(r, r.selected, TRUE)
                                 ELSE IF r.active # None THEN loadDocPanel(r, r.active)
                                 ELSE Hint(r)
        BY Zenon DEF expireWriteAccess, setAccessScope
    <2> QED BY <2>1, <2>2, Zenon
<1> HIDE DEF h
<1>3. Fits(q) /\ q.selected \in Maybe(Nodes) /\ q.active \in Maybe(Docs) /\ q.panel = h.panel
    BY <1>1 DEF Fits, Page, Rest, Drawn
<1> HIDE DEF q
<1>4. Kept(q)
    BY <1>1, <1>3 DEF Kept
<1> QED
    BY <1>2, <1>3, <1>4, NodeKept, LoadDocKept, HintKept DEF Maybe, Fits

LEMMA PathKept ==
    ASSUME NEW p, Fits(p)
    PROVE  /\ \A n \in Maybe(Nodes) : Kept(askPath(p, n))
           /\ Kept(clearPath(p)) /\ Kept(togglePathMode(p))
           /\ \A found \in BOOLEAN : p.path.on => Kept(computePath(p, found))
<1>1. ASSUME NEW n \in Maybe(Nodes) PROVE Kept(askPath(p, n))
    BY AskFits DEF Kept
<1>2. Fits(Hint([p EXCEPT !.path = NoPath])) /\ Kept(Hint([p EXCEPT !.path = NoPath]))
    <2>1. NoPath \in Paths
        BY DEF NoPath, Paths, Maybe
    <2>2. [p EXCEPT !.path = NoPath] \in Page
        BY <2>1 DEF Fits, Page
    <2> QED BY <2>2, NoPathFits, HintKept DEF Fits
<1>3. Kept(clearPath(p)) /\ Kept(togglePathMode(p))
    BY <1>1, <1>2, DrawerKept DEF clearPath, togglePathMode, Maybe
<1>4. ASSUME NEW found \in BOOLEAN, p.path.on PROVE Kept(computePath(p, found))
    <2> DEFINE x == [p.path EXCEPT !.from = None, !.drawn = found, !.notice = ""]
    <2>1. p.path \in Paths /\ p \in Page
        BY DEF Fits, Page
    <2>2. x \in Paths /\ x.on /\ x.from = None /\ x.notice = ""
        BY <1>4, <2>1 DEF Paths, Maybe
    <2>3. computePath(p, found) = openDetailPane(Panel([p EXCEPT !.path = x], "found", None))
        BY DEF computePath
    <2> HIDE DEF x
    <2>4. Fits([p EXCEPT !.path = x])
        BY <2>1, <2>2, PathFits DEF Fits
    <2> QED
        BY <2>3, <2>4, PanelKept, PanelFits, DrawerKept DEF Maybe, Fits
<1> QED
    BY <1>1, <1>3, <1>4

LEMMA ToggleSynthKept == ASSUME NEW p, Fits(p), Kept(p), NEW n PROVE Kept(toggleSynth(p, n))
BY FreeKept DEF toggleSynth

LEMMA CountKept ==
    ASSUME NEW p, Fits(p), Kept(p), p.made < MaxCalls
    PROVE  Kept(Count(p)) /\ Fits(Count(p)) /\ Count(p).active = p.active
<1>1. Kept([p EXCEPT !.made = p.made + 1]) /\ [p EXCEPT !.made = p.made + 1].active = p.active
    BY FreeKept DEF Fits, Page
<1> QED
    BY <1>1, CountFits DEF Count

LEMMA TakenKept ==
    ASSUME Fits(page), NEW kind, NEW of
    PROVE  Kept(Taken(kind, of)) /\ Fits(Taken(kind, of))
<1>1. Kept(page)
    BY DEF Kept
<1> QED
    BY <1>1, FreeKept, TakenFits DEF Taken

LEMMA PressedKept == ASSUME Fits(page) PROVE Kept(page) /\ Kept(Pressed) /\ Fits(Pressed)
BY DrawerKept, PressedFits DEF Pressed, Kept

LEMMA PressesKept ==
    ASSUME Fits(page), NEW n \in Nodes, PickPathNode(n) \/ ClickToCollect(n) \/ ClickNode(n)
    PROVE  Kept(page')
<1>1. Fits(hideNodePop(Pressed)) /\ Kept(hideNodePop(Pressed))
    BY PressedKept, HidePopKept
<1>2. CASE PickPathNode(n)
    <2> DEFINE p == hideNodePop(Pressed)
    <2>1. p.path = page.path
        BY DEF Fits, Page, Pressed, closeDrawer, hideNodePop
    <2>2. page.path.on
        BY <1>2 DEF PickPathNode
    <2>3. IF p.path.from = None THEN page' = askPath(p, n)
          ELSE \E found \in BOOLEAN : page' = computePath(p, found)
        BY <1>2, Zenon DEF PickPathNode
    <2> HIDE DEF p
    <2> QED
        BY <1>1, <2>1, <2>2, <2>3, PathKept DEF Maybe, p
<1>3. CASE ClickToCollect(n)
    BY <1>1, <1>3, ToggleSynthKept DEF ClickToCollect
<1>4. CASE ClickNode(n)
    <2> DEFINE p == Count(Pressed)
               s == [p EXCEPT !.selected = n]
    <2>1. Pressed.made < MaxCalls
        BY <1>4 DEF ClickNode, Room, Fits, Page, Pressed, closeDrawer, hideNodePop
    <2>2. Fits(p) /\ Kept(p)
        BY <2>1, PressedKept, CountKept
    <2>3. page' = IF ~p.phone THEN openDetailPane(loadNode(hideNodePop(s), n, TRUE))
                  ELSE IF p.selected = n /\ p.pop.req # None THEN openDetailPane(p)
                  ELSE showNodePop(loadNode(s, n, FALSE), n)
        BY <1>4, Zenon DEF ClickNode
    <2> HIDE DEF p
    <2>4. Fits(s) /\ Kept(s)
        BY <2>2, FreeFits, FreeKept DEF Maybe
    <2> HIDE DEF s
    <2>5. /\ Fits(loadNode(hideNodePop(s), n, TRUE)) /\ Kept(loadNode(hideNodePop(s), n, TRUE))
          /\ Fits(loadNode(s, n, FALSE)) /\ Kept(loadNode(s, n, FALSE))
        BY <2>4, HidePopKept, LoadNodeFits, NodeKept
    <2> QED
        BY <2>2, <2>3, <2>5, DrawerKept, NodeKept
<1> QED
    BY <1>2, <1>3, <1>4

LEMMA NodesKept ==
    ASSUME Fits(page), NEW n \in Nodes,
           Hover(n) \/ FollowNeighbour(n) \/ focusNode(n) \/ RemoveChip(n) \/ PopExpands(n)
    PROVE  Kept(page')
<1>0. Kept(page) /\ (Room => page.made < MaxCalls)
    BY DEF Kept, Room
<1>1. CASE Hover(n)
    BY <1>0, <1>1, FreeKept DEF Hover
<1>2. CASE FollowNeighbour(n)
    BY <1>0, <1>2, CountKept, NodeKept DEF FollowNeighbour
<1>3. CASE focusNode(n)
    <2> DEFINE s == [page EXCEPT !.selected = n]
    <2>1. Fits(s) /\ Kept(s)
        BY <1>0, FreeFits, FreeKept DEF Maybe
    <2>2. s.made < MaxCalls
        BY <1>0, <1>3 DEF focusNode, Fits, Page
    <2>3. page' = Reveal(loadNode(Count(s), n, TRUE))
        BY <1>3, Zenon DEF focusNode
    <2> HIDE DEF s
    <2>4. Fits(loadNode(Count(s), n, TRUE)) /\ Kept(loadNode(Count(s), n, TRUE))
        BY <2>1, <2>2, CountKept, LoadNodeFits, NodeKept
    <2> QED
        BY <2>3, <2>4, DrawerKept
<1>4. CASE RemoveChip(n)
    BY <1>0, <1>4, ToggleSynthKept DEF RemoveChip
<1>5. CASE PopExpands(n)
    <2>1. PICK x, y : page' = [page EXCEPT !.pop = x] \/ page' = [[page EXCEPT !.pop = x] EXCEPT !.pop = y]
        BY <1>5, Zenon DEF PopExpands
    <2>2. page'.panel = page.panel
        BY <2>1 DEF Fits, Page
    <2> QED
        BY <2>2 DEF Kept
<1> QED
    BY <1>1, <1>2, <1>3, <1>4, <1>5

LEMMA DocumentsKept ==
    ASSUME Fits(page), NEW d \in Maybe(Docs),
           \/ d \in Docs /\ (OpenReader(d) \/ OpenDocGraph(d) \/ ShowReader(d))
           \/ chooseGraphDoc(d)
    PROVE  Kept(page')
<1>0. Kept(page) /\ (Room => page.made < MaxCalls)
    BY DEF Kept, Room
<1>c. Room => Fits(Count(page))
    BY <1>0, CountFits
<1>1. CASE d \in Docs /\ OpenReader(d)
    BY <1>c, <1>1, OpenKept DEF OpenReader
<1>2. CASE d \in Docs /\ OpenDocGraph(d)
    BY <1>c, <1>2, OpenGraphKept DEF OpenDocGraph
<1>3. CASE d \in Docs /\ ShowReader(d)
    <2>1. CASE page.phone /\ page.reading = None
        BY <1>c, <1>3, <2>1, OpenKept DEF ShowReader
    <2>2. CASE ~(page.phone /\ page.reading = None)
        <3>1. page' = [page EXCEPT !.view = "reader"]
            BY <1>3, <2>2 DEF ShowReader
        <3> QED BY <1>0, <3>1, FreeKept
    <2> QED BY <2>1, <2>2
<1>4. CASE chooseGraphDoc(d)
    BY <1>c, <1>4, ActiveKept DEF chooseGraphDoc
<1> QED
    BY <1>1, <1>2, <1>3, <1>4

LEMMA ViewsKept ==
    ASSUME Fits(page),
           ClickBeside \/ Escape \/ ToggleDrawer \/ Leave \/ ShowGraph \/ Isolate
           \/ TogglePath \/ AnotherPath \/ ClearPath \/ Purged \/ Home
    PROVE  Kept(page')
<1>0. Kept(page)
    BY DEF Kept
<1>1. CASE ClickBeside
    BY <1>1, PressedKept, HidePopKept, UnselectKept DEF ClickBeside
<1>2. CASE Escape
    BY <1>0, <1>2, DrawerKept, UnselectKept DEF Escape
<1>3. CASE ToggleDrawer
    BY <1>0, <1>3, DrawerKept DEF ToggleDrawer
<1>4. CASE Leave
    BY <1>0, <1>4, HidePopKept DEF Leave
<1>5. CASE ShowGraph
    BY <1>0, <1>5, FreeKept DEF ShowGraph
<1>6. CASE Isolate
    BY <1>0, <1>6, NodePanel, IsolationKept DEF Isolate
<1>7. CASE TogglePath
    BY <1>7, PathKept DEF TogglePath
<1>8. CASE AnotherPath
    BY <1>8, PathKept DEF AnotherPath, restartPath, Maybe
<1>9. CASE ClearPath
    BY <1>9, PathKept DEF ClearPath
<1>10. CASE Purged
    <2>1. page'.panel = page.panel
        BY <1>10 DEF Purged, Fits, Page
    <2> QED BY <2>1 DEF Kept
<1>11. CASE Home
    <2> DEFINE c == closeDrawer(page)
               q == [c EXCEPT !.busy = FALSE, !.view = "graph", !.isolated = None]
               r == IF q.path.on THEN clearPath(q) ELSE q
               z == [r EXCEPT !.active = None, !.selected = None, !.reading = None, !.held = None]
    <2>1. page' = Hint(z)
        BY <1>11, Zenon DEF Home, resetWorkspaceState
    <2>2. Fits(c)
        BY CloseFits
    <2> HIDE DEF c
    <2>3. q \in Page
        BY <2>2, MaybeHolds DEF Fits, Page
    <2>4. /\ q.owner = c.owner /\ q.synth = c.synth /\ q.path = c.path /\ q.pop = c.pop
          /\ q.phone = c.phone /\ q.sheet = c.sheet
        BY <2>2 DEF Fits, Page
    <2> HIDE DEF q
    <2>5. r \in Page
        BY <2>2, <2>3, <2>4, ClearPathFits DEF Fits, Rest
    <2> HIDE DEF r
    <2>6. z \in Page
        BY <2>5, MaybeHolds DEF Page
    <2> HIDE DEF z
    <2> QED
        BY <2>1, <2>6, HintKept
<1> QED
    BY <1>1, <1>2, <1>3, <1>4, <1>5, <1>6, <1>7, <1>8, <1>9, <1>10, <1>11

LEMMA WorkKept ==
    ASSUME Fits(page),
           \/ BackToDocument \/ BackToNode \/ addToSynth \/ synth \/ doResearch
           \/ promoteEntityAlias \/ HoverFires \/ PollFindsChange
    PROVE  Kept(page')
<1>0. /\ Kept(page) /\ page.active \in Maybe(Docs) /\ page.hover \in Maybe(Nodes)
      /\ page \in Page /\ Rest(page)
    BY DEF Fits, Page, Kept
<1>c. ASSUME Room PROVE Fits(Count(page)) /\ Kept(Count(page)) /\ Count(page).active = page.active
    BY <1>0, <1>c, CountKept DEF Room
<1>w. ASSUME Room
      PROVE  LET w == openDetailPane(Panel(Count(page), "work", None)) IN Fits(w) /\ Kept(w)
    BY <1>c, <1>w, PanelFits, PanelKept, PaneFits, DrawerKept DEF Fits, Maybe
<1>1. CASE BackToDocument
    BY <1>0, <1>1, LoadDocKept DEF BackToDocument, Maybe
<1>2. CASE BackToNode
    BY <1>0, <1>2, NodeKept DEF BackToNode
<1>3. CASE addToSynth
    <2> DEFINE n == page.panel.of
               c == [page EXCEPT !.synth = @ \cup {n}]
    <2>1. n \in Nodes /\ page.owner /\ Room
        BY <1>3, NodePanel DEF addToSynth, canWrite
    <2>2. Fits(c) /\ Kept(c)
        <3>1. page.synth \cup {n} \in SUBSET Nodes
            BY <1>0, <2>1 DEF Page
        <3> QED BY <1>0, <2>1, <3>1, CollectFits, FreeKept
    <2>3. c.made = page.made
        BY <1>0 DEF Page
    <2>4. page' = IF n = Count(c).selected THEN loadNode(Count(c), n, TRUE) ELSE Count(c)
        BY <1>3 DEF addToSynth
    <2> HIDE DEF c
    <2> QED BY <2>1, <2>2, <2>3, <2>4, CountKept, NodeKept DEF Room
<1>4. CASE synth
    BY <1>4, <1>w, SendKept DEF synth
<1>5. CASE doResearch
    BY <1>5, <1>w, SendKept DEF doResearch
<1>6. CASE promoteEntityAlias
    BY <1>6, <1>c, SendKept DEF promoteEntityAlias
<1>7. CASE HoverFires
    <2> DEFINE h == [page EXCEPT !.hover = None]
    <2>1. Fits(h) /\ Kept(h) /\ h.made = page.made
        BY <1>0, FreeFits, FreeKept DEF Maybe, Page
    <2> HIDE DEF h
    <2>2. Fits(Count(h)) /\ Kept(Count(h))
        BY <1>7, <2>1, CountKept DEF HoverFires, Room
    <2> QED BY <1>0, <1>7, <2>2, NodeKept DEF HoverFires, Maybe, h
<1>8. CASE PollFindsChange
    BY <1>8, <1>c, SendKept DEF PollFindsChange
<1> QED
    BY <1>1, <1>2, <1>3, <1>4, <1>5, <1>6, <1>7, <1>8

LEMMA AnswersKept == ASSUME Fits(page), Answered PROVE Kept(page')
<1>1. ASSUME NEW n \in Nodes, NodeAnswered(n) \/ PromoteAnswered(n) PROVE Kept(page')
    BY <1>1, TakenKept, RenderKept, HintKept, ExpiredKept DEF NodeAnswered, PromoteAnswered, Fits
<1>2. ASSUME NEW n \in Nodes, PopAnswered(n) PROVE Kept(page')
    <2> DEFINE p == Taken("pop", n)
    <2>1. Fits(p) /\ Kept(p)
        BY TakenKept
    <2>2. PICK x, y : page' \in {p, [p EXCEPT !.pop = x], [[p EXCEPT !.pop = x] EXCEPT !.pop = y]}
        BY <1>2, Zenon DEF PopAnswered
    <2> HIDE DEF p
    <2>3. page'.panel = p.panel /\ page'.active = p.active
        BY <2>1, <2>2 DEF Fits, Page
    <2> QED BY <2>1, <2>3, StillKept
<1>3. ASSUME NEW d \in Docs, ReadAnswered(d) PROVE Kept(page')
    <2> DEFINE p == renderReader(Taken("read", d), d)
    <2>1. Fits(p)
        BY TakenKept, ReaderFits
    <2>2. Kept(p)
        <3> DEFINE t == Taken("read", d)
        <3>1. Fits(t) /\ Kept(t)
            BY TakenKept
        <3> HIDE DEF t
        <3>2. renderReader(t, d).panel = t.panel /\ renderReader(t, d).active = t.active
            BY <3>1 DEF renderReader, Fits, Page
        <3> QED BY <3>1, <3>2, StillKept DEF t
    <2>3. page' = markDocumentSeen(IF p.active = d THEN renderDocPanel(p, d) ELSE p, d)
        BY <1>3, Zenon DEF ReadAnswered
    <2> HIDE DEF p
    <2> QED BY <2>1, <2>2, <2>3, DocPanelKept, DocPanelFits, SeenKept
<1>4. ASSUME NEW d \in Docs, ReadFails(d) PROVE Kept(page')
    <2> DEFINE p == [Taken("read", d) EXCEPT !.busy = FALSE]
    <2>1. Fits(p) /\ Kept(p)
        BY TakenKept, FreeFits, FreeKept DEF Maybe
    <2>2. page' = IF p.active = d THEN Hint(p) ELSE p
        BY <1>4 DEF ReadFails
    <2> HIDE DEF p
    <2> QED BY <2>1, <2>2, HintKept DEF Fits
<1>5. ASSUME NEW d \in Docs, DocAnswered(d) \/ PollAnswered(d) PROVE Kept(page')
    BY <1>5, TakenKept, HintKept, DocPanelKept, DocPanelFits, SeenKept
    DEF DocAnswered, PollAnswered, Fits
<1>6. ASSUME NEW d \in Docs, SeenAnswered(d) PROVE Kept(page')
    BY <1>6, TakenKept, ExpiredKept DEF SeenAnswered
<1>7. ASSUME NEW of \in Maybe(Docs \cup Nodes), NEW kind \in {"synth", "research"},
             WorkAnswered(kind, of)
      PROVE  Kept(page')
    BY <1>7, TakenKept, PanelKept, HintKept, ExpiredFits DEF WorkAnswered, Fits
<1> QED
    BY <1>1, <1>2, <1>3, <1>4, <1>5, <1>6, <1>7 DEF Answered

\* Whatever comes late, the panel of a document is drawn only for the one that is
\* active then.
THEOREM LateDocuments == Spec => LateDocsAreActive
<1>1. ASSUME Fits(page), Next PROVE Kept(page')
    BY <1>1, PressesKept, NodesKept, DocumentsKept, ViewsKept, WorkKept, AnswersKept
    DEF Next, User, Maybe
<1>2. Fits(page) /\ [Next]_page
        => [page'.panel.kind = "doc" /\ page'.panel # page.panel
              => page'.panel.of = page'.active]_page
    BY <1>1 DEF Kept
<1> QED
    BY <1>2, PageFits, PTL DEF Spec, LateDocsAreActive
(***************************************************************************)
(* What the panel or the reader says it waits for is asked for             *)
(***************************************************************************)

Wait(p, kind, of) == BagIn([kind |-> kind, of |-> of], p.calls)

Busied(p) == p.busy => \E d \in Docs : Wait(p, "read", d)

Loaded(p) ==
    p.panel.kind = "loading" /\ p.active # None => Wait(p, "read", p.active) \/ Wait(p, "doc", p.active)

Asked(p) == Loaded(p) /\ Busied(p)

\* Nothing is expected that was not expected before ...
LEMMA StillAsked ==
    ASSUME NEW p, NEW q, Asked(p), q.calls = p.calls, q.busy => p.busy,
           q.panel.kind = "loading" => p.panel.kind = "loading", q.active \in {p.active, None}
    PROVE  Asked(q)
BY DEF Asked, Loaded, Busied, Wait

\* ... or the panel says something else.
LEMMA OtherAsked ==
    ASSUME NEW p, NEW q, Busied(p), q.calls = p.calls, q.busy => p.busy, q.panel.kind # "loading"
    PROVE  Asked(q)
BY DEF Asked, Loaded, Busied, Wait

\* A call more, and what is on its way still is.
LEMMA Sent ==
    ASSUME NEW p, Fits(p), NEW kind, NEW of
    PROVE  /\ Wait(Send(p, kind, of), kind, of)
           /\ \A k, o : Wait(p, k, o) => Wait(Send(p, kind, of), k, o)
           /\ Send(p, kind, of).panel = p.panel /\ Send(p, kind, of).busy = p.busy
           /\ Send(p, kind, of).active = p.active
<1> DEFINE r == [kind |-> kind, of |-> of]
           b == BagAdd(p.calls, r)
<1>1. Send(p, kind, of) = [p EXCEPT !.calls = b]
    BY DEF Send
<1>2. r \in DOMAIN b /\ \A e \in DOMAIN p.calls : e \in DOMAIN b
    <2> HIDE DEF r
    <2> QED BY DEF BagAdd
<1> HIDE DEF b
<1> DEFINE q == [p EXCEPT !.calls = b]
<1>3. q.panel = p.panel /\ q.busy = p.busy /\ q.active = p.active /\ q.calls = b
    BY DEF Fits, Page
<1> HIDE DEF q
<1>4. Wait(q, kind, of) /\ \A k, o : Wait(p, k, o) => Wait(q, k, o)
    BY <1>2, <1>3 DEF Wait, BagIn, BagToSet
<1> QED
    BY <1>1, <1>3, <1>4 DEF q

LEMMA SendAsked ==
    ASSUME NEW p, Fits(p), NEW kind, NEW of
    PROVE  /\ Busied(p) => Busied(Send(p, kind, of))
           /\ Asked(p) => Asked(Send(p, kind, of))
<1> DEFINE q == Send(p, kind, of)
<1>1. /\ \A k, o : Wait(p, k, o) => Wait(q, k, o)
      /\ q.panel = p.panel /\ q.busy = p.busy /\ q.active = p.active
    BY Sent
<1> HIDE DEF q
<1>2. Busied(p) => Busied(q)
    BY <1>1 DEF Busied
<1>3. Asked(p) => Asked(q)
    BY <1>1, <1>2 DEF Asked, Loaded
<1> QED
    BY <1>2, <1>3 DEF q

\* Fields that say nothing of what is awaited.
LEMMA FreeAsked ==
    ASSUME NEW p, Fits(p), Asked(p), NEW x
    PROVE  /\ Asked([p EXCEPT !.selected = x]) /\ Asked([p EXCEPT !.busy = FALSE])
           /\ Asked([p EXCEPT !.view = x]) /\ Asked([p EXCEPT !.hover = x])
           /\ Asked([p EXCEPT !.synth = x]) /\ Asked([p EXCEPT !.pop = x])
           /\ Asked([p EXCEPT !.sheet = x]) /\ Asked([p EXCEPT !.path = x])
           /\ Asked([p EXCEPT !.made = x])
<1> p \in Page
    BY DEF Fits
<1>1. Asked([p EXCEPT !.selected = x])
    BY StillAsked DEF Page
<1>2. Asked([p EXCEPT !.busy = FALSE])
    BY StillAsked DEF Page
<1>3. Asked([p EXCEPT !.view = x])
    BY StillAsked DEF Page
<1>4. Asked([p EXCEPT !.hover = x])
    BY StillAsked DEF Page
<1>5. Asked([p EXCEPT !.synth = x])
    BY StillAsked DEF Page
<1>6. Asked([p EXCEPT !.pop = x])
    BY StillAsked DEF Page
<1>7. Asked([p EXCEPT !.sheet = x])
    BY StillAsked DEF Page
<1>8. Asked([p EXCEPT !.path = x])
    BY StillAsked DEF Page
<1>9. Asked([p EXCEPT !.made = x])
    BY StillAsked DEF Page
<1> QED
    BY <1>1, <1>2, <1>3, <1>4, <1>5, <1>6, <1>7, <1>8, <1>9

LEMMA PanelAsked ==
    ASSUME NEW p \in Page, Busied(p), NEW kind, kind # "loading", NEW of
    PROVE  Asked(Panel(p, kind, of))
<1> DEFINE x == [kind |-> kind, of |-> of, tools |-> FALSE, alone |-> FALSE]
           q == [p EXCEPT !.panel = x]
<1>1. x.kind # "loading"
    OBVIOUS
<1>2. Panel(p, kind, of) = q
    BY DEF Panel
<1> HIDE DEF x
<1>3. q.panel = x /\ q.calls = p.calls /\ q.busy = p.busy
    BY DEF Page
<1> HIDE DEF q
<1> QED
    BY <1>1, <1>2, <1>3, OtherAsked

LEMMA HintAsked == ASSUME NEW p \in Page, Busied(p) PROVE Asked(Hint(p))
BY PanelAsked DEF Hint

LEMMA HidePopAsked ==
    ASSUME NEW p, Fits(p), Asked(p)
    PROVE  Asked(hideNodePop(p)) /\ Fits(hideNodePop(p))
<1> DEFINE x == [p.pop EXCEPT !.req = None, !.timer = None]
           q == [p EXCEPT !.hover = None, !.pop = x]
<1>1. hideNodePop(p) = q
    BY DEF hideNodePop
<1> HIDE DEF x
<1>2. q.panel = p.panel /\ q.active = p.active /\ q.calls = p.calls /\ q.busy = p.busy
    BY DEF Fits, Page
<1> HIDE DEF q
<1> QED
    BY <1>1, <1>2, StillAsked, HidePopFits

LEMMA DrawerAsked ==
    ASSUME NEW p, Fits(p), Asked(p)
    PROVE  Asked(closeDrawer(p)) /\ Asked(openDetailPane(p)) /\ Asked(Reveal(p))
<1>1. Asked(closeDrawer(p)) /\ Asked(openDetailPane(p))
    BY HidePopAsked, FreeAsked DEF closeDrawer, openDetailPane
<1>2. Asked(Reveal(p))
    BY <1>1, CloseFits, FreeAsked DEF Reveal
<1> QED
    BY <1>1, <1>2

LEMMA NodeAsked ==
    ASSUME NEW p, Fits(p), Asked(p), NEW n \in Nodes, NEW hide \in BOOLEAN
    PROVE  Asked(loadNode(p, n, hide)) /\ Asked(showNodePop(p, n))
<1>1. Asked(loadNode(p, n, hide))
    BY HidePopAsked, SendAsked DEF loadNode
<1> DEFINE x == [p.pop EXCEPT !.req = n, !.of = n, !.level = 0, !.timer = None]
           q == [p EXCEPT !.pop = x]
<1>2. CASE canShowNodePop(p)
    <2>1. showNodePop(p, n) = Send(q, "pop", n)
        BY <1>2 DEF showNodePop
    <2>2. x \in Pops /\ x.of = x.req
        <3>1. p.pop \in Pops
            BY DEF Fits, Page
        <3>2. n \in Maybe(Nodes) /\ None \in Maybe(Nodes) /\ 0 \in 0..2
            BY DEF Maybe
        <3> QED BY <3>1, <3>2 DEF Pops
    <2> HIDE DEF x
    <2>3. Fits(q) /\ Asked(q)
        BY <1>2, <2>2, PopFits, FreeAsked DEF canShowNodePop
    <2> HIDE DEF q
    <2> QED
        BY <1>1, <2>1, <2>3, SendAsked
<1> QED
    BY <1>1, <1>2, HidePopAsked DEF showNodePop

LEMMA RenderAsked == ASSUME NEW p \in Page, Busied(p), NEW n PROVE Asked(renderPanel(p, n))
<1> DEFINE x == [kind |-> "node", of |-> n, tools |-> p.owner, alone |-> p.isolated = n]
           q == [p EXCEPT !.node = n, !.panel = x]
<1>1. x.kind = "node"
    OBVIOUS
<1>2. renderPanel(p, n) = q
    BY Zenon DEF renderPanel, canWrite
<1> HIDE DEF x
<1>3. q.panel = x /\ q.calls = p.calls /\ q.busy = p.busy
    BY DEF Page
<1> HIDE DEF q
<1> QED
    BY <1>1, <1>2, <1>3, OtherAsked

LEMMA DocPanelAsked ==
    ASSUME NEW p \in Page, Busied(p), NEW d
    PROVE  Asked(renderDocPanel(p, d))
<1> DEFINE x == [kind |-> "doc", of |-> d, tools |-> p.owner, alone |-> FALSE]
           q == [p EXCEPT !.held = d, !.panel = x]
<1>1. x.kind = "doc"
    OBVIOUS
<1>2. renderDocPanel(p, d) = q
    BY Zenon DEF renderDocPanel, canWrite
<1> HIDE DEF x
<1>3. q.panel = x /\ q.calls = p.calls /\ q.busy = p.busy
    BY DEF Page
<1> HIDE DEF q
<1> QED
    BY <1>1, <1>2, <1>3, OtherAsked

LEMMA SeenAsked ==
    ASSUME NEW p, Fits(p), Asked(p), NEW d \in Docs
    PROVE  Asked(markDocumentSeen(p, d))
BY SendAsked DEF markDocumentSeen

\* The panel says that the active document is being loaded, and its call is sent.
LEMMA LoadingAsked ==
    ASSUME NEW p \in Page, Rest(p), NEW d \in Docs, p.active = d, NEW kind \in {"doc", "read"},
           kind = "doc" => Busied(p)
    PROVE  Asked(Send(Panel(p, "loading", d), kind, d))
<1> DEFINE x == [kind |-> "loading", of |-> d, tools |-> FALSE, alone |-> FALSE]
           q == Panel(p, "loading", d)
           s == Send(q, kind, d)
<1>1. q = [p EXCEPT !.panel = x]
    BY DEF Panel
<1>2. Fits(q)
    BY PanelFits DEF Maybe
<1> HIDE DEF x
<1>3. q.active = d /\ q.busy = p.busy /\ q.calls = p.calls
    BY <1>1 DEF Page
<1> HIDE DEF q
<1>4. /\ Wait(s, kind, d) /\ \A k, o : Wait(q, k, o) => Wait(s, k, o)
      /\ s.busy = q.busy /\ s.active = q.active
    BY <1>2, Sent
<1> HIDE DEF s
<1>5. Loaded(s)
    BY <1>3, <1>4 DEF Loaded
<1>6. Busied(s)
    <2>1. CASE kind = "read"
        BY <1>4, <2>1 DEF Busied
    <2>2. CASE kind = "doc"
        BY <1>3, <1>4, <2>2 DEF Busied, Wait
    <2> QED BY <2>1, <2>2
<1> QED
    BY <1>5, <1>6 DEF Asked, s, q

LEMMA LoadDocAsked ==
    ASSUME NEW p, Fits(p), Busied(p), NEW d \in Docs, p.active = d
    PROVE  Asked(loadDocPanel(p, d))
<1>1. Asked(markDocumentSeen(renderDocPanel(p, d), d))
    BY DocPanelAsked, DocPanelFits, SeenAsked DEF Fits
<1>2. Asked(Send(Panel(p, "loading", d), "doc", d))
    BY LoadingAsked DEF Fits
<1> QED
    BY <1>1, <1>2 DEF loadDocPanel

LEMMA IsolationAsked ==
    ASSUME NEW p, Fits(p), Asked(p), NEW n \in Nodes
    PROVE  Asked(toggleNodeIsolation(p, n))
<1> DEFINE a == [p EXCEPT !.isolated = None]
           b == [p EXCEPT !.isolated = n, !.selected = n]
           q == IF p.isolated = n THEN a ELSE b
<1>1. a \in Page /\ b \in Page
    BY MaybeHolds DEF Fits, Page
<1>2. /\ a.panel = p.panel /\ a.active = p.active /\ a.calls = p.calls /\ a.busy = p.busy
      /\ b.panel = p.panel /\ b.active = p.active /\ b.calls = p.calls /\ b.busy = p.busy
    BY DEF Fits, Page
<1>3. toggleNodeIsolation(p, n) = IF q.node = n THEN renderPanel(q, n) ELSE q
    BY Zenon DEF toggleNodeIsolation
<1> HIDE DEF a, b
<1>4. q \in Page /\ q.panel = p.panel /\ q.active = p.active /\ q.calls = p.calls /\ q.busy = p.busy
    BY <1>1, <1>2
<1> HIDE DEF q
<1>5. Asked(q)
    BY <1>4, StillAsked
<1> QED
    BY <1>3, <1>4, <1>5, RenderAsked DEF Asked

LEMMA UnselectAsked == ASSUME NEW p, Fits(p), Asked(p) PROVE Asked(Unselect(p))
<1> DEFINE q == [p EXCEPT !.selected = None, !.isolated = None]
<1>1. q \in Page
    BY MaybeHolds DEF Fits, Page
<1>2. q.panel = p.panel /\ q.active = p.active /\ q.calls = p.calls /\ q.busy = p.busy
    BY DEF Fits, Page
<1>3. Unselect(p) = IF p.isolated # None /\ p.node # None THEN renderPanel(q, p.node) ELSE q
    BY Zenon DEF Unselect
<1> HIDE DEF q
<1>4. Asked(q)
    BY <1>2, StillAsked
<1> QED
    BY <1>1, <1>3, <1>4, RenderAsked DEF Asked

LEMMA ActiveAsked ==
    ASSUME NEW p, Fits(p), Asked(p), NEW d \in Maybe(Docs)
    PROVE  Asked(setActiveDoc(p, d))
<1> DEFINE a == [p EXCEPT !.active = None, !.selected = None]
           b == [p EXCEPT !.active = d, !.reading = d, !.selected = None]
<1>1. Fits(a)
    BY LookFits DEF Maybe
<1>2. d \in Docs => Fits(b)
    BY LookFits DEF Maybe
<1>3. /\ b.active = d /\ b.calls = p.calls /\ b.busy = p.busy
      /\ a.calls = p.calls /\ a.busy = p.busy
    BY DEF Fits, Page
<1>4. setActiveDoc(p, d) = IF d = None THEN Hint(a) ELSE loadDocPanel(b, d)
    BY Zenon DEF setActiveDoc
<1> HIDE DEF a, b
<1>5. Busied(a) /\ Busied(b)
    BY <1>3 DEF Asked, Busied, Wait
<1> QED
    BY <1>1, <1>2, <1>3, <1>4, <1>5, HintAsked, LoadDocAsked DEF Maybe, Fits

LEMMA OpenAsked == ASSUME NEW p, Fits(p), NEW d \in Docs PROVE Asked(openReader(p, d))
<1> DEFINE h == IF p.sheet /\ p.phone THEN closeDrawer(p) ELSE hideNodePop(p)
           q == [h EXCEPT !.reading = d, !.active = d, !.selected = None, !.busy = TRUE, !.view = "reader"]
<1>1. Fits(h)
    BY CloseFits, HidePopFits
<1>2. openReader(p, d) = Send(Panel(q, "loading", d), "read", d)
    BY Zenon DEF openReader
<1> HIDE DEF h
<1>3. q \in Page
    BY <1>1, MaybeHolds DEF Fits, Page
<1>4. /\ q.owner = h.owner /\ q.phone = h.phone /\ q.sheet = h.sheet /\ q.synth = h.synth
      /\ q.path = h.path /\ q.pop = h.pop /\ q.active = d
    BY <1>1 DEF Fits, Page
<1> HIDE DEF q
<1>5. Rest(q)
    BY <1>1, <1>4 DEF Fits, Rest
<1> QED
    BY <1>2, <1>3, <1>4, <1>5, LoadingAsked

LEMMA OpenGraphAsked ==
    ASSUME NEW p, Fits(p), Asked(p), NEW d \in Docs
    PROVE  Asked(openDocGraph(p, d))
<1>1. Fits(setActiveDoc(Reveal(p), d)) /\ Asked(setActiveDoc(Reveal(p), d))
    BY RevealFits, DrawerAsked, ActiveFits, ActiveAsked DEF Maybe
<1> QED
    BY <1>1, FreeAsked DEF openDocGraph

LEMMA ExpiredAsked == ASSUME NEW p, Fits(p), Asked(p) PROVE Asked(expireWriteAccess(p))
<1> DEFINE h == Hint(p)
           q == [h EXCEPT !.owner = FALSE, !.synth = {}]
<1>1. Fits(h) /\ h.panel.tools = FALSE /\ h.panel.kind = "hint" /\ Asked(h)
    BY HintFits, HintAsked DEF Hint, Panel, Fits, Page, Asked
<1>2. expireWriteAccess(p) = IF q.selected # None THEN loadNode(q, q.selected, TRUE)
                             ELSE IF q.active # None THEN loadDocPanel(q, q.active)
                             ELSE Hint(q)
    <2> DEFINE r == [h EXCEPT !.owner = FALSE, !.synth = IF FALSE THEN @ ELSE {}]
    <2>1. r = q
        OBVIOUS
    <2>2. expireWriteAccess(p) = IF r.selected # None THEN loadNode(r, r.selected, TRUE)
                                 ELSE IF r.active # None THEN loadDocPanel(r, r.active)
                                 ELSE Hint(r)
        BY Zenon DEF expireWriteAccess, setAccessScope
    <2> QED BY <2>1, <2>2, Zenon
<1> HIDE DEF h
<1>3. Fits(q) /\ q.selected \in Maybe(Nodes) /\ q.active \in Maybe(Docs)
    BY <1>1 DEF Fits, Page, Rest, Drawn
<1>4. q.panel = h.panel /\ q.calls = h.calls /\ q.busy = h.busy /\ q.active = h.active
    BY <1>1 DEF Fits, Page
<1> HIDE DEF q
<1>5. Asked(q)
    BY <1>1, <1>4, StillAsked
<1> QED
    BY <1>2, <1>3, <1>5, NodeAsked, LoadDocAsked, HintAsked DEF Maybe, Fits, Asked

LEMMA PathAsked ==
    ASSUME NEW p, Fits(p), Asked(p)
    PROVE  /\ \A n \in Maybe(Nodes) : Asked(askPath(p, n))
           /\ Asked(clearPath(p)) /\ Asked(togglePathMode(p))
           /\ \A found \in BOOLEAN : p.path.on => Asked(computePath(p, found))
<1>1. ASSUME NEW n \in Maybe(Nodes) PROVE Asked(askPath(p, n))
    <2> DEFINE y == [p.path EXCEPT !.on = TRUE, !.from = n]
               r == [p EXCEPT !.path = y]
               h == Panel(r, "path", r.path.from)
               x == [h.path EXCEPT !.notice = IF r.path.from = None THEN "start" ELSE "end"]
               k == [h EXCEPT !.path = x]
    <2>1. askPath(p, n) = Reveal(k)
        BY DEF askPath, showPathHint
    <2>2. askPath(p, n).calls = p.calls /\ askPath(p, n).busy = p.busy
        <3>1. r.calls = p.calls /\ r.busy = p.busy /\ DOMAIN r = DOMAIN p
            BY DEF Fits, Page
        <3>2. h.calls = r.calls /\ h.busy = r.busy /\ DOMAIN h = DOMAIN p
            <4> HIDE DEF y
            <4> QED BY DEF Panel, Fits, Page
        <3> HIDE DEF y, r, h
        <3>3. k.calls = h.calls /\ k.busy = h.busy /\ DOMAIN k = DOMAIN p
            <4> HIDE DEF x
            <4> QED BY <3>2 DEF Fits, Page
        <3> HIDE DEF x, k
        <3>4. Reveal(k).calls = k.calls /\ Reveal(k).busy = k.busy
            <4> p \in Page
                BY DEF Fits
            <4> DEFINE z == [k.pop EXCEPT !.req = None, !.timer = None]
                       e == [k EXCEPT !.hover = None, !.pop = z]
                       f == [e EXCEPT !.sheet = FALSE]
                       g == [f EXCEPT !.view = "graph"]
            <4>1. Reveal(k) = g
                BY DEF Reveal, closeDrawer, hideNodePop
            <4> HIDE DEF z
            <4>2. g.calls = k.calls /\ g.busy = k.busy
                OBVIOUS
            <4> QED BY <4>1, <4>2
        <3> QED BY <2>1, <3>1, <3>2, <3>3, <3>4 DEF k, x, h, r, y
    <2> QED
        BY <2>2, AskFits, OtherAsked DEF Asked
<1>2. Fits(Hint([p EXCEPT !.path = NoPath])) /\ Asked(Hint([p EXCEPT !.path = NoPath]))
    <2>1. NoPath \in Paths
        BY DEF NoPath, Paths, Maybe
    <2>2. [p EXCEPT !.path = NoPath] \in Page
        BY <2>1 DEF Fits, Page
    <2> QED BY <2>2, NoPathFits, FreeAsked, HintAsked DEF Fits, Asked
<1>3. Asked(clearPath(p)) /\ Asked(togglePathMode(p))
    BY <1>1, <1>2, DrawerAsked DEF clearPath, togglePathMode, Maybe
<1>4. ASSUME NEW found \in BOOLEAN, p.path.on PROVE Asked(computePath(p, found))
    <2> DEFINE x == [p.path EXCEPT !.from = None, !.drawn = found, !.notice = ""]
    <2>1. p.path \in Paths /\ p \in Page
        BY DEF Fits, Page
    <2>2. x \in Paths /\ x.on /\ x.from = None /\ x.notice = ""
        BY <1>4, <2>1 DEF Paths, Maybe
    <2>3. computePath(p, found) = openDetailPane(Panel([p EXCEPT !.path = x], "found", None))
        BY DEF computePath
    <2> HIDE DEF x
    <2>4. Fits([p EXCEPT !.path = x])
        BY <2>1, <2>2, PathFits DEF Fits
    <2>5. Fits(Panel([p EXCEPT !.path = x], "found", None)) /\ Asked(Panel([p EXCEPT !.path = x], "found", None))
        BY <2>4, FreeAsked, PanelAsked, PanelFits DEF Maybe, Fits, Asked
    <2> QED
        BY <2>3, <2>5, DrawerAsked
<1> QED
    BY <1>1, <1>3, <1>4

LEMMA ToggleSynthAsked == ASSUME NEW p, Fits(p), Asked(p), NEW n PROVE Asked(toggleSynth(p, n))
BY FreeAsked DEF toggleSynth

LEMMA CountAsked ==
    ASSUME NEW p, Fits(p), Asked(p), p.made < MaxCalls
    PROVE  Asked(Count(p)) /\ Fits(Count(p)) /\ Count(p).active = p.active
<1>1. Asked([p EXCEPT !.made = p.made + 1]) /\ [p EXCEPT !.made = p.made + 1].active = p.active
    BY FreeAsked DEF Fits, Page
<1> QED
    BY <1>1, CountFits DEF Count
\* A call is answered: all others still wait.
LEMMA Left ==
    ASSUME Fits(page), NEW kind, NEW of
    PROVE  /\ \A k, o : Wait(page, k, o) /\ (k # kind \/ o # of) => Wait(Taken(kind, of), k, o)
           /\ Taken(kind, of).panel = page.panel /\ Taken(kind, of).busy = page.busy
           /\ Taken(kind, of).active = page.active
<1> DEFINE r == [kind |-> kind, of |-> of]
           b == BagRemove(page.calls, r)
           q == [page EXCEPT !.calls = b]
<1>1. Taken(kind, of) = q
    BY DEF Taken
<1>2. \A e : e \in DOMAIN page.calls /\ e # r => e \in DOMAIN b
    <2> HIDE DEF r
    <2> QED BY DEF BagRemove
<1>3. \A k, o : k # kind \/ o # of => [kind |-> k, of |-> o] # r
    OBVIOUS
<1> HIDE DEF r, b
<1>4. q.panel = page.panel /\ q.busy = page.busy /\ q.active = page.active /\ q.calls = b
    BY DEF Fits, Page
<1> HIDE DEF q
<1>5. \A k, o : Wait(page, k, o) /\ (k # kind \/ o # of) => Wait(q, k, o)
    BY <1>2, <1>3, <1>4 DEF Wait, BagIn, BagToSet
<1> QED
    BY <1>1, <1>4, <1>5

\* An answer that is not a document's.
LEMMA TakenAsked ==
    ASSUME Fits(page), Asked(page), NEW kind, kind \notin {"read", "doc"}, NEW of
    PROVE  Asked(Taken(kind, of)) /\ Fits(Taken(kind, of))
<1> DEFINE t == Taken(kind, of)
<1>1. /\ \A o : Wait(page, "read", o) => Wait(t, "read", o)
      /\ \A o : Wait(page, "doc", o) => Wait(t, "doc", o)
      /\ t.panel = page.panel /\ t.busy = page.busy /\ t.active = page.active
    BY Left
<1> HIDE DEF t
<1>2. Asked(t)
    BY <1>1 DEF Asked, Loaded, Busied
<1> QED
    BY <1>2, TakenFits DEF t

LEMMA PressedAsked ==
    ASSUME Fits(page), Asked(page) PROVE Asked(Pressed) /\ Fits(Pressed)
BY DrawerAsked, PressedFits DEF Pressed

LEMMA PressesAsked ==
    ASSUME Fits(page), Asked(page), NEW n \in Nodes,
           PickPathNode(n) \/ ClickToCollect(n) \/ ClickNode(n)
    PROVE  Asked(page')
<1>1. Fits(hideNodePop(Pressed)) /\ Asked(hideNodePop(Pressed))
    BY PressedAsked, HidePopAsked
<1>2. CASE PickPathNode(n)
    <2> DEFINE p == hideNodePop(Pressed)
    <2>1. p.path = page.path
        BY DEF Fits, Page, Pressed, closeDrawer, hideNodePop
    <2>2. page.path.on
        BY <1>2 DEF PickPathNode
    <2>3. IF p.path.from = None THEN page' = askPath(p, n)
          ELSE \E found \in BOOLEAN : page' = computePath(p, found)
        BY <1>2, Zenon DEF PickPathNode
    <2> HIDE DEF p
    <2> QED
        BY <1>1, <2>1, <2>2, <2>3, PathAsked DEF Maybe, p
<1>3. CASE ClickToCollect(n)
    BY <1>1, <1>3, ToggleSynthAsked DEF ClickToCollect
<1>4. CASE ClickNode(n)
    <2> DEFINE p == Count(Pressed)
               s == [p EXCEPT !.selected = n]
    <2>1. Pressed.made < MaxCalls
        BY <1>4 DEF ClickNode, Room, Fits, Page, Pressed, closeDrawer, hideNodePop
    <2>2. Fits(p) /\ Asked(p)
        BY <2>1, PressedAsked, CountAsked
    <2>3. page' = IF ~p.phone THEN openDetailPane(loadNode(hideNodePop(s), n, TRUE))
                  ELSE IF p.selected = n /\ p.pop.req # None THEN openDetailPane(p)
                  ELSE showNodePop(loadNode(s, n, FALSE), n)
        BY <1>4, Zenon DEF ClickNode
    <2> HIDE DEF p
    <2>4. Fits(s) /\ Asked(s)
        BY <2>2, FreeFits, FreeAsked DEF Maybe
    <2> HIDE DEF s
    <2>5. /\ Fits(loadNode(hideNodePop(s), n, TRUE)) /\ Asked(loadNode(hideNodePop(s), n, TRUE))
          /\ Fits(loadNode(s, n, FALSE)) /\ Asked(loadNode(s, n, FALSE))
        BY <2>4, HidePopAsked, LoadNodeFits, NodeAsked
    <2> QED
        BY <2>2, <2>3, <2>5, DrawerAsked, NodeAsked
<1> QED
    BY <1>2, <1>3, <1>4

LEMMA NodesAsked ==
    ASSUME Fits(page), Asked(page), NEW n \in Nodes,
           Hover(n) \/ FollowNeighbour(n) \/ focusNode(n) \/ RemoveChip(n) \/ PopExpands(n)
    PROVE  Asked(page')
<1>0. Room => page.made < MaxCalls
    BY DEF Room
<1>1. CASE Hover(n)
    BY <1>1, FreeAsked DEF Hover
<1>2. CASE FollowNeighbour(n)
    BY <1>0, <1>2, CountAsked, NodeAsked DEF FollowNeighbour
<1>3. CASE focusNode(n)
    <2> DEFINE s == [page EXCEPT !.selected = n]
    <2>1. Fits(s) /\ Asked(s)
        BY FreeFits, FreeAsked DEF Maybe
    <2>2. s.made < MaxCalls
        BY <1>0, <1>3 DEF focusNode, Fits, Page
    <2>3. page' = Reveal(loadNode(Count(s), n, TRUE))
        BY <1>3, Zenon DEF focusNode
    <2> HIDE DEF s
    <2>4. Fits(loadNode(Count(s), n, TRUE)) /\ Asked(loadNode(Count(s), n, TRUE))
        BY <2>1, <2>2, CountAsked, LoadNodeFits, NodeAsked
    <2> QED
        BY <2>3, <2>4, DrawerAsked
<1>4. CASE RemoveChip(n)
    BY <1>4, ToggleSynthAsked DEF RemoveChip
<1>5. CASE PopExpands(n)
    <2>1. PICK x, y : page' = [page EXCEPT !.pop = x] \/ page' = [[page EXCEPT !.pop = x] EXCEPT !.pop = y]
        BY <1>5, Zenon DEF PopExpands
    <2>2. page'.panel = page.panel /\ page'.active = page.active /\ page'.calls = page.calls
          /\ page'.busy = page.busy
        BY <2>1 DEF Fits, Page
    <2> QED
        BY <2>2, StillAsked
<1> QED
    BY <1>1, <1>2, <1>3, <1>4, <1>5

LEMMA DocumentsAsked ==
    ASSUME Fits(page), Asked(page), NEW d \in Maybe(Docs),
           \/ d \in Docs /\ (OpenReader(d) \/ OpenDocGraph(d) \/ ShowReader(d))
           \/ chooseGraphDoc(d)
    PROVE  Asked(page')
<1>c. Room => Fits(Count(page)) /\ Asked(Count(page))
    BY CountAsked DEF Room
<1>1. CASE d \in Docs /\ OpenReader(d)
    BY <1>c, <1>1, OpenAsked DEF OpenReader
<1>2. CASE d \in Docs /\ OpenDocGraph(d)
    BY <1>c, <1>2, OpenGraphAsked DEF OpenDocGraph
<1>3. CASE d \in Docs /\ ShowReader(d)
    <2>1. CASE page.phone /\ page.reading = None
        BY <1>c, <1>3, <2>1, OpenAsked DEF ShowReader
    <2>2. CASE ~(page.phone /\ page.reading = None)
        <3>1. page' = [page EXCEPT !.view = "reader"]
            BY <1>3, <2>2 DEF ShowReader
        <3> QED BY <3>1, FreeAsked
    <2> QED BY <2>1, <2>2
<1>4. CASE chooseGraphDoc(d)
    BY <1>c, <1>4, ActiveAsked DEF chooseGraphDoc
<1> QED
    BY <1>1, <1>2, <1>3, <1>4

LEMMA HomeAsked == ASSUME NEW p, Fits(p), Asked(p) PROVE Asked(resetWorkspaceState(p))
<1> DEFINE c == closeDrawer(p)
           q == [c EXCEPT !.busy = FALSE, !.view = "graph", !.isolated = None]
           r == IF q.path.on THEN clearPath(q) ELSE q
           z == [r EXCEPT !.active = None, !.selected = None, !.reading = None, !.held = None]
<1>1. resetWorkspaceState(p) = Hint(z)
    BY Zenon DEF resetWorkspaceState
<1>2. Fits(c)
    BY CloseFits
<1> HIDE DEF c
<1>3. q \in Page
    BY <1>2, MaybeHolds DEF Fits, Page
<1>4. /\ q.owner = c.owner /\ q.synth = c.synth /\ q.path = c.path /\ q.pop = c.pop
      /\ q.phone = c.phone /\ q.sheet = c.sheet /\ q.busy = FALSE
    BY <1>2 DEF Fits, Page
<1> HIDE DEF q
<1>5. r \in Page /\ r.busy = FALSE
    <2> DEFINE v == [q EXCEPT !.path = NoPath]
    <2>1. CASE q.path.on
        <3>1. NoPath \in Paths
            BY DEF NoPath, Paths, Maybe
        <3>2. v \in Page /\ v.busy = FALSE
            BY <1>3, <1>4, <3>1 DEF Page
        <3>3. Fits(Hint(v))
            BY <1>2, <1>3, <1>4, NoPathFits DEF Fits, Rest
        <3>4. Hint(v).busy = FALSE
            <4> HIDE DEF v
            <4> QED BY <3>2 DEF Hint, Panel, Page
        <3>5. r = Reveal(Hint(v))
            BY <2>1 DEF clearPath
        <3> HIDE DEF v
        <3>6. Reveal(Hint(v)).busy = Hint(v).busy
            <4> DEFINE w == Hint(v)
            <4>1. w \in Page
                BY <3>3 DEF Fits
            <4> HIDE DEF w
            <4>2. Reveal(w).busy = w.busy
                BY <4>1 DEF Reveal, closeDrawer, hideNodePop, Page
            <4> QED BY <4>2 DEF w
        <3> QED BY <3>3, <3>4, <3>5, <3>6, RevealFits DEF Fits
    <2> QED BY <1>3, <1>4, <2>1
<1> HIDE DEF r
<1>6. z \in Page /\ z.busy = FALSE
    BY <1>5, MaybeHolds DEF Page
<1> HIDE DEF z
<1> QED
    BY <1>1, <1>6, HintAsked DEF Busied

LEMMA ViewsAsked ==
    ASSUME Fits(page), Asked(page),
           ClickBeside \/ Escape \/ ToggleDrawer \/ Leave \/ ShowGraph \/ Isolate
           \/ TogglePath \/ AnotherPath \/ ClearPath \/ Purged \/ Home
    PROVE  Asked(page')
<1>1. CASE ClickBeside
    BY <1>1, PressedAsked, HidePopAsked, UnselectAsked DEF ClickBeside
<1>2. CASE Escape
    BY <1>2, DrawerAsked, UnselectAsked DEF Escape
<1>3. CASE ToggleDrawer
    BY <1>3, DrawerAsked DEF ToggleDrawer
<1>4. CASE Leave
    BY <1>4, HidePopAsked DEF Leave
<1>5. CASE ShowGraph
    BY <1>5, FreeAsked DEF ShowGraph
<1>6. CASE Isolate
    BY <1>6, NodePanel, IsolationAsked DEF Isolate
<1>7. CASE TogglePath
    BY <1>7, PathAsked DEF TogglePath
<1>8. CASE AnotherPath
    BY <1>8, PathAsked DEF AnotherPath, restartPath, Maybe
<1>9. CASE ClearPath
    BY <1>9, PathAsked DEF ClearPath
<1>10. CASE Purged
    <2>1. page'.panel = page.panel /\ page'.active = None /\ page'.calls = page.calls
          /\ page'.busy = page.busy
        BY <1>10 DEF Purged, Fits, Page
    <2> QED BY <2>1, StillAsked
<1>11. CASE Home
    BY <1>11, HomeAsked DEF Home
<1> QED
    BY <1>1, <1>2, <1>3, <1>4, <1>5, <1>6, <1>7, <1>8, <1>9, <1>10, <1>11

LEMMA WorkAsked ==
    ASSUME Fits(page), Asked(page),
           \/ BackToDocument \/ BackToNode \/ addToSynth \/ synth \/ doResearch
           \/ promoteEntityAlias \/ HoverFires \/ PollFindsChange
    PROVE  Asked(page')
<1>0. /\ page.active \in Maybe(Docs) /\ page.hover \in Maybe(Nodes)
      /\ page \in Page /\ Rest(page) /\ Busied(page)
    BY DEF Fits, Page, Asked
<1>c. ASSUME Room PROVE Fits(Count(page)) /\ Asked(Count(page))
    BY <1>c, CountAsked DEF Room
<1>w. ASSUME Room
      PROVE  LET w == openDetailPane(Panel(Count(page), "work", None)) IN Fits(w) /\ Asked(w)
    BY <1>c, <1>w, PanelFits, PanelAsked, PaneFits, DrawerAsked DEF Fits, Maybe, Asked
<1>1. CASE BackToDocument
    BY <1>0, <1>1, LoadDocAsked DEF BackToDocument, Maybe
<1>2. CASE BackToNode
    BY <1>2, NodeAsked DEF BackToNode
<1>3. CASE addToSynth
    <2> DEFINE n == page.panel.of
               c == [page EXCEPT !.synth = @ \cup {n}]
    <2>1. n \in Nodes /\ page.owner /\ Room
        BY <1>3, NodePanel DEF addToSynth, canWrite
    <2>2. Fits(c) /\ Asked(c)
        <3>1. page.synth \cup {n} \in SUBSET Nodes
            BY <1>0, <2>1 DEF Page
        <3> QED BY <2>1, <3>1, CollectFits, FreeAsked
    <2>3. c.made = page.made
        BY <1>0 DEF Page
    <2>4. page' = IF n = Count(c).selected THEN loadNode(Count(c), n, TRUE) ELSE Count(c)
        BY <1>3 DEF addToSynth
    <2> HIDE DEF c
    <2> QED BY <2>1, <2>2, <2>3, <2>4, CountAsked, NodeAsked DEF Room
<1>4. CASE synth
    BY <1>4, <1>w, SendAsked DEF synth
<1>5. CASE doResearch
    BY <1>5, <1>w, SendAsked DEF doResearch
<1>6. CASE promoteEntityAlias
    BY <1>6, <1>c, SendAsked DEF promoteEntityAlias
<1>7. CASE HoverFires
    <2> DEFINE h == [page EXCEPT !.hover = None]
    <2>1. Fits(h) /\ Asked(h) /\ h.made = page.made
        BY <1>0, FreeFits, FreeAsked DEF Maybe, Page
    <2> HIDE DEF h
    <2>2. Fits(Count(h)) /\ Asked(Count(h))
        BY <1>7, <2>1, CountAsked DEF HoverFires, Room
    <2> QED BY <1>0, <1>7, <2>2, NodeAsked DEF HoverFires, Maybe, h
<1>8. CASE PollFindsChange
    BY <1>8, <1>c, SendAsked DEF PollFindsChange
<1> QED
    BY <1>1, <1>2, <1>3, <1>4, <1>5, <1>6, <1>7, <1>8

\* A document comes, or fails: with it the reader is no longer busy, and only the
\* panel of the active document stops saying that it is being loaded.
LEMMA ReadsAsked ==
    ASSUME Fits(page), Asked(page), NEW d \in Docs, ReadAnswered(d) \/ ReadFails(d)
    PROVE  Asked(page')
<1> DEFINE t == Taken("read", d)
           p == [t EXCEPT !.held = d, !.busy = FALSE]
           f == [t EXCEPT !.busy = FALSE]
<1>1. /\ \A k, o : Wait(page, k, o) /\ (k # "read" \/ o # d) => Wait(t, k, o)
      /\ t.panel = page.panel /\ t.active = page.active /\ Fits(t)
    BY Left, TakenFits
<1>2. /\ page' = markDocumentSeen(IF p.active = d THEN renderDocPanel(p, d) ELSE p, d)
      \/ page' = IF f.active = d THEN Hint(f) ELSE f
    BY Zenon DEF ReadAnswered, ReadFails, renderReader
<1> HIDE DEF t
<1>3. Fits(p) /\ Fits(f)
    BY <1>1, HoldFits, FreeFits DEF Maybe
<1>4. /\ p.busy = FALSE /\ p.panel = t.panel /\ p.active = t.active /\ p.calls = t.calls
      /\ f.busy = FALSE /\ f.panel = t.panel /\ f.active = t.active /\ f.calls = t.calls
    BY <1>1 DEF Fits, Page
<1> HIDE DEF p, f
<1>5. Busied(p) /\ Busied(f)
    BY <1>4 DEF Busied
<1>6. page.active # d => Asked(p) /\ Asked(f)
    BY <1>1, <1>4, <1>5 DEF Asked, Loaded, Wait
<1>7. Asked(renderDocPanel(p, d)) /\ Fits(renderDocPanel(p, d)) /\ Asked(Hint(f))
    BY <1>3, <1>5, DocPanelAsked, DocPanelFits, HintAsked DEF Fits
<1>8. IF page.active = d
      THEN page' \in {markDocumentSeen(renderDocPanel(p, d), d), Hint(f)}
      ELSE page' \in {markDocumentSeen(p, d), f}
    BY <1>1, <1>2, <1>4
<1> QED
    BY <1>3, <1>6, <1>7, <1>8, SeenAsked

LEMMA DocsAsked ==
    ASSUME Fits(page), Asked(page), NEW d \in Docs, DocAnswered(d)
    PROVE  Asked(page')
<1> DEFINE t == Taken("doc", d)
<1>1. /\ \A k, o : Wait(page, k, o) /\ (k # "doc" \/ o # d) => Wait(t, k, o)
      /\ t.panel = page.panel /\ t.active = page.active /\ t.busy = page.busy /\ Fits(t)
    BY Left, TakenFits
<1>2. page' = Hint(t) \/ IF t.active = d THEN page' = markDocumentSeen(renderDocPanel(t, d), d)
                                         ELSE page' = t
    BY Zenon DEF DocAnswered
<1> HIDE DEF t
<1>3. Busied(t)
    BY <1>1 DEF Asked, Busied
<1>4. t.active # d => Asked(t)
    BY <1>1, <1>3 DEF Asked, Loaded
<1>5. Asked(renderDocPanel(t, d)) /\ Fits(renderDocPanel(t, d)) /\ Asked(Hint(t))
    BY <1>1, <1>3, DocPanelAsked, DocPanelFits, HintAsked DEF Fits
<1> QED
    BY <1>2, <1>4, <1>5, SeenAsked

LEMMA AnswersAsked == ASSUME Fits(page), Asked(page), Answered PROVE Asked(page')
<1>1. ASSUME NEW n \in Nodes, NodeAnswered(n) \/ PromoteAnswered(n) PROVE Asked(page')
    BY <1>1, TakenAsked, RenderAsked, HintAsked, ExpiredAsked
    DEF NodeAnswered, PromoteAnswered, Fits, Asked
<1>2. ASSUME NEW n \in Nodes, PopAnswered(n) PROVE Asked(page')
    <2> DEFINE p == Taken("pop", n)
    <2>1. Fits(p) /\ Asked(p)
        BY TakenAsked
    <2>2. PICK x, y : page' \in {p, [p EXCEPT !.pop = x], [[p EXCEPT !.pop = x] EXCEPT !.pop = y]}
        BY <1>2, Zenon DEF PopAnswered
    <2> HIDE DEF p
    <2>3. page'.panel = p.panel /\ page'.active = p.active /\ page'.calls = p.calls
          /\ page'.busy = p.busy
        BY <2>1, <2>2 DEF Fits, Page
    <2> QED BY <2>1, <2>3, StillAsked
<1>3. ASSUME NEW d \in Docs, PollAnswered(d) PROVE Asked(page')
    BY <1>3, TakenAsked, DocPanelAsked DEF PollAnswered, Fits, Asked
<1>4. ASSUME NEW d \in Docs, SeenAnswered(d) PROVE Asked(page')
    BY <1>4, TakenAsked, ExpiredAsked DEF SeenAnswered
<1>5. ASSUME NEW of \in Maybe(Docs \cup Nodes), NEW kind \in {"synth", "research"},
             WorkAnswered(kind, of)
      PROVE  Asked(page')
    BY <1>5, TakenAsked, PanelAsked, HintAsked, ExpiredFits, ExpiredAsked
    DEF WorkAnswered, Fits, Asked
<1> QED
    BY <1>1, <1>2, <1>3, <1>4, <1>5, ReadsAsked, DocsAsked DEF Answered

\* Whatever came in between, the panel that says a document is being loaded and a
\* busy reader wait for a call that is under way.
THEOREM LoadingsAreAsked == Spec => []LoadingIsAsked
<1>1. ASSUME Fits(page), Asked(page), Next PROVE Asked(page')
    BY <1>1, PressesAsked, NodesAsked, DocumentsAsked, ViewsAsked, WorkAsked, AnswersAsked
    DEF Next, User, Maybe
<1>2. Fits(page) /\ Asked(page) /\ [Next]_page => Asked(page)'
    <2>1. ASSUME Asked(page), UNCHANGED page PROVE Asked(page)'
        BY <2>1 DEF Asked, Loaded, Busied, Wait
    <2>2. Asked(page') <=> Asked(page)'
        BY DEF Asked, Loaded, Busied, Wait
    <2> QED BY <1>1, <2>1, <2>2
<1>3. Init => Asked(page)
    <2> SUFFICES ASSUME Init PROVE Asked(page)
        OBVIOUS
    <2>1. page.panel.kind = "hint" /\ page.busy = FALSE
        BY DEF Init
    <2> QED BY <2>1 DEF Asked, Loaded, Busied
<1>4. Asked(page) => LoadingIsAsked
    BY DEF Asked, Loaded, Busied, Wait, Waiting, LoadingIsAsked
<1> QED
    BY <1>2, <1>3, <1>4, PageFits, PTL DEF Spec
================================================================================
