-------------------------- MODULE DocumentListProofs --------------------------
(***************************************************************************)
(* What holds of the document list for any themes, documents, texts and    *)
(* number of calls: its types, that the list is never behind the documents *)
(* and flags the page holds, and that only the last search is taken.       *)
(*                                                                         *)
(* Every function of the page keeps Fits and is Tame: it takes no results  *)
(* and no marks but those there were; it is Calm when it leaves the        *)
(* documents and flags alone as well.  Before the list is drawn again the  *)
(* page is Loose only.  A page is Silent when no search is live; the       *)
(* invariant says that it is, or that the live search is the latest.       *)
(***************************************************************************)
EXTENDS DocumentList, TLAPS

Showing == [kind: {"list", "results", "prompt", "failed"}, text: Boxes,
            docs: SUBSET Docs, hidden: SUBSET Docs, tools: BOOLEAN]
Result == [n: 0..MaxCalls, query: Boxes, docs: SUBSET Docs, hits: BOOLEAN]
Page == [access: Scopes, known: BOOLEAN, theme: Themes, view: Views,
         docq: Boxes, q: Boxes, active: BOOLEAN, showHidden: BOOLEAN,
         timer: Boxes \cup {NoTimer}, started: 0..MaxCalls, searches: SUBSET Search,
         results: Result, marked: {ByLabel} \cup 0..MaxCalls,
         held: SUBSET Docs, is: Marks, shown: Showing]

\* A search whose number still stands is the last one.
Alive(p) == \A s \in p.searches : s.live => s.n = p.started
Current(p) == p.shown.kind = "list" => p.shown.docs = Listed(p, p.shown.text)

Loose(p) == p \in Page /\ Alive(p)
Fits(p) == Loose(p) /\ Current(p)

Took(p, q) == /\ q.results \in {p.results, NoResults}
              /\ q.marked \in {p.marked, Unmarked, ByLabel}
\* No answer that is still to come will be taken.
Silent(p) == \A s \in p.searches : ~s.live

Tame(p, q) == q.started = p.started /\ Took(p, q) /\ (Silent(p) => Silent(q))
Calm(p, q) == Tame(p, q) /\ q.held = p.held /\ q.is = p.is

LEMMA BoxesHold ==
    /\ Blank \in Boxes /\ IsMissing \in Boxes /\ Queries \subseteq Boxes /\ NoTimer \in Boxes \cup {NoTimer}
    /\ \A v \in Boxes : v \in Boxes \cup {NoTimer} /\ Matches(v) \subseteq Docs /\ Named(v) \subseteq Docs
BY ListAssumption DEF Boxes, Matches, Named

LEMMA NoResultsFit == NoResults \in Result
BY BoxesHold, ListAssumption DEF NoResults, Result

LEMMA LooseSame ==
    ASSUME NEW p, Loose(p), NEW q \in Page, q.searches = p.searches, q.started = p.started
    PROVE  Loose(q)
BY DEF Loose, Alive

LEMMA CurrentSame ==
    ASSUME NEW p, Current(p), NEW q, q.shown = p.shown, q.held = p.held, q.is = p.is
    PROVE  Current(q)
BY DEF Current, Listed

LEMMA CalmFollows ==
    ASSUME NEW p, NEW q, NEW r, Calm(p, q), Calm(q, r)
    PROVE  Calm(p, r)
BY DEF Calm, Tame, Took, Silent

LEMMA TameFollows ==
    ASSUME NEW p, NEW q, NEW r, Tame(p, q), Tame(q, r)
    PROVE  Tame(p, r)
BY DEF Tame, Took, Silent

\* The searches alone are changed.
LEMMA SearchesFit ==
    ASSUME NEW p, Loose(p), NEW S \in SUBSET Search, \A s \in S : s.live => s.n = p.started,
           Silent(p) => \A s \in S : ~s.live
    PROVE  /\ Loose([p EXCEPT !.searches = S]) /\ Calm(p, [p EXCEPT !.searches = S])
           /\ Fits(p) => Fits([p EXCEPT !.searches = S])
<1> DEFINE q == [p EXCEPT !.searches = S]
<1>1. q \in Page
    BY DEF Loose, Page
<1>2. /\ q.searches = S /\ q.started = p.started /\ q.shown = p.shown /\ q.held = p.held /\ q.is = p.is
      /\ q.results = p.results /\ q.marked = p.marked
    BY DEF Loose, Page
<1> HIDE DEF q
<1>3. Loose(q) /\ Calm(p, q)
    BY <1>1, <1>2 DEF Loose, Alive, Calm, Tame, Took, Silent
<1>4. Fits(p) => Fits(q)
    BY <1>2, <1>3, CurrentSame DEF Fits
<1> QED
    BY <1>3, <1>4 DEF q

LEMMA CancelFits ==
    ASSUME NEW p, Loose(p)
    PROVE  /\ Loose(cancelServerSearch(p)) /\ Calm(p, cancelServerSearch(p))
           /\ Fits(p) => Fits(cancelServerSearch(p))
<1> DEFINE B == {r \in p.searches : r.phase = "body"}
           S == {[s EXCEPT !.aborted = TRUE] : s \in B}
<1>1. p.searches \subseteq Search
    BY DEF Loose, Page
<1>2. \A s \in B : /\ [s EXCEPT !.aborted = TRUE] \in Search
                   /\ [s EXCEPT !.aborted = TRUE].live = s.live /\ [s EXCEPT !.aborted = TRUE].n = s.n
    BY <1>1 DEF Search
<1>3. S \in SUBSET Search /\ (\A s \in S : s.live => s.n = p.started)
      /\ (Silent(p) => \A s \in S : ~s.live)
    BY <1>2 DEF Loose, Alive, Silent
<1>4. cancelServerSearch(p) = [p EXCEPT !.searches = S]
    BY DEF cancelServerSearch
<1> HIDE DEF S
<1> QED
    BY <1>3, <1>4, SearchesFit

LEMMA OvertakeFits ==
    ASSUME NEW p, Loose(p)
    PROVE  /\ Loose(Overtake(p)) /\ Calm(p, Overtake(p))
           /\ Fits(p) => Fits(Overtake(p))
           /\ Silent(Overtake(p))
<1> DEFINE c == cancelServerSearch(p)
           S == {[s EXCEPT !.live = FALSE] : s \in c.searches}
<1>1. Loose(c) /\ Calm(p, c) /\ (Fits(p) => Fits(c))
    BY CancelFits
<1>2. Overtake(p) = [c EXCEPT !.searches = S]
    BY DEF Overtake
<1> HIDE DEF c
<1>3. c.searches \subseteq Search
    BY <1>1 DEF Loose, Page
<1>4. \A s \in c.searches : [s EXCEPT !.live = FALSE] \in Search /\ ~[s EXCEPT !.live = FALSE].live
    BY <1>3 DEF Search
<1>5. S \in SUBSET Search /\ \A s \in S : ~s.live
    BY <1>4
<1> HIDE DEF S
<1>6. [c EXCEPT !.searches = S].searches = S
    BY <1>1 DEF Loose, Page
<1>7. Silent([c EXCEPT !.searches = S])
    BY <1>5, <1>6 DEF Silent
<1> QED
    BY <1>1, <1>2, <1>5, <1>7, SearchesFit, CalmFollows

(***************************************************************************)
(* The list is drawn                                                       *)
(***************************************************************************)
LEMMA DrawnFits ==
    ASSUME NEW p, Loose(p), NEW x \in Showing,
           x.kind = "list" => x.docs = Listed(p, x.text)
    PROVE  Fits([p EXCEPT !.shown = x]) /\ Calm(p, [p EXCEPT !.shown = x])
<1> DEFINE q == [p EXCEPT !.shown = x]
<1>1. q \in Page
    BY DEF Loose, Page
<1>2. /\ q.searches = p.searches /\ q.started = p.started /\ q.shown = x /\ q.held = p.held /\ q.is = p.is
      /\ q.results = p.results /\ q.marked = p.marked
    BY DEF Loose, Page
<1> HIDE DEF q
<1>3. Loose(q) /\ Calm(p, q) /\ Current(q)
    BY <1>1, <1>2, LooseSame DEF Calm, Tame, Took, Silent, Current, Listed
<1> QED
    BY <1>3 DEF Fits, q

LEMMA ListFits ==
    ASSUME NEW p, Loose(p), NEW text \in Boxes
    PROVE  Fits(List(p, text)) /\ Calm(p, List(p, text))
<1> DEFINE h == IF canWrite(p) /\ p.showHidden THEN p.held \cap Matches(text) \cap p.is.hidden ELSE {}
           x == [kind |-> "list", text |-> text, docs |-> Listed(p, text), hidden |-> h,
                 tools |-> canWrite(p)]
<1>1. Listed(p, text) \subseteq Docs /\ h \subseteq Docs /\ canWrite(p) \in BOOLEAN
    BY BoxesHold DEF Loose, Page, Listed, canWrite
<1>2. List(p, text) = [p EXCEPT !.shown = x]
    BY Zenon DEF List
<1> HIDE DEF h
<1>3. x \in Showing /\ x.docs = Listed(p, x.text)
    BY <1>1 DEF Showing
<1> HIDE DEF x
<1> QED
    BY <1>2, <1>3, DrawnFits

LEMMA ServerDocsFits ==
    ASSUME NEW p, Loose(p)
    PROVE  Fits(renderServerDocs(p)) /\ Calm(p, renderServerDocs(p))
<1> DEFINE x == [kind |-> "results", text |-> p.results.query, docs |-> p.results.docs,
                 hidden |-> {}, tools |-> canWrite(p)]
<1>1. p.results \in Result /\ canWrite(p) \in BOOLEAN
    BY DEF Loose, Page, canWrite
<1>2. x \in Showing /\ x.kind = "results"
    BY <1>1 DEF Showing, Result
<1>3. renderServerDocs(p) = [p EXCEPT !.shown = x]
    BY DEF renderServerDocs
<1> HIDE DEF x
<1> QED
    BY <1>2, <1>3, DrawnFits

LEMMA PromptFits ==
    ASSUME NEW p, Loose(p)
    PROVE  Fits(Prompt(p)) /\ Calm(p, Prompt(p))
<1> DEFINE x == [kind |-> "prompt", text |-> Blank, docs |-> {}, hidden |-> {}, tools |-> FALSE]
<1>1. x \in Showing /\ x.kind = "prompt"
    BY BoxesHold DEF Showing
<1>2. Prompt(p) = [p EXCEPT !.shown = x]
    BY DEF Prompt
<1> HIDE DEF x
<1> QED
    BY <1>1, <1>2, DrawnFits

LEMMA RenderFits ==
    ASSUME NEW p, Loose(p), NEW text \in Boxes
    PROVE  /\ Fits(renderDocs(p, text)) /\ Calm(p, renderDocs(p, text))
           /\ p.active /\ text # Blank /\ ~(p.results.n # 0 /\ p.results.query = text)
                 => Silent(renderDocs(p, text))
<1>1. Fits(List(Overtake(p), text)) /\ Calm(p, List(Overtake(p), text)) /\ Silent(List(Overtake(p), text))
    <2>1. Loose(Overtake(p)) /\ Calm(p, Overtake(p)) /\ Silent(Overtake(p))
        BY OvertakeFits
    <2>2. Fits(List(Overtake(p), text)) /\ Calm(Overtake(p), List(Overtake(p), text))
        BY <2>1, ListFits
    <2> QED
        BY <2>1, <2>2, CalmFollows DEF Calm, Tame
<1> QED
    BY <1>1, ListFits, PromptFits, ServerDocsFits DEF renderDocs

(***************************************************************************)
(* The boxes                                                               *)
(***************************************************************************)
LEMMA TouchFits ==
    ASSUME NEW p, Loose(p), NEW q \in Page, q.searches = p.searches, q.started = p.started
    PROVE  /\ Loose(q)
           /\ Fits(p) /\ q.shown = p.shown /\ q.held = p.held /\ q.is = p.is => Fits(q)
<1>1. Loose(q)
    BY LooseSame
<1> QED
    BY <1>1, CurrentSame DEF Fits

LEMMA TypedTextFits ==
    ASSUME NEW p, Loose(p), NEW v \in Boxes
    PROVE  /\ Fits(onDocqInput(p, v)) /\ Calm(p, onDocqInput(p, v))
           /\ v # Blank /\ ~(p.results.n # 0 /\ p.results.query = v) => Silent(onDocqInput(p, v))
<1> DEFINE x == IF p.results.query = v THEN p.results ELSE NoResults
           y == IF p.view = "reader" THEN v ELSE p.q
           z == [p EXCEPT !.active = TRUE, !.results = x, !.q = y]
<1>0. p \in Page
    BY DEF Loose
<1>1. x \in Result /\ x \in {p.results, NoResults} /\ y \in Boxes
    BY <1>0, NoResultsFit DEF Page
<1>2. onDocqInput(p, v) = renderDocs(z, v)
    BY DEF onDocqInput
<1>7. x.n # 0 /\ x.query = v => p.results.n # 0 /\ p.results.query = v
    BY DEF NoResults
<1> HIDE DEF x, y
<1>3. z \in Page
    BY <1>0, <1>1 DEF Page
<1>4. /\ z.searches = p.searches /\ z.started = p.started /\ z.results = x /\ z.marked = p.marked
      /\ z.held = p.held /\ z.is = p.is /\ z.active
    BY <1>0 DEF Page
<1> HIDE DEF z
<1>5. Calm(p, z)
    BY <1>1, <1>4 DEF Calm, Tame, Took, Silent
<1>6. Loose(z)
    BY <1>3, <1>4, <1>5, TouchFits
<1> QED
    BY <1>2, <1>4, <1>5, <1>6, <1>7, RenderFits, CalmFollows

LEMMA ClearFits ==
    ASSUME NEW p, Loose(p)
    PROVE  Fits(clearServerSearch(p)) /\ Calm(p, clearServerSearch(p))
<1> DEFINE c == cancelServerSearch(p)
           y == IF p.view = "reader" THEN Blank ELSE c.q
           z == [c EXCEPT !.results = NoResults, !.docq = Blank, !.active = FALSE, !.q = y]
<1>0. Loose(c) /\ Calm(p, c)
    BY CancelFits
<1>1. clearServerSearch(p) = renderDocs(z, Blank)
    BY DEF clearServerSearch
<1> HIDE DEF c
<1>2. c \in Page /\ y \in Boxes
    BY <1>0, BoxesHold DEF Loose, Page
<1> HIDE DEF y
<1>3. z \in Page
    BY <1>2, BoxesHold, NoResultsFit DEF Page
<1>4. /\ z.searches = c.searches /\ z.started = c.started /\ z.results = NoResults
      /\ z.marked = c.marked /\ z.held = c.held /\ z.is = c.is
    BY <1>2 DEF Page
<1> HIDE DEF z
<1>5. Calm(c, z)
    BY <1>4 DEF Calm, Tame, Took, Silent
<1>6. Loose(z)
    BY <1>0, <1>3, <1>4, <1>5, TouchFits
<1> QED
    BY <1>0, <1>1, <1>5, <1>6, BoxesHold, RenderFits, CalmFollows

\* A search begins.
Begun(p, q) == q.started = p.started + 1 /\ Took(p, q) /\ q.held = p.held /\ q.is = p.is

LEMMA AskFits ==
    ASSUME NEW p, Fits(p), p.started < MaxCalls, NEW text \in Boxes, NEW kind \in {"list", "graph"}
    PROVE  Fits(Ask(p, text, kind)) /\ Begun(p, Ask(p, text, kind))
<1> DEFINE c == Overtake(p)
           s == [n |-> c.started + 1, query |-> text, kind |-> kind,
                 live |-> TRUE, aborted |-> FALSE, phase |-> "sent"]
           z == [c EXCEPT !.started = c.started + 1, !.searches = c.searches \cup {s}]
<1>1. Fits(c) /\ Calm(p, c) /\ (\A r \in c.searches : ~r.live)
    BY OvertakeFits DEF Fits, Silent
<1>2. Ask(p, text, kind) = z
    BY DEF Ask
<1> HIDE DEF c
<1>3. c \in Page /\ c.started + 1 \in 1..MaxCalls
    BY <1>1, ListAssumption DEF Fits, Loose, Page, Calm, Tame
<1>4. s \in Search /\ s.n = c.started + 1
    BY <1>3 DEF Search
<1> HIDE DEF s
<1>5. z \in Page
    <2>1. c.started + 1 \in 0..MaxCalls /\ c.searches \cup {s} \in SUBSET Search
        BY <1>3, <1>4 DEF Page
    <2> QED BY <1>3, <2>1 DEF Page
<1>6. /\ z.searches = c.searches \cup {s} /\ z.started = c.started + 1 /\ z.results = c.results
      /\ z.marked = c.marked /\ z.shown = c.shown /\ z.held = c.held /\ z.is = c.is
    BY <1>3 DEF Page
<1> HIDE DEF z
<1>7. Loose(z)
    BY <1>1, <1>4, <1>5, <1>6 DEF Loose, Alive
<1>8. Current(z)
    BY <1>1, <1>6, CurrentSame DEF Fits
<1>9. Begun(p, z)
    BY <1>1, <1>6 DEF Begun, Calm, Tame, Took, Silent
<1> QED
    BY <1>2, <1>7, <1>8, <1>9 DEF Fits

LEMMA MarkFits ==
    ASSUME NEW p, Fits(p), NEW text
    PROVE  Fits(hl(p, text)) /\ Calm(p, hl(p, text)) /\ Silent(hl(p, text))
<1> DEFINE c == Overtake(p)
           m == IF text = Blank THEN Unmarked ELSE ByLabel
           z == [c EXCEPT !.marked = m]
<1>1. Fits(c) /\ Calm(p, c) /\ Silent(c)
    BY OvertakeFits DEF Fits
<1>2. hl(p, text) = z
    BY DEF hl
<1>3. m \in {Unmarked, ByLabel} /\ m \in {ByLabel} \cup 0..MaxCalls
    BY ListAssumption DEF Unmarked
<1> HIDE DEF c, m
<1>4. c \in Page
    BY <1>1 DEF Fits, Loose
<1>5. z \in Page
    BY <1>3, <1>4 DEF Page
<1>6. /\ z.searches = c.searches /\ z.started = c.started /\ z.results = c.results
      /\ z.marked = m /\ z.shown = c.shown /\ z.held = c.held /\ z.is = c.is
    BY <1>4 DEF Page
<1> HIDE DEF z
<1>7. Calm(c, z)
    BY <1>3, <1>6 DEF Calm, Tame, Took, Silent
<1>8. Silent(z)
    BY <1>1, <1>7 DEF Calm, Tame
<1> QED
    BY <1>1, <1>2, <1>5, <1>6, <1>7, <1>8, TouchFits, CalmFollows DEF Fits

\* Fields that neither the list nor the searches depend on ...
LEMMA FieldsFit ==
    ASSUME NEW p, Fits(p), NEW v \in Boxes, NEW w \in Boxes, NEW t \in Boxes \cup {NoTimer},
           NEW view \in Views, NEW b \in BOOLEAN, NEW access \in Scopes, NEW theme \in Themes
    PROVE  LET Kept(q) == Fits(q) /\ Calm(p, q) IN
           /\ Kept([p EXCEPT !.timer = t]) /\ Kept([p EXCEPT !.q = v, !.docq = w])
           /\ Kept([p EXCEPT !.view = view]) /\ Kept([p EXCEPT !.active = b])
           /\ Kept([p EXCEPT !.showHidden = b]) /\ Kept([p EXCEPT !.known = b])
           /\ Kept([p EXCEPT !.access = access, !.showHidden = b])
           /\ Kept([p EXCEPT !.active = b, !.docq = v])
           /\ Kept([p EXCEPT !.active = b, !.docq = v, !.view = view])
           /\ Kept([p EXCEPT !.docq = v]) /\ Kept([p EXCEPT !.theme = theme])
           /\ Kept([p EXCEPT !.q = v, !.timer = t, !.marked = Unmarked])
<1> DEFINE Same(q) == /\ q \in Page /\ q.searches = p.searches /\ q.started = p.started
                      /\ q.results = p.results /\ q.marked \in {p.marked, Unmarked}
                      /\ q.shown = p.shown /\ q.held = p.held /\ q.is = p.is
<1>0. p \in Page /\ Loose(p) /\ Unmarked \in 0..MaxCalls
    BY ListAssumption DEF Fits, Loose, Unmarked
<1>1. ASSUME NEW q, Same(q) PROVE Fits(q) /\ Calm(p, q)
    <2>1. Calm(p, q)
        BY <1>1 DEF Calm, Tame, Took, Silent
    <2> QED BY <1>0, <1>1, <2>1, TouchFits
<1>2. Same([p EXCEPT !.timer = t]) /\ Same([p EXCEPT !.q = v, !.docq = w])
    BY <1>0 DEF Page
<1>3. Same([p EXCEPT !.view = view]) /\ Same([p EXCEPT !.active = b])
    BY <1>0 DEF Page
<1>4. Same([p EXCEPT !.showHidden = b]) /\ Same([p EXCEPT !.known = b])
    BY <1>0 DEF Page
<1>5. Same([p EXCEPT !.access = access, !.showHidden = b])
    BY <1>0 DEF Page
<1>6. Same([p EXCEPT !.active = b, !.docq = v])
    BY <1>0 DEF Page
<1>7. Same([p EXCEPT !.active = b, !.docq = v, !.view = view])
    BY <1>0 DEF Page
<1>8. Same([p EXCEPT !.docq = v]) /\ Same([p EXCEPT !.theme = theme])
    BY <1>0 DEF Page
<1>9. Same([p EXCEPT !.q = v, !.timer = t, !.marked = Unmarked])
    BY <1>0 DEF Page
<1> HIDE DEF Same
<1> QED
    BY <1>1, <1>2, <1>3, <1>4, <1>5, <1>6, <1>7, <1>8, <1>9

\* ... one at a time.
LEMMA FreeFits ==
    ASSUME NEW p, Fits(p)
    PROVE  LET Kept(q) == Fits(q) /\ Calm(p, q) IN
           /\ \A t \in Boxes \cup {NoTimer} : Kept([p EXCEPT !.timer = t])
           /\ \A v \in Boxes, w \in Boxes : Kept([p EXCEPT !.q = v, !.docq = w])
           /\ \A view \in Views : Kept([p EXCEPT !.view = view])
           /\ \A b \in BOOLEAN : /\ Kept([p EXCEPT !.active = b]) /\ Kept([p EXCEPT !.showHidden = b])
                                 /\ Kept([p EXCEPT !.known = b])
           /\ \A access \in Scopes, b \in BOOLEAN : Kept([p EXCEPT !.access = access, !.showHidden = b])
           /\ \A v \in Boxes, b \in BOOLEAN : Kept([p EXCEPT !.active = b, !.docq = v])
           /\ \A v \in Boxes, b \in BOOLEAN, view \in Views :
                 Kept([p EXCEPT !.active = b, !.docq = v, !.view = view])
           /\ \A v \in Boxes : Kept([p EXCEPT !.docq = v])
           /\ \A theme \in Themes : Kept([p EXCEPT !.theme = theme])
           /\ \A v \in Boxes, t \in Boxes \cup {NoTimer} :
                 Kept([p EXCEPT !.q = v, !.timer = t, !.marked = Unmarked])
<1>1. /\ Blank \in Boxes /\ NoTimer \in Boxes \cup {NoTimer} /\ "graph" \in Views /\ TRUE \in BOOLEAN
      /\ "other" \in Scopes /\ First \in Themes
    BY BoxesHold, ListAssumption DEF Scopes
<1> DEFINE Kept(q) == Fits(q) /\ Calm(p, q)
<1>2. \A t \in Boxes \cup {NoTimer} : Kept([p EXCEPT !.timer = t])
    BY <1>1, FieldsFit
<1>3. \A v \in Boxes, w \in Boxes : Kept([p EXCEPT !.q = v, !.docq = w])
    BY <1>1, FieldsFit
<1>4. \A view \in Views : Kept([p EXCEPT !.view = view])
    BY <1>1, FieldsFit
<1>5. \A b \in BOOLEAN : /\ Kept([p EXCEPT !.active = b]) /\ Kept([p EXCEPT !.showHidden = b])
                         /\ Kept([p EXCEPT !.known = b])
    <2> TAKE b \in BOOLEAN
    <2>1. Kept([p EXCEPT !.active = b])
        BY <1>1, FieldsFit
    <2>2. Kept([p EXCEPT !.showHidden = b])
        BY <1>1, FieldsFit
    <2>3. Kept([p EXCEPT !.known = b])
        BY <1>1, FieldsFit
    <2> QED BY <2>1, <2>2, <2>3
<1>6. \A access \in Scopes, b \in BOOLEAN : Kept([p EXCEPT !.access = access, !.showHidden = b])
    BY <1>1, FieldsFit
<1>7. \A v \in Boxes, b \in BOOLEAN : Kept([p EXCEPT !.active = b, !.docq = v])
    BY <1>1, FieldsFit
<1>8. \A v \in Boxes, b \in BOOLEAN, view \in Views :
         Kept([p EXCEPT !.active = b, !.docq = v, !.view = view])
    BY <1>1, FieldsFit
<1>9. (\A v \in Boxes : Kept([p EXCEPT !.docq = v])) /\ (\A theme \in Themes : Kept([p EXCEPT !.theme = theme]))
    BY <1>1, FieldsFit
<1>10. \A v \in Boxes, t \in Boxes \cup {NoTimer} :
         Kept([p EXCEPT !.q = v, !.timer = t, !.marked = Unmarked])
    BY <1>1, FieldsFit
<1> QED
    BY <1>2, <1>3, <1>4, <1>5, <1>6, <1>7, <1>8, <1>9, <1>10

\* p itself.
LEMMA CalmSelf == \A p : Calm(p, p)
BY DEF Calm, Tame, Took, Silent

LEMMA InputFits ==
    ASSUME NEW p, Fits(p), NEW v \in Boxes
    PROVE  Fits(onSearchInput(p, v)) /\ Calm(p, onSearchInput(p, v)) /\ Silent(onSearchInput(p, v))
<1> DEFINE c == Overtake(p)
           n == [c EXCEPT !.timer = NoTimer]
           d == [c EXCEPT !.timer = v]
<1>1. Fits(c) /\ Calm(p, c) /\ Silent(c)
    BY OvertakeFits DEF Fits
<1>2. onSearchInput(p, v) = IF v = Blank THEN hl(n, v) ELSE d
    BY DEF onSearchInput
<1> HIDE DEF c
<1>3. Fits(n) /\ Calm(c, n) /\ Fits(d) /\ Calm(c, d)
    BY <1>1, BoxesHold, FreeFits
<1> HIDE DEF n, d
<1>4. Fits(hl(n, v)) /\ Calm(n, hl(n, v)) /\ Silent(hl(n, v))
    BY <1>3, MarkFits
<1>5. Silent(d)
    BY <1>1, <1>3 DEF Calm, Tame
<1> QED
    BY <1>1, <1>2, <1>3, <1>4, <1>5, CalmFollows

\* Text typed in the box of the middle ends what it says it ends.
LEMMA CenterFits ==
    ASSUME NEW p, Fits(p), NEW v \in Boxes
    PROVE  LET q == onCenterSearchInput(p, v) IN
           /\ Fits(q) /\ Calm(p, q)
           /\ p.view = "reader" /\ v # Blank /\ ~(p.results.n # 0 /\ p.results.query = v) => Silent(q)
           /\ p.view \notin {"reader", "stream"} => Silent(q)
<1> DEFINE t == [p EXCEPT !.q = v, !.docq = v]
<1>1. Fits(t) /\ Calm(p, t)
    BY FreeFits
<1>2. p \in Page
    BY DEF Fits, Loose
<1>3. t.view = p.view /\ t.results = p.results
    BY <1>2 DEF Page
<1>4. CASE p.view = "reader"
    <2>1. onCenterSearchInput(p, v) = onDocqInput(t, v)
        BY <1>4 DEF onCenterSearchInput
    <2> HIDE DEF t
    <2> QED BY <1>1, <1>3, <1>4, <2>1, TypedTextFits, CalmFollows DEF Fits
<1>5. CASE p.view = "stream"
    <2>1. onCenterSearchInput(p, v) = t
        BY <1>5 DEF onCenterSearchInput
    <2> HIDE DEF t
    <2> QED BY <1>1, <1>5, <2>1
<1>6. CASE p.view \notin {"reader", "stream"}
    <2>1. onCenterSearchInput(p, v) = onSearchInput(t, v)
        BY <1>6 DEF onCenterSearchInput
    <2> HIDE DEF t
    <2> QED BY <1>1, <1>6, <2>1, InputFits, CalmFollows
<1> QED
    BY <1>4, <1>5, <1>6

LEMMA ModeFits ==
    ASSUME NEW p, Fits(p)
    PROVE  Fits(updateCenterSearchMode(p)) /\ Calm(p, updateCenterSearchMode(p))
<1>1. p.q \in Boxes /\ Loose(p)
    BY DEF Fits, Loose, Page
<1> QED
    BY <1>1, CalmSelf, TypedTextFits, MarkFits DEF updateCenterSearchMode

LEMMA ViewFits ==
    ASSUME NEW p, Fits(p), NEW v \in Views
    PROVE  Fits(setCenterView(p, v)) /\ Calm(p, setCenterView(p, v))
<1> DEFINE z == [p EXCEPT !.view = v]
<1>1. Fits(z) /\ Calm(p, z)
    BY FreeFits
<1>2. setCenterView(p, v) = p \/ setCenterView(p, v) = updateCenterSearchMode(z)
    BY DEF setCenterView
<1> HIDE DEF z
<1> QED
    BY <1>1, <1>2, CalmSelf, ModeFits, CalmFollows

LEMMA ScopeFits ==
    ASSUME NEW p, Fits(p), NEW scope \in Scopes
    PROVE  Fits(setAccessScope(p, scope)) /\ Calm(p, setAccessScope(p, scope))
<1> DEFINE b == p.showHidden /\ scope = "owner"
           z == [p EXCEPT !.access = scope, !.showHidden = b]
           u == updateCenterSearchMode(z)
<1>1. Fits(z) /\ Calm(p, z)
    <2>1. b \in BOOLEAN
        OBVIOUS
    <2> HIDE DEF b
    <2> QED BY <2>1, FreeFits
<1>2. setAccessScope(p, scope) = renderDocs(u, u.docq)
    BY DEF setAccessScope
<1> HIDE DEF z
<1>3. Fits(u) /\ Calm(z, u)
    BY <1>1, ModeFits
<1> HIDE DEF u
<1>4. u.docq \in Boxes /\ Loose(u)
    BY <1>3 DEF Fits, Loose, Page
<1>5. Fits(renderDocs(u, u.docq)) /\ Calm(u, renderDocs(u, u.docq))
    BY <1>4, RenderFits
<1> QED
    BY <1>1, <1>2, <1>3, <1>5, CalmFollows

LEMMA ExpiredFits ==
    ASSUME NEW p, Fits(p)
    PROVE  Fits(expireWriteAccess(p)) /\ Calm(p, expireWriteAccess(p))
BY ScopeFits DEF expireWriteAccess, Scopes

LEMMA ResetFits ==
    ASSUME NEW p, Fits(p)
    PROVE  /\ Fits(resetWorkspaceState(p)) /\ Calm(p, resetWorkspaceState(p))
           /\ Silent(resetWorkspaceState(p))
<1> DEFINE c == Overtake(p)
           w == IF c.view = "reader" THEN "graph" ELSE c.view
           z == [c EXCEPT !.active = FALSE, !.docq = Blank, !.view = w]
           l == renderDocs(z, Blank)
           r == [l EXCEPT !.q = Blank, !.timer = NoTimer, !.marked = Unmarked]
<1>1. Fits(c) /\ Calm(p, c) /\ Silent(c)
    BY OvertakeFits DEF Fits
<1>2. resetWorkspaceState(p) = r
    BY DEF resetWorkspaceState
<1> HIDE DEF c
<1>3. w \in Views
    BY <1>1, ListAssumption DEF Fits, Loose, Page
<1> HIDE DEF w
<1>4. Fits(z) /\ Calm(c, z)
    BY <1>1, <1>3, BoxesHold, FreeFits
<1> HIDE DEF z
<1>5. Fits(l) /\ Calm(z, l)
    BY <1>4, BoxesHold, RenderFits DEF Fits
<1> HIDE DEF l
<1>6. Fits(r) /\ Calm(l, r)
    BY <1>5, BoxesHold, FreeFits
<1> HIDE DEF r
<1>7. Silent(r)
    BY <1>1, <1>4, <1>5, <1>6 DEF Calm, Tame
<1> QED
    BY <1>1, <1>2, <1>4, <1>5, <1>6, <1>7, CalmFollows

(***************************************************************************)
(* Documents and flags                                                     *)
(***************************************************************************)
LEMMA FlagFits ==
    ASSUME NEW p, Fits(p), NEW d \in Docs, NEW f \in Flags, NEW val \in BOOLEAN
    PROVE  LET q == Flag(p, d, f, val) IN
           /\ Fits(q) /\ Tame(p, q) /\ q.held = p.held
           /\ q.is = [p.is EXCEPT ![f] = Put(p.is[f], d, val)]
<1> DEFINE x == [p.is EXCEPT ![f] = Put(p.is[f], d, val)]
           z == [p EXCEPT !.is = x]
<1>1. p \in Page /\ p.is \in Marks /\ Loose(p)
    BY DEF Fits, Loose, Page
<1>2. x \in Marks
    BY <1>1 DEF Marks, Put
<1>3. Flag(p, d, f, val) = renderDocs(z, z.docq)
    BY DEF Flag
<1> HIDE DEF x
<1>4. z \in Page
    BY <1>1, <1>2 DEF Page
<1>5. /\ z.searches = p.searches /\ z.started = p.started /\ z.results = p.results /\ z.marked = p.marked
      /\ z.docq = p.docq /\ z.docq \in Boxes /\ z.held = p.held /\ z.is = x
    BY <1>1 DEF Page
<1> HIDE DEF z
<1>6. Tame(p, z)
    BY <1>5 DEF Tame, Took, Silent
<1>7. Loose(z)
    BY <1>1, <1>4, <1>5, <1>6, TouchFits
<1>8. Fits(renderDocs(z, z.docq)) /\ Calm(z, renderDocs(z, z.docq))
    BY <1>5, <1>7, RenderFits
<1> QED
    BY <1>3, <1>5, <1>6, <1>8, TameFollows DEF Calm, x

LEMMA RevertFits ==
    ASSUME NEW p, Fits(p), NEW t \in Toggle
    PROVE  LET q == Revert(p, t) IN
           /\ Fits(q) /\ Tame(p, q) /\ q.held = p.held
           /\ t.own => q.is = [p.is EXCEPT ![t.flag] = Put(p.is[t.flag], t.doc, ~t.val)]
           /\ ~t.own => q.is = p.is
<1>1. t.doc \in Docs /\ t.flag \in Flags /\ (~t.val) \in BOOLEAN
    BY DEF Toggle
<1>2. CASE t.own
    <2> DEFINE v == ~t.val
               q == Flag(p, t.doc, t.flag, v)
    <2>1. v \in BOOLEAN /\ Revert(p, t) = q
        BY <1>2 DEF Revert
    <2> HIDE DEF v
    <2>2. /\ Fits(q) /\ Tame(p, q) /\ q.held = p.held
          /\ q.is = [p.is EXCEPT ![t.flag] = Put(p.is[t.flag], t.doc, v)]
        BY <1>1, <2>1, FlagFits
    <2> HIDE DEF q
    <2> QED BY <1>2, <2>1, <2>2 DEF v
<1>3. CASE ~t.own
    BY <1>3, CalmSelf DEF Revert, Calm
<1> QED
    BY <1>2, <1>3

LEMMA FillFits ==
    ASSUME NEW p, Fits(p), NEW H \in SUBSET Docs, NEW is \in Marks
    PROVE  LET q == Fill(p, H, is) IN
           /\ Loose(q) /\ Tame(p, q) /\ q.docq = p.docq
           /\ q.held = H /\ q.is = [f \in Flags |-> is[f] \cap H]
<1> DEFINE x == [f \in Flags |-> is[f] \cap H]
           z == [p EXCEPT !.held = H, !.is = x]
<1>1. p \in Page /\ Loose(p) /\ x \in Marks
    BY DEF Fits, Loose, Page, Marks
<1>2. Fill(p, H, is) = z
    BY DEF Fill
<1> HIDE DEF x
<1>3. z \in Page
    BY <1>1 DEF Page
<1>4. /\ z.searches = p.searches /\ z.started = p.started /\ z.results = p.results /\ z.marked = p.marked
      /\ z.docq = p.docq /\ z.held = H /\ z.is = x
    BY <1>1 DEF Page
<1> HIDE DEF z
<1>5. Tame(p, z)
    BY <1>4 DEF Tame, Took, Silent
<1> QED
    BY <1>1, <1>2, <1>3, <1>4, <1>5, TouchFits DEF x

(***************************************************************************)
(* Steps                                                                   *)
(***************************************************************************)

\* What holds around the page: the bound leaves room for every call.
Around ==
    /\ server \in Marks /\ toggles \subseteq Toggle /\ answers \subseteq [theme: Themes, is: Marks]
    /\ asked \in [Themes -> Nat] /\ muddled \subseteq Docs /\ panel \subseteq Panel
    /\ homing \in Nat /\ made \in Nat \ {0}
    /\ page.started + homing + made <= MaxCalls

\* An answer that would be taken is one of the search that was started last and
\* not ended.
Heard == latest \in 0..MaxCalls /\ (Silent(page) \/ latest = page.started)

AllFit == Fits(page) /\ Around /\ Heard

\* Results and marks are those of the last search, or what they were.
Last ==
    /\ page'.results.n \notin {0, page.results.n} => page'.results.n = latest
    /\ page'.marked \notin {Unmarked, ByLabel, page.marked, page.results.n}
          => page'.marked = latest

\* What a step may make of the last search: it stays, or is ended.
Listens == latest' = latest \/ (latest' = 0 /\ Silent(page'))

\* The documents and their flags stay as they are.
Still == page'.held = page.held /\ page'.is = page.is

LEMMA TookIsLast == ASSUME Took(page, page') PROVE Last
BY DEF Took, Last, NoResults

LEMMA HeardStep == ASSUME Heard, Tame(page, page'), Listens PROVE Heard'
BY ListAssumption DEF Heard, Tame, Listens

LEMMA PanelFits ==
    ASSUME panel \subseteq Panel
    PROVE  Drawn \subseteq Panel /\ \A t \in Toggle : Ticked(t) \subseteq Panel
<1>1. \A b \in Panel : b.was \in BOOLEAN /\ \A x \in BOOLEAN : [b EXCEPT !.box = x] \in Panel
    BY DEF Panel
<1> QED
    BY <1>1 DEF Drawn, Ticked, Toggle

LEMMA InitFits == Init => AllFit
<1> SUFFICES ASSUME Init PROVE AllFit
    OBVIOUS
<1> DEFINE x == [kind |-> "list", text |-> Blank, docs |-> {}, hidden |-> {}, tools |-> FALSE]
           is == [f \in Flags |-> {}]
<1>1. x \in Showing /\ x.docs = {} /\ is \in Marks
    BY BoxesHold DEF Showing, Marks
<1>2. page = [access |-> "other", known |-> FALSE, theme |-> First, view |-> "graph",
              docq |-> Blank, q |-> Blank, active |-> FALSE, showHidden |-> FALSE, timer |-> NoTimer,
              started |-> 0, searches |-> {}, results |-> NoResults, marked |-> Unmarked,
              held |-> {}, is |-> is, shown |-> x]
    BY Zenon DEF Init
<1> HIDE DEF x, is
<1>3. page \in Page
    BY <1>1, <1>2, BoxesHold, NoResultsFit, ListAssumption DEF Page, Scopes, Unmarked
<1>4. Fits(page)
    BY <1>1, <1>2, <1>3 DEF Fits, Loose, Alive, Current, Listed
<1>5. server \in Marks
    BY ListAssumption DEF Init, Marks
<1>6. Around
    BY <1>2, <1>5, ListAssumption DEF Init, Around
<1>7. Heard
    <2>1. page.searches = {}
        BY <1>2
    <2>2. latest = 0
        BY DEF Init
    <2> QED BY <2>1, <2>2, ListAssumption DEF Heard, Silent
<1> QED
    BY <1>4, <1>6, <1>7 DEF AllFit

\* A step of the page alone that starts no search, or one with room for it.
LEMMA PageStep ==
    ASSUME AllFit, UNCHANGED calls, Fits(page'), panel' \subseteq Panel,
           \/ Calm(page, page') /\ Listens
           \/ Room /\ Begun(page, page') /\ latest' = page'.started
    PROVE  AllFit' /\ Last /\ Still
<1>1. Took(page, page') /\ Still /\ page'.started + homing + made <= MaxCalls
    <2>1. page.started \in Nat /\ homing \in Nat /\ made \in Nat /\ MaxCalls \in Nat
          /\ page.started + homing + made <= MaxCalls
        BY ListAssumption DEF AllFit, Around, Fits, Loose, Page
    <2> QED BY <2>1 DEF Calm, Tame, Begun, Room, Still
<1>2. Around'
    BY <1>1 DEF AllFit, Around, calls
<1>3. Heard'
    <2>1. CASE Calm(page, page') /\ Listens
        BY <2>1, HeardStep DEF AllFit, Calm
    <2>2. CASE latest' = page'.started
        BY <2>2 DEF Fits, Loose, Page, Heard
    <2> QED BY <2>1, <2>2
<1> QED
    BY <1>1, <1>2, <1>3, TookIsLast DEF AllFit

\* One that neither starts a search nor ends one.
LEMMA RestStep ==
    ASSUME AllFit, UNCHANGED rest, Fits(page'), Calm(page, page')
    PROVE  AllFit' /\ Last /\ Still
BY PageStep DEF rest, Listens, AllFit, Around

LEMMA Ready ==
    ASSUME AllFit
    PROVE  /\ Fits(page) /\ Loose(page) /\ page \in Page /\ page.docq \in Boxes /\ page.q \in Boxes
           /\ page.theme \in Themes /\ page.view \in Views /\ page.held \subseteq Docs
           /\ page.searches \subseteq Search /\ page.timer \in Boxes \cup {NoTimer}
           /\ panel \subseteq Panel /\ (Room => page.started < MaxCalls)
<1>1. page \in Page /\ homing \in Nat /\ made \in Nat \ {0} /\ MaxCalls \in Nat
    BY ListAssumption DEF AllFit, Around, Fits, Loose
<1>2. Room => page.started < MaxCalls
    <2>1. page.started \in Nat
        BY <1>1 DEF Page
    <2> QED BY <1>1, <2>1 DEF Room
<1> QED
    BY <1>1, <1>2 DEF AllFit, Around, Fits, Loose, Page

\* A step that may start a search.
LEMMA StartedStep ==
    ASSUME AllFit, UNCHANGED <<calls, panel>>, Fits(page'), NEW before \in {0, latest},
           latest' = Started(before),
           \/ Calm(page, page') /\ (before = 0 => Silent(page') \/ latest = 0)
           \/ Room /\ Begun(page, page')
    PROVE  AllFit' /\ Last /\ Still
<1>1. page.started \in Nat /\ panel' \subseteq Panel
    BY Ready DEF Page
<1>2. CASE Calm(page, page') /\ (before = 0 => Silent(page') \/ latest = 0)
    <2>1. Listens
        BY <1>2 DEF Listens, Started, Calm, Tame
    <2> QED BY <1>1, <1>2, <2>1, PageStep
<1>3. CASE Room /\ Begun(page, page')
    <2>1. latest' = page'.started
        BY <1>1, <1>3 DEF Started, Begun
    <2> QED BY <1>1, <1>3, <2>1, PageStep
<1> QED
    BY <1>2, <1>3

LEMMA ServerSearchFits ==
    ASSUME NEW p, Fits(p), NEW text \in Boxes, text = Blank \/ p.started < MaxCalls
    PROVE  LET q == doDocServerSearch(p, text) IN
           Fits(q) /\ IF text = Blank THEN Calm(p, q) ELSE Begun(p, q)
BY ClearFits, AskFits DEF doDocServerSearch, Fits

\* What is typed in the middle, in a page that differs from this one by no more
\* than what Fits and Calm are about.
LEMMA CenterStepFits ==
    ASSUME AllFit, NEW z, Fits(z), Calm(page, z), z.view = page.view, z.results = page.results,
           NEW v \in Boxes, page' = onCenterSearchInput(z, v), latest' = EndedInCenter(v),
           UNCHANGED <<calls, panel>>
    PROVE  AllFit' /\ Last /\ Still
<1>1. /\ Fits(page') /\ Calm(z, page')
      /\ z.view = "reader" /\ v # Blank /\ ~(z.results.n # 0 /\ z.results.query = v) => Silent(page')
      /\ z.view \notin {"reader", "stream"} => Silent(page')
    BY CenterFits
<1>2. Listens
    BY <1>1 DEF Listens, EndedInCenter, Ended
<1> QED
    BY <1>1, <1>2, Ready, CalmFollows, PageStep

LEMMA BoxStep ==
    ASSUME AllFit,
           \/ \E v \in Queries \cup {Blank} : TypeInList(v) \/ TypeInCenter(v)
           \/ EnterInList \/ CloseResults \/ focusMobileSearch \/ DebounceFires
           \/ filterDocsByMissingDetail
    PROVE  AllFit' /\ Last /\ Still
<1>1. ASSUME NEW v \in Queries \cup {Blank}, TypeInList(v) PROVE AllFit' /\ Last /\ Still
    <2> DEFINE z == [page EXCEPT !.docq = v]
    <2>1. v \in Boxes
        BY BoxesHold
    <2>2. Fits(z) /\ Calm(page, z)
        BY <2>1, Ready, FreeFits
    <2>3. page' = onDocqInput(z, v) /\ latest' = Ended(v) /\ UNCHANGED <<calls, panel>>
        BY <1>1 DEF TypeInList
    <2>4. z.results = page.results
        BY Ready DEF Page
    <2> HIDE DEF z
    <2>5. /\ Fits(page') /\ Calm(z, page')
          /\ v # Blank /\ ~(z.results.n # 0 /\ z.results.query = v) => Silent(page')
        BY <2>1, <2>2, <2>3, TypedTextFits DEF Fits
    <2>6. Listens
        BY <2>3, <2>4, <2>5 DEF Listens, Ended
    <2> QED BY <2>2, <2>3, <2>5, <2>6, Ready, CalmFollows, PageStep
<1>2. ASSUME NEW v \in Queries \cup {Blank}, TypeInCenter(v) PROVE AllFit' /\ Last /\ Still
    <2>1. page' = onCenterSearchInput(page, v) /\ latest' = EndedInCenter(v) /\ UNCHANGED <<calls, panel>>
        BY <1>2 DEF TypeInCenter
    <2> QED BY <2>1, BoxesHold, Ready, CalmSelf, CenterStepFits
<1>3. CASE EnterInList
    <2>1. /\ page.docq = Blank \/ Room
          /\ page' = doDocServerSearch(page, page.docq)
          /\ latest' = Started(latest) /\ UNCHANGED <<calls, panel>>
        BY <1>3 DEF EnterInList
    <2>2. Fits(page') /\ IF page.docq = Blank THEN Calm(page, page') ELSE Begun(page, page')
        BY <2>1, Ready, ServerSearchFits
    <2> QED BY <2>1, <2>2, StartedStep
<1>4. CASE CloseResults
    BY <1>4, Ready, ClearFits, RestStep DEF CloseResults
<1>5. CASE focusMobileSearch
    <2> DEFINE z == [page EXCEPT !.active = TRUE]
    <2>1. Fits(z) /\ Calm(page, z)
        BY Ready, FreeFits
    <2>2. page' = onCenterSearchInput(z, Blank) /\ latest' = EndedInCenter(Blank) /\ UNCHANGED <<calls, panel>>
        BY <1>5 DEF focusMobileSearch
    <2>3. z.view = page.view /\ z.results = page.results
        BY Ready DEF Page
    <2> HIDE DEF z
    <2> QED BY <2>1, <2>2, <2>3, BoxesHold, CenterStepFits
<1>6. CASE DebounceFires
    <2> DEFINE z == [page EXCEPT !.timer = NoTimer]
    <2>1. Fits(z) /\ Calm(page, z)
        BY Ready, BoxesHold, FreeFits
    <2>2. page' = hl(z, page.timer) /\ latest' = 0 /\ UNCHANGED <<calls, panel>>
        BY <1>6 DEF DebounceFires
    <2> HIDE DEF z
    <2>3. Fits(page') /\ Calm(z, page') /\ Silent(page')
        BY <2>1, <2>2, MarkFits
    <2> QED BY <2>1, <2>2, <2>3, Ready, CalmFollows, PageStep DEF Listens
<1>7. CASE filterDocsByMissingDetail
    <2> DEFINE z == [page EXCEPT !.docq = IsMissing]
    <2>1. Fits(z) /\ Calm(page, z)
        BY Ready, BoxesHold, FreeFits
    <2>2. page' = renderDocs(z, IsMissing) /\ UNCHANGED rest
        BY <1>7 DEF filterDocsByMissingDetail
    <2> HIDE DEF z
    <2>3. Fits(page') /\ Calm(z, page')
        BY <2>1, <2>2, BoxesHold, RenderFits DEF Fits
    <2> QED BY <2>1, <2>2, <2>3, CalmFollows, RestStep
<1> QED
    BY <1>1, <1>2, <1>3, <1>4, <1>5, <1>6, <1>7

LEMMA CenterStep ==
    ASSUME AllFit,
           \/ EnterInCenter \/ doSemantic \/ toggleShowHidden \/ RevealDocs
           \/ \E v \in Views : SwitchView(v)
           \/ \E d \in Docs : openReader(d)
           \/ renderDocPanel
    PROVE  AllFit' /\ Last /\ Still
<1>1. CASE EnterInCenter
    <2> DEFINE o == Overtake(page)
               c == [o EXCEPT !.timer = NoTimer]
    <2>1. Fits(o) /\ Calm(page, o) /\ Silent(o)
        BY Ready, OvertakeFits
    <2>2. /\ page.view = "reader" /\ page.q # Blank => Room
          /\ page' = (IF page.view = "reader" THEN doDocServerSearch(c, page.q) ELSE hl(c, page.q))
          /\ latest' = Started(0) /\ UNCHANGED <<calls, panel>>
        BY <1>1 DEF EnterInCenter
    <2> HIDE DEF o
    <2>3. Fits(c) /\ Calm(o, c)
        BY <2>1, BoxesHold, FreeFits
    <2> HIDE DEF c
    <2>4. Calm(page, c) /\ Silent(c)
        BY <2>1, <2>3, CalmFollows DEF Calm, Tame
    <2>5. CASE page.view = "reader"
        <3>1. page.q = Blank \/ c.started < MaxCalls
            BY <2>2, <2>4, <2>5, Ready DEF Calm, Tame
        <3>2. Fits(page') /\ IF page.q = Blank THEN Calm(c, page') ELSE Begun(c, page')
            BY <2>2, <2>3, <2>5, <3>1, Ready, ServerSearchFits
        <3>3. CASE page.q = Blank
            <4>1. Calm(page, page') /\ Silent(page')
                BY <2>4, <3>2, <3>3, CalmFollows DEF Calm, Tame
            <4> QED BY <2>2, <3>2, <4>1, StartedStep
        <3>4. CASE page.q # Blank
            <4>1. Begun(page, page')
                BY <2>4, <3>2, <3>4 DEF Calm, Tame, Begun, Took
            <4> QED BY <2>2, <2>5, <3>2, <3>4, <4>1, StartedStep
        <3> QED BY <3>3, <3>4
    <2>6. CASE page.view # "reader"
        <3>1. Fits(page') /\ Calm(c, page') /\ Silent(page')
            BY <2>2, <2>3, <2>6, MarkFits
        <3>2. Calm(page, page')
            BY <2>4, <3>1, CalmFollows
        <3> QED BY <2>2, <3>1, <3>2, StartedStep
    <2> QED BY <2>5, <2>6
<1>2. CASE doSemantic
    <2>1. Room /\ latest' = Started(latest) /\ UNCHANGED <<calls, panel>> /\ page.started < MaxCalls
        BY <1>2, Ready DEF doSemantic
    <2>2. CASE page.docq # Blank
        <3>1. Fits(page') /\ Begun(page, page')
            BY <1>2, <2>1, <2>2, Ready, ServerSearchFits DEF doSemantic
        <3> QED BY <2>1, <3>1, StartedStep
    <2>3. CASE page.docq = Blank /\ page.q = Blank
        <3>1. Fits(page') /\ Calm(page, page')
            BY <1>2, <2>3, Ready, CalmSelf DEF doSemantic, semanticSearch
        <3> QED BY <2>1, <3>1, StartedStep
    <2>4. CASE page.docq = Blank /\ page.q # Blank
        <3>1. page' = Ask(page, page.q, "graph")
            BY <1>2, <2>4 DEF doSemantic, semanticSearch
        <3>2. Fits(page') /\ Begun(page, page')
            BY <2>1, <3>1, Ready, AskFits
        <3> QED BY <2>1, <3>2, StartedStep
    <2> QED BY <2>2, <2>3, <2>4
<1>3. CASE toggleShowHidden
    <2> DEFINE z == [page EXCEPT !.showHidden = ~page.showHidden]
    <2>1. page.showHidden \in BOOLEAN
        BY Ready DEF Page
    <2>2. (~page.showHidden) \in BOOLEAN
        BY <2>1
    <2>3. Fits(z) /\ Calm(page, z)
        BY <2>2, Ready, FreeFits
    <2>4. page' = renderDocs(z, z.docq) /\ UNCHANGED rest
        BY <1>3 DEF toggleShowHidden
    <2> HIDE DEF z
    <2>5. z.docq \in Boxes /\ Loose(z)
        BY <2>3 DEF Fits, Loose, Page
    <2>6. Fits(page') /\ Calm(z, page')
        BY <2>4, <2>5, RenderFits
    <2> QED BY <2>3, <2>4, <2>6, CalmFollows, RestStep
<1>4. CASE RevealDocs
    <2> DEFINE w == IF page.view = "reader" THEN "graph" ELSE page.view
               v == setCenterView(page, w)
               z == [v EXCEPT !.active = FALSE, !.docq = Blank]
    <2>1. w \in Views
        BY Ready, ListAssumption
    <2>2. page' = renderDocs(z, Blank) /\ UNCHANGED rest
        BY <1>4 DEF RevealDocs
    <2> HIDE DEF w
    <2>3. Fits(v) /\ Calm(page, v)
        BY <2>1, Ready, ViewFits
    <2> HIDE DEF v
    <2>4. Fits(z) /\ Calm(v, z)
        BY <2>3, BoxesHold, FreeFits
    <2> HIDE DEF z
    <2>5. Fits(page') /\ Calm(z, page')
        BY <2>2, <2>4, BoxesHold, RenderFits DEF Fits
    <2>6. Calm(page, page')
        BY <2>3, <2>4, <2>5, CalmFollows
    <2> QED BY <2>2, <2>5, <2>6, RestStep
<1>5. ASSUME NEW v \in Views, SwitchView(v) PROVE AllFit' /\ Last /\ Still
    BY <1>5, Ready, ViewFits, RestStep DEF SwitchView
<1>6. ASSUME NEW d \in Docs, openReader(d) PROVE AllFit' /\ Last /\ Still
    <2> DEFINE v == setCenterView(page, "reader")
               is == d \in server["hidden"]
    <2>1. /\ page' = renderDocs(v, v.docq)
          /\ panel' \in {{}, {[doc |-> d, was |-> is, box |-> is]}}
          /\ UNCHANGED <<calls, latest>>
        BY <1>6 DEF openReader
    <2>2. is \in BOOLEAN
        OBVIOUS
    <2> HIDE DEF is
    <2>3. panel' \subseteq Panel
        BY <2>1, <2>2 DEF Panel
    <2>4. Fits(v) /\ Calm(page, v)
        BY Ready, ListAssumption, ViewFits
    <2> HIDE DEF v
    <2>5. v.docq \in Boxes /\ Loose(v)
        BY <2>4 DEF Fits, Loose, Page
    <2>6. Fits(page') /\ Calm(v, page')
        BY <2>1, <2>5, RenderFits
    <2>7. Calm(page, page') /\ Listens
        BY <2>1, <2>4, <2>6, CalmFollows DEF Listens
    <2> QED BY <2>1, <2>3, <2>6, <2>7, PageStep
<1>7. CASE renderDocPanel
    <2>1. PICK b \in panel : \E is \in {b.was, b.doc \in server["hidden"]} :
             panel' = {[b EXCEPT !.was = is, !.box = is]}
        BY <1>7 DEF renderDocPanel
    <2>8. PICK is \in {b.was, b.doc \in server["hidden"]} : panel' = {[b EXCEPT !.was = is, !.box = is]}
        BY <2>1
    <2>2. b \in Panel
        BY <2>1, Ready
    <2>3. b.was \in BOOLEAN /\ (b.doc \in server["hidden"]) \in BOOLEAN
        BY <2>2 DEF Panel
    <2>4. is \in BOOLEAN
        BY <2>3, <2>8
    <2>5. [b EXCEPT !.was = is, !.box = is] \in Panel
        BY <2>2, <2>4 DEF Panel
    <2>6. UNCHANGED <<page, calls, latest>>
        BY <1>7 DEF renderDocPanel
    <2>7. Calm(page, page') /\ Listens /\ Fits(page')
        BY <2>6, Ready, CalmSelf DEF Listens
    <2> QED BY <2>5, <2>6, <2>7, <2>8, PageStep
<1> QED
    BY <1>1, <1>2, <1>3, <1>4, <1>5, <1>6, <1>7

(***************************************************************************)
(* Answers of searches                                                     *)
(***************************************************************************)
LEMMA MarkedFits ==
    ASSUME NEW p, Fits(p), NEW n \in {ByLabel} \cup 0..MaxCalls
    PROVE  /\ Fits([p EXCEPT !.marked = n])
           /\ [p EXCEPT !.marked = n].started = p.started
           /\ [p EXCEPT !.marked = n].searches = p.searches
           /\ [p EXCEPT !.marked = n].results = p.results
           /\ [p EXCEPT !.marked = n].marked = n
           /\ [p EXCEPT !.marked = n].held = p.held /\ [p EXCEPT !.marked = n].is = p.is
<1> DEFINE z == [p EXCEPT !.marked = n]
<1>1. p \in Page /\ Loose(p)
    BY DEF Fits, Loose
<1>2. z \in Page
    BY <1>1 DEF Page
<1>3. /\ z.searches = p.searches /\ z.started = p.started /\ z.results = p.results
      /\ z.marked = n /\ z.shown = p.shown /\ z.held = p.held /\ z.is = p.is
    BY <1>1 DEF Page
<1> HIDE DEF z
<1>4. Fits(z)
    BY <1>1, <1>2, <1>3, LooseSame, CurrentSame DEF Fits
<1> QED
    BY <1>3, <1>4 DEF z

LEMMA HighlightStep == ASSUME AllFit, highlightSearchInGraph PROVE AllFit' /\ Last /\ Still
<1> DEFINE v == setCenterView(page, "graph")
<1>1. page' = [v EXCEPT !.marked = page.results.n] /\ UNCHANGED <<calls, panel, latest>>
    BY DEF highlightSearchInGraph, rest
<1>2. Fits(v) /\ Calm(page, v)
    BY Ready, ListAssumption, ViewFits
<1> HIDE DEF v
<1>3. page.results.n \in 0..MaxCalls
    BY Ready DEF Page, Result
<1>4. /\ Fits(page') /\ page'.started = v.started /\ page'.results = v.results
      /\ page'.searches = v.searches
      /\ page'.marked = page.results.n /\ page'.held = v.held /\ page'.is = v.is
    BY <1>1, <1>2, <1>3, MarkedFits
<1>5. Around'
    BY <1>1, <1>2, <1>4 DEF AllFit, Around, Calm, Tame, calls
<1>6. Last /\ Still
    BY <1>2, <1>4 DEF Last, Still, Calm, Tame, Took, NoResults
<1>7. Heard'
    <2>1. page'.started = page.started /\ (Silent(page) => Silent(page')) /\ latest' = latest
        BY <1>1, <1>2, <1>4 DEF Calm, Tame, Silent
    <2> QED BY <2>1 DEF AllFit, Heard
<1> QED
    BY <1>4, <1>5, <1>6, <1>7 DEF AllFit

\* A search is taken off, or its answer begins to be read.
LEMMA RestFits ==
    ASSUME NEW p, Fits(p), NEW s \in p.searches
    PROVE  LET others == [p EXCEPT !.searches = p.searches \ {s}]
               body == [others EXCEPT !.searches = others.searches \cup {[s EXCEPT !.phase = "body"]}] IN
           /\ Fits(others) /\ Calm(p, others) /\ Fits(body) /\ Calm(p, body)
           /\ others.held = p.held /\ others.started = p.started
           /\ s \in Search /\ (s.live => s.n = p.started)
<1> DEFINE S == p.searches \ {s}
           others == [p EXCEPT !.searches = S]
           b == [s EXCEPT !.phase = "body"]
           body == [others EXCEPT !.searches = others.searches \cup {b}]
<1>1. p \in Page /\ Loose(p) /\ s \in Search /\ (s.live => s.n = p.started)
    BY DEF Fits, Loose, Page, Alive
<1>2. S \in SUBSET Search /\ (\A r \in S : r.live => r.n = p.started)
      /\ (Silent(p) => ~s.live /\ \A r \in S : ~r.live)
    BY <1>1 DEF Loose, Page, Alive, Silent
<1>3. Fits(others) /\ Calm(p, others)
    BY <1>1, <1>2, SearchesFit
<1>4. others.searches = S /\ others.held = p.held /\ others.started = p.started
    BY <1>1 DEF Page
<1>5. b \in Search /\ (b.live => b.n = p.started) /\ (~s.live => ~b.live)
    BY <1>1 DEF Search
<1> HIDE DEF S, b
<1>6. /\ S \cup {b} \in SUBSET Search
      /\ \A r \in S \cup {b} : r.live => r.n = p.started
      /\ Silent(p) => \A r \in S \cup {b} : ~r.live
    BY <1>2, <1>5
<1>7. body = [p EXCEPT !.searches = S \cup {b}]
    BY <1>1, <1>4 DEF Page
<1> HIDE DEF others, body
<1>8. Fits(body) /\ Calm(p, body)
    BY <1>1, <1>6, <1>7, SearchesFit
<1> QED
    BY <1>1, <1>3, <1>4, <1>8 DEF others, body, S, b

LEMMA SearchAnsweredStep ==
    ASSUME AllFit, NEW s \in page.searches, SearchAnswered(s)
    PROVE  AllFit' /\ Last /\ Still
<1> DEFINE others == [page EXCEPT !.searches = page.searches \ {s}]
           body == [others EXCEPT !.searches = others.searches \cup {[s EXCEPT !.phase = "body"]}]
<1>1. Fits(others) /\ Calm(page, others) /\ Fits(body) /\ Calm(page, body)
    BY Ready, RestFits
<1>2. /\ page' = body \/ page' = others \/ page' = expireWriteAccess(others)
      /\ panel' \in {panel, Drawn}
      /\ UNCHANGED <<calls, latest>>
    BY DEF SearchAnswered
<1> HIDE DEF others, body
<1>3. Fits(page') /\ Calm(page, page')
    BY <1>1, <1>2, ExpiredFits, CalmFollows
<1>4. panel' \subseteq Panel
    BY <1>2, Ready, PanelFits
<1> QED
    BY <1>2, <1>3, <1>4, PageStep DEF Listens

LEMMA ShowFits ==
    ASSUME NEW p, Fits(p), NEW s \in Search, s.n = p.started, NEW H \in SUBSET Docs
    PROVE  LET q == Show(p, s, H) IN
           /\ Fits(q) /\ q.started = p.started /\ q.held = p.held /\ q.is = p.is
           /\ Silent(p) => Silent(q)
           /\ q.results \in {p.results, NoResults} \/ q.results.n = p.started
           /\ q.marked \in {p.marked, Unmarked, ByLabel} \/ q.marked = p.started
<1>0. p \in Page /\ Loose(p) /\ s.n \in 0..MaxCalls /\ s.query \in Boxes
    BY ListAssumption DEF Fits, Loose, Search
<1>1. CASE s.kind = "graph"
    <2>1. Show(p, s, H) = [p EXCEPT !.marked = s.n]
        BY <1>1 DEF Show
    <2> QED BY <1>0, <2>1, MarkedFits DEF Silent
<1>2. CASE s.kind # "graph"
    <2> DEFINE D == {d \in p.held : (d \in p.is.hidden => canWrite(p)) /\ d \in H \cup Named(s.query)}
               x == [n |-> s.n, query |-> s.query, hits |-> H # {}, docs |-> D]
               z == [p EXCEPT !.results = x]
    <2>1. D \subseteq Docs
        BY <1>0 DEF Page
    <2>2. Show(p, s, H) = renderServerDocs(z)
        BY <1>2, Zenon DEF Show
    <2> HIDE DEF D
    <2>3. x \in Result /\ x.n = p.started
        BY <1>0, <2>1 DEF Result
    <2> HIDE DEF x
    <2>4. z \in Page
        BY <1>0, <2>3 DEF Page
    <2>5. /\ z.searches = p.searches /\ z.started = p.started /\ z.results = x
          /\ z.marked = p.marked /\ z.held = p.held /\ z.is = p.is
        BY <1>0 DEF Page
    <2> HIDE DEF z
    <2>6. Loose(z)
        BY <1>0, <2>4, <2>5, LooseSame
    <2>7. Fits(renderServerDocs(z)) /\ Calm(z, renderServerDocs(z))
        BY <2>6, ServerDocsFits
    <2> QED BY <2>2, <2>3, <2>5, <2>7 DEF Calm, Tame, Took, Silent
<1> QED
    BY <1>1, <1>2

LEMMA SearchReadStep ==
    ASSUME AllFit, NEW s \in page.searches, SearchRead(s)
    PROVE  AllFit' /\ Last /\ Still
<1> DEFINE others == [page EXCEPT !.searches = page.searches \ {s}]
<1>1. PICK H \in SUBSET Docs : page' = IF s.live THEN Show(others, s, H) ELSE others
    BY DEF SearchRead
<1>2. UNCHANGED rest
    BY DEF SearchRead
<1>3. Fits(others) /\ Calm(page, others) /\ s \in Search /\ (s.live => s.n = others.started)
    BY Ready, RestFits
<1> HIDE DEF others
<1>4. CASE s.live
    <2>1. /\ Fits(page') /\ page'.started = others.started
          /\ page'.held = others.held /\ page'.is = others.is
          /\ page'.results \in {others.results, NoResults} \/ page'.results.n = others.started
          /\ page'.marked \in {others.marked, Unmarked, ByLabel} \/ page'.marked = others.started
        BY <1>1, <1>3, <1>4, ShowFits
    <2>2. Around'
        BY <1>2, <1>3, <2>1 DEF AllFit, Around, Calm, Tame, rest, calls
    <2>3. latest = page.started /\ latest' = latest
        BY <1>2, <1>4 DEF AllFit, Heard, Silent, rest
    <2>4. Last /\ Still
        BY <1>3, <2>1, <2>3 DEF Last, Still, Calm, Tame, Took, NoResults
    <2>5. Heard'
        BY <1>3, <2>1, <2>3 DEF AllFit, Heard, Calm, Tame
    <2> QED BY <2>1, <2>2, <2>4, <2>5 DEF AllFit
<1>5. CASE ~s.live
    BY <1>1, <1>2, <1>3, <1>5, RestStep
<1> QED
    BY <1>4, <1>5

(***************************************************************************)
(* Toggles                                                                 *)
(***************************************************************************)

\* The page takes no answer of a search; the bound is kept.
LEMMA TameStep ==
    ASSUME AllFit, Fits(page'), Tame(page, page'),
           server' \in Marks, toggles' \subseteq Toggle, answers' \subseteq [theme: Themes, is: Marks],
           asked' \in [Themes -> Nat], muddled' \subseteq Docs, panel' \subseteq Panel, Listens,
           \/ homing' = homing /\ made' = made
           \/ Room /\ homing' = homing /\ made' = made + 1
           \/ Room /\ homing' = homing + 1 /\ made' = made
           \/ homing > 0 /\ homing' = homing - 1 /\ made' = made + 1
    PROVE  AllFit' /\ Last
<1>1. page.started \in Nat /\ homing \in Nat /\ made \in Nat \ {0} /\ MaxCalls \in Nat
      /\ page.started + homing + made <= MaxCalls
    BY ListAssumption DEF AllFit, Around, Fits, Loose, Page
<1>2. homing' \in Nat /\ made' \in Nat \ {0} /\ page.started + homing' + made' <= MaxCalls
    BY <1>1 DEF Room
<1>3. page'.started = page.started
    BY DEF Tame
<1>4. Around'
    BY <1>2, <1>3 DEF Around
<1> QED
    BY <1>4, TookIsLast, HeardStep DEF AllFit, Tame

LEMMA PutFits == \A A \in SUBSET Docs, d \in Docs : \A val : Put(A, d, val) \in SUBSET Docs
BY DEF Put

LEMMA TogglesStep ==
    ASSUME AllFit, NEW d \in Docs, NEW f \in Flags, NEW val \in BOOLEAN, Toggles(d, f, val)
    PROVE  AllFit' /\ Last
<1> DEFINE own == d \in page.held
           change == val # (d \in page.is[f])
           t == [doc |-> d, flag |-> f, val |-> val, own |-> own, change |-> change, done |-> FALSE]
<1>1. t \in Toggle /\ t.own = own
    BY DEF Toggle
<1>2. /\ page' = (IF own THEN Flag(page, d, f, val) ELSE renderDocs(page, page.docq))
      /\ toggles' = toggles \cup {t} /\ Room /\ made' = made + 1
      /\ muddled' \in {muddled \cup {d}, muddled} /\ panel' = Ticked(t)
      /\ UNCHANGED <<server, homing, asked, answers, latest>>
    BY DEF Toggles
<1> HIDE DEF own, change, t
<1>3. Fits(page') /\ Tame(page, page')
    BY <1>2, Ready, FlagFits, RenderFits DEF Calm
<1>4. toggles' \subseteq Toggle /\ muddled' \subseteq Docs /\ panel' \subseteq Panel
    BY <1>1, <1>2, PanelFits DEF AllFit, Around
<1> QED
    BY <1>2, <1>3, <1>4, TameStep DEF AllFit, Around, Listens

LEMMA ToggleStep ==
    ASSUME AllFit, NEW t \in toggles,
           ToggleReaches(t) \/ ToggleAnswered(t) \/ ToggleRefused(t) \/ ToggleLost(t)
    PROVE  AllFit' /\ Last
<1>0. /\ t \in Toggle /\ toggles \subseteq Toggle /\ t.doc \in Docs
      /\ server \in Marks /\ answers \subseteq [theme: Themes, is: Marks]
      /\ asked \in [Themes -> Nat] /\ muddled \subseteq Docs
      /\ Muddle(t) \subseteq Docs /\ panel \subseteq Panel /\ Drawn \subseteq Panel /\ Ticked(t) \subseteq Panel
    BY PanelFits DEF AllFit, Around, Toggle, Muddle
<1>1. CASE ToggleReaches(t)
    <2>1. [t EXCEPT !.done = TRUE] \in Toggle
        BY <1>0 DEF Toggle
    <2>2. /\ toggles' = (toggles \ {t}) \cup {[t EXCEPT !.done = TRUE]}
          /\ server' = [server EXCEPT ![t.flag] = Put(server[t.flag], t.doc, t.val)]
          /\ UNCHANGED <<page, homing, asked, answers, panel, muddled, latest, made>>
        BY <1>1 DEF ToggleReaches
    <2>3. Put(server[t.flag], t.doc, t.val) \in SUBSET Docs
        BY <1>0, PutFits DEF Marks, Toggle
    <2>4. server' \in Marks
        BY <1>0, <2>2, <2>3 DEF Marks
    <2>5. toggles' \subseteq Toggle
        BY <1>0, <2>1, <2>2
    <2> QED BY <1>0, <2>2, <2>4, <2>5, Ready, CalmSelf, TameStep DEF Calm, Listens
<1>2. CASE ToggleAnswered(t)
    BY <1>0, <1>2, Ready, CalmSelf, TameStep DEF ToggleAnswered, Calm, Listens
<1>3. CASE ToggleRefused(t)
    <2> DEFINE e == expireWriteAccess(page)
    <2>1. Fits(e) /\ Tame(page, e)
        BY Ready, ExpiredFits DEF Calm
    <2>2. page' = Revert(page, t) \/ page' = Revert(e, t)
        BY <1>3 DEF ToggleRefused
    <2> HIDE DEF e
    <2>3. /\ Fits(Revert(page, t)) /\ Tame(page, Revert(page, t))
          /\ Fits(Revert(e, t)) /\ Tame(e, Revert(e, t))
        BY <1>0, <2>1, Ready, RevertFits
    <2>4. Fits(page') /\ Tame(page, page')
        BY <2>1, <2>2, <2>3, TameFollows
    <2> QED BY <1>0, <1>3, <2>4, TameStep DEF ToggleRefused, Listens
<1>4. CASE ToggleLost(t)
    <2>1. Fits(page') /\ Tame(page, page')
        BY <1>0, <1>4, Ready, RevertFits DEF ToggleLost
    <2>2. muddled' \subseteq Docs
        BY <1>0, <1>4 DEF ToggleLost
    <2> QED BY <1>0, <1>4, <2>1, <2>2, TameStep DEF ToggleLost, Listens
<1> QED
    BY <1>1, <1>2, <1>3, <1>4

(***************************************************************************)
(* Loads of the list                                                       *)
(***************************************************************************)
LEMMA DisownFits == \A t \in Toggle : [t EXCEPT !.own = FALSE] \in Toggle
BY DEF Toggle

LEMMA LoadsFit ==
    ASSUME AllFit, NEW theme \in Themes, Loads(theme)
    PROVE  asked' \in [Themes -> Nat] /\ muddled' \subseteq Docs /\ made' = made + 1
<1>1. muddled \subseteq Docs /\ \A t \in toggles : t.doc \in Docs
    BY DEF AllFit, Around, Toggle
<1>2. asked \in [Themes -> Nat] /\ asked[theme] + 1 \in Nat
    BY DEF AllFit, Around
<1> QED
    BY <1>1, <1>2 DEF Loads

LEMMA LoadStep ==
    ASSUME AllFit,
           \/ RefreshList \/ enterHome
           \/ \E t \in Themes : LoadReaches(t) \/ switchKnowledgeTheme(t)
           \/ \E scope \in Scopes : whoami(scope)
    PROVE  AllFit' /\ Last /\ Still
<1>1. /\ server \in Marks /\ toggles \subseteq Toggle /\ answers \subseteq [theme: Themes, is: Marks]
      /\ asked \in [Themes -> Nat] /\ muddled \subseteq Docs /\ panel \subseteq Panel
    BY DEF AllFit, Around
<1>2. CASE RefreshList
    <2>1. asked' \in [Themes -> Nat] /\ muddled' \subseteq Docs /\ made' = made + 1
        BY <1>2, Ready, LoadsFit DEF RefreshList
    <2>2. Fits(page') /\ Calm(page, page')
        BY <1>2, Ready, CalmSelf DEF RefreshList
    <2> QED BY <1>1, <1>2, <2>1, <2>2, TameStep DEF RefreshList, Calm, Still, Listens
<1>3. CASE enterHome
    <2>1. asked' \in [Themes -> Nat] /\ muddled' \subseteq Docs /\ made' = made + 1
        BY <1>3, Ready, LoadsFit DEF enterHome
    <2>2. Fits(page') /\ Calm(page, page')
        BY <1>3, Ready, ListAssumption, ViewFits DEF enterHome
    <2> QED BY <1>1, <1>3, <2>1, <2>2, TameStep DEF enterHome, Calm, Still, Listens
<1>4. ASSUME NEW t \in Themes, LoadReaches(t) PROVE AllFit' /\ Last /\ Still
    <2>1. asked' \in [Themes -> Nat]
        <3>1. asked[t] \in Nat /\ asked[t] > 0 /\ asked' = [asked EXCEPT ![t] = asked[t] - 1]
            BY <1>1, <1>4 DEF LoadReaches
        <3>2. asked[t] - 1 \in Nat
            BY <3>1
        <3> QED BY <1>1, <3>1, <3>2
    <2>2. answers' \subseteq [theme: Themes, is: Marks]
        BY <1>1, <1>4 DEF LoadReaches
    <2>3. Fits(page') /\ Calm(page, page')
        BY <1>4, Ready, CalmSelf DEF LoadReaches
    <2> QED BY <1>1, <1>4, <2>1, <2>2, <2>3, TameStep DEF LoadReaches, Calm, Still, Listens
<1>5. ASSUME NEW t \in Themes, switchKnowledgeTheme(t) PROVE AllFit' /\ Last /\ Still
    <2> DEFINE z == [page EXCEPT !.theme = t]
    <2>1. Fits(z) /\ Calm(page, z)
        BY Ready, FreeFits
    <2>2. /\ page' = resetWorkspaceState(z) /\ Room /\ homing' = homing + 1
          /\ panel' = {} /\ latest' = 0
          /\ UNCHANGED <<server, toggles, asked, answers, muddled, made>>
        BY <1>5 DEF switchKnowledgeTheme
    <2> HIDE DEF z
    <2>3. Fits(page') /\ Calm(page, page') /\ Silent(page')
        BY <2>1, <2>2, ResetFits, CalmFollows
    <2> QED BY <1>1, <2>2, <2>3, TameStep DEF Calm, Still, Listens
<1>6. ASSUME NEW scope \in Scopes, whoami(scope) PROVE AllFit' /\ Last /\ Still
    <2> DEFINE z == [page EXCEPT !.known = TRUE]
    <2>1. Fits(z) /\ Calm(page, z)
        BY Ready, FreeFits
    <2>2. page' = setAccessScope(z, scope) /\ panel' = Drawn /\ UNCHANGED <<calls, latest>>
        BY <1>6 DEF whoami
    <2> HIDE DEF z
    <2>3. Fits(page') /\ Calm(page, page')
        BY <2>1, <2>2, ScopeFits, CalmFollows
    <2> QED BY <1>1, <2>2, <2>3, PanelFits, PageStep DEF Listens
<1> QED
    BY <1>2, <1>3, <1>4, <1>5, <1>6

LEMMA LoadFailsStep ==
    ASSUME AllFit, NEW t \in Themes, LoadFails(t)
    PROVE  AllFit' /\ Last /\ (page' # page => page'.held = {})
<1>1. /\ server \in Marks /\ toggles \subseteq Toggle /\ asked \in [Themes -> Nat]
      /\ answers \subseteq [theme: Themes, is: Marks] /\ muddled \subseteq Docs /\ panel \subseteq Panel
    BY DEF AllFit, Around
<1>2. asked' \in [Themes -> Nat]
    <2>1. asked[t] \in Nat /\ asked[t] > 0 /\ asked' = [asked EXCEPT ![t] = asked[t] - 1]
        BY <1>1 DEF LoadFails
    <2>2. asked[t] - 1 \in Nat
        BY <2>1
    <2> QED BY <1>1, <2>1, <2>2
<1>3. toggles' \subseteq Toggle
    BY <1>1, DisownFits DEF LoadFails, Disown
<1>4. Fits(page') /\ Tame(page, page') /\ (page' # page => page'.held = {})
    <2> DEFINE x == [kind |-> "failed", text |-> page.docq, docs |-> {},
                     hidden |-> page.shown.hidden, tools |-> page.shown.tools]
               z == Fill(page, {}, server)
    <2>1. page' = [z EXCEPT !.shown = x] \/ page' = page
        BY DEF LoadFails
    <2>2. page.shown \in Showing /\ page.docq \in Boxes
        BY Ready DEF Page
    <2>3. x \in Showing /\ x.kind = "failed"
        BY <2>2 DEF Showing
    <2> HIDE DEF x
    <2>4. Loose(z) /\ Tame(page, z) /\ z.held = {}
        BY <1>1, Ready, FillFits
    <2> HIDE DEF z
    <2>5. Fits([z EXCEPT !.shown = x]) /\ Calm(z, [z EXCEPT !.shown = x])
        BY <2>3, <2>4, DrawnFits
    <2> QED BY <2>1, <2>4, <2>5, Ready, CalmSelf, TameFollows DEF Calm
<1>5. UNCHANGED <<server, homing, answers, panel, muddled, latest, made>>
    BY DEF LoadFails
<1> QED
    BY <1>1, <1>2, <1>3, <1>4, <1>5, TameStep DEF Listens

LEMMA LoadAnsweredStep ==
    ASSUME AllFit, NEW a \in answers, LoadAnswered(a)
    PROVE  AllFit' /\ Last /\ page'.is = [f \in Flags |-> a.is[f] \cap page'.held]
<1>1. /\ server \in Marks /\ toggles \subseteq Toggle /\ asked \in [Themes -> Nat]
      /\ answers \subseteq [theme: Themes, is: Marks] /\ muddled \subseteq Docs /\ panel \subseteq Panel
    BY DEF AllFit, Around
<1> DEFINE H == {d \in Docs : Home[d] = a.theme}
           z == Fill(page, H, a.is)
<1>2. H \in SUBSET Docs /\ a.is \in Marks
    BY <1>1
<1>3. page' = renderDocs(z, z.docq) /\ answers' = answers \ {a} /\ Disown
      /\ UNCHANGED <<server, homing, asked, panel, muddled, latest, made>>
    BY DEF LoadAnswered
<1> HIDE DEF H
<1>4. /\ Loose(z) /\ Tame(page, z) /\ z.docq = page.docq /\ z.held = H
      /\ z.is = [f \in Flags |-> a.is[f] \cap H]
    BY <1>2, Ready, FillFits
<1> HIDE DEF z
<1>5. Fits(page') /\ Calm(z, page')
    BY <1>3, <1>4, Ready, RenderFits
<1>6. toggles' \subseteq Toggle
    BY <1>1, <1>3, DisownFits DEF Disown
<1>7. Tame(page, page') /\ page'.is = [f \in Flags |-> a.is[f] \cap page'.held]
    BY <1>4, <1>5, TameFollows DEF Calm
<1> QED
    BY <1>1, <1>3, <1>5, <1>6, <1>7, TameStep DEF Listens

(***************************************************************************)
(* Flags settle                                                            *)
(***************************************************************************)
On(d, f) == \E t \in toggles : t.doc = d /\ t.flag = f

\* A toggle that nothing came between: it is the only one of its document, no
\* load is under way, it has the document out of the list if that is there, and
\* then server and page differ exactly until it is done, if it asks for a change.
Lone(t) ==
    /\ t.own <=> t.doc \in page.held
    /\ ~Loading
    /\ \A u \in toggles : u.doc = t.doc => u = t
    /\ t.own =>
          /\ t.doc \in page.is[t.flag] <=> t.val
          /\ t.doc \in server[t.flag] <=> (IF t.done \/ ~t.change THEN t.val ELSE ~t.val)

\* Lists on their way have the flags the server has: a toggle that reached the
\* server in between has muddled its document.
FlagInv ==
    /\ \A d \in page.held \ muddled, f \in Flags :
          ~On(d, f) => (d \in page.is[f] <=> d \in server[f])
    /\ \A t \in toggles : t.doc \notin muddled => Lone(t)
    /\ \A a \in answers, d \in Docs \ muddled, f \in Flags : d \in a.is[f] <=> d \in server[f]

LEMMA PutOthers ==
    ASSUME NEW A, NEW d, NEW val, NEW e, e # d
    PROVE  e \in Put(A, d, val) <=> e \in A
BY DEF Put

LEMMA StillFlags ==
    ASSUME FlagInv, Still, UNCHANGED <<server, toggles>>, muddled \subseteq muddled',
           \A t \in toggles : t.doc \notin muddled' => (Loading' => Loading),
           \A a \in answers' : a \in answers \/ a.is = server
    PROVE  FlagInv'
<1>1. \A d, f : On(d, f)' <=> On(d, f)
    BY DEF On
<1>2. ASSUME NEW t \in toggles, t.doc \notin muddled' PROVE Lone(t)'
    <2>1. Lone(t)
        BY <1>2 DEF FlagInv
    <2> QED BY <1>2, <2>1 DEF Lone, Still
<1> QED
    BY <1>1, <1>2 DEF FlagInv, Still

\* A step about document d alone.
LEMMA OneDocument ==
    ASSUME AllFit, FlagInv, NEW d \in Docs, UNCHANGED <<answers, asked>>, page'.held = page.held,
           toggles' \subseteq Toggle, muddled \subseteq muddled',
           \A e \in Docs \ {d}, f \in Flags : /\ e \in page'.is[f] <=> e \in page.is[f]
                                              /\ e \in server'[f] <=> e \in server[f],
           \A u \in Toggle : u.doc # d => (u \in toggles' <=> u \in toggles),
           \/ d \in muddled'
           \/ /\ d \in page.held =>
                    \A f \in Flags : ~On(d, f)' => (d \in page'.is[f] <=> d \in server'[f])
              /\ \A u \in toggles' : u.doc = d => Lone(u)'
              /\ answers = {} \/ server' = server
    PROVE  FlagInv'
<1>1. toggles \subseteq Toggle /\ page.held \subseteq Docs /\ \A t \in Toggle : t.flag \in Flags /\ t.doc \in Docs
    BY Ready DEF AllFit, Around, Toggle
<1>2. Loading' <=> Loading
    BY DEF Loading
<1>3. ASSUME NEW e \in page.held \ muddled', NEW f \in Flags, ~On(e, f)'
      PROVE  e \in page'.is[f] <=> e \in server'[f]
    <2>1. CASE e = d
        BY <1>3, <2>1
    <2>2. CASE e # d
        <3>1. ~On(e, f)
            BY <1>1, <1>3, <2>2 DEF On
        <3> QED BY <1>1, <1>3, <2>2, <3>1 DEF FlagInv
    <2> QED BY <2>1, <2>2
<1>4. ASSUME NEW t \in toggles', t.doc \notin muddled' PROVE Lone(t)'
    <2>1. CASE t.doc = d
        BY <1>4, <2>1
    <2>2. CASE t.doc # d
        <3>1. t \in toggles /\ t \in Toggle /\ Lone(t)
            BY <1>4, <2>2 DEF FlagInv
        <3>2. \A u \in toggles' : u.doc = t.doc => u = t
            BY <2>2, <3>1 DEF Lone
        <3>3. /\ t.doc \in page'.is[t.flag] <=> t.doc \in page.is[t.flag]
              /\ t.doc \in server'[t.flag] <=> t.doc \in server[t.flag]
            BY <1>1, <2>2, <3>1
        <3> QED BY <1>2, <3>1, <3>2, <3>3 DEF Lone
    <2> QED BY <2>1, <2>2
<1>5. ASSUME NEW a \in answers', NEW e \in Docs \ muddled', NEW f \in Flags
      PROVE  e \in a.is[f] <=> e \in server'[f]
    <2>1. e \in a.is[f] <=> e \in server[f]
        BY <1>5 DEF FlagInv
    <2>2. CASE e = d
        BY <1>5, <2>1, <2>2
    <2>3. CASE e # d
        BY <1>5, <2>1, <2>3
    <2> QED BY <2>2, <2>3
<1> QED
    BY <1>3, <1>4, <1>5 DEF FlagInv

LEMMA TogglesFlags ==
    ASSUME AllFit, FlagInv, NEW d \in Docs, NEW f \in Flags, NEW val \in BOOLEAN, Toggles(d, f, val)
    PROVE  FlagInv'
<1>0. PICK own \in BOOLEAN : own <=> d \in page.held
    OBVIOUS
<1>1. PICK change \in BOOLEAN : change <=> (val <=> d \notin page.is[f])
    OBVIOUS
<1>2. PICK t \in Toggle :
         t = [doc |-> d, flag |-> f, val |-> val, own |-> own, change |-> change, done |-> FALSE]
    BY DEF Toggle
<1>3. t.doc = d /\ t.flag = f /\ t.val = val /\ t.own = own /\ t.change = change /\ ~t.done
    BY <1>2
<1>4. /\ page' = (IF t.own THEN Flag(page, d, f, val) ELSE renderDocs(page, page.docq))
      /\ toggles' = toggles \cup {t}
      /\ muddled' = IF Under(d) \/ Loading THEN muddled \cup {d} ELSE muddled
      /\ UNCHANGED <<server, homing, asked, answers>>
    <2>1. own = (d \in page.held)
        BY <1>0
    <2>2. change = (val # (d \in page.is[f]))
        BY <1>1
    <2> QED BY <1>2, <2>1, <2>2 DEF Toggles
<1>5. /\ page'.held = page.held
      /\ own => page'.is = [page.is EXCEPT ![f] = Put(page.is[f], d, val)]
      /\ ~own => page'.is = page.is
    BY <1>3, <1>4, Ready, FlagFits, RenderFits DEF Calm
<1>6. page.is \in Marks /\ toggles \subseteq Toggle
    BY Ready DEF Page, AllFit, Around
<1>7. /\ \A g \in Flags : g # f => page'.is[g] = page.is[g]
      /\ own => page'.is[f] = Put(page.is[f], d, val)
      /\ page'.is[f] \in {page.is[f], Put(page.is[f], d, val)}
    BY <1>5, <1>6 DEF Marks
<1>8. ASSUME NEW e \in Docs \ {d}, NEW g \in Flags
      PROVE  e \in page'.is[g] <=> e \in page.is[g]
    BY <1>7, <1>8, PutOthers
<1>9. CASE d \in muddled'
    BY <1>3, <1>4, <1>5, <1>6, <1>8, <1>9, OneDocument
<1>10. CASE d \notin muddled'
    <2>1. ~Under(d) /\ ~Loading /\ d \notin muddled
        BY <1>4, <1>10
    <2>2. \A g : ~On(d, g)
        BY <2>1 DEF On, Under
    <2>3. own => \A g \in Flags : d \in page.is[g] <=> d \in server[g]
        BY <1>0, <2>1, <2>2 DEF FlagInv
    <2>4. own => (d \in page'.is[f] <=> val)
        BY <1>7 DEF Put
    <2>5. own => (d \in server'[f] <=> IF t.done \/ ~t.change THEN val ELSE ~val)
        <3>1. server'[f] = server[f]
            BY <1>4
        <3>2. own => (d \in page.is[f] <=> d \in server[f])
            BY <2>3
        <3>3. t.change <=> change
            BY <1>3
        <3> QED BY <1>1, <1>3, <3>1, <3>2, <3>3
    <2>6. ~Loading'
        BY <1>4, <2>1 DEF Loading
    <2>7. \A u \in toggles' : u.doc = d => u = t
        BY <1>4, <2>1 DEF Under
    <2>8. Lone(t)'
        BY <1>0, <1>3, <1>5, <2>4, <2>5, <2>6, <2>7 DEF Lone
    <2>9. \A u \in toggles' : u.doc = d => Lone(u)'
        BY <2>7, <2>8
    <2>10. d \in page.held => \A g \in Flags : ~On(d, g)' => (d \in page'.is[g] <=> d \in server'[g])
        BY <1>0, <1>3, <1>4, <1>7, <2>3 DEF On
    <2> QED BY <1>3, <1>4, <1>5, <1>6, <1>8, <2>9, <2>10, OneDocument
<1> QED
    BY <1>9, <1>10

LEMMA ReachesFlags ==
    ASSUME AllFit, FlagInv, NEW t \in toggles, ToggleReaches(t)
    PROVE  FlagInv'
<1> DEFINE s == [t EXCEPT !.done = TRUE]
<1>1. t \in Toggle /\ toggles \subseteq Toggle /\ server \in Marks
    BY DEF AllFit, Around
<1>2. /\ s \in Toggle /\ s.doc = t.doc /\ s.flag = t.flag /\ s.val = t.val /\ s.own = t.own /\ s.change = t.change /\ s.done
      /\ t.doc \in Docs /\ t.flag \in Flags /\ t.val \in BOOLEAN
    BY <1>1 DEF Toggle
<1>3. /\ toggles' = (toggles \ {t}) \cup {s} /\ ~t.done
      /\ server' = [server EXCEPT ![t.flag] = Put(server[t.flag], t.doc, t.val)]
      /\ UNCHANGED <<page, homing, asked, answers, muddled, made>>
    BY DEF ToggleReaches
<1> HIDE DEF s
<1>4. /\ \A g \in Flags : g # t.flag => server'[g] = server[g]
      /\ server'[t.flag] = Put(server[t.flag], t.doc, t.val)
    BY <1>1, <1>2, <1>3 DEF Marks
<1>5. ASSUME NEW e \in Docs \ {t.doc}, NEW g \in Flags PROVE e \in server'[g] <=> e \in server[g]
    BY <1>4, <1>5, PutOthers
<1>6. CASE t.doc \in muddled
    BY <1>1, <1>2, <1>3, <1>5, <1>6, OneDocument
<1>7. CASE t.doc \notin muddled
    <2>1. Lone(t)
        BY <1>7 DEF FlagInv
    <2>2. answers = {} /\ ~Loading'
        BY <1>3, <2>1 DEF Lone, Loading
    <2>3. t.doc \in server'[t.flag] <=> t.val
        BY <1>2, <1>4 DEF Put
    <2>4. \A u \in toggles' : u.doc = t.doc => u = s
        BY <1>3, <2>1 DEF Lone
    <2>5. Lone(s)'
        BY <1>2, <1>3, <2>1, <2>2, <2>3, <2>4 DEF Lone
    <2>6. ASSUME NEW g \in Flags, ~On(t.doc, g)', t.doc \in page.held
          PROVE  t.doc \in page'.is[g] <=> t.doc \in server'[g]
        <3>1. g # t.flag
            BY <1>2, <1>3, <2>6 DEF On
        <3>2. ~On(t.doc, g)
            BY <2>1, <3>1 DEF On, Lone
        <3>3. t.doc \in page.is[g] <=> t.doc \in server[g]
            BY <1>7, <2>6, <3>2 DEF FlagInv
        <3> QED BY <1>3, <1>4, <3>1, <3>3
    <2> QED BY <1>1, <1>2, <1>3, <1>5, <2>2, <2>4, <2>5, <2>6, OneDocument
<1> QED
    BY <1>6, <1>7

\* A toggle ends: done, taken back, or with its document muddled.
LEMMA EndFlags ==
    ASSUME AllFit, FlagInv, NEW t \in toggles, toggles' = toggles \ {t},
           UNCHANGED <<server, asked, answers>>, muddled \subseteq muddled', page'.held = page.held,
           \/ page'.is = page.is /\ (t.done \/ t.doc \in muddled')
           \/ /\ page'.is = [page.is EXCEPT ![t.flag] = Put(page.is[t.flag], t.doc, ~t.val)]
              /\ (~t.done /\ t.change) \/ t.doc \in muddled'
           \/ page'.is = page.is /\ ~t.own
    PROVE  FlagInv'
<1>1. /\ t \in Toggle /\ toggles \subseteq Toggle /\ page.is \in Marks
      /\ t.doc \in Docs /\ t.flag \in Flags /\ t.val \in BOOLEAN /\ (~t.val) \in BOOLEAN
    BY Ready DEF AllFit, Around, Toggle, Page
<1>2. /\ \A g \in Flags : g # t.flag => page'.is[g] = page.is[g]
      /\ page'.is[t.flag] \in {page.is[t.flag], Put(page.is[t.flag], t.doc, ~t.val)}
    BY <1>1 DEF Marks
<1>3. ASSUME NEW e \in Docs \ {t.doc}, NEW g \in Flags PROVE e \in page'.is[g] <=> e \in page.is[g]
    BY <1>2, <1>3, PutOthers
<1>4. CASE t.doc \in muddled'
    BY <1>1, <1>3, <1>4, OneDocument
<1>5. CASE t.doc \notin muddled'
    <2>1. Lone(t) /\ t.doc \notin muddled
        BY <1>5 DEF FlagInv
    <2>2. \A u \in toggles' : u.doc # t.doc
        BY <2>1 DEF Lone
    <2>3. ASSUME t.doc \in page.held PROVE t.doc \in page'.is[t.flag] <=> t.doc \in server[t.flag]
        <3>0. t.own
            BY <2>1, <2>3 DEF Lone
        <3>1. CASE page'.is = page.is /\ t.done
            BY <1>1, <2>1, <3>0, <3>1 DEF Lone
        <3>2. CASE /\ page'.is = [page.is EXCEPT ![t.flag] = Put(page.is[t.flag], t.doc, ~t.val)]
                   /\ ~t.done /\ t.change
            <4>1. page'.is[t.flag] = Put(page.is[t.flag], t.doc, ~t.val)
                BY <1>1, <3>2 DEF Marks
            <4>2. t.doc \in page'.is[t.flag] <=> ~t.val
                BY <1>1, <4>1 DEF Put
            <4> QED BY <1>1, <2>1, <3>0, <3>2, <4>2 DEF Lone
        <3> QED BY <1>5, <3>0, <3>1, <3>2
    <2>4. ASSUME NEW g \in Flags, t.doc \in page.held
          PROVE  t.doc \in page'.is[g] <=> t.doc \in server[g]
        <3>1. CASE g = t.flag
            BY <2>3, <2>4, <3>1
        <3>2. CASE g # t.flag
            <4>1. ~On(t.doc, g)
                BY <2>1, <3>2 DEF On, Lone
            <4> QED BY <1>2, <2>1, <2>4, <3>2, <4>1 DEF FlagInv
        <3> QED BY <3>1, <3>2
    <2> QED BY <1>1, <1>3, <2>2, <2>4, OneDocument
<1> QED
    BY <1>4, <1>5

LEMMA ToggleFlags ==
    ASSUME AllFit, FlagInv, NEW t \in toggles,
           ToggleReaches(t) \/ ToggleAnswered(t) \/ ToggleRefused(t) \/ ToggleLost(t)
    PROVE  FlagInv'
<1>1. t \in Toggle
    BY DEF AllFit, Around
<1> DEFINE back == [page.is EXCEPT ![t.flag] = Put(page.is[t.flag], t.doc, ~t.val)]
           e == expireWriteAccess(page)
<1>2. Fits(e) /\ e.held = page.held /\ e.is = page.is
    BY Ready, ExpiredFits DEF Calm
<1> HIDE DEF e
<1>3. ASSUME page' = Revert(page, t) \/ page' = Revert(e, t)
      PROVE  /\ page'.held = page.held
             /\ t.own => page'.is = back
             /\ ~t.own => page'.is = page.is
    BY <1>1, <1>2, <1>3, Ready, RevertFits
<1> HIDE DEF back
<1>4. CASE ToggleAnswered(t)
    BY <1>4, EndFlags DEF ToggleAnswered
<1>5. CASE ToggleRefused(t)
    <2>1. page' = Revert(page, t) \/ page' = Revert(e, t)
        BY <1>5 DEF ToggleRefused, e
    <2> QED BY <1>3, <1>5, <2>1, EndFlags DEF ToggleRefused, Muddle, back
<1>6. CASE ToggleLost(t)
    <2>1. /\ page' = Revert(page, t) /\ toggles' = toggles \ {t}
          /\ muddled' = Muddle(t)
          /\ UNCHANGED <<server, homing, asked, answers, made>>
        BY <1>6 DEF ToggleLost
    <2> QED BY <1>3, <2>1, EndFlags DEF Muddle, back
<1> QED
    BY <1>4, <1>5, <1>6, ReachesFlags

\* A list that comes, or fails to, is of a load: then no toggle is a lone one.
LEMMA LoadFlags ==
    ASSUME AllFit, FlagInv,
           \/ \E t \in Themes : LoadFails(t)
           \/ \E a \in answers : LoadAnswered(a)
    PROVE  FlagInv'
<1>1. Loading /\ UNCHANGED <<server, muddled>> /\ answers' \subseteq answers
    BY DEF Loading, LoadFails, LoadAnswered
<1>2. \A t \in toggles : t.doc \in muddled
    BY <1>1 DEF FlagInv, Lone
<1>3. ASSUME NEW u \in toggles' PROVE \E t \in toggles : u.doc = t.doc
    <2>1. toggles \subseteq Toggle
        BY DEF AllFit, Around
    <2>2. \A t \in toggles : [t EXCEPT !.own = FALSE].doc = t.doc
        BY <2>1 DEF Toggle
    <2>3. toggles' = toggles \/ Disown
        BY DEF LoadFails, LoadAnswered
    <2>4. CASE Disown
        <3>1. PICK t \in toggles : u = [t EXCEPT !.own = FALSE]
            BY <1>3, <2>4 DEF Disown
        <3> QED BY <2>2, <3>1
    <2> QED BY <1>3, <2>3, <2>4
<1>4. \A d \in Docs \ muddled, f \in Flags : ~On(d, f)
    BY <1>2 DEF On
<1>5. ASSUME NEW d \in page'.held \ muddled, NEW f \in Flags
      PROVE  d \in page'.is[f] <=> d \in server[f]
    <2>1. CASE \E t \in Themes : LoadFails(t)
        <3>1. page' = page
            BY <1>5, <2>1, LoadFailsStep
        <3> QED BY <1>4, <1>5, <3>1, Ready DEF FlagInv
    <2>2. ASSUME NEW a \in answers, LoadAnswered(a)
          PROVE  d \in page'.is[f] <=> d \in server[f]
        <3>1. page'.is[f] = a.is[f] \cap page'.held /\ d \in Docs
            BY <2>2, LoadAnsweredStep DEF AllFit, Fits, Loose, Page
        <3> QED BY <1>5, <3>1 DEF FlagInv
    <2> QED BY <2>1, <2>2
<1> QED
    BY <1>1, <1>2, <1>3, <1>5 DEF FlagInv

LEMMA FlagStep == ASSUME AllFit, FlagInv, [Next]_vars PROVE FlagInv'
<1>1. CASE /\ \/ \E v \in Queries \cup {Blank} : TypeInList(v) \/ TypeInCenter(v)
              \/ EnterInList \/ CloseResults \/ focusMobileSearch \/ DebounceFires
              \/ filterDocsByMissingDetail
              \/ EnterInCenter \/ doSemantic \/ toggleShowHidden \/ RevealDocs
              \/ \E v \in Views : SwitchView(v)
              \/ highlightSearchInGraph \/ renderDocPanel
              \/ \E d \in Docs : openReader(d)
              \/ \E s \in page.searches : SearchAnswered(s) \/ SearchRead(s)
              \/ \E s \in Scopes : whoami(s)
    <2>1. Still
        BY <1>1, BoxStep, CenterStep, HighlightStep, SearchAnsweredStep, SearchReadStep, LoadStep
    <2>2. UNCHANGED calls
        BY <1>1 DEF TypeInList, TypeInCenter, EnterInList, CloseResults, focusMobileSearch,
           DebounceFires, filterDocsByMissingDetail, EnterInCenter, doSemantic, toggleShowHidden,
           RevealDocs, SwitchView, highlightSearchInGraph, SearchAnswered, SearchRead, whoami,
           openReader, renderDocPanel, rest
    <2> QED BY <2>1, <2>2, StillFlags DEF calls, Loading
<1>2. CASE \/ RefreshList \/ enterHome
           \/ \E t \in Themes : LoadReaches(t) \/ switchKnowledgeTheme(t)
    <2>1. Still
        BY <1>2, LoadStep
    <2>2. CASE RefreshList \/ enterHome
        BY <2>1, <2>2, StillFlags DEF RefreshList, enterHome, Loads
    <2>3. ASSUME NEW t \in Themes, LoadReaches(t) PROVE FlagInv'
        BY <2>1, <2>3, StillFlags DEF LoadReaches, Loading
    <2>4. ASSUME NEW t \in Themes, switchKnowledgeTheme(t) PROVE FlagInv'
        BY <2>1, <2>4, StillFlags DEF switchKnowledgeTheme, Loading
    <2> QED BY <1>2, <2>2, <2>3, <2>4
<1>3. CASE UNCHANGED vars
    BY <1>3, StillFlags DEF vars, Still, Loading
<1>4. CASE User
    BY <1>1, <1>2, <1>4, TogglesFlags DEF User
<1>5. CASE Answered
    BY <1>1, <1>2, <1>5, ToggleFlags, LoadFlags DEF Answered
<1> QED
    BY <1>1, <1>2, <1>3, <1>4, <1>5 DEF Next

(***************************************************************************)
(* Theorems                                                                *)
(***************************************************************************)
LEMMA NextFits == ASSUME AllFit, [Next]_vars PROVE AllFit' /\ (Last \/ UNCHANGED vars)
<1>1. CASE User
    BY <1>1, BoxStep, CenterStep, HighlightStep, TogglesStep, LoadStep DEF User
<1>2. CASE Answered
    BY <1>2, SearchAnsweredStep, SearchReadStep, ToggleStep, LoadStep, LoadFailsStep,
       LoadAnsweredStep DEF Answered
<1>3. CASE DebounceFires \/ RefreshList \/ renderDocPanel \/ \E s \in Scopes : whoami(s)
    BY <1>3, BoxStep, CenterStep, LoadStep
<1>4. CASE UNCHANGED vars
    <2>1. UNCHANGED <<page, server, toggles, homing, asked, answers, panel, muddled, latest, made>>
        BY <1>4 DEF vars
    <2> QED BY <1>4, <2>1 DEF AllFit, Around, Heard, Silent
<1> QED
    BY <1>1, <1>2, <1>3, <1>4 DEF Next

\* The page fits at every step: its types, its searches of which at most those
\* of the present number are live, and its list.
THEOREM AlwaysFits == Spec => []AllFit
<1>1. Init => AllFit
    BY InitFits
<1>2. AllFit /\ [Next]_vars => AllFit'
    BY NextFits
<1> QED
    BY <1>1, <1>2, PTL DEF Spec

\* The page, the calls under way and their bounds are what TypeOK says, and a
\* live search has the number the counter stands at (currentSearchSeq).
THEOREM TypeCorrect == Spec => []TypeOK
<1>1. AllFit => TypeOK
    <2> SUFFICES ASSUME AllFit PROVE TypeOK
        OBVIOUS
    <2>1. page.started \in Nat /\ homing \in Nat /\ made \in Nat \ {0} /\ MaxCalls \in Nat
          /\ page.started + homing + made <= MaxCalls
        BY ListAssumption DEF AllFit, Around, Fits, Loose, Page
    <2>2. homing \in 0..MaxCalls /\ made \in 1..MaxCalls
        BY <2>1
    <2>3. page \in Page /\ Alive(page)
        BY DEF AllFit, Fits, Loose
    <2> QED BY <2>2, <2>3 DEF AllFit, Around, Heard, TypeOK, Page, Showing, Result, Alive
<1> QED
    BY <1>1, AlwaysFits, PTL

\* Whatever is typed, toggled, refused, loaded or switched: the list drawn is
\* that of the documents and flags the page holds (renderDocs).
THEOREM ListIsCurrent == Spec => []ListFollowsDocuments
<1>1. AllFit => ListFollowsDocuments
    BY DEF AllFit, Fits, Current, ListFollowsDocuments
<1> QED
    BY <1>1, AlwaysFits, PTL

\* However the answers and their bodies overtake one another, results and
\* marks are only ever taken from the last search, and not if a text or a key
\* ended it since (currentSearchSeq).
THEOREM LastSearch == Spec => LastSearchWins
<1> DEFINE A == /\ page'.results.n \notin {0, page.results.n} => page'.results.n = latest
                /\ page'.marked \notin {Unmarked, ByLabel, page.marked, page.results.n}
                      => page'.marked = latest
<1>1. AllFit /\ [Next]_vars => [A]_vars
    BY NextFits DEF Last
<1> QED
    BY <1>1, AlwaysFits, PTL DEF Spec, LastSearchWins

\* With no toggle of a document under way, its flags on the page are those of
\* the server, whatever was refused, lost on its way, loaded, switched or asked
\* for by a box that stands wrong, but for the documents FlagsSettle excepts
\* (togglePin, toggleHide).
THEOREM FlagsAgree == Spec => []FlagsSettle
<1>1. Init => FlagInv
    BY DEF Init, FlagInv
<1>2. AllFit /\ FlagInv /\ [Next]_vars => FlagInv'
    BY FlagStep
<1>3. FlagInv => FlagsSettle
    BY DEF FlagInv, FlagsSettle, On, Under
<1> QED
    BY <1>1, <1>2, <1>3, AlwaysFits, PTL DEF Spec
===============================================================================
