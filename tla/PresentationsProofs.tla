-------------------------- MODULE PresentationsProofs --------------------------
(***************************************************************************)
(* What holds of the slides' tab for every number of documents, presses    *)
(* and polls.                                                              *)
(***************************************************************************)
EXTENDS Presentations, TLAPS

(***************************************************************************)
(* What the functions of the page do to it.  Drawing the tab ends the      *)
(* button's work, closes the box and offers slides of the document drawn.  *)
(***************************************************************************)
LEMMA ViewSays ==
    ASSUME NEW p \in Page, NEW d \in Maybe
    PROVE  /\ updatePresentationView(p, d) \in Page
           /\ updatePresentationView(p, d).target = p.target
           /\ updatePresentationView(p, d).has = p.has
           /\ updatePresentationView(p, d).doc = p.doc
           /\ updatePresentationView(p, d).box = "closed"
           /\ ~Busy(updatePresentationView(p, d))
           /\ updatePresentationView(p, d).shown.kind = "offer" =>
                updatePresentationView(p, d).shown.of = d /\ p.has[d] = "no"
BY DEF updatePresentationView, Show, Page, Maybe, Busy

LEMMA DrawnSays ==
    ASSUME NEW p \in Page, NEW d \in Maybe
    PROVE  /\ Drawn(p, d) \in Page
           /\ Drawn(p, d).target = p.target
           /\ Drawn(p, d).has = p.has
           /\ Drawn(p, d).doc = p.doc
           /\ Drawn(p, d).box = "making" => p.box = "making"
           /\ ~Busy(Drawn(p, d))
           /\ Drawn(p, d).shown.kind = "offer" => Drawn(p, d).shown.of = d /\ p.has[d] = "no"
<1>1. CASE Tab(p)
    BY <1>1, ViewSays DEF Drawn
<1>2. CASE ~Tab(p)
    BY <1>2 DEF Drawn, Tab, Busy
<1> QED
    BY <1>1, <1>2

LEMMA ReadySays ==
    ASSUME NEW p \in Page, NEW d \in Docs
    PROVE  /\ OnPresentationReady(p, d) \in Page
           /\ OnPresentationReady(p, d).target = p.target
           /\ OnPresentationReady(p, d).doc = p.doc
           /\ OnPresentationReady(p, d).box = "making" => p.box = "making"
           /\ OnPresentationReady(p, d).shown.kind # "offer"
           /\ \A e \in Docs : e # d => OnPresentationReady(p, d).has[e] = p.has[e]
<1> DEFINE q == [p EXCEPT !.has[d] = IF @ = "unknown" THEN @ ELSE "yes"]
<1>1. /\ q \in Page /\ q.target = p.target /\ q.doc = p.doc /\ q.box = p.box
      /\ q.has[d] # "no" /\ \A e \in Docs : e # d => q.has[e] = p.has[e]
    BY DEF Page, Marks
<1>2. d \in Maybe
    BY DEF Maybe
<1>3. OnPresentationReady(p, d) = Drawn(q, d)
    BY DEF OnPresentationReady
<1> HIDE DEF q
<1> QED
    BY <1>1, <1>2, <1>3, DrawnSays

LEMMA RetrySays ==
    ASSUME NEW p \in Page
    PROVE  /\ Retry(p) \in Page /\ ~Busy(Retry(p))
           /\ Retry(p).box = p.box /\ Retry(p).shown = p.shown /\ Retry(p).has = p.has
           /\ Retry(p).doc = p.doc /\ Retry(p).target = p.target
BY DEF Retry, Page, Busy

(***************************************************************************)
(* A step that leaves the work alone: the page q is p but for what drawing *)
(* the chosen document changes.                                            *)
(***************************************************************************)
Redrawn(p, q) ==
    /\ q \in Page /\ q.target = p.target /\ q.has = p.has /\ q.doc = p.doc
    /\ Busy(q) => Busy(p)
    /\ q.box = "making" => p.box = "making"
    /\ q.shown.kind = "offer" => q.shown = p.shown \/ q.shown.of = p.doc

LEMMA LoadRedraws ==
    ASSUME NEW p \in Page, setAccessScope(p) \/ loadDocPanel(p), loads \subseteq Docs
    PROVE  Redrawn(p, page') /\ loads' \subseteq Docs
<1>0. p.doc \in Maybe
    BY DEF Page
<1>1. CASE page' = p
    BY <1>0, <1>1 DEF setAccessScope, loadDocPanel, Redrawn, Maybe
<1>2. CASE page' = Drawn(p, p.doc) /\ loads' = loads
    BY <1>0, <1>2, DrawnSays DEF Redrawn
<1> QED
    BY <1>1, <1>2 DEF setAccessScope, loadDocPanel

LEMMA TimedTyped ==
    ASSUME NEW C \in SUBSET Chain, NEW c \in Chain
    PROVE  /\ Timed(C, c) \subseteq Chain
           /\ \A x, e \in Timed(C, c) : x.own /\ e.own => x = e
<1>1. \A r \in C : [r EXCEPT !.own = FALSE] \in Chain /\ ~[r EXCEPT !.own = FALSE].own
    BY DEF Chain
<1>2. [c EXCEPT !.phase = "timer", !.own = TRUE] \in Chain
    BY DEF Chain
<1> QED
    BY <1>1, <1>2, Zenon DEF Timed

LEMMA StoppedTyped ==
    ASSUME NEW C PROVE Stopped(C) \subseteq C
BY DEF Stopped

(***************************************************************************)
(* TypeOK: every step of the tab keeps the types, and at most one chain    *)
(* has its timer in presPollTimer.                                         *)
(***************************************************************************)
LEMMA UserTyped == ASSUME TypeOK, User PROVE TypeOK'
<1> USE PresentationsAssumption
<1>0. page \in Page /\ page.doc \in Maybe /\ Chosen(page) \subseteq Maybe /\ loads \subseteq Docs
    BY DEF TypeOK, Page, Chosen
<1>1. CASE ShowTab
    <2>1. PICK d \in Chosen(page) : page' = updatePresentationView(page, d)
        BY <1>1 DEF ShowTab
    <2>2. page' \in Page
        BY <1>0, <2>1, ViewSays
    <2> QED BY <1>1, <2>2 DEF TypeOK, ShowTab, Calls, Server
<1>2. ASSUME NEW d \in Docs, OpenReader(d) PROVE TypeOK'
    <2>1. [page EXCEPT !.doc = d] \in Page /\ d \in Maybe
        BY <1>0 DEF Page, Maybe
    <2>2. page' \in Page
        BY <1>2, <2>1, DrawnSays DEF OpenReader
    <2> QED BY <1>2, <2>2 DEF TypeOK, OpenReader, Calls, Server
<1>3. CASE LeaveTab
    <2>1. page' \in Page
        BY <1>0, <1>3 DEF LeaveTab, Show, Page, Maybe
    <2> QED BY <1>3, <2>1 DEF TypeOK, LeaveTab, Calls, Server
<1>4. CASE GoHome
    <2>1. page' \in Page
        BY <1>0, <1>4 DEF GoHome, Page, Maybe
    <2> QED BY <1>4, <2>1 DEF TypeOK, GoHome, Calls, Server
<1>5. CASE ThemeChanges
    <2>1. PICK d \in Chosen(page), enabled \in BOOLEAN :
            page' = [Drawn([page EXCEPT !.enabled = enabled], d) EXCEPT !.doc = None]
        BY <1>5 DEF ThemeChanges
    <2>2. [page EXCEPT !.enabled = enabled] \in Page
        BY <1>0 DEF Page
    <2>3. Drawn([page EXCEPT !.enabled = enabled], d) \in Page
        BY <1>0, <2>2, DrawnSays
    <2>4. page' \in Page
        BY <2>1, <2>3 DEF Page, Maybe
    <2> QED BY <1>5, <2>4 DEF TypeOK, ThemeChanges, Calls, Server
<1>6. CASE GeneratePresentation
    <2>1. page.doc \in Docs
        BY <1>0, <1>6 DEF GeneratePresentation, Maybe
    <2>2. page' \in Page
        BY <1>0, <1>6 DEF GeneratePresentation, Page, Maybe
    <2>3. posts' \in [Docs -> Nat]
        BY <1>6, <2>1 DEF GeneratePresentation, TypeOK
    <2> QED BY <1>6, <2>2, <2>3, StoppedTyped DEF TypeOK, GeneratePresentation, Server
<1>7. CASE presentationShare
    <2>1. page' \in Page
        BY <1>0, <1>7 DEF presentationShare, Page
    <2> QED BY <1>7, <2>1 DEF TypeOK, presentationShare, Server
<1>8. ASSUME NEW d \in Docs, setActiveDoc(d) PROVE TypeOK'
    <2>1. [page EXCEPT !.doc = d] \in Page
        BY <1>0 DEF Page, Maybe
    <2>2. page' \in Page /\ loads' \subseteq Docs
        BY <1>0, <1>8, <2>1, LoadRedraws DEF setActiveDoc, Redrawn
    <2> QED BY <1>8, <2>2 DEF TypeOK, setActiveDoc, Calls, Server
<1> QED
    BY <1>1, <1>2, <1>3, <1>4, <1>5, <1>6, <1>7, <1>8 DEF User

LEMMA PostTyped == ASSUME TypeOK, NEW d \in Docs, PostAnswered(d) PROVE TypeOK'
<1> USE PresentationsAssumption
<1>0. page \in Page /\ posts' \in [Docs -> Nat]
    BY DEF TypeOK, PostAnswered
<1>1. CASE PostReady(d)
    BY <1>0, <1>1, ReadySays DEF PostReady, TypeOK, PostAnswered
<1>2. CASE PostAccepted(d)
    <2>1. [of |-> d, phase |-> "timer", own |-> TRUE, polls |-> 0] \in Chain
        BY DEF Chain
    <2>2. page' \in Page /\ tasks' \subseteq Docs
        BY <1>0, <1>2 DEF TypeOK, PostAccepted, Page, Maybe
    <2>3. chains' \subseteq Chain /\ \A c, e \in chains' : c.own /\ e.own => c = e
        BY <1>2, <2>1, TimedTyped DEF PostAccepted, TypeOK
    <2> QED BY <1>0, <2>2, <2>3 DEF TypeOK, PostAnswered
<1>3. CASE PostFails(d)
    <2>1. page' \in Page /\ tasks' \subseteq Docs
        BY <1>0, <1>3, RetrySays DEF PostFails, TypeOK
    <2> QED BY <1>0, <1>3, <2>1 DEF TypeOK, PostAnswered, PostFails
<1> QED
    BY <1>1, <1>2, <1>3 DEF PostAnswered

LEMMA ChainTyped ==
    ASSUME TypeOK, NEW c \in chains, PollStep(c) \/ PollAnswered(c) \/ PollLost(c)
    PROVE  TypeOK'
<1> USE PresentationsAssumption
<1>1. c \in Chain /\ c.of \in Docs /\ c.polls \in 0..MaxPolls /\ page \in Page
    BY DEF TypeOK, Chain
<1>2. \A p \in Page : [p EXCEPT !.target = None] \in Page
    BY DEF Page, Maybe
<1>3. ASSUME NEW p \in Page, Ends(c, p)
      PROVE  page' \in Page /\ chains' \subseteq chains
    BY <1>2, <1>3, StoppedTyped DEF Ends
<1>4. CASE PollStep(c)
    <2>1. CASE ~Counts(c)
        BY <1>4, <2>1 DEF PollStep, TypeOK, Calls, Server
    <2>2. CASE Counts(c) /\ c.polls = MaxPolls
        <3>1. page' \in Page /\ chains' \subseteq chains
            BY <1>1, <1>2, <1>4, <2>2, RetrySays, StoppedTyped DEF PollStep
        <3> QED BY <1>4, <3>1 DEF PollStep, TypeOK, Calls, Server
    <2>3. CASE Counts(c) /\ c.polls # MaxPolls
        <3> DEFINE e == [c EXCEPT !.phase = "asked", !.polls = @ + 1]
        <3> HIDE DEF e
        <3>0. c.polls + 1 \in 0..MaxPolls
            BY <1>1, <2>3
        <3>1. e \in Chain /\ e.own = c.own
            BY <1>1, <3>0 DEF Chain, e
        <3>2. chains' = (chains \ {c}) \cup {e} /\ page' = page
            BY <1>4, <2>3 DEF PollStep, e
        <3>3. chains' \subseteq Chain
            BY <3>1, <3>2 DEF TypeOK
        <3>4. ASSUME NEW x \in chains', NEW y \in chains', x.own, y.own PROVE x = y
            BY <3>1, <3>2, <3>4, Zenon DEF TypeOK
        <3> QED BY <1>4, <3>2, <3>3, <3>4 DEF PollStep, TypeOK, Calls, Server
    <2> QED BY <2>1, <2>2, <2>3
<1>5. CASE PollAnswered(c)
    <2>1. CASE ~Counts(c)
        BY <1>5, <2>1 DEF PollAnswered, TypeOK, Calls, Server
    <2>2. CASE Ends(c, OnPresentationReady(page, c.of)) \/ Ends(c, Retry(page))
        <3>1. page' \in Page /\ chains' \subseteq chains
            BY <1>1, <1>3, <2>2, ReadySays, RetrySays
        <3> QED BY <1>5, <3>1 DEF PollAnswered, TypeOK, Calls, Server
    <2>3. CASE chains' = Timed(chains, c) /\ UNCHANGED page
        BY <1>1, <1>5, <2>3, TimedTyped DEF PollAnswered, TypeOK, Calls, Server
    <2> QED BY <1>5, <2>1, <2>2, <2>3 DEF PollAnswered
<1>6. CASE PollLost(c)
    BY <1>1, <1>6, TimedTyped DEF PollLost, TypeOK, Calls, Server
<1> QED
    BY <1>4, <1>5, <1>6

LEMMA ShareSays ==
    ASSUME TypeOK, ShareAnswered
    PROVE  \E p \in Page : /\ Redrawn(p, page') /\ loads' \subseteq Docs
                           /\ p.shown = page.shown /\ p.button = page.button /\ p.doc = page.doc
                           /\ p.has = page.has /\ p.target = page.target /\ p.box # "making"
<1>0. page \in Page /\ loads \subseteq Docs
    BY DEF TypeOK
<1>1. ASSUME NEW box \in {"link", "failed"}
      PROVE  LET p == Filled(page, box) IN
             /\ p \in Page /\ p.shown = page.shown /\ p.button = page.button /\ p.doc = page.doc
             /\ p.has = page.has /\ p.target = page.target /\ p.box # "making"
    BY <1>0 DEF Filled, Page
<1>2. CASE \E box \in {"link", "failed"} : page' = Filled(page, box) /\ UNCHANGED loads
    <2>1. PICK box \in {"link", "failed"} : page' = Filled(page, box) /\ UNCHANGED loads
        BY <1>2
    <2>2. Redrawn(page', page')
        BY <1>1, <2>1 DEF Redrawn
    <2> QED BY <1>0, <1>1, <2>1, <2>2
<1>3. CASE setAccessScope([Filled(page, "failed") EXCEPT !.owner = FALSE])
    <2> DEFINE p == [Filled(page, "failed") EXCEPT !.owner = FALSE]
    <2>1. /\ p \in Page /\ p.shown = page.shown /\ p.button = page.button /\ p.doc = page.doc
          /\ p.has = page.has /\ p.target = page.target /\ p.box # "making"
        BY <1>1 DEF Page
    <2>2. setAccessScope(p)
        BY <1>3
    <2> HIDE DEF p
    <2>3. Redrawn(p, page') /\ loads' \subseteq Docs
        BY <1>0, <2>1, <2>2, LoadRedraws
    <2> QED BY <2>1, <2>3
<1> QED
    BY <1>2, <1>3 DEF ShareAnswered

\* What comes from the server leaves the calls, the chains and the work alone.
LEMMA LoadedSays ==
    ASSUME TypeOK, Loaded
    PROVE  /\ \E p \in Page : /\ Redrawn(p, page')
                              /\ p.shown = page.shown /\ p.button = page.button
                              /\ p.box = page.box /\ p.target = page.target /\ p.doc = page.doc
                              /\ \A d \in Docs : p.has[d] = "yes" =>
                                    page.has[d] = "yes" \/ server[d] = "ready"
           /\ loads' \subseteq Docs
           /\ UNCHANGED <<chains, posts, shares, made, server, tasks>>
<1> DEFINE Kept(p) ==
        /\ p.shown = page.shown /\ p.button = page.button
        /\ p.box = page.box /\ p.target = page.target /\ p.doc = page.doc
        /\ \A d \in Docs : p.has[d] = "yes" => page.has[d] = "yes" \/ server[d] = "ready"
<1>0. page \in Page /\ loads \subseteq Docs
    BY DEF TypeOK
<1>1. ASSUME NEW d \in Docs, NEW mark \in Says(d) \cup {"unknown"}
      PROVE  [page EXCEPT !.has[d] = mark] \in Page /\ Kept([page EXCEPT !.has[d] = mark])
    BY <1>0 DEF Page, Marks, Says
<1>2. ASSUME NEW p \in Page PROVE Redrawn(p, p)
    BY DEF Redrawn
<1>3. ASSUME NEW p \in Page, p.doc # None PROVE Redrawn(p, Drawn(p, p.doc))
    <2>1. p.doc \in Maybe
        BY DEF Page
    <2> QED BY <2>1, DrawnSays DEF Redrawn
<1> HIDE DEF Kept
<1>4. CASE Refreshed
    <2>1. PICK d \in Docs : \E mark \in Says(d) \cup {"unknown"} :
            page' = [page EXCEPT !.has[d] = mark]
        BY <1>4 DEF Refreshed
    <2>2. page' \in Page /\ Kept(page') /\ Redrawn(page', page')
        BY <1>1, <1>2, <2>1
    <2> QED BY <1>0, <1>4, <2>2 DEF Refreshed, Calls, Server, Kept
<1>5. CASE AccessExpires
    <2> DEFINE p == [page EXCEPT !.owner = FALSE]
    <2>1. p \in Page /\ Kept(p)
        BY <1>0 DEF Page, Kept
    <2>2. setAccessScope(p)
        BY <1>5 DEF AccessExpires
    <2> HIDE DEF p
    <2>3. Redrawn(p, page') /\ loads' \subseteq Docs
        BY <1>0, <2>1, <2>2, LoadRedraws
    <2> QED BY <1>5, <2>1, <2>3 DEF AccessExpires, Calls, Server, Kept
<1>6. ASSUME NEW d \in loads, PanelAnswered(d)
      PROVE  /\ \E p \in Page : Redrawn(p, page') /\ Kept(p)
             /\ loads' \subseteq Docs
             /\ UNCHANGED <<chains, posts, shares, made, server, tasks>>
    <2>0. d \in Docs /\ loads' \subseteq Docs /\ Kept(page) /\ Redrawn(page, page)
        BY <1>0, <1>2, <1>6 DEF PanelAnswered, Kept
    <2>1. CASE UNCHANGED page
        BY <1>0, <1>6, <2>0, <2>1 DEF PanelAnswered, PanelLoaded, Calls, Server
    <2>2. CASE page' # page
        <3>1. PICK mark \in Says(d) :
                page.doc = d /\ page' = Drawn([page EXCEPT !.has[d] = mark], d)
            BY <1>6, <2>2 DEF PanelAnswered, PanelLoaded
        <3>2. PICK p : p = [page EXCEPT !.has[d] = mark]
            OBVIOUS
        <3>3. p \in Page /\ Kept(p)
            BY <1>1, <2>0, <3>2
        <3>4. p.doc = d /\ d # None /\ page' = Drawn(p, p.doc)
            BY <2>0, <3>1, <3>2, <3>3, PresentationsAssumption DEF Kept
        <3>5. Redrawn(p, page')
            BY <1>3, <3>3, <3>4
        <3> QED BY <1>6, <2>0, <3>3, <3>5 DEF PanelAnswered, PanelLoaded, Calls, Server
    <2> QED BY <2>1, <2>2
<1> QED
    BY <1>4, <1>5, <1>6 DEF Loaded, Kept

THEOREM TypeCorrect == Spec => []TypeOK
<1> USE PresentationsAssumption
<1>1. Init => TypeOK
    BY DEF Init, TypeOK, Page, Maybe, Marks, Statuses
<1>2. TypeOK /\ [Next]_vars => TypeOK'
    <2> SUFFICES ASSUME TypeOK, [Next]_vars PROVE TypeOK'
        OBVIOUS
    <2>1. CASE User BY <2>1, UserTyped
    <2>2. ASSUME NEW d \in Docs, PostAnswered(d) PROVE TypeOK' BY <2>2, PostTyped
    <2>3. ASSUME NEW c \in chains, PollStep(c) \/ PollAnswered(c) \/ PollLost(c) PROVE TypeOK'
        BY <2>3, ChainTyped
    <2>4. CASE ShareAnswered
        <3>1. page' \in Page /\ loads' \subseteq Docs
            BY <2>4, ShareSays DEF Redrawn
        <3> QED BY <2>4, <3>1 DEF TypeOK, ShareAnswered, Server
    <2>5. CASE Loaded
        BY <2>5, LoadedSays DEF TypeOK, Redrawn
    <2>6. CASE Written
        BY <2>6 DEF TypeOK, Written, ServerStarts, ServerEnds, ServerRefuses, Calls, Statuses
    <2>7. CASE UNCHANGED vars BY <2>7 DEF vars, TypeOK
    <2> QED BY <2>1, <2>2, <2>3, <2>4, <2>5, <2>6, <2>7 DEF Next, Answered
<1> QED
    BY <1>1, <1>2, PTL DEF Spec

(***************************************************************************)
(* WorkIsUnderWay is inductive with TypeOK: whoever takes a call or a      *)
(* chain that counts away puts another one in its place or ends the work.  *)
(***************************************************************************)
LEMMA TimedCounts ==
    ASSUME NEW C \in SUBSET Chain, NEW c \in Chain
    PROVE  \E e \in Timed(C, c) : e.of = c.of
<1>1. [c EXCEPT !.phase = "timer", !.own = TRUE].of = c.of
    BY DEF Chain
<1> QED
    BY <1>1 DEF Timed

LEMMA WorkStep ==
    ASSUME TypeOK, WorkIsUnderWay, [Next]_vars
    PROVE  WorkIsUnderWay'
<1> USE PresentationsAssumption
<1>0. page \in Page /\ Chosen(page) \subseteq Maybe /\ loads \subseteq Docs
    BY DEF TypeOK, Page, Chosen
\* A step that begins no work, and leaves the calls, the chains and the target.
<1>2. ASSUME Busy(page') => Busy(page), page'.box = "making" => page.box = "making",
             page'.target = page.target, UNCHANGED <<chains, posts, shares>>
      PROVE  WorkIsUnderWay'
    BY <1>2 DEF WorkIsUnderWay, Working, Counts
\* One that ends it.
<1>1. ASSUME ~Busy(page'), page'.box = "making" => page.box = "making", UNCHANGED shares
      PROVE  WorkIsUnderWay'
    BY <1>1 DEF WorkIsUnderWay, Working
<1>3. CASE User
    <2>1. CASE ShowTab
        <3>1. PICK d \in Chosen(page) : page' = updatePresentationView(page, d)
            BY <2>1 DEF ShowTab
        <3> QED BY <1>0, <1>1, <2>1, <3>1, ViewSays DEF ShowTab, Calls
    <2>2. ASSUME NEW d \in Docs, OpenReader(d) PROVE WorkIsUnderWay'
        <3>1. PICK p : p = [page EXCEPT !.doc = d]
            OBVIOUS
        <3>2. p \in Page /\ p.box = page.box /\ d \in Maybe
            BY <1>0, <3>1 DEF Page, Maybe
        <3>3. page' = Drawn(p, d) /\ UNCHANGED shares
            BY <2>2, <3>1 DEF OpenReader, Calls
        <3>4. ~Busy(page') /\ (page'.box = "making" => page.box = "making")
            BY <3>2, <3>3, DrawnSays
        <3> QED BY <1>1, <3>3, <3>4
    <2>3. CASE LeaveTab
        BY <1>0, <1>1, <2>3 DEF LeaveTab, Show, Busy, Calls, Page
    <2>4. CASE GoHome
        BY <1>0, <1>2, <2>4 DEF GoHome, Busy, Calls, Page
    <2>5. CASE ThemeChanges
        <3>1. PICK d \in Chosen(page), enabled \in BOOLEAN :
                page' = [Drawn([page EXCEPT !.enabled = enabled], d) EXCEPT !.doc = None]
            BY <2>5 DEF ThemeChanges
        <3>2. PICK p : p = [page EXCEPT !.enabled = enabled]
            OBVIOUS
        <3>3. PICK q : q = Drawn(p, d)
            OBVIOUS
        <3>4. p \in Page /\ p.box = page.box /\ d \in Maybe
            BY <1>0, <3>2 DEF Page
        <3>5. q \in Page /\ ~Busy(q) /\ (q.box = "making" => page.box = "making")
            BY <3>3, <3>4, DrawnSays
        <3>6. page' = [q EXCEPT !.doc = None]
            BY <3>1, <3>2, <3>3
        <3>7. ~Busy(page') /\ (page'.box = "making" => page.box = "making")
            BY <3>5, <3>6 DEF Page, Busy
        <3> QED BY <1>1, <2>5, <3>7 DEF ThemeChanges, Calls
    <2>6. CASE GeneratePresentation
        <3>1. page.doc \in Docs /\ page'.box = page.box
            BY <1>0, <2>6 DEF GeneratePresentation, Page, Maybe
        <3>2. posts'[page.doc] > 0
            BY <2>6, <3>1 DEF GeneratePresentation, TypeOK
        <3> QED BY <2>6, <3>1, <3>2 DEF GeneratePresentation, WorkIsUnderWay
    <2>7. CASE presentationShare
        <3>1. shares' > 0
            BY <2>7 DEF presentationShare, TypeOK
        <3>2. ~Busy(page')
            BY <1>0, <2>7 DEF presentationShare, Busy, Page
        <3> QED BY <3>1, <3>2 DEF WorkIsUnderWay, Working
    <2>8. ASSUME NEW d \in Docs, setActiveDoc(d) PROVE WorkIsUnderWay'
        <3> DEFINE p == [page EXCEPT !.doc = d]
        <3>1. /\ p \in Page /\ p.shown = page.shown /\ p.button = page.button /\ p.box = page.box
              /\ p.target = page.target
            BY <1>0 DEF Page, Maybe
        <3>2. loadDocPanel(p) /\ UNCHANGED <<chains, posts, shares>>
            BY <2>8 DEF setActiveDoc, Calls
        <3> HIDE DEF p
        <3>3. Redrawn(p, page')
            BY <1>0, <3>1, <3>2, LoadRedraws
        <3> QED BY <1>2, <3>1, <3>2, <3>3 DEF Redrawn, Busy
    <2> QED BY <1>3, <2>1, <2>2, <2>3, <2>4, <2>5, <2>6, <2>7, <2>8 DEF User
<1>4. ASSUME NEW d \in Docs, PostAnswered(d) PROVE WorkIsUnderWay'
    <2>1. CASE PostReady(d)
        BY <1>0, <1>1, <1>4, <2>1, ReadySays DEF PostReady, PostAnswered, Busy
    <2>2. CASE PostAccepted(d)
        <3> DEFINE c == [of |-> d, phase |-> "timer", own |-> TRUE, polls |-> 0]
        <3>1. c \in Chain /\ c.of = d
            BY DEF Chain
        <3> HIDE DEF c
        <3>2. chains' = Timed(chains, c) /\ page' = [page EXCEPT !.target = d]
            BY <2>2 DEF PostAccepted, c
        <3>3. \E e \in chains' : e.of = d
            BY <3>1, <3>2, TimedCounts DEF TypeOK
        <3>4. page'.target = d /\ page'.box = page.box
            BY <1>0, <3>2 DEF Page
        <3> QED BY <1>4, <3>3, <3>4 DEF PostAnswered, WorkIsUnderWay, Counts
    <2>3. CASE PostFails(d)
        BY <1>0, <1>1, <1>4, <2>3, RetrySays DEF PostFails, PostAnswered
    <2> QED BY <1>4, <2>1, <2>2, <2>3 DEF PostAnswered
<1>5. ASSUME NEW c \in chains, PollStep(c) \/ PollAnswered(c) \/ PollLost(c)
      PROVE  WorkIsUnderWay'
    <2>0. c \in Chain /\ c.of \in Docs /\ UNCHANGED <<posts, shares>>
        BY <1>5 DEF TypeOK, Chain, PollStep, PollAnswered, PollLost, Calls
    \* A chain that does not count is not missed.
    <2>1. ASSUME ~Counts(c), chains' = chains \ {c}, UNCHANGED page
          PROVE  WorkIsUnderWay'
        BY <2>0, <2>1 DEF WorkIsUnderWay, Working, Counts
    \* One that counts goes on.
    <2>2. ASSUME Counts(c), \E e \in chains' : e.of = c.of, UNCHANGED page
          PROVE  WorkIsUnderWay'
        BY <2>0, <2>2 DEF WorkIsUnderWay, Working, Counts
    \* Or it ends, and the button with it.
    <2>3. ASSUME NEW p \in Page, ~Busy(p), p.box = "making" => page.box = "making",
                 page' = [p EXCEPT !.target = None]
          PROVE  WorkIsUnderWay'
        <3>1. ~Busy(page') /\ (page'.box = "making" => page.box = "making")
            BY <2>3 DEF Page, Busy
        <3> QED BY <1>1, <2>0, <3>1
    <2>4. CASE PollStep(c)
        <3>1. CASE ~Counts(c)
            BY <2>1, <2>4, <3>1 DEF PollStep
        <3>2. CASE Counts(c) /\ c.polls = MaxPolls
            <4>1. page' = [Retry(page) EXCEPT !.target = None]
                BY <2>4, <3>2 DEF PollStep
            <4> QED BY <1>0, <2>3, <4>1, RetrySays
        <3>3. CASE Counts(c) /\ c.polls # MaxPolls
            <4> DEFINE e == [c EXCEPT !.phase = "asked", !.polls = @ + 1]
            <4>1. e \in chains' /\ UNCHANGED page
                BY <2>4, <3>3 DEF PollStep
            <4>2. e.of = c.of
                BY <2>0 DEF Chain
            <4> QED BY <2>2, <3>3, <4>1, <4>2
        <3> QED BY <3>1, <3>2, <3>3
    <2>5. CASE PollAnswered(c)
        <3>1. CASE ~Counts(c)
            BY <2>1, <2>5, <3>1 DEF PollAnswered
        <3>2. CASE Ends(c, OnPresentationReady(page, c.of))
            BY <1>0, <2>0, <2>3, <3>2, ReadySays DEF Ends, Busy
        <3>3. CASE Ends(c, Retry(page))
            BY <1>0, <2>3, <3>3, RetrySays DEF Ends
        <3>4. CASE Counts(c) /\ chains' = Timed(chains, c) /\ UNCHANGED page
            BY <2>0, <2>2, <3>4, TimedCounts DEF TypeOK
        <3> QED BY <2>5, <3>1, <3>2, <3>3, <3>4 DEF PollAnswered
    <2>6. CASE PollLost(c)
        BY <2>0, <2>1, <2>2, <2>6, TimedCounts DEF PollLost, TypeOK
    <2> QED BY <1>5, <2>4, <2>5, <2>6
<1>6. CASE ShareAnswered
    <2>1. page'.box # "making" /\ (Busy(page') => Busy(page)) /\ page'.target = page.target
        BY <1>6, ShareSays DEF Redrawn, Busy
    <2> QED BY <1>6, <2>1 DEF ShareAnswered, WorkIsUnderWay, Working, Counts
<1>7. CASE Loaded
    BY <1>2, <1>7, LoadedSays DEF Redrawn, Busy
<1>8. CASE Written \/ UNCHANGED vars
    BY <1>2, <1>8 DEF Written, ServerStarts, ServerEnds, ServerRefuses, Calls, vars
<1> QED
    BY <1>3, <1>4, <1>5, <1>6, <1>7, <1>8 DEF Next, Answered

(***************************************************************************)
(* While something is said to be at work, a call or a chain that counts is *)
(* on its way.                                                             *)
(***************************************************************************)
THEOREM WorkStaysUnderWay == Spec => []WorkIsUnderWay
<1>1. Init => WorkIsUnderWay
    BY DEF Init, WorkIsUnderWay, Working, Busy
<1> QED
    BY <1>1, WorkStep, TypeCorrect, PTL DEF Spec

(***************************************************************************)
(* ButtonWritesOffer: the tab is drawn with an offer for the chosen        *)
(* document only, and an open tab is drawn whenever another is chosen.     *)
(***************************************************************************)
LEMMA OfferStep ==
    ASSUME TypeOK, ButtonWritesOffer, [Next]_vars
    PROVE  ButtonWritesOffer'
<1> USE PresentationsAssumption
<1>0. page \in Page /\ Chosen(page) \subseteq Maybe /\ loads \subseteq Docs
    BY DEF TypeOK, Page, Chosen
<1>1. ASSUME page'.shown = page.shown \/ page'.shown.kind # "offer", page'.doc = page.doc
      PROVE  ButtonWritesOffer'
    BY <1>1 DEF ButtonWritesOffer
\* The chosen document is drawn, or nothing new.
<1>2. ASSUME NEW p \in Page, p.shown = page.shown, p.doc = page.doc, Redrawn(p, page')
      PROVE  ButtonWritesOffer'
    BY <1>2 DEF ButtonWritesOffer, Redrawn
<1>3. CASE User
    <2>1. CASE ShowTab
        <3>1. PICK d \in Chosen(page) : page' = updatePresentationView(page, d)
            BY <2>1 DEF ShowTab
        <3>2. page'.doc = page.doc /\ (page'.shown.kind = "offer" => page'.shown.of = d)
            BY <1>0, <3>1, ViewSays
        <3>3. page.doc # None => d = page.doc
            BY DEF Chosen
        <3> QED BY <3>2, <3>3 DEF ButtonWritesOffer
    <2>2. ASSUME NEW d \in Docs, OpenReader(d) PROVE ButtonWritesOffer'
        <3>1. PICK p : p = [page EXCEPT !.doc = d]
            OBVIOUS
        <3>2. p \in Page /\ p.doc = d /\ d \in Maybe
            BY <1>0, <3>1 DEF Page, Maybe
        <3>3. page' = Drawn(p, d)
            BY <2>2, <3>1 DEF OpenReader
        <3> QED BY <3>2, <3>3, DrawnSays DEF ButtonWritesOffer
    <2>3. CASE LeaveTab
        BY <1>0, <1>1, <2>3 DEF LeaveTab, Show, Page
    <2>4. CASE GoHome
        BY <1>0, <2>4 DEF GoHome, ButtonWritesOffer, Page
    <2>5. CASE ThemeChanges
        <3>1. PICK d \in Chosen(page), enabled \in BOOLEAN :
                page' = [Drawn([page EXCEPT !.enabled = enabled], d) EXCEPT !.doc = None]
            BY <2>5 DEF ThemeChanges
        <3>2. PICK p : p = [page EXCEPT !.enabled = enabled]
            OBVIOUS
        <3>3. PICK q : q = Drawn(p, d)
            OBVIOUS
        <3>4. p \in Page /\ d \in Maybe
            BY <1>0, <3>2 DEF Page
        <3>5. q \in Page
            BY <3>3, <3>4, DrawnSays
        <3>6. page' = [q EXCEPT !.doc = None]
            BY <3>1, <3>2, <3>3
        <3> QED BY <3>5, <3>6 DEF ButtonWritesOffer, Page
    <2>6. CASE GeneratePresentation \/ presentationShare
        BY <1>0, <1>1, <2>6 DEF GeneratePresentation, presentationShare, Page
    <2>7. ASSUME NEW d \in Docs, setActiveDoc(d) PROVE ButtonWritesOffer'
        <3> DEFINE p == [page EXCEPT !.doc = d]
        <3>1. p \in Page /\ p.shown = page.shown /\ p.doc = d
            BY <1>0 DEF Page, Maybe
        <3>2. loadDocPanel(p) /\ page.shown.kind = "closed"
            BY <2>7 DEF setActiveDoc, Tab
        <3> HIDE DEF p
        <3>3. Redrawn(p, page')
            BY <1>0, <3>1, <3>2, LoadRedraws
        <3> QED BY <3>1, <3>2, <3>3 DEF Redrawn, ButtonWritesOffer
    <2> QED BY <1>3, <2>1, <2>2, <2>3, <2>4, <2>5, <2>6, <2>7 DEF User
<1>4. ASSUME NEW d \in Docs, PostAnswered(d) PROVE ButtonWritesOffer'
    <2>1. CASE PostReady(d)
        BY <1>0, <1>1, <2>1, ReadySays DEF PostReady
    <2>2. CASE PostAccepted(d) \/ PostFails(d)
        BY <1>0, <1>1, <2>2, RetrySays DEF PostAccepted, PostFails, Page
    <2> QED BY <1>4, <2>1, <2>2 DEF PostAnswered
<1>5. ASSUME NEW c \in chains, PollStep(c) \/ PollAnswered(c) \/ PollLost(c)
      PROVE  ButtonWritesOffer'
    <2>0. c.of \in Docs
        BY DEF TypeOK, Chain
    <2>1. ASSUME NEW p \in Page, p.shown = page.shown \/ p.shown.kind # "offer",
                 p.doc = page.doc, page' = [p EXCEPT !.target = None]
          PROVE  ButtonWritesOffer'
        <3>1. page'.shown = p.shown /\ page'.doc = p.doc
            BY <2>1 DEF Page
        <3> QED BY <1>1, <2>1, <3>1
    <2>2. CASE UNCHANGED page
        BY <1>1, <2>2
    <2>3. CASE page' = [Retry(page) EXCEPT !.target = None]
        BY <1>0, <2>1, <2>3, RetrySays
    <2>4. CASE page' = [OnPresentationReady(page, c.of) EXCEPT !.target = None]
        BY <1>0, <2>0, <2>1, <2>4, ReadySays
    <2> QED BY <1>5, <2>2, <2>3, <2>4 DEF PollStep, PollAnswered, PollLost, Ends
<1>6. CASE ShareAnswered
    BY <1>2, <1>6, ShareSays
<1>7. CASE Loaded
    BY <1>2, <1>7, LoadedSays
<1>8. CASE Written \/ UNCHANGED vars
    BY <1>1, <1>8 DEF Written, ServerStarts, ServerEnds, ServerRefuses, vars
<1> QED
    BY <1>3, <1>4, <1>5, <1>6, <1>7, <1>8 DEF Next, Answered

(***************************************************************************)
(* The button never has slides written of another document than the tab    *)
(* offers them of.                                                         *)
(***************************************************************************)
THEOREM OffersAreWritten == Spec => []ButtonWritesOffer
<1>1. Init => ButtonWritesOffer
    BY DEF Init, ButtonWritesOffer
<1> QED
    BY <1>1, OfferStep, TypeCorrect, PTL DEF Spec

(***************************************************************************)
(* KnownSlidesExist: the page learns of slides from the server only, and   *)
(* the server does not lose them.                                          *)
(***************************************************************************)
LEMMA KnownStep ==
    ASSUME TypeOK, KnownSlidesExist, [Next]_vars
    PROVE  KnownSlidesExist'
<1> USE PresentationsAssumption
<1>0. page \in Page /\ Chosen(page) \subseteq Maybe /\ loads \subseteq Docs
      /\ server \in [Docs -> Statuses]
    BY DEF TypeOK, Page, Chosen
<1>1. ASSUME page'.has = page.has, UNCHANGED server PROVE KnownSlidesExist'
    BY <1>1 DEF KnownSlidesExist
<1>2. ASSUME NEW d \in Docs, server[d] = "ready", UNCHANGED server,
             \A e \in Docs : e # d => page'.has[e] = page.has[e]
      PROVE  KnownSlidesExist'
    BY <1>2 DEF KnownSlidesExist
<1>3. CASE User
    <2>0. UNCHANGED server
        BY <1>3 DEF User, ShowTab, LeaveTab, GoHome, ThemeChanges, GeneratePresentation,
                    presentationShare, OpenReader, setActiveDoc, Server
    <2>1. CASE ShowTab
        BY <1>0, <1>1, <2>0, <2>1, ViewSays DEF ShowTab
    <2>2. ASSUME NEW d \in Docs, OpenReader(d) PROVE KnownSlidesExist'
        <3>1. PICK p : p = [page EXCEPT !.doc = d]
            OBVIOUS
        <3>2. p \in Page /\ p.has = page.has /\ d \in Maybe
            BY <1>0, <3>1 DEF Page, Maybe
        <3>3. page' = Drawn(p, d)
            BY <2>2, <3>1 DEF OpenReader
        <3>4. page'.has = page.has
            BY <3>2, <3>3, DrawnSays
        <3> QED BY <1>1, <2>0, <3>4
    <2>3. CASE LeaveTab \/ GoHome \/ GeneratePresentation \/ presentationShare
        BY <1>0, <1>1, <2>0, <2>3 DEF LeaveTab, Show, GoHome, GeneratePresentation,
                                      presentationShare, Page
    <2>4. CASE ThemeChanges
        <3>1. PICK d \in Chosen(page), enabled \in BOOLEAN :
                page' = [Drawn([page EXCEPT !.enabled = enabled], d) EXCEPT !.doc = None]
            BY <2>4 DEF ThemeChanges
        <3>2. PICK p : p = [page EXCEPT !.enabled = enabled]
            OBVIOUS
        <3>3. PICK q : q = Drawn(p, d)
            OBVIOUS
        <3>4. p \in Page /\ p.has = page.has /\ d \in Maybe
            BY <1>0, <3>2 DEF Page
        <3>5. q \in Page /\ q.has = page.has
            BY <3>3, <3>4, DrawnSays
        <3>6. page' = [q EXCEPT !.doc = None]
            BY <3>1, <3>2, <3>3
        <3>7. page'.has = page.has
            BY <3>5, <3>6 DEF Page
        <3> QED BY <1>1, <2>0, <3>7
    <2>5. ASSUME NEW d \in Docs, setActiveDoc(d) PROVE KnownSlidesExist'
        <3> DEFINE p == [page EXCEPT !.doc = d]
        <3>1. p \in Page /\ p.has = page.has
            BY <1>0 DEF Page, Maybe
        <3>2. loadDocPanel(p)
            BY <2>5 DEF setActiveDoc
        <3> HIDE DEF p
        <3>3. Redrawn(p, page')
            BY <1>0, <3>1, <3>2, LoadRedraws
        <3> QED BY <1>1, <2>0, <3>1, <3>3 DEF Redrawn
    <2> QED BY <1>3, <2>1, <2>2, <2>3, <2>4, <2>5 DEF User
<1>4. ASSUME NEW d \in Docs, PostAnswered(d) PROVE KnownSlidesExist'
    <2>0. UNCHANGED server
        BY <1>4 DEF PostAnswered
    <2>1. CASE PostReady(d)
        BY <1>0, <1>2, <2>0, <2>1, ReadySays DEF PostReady
    <2>2. CASE PostAccepted(d) \/ PostFails(d)
        BY <1>0, <1>1, <2>0, <2>2, RetrySays DEF PostAccepted, PostFails, Page
    <2> QED BY <1>4, <2>1, <2>2 DEF PostAnswered
<1>5. ASSUME NEW c \in chains, PollStep(c) \/ PollAnswered(c) \/ PollLost(c)
      PROVE  KnownSlidesExist'
    <2>0. c.of \in Docs /\ UNCHANGED server
        BY <1>5 DEF TypeOK, Chain, PollStep, PollAnswered, PollLost, Server
    <2>1. CASE UNCHANGED page
        BY <1>1, <2>0, <2>1
    <2>2. CASE page' = [Retry(page) EXCEPT !.target = None]
        <3>1. page'.has = page.has
            BY <1>0, <2>2, RetrySays DEF Page
        <3> QED BY <1>1, <2>0, <3>1
    <2>3. CASE /\ server[c.of] = "ready"
               /\ page' = [OnPresentationReady(page, c.of) EXCEPT !.target = None]
        <3>1. PICK q : q = OnPresentationReady(page, c.of)
            OBVIOUS
        <3>2. q \in Page /\ \A e \in Docs : e # c.of => q.has[e] = page.has[e]
            BY <1>0, <2>0, <3>1, ReadySays
        <3>3. page'.has = q.has
            BY <2>3, <3>1, <3>2 DEF Page
        <3> QED BY <1>2, <2>0, <2>3, <3>2, <3>3
    <2> QED BY <1>5, <2>1, <2>2, <2>3 DEF PollStep, PollAnswered, PollLost, Ends
<1>6. CASE ShareAnswered
    <2>1. page'.has = page.has
        BY <1>6, ShareSays DEF Redrawn
    <2> QED BY <1>1, <1>6, <2>1 DEF ShareAnswered, Server
<1>7. CASE Loaded
    BY <1>7, LoadedSays DEF Redrawn, KnownSlidesExist
<1>8. CASE Written
    <2>1. UNCHANGED page /\ \A d \in Docs : server[d] = "ready" => server'[d] = "ready"
        BY <1>0, <1>8 DEF Written, ServerStarts, ServerEnds, ServerRefuses
    <2> QED BY <2>1 DEF KnownSlidesExist
<1>9. CASE UNCHANGED vars
    BY <1>1, <1>9 DEF vars
<1> QED
    BY <1>3, <1>4, <1>5, <1>6, <1>7, <1>8, <1>9 DEF Next, Answered

(***************************************************************************)
(* The page never takes slides for written that the server does not have.  *)
(***************************************************************************)
THEOREM SlidesExist == Spec => []KnownSlidesExist
<1>1. Init => KnownSlidesExist
    BY DEF Init, KnownSlidesExist
<1> QED
    BY <1>1, KnownStep, TypeCorrect, PTL DEF Spec
================================================================================
