---------------------------- MODULE DeskPanelsProofs ----------------------------
(***************************************************************************)
(* The proofs about the console's ingest desk and its management panels.   *)
(*                                                                         *)
(* The desk, for every number of jobs and of requests under way: the       *)
(* polling never stops, the running flag lives as long as the stream, and  *)
(* the graph is never left blank.                                          *)
(*                                                                         *)
(* The panels, for every number of themes, tokens and calls: their types,  *)
(* that a panel at rest shows what the server has, and that a save changes *)
(* no more than was edited in its form.  All of it rests on versions: the  *)
(* page has what the server had at the write it last heard of; if the      *)
(* server wrote since, an answer that tells of it, or a question that      *)
(* will, is under way - unless one was lost.                               *)
(***************************************************************************)
EXTENDS IngestDesk, ManagePanels, FiniteSetTheorems, TLAPS

-----------------------------------------------------------------------------
(* The ingest desk                                                         *)

(***************************************************************************)
(* The functions on the graph's state keep its type, and none but the      *)
(* suspension suspends.                                                    *)
(***************************************************************************)
LEMMA LoadTyped ==
    ASSUME NEW g \in Graph, NEW k \in Load
    PROVE  AddLoad(g, k) \in Graph /\ AddLoad(g, k).suspended = g.suspended
BY DEF AddLoad, Graph

LEMMA GraphTyped ==
    ASSUME NEW g \in Graph
    PROVE  /\ initGraph(g) \in Graph /\ initGraph(g).suspended = g.suspended
           /\ refreshGraph(g) \in Graph /\ refreshGraph(g).suspended = g.suspended
           /\ suspendGraphForIngest(g) \in Graph
<1>1. "init" \in Load /\ "refresh" \in Load
    BY DEF Load
<1>2. suspendGraphForIngest(g) \in Graph
    BY DEF suspendGraphForIngest, Graph
<1> QED
    BY <1>1, <1>2, LoadTyped DEF initGraph, refreshGraph

LEMMA ResumeTyped ==
    ASSUME NEW g \in Graph
    PROVE  resumeGraphAfterIngest(g) \in Graph /\ ~resumeGraphAfterIngest(g).suspended
<1> DEFINE back == [g EXCEPT !.suspended = FALSE]
<1>1. back \in Graph /\ ~back.suspended
    BY DEF Graph
<1> HIDE DEF back
<1>2. resumeGraphAfterIngest(g) \in {back, initGraph(back), refreshGraph(back)} \/
        (~g.suspended /\ resumeGraphAfterIngest(g) = g)
    BY DEF resumeGraphAfterIngest, back
<1> QED
    BY <1>1, <1>2, GraphTyped

LEMMA PollTyped ==
    ASSUME NEW p \in Poll
    PROVE  /\ startFastIngestPolling(p) \in Poll /\ startFastIngestPolling(p).timer
           /\ stopFastIngestPolling(p) \in Poll /\ stopFastIngestPolling(p).timer
           /\ scheduleNextPoll(p) \in Poll /\ scheduleNextPoll(p).timer
           /\ [p EXCEPT !.timer = FALSE] \in Poll
           /\ [stopFastIngestPolling(p) EXCEPT !.known = TRUE] \in Poll
           /\ [stopFastIngestPolling(p) EXCEPT !.known = TRUE].timer
           /\ [scheduleNextPoll(p) EXCEPT !.known = TRUE] \in Poll
           /\ [scheduleNextPoll(p) EXCEPT !.known = TRUE].timer
BY DEF startFastIngestPolling, stopFastIngestPolling, scheduleNextPoll, Poll

(***************************************************************************)
(* The invariant.                                                          *)
(***************************************************************************)
IInv == TypeOK /\ PollingSurvives /\ StreamAccounted /\ BlankOnlyWhileRegenerating

(***************************************************************************)
(* A request that is made is one, and a request of its kind.               *)
(***************************************************************************)
LEMMA RequestTyped ==
    ASSUME NEW k \in {"poll", "boot", "home"}
    PROVE  /\ [kind |-> k, answered |-> FALSE, jobs |-> {}] \in Request
           /\ [kind |-> k, answered |-> FALSE, jobs |-> {}].kind = k
<1>1. {} \in SUBSET Jobs
    OBVIOUS
<1>2. FALSE \in BOOLEAN
    OBVIOUS
<1> QED
    BY <1>1, <1>2 DEF Request

LEMMA AddReqTyped ==
    ASSUME NEW k \in {"poll", "boot", "home"}, reqs \in SUBSET Request
    PROVE  /\ AddReq(k) \in SUBSET Request /\ reqs \subseteq AddReq(k)
           /\ \E r \in AddReq(k) : r.kind = k
<1> DEFINE new == [kind |-> k, answered |-> FALSE, jobs |-> {}]
<1>1. new \in Request /\ new.kind = k
    BY RequestTyped
<1>2. AddReq(k) = reqs \cup {new}
    BY DEF AddReq
<1> HIDE DEF new
<1> QED
    BY <1>1, <1>2

LEMMA InitInv == Init => IInv
<1> SUFFICES ASSUME Init PROVE IInv
    OBVIOUS
<1>1. graph \in Graph /\ ~graph.suspended
    <2>1. {} \in SUBSET Load
        OBVIOUS
    <2> QED
        BY <2>1 DEF Init, Graph
<1>2. poll \in Poll /\ poll.timer
    BY DEF Init, Poll
<1>3. reqs \in SUBSET Request
    <2> DEFINE boot == [kind |-> "boot", answered |-> FALSE, jobs |-> {}]
    <2>1. boot \in Request
        BY RequestTyped
    <2>2. reqs = {boot}
        BY DEF Init
    <2> HIDE DEF boot
    <2> QED
        BY <2>1, <2>2
<1>4. jobs \subseteq Jobs /\ scope \in {"owner", "expired"} /\ center \in Views
      /\ running = FALSE /\ spin \in BOOLEAN /\ stream = NoStream
    BY DEF Init, Views
<1> QED
    BY <1>1, <1>2, <1>3, <1>4 DEF IInv, TypeOK, PollingSurvives, StreamAccounted,
        BlankOnlyWhileRegenerating

(***************************************************************************)
(* The server's steps touch neither the page nor which requests are under  *)
(* way.                                                                    *)
(***************************************************************************)
LEMMA ServerInv == ASSUME IInv, ServerStep PROVE IInv'
<1> USE DeskAssumption
<1>1. ASSUME NEW j \in Jobs, OtherJobStarts(j) PROVE IInv'
    BY <1>1 DEF OtherJobStarts, IInv, TypeOK, PollingSurvives, Polls, StreamAccounted,
                BlankOnlyWhileRegenerating
<1>2. ASSUME NEW j \in Jobs, JobEnds(j) PROVE IInv'
    <2>1. stream' \in Stream \cup {NoStream} /\ (stream' # NoStream <=> stream # NoStream)
          /\ (stream # NoStream => stream'.kind = stream.kind)
        BY <1>2 DEF JobEnds, IInv, TypeOK, Stream, NoStream, Kinds
    <2> QED
        BY <1>2, <2>1 DEF JobEnds, IInv, TypeOK, PollingSurvives, Polls, StreamAccounted,
                          BlankOnlyWhileRegenerating
<1>3. ASSUME NEW r \in reqs, StatsAnswered(r) PROVE IInv'
    <2> DEFINE a == [r EXCEPT !.answered = TRUE, !.jobs = jobs]
    <2>1. a \in Request /\ a.kind = r.kind
        BY DEF IInv, TypeOK, Request
    <2> HIDE DEF a
    <2>2. reqs' = (reqs \ {r}) \cup {a}
        BY <1>3 DEF StatsAnswered, a
    <2>3. Polls # {} => Polls' # {}
        BY <2>1, <2>2 DEF Polls
    <2> QED
        BY <1>3, <2>1, <2>2, <2>3 DEF StatsAnswered, IInv, TypeOK, PollingSurvives,
                                      StreamAccounted, BlankOnlyWhileRegenerating
<1>4. CASE OwnJobStarts
    <2>1. stream' \in Stream /\ stream' # NoStream /\ stream'.kind = stream.kind /\ jobs' \subseteq Jobs
        BY <1>4 DEF OwnJobStarts, IInv, TypeOK, Stream, NoStream, Kinds
    <2> QED
        BY <1>4, <2>1 DEF OwnJobStarts, IInv, TypeOK, PollingSurvives, Polls, StreamAccounted,
                          BlankOnlyWhileRegenerating
<1> QED
    BY <1>1, <1>2, <1>3, <1>4 DEF ServerStep

(***************************************************************************)
(* A stream begins where none is, and every end of one takes the running   *)
(* flag with it; a regeneration that ends gives the graph back.            *)
(***************************************************************************)
LEMMA StreamInv == ASSUME IInv, StreamStep PROVE IInv'
<1> USE DeskAssumption
<1>0. graph \in Graph /\ stream \in Stream \cup {NoStream} /\ center \in Views /\ spin \in BOOLEAN
    BY DEF IInv, TypeOK
<1>1. ASSUME NEW kind \in Kinds, Run(kind) PROVE IInv'
    <2>1. stream' \in Stream /\ stream' # NoStream /\ stream'.kind = kind
        BY <1>1 DEF Run, Stream, NoStream
    <2>2. graph' \in Graph
        BY <1>0, <1>1, GraphTyped DEF Run
    <2>3. center' \in Views /\ spin' \in BOOLEAN /\ (center' = "graph" => kind = "regen")
        BY <1>0, <1>1 DEF Run, initIngestMatrixView, Views
    <2> QED
        BY <1>1, <2>1, <2>2, <2>3 DEF Run, IInv, TypeOK, PollingSurvives, Polls, StreamAccounted,
                                      BlankOnlyWhileRegenerating
\* What all ends of a stream have in common.
<1>2. ASSUME StopRunning, graph' \in Graph, spin' \in BOOLEAN, scope' \in {"owner", "expired"},
             stream.kind = "regen" => ~graph'.suspended,
             graph'.suspended => graph.suspended
      PROVE  IInv'
    BY <1>2 DEF StopRunning, IInv, TypeOK, PollingSurvives, Polls, StreamAccounted,
                BlankOnlyWhileRegenerating
<1>3. resumeGraphAfterIngest(graph) \in Graph /\ ~resumeGraphAfterIngest(graph).suspended
    BY <1>0, ResumeTyped
<1>4. CASE StreamRefused \/ StreamRejected \/ StreamBreaks
    BY <1>0, <1>2, <1>3, <1>4 DEF StreamRefused, StreamRejected, StreamBreaks, IInv, TypeOK
<1>5. ASSUME NEW result \in Results, IngestEnds(result) PROVE IInv'
    <2>1. graph' \in Graph /\ graph'.suspended = graph.suspended
        BY <1>0, <1>5, GraphTyped DEF IngestEnds
    <2> QED
        BY <1>0, <1>2, <1>5, <2>1 DEF IngestEnds, completeIngestMatrixView, IInv, TypeOK
<1>6. ASSUME NEW result \in Results, ReingestEnds(result) PROVE IInv'
    <2>1. graph' \in Graph /\ ~graph'.suspended
        BY <1>3, <1>6, GraphTyped DEF ReingestEnds
    <2> QED BY <1>0, <1>2, <1>6, <2>1 DEF ReingestEnds, IInv, TypeOK
<1>7. ASSUME NEW result \in Results, RegenEnds(result) PROVE IInv'
    <2>1. "reload" \in Load
        BY DEF Load
    <2>2. graph' \in Graph /\ ~graph'.suspended
        BY <1>3, <1>7, <2>1, LoadTyped DEF RegenEnds
    <2> QED BY <1>0, <1>2, <1>7, <2>2 DEF RegenEnds, IInv, TypeOK
<1> QED
    BY <1>1, <1>4, <1>5, <1>6, <1>7 DEF StreamStep, StreamEnds

(***************************************************************************)
(* A poll under way that ends leaves a timer behind.                       *)
(***************************************************************************)
LEMMA PollInv == ASSUME IInv, PollStep PROVE IInv'
<1> USE DeskAssumption
<1>0. /\ graph \in Graph /\ poll \in Poll /\ reqs \subseteq Request /\ center \in Views
      /\ spin \in BOOLEAN
    BY DEF IInv, TypeOK
<1>1. AddReq("poll") \in SUBSET Request
    BY <1>0, AddReqTyped
<1>2. \E r \in AddReq("poll") : r.kind = "poll"
    BY <1>0, AddReqTyped
<1>3. CASE PollTimerFires
    BY <1>0, <1>1, <1>2, <1>3, PollTyped DEF PollTimerFires, IInv, TypeOK, PollingSurvives, Polls,
        StreamAccounted, BlankOnlyWhileRegenerating
<1>4. CASE VisibilityChange
    BY <1>0, <1>1, <1>2, <1>4 DEF VisibilityChange, IInv, TypeOK, PollingSurvives, Polls,
        StreamAccounted, BlankOnlyWhileRegenerating
<1>5. ASSUME NEW r \in reqs, PollFails(r) PROVE IInv'
    BY <1>0, <1>5, PollTyped DEF PollFails, IInv, TypeOK, PollingSurvives, StreamAccounted,
        BlankOnlyWhileRegenerating
<1>6. ASSUME NEW r \in reqs, PollFindsJobs(r) PROVE IInv'
    <2>1. graph' \in Graph /\ center' \in Views
          /\ (center' = "graph" => center = "graph" /\ graph' = graph)
        BY <1>0, <1>6, GraphTyped DEF PollFindsJobs, Views
    <2>2. poll' \in Poll /\ poll'.timer
        BY <1>0, <1>6, PollTyped DEF PollFindsJobs
    <2>3. spin' \in BOOLEAN
        BY <1>0, <1>6 DEF PollFindsJobs, renderMultiSlotUI
    <2> QED
        BY <1>0, <1>6, <2>1, <2>2, <2>3 DEF PollFindsJobs, IInv, TypeOK, PollingSurvives,
            StreamAccounted, BlankOnlyWhileRegenerating
<1>7. ASSUME NEW r \in reqs, PollFindsEnd(r) PROVE IInv'
    <2>1. poll' \in Poll /\ poll'.timer
        BY <1>0, <1>7, PollTyped DEF PollFindsEnd
    <2>2. spin' \in BOOLEAN
        BY <1>0, <1>7 DEF PollFindsEnd, renderMultiSlotUI
    <2> QED
        BY <1>0, <1>7, <2>1, <2>2 DEF PollFindsEnd, IInv, TypeOK, PollingSurvives,
            StreamAccounted, BlankOnlyWhileRegenerating
<1>8. ASSUME NEW r \in reqs, PollFindsIdle(r) PROVE IInv'
    <2>1. graph' \in Graph /\ graph'.suspended = graph.suspended
        BY <1>0, <1>8, GraphTyped DEF PollFindsIdle
    <2>2. poll' \in Poll /\ poll'.timer
        BY <1>0, <1>8, PollTyped DEF PollFindsIdle
    <2> QED
        BY <1>0, <1>8, <2>1, <2>2 DEF PollFindsIdle, SettleCockpit, IInv, TypeOK, PollingSurvives,
            StreamAccounted, BlankOnlyWhileRegenerating
<1> QED
    BY <1>3, <1>4, <1>5, <1>6, <1>7, <1>8 DEF PollStep, PollSucceeds

(***************************************************************************)
(* Going to the graph gives it back, following a job leaves it.            *)
(***************************************************************************)
LEMMA ViewInv == ASSUME IInv, ViewStep PROVE IInv'
<1> USE DeskAssumption
<1>0. /\ graph \in Graph /\ poll \in Poll /\ reqs \subseteq Request /\ center \in Views
      /\ spin \in BOOLEAN
    BY DEF IInv, TypeOK
<1>1. CASE EnterHome
    <2>1. reqs' \in SUBSET Request /\ reqs \subseteq reqs'
        BY <1>0, <1>1, AddReqTyped DEF EnterHome
    <2> QED
        BY <1>1, <2>1 DEF EnterHome, IInv, TypeOK, PollingSurvives, Polls, StreamAccounted,
            BlankOnlyWhileRegenerating
<1>2. ASSUME NEW r \in reqs, FollowJobs(r)
      PROVE  /\ graph' \in Graph /\ center' = "matrix" /\ spin' \in BOOLEAN
             /\ poll' \in Poll /\ poll'.timer
    BY <1>0, <1>2, GraphTyped, PollTyped DEF FollowJobs, renderMultiSlotUI
<1>3. ASSUME NEW r \in reqs, r.kind # "poll", reqs' = reqs \ {r},
             UNCHANGED <<jobs, scope, stream, running>>,
             graph' \in Graph, center' \in Views, spin' \in BOOLEAN, poll' \in Poll,
             poll.timer => poll'.timer,
             center' = "graph" => ~graph'.suspended \/ (center = "graph" /\ graph.suspended)
      PROVE  IInv'
    BY <1>3 DEF IInv, TypeOK, PollingSurvives, Polls, StreamAccounted, BlankOnlyWhileRegenerating
<1>4. ASSUME NEW r \in reqs, BootAnswered(r) PROVE IInv'
    <2>1. CASE FollowJobs(r)
        BY <1>2, <1>3, <1>4, <2>1 DEF BootAnswered, Views
    <2>2. CASE graph' = initGraph(graph) /\ UNCHANGED <<center, poll, spin>>
        BY <1>0, <1>3, <1>4, <2>2, GraphTyped DEF BootAnswered
    <2> QED BY <1>4, <2>1, <2>2 DEF BootAnswered
<1>5. ASSUME NEW r \in reqs, HomeAnswered(r) PROVE IInv'
    <2>1. CASE FollowJobs(r)
        BY <1>2, <1>3, <1>5, <2>1 DEF HomeAnswered, Views
    <2>2. CASE center' = "graph" /\ graph' = initGraph(resumeGraphAfterIngest(graph))
               /\ UNCHANGED <<poll, spin>>
        BY <1>0, <1>3, <1>5, <2>2, GraphTyped, ResumeTyped DEF HomeAnswered, Views
    <2> QED BY <1>5, <2>1, <2>2 DEF HomeAnswered
<1>6. ASSUME NEW v \in Views, SetCenter(v) \/ CloseMatrix(v) PROVE IInv'
    <2>1. /\ graph' \in Graph /\ center' \in Views
          /\ center' = "graph" => ~graph'.suspended
        BY <1>0, <1>6, ResumeTyped DEF SetCenter, setCenterView, CloseMatrix
    <2> QED
        BY <1>6, <2>1 DEF SetCenter, CloseMatrix, IInv, TypeOK, PollingSurvives, Polls,
            StreamAccounted, BlankOnlyWhileRegenerating
<1>7. ASSUME NEW l \in graph.loads, LoadFails(l) \/ LoadAnswered(l) PROVE IInv'
    <2>1. graph' \in Graph /\ graph'.suspended = graph.suspended
        BY <1>0, <1>7 DEF LoadFails, LoadAnswered, Graph
    <2> QED
        BY <1>7, <2>1 DEF LoadFails, LoadAnswered, IInv, TypeOK, PollingSurvives, Polls,
            StreamAccounted, BlankOnlyWhileRegenerating
<1> QED
    BY <1>1, <1>4, <1>5, <1>6, <1>7 DEF ViewStep

LEMMA StepInv == IInv /\ [Next]_vars => IInv'
<1> SUFFICES ASSUME IInv, [Next]_vars PROVE IInv'
    OBVIOUS
<1>1. CASE UNCHANGED vars
    BY <1>1 DEF vars, IInv, TypeOK, PollingSurvives, Polls, StreamAccounted,
        BlankOnlyWhileRegenerating
<1> QED
    BY <1>1, ServerInv, StreamInv, PollInv, ViewInv DEF Next

LEMMA Invariant == Spec => []IInv
BY InitInv, StepInv, PTL DEF Spec

(***************************************************************************)
(* The types.                                                              *)
(***************************************************************************)
THEOREM TypeCorrect == Spec => []TypeOK
BY Invariant, PTL DEF IInv

(***************************************************************************)
(* The page never stops asking for /stats (PollingSurvives).               *)
(***************************************************************************)
THEOREM PollingNeverStops == Spec => []PollingSurvives
BY Invariant, PTL DEF IInv

(***************************************************************************)
(* However a stream ends, the page is ready for the next one               *)
(* (StreamAccounted).                                                      *)
(***************************************************************************)
THEOREM StreamsAccounted == Spec => []StreamAccounted
BY Invariant, PTL DEF IInv

(***************************************************************************)
(* The graph is blank only while documents are regenerated                 *)
(* (BlankOnlyWhileRegenerating).                                           *)
(***************************************************************************)
THEOREM GraphNeverLeftBlank == Spec => []BlankOnlyWhileRegenerating
BY Invariant, PTL DEF IInv

-----------------------------------------------------------------------------
(* The management panels                                                   *)

(***************************************************************************)
(* The invariant.                                                          *)
(***************************************************************************)
\* What the server has of a section, has answered, or the page was drawn from.
IsStore(s, f) ==
    /\ DOMAIN f \subseteq Items(s) /\ f \in [DOMAIN f -> Settings(s)]
    /\ s \in {"providers", "limits"} => DOMAIN f = Items(s)

\* A save that finds the settings d changes what was edited in its form, and
\* nothing else, but for what is drawn as the default.
OnlyEdits(s, d, c) ==
    \A x \in DOMAIN d : \/ Stored(s, d, c.set)[x] = d[x]
                        \/ x \in c.edits
                        \/ DrawnAsDefault(x, d)

Ops == {"get", "test", "save", "create", "delete", "mint", "revoke"}

CallTyped(s, c) ==
    /\ DOMAIN c = DOMAIN NoCall
    /\ c.n \in Nat /\ c.op \in Ops /\ c.stage \in {"sent", "done"}
    /\ c.version \in Nat /\ c.base \in Nat
    /\ c.op = "save" => /\ s # "tokens" /\ c.item \in Items(s)
                        /\ c.stage = "sent" => \A d \in Settings(s) : Stored(s, d, c.set) \in Settings(s)
    /\ c.op \in {"create", "delete"} => s = "themes"
    /\ c.op = "create" /\ c.stage = "sent" => c.set = NewTheme
    /\ c.op \in {"mint", "revoke"} => s = "tokens"
    /\ c.op = "mint" /\ c.stage = "done" => c.item \in Tokens
    /\ c.stage = "done" => IsStore(s, c.got)

\* An answer holds what the server had; a save is sent from a form that was
\* drawn from what the server has, unless it has written since.
CallTrue(c) ==
    /\ c.n <= made /\ c.version <= version /\ c.base <= version
    /\ c.stage = "done" /\ c.version = version => c.got = server
    /\ c.op = "save" /\ c.stage = "sent" /\ c.base = version =>
            c.item \in DOMAIN server /\ OnlyEdits(section, server[c.item], c)

CallsInv ==
    /\ \A c \in calls : CallTyped(section, c) /\ CallTrue(c)
    /\ \A c, e \in calls : c.n = e.n => c = e

PageTyped(s, p) ==
    /\ DOMAIN p = DOMAIN NewPage
    /\ p.shown \in {"loading", "panel", "error"} /\ p.test \in {"none", "running", "answered"}
    /\ DOMAIN p.has \subseteq Items(s) /\ p.has \in [DOMAIN p.has -> Settings(s)]
    /\ DOMAIN p.form = DOMAIN p.has /\ p.form \in [DOMAIN p.form -> Form(s)]
    /\ p.open \subseteq DOMAIN p.form /\ {e[1] : e \in p.edited} \subseteq DOMAIN p.form
    /\ p.fresh \in Tokens \cup {None} /\ p.seen \in Nat

\* What was not edited is what was drawn; the delete button of a key edits it.
FormTrue(s, p) ==
    \A i \in DOMAIN p.form :
        /\ \A x \in DOMAIN p.form[i] \ {"cleared"} :
                <<i, x>> \in p.edited \/ p.form[i][x] = Drawn(s, p.has[i])[x]
        /\ s = "providers" /\ p.form[i].cleared => <<i, "key">> \in p.edited

\* Before the first answer, and if that was an error.
Unloaded ==
    /\ page \in {NewPage, [NewPage EXCEPT !.shown = "error"]}
    /\ \A c \in calls : c.op = "get" /\ c.item = None

\* Later, the page has what the server had when the page last heard of it.
Loaded == IsStore(section, page.has) /\ (page.seen = version => page.has = server)

PageInv ==
    PageTyped(section, page) /\ FormTrue(section, page) /\ page.seen <= version /\ (Unloaded \/ Loaded)

\* An answer of now is under way, or a question that will have one.
Brings(c) == \/ c.op = "get" /\ c.stage = "sent"
             \/ c.op # "test" /\ c.stage = "done" /\ c.version = version

Current == (page.seen = version /\ page.has = server) \/ \E c \in calls : Brings(c)

StateTyped ==
    /\ section \in Sections /\ IsStore(section, server) /\ version \in Nat
    /\ made \in 0..MaxCalls /\ missed \in BOOLEAN

PanelsInv == StateTyped /\ CallsInv /\ PageInv /\ (missed \/ Current)

(***************************************************************************)
(* The four sections, one at a time.                                       *)
(***************************************************************************)
ProviderSettings == [interval: {"zero", "default", "own"}, model: {"", "default", "own"}, key: {"none", "old", "new"}]
ProviderForm == [interval: {"", "default", "own"}, model: {"", "default", "own"}, key: {"", "new"}, cleared: BOOLEAN]
LimitSettings == [budget: {"default", "own"}]
LimitForm == [budget: {"", "default", "own"}]
ThemeSettings == [ga: {"", "own"}, is_public: BOOLEAN, collaborator: BOOLEAN, presentation: BOOLEAN]
TokenSettings == [revoked: BOOLEAN]
TokenForm == [revoke: BOOLEAN]

LEMMA ProviderSection ==
    /\ Items("providers") = {"config"}
    /\ Settings("providers") = ProviderSettings /\ Form("providers") = ProviderForm
    /\ \A d : Drawn("providers", d) = renderProviderManagerDOM(d)
    /\ \A d, set : Stored("providers", d, set) = update_config(d, set)
BY DEF Items, Settings, Form, Drawn, Stored, ProviderSettings, ProviderForm

LEMMA LimitSection ==
    /\ Items("limits") = {"config"}
    /\ Settings("limits") = LimitSettings /\ Form("limits") = LimitForm
    /\ \A d : Drawn("limits", d) = d
    /\ \A d, set : Stored("limits", d, set) = set
    /\ \A i, f : Sent("limits", i, f) = [budget |-> OrDefault(f.budget)]
BY DEF Items, Settings, Form, Drawn, Stored, Sent, renderLimitManagerDOM, LimitSettings, LimitForm

LEMMA ThemeSection ==
    /\ Items("themes") = Themes \cup {Default}
    /\ Settings("themes") = ThemeSettings /\ Form("themes") = ThemeSettings
    /\ \A d : Drawn("themes", d) = d
    /\ \A d, set : Stored("themes", d, set) = update_theme(d, set)
    /\ \A i, f : Sent("themes", i, f) = SentTheme(i, f)
BY DEF Items, Settings, Form, Drawn, Stored, Sent, renderThemeManagerDOM, ThemeSettings

LEMMA TokenSection ==
    /\ Items("tokens") = Tokens
    /\ Settings("tokens") = TokenSettings /\ Form("tokens") = TokenForm
    /\ \A d : Drawn("tokens", d) = [revoke |-> ~d.revoked]
BY DEF Items, Settings, Form, Drawn, renderTokenManagerDOM, TokenSettings, TokenForm

LEMMA FourSections ==
    ASSUME NEW s \in Sections PROVE s \in {"providers", "limits", "themes", "tokens"}
BY ManagePanelsAssumption

(***************************************************************************)
(* A drawing of settings is a form.                                        *)
(***************************************************************************)
LEMMA DrawnTyped ==
    ASSUME NEW s \in Sections, NEW d \in Settings(s)
    PROVE  /\ Drawn(s, d) \in Form(s)
           /\ s = "providers" => ~Drawn(s, d).cleared
<1>1. CASE s = "providers"
    <2>1. d \in ProviderSettings
        BY <1>1, ProviderSection
    <2>2. renderProviderManagerDOM(d) \in ProviderForm /\ ~renderProviderManagerDOM(d).cleared
        BY <2>1 DEF renderProviderManagerDOM, OrDefault, ProviderSettings, ProviderForm
    <2> QED BY <1>1, <2>2, ProviderSection
<1>2. CASE s = "limits"
    BY <1>2, LimitSection DEF LimitSettings, LimitForm
<1>3. CASE s = "themes"
    BY <1>3, ThemeSection
<1>4. CASE s = "tokens"
    BY <1>4, TokenSection DEF TokenForm
<1> QED BY <1>1, <1>2, <1>3, <1>4, FourSections

(***************************************************************************)
(* What a form sends, and a toggle, leaves settings settings.              *)
(***************************************************************************)
LEMMA ProviderSent ==
    ASSUME NEW i, NEW f
    PROVE  Sent("providers", i, f) =
            IF f.key # "" THEN [interval |-> OrDefault(f.interval), model |-> f.model, api_key |-> f.key]
            ELSE IF f.cleared THEN [interval |-> OrDefault(f.interval), model |-> f.model, clear_api_key |-> TRUE]
            ELSE [interval |-> OrDefault(f.interval), model |-> f.model]
BY DEF Sent

\* A key that is stored is a new one; without one the settings keep theirs.
LEMMA ProviderStored ==
    ASSUME NEW i, NEW f \in Form("providers"), NEW d \in Settings("providers")
    PROVE  /\ Stored("providers", d, Sent("providers", i, f)).interval = OrDefault(f.interval)
           /\ Stored("providers", d, Sent("providers", i, f)).model = f.model
           /\ f.key = "" => Stored("providers", d, Sent("providers", i, f)).key = d.key
           /\ Stored("providers", d, Sent("providers", i, f)) \in Settings("providers")
<1>1. f \in ProviderForm /\ d \in ProviderSettings
    BY ProviderSection
<1> DEFINE s == Sent("providers", i, f)
           e == update_config(d, s)
<1> HIDE DEF s
<1>2. /\ DOMAIN e = {"interval", "model", "key"} /\ e.interval = s.interval /\ e.model = s.model
      /\ e.key = IF "api_key" \notin DOMAIN s THEN d.key
                 ELSE IF s.api_key # "" THEN s.api_key
                 ELSE IF "clear_api_key" \in DOMAIN s THEN "none" ELSE d.key
      /\ e = [interval |-> e.interval, model |-> e.model, key |-> e.key]
    <2> DEFINE k == IF "api_key" \notin DOMAIN s THEN d.key
                    ELSE IF s.api_key # "" THEN s.api_key
                    ELSE IF "clear_api_key" \in DOMAIN s THEN "none" ELSE d.key
    <2>1. e = [interval |-> s.interval, model |-> s.model, key |-> k]
        BY DEF update_config
    <2> HIDE DEF k, e
    <2>2. /\ DOMAIN e = {"interval", "model", "key"} /\ e.interval = s.interval /\ e.model = s.model /\ e.key = k
          /\ e = [interval |-> e.interval, model |-> e.model, key |-> e.key]
        BY <2>1
    <2> QED BY <2>2 DEF k
<1>3. Stored("providers", d, s) = e
    BY ProviderSection
<1>4. /\ s.interval = OrDefault(f.interval) /\ s.model = f.model
      /\ IF f.key # "" THEN "api_key" \in DOMAIN s /\ s.api_key = f.key
         ELSE "api_key" \notin DOMAIN s
    <2> DEFINE v == OrDefault(f.interval)
    <2>1. s = IF f.key # "" THEN [interval |-> v, model |-> f.model, api_key |-> f.key]
              ELSE IF f.cleared THEN [interval |-> v, model |-> f.model, clear_api_key |-> TRUE]
              ELSE [interval |-> v, model |-> f.model]
        BY ProviderSent DEF s
    <2> HIDE DEF v
    <2>2. CASE f.key # ""
        BY <2>1, <2>2 DEF v
    <2>3. CASE f.key = "" /\ f.cleared
        BY <2>1, <2>3 DEF v
    <2>4. CASE f.key = "" /\ ~f.cleared
        BY <2>1, <2>4 DEF v
    <2> QED BY <2>2, <2>3, <2>4
<1> HIDE DEF e
<1>5. e.interval = OrDefault(f.interval) /\ e.model = f.model /\ e.key = IF f.key # "" THEN f.key ELSE d.key
    BY <1>2, <1>4
<1>6. e.interval \in {"default", "own"} /\ e.model \in {"", "default", "own"} /\ e.key \in {"none", "old", "new"}
    BY <1>1, <1>5 DEF OrDefault, ProviderForm, ProviderSettings
<1>7. e \in ProviderSettings
    BY <1>2, <1>6 DEF ProviderSettings
<1> QED BY <1>2, <1>3, <1>5, <1>7, ProviderSection DEF s

LEMMA LimitStored ==
    ASSUME NEW i, NEW f \in Form("limits"), NEW d
    PROVE  /\ DOMAIN Stored("limits", d, Sent("limits", i, f)) = {"budget"}
           /\ Stored("limits", d, Sent("limits", i, f)).budget = OrDefault(f.budget)
           /\ Stored("limits", d, Sent("limits", i, f)) \in Settings("limits")
<1> DEFINE v == OrDefault(f.budget)
<1>1. f \in LimitForm
    BY LimitSection
<1>2. v \in {"default", "own"}
    BY <1>1 DEF LimitForm, OrDefault
<1>3. Stored("limits", d, Sent("limits", i, f)) = [budget |-> v]
    BY LimitSection
<1> HIDE DEF v
<1>4. DOMAIN [budget |-> v] = {"budget"} /\ [budget |-> v].budget = v /\ [budget |-> v] \in LimitSettings
    BY <1>2 DEF LimitSettings
<1> QED BY <1>3, <1>4, LimitSection DEF v

LEMMA ThemeStored ==
    ASSUME NEW d \in Settings("themes"), NEW set, NEW f \in Settings("themes"),
           \A x \in DOMAIN set :
                x \in DOMAIN f /\ (set[x] = f[x] \/ (x = "ga" /\ set[x] = "null"))
    PROVE  /\ Stored("themes", d, set) \in Settings("themes") /\ DOMAIN Stored("themes", d, set) = DOMAIN d
           /\ \A x \in DOMAIN d : Stored("themes", d, set)[x] = d[x] \/ (x \in DOMAIN set /\ Stored("themes", d, set)[x] = f[x])
<1>1. d \in ThemeSettings /\ f \in ThemeSettings
    BY ThemeSection
<1> DEFINE e == update_theme(d, set)
<1>2. e = [x \in DOMAIN d |-> e[x]]
    BY DEF update_theme
<1>3. \A x \in DOMAIN d : e[x] = d[x] \/ (x \in DOMAIN set /\ e[x] = f[x])
    BY DEF update_theme
<1> HIDE DEF e
<1>4. e \in ThemeSettings
    BY <1>1, <1>2, <1>3 DEF ThemeSettings
<1> QED BY <1>2, <1>3, <1>4, ThemeSection DEF e

LEMMA ThemeSent ==
    ASSUME NEW i, NEW f
    PROVE  \A x \in DOMAIN SentTheme(i, f) :
                /\ x \in DOMAIN f
                /\ SentTheme(i, f)[x] = f[x] \/ (x = "ga" /\ SentTheme(i, f)[x] = "null")
BY DEF SentTheme

(***************************************************************************)
(* What a form sends turns settings into settings.                         *)
(***************************************************************************)
LEMMA SentTyped ==
    ASSUME NEW s \in Sections, s # "tokens", NEW i, NEW f \in Form(s), NEW d \in Settings(s)
    PROVE  Stored(s, d, Sent(s, i, f)) \in Settings(s)
<1>1. CASE s = "providers"
    BY <1>1, ProviderStored
<1>2. CASE s = "limits"
    BY <1>2, LimitStored
<1>3. CASE s = "themes"
    BY <1>3, ThemeSection, ThemeSent, ThemeStored
<1> QED BY <1>1, <1>2, <1>3, FourSections

(***************************************************************************)
(* A form that is drawn from the settings it finds changes what was edited *)
(* in it, and nothing else: one section after the other.                   *)
(***************************************************************************)
Kept(s, d, f, E) == \A x \in DOMAIN f \ {"cleared"} : x \in E \/ f[x] = Drawn(s, d)[x]

LEMMA ProviderEdits ==
    ASSUME NEW i, NEW d \in Settings("providers"), NEW f \in Form("providers"), NEW c,
           c.set = Sent("providers", i, f), Kept("providers", d, f, c.edits)
    PROVE  OnlyEdits("providers", d, c)
<1>1. d \in ProviderSettings /\ f \in ProviderForm
    BY ProviderSection
<1>2. DOMAIN d = {"interval", "model", "key"} /\ DOMAIN f = {"interval", "model", "key", "cleared"}
    BY <1>1 DEF ProviderSettings, ProviderForm
<1> DEFINE e == Stored("providers", d, Sent("providers", i, f))
           r == renderProviderManagerDOM(d)
<1>a. e.interval = OrDefault(f.interval) /\ e.model = f.model
    BY ProviderStored
<1>b. ASSUME f.key = "" PROVE e.key = d.key
    BY <1>b, ProviderStored
<1>3. e.interval = OrDefault(f.interval) /\ e.model = f.model /\ (f.key = "" => e.key = d.key)
    BY <1>a, <1>b
<1>4. /\ r.key = "" /\ r.model = OrDefault(d.model)
      /\ r.interval = IF d.interval = "zero" THEN "default" ELSE d.interval
    BY DEF renderProviderManagerDOM
<1>5. Drawn("providers", d) = r
    BY ProviderSection
<1> HIDE DEF e, r
<1>6. /\ "interval" \in c.edits \/ f.interval = r.interval
      /\ "model" \in c.edits \/ f.model = r.model
      /\ "key" \in c.edits \/ f.key = r.key
    BY <1>2, <1>5 DEF Kept
<1>7. e.interval = d.interval \/ "interval" \in c.edits \/ d.interval = "zero"
    BY <1>1, <1>3, <1>4, <1>6 DEF OrDefault, ProviderSettings
<1>8. e.key = d.key \/ "key" \in c.edits
    BY <1>3, <1>4, <1>6
<1>c. e.model = d.model \/ "model" \in c.edits \/ d.model = ""
    BY <1>3, <1>4, <1>6 DEF OrDefault
<1>9. \A x \in DOMAIN d : e[x] = d[x] \/ x \in c.edits \/ DrawnAsDefault(x, d)
    BY <1>2, <1>7, <1>8, <1>c DEF DrawnAsDefault
<1>10. Stored("providers", d, c.set) = e
    BY DEF e
<1> QED BY <1>9, <1>10 DEF OnlyEdits

LEMMA LimitEdits ==
    ASSUME NEW i, NEW d \in Settings("limits"), NEW f \in Form("limits"), NEW c,
           c.set = Sent("limits", i, f), Kept("limits", d, f, c.edits)
    PROVE  OnlyEdits("limits", d, c)
<1>1. d \in LimitSettings /\ f \in LimitForm
    BY LimitSection
<1>2. DOMAIN d = {"budget"} /\ DOMAIN f = {"budget"} /\ d.budget # ""
    BY <1>1 DEF LimitSettings, LimitForm
<1> DEFINE e == Stored("limits", d, c.set)
<1>3. e.budget = OrDefault(f.budget) /\ Drawn("limits", d) = d
    BY LimitSection, LimitStored
<1> HIDE DEF e
<1>4. "budget" \in c.edits \/ f.budget = d.budget
    BY <1>2, <1>3 DEF Kept
<1>5. \A x \in DOMAIN d : e[x] = d[x] \/ x \in c.edits
    BY <1>2, <1>3, <1>4 DEF OrDefault
<1> QED BY <1>5 DEF e, OnlyEdits

LEMMA ThemeEdits ==
    ASSUME NEW i, NEW d \in Settings("themes"), NEW f \in Form("themes"), NEW c,
           c.set = Sent("themes", i, f), Kept("themes", d, f, c.edits)
    PROVE  OnlyEdits("themes", d, c)
<1>1. d \in ThemeSettings /\ f \in ThemeSettings /\ f \in Settings("themes")
    BY ThemeSection
<1>2. DOMAIN d = DOMAIN f /\ "cleared" \notin DOMAIN f
    BY <1>1 DEF ThemeSettings
<1>3. c.set = SentTheme(i, f) /\ Drawn("themes", d) = d
    BY ThemeSection
<1> DEFINE e == Stored("themes", d, c.set)
<1>4. \A x \in DOMAIN d : e[x] = d[x] \/ e[x] = f[x]
    BY <1>1, <1>3, ThemeSent, ThemeStored
<1>5. \A x \in DOMAIN d : x \in c.edits \/ f[x] = d[x]
    BY <1>2, <1>3 DEF Kept
<1> HIDE DEF e
<1>6. \A x \in DOMAIN d : e[x] = d[x] \/ x \in c.edits
    BY <1>4, <1>5
<1> QED BY <1>6 DEF e, OnlyEdits

LEMMA SentEdits ==
    ASSUME NEW s \in Sections, s # "tokens", NEW p, PageTyped(s, p), FormTrue(s, p),
           NEW i \in DOMAIN p.form, NEW c, c.set = Sent(s, i, p.form[i]),
           \A x \in DOMAIN p.form[i] \ {"cleared"} : <<i, x>> \in p.edited => x \in c.edits
    PROVE  OnlyEdits(s, p.has[i], c)
<1> DEFINE f == p.form[i]
           d == p.has[i]
<1>1. f \in Form(s) /\ d \in Settings(s)
    BY DEF PageTyped
<1>2. Kept(s, d, f, c.edits)
    BY DEF FormTrue, Kept
<1> HIDE DEF f, d
<1>3. c.set = Sent(s, i, f)
    BY DEF f
<1>4. OnlyEdits(s, d, c)
    BY <1>1, <1>2, <1>3, FourSections, ProviderEdits, LimitEdits, ThemeEdits
<1> QED BY <1>4 DEF d

(***************************************************************************)
(* A toggle sends one field, and so does the reset of the limits.          *)
(***************************************************************************)
LEMMA ToggleSent ==
    ASSUME NEW x \in {"is_public", "collaborator", "presentation"}, NEW b \in BOOLEAN,
           NEW d \in Settings("themes"), NEW c, c.set = [y \in {x} |-> b], c.edits = {x}
    PROVE  Stored("themes", d, c.set) \in Settings("themes") /\ OnlyEdits("themes", d, c)
<1> DEFINE f == [d EXCEPT ![x] = b]
<1>1. d \in ThemeSettings
    BY ThemeSection
<1>2. f \in ThemeSettings /\ x \in DOMAIN f /\ f[x] = b
    BY <1>1 DEF ThemeSettings
<1> HIDE DEF f
<1>3. DOMAIN c.set = {x} /\ c.set[x] = b
    OBVIOUS
<1>4. \A y \in DOMAIN c.set : y \in DOMAIN f /\ (c.set[y] = f[y] \/ (y = "ga" /\ c.set[y] = "null"))
    BY <1>2, <1>3
<1>5. /\ Stored("themes", d, c.set) \in Settings("themes")
      /\ \A y \in DOMAIN d : Stored("themes", d, c.set)[y] = d[y] \/ y \in DOMAIN c.set
    BY <1>2, <1>4, ThemeSection, ThemeStored
<1> QED BY <1>3, <1>5 DEF OnlyEdits

LEMMA ResetSent ==
    ASSUME NEW d \in Settings("limits"), NEW c, c.set = [budget |-> "default"], c.edits = {"budget"}
    PROVE  Stored("limits", d, c.set) \in Settings("limits") /\ OnlyEdits("limits", d, c)
<1>1. d \in LimitSettings /\ Stored("limits", d, c.set) = c.set
    BY LimitSection
<1>2. DOMAIN d = {"budget"} /\ c.set \in LimitSettings
    BY <1>1 DEF LimitSettings
<1> QED BY <1>1, <1>2, LimitSection DEF OnlyEdits

(***************************************************************************)
(* The server's settings stay settings.                                    *)
(***************************************************************************)
LEMMA NewItems ==
    /\ NewTheme \in Settings("themes")
    /\ [revoked |-> FALSE] \in Settings("tokens")
    /\ \A d \in Settings("tokens") : [d EXCEPT !.revoked = TRUE] \in Settings("tokens")
<1>1. NewTheme \in ThemeSettings
    BY DEF NewTheme, ThemeSettings
<1>2. [revoked |-> FALSE] \in TokenSettings
      /\ \A d \in TokenSettings : [d EXCEPT !.revoked = TRUE] \in TokenSettings
    BY DEF TokenSettings
<1> QED BY <1>1, <1>2, ThemeSection, TokenSection

LEMMA StorePut ==
    ASSUME NEW s, NEW f, IsStore(s, f), NEW i \in DOMAIN f, NEW d \in Settings(s)
    PROVE  IsStore(s, [f EXCEPT ![i] = d])
BY DEF IsStore

LEMMA StoreWith ==
    ASSUME IsStore(section, server), NEW i \in Items(section), NEW d \in Settings(section)
    PROVE  IsStore(section, With(i, d))
BY DEF IsStore, With

LEMMA StoreWithout ==
    ASSUME NEW f, IsStore("themes", f), NEW i
    PROVE  IsStore("themes", [j \in DOMAIN f \ {i} |-> f[j]])
BY DEF IsStore

(***************************************************************************)
(* The page.                                                               *)
(***************************************************************************)
\* All forms of a section have the same inputs.
LEMMA FormFields ==
    ASSUME NEW s \in Sections, NEW f \in Form(s)
    PROVE  /\ \A g \in Form(s) : DOMAIN g = DOMAIN f
           /\ s # "tokens" => DOMAIN f \ {"cleared"} \subseteq {"interval", "model", "key", "budget"} \cup DOMAIN NewTheme
<1>1. CASE s = "providers"
    <2>1. \A g \in ProviderForm : DOMAIN g = {"interval", "model", "key", "cleared"}
        BY DEF ProviderForm
    <2> QED BY <1>1, <2>1, ProviderSection
<1>2. CASE s = "limits"
    <2>1. \A g \in LimitForm : DOMAIN g = {"budget"}
        BY DEF LimitForm
    <2> QED BY <1>2, <2>1, LimitSection
<1>3. CASE s = "themes"
    <2>1. \A g \in ThemeSettings : DOMAIN g = {"ga", "is_public", "collaborator", "presentation"}
        BY DEF ThemeSettings
    <2>2. DOMAIN NewTheme = {"ga", "is_public", "collaborator", "presentation"}
        BY DEF NewTheme
    <2> QED BY <1>3, <2>1, <2>2, ThemeSection
<1>4. CASE s = "tokens"
    <2>1. \A g \in TokenForm : DOMAIN g = {"revoke"}
        BY DEF TokenForm
    <2> QED BY <1>4, <2>1, TokenSection
<1> QED BY <1>1, <1>2, <1>3, <1>4, FourSections

LEMMA PageFields ==
    DOMAIN NewPage = {"shown", "has", "seen", "form", "edited", "open", "fresh", "test"}
BY DEF NewPage

LEMMA NewPageGood ==
    ASSUME NEW s
    PROVE  /\ PageTyped(s, NewPage) /\ FormTrue(s, NewPage)
           /\ PageTyped(s, [NewPage EXCEPT !.shown = "error"])
           /\ FormTrue(s, [NewPage EXCEPT !.shown = "error"])
           /\ NewPage.shown = "loading" /\ [NewPage EXCEPT !.shown = "error"].shown = "error"
           /\ NewPage.seen = 0 /\ [NewPage EXCEPT !.shown = "error"].seen = 0
<1>1. \A q \in {NewPage, [NewPage EXCEPT !.shown = "error"]} :
        /\ DOMAIN q = DOMAIN NewPage /\ q.shown \in {"loading", "error"} /\ q.has = <<>> /\ q.seen = 0
        /\ q.form = <<>> /\ q.edited = {} /\ q.open = {} /\ q.fresh = None /\ q.test = "none"
    BY DEF NewPage
<1>2. DOMAIN <<>> = {}
    OBVIOUS
<1>3. \A S : <<>> \in [{} -> S]
    OBVIOUS
<1>4. \A q \in {NewPage, [NewPage EXCEPT !.shown = "error"]} : PageTyped(s, q) /\ FormTrue(s, q)
    <2> SUFFICES ASSUME NEW q \in {NewPage, [NewPage EXCEPT !.shown = "error"]}
                 PROVE  PageTyped(s, q) /\ FormTrue(s, q)
        OBVIOUS
    <2>1. /\ DOMAIN q = DOMAIN NewPage /\ q.shown \in {"loading", "error"} /\ q.seen = 0
          /\ DOMAIN q.has = {} /\ DOMAIN q.form = {} /\ q.has \in [{} -> Settings(s)]
          /\ q.form \in [{} -> Form(s)]
          /\ q.edited = {} /\ q.open = {} /\ q.fresh = None /\ q.test = "none"
        BY <1>1, <1>2, <1>3
    <2> QED BY <2>1 DEF PageTyped, FormTrue
<1>5. NewPage.shown = "loading" /\ [NewPage EXCEPT !.shown = "error"].shown = "error"
    BY DEF NewPage
<1> QED BY <1>1, <1>4, <1>5

\* Nothing that the forms are about changes.
LEMMA PageKept ==
    ASSUME NEW s, NEW p, PageTyped(s, p), FormTrue(s, p),
           NEW q, DOMAIN q = DOMAIN p, q.has = p.has, q.seen = p.seen, q.form = p.form, q.edited = p.edited,
           q.open \subseteq DOMAIN p.form, q.fresh \in Tokens \cup {None},
           q.shown \in {"loading", "panel", "error"}, q.test \in {"none", "running", "answered"}
    PROVE  PageTyped(s, q) /\ FormTrue(s, q)
BY DEF PageTyped, FormTrue

LEMMA DrawGood ==
    ASSUME NEW p, section \in Sections, DOMAIN p = DOMAIN NewPage,
           DOMAIN p.has \subseteq Items(section), p.has \in [DOMAIN p.has -> Settings(section)],
           p.fresh \in Tokens \cup {None}, p.seen \in Nat
    PROVE  /\ PageTyped(section, Draw(p)) /\ FormTrue(section, Draw(p))
           /\ Draw(p).has = p.has /\ Draw(p).seen = p.seen /\ Draw(p).fresh = p.fresh
           /\ Draw(p).test = "none"
<1> DEFINE q == Draw(p)
           f == [i \in DOMAIN p.has |-> Drawn(section, p.has[i])]
<1>1. /\ DOMAIN q = DOMAIN p /\ q.has = p.has /\ q.seen = p.seen /\ q.fresh = p.fresh
      /\ q.shown = "panel" /\ q.form = f /\ q.edited = {} /\ q.open = {} /\ q.test = "none"
    BY PageFields DEF Draw
<1>2. /\ f \in [DOMAIN p.has -> Form(section)] /\ DOMAIN f = DOMAIN p.has
      /\ \A i \in DOMAIN f : f[i] = Drawn(section, p.has[i])
      /\ section = "providers" => \A i \in DOMAIN f : ~f[i].cleared
    BY DrawnTyped
<1> HIDE DEF q, f
<1>3. PageTyped(section, q)
    BY <1>1, <1>2 DEF PageTyped
<1>4. FormTrue(section, q)
    BY <1>1, <1>2 DEF FormTrue
<1> QED BY <1>1, <1>3, <1>4 DEF q

LEMMA TakeGood ==
    ASSUME NEW c, IsStore(section, c.got), c.version \in Nat, section \in Sections, PageTyped(section, page)
    PROVE  /\ PageTyped(section, Take(page, c)) /\ FormTrue(section, Take(page, c))
           /\ Take(page, c).has = c.got /\ Take(page, c).seen = c.version
           /\ Take(page, c).test = "none"
<1> DEFINE p == [page EXCEPT !.has = c.got, !.seen = c.version]
<1>1. DOMAIN page = DOMAIN NewPage /\ page.fresh \in Tokens \cup {None}
    BY DEF PageTyped
<1>2. DOMAIN p = DOMAIN NewPage /\ p.has = c.got /\ p.seen = c.version /\ p.fresh = page.fresh
    BY <1>1, PageFields
<1>3. Take(page, c) = Draw(p)
    BY DEF Take
<1> HIDE DEF p
<1> QED BY <1>1, <1>2, <1>3, DrawGood DEF IsStore

LEMMA LoadingGood ==
    ASSUME NEW s, NEW p, PageTyped(s, p), FormTrue(s, p)
    PROVE  /\ PageTyped(s, Loading(p)) /\ FormTrue(s, Loading(p))
           /\ Loading(p).has = p.has /\ Loading(p).seen = p.seen
<1> DEFINE q == Loading(p)
<1>1. DOMAIN p = DOMAIN NewPage /\ p.open \subseteq DOMAIN p.form /\ p.fresh \in Tokens \cup {None}
    BY DEF PageTyped
<1>2. /\ DOMAIN q = DOMAIN p /\ q.has = p.has /\ q.seen = p.seen /\ q.fresh = p.fresh
      /\ q.shown = "loading" /\ q.form = p.form /\ q.edited = p.edited /\ q.open = p.open
      /\ q.test = "none"
    BY <1>1, PageFields DEF Loading
<1> HIDE DEF q
<1>3. PageTyped(s, q) /\ FormTrue(s, q)
    BY <1>1, <1>2, PageKept
<1> QED BY <1>2, <1>3 DEF q

(***************************************************************************)
(* The calls.                                                              *)
(***************************************************************************)
LEMMA CallFields ==
    DOMAIN NoCall = {"n", "op", "item", "set", "edits", "gone", "base", "live", "stage", "got", "version"}
BY DEF NoCall

\* What is true of a call does not depend on whether its result can be seen.
Alike(c, e) == DOMAIN e = DOMAIN c /\ \A x \in DOMAIN c \ {"live"} : e[x] = c[x]

LEMMA AlikeFields ==
    ASSUME NEW s, NEW c, CallTyped(s, c), NEW e, Alike(c, e)
    PROVE  /\ e.n = c.n /\ e.op = c.op /\ e.item = c.item /\ e.set = c.set /\ e.edits = c.edits
           /\ e.base = c.base /\ e.stage = c.stage /\ e.got = c.got /\ e.version = c.version
           /\ DOMAIN e = DOMAIN NoCall
BY CallFields DEF CallTyped, Alike

LEMMA AlikeTyped ==
    ASSUME NEW s, NEW c, CallTyped(s, c), NEW e, Alike(c, e)
    PROVE  CallTyped(s, e)
BY AlikeFields DEF CallTyped

\* A call stays true when nothing is written, and when something is.
LEMMA CallStays ==
    ASSUME NEW c, CallTyped(section, c), CallTrue(c), NEW e, Alike(c, e),
           version \in Nat, made \in Nat, made' \in Nat, made <= made', section' = section,
           (version' = version /\ server' = server) \/ version' = version + 1
    PROVE  CallTyped(section', e) /\ CallTrue(e)'
<1>1. CallTyped(section, e)
    BY AlikeTyped
<1>2. /\ e.n = c.n /\ e.op = c.op /\ e.item = c.item /\ e.set = c.set /\ e.edits = c.edits
      /\ e.base = c.base /\ e.stage = c.stage /\ e.got = c.got /\ e.version = c.version
    BY AlikeFields
<1>3. c.n \in Nat /\ c.version \in Nat /\ c.base \in Nat
    BY DEF CallTyped
<1>4. e.n <= made' /\ e.version <= version' /\ e.base <= version'
    BY <1>2, <1>3 DEF CallTrue
<1>5. CASE version' = version /\ server' = server
    <2>1. e.stage = "done" /\ e.version = version' => e.got = server'
        BY <1>2, <1>5 DEF CallTrue
    <2>2. e.op = "save" /\ e.stage = "sent" /\ e.base = version' =>
                e.item \in DOMAIN server' /\ OnlyEdits(section', server'[e.item], e)
        BY <1>2, <1>5 DEF CallTrue, OnlyEdits
    <2> QED BY <1>1, <1>4, <2>1, <2>2 DEF CallTrue
<1>6. CASE version' = version + 1
    <2>1. e.version # version' /\ e.base # version'
        BY <1>2, <1>3, <1>6 DEF CallTrue
    <2> QED BY <1>1, <1>4, <2>1 DEF CallTrue
<1> QED BY <1>5, <1>6

LEMMA AlikeItself == ASSUME NEW c PROVE Alike(c, c)
BY DEF Alike

LEMMA DetachedAlike ==
    ASSUME NEW s, NEW c, CallTyped(s, c)
    PROVE  Alike(c, [c EXCEPT !.live = (c.op # "test")])
BY CallFields DEF CallTyped, Alike

\* Asking for the list.
LEMMA GetGood ==
    ASSUME NEW n \in Nat, n <= made, version \in Nat, NEW i, NEW g,
           g \in Get(n) \/ g \in {[h EXCEPT !.item = i] : h \in Get(n)}
    PROVE  /\ CallTyped(section, g) /\ CallTrue(g) /\ g.n = n /\ Brings(g) /\ g.op = "get"
           /\ g \in Get(n) => g.item = None
<1>1. /\ DOMAIN g = DOMAIN NoCall /\ g.n = n /\ g.op = "get" /\ g.stage = "sent"
      /\ g.version = 0 /\ g.base = 0 /\ (g \in Get(n) => g.item = None)
    <2>1. CASE g \in Get(n)
        BY <2>1 DEF Get, NoCall
    <2>2. CASE g \in {[h EXCEPT !.item = i] : h \in Get(n)} /\ g \notin Get(n)
        <3>1. g = [[NoCall EXCEPT !.n = n] EXCEPT !.item = i]
            BY <2>2 DEF Get
        <3> QED BY <2>2, <3>1 DEF NoCall
    <2> QED BY <2>1, <2>2
<1> QED BY <1>1 DEF CallTyped, CallTrue, Brings, Ops

(***************************************************************************)
(* An answer takes its call away and asks for the list, or not.            *)
(***************************************************************************)
LEMMA AnsweredCalls ==
    ASSUME StateTyped, CallsInv, NEW c \in calls, NEW p, NEW more, Answered(c, p, more),
           \A g \in more : CallTyped(section, g) /\ CallTrue(g) /\ g.n = c.n,
           \A g, h \in more : g = h
    PROVE  /\ CallsInv' /\ more \subseteq calls'
           /\ \A k \in calls \ {c} : \E e \in calls' : Alike(k, e)
           /\ \A e \in calls' : e \in more \/ \E k \in calls \ {c} : Alike(k, e)
<1> DEFINE Later(k) == IF p.test = "none" THEN [k EXCEPT !.live = (k.op # "test")] ELSE k
<1>1. calls' = {Later(k) : k \in calls \ {c}} \cup more
    BY DEF Answered, Detached
<1>2. \A k \in calls : CallTyped(section, k) /\ CallTrue(k)
    BY DEF CallsInv
<1>3. \A k \in calls : Alike(k, Later(k))
    BY <1>2, DetachedAlike, AlikeItself
<1>4. /\ version \in Nat /\ made \in Nat /\ made' = made /\ version' = version
      /\ section' = section /\ server' = server
    BY ManagePanelsAssumption DEF StateTyped, Answered
<1> HIDE DEF Later
<1>5. \A k \in calls : CallTyped(section', Later(k)) /\ CallTrue(Later(k))' /\ Later(k).n = k.n
    <2> TAKE k \in calls
    <2>1. CallTyped(section, k) /\ CallTrue(k) /\ Alike(k, Later(k)) /\ made <= made'
        BY <1>2, <1>3, <1>4
    <2>2. CallTyped(section', Later(k)) /\ CallTrue(Later(k))'
        BY <1>4, <2>1, CallStays
    <2> QED BY <2>1, <2>2, AlikeFields
<1>6. \A g \in more : CallTyped(section', g) /\ CallTrue(g)'
    <2> TAKE g \in more
    <2>1. CallTyped(section, g) /\ CallTrue(g) /\ Alike(g, g) /\ made <= made'
        BY <1>4, AlikeItself
    <2> QED BY <1>4, <2>1, CallStays
<1>7. \A e, f \in calls' : e.n = f.n => e = f
    <2> SUFFICES ASSUME NEW e \in calls', NEW f \in calls', e.n = f.n PROVE e = f
        OBVIOUS
    <2>1. CASE e \in more /\ f \in more
        BY <2>1
    <2>2. ASSUME NEW k \in calls \ {c}, NEW g \in more PROVE Later(k).n # g.n
        BY <1>5 DEF CallsInv
    <2>3. ASSUME NEW k \in calls \ {c}, NEW l \in calls \ {c}, Later(k).n = Later(l).n
          PROVE  Later(k) = Later(l)
        BY <1>5, <2>3 DEF CallsInv
    <2> QED BY <1>1, <2>1, <2>2, <2>3
<1>8. \A e \in calls' : CallTyped(section', e) /\ CallTrue(e)'
    BY <1>1, <1>5, <1>6
<1>9. CallsInv'
    BY <1>7, <1>8 DEF CallsInv
<1> QED BY <1>1, <1>3, <1>9

(***************************************************************************)
(* One does something: a new call, with a number of its own.               *)
(***************************************************************************)
LEMMA SentCalls ==
    ASSUME StateTyped, CallsInv, NEW p, NEW c, Send(p, c), DOMAIN c = DOMAIN NoCall,
           NEW k, k = [c EXCEPT !.n = made + 1],
           CallTyped(section, k), k.version = 0, k.stage = "sent", k.base <= version,
           k.op = "save" /\ k.base = version =>
                k.item \in DOMAIN server /\ OnlyEdits(section, server[k.item], k)
    PROVE  CallsInv' /\ calls \subseteq calls' /\ StateTyped'
<1>1. /\ version \in Nat /\ made \in Nat /\ made' = made + 1 /\ version' = version
      /\ section' = section /\ server' = server /\ missed' = missed /\ made' <= MaxCalls
    BY ManagePanelsAssumption DEF StateTyped, Send, Asked
<1>2. calls' = calls \cup {k} /\ k.n = made + 1
    BY CallFields DEF Send
<1>3. CallTyped(section', k)
    BY <1>1
<1>4. CallTrue(k)'
    <2>1. k.n <= made' /\ k.version <= version' /\ k.base <= version' /\ k.stage # "done"
        BY <1>1, <1>2
    <2>2. k.op = "save" /\ k.stage = "sent" /\ k.base = version' =>
                k.item \in DOMAIN server' /\ OnlyEdits(section', server'[k.item], k)
        BY <1>1
    <2> QED BY <2>1, <2>2 DEF CallTrue
<1>5. \A e \in calls : CallTyped(section', e) /\ CallTrue(e)'
    <2> TAKE e \in calls
    <2>1. CallTyped(section, e) /\ CallTrue(e) /\ Alike(e, e) /\ made <= made' /\ made' \in Nat
        BY <1>1, AlikeItself DEF CallsInv
    <2> QED BY <1>1, <2>1, CallStays
<1>6. \A e \in calls : e.n \in Nat /\ e.n <= made
    BY DEF CallsInv, CallTyped, CallTrue
<1>7. \A e, f \in calls' : e.n = f.n => e = f
    <2>1. \A e, f \in calls : e.n = f.n => e = f
        BY DEF CallsInv
    <2>2. \A e \in calls : e.n # k.n
        BY <1>1, <1>2, <1>6
    <2> QED BY <1>2, <2>1, <2>2
<1>8. CallsInv'
    BY <1>2, <1>3, <1>4, <1>5, <1>7 DEF CallsInv
<1>9. StateTyped'
    BY <1>1 DEF StateTyped, IsStore
<1> QED BY <1>2, <1>8, <1>9

(***************************************************************************)
(* One only types: the calls stay, and what the page has.                  *)
(***************************************************************************)
LEMMA PanelLoaded ==
    ASSUME PanelsInv, Panel
    PROVE  /\ Loaded /\ PageTyped(section, page) /\ FormTrue(section, page)
           /\ page.seen \in Nat /\ page.seen <= version /\ section \in Sections
<1>1. page # NewPage /\ page # [NewPage EXCEPT !.shown = "error"]
    BY NewPageGood DEF Panel
<1> QED BY <1>1 DEF PanelsInv, PageInv, Unloaded, StateTyped, PageTyped

LEMMA PageStays ==
    ASSUME Loaded, page.seen <= version, UNCHANGED <<section, server, version>>,
           PageTyped(section, page'), FormTrue(section, page'), page'.has = page.has, page'.seen = page.seen
    PROVE  PageInv'
<1>1. Loaded'
    BY DEF Loaded, IsStore
<1>2. PageTyped(section', page') /\ FormTrue(section', page') /\ page'.seen <= version'
    OBVIOUS
<1> QED BY <1>1, <1>2 DEF PageInv

LEMMA CurrentStays ==
    ASSUME missed \/ Current, UNCHANGED <<server, version, missed>>, calls \subseteq calls',
           page'.has = page.has, page'.seen = page.seen
    PROVE  missed' \/ Current'
<1>1. CASE missed
    BY <1>1
<1>2. CASE page.seen = version /\ page.has = server
    BY <1>2 DEF Current
<1>3. CASE \E k \in calls : Brings(k)
    <2>1. PICK k \in calls : Brings(k)
        BY <1>3
    <2>2. k \in calls' /\ Brings(k)'
        BY <2>1 DEF Brings
    <2> QED BY <2>2 DEF Current
<1> QED BY <1>1, <1>2, <1>3 DEF Current

LEMMA IdleInv ==
    ASSUME PanelsInv, Panel, Idle, PageTyped(section, page'), FormTrue(section, page'),
           page'.has = page.has, page'.seen = page.seen
    PROVE  PanelsInv'
<1>1. UNCHANGED <<section, server, version, missed, calls, made>>
    BY DEF Idle, Asked
<1>2. StateTyped'
    BY <1>1 DEF PanelsInv, StateTyped, IsStore
<1>3. CallsInv'
    <2>1. ASSUME NEW c \in calls PROVE CallTyped(section', c) /\ CallTrue(c)'
        <3>1. /\ CallTyped(section, c) /\ CallTrue(c) /\ Alike(c, c)
              /\ version \in Nat /\ made \in Nat /\ made' \in Nat /\ made <= made'
            BY <1>1, ManagePanelsAssumption, AlikeItself DEF PanelsInv, CallsInv, StateTyped
        <3> QED BY <1>1, <3>1, CallStays
    <2>2. \A c, e \in calls' : c.n = e.n => c = e
        BY <1>1 DEF PanelsInv, CallsInv
    <2> QED BY <1>1, <2>1, <2>2 DEF CallsInv
<1>4. PageInv'
    BY <1>1, PanelLoaded, PageStays
<1>5. missed' \/ Current'
    BY <1>1, CurrentStays DEF PanelsInv
<1> QED BY <1>2, <1>3, <1>4, <1>5 DEF PanelsInv

LEMMA OpenForm ==
    ASSUME PanelsInv, NEW t, showThemeEditForm(t)
    PROVE  PanelsInv'
<1>1. /\ PageTyped(section, page) /\ FormTrue(section, page)
    BY PanelLoaded DEF showThemeEditForm
<1>2. /\ DOMAIN page = DOMAIN NewPage /\ page.open \subseteq DOMAIN page.form
      /\ DOMAIN page.form = DOMAIN page.has
      /\ page.shown \in {"loading", "panel", "error"} /\ page.fresh \in Tokens \cup {None}
      /\ page.test \in {"none", "running", "answered"}
    BY <1>1 DEF PageTyped
<1>3. /\ DOMAIN page' = DOMAIN page /\ page'.has = page.has /\ page'.seen = page.seen
      /\ page'.form = page.form /\ page'.edited = page.edited /\ page'.fresh = page.fresh
      /\ page'.shown = page.shown /\ page'.test = page.test
      /\ page'.open \subseteq page.open \cup {t}
    BY <1>2, PageFields DEF showThemeEditForm
<1>4. page'.open \subseteq DOMAIN page.form
    BY <1>2, <1>3 DEF showThemeEditForm
<1>5. PageTyped(section, page') /\ FormTrue(section, page')
    BY <1>1, <1>2, <1>3, <1>4, PageKept
<1> QED BY <1>3, <1>5, IdleInv DEF showThemeEditForm

\* An input changes and is edited.
LEMMA InputTyped ==
    ASSUME section \in Sections, PageTyped(section, page), FormTrue(section, page),
           NEW i \in DOMAIN page.form, NEW x, NEW f \in Form(section),
           \A y \in DOMAIN f \ {x, "cleared"} : f[y] = page.form[i][y],
           section = "providers" => x = "key" \/ f.cleared = page.form[i].cleared,
           page' = [page EXCEPT !.form[i] = f, !.edited = @ \cup {<<i, x>>}]
    PROVE  /\ PageTyped(section, page') /\ FormTrue(section, page')
           /\ page'.has = page.has /\ page'.seen = page.seen
<1>1. DOMAIN page = DOMAIN NewPage
    BY DEF PageTyped
<1>2. /\ DOMAIN page' = DOMAIN page /\ page'.has = page.has /\ page'.seen = page.seen
      /\ page'.form = [page.form EXCEPT ![i] = f] /\ page'.edited = page.edited \cup {<<i, x>>}
      /\ page'.fresh = page.fresh /\ page'.shown = page.shown /\ page'.test = page.test
      /\ page'.open = page.open
    BY <1>1, PageFields
<1>3. /\ DOMAIN page'.form = DOMAIN page.form /\ page'.form[i] = f
      /\ \A j \in DOMAIN page.form \ {i} : page'.form[j] = page.form[j]
      /\ page'.form \in [DOMAIN page.form -> Form(section)]
    BY <1>2 DEF PageTyped
<1>4. {e[1] : e \in page'.edited} \subseteq DOMAIN page.form
    BY <1>2 DEF PageTyped
<1>5. PageTyped(section, page')
    BY <1>2, <1>3, <1>4 DEF PageTyped
<1>6. DOMAIN f = DOMAIN page.form[i]
    BY FormFields DEF PageTyped
<1>7. FormTrue(section, page')
    <2> SUFFICES ASSUME NEW j \in DOMAIN page'.form
                 PROVE  /\ \A y \in DOMAIN page'.form[j] \ {"cleared"} :
                                \/ <<j, y>> \in page'.edited
                                \/ page'.form[j][y] = Drawn(section, page'.has[j])[y]
                        /\ section = "providers" /\ page'.form[j].cleared => <<j, "key">> \in page'.edited
        BY DEF FormTrue
    <2>1. CASE j # i
        BY <1>2, <1>3, <2>1 DEF FormTrue
    <2>2. CASE j = i
        <3>1. \A y \in DOMAIN f \ {"cleared"} : <<i, y>> \in page.edited \cup {<<i, x>>}
                                                \/ f[y] = Drawn(section, page.has[i])[y]
            <4> TAKE y \in DOMAIN f \ {"cleared"}
            <4>1. <<i, y>> \in page.edited \/ page.form[i][y] = Drawn(section, page.has[i])[y]
                BY <1>6 DEF FormTrue
            <4> QED BY <4>1
        <3>2. section = "providers" /\ f.cleared => <<i, "key">> \in page.edited \cup {<<i, x>>}
            BY DEF FormTrue
        <3> QED BY <1>2, <1>3, <2>2, <3>1, <3>2
    <2> QED BY <2>1, <2>2
<1> QED BY <1>2, <1>5, <1>7

LEMMA EditInv ==
    ASSUME PanelsInv, NEW i, NEW x, Edit(i, x)
    PROVE  PanelsInv'
<1>1. Panel /\ Idle /\ i \in DOMAIN page.form
    BY DEF Edit
<1>2. section \in Sections /\ PageTyped(section, page) /\ FormTrue(section, page)
    BY <1>1, PanelLoaded
<1>3. PICK f \in Form(section) :
        /\ \A y \in DOMAIN f \ {x} : f[y] = page.form[i][y]
        /\ page' = [page EXCEPT !.form[i] = f, !.edited = @ \cup {<<i, x>>}]
    BY DEF Edit
<1>4. section = "providers" => f.cleared = page.form[i].cleared
    <2> SUFFICES ASSUME section = "providers" PROVE f.cleared = page.form[i].cleared
        OBVIOUS
    <2>1. f \in ProviderForm
        BY ProviderSection
    <2>2. "cleared" \in DOMAIN f
        BY <2>1 DEF ProviderForm
    <2>3. x # "cleared"
        BY DEF Edit
    <2> QED BY <1>3, <2>2, <2>3
<1>5. \A y \in DOMAIN f \ {x, "cleared"} : f[y] = page.form[i][y]
    BY <1>3
<1>6. /\ PageTyped(section, page') /\ FormTrue(section, page')
      /\ page'.has = page.has /\ page'.seen = page.seen
    BY <1>1, <1>2, <1>3, <1>4, <1>5, InputTyped
<1> QED BY <1>1, <1>6, IdleInv

LEMMA ClearInv ==
    ASSUME PanelsInv, clearApiKeyInput
    PROVE  PanelsInv'
<1>1. Panel /\ Idle /\ section = "providers"
    BY DEF clearApiKeyInput
<1>2. section \in Sections /\ PageTyped(section, page) /\ FormTrue(section, page) /\ Loaded
    BY <1>1, PanelLoaded
<1>3. "config" \in DOMAIN page.form
    BY <1>1, <1>2, ProviderSection DEF Loaded, IsStore, PageTyped
<1> DEFINE g == page.form["config"]
           f == [g EXCEPT !.key = "", !.cleared = TRUE]
<1>4. g \in ProviderForm
    BY <1>1, <1>2, <1>3, ProviderSection DEF PageTyped
<1>5. f \in ProviderForm /\ \A y \in DOMAIN f \ {"key", "cleared"} : f[y] = g[y]
    BY <1>4 DEF ProviderForm
<1>6. page' = [page EXCEPT !.form["config"] = f, !.edited = @ \cup {<<"config", "key">>}]
    BY DEF clearApiKeyInput
<1>7. f \in Form(section)
    BY <1>1, <1>5, ProviderSection
<1> HIDE DEF f
<1>8. /\ PageTyped(section, page') /\ FormTrue(section, page')
      /\ page'.has = page.has /\ page'.seen = page.seen
    BY <1>1, <1>2, <1>3, <1>5, <1>6, <1>7, InputTyped
<1> QED BY <1>1, <1>8, IdleInv

(***************************************************************************)
(* A call is sent.                                                         *)
(***************************************************************************)
LEMMA SendInv ==
    ASSUME PanelsInv, Panel, NEW p, NEW c, Send(p, c), DOMAIN c = DOMAIN NoCall,
           NEW k, k = [c EXCEPT !.n = made + 1],
           CallTyped(section, k), k.version = 0, k.stage = "sent", k.base <= version,
           k.op = "save" /\ k.base = version =>
                k.item \in DOMAIN server /\ OnlyEdits(section, server[k.item], k),
           PageTyped(section, p), FormTrue(section, p), p.has = page.has, p.seen = page.seen
    PROVE  PanelsInv'
<1>1. CallsInv' /\ calls \subseteq calls' /\ StateTyped'
    BY SentCalls DEF PanelsInv
<1>2. page' = p /\ UNCHANGED <<section, server, version, missed>>
    BY DEF Send, Asked
<1>3. PageInv'
    BY <1>2, PanelLoaded, PageStays
<1>4. missed' \/ Current'
    BY <1>1, <1>2, CurrentStays DEF PanelsInv
<1> QED BY <1>1, <1>3, <1>4 DEF PanelsInv

\* A call that is not a save.
LEMMA PlainInv ==
    ASSUME PanelsInv, Panel, NEW p, NEW c, Send(p, c), DOMAIN c = DOMAIN NoCall,
           c.op \in {"test", "create", "delete", "mint", "revoke"},
           c.op \in {"create", "delete"} => section = "themes",
           c.op \in {"mint", "revoke"} => section = "tokens",
           c.op = "create" => c.set = NewTheme,
           c.version = 0, c.base = 0, c.stage = "sent",
           PageTyped(section, p), FormTrue(section, p), p.has = page.has, p.seen = page.seen
    PROVE  PanelsInv'
<1>1. PICK k : k = [c EXCEPT !.n = made + 1]
    OBVIOUS
<1>2. made + 1 \in Nat /\ version \in Nat
    BY ManagePanelsAssumption DEF PanelsInv, StateTyped
<1>3. /\ DOMAIN k = DOMAIN NoCall /\ k.n = made + 1 /\ k.op = c.op /\ k.set = c.set
      /\ k.version = 0 /\ k.base = 0 /\ k.stage = "sent"
    BY <1>1, CallFields
<1>4. CallTyped(section, k)
    BY <1>2, <1>3 DEF CallTyped, Ops
<1>5. k.base <= version /\ k.op # "save"
    BY <1>2, <1>3
<1> QED BY <1>1, <1>3, <1>4, <1>5, SendInv

\* A save: what it sends leaves settings settings, and changes what was edited.
LEMMA ChangeInv ==
    ASSUME PanelsInv, Panel, section # "tokens", NEW i \in DOMAIN page.has,
           NEW set, NEW edits, NEW gone, Change(i, set, edits, gone),
           \A d \in Settings(section) : Stored(section, d, set) \in Settings(section),
           \A k : k.set = set /\ k.edits = edits => OnlyEdits(section, page.has[i], k)
    PROVE  PanelsInv'
<1>1. PICK c : c = [NoCall EXCEPT !.op = "save", !.item = i, !.set = set, !.edits = edits, !.gone = gone,
                                  !.base = page.seen]
    OBVIOUS
<1>2. PICK k : k = [c EXCEPT !.n = made + 1]
    OBVIOUS
<1>3. /\ DOMAIN c = DOMAIN NoCall /\ c.op = "save" /\ c.item = i /\ c.set = set /\ c.edits = edits
      /\ c.base = page.seen /\ c.version = 0 /\ c.stage = "sent"
    BY <1>1 DEF NoCall
<1>4. /\ DOMAIN k = DOMAIN NoCall /\ k.n = made + 1 /\ k.op = "save" /\ k.item = i /\ k.set = set
      /\ k.edits = edits /\ k.base = page.seen /\ k.version = 0 /\ k.stage = "sent"
    BY <1>2, <1>3, CallFields
<1>5. /\ Loaded /\ PageTyped(section, page) /\ FormTrue(section, page)
      /\ page.seen \in Nat /\ page.seen <= version /\ made + 1 \in Nat
    BY PanelLoaded, ManagePanelsAssumption DEF PanelsInv, StateTyped
<1>6. i \in Items(section)
    BY <1>5 DEF Loaded, IsStore
<1>7. CallTyped(section, k)
    BY <1>4, <1>5, <1>6 DEF CallTyped, Ops
<1>8. k.base = version => k.item \in DOMAIN server /\ OnlyEdits(section, server[k.item], k)
    BY <1>4, <1>5 DEF Loaded
<1>9. Send(page, c)
    BY <1>1 DEF Change
<1> QED BY <1>2, <1>3, <1>4, <1>5, <1>7, <1>8, <1>9, SendInv

LEMMA SaveInv ==
    ASSUME PanelsInv, Panel, section # "tokens", NEW i \in DOMAIN page.has, Save(i)
    PROVE  PanelsInv'
<1> DEFINE f == page.form[i]
           set == Sent(section, i, f)
<1>1. /\ PageTyped(section, page) /\ FormTrue(section, page) /\ section \in Sections
    BY PanelLoaded
<1>2. i \in DOMAIN page.form /\ f \in Form(section)
    BY <1>1 DEF PageTyped
<1>3. \A d \in Settings(section) : Stored(section, d, set) \in Settings(section)
    BY <1>1, <1>2, SentTyped
<1>4. \A x \in DOMAIN f \ {"cleared"} : <<i, x>> \in page.edited => x \in Edits(i)
    BY <1>1, <1>2, FormFields DEF Edits
<1>5. \A k : k.set = set /\ k.edits = Edits(i) => OnlyEdits(section, page.has[i], k)
    BY <1>1, <1>2, <1>4, SentEdits
<1>6. PICK gone : Change(i, set, Edits(i), gone)
    BY DEF Save
<1> HIDE DEF set, f
<1> QED BY <1>3, <1>5, <1>6, ChangeInv

LEMMA ToggleInv ==
    ASSUME PanelsInv, NEW t, NEW x \in {"is_public", "collaborator", "presentation"}, toggleTheme(t, x)
    PROVE  PanelsInv'
<1>1. Panel /\ section = "themes" /\ t \in DOMAIN page.has
    BY DEF toggleTheme
<1>2. PageTyped(section, page)
    BY <1>1, PanelLoaded
<1> DEFINE d == page.has[t]
<1>3. d \in Settings("themes")
    BY <1>1, <1>2 DEF PageTyped
<1>4. d[x] \in BOOLEAN
    <2>1. d \in ThemeSettings
        BY <1>3, ThemeSection
    <2> QED BY <2>1 DEF ThemeSettings
<1> DEFINE b == ~d[x]
<1>5. b \in BOOLEAN
    BY <1>4
<1> HIDE DEF b
<1>6. \A e \in Settings(section) : Stored(section, e, [y \in {x} |-> b]) \in Settings(section)
    <2> TAKE e \in Settings(section)
    <2> DEFINE c == [set |-> [y \in {x} |-> b], edits |-> {x}]
    <2>1. c.set = [y \in {x} |-> b] /\ c.edits = {x}
        OBVIOUS
    <2> HIDE DEF c
    <2>2. Stored("themes", e, c.set) \in Settings("themes")
        BY <1>1, <1>5, <2>1, ToggleSent
    <2> QED BY <1>1, <2>1, <2>2
<1>7. \A k : k.set = [y \in {x} |-> b] /\ k.edits = {x} => OnlyEdits(section, d, k)
    BY <1>1, <1>3, <1>5, ToggleSent
<1>8. Change(t, [y \in {x} |-> b], {x}, {})
    BY DEF toggleTheme, b
<1> QED BY <1>1, <1>6, <1>7, <1>8, ChangeInv

LEMMA ResetInv ==
    ASSUME PanelsInv, resetLimitSettings
    PROVE  PanelsInv'
<1>1. Panel /\ section = "limits" /\ Change("config", [budget |-> "default"], {"budget"}, {})
    BY DEF resetLimitSettings
<1>2. PageTyped(section, page) /\ Loaded
    BY <1>1, PanelLoaded
<1>3. "config" \in DOMAIN page.has
    BY <1>1, <1>2, LimitSection DEF Loaded, IsStore
<1>4. page.has["config"] \in Settings("limits")
    BY <1>1, <1>2, <1>3 DEF PageTyped
<1>5. \A d \in Settings(section) : Stored(section, d, [budget |-> "default"]) \in Settings(section)
    <2> TAKE d \in Settings(section)
    <2> DEFINE c == [set |-> [budget |-> "default"], edits |-> {"budget"}]
    <2>1. c.set = [budget |-> "default"] /\ c.edits = {"budget"}
        OBVIOUS
    <2> HIDE DEF c
    <2>2. Stored("limits", d, c.set) \in Settings("limits")
        BY <1>1, <2>1, ResetSent
    <2> QED BY <1>1, <2>1, <2>2
<1>6. \A k : k.set = [budget |-> "default"] /\ k.edits = {"budget"} => OnlyEdits(section, page.has["config"], k)
    BY <1>1, <1>4, ResetSent
<1> QED BY <1>1, <1>3, <1>5, <1>6, ChangeInv

LEMMA OtherSends ==
    ASSUME PanelsInv,
           \/ testProviderConnection \/ createThemeFromUI \/ createApiToken
           \/ \E t : deleteThemeFromUI(t)
           \/ \E k \in Tokens : revokeApiToken(k)
    PROVE  PanelsInv'
<1>1. Panel
    BY DEF testProviderConnection, createThemeFromUI, createApiToken, deleteThemeFromUI, revokeApiToken
<1>2. PageTyped(section, page) /\ FormTrue(section, page)
    BY <1>1, PanelLoaded
<1>3. ASSUME testProviderConnection PROVE PanelsInv'
    <2>1. PICK c : c = [NoCall EXCEPT !.op = "test"]
        OBVIOUS
    <2>2. /\ DOMAIN c = DOMAIN NoCall /\ c.op = "test" /\ c.version = 0 /\ c.base = 0 /\ c.stage = "sent"
        BY <2>1 DEF NoCall
    <2>3. PICK p : p = [page EXCEPT !.test = "running"]
        OBVIOUS
    <2>4. /\ DOMAIN page = DOMAIN NewPage /\ page.open \subseteq DOMAIN page.form
          /\ page.fresh \in Tokens \cup {None} /\ page.shown \in {"loading", "panel", "error"}
        BY <1>2 DEF PageTyped
    <2>5. /\ DOMAIN p = DOMAIN page /\ p.has = page.has /\ p.seen = page.seen /\ p.form = page.form
          /\ p.edited = page.edited /\ p.open = page.open /\ p.fresh = page.fresh
          /\ p.shown = page.shown /\ p.test = "running"
        BY <2>3, <2>4, PageFields
    <2>6. PageTyped(section, p) /\ FormTrue(section, p)
        BY <1>2, <2>4, <2>5, PageKept
    <2>7. Send(p, c)
        BY <1>3, <2>1, <2>3 DEF testProviderConnection
    <2> QED BY <1>1, <2>2, <2>5, <2>6, <2>7, PlainInv
<1>4. ASSUME createThemeFromUI PROVE PanelsInv'
    <2>1. PICK c : c = [NoCall EXCEPT !.op = "create", !.set = NewTheme]
        OBVIOUS
    <2>2. /\ DOMAIN c = DOMAIN NoCall /\ c.op = "create" /\ c.set = NewTheme
          /\ c.version = 0 /\ c.base = 0 /\ c.stage = "sent"
        BY <2>1 DEF NoCall
    <2>3. Send(page, c) /\ section = "themes"
        BY <1>4, <2>1 DEF createThemeFromUI
    <2> QED BY <1>1, <1>2, <2>2, <2>3, PlainInv
<1>5. ASSUME NEW t, deleteThemeFromUI(t) PROVE PanelsInv'
    <2>1. PICK c : c = [NoCall EXCEPT !.op = "delete", !.item = t]
        OBVIOUS
    <2>2. /\ DOMAIN c = DOMAIN NoCall /\ c.op = "delete" /\ c.version = 0 /\ c.base = 0 /\ c.stage = "sent"
        BY <2>1 DEF NoCall
    <2>3. Send(page, c) /\ section = "themes"
        BY <1>5, <2>1 DEF deleteThemeFromUI
    <2> QED BY <1>1, <1>2, <2>2, <2>3, PlainInv
<1>6. ASSUME createApiToken PROVE PanelsInv'
    <2>1. PICK c : c = [NoCall EXCEPT !.op = "mint"]
        OBVIOUS
    <2>2. /\ DOMAIN c = DOMAIN NoCall /\ c.op = "mint" /\ c.version = 0 /\ c.base = 0 /\ c.stage = "sent"
        BY <2>1 DEF NoCall
    <2>3. Send(page, c) /\ section = "tokens"
        BY <1>6, <2>1 DEF createApiToken
    <2> QED BY <1>1, <1>2, <2>2, <2>3, PlainInv
<1>7. ASSUME NEW k \in Tokens, revokeApiToken(k) PROVE PanelsInv'
    <2>1. PICK c : c = [NoCall EXCEPT !.op = "revoke", !.item = k]
        OBVIOUS
    <2>2. /\ DOMAIN c = DOMAIN NoCall /\ c.op = "revoke" /\ c.version = 0 /\ c.base = 0 /\ c.stage = "sent"
        BY <2>1 DEF NoCall
    <2>3. Send(page, c) /\ section = "tokens"
        BY <1>7, <2>1 DEF revokeApiToken
    <2> QED BY <1>1, <1>2, <2>2, <2>3, PlainInv
<1> QED BY <1>3, <1>4, <1>5, <1>6, <1>7

LEMMA Saves ==
    ASSUME PanelsInv,
           saveProviderSettings \/ saveLimitSettings \/ \E t : updateThemeFromUI(t)
    PROVE  PanelsInv'
<1>1. Panel
    BY DEF saveProviderSettings, saveLimitSettings, updateThemeFromUI
<1>2. PageTyped(section, page) /\ Loaded
    BY <1>1, PanelLoaded
<1>3. ASSUME saveProviderSettings PROVE PanelsInv'
    <2>1. section = "providers" /\ Save("config")
        BY <1>3 DEF saveProviderSettings
    <2>2. "config" \in DOMAIN page.has
        BY <1>2, <2>1, ProviderSection DEF Loaded, IsStore
    <2> QED BY <1>1, <2>1, <2>2, SaveInv
<1>4. ASSUME saveLimitSettings PROVE PanelsInv'
    <2>1. section = "limits" /\ Save("config")
        BY <1>4 DEF saveLimitSettings
    <2>2. "config" \in DOMAIN page.has
        BY <1>2, <2>1, LimitSection DEF Loaded, IsStore
    <2> QED BY <1>1, <2>1, <2>2, SaveInv
<1>5. ASSUME NEW t, updateThemeFromUI(t) PROVE PanelsInv'
    <2>1. section = "themes" /\ t \in page.open /\ Save(t)
        BY <1>5 DEF updateThemeFromUI
    <2>2. t \in DOMAIN page.has
        BY <1>2, <2>1 DEF PageTyped
    <2> QED BY <1>1, <2>1, <2>2, SaveInv
<1> QED BY <1>3, <1>4, <1>5

(***************************************************************************)
(* The section is opened.                                                  *)
(***************************************************************************)
LEMMA Opened ==
    ASSUME page = NewPage, calls = Get(0), version = 0, missed = FALSE,
           section \in Sections, IsStore(section, server), made \in 0..MaxCalls
    PROVE  PanelsInv
<1>1. made \in Nat /\ 0 <= made
    BY ManagePanelsAssumption
<1>2. PICK g : calls = {g} /\ g \in Get(0)
    BY DEF Get
<1>3. CallTyped(section, g) /\ CallTrue(g) /\ Brings(g) /\ g.op = "get" /\ g.item = None
    BY <1>1, <1>2, GetGood
<1>4. CallsInv
    BY <1>2, <1>3 DEF CallsInv
<1>5. StateTyped
    BY DEF StateTyped
<1>6. PageInv
    BY <1>2, <1>3, NewPageGood DEF PageInv, Unloaded
<1>7. Current
    BY <1>2, <1>3 DEF Current
<1> QED BY <1>4, <1>5, <1>6, <1>7 DEF PanelsInv

LEMMA PanelsInitInv == PanelsInit => PanelsInv
<1> SUFFICES ASSUME PanelsInit PROVE PanelsInv
    OBVIOUS
<1>1. PICK I \in SUBSET Items(section) :
        /\ section \in {"providers", "limits"} => I = Items(section)
        /\ IF section = "themes"
           THEN \E ga \in [I -> {"", "own"}] : server =
                    [i \in I |-> [NewTheme EXCEPT !.ga = ga[i], !.collaborator = (i # Default)]]
           ELSE server \in [I -> {d \in Settings(section) : section = "providers" => d.key # "new"}]
    BY DEF PanelsInit
<1>2. ASSUME NEW v \in {"", "own"}, NEW b \in BOOLEAN
      PROVE  [NewTheme EXCEPT !.ga = v, !.collaborator = b] \in Settings("themes")
    <2>1. [NewTheme EXCEPT !.ga = v, !.collaborator = b] \in ThemeSettings
        BY DEF NewTheme, ThemeSettings
    <2> QED BY <2>1, ThemeSection
<1>3. DOMAIN server = I /\ server \in [I -> Settings(section)]
    <2>1. CASE section = "themes"
        <3>1. PICK ga \in [I -> {"", "own"}] : server =
                    [i \in I |-> [NewTheme EXCEPT !.ga = ga[i], !.collaborator = (i # Default)]]
            BY <1>1, <2>1
        <3>2. \A i \in I : [NewTheme EXCEPT !.ga = ga[i], !.collaborator = (i # Default)] \in Settings("themes")
            BY <1>2
        <3> QED BY <2>1, <3>1, <3>2
    <2>2. CASE section # "themes"
        BY <1>1, <2>2
    <2> QED BY <2>1, <2>2
<1>4. IsStore(section, server)
    BY <1>1, <1>3 DEF IsStore
<1>5. /\ page = NewPage /\ calls = Get(0) /\ version = 0 /\ missed = FALSE
      /\ section \in Sections /\ made = 0
    BY DEF PanelsInit
<1>6. made \in 0..MaxCalls
    BY <1>5, ManagePanelsAssumption
<1> QED BY <1>4, <1>5, <1>6, Opened

LEMMA OpenedAnew ==
    ASSUME PanelsInv, initAdminSection
    PROVE  PanelsInv'
<1>1. /\ page' = NewPage /\ calls' = Get(0) /\ version' = 0 /\ missed' = FALSE
      /\ section' = section /\ server' = server /\ made' = made
    BY DEF initAdminSection
<1>2. section' \in Sections /\ IsStore(section', server') /\ made' \in 0..MaxCalls
    BY <1>1 DEF PanelsInv, StateTyped
<1>3. made' \in Nat /\ 0 <= made' /\ version' \in Nat
    BY <1>1, <1>2, ManagePanelsAssumption
<1>4. PICK g : calls' = {g} /\ g \in Get(0)
    BY <1>1 DEF Get
<1>5. /\ DOMAIN g = DOMAIN NoCall /\ g.n = 0 /\ g.op = "get" /\ g.stage = "sent"
      /\ g.version = 0 /\ g.base = 0 /\ g.item = None
    BY <1>4 DEF Get, NoCall
<1>6. CallTyped(section', g) /\ CallTrue(g)' /\ Brings(g)'
    BY <1>3, <1>5 DEF CallTyped, CallTrue, Brings, Ops
<1>7. CallsInv'
    BY <1>4, <1>6 DEF CallsInv
<1>8. StateTyped'
    BY <1>1, <1>2, <1>3 DEF StateTyped
<1>9. PageInv'
    BY <1>1, <1>4, <1>5, NewPageGood DEF PageInv, Unloaded
<1>10. Current'
    BY <1>4, <1>6 DEF Current
<1> QED BY <1>7, <1>8, <1>9, <1>10 DEF PanelsInv

LEMMA UserInv == PanelsInv /\ User => PanelsInv'
<1> SUFFICES ASSUME PanelsInv, User PROVE PanelsInv'
    OBVIOUS
<1>1. CASE \E i \in DOMAIN page.form : \E x \in DOMAIN page.form[i] : Edit(i, x)
    BY <1>1, EditInv
<1>2. CASE clearApiKeyInput
    BY <1>2, ClearInv
<1>3. CASE initAdminSection
    BY <1>3, OpenedAnew
<1>4. CASE resetLimitSettings
    BY <1>4, ResetInv
<1>5. CASE saveProviderSettings \/ saveLimitSettings \/ \E t : updateThemeFromUI(t)
    BY <1>5, Saves
<1>6. CASE \/ testProviderConnection \/ createThemeFromUI \/ createApiToken
           \/ \E t : deleteThemeFromUI(t)
           \/ \E k \in Tokens : revokeApiToken(k)
    BY <1>6, OtherSends
<1>7. CASE \E t : showThemeEditForm(t)
    BY <1>7, OpenForm
<1>8. CASE \E t : \E x \in {"is_public", "collaborator", "presentation"} : toggleTheme(t, x)
    BY <1>8, ToggleInv
<1> QED BY <1>1, <1>2, <1>3, <1>4, <1>5, <1>6, <1>7, <1>8 DEF User

(***************************************************************************)
(* The server does what it is asked.                                       *)
(***************************************************************************)
LEMMA DoneInv ==
    ASSUME PanelsInv, NEW c \in calls, c.stage = "sent", NEW i, Done(c, i),
           UNCHANGED <<section, page, made, missed>>, IsStore(section, server'),
           IF c.op \in {"get", "test"} THEN UNCHANGED <<server, version>> ELSE version' = version + 1,
           c.op \in {"get", "save"} => i = c.item,
           c.op = "mint" => i \in Tokens
    PROVE  PanelsInv'
<1>1. CallTyped(section, c) /\ CallTrue(c)
    BY DEF PanelsInv, CallsInv
<1>2. /\ version \in Nat /\ made \in Nat /\ version' \in Nat /\ version <= version'
      /\ made' = made /\ section' = section /\ page' = page /\ missed' = missed
      /\ (version' = version /\ server' = server) \/ version' = version + 1
    BY ManagePanelsAssumption DEF PanelsInv, StateTyped
<1>3. PICK e : e = [NoCall EXCEPT !.n = c.n, !.op = c.op, !.live = c.live, !.item = i,
                                  !.stage = "done", !.got = server', !.version = version']
    OBVIOUS
<1>4. calls' = (calls \ {c}) \cup {e}
    BY <1>3 DEF Done
<1>5. /\ DOMAIN e = DOMAIN NoCall /\ e.n = c.n /\ e.op = c.op /\ e.item = i /\ e.stage = "done"
      /\ e.got = server' /\ e.version = version' /\ e.base = 0
    BY <1>3 DEF NoCall
<1>6. CallTyped(section', e)
    BY <1>1, <1>2, <1>5 DEF CallTyped
<1>7. CallTrue(e)'
    BY <1>1, <1>2, <1>5 DEF CallTrue
<1>8. CallsInv'
    <2>1. ASSUME NEW k \in calls PROVE CallTyped(section', k) /\ CallTrue(k)'
        <3>1. CallTyped(section, k) /\ CallTrue(k) /\ Alike(k, k) /\ made <= made' /\ made' \in Nat
            BY <1>2, AlikeItself DEF PanelsInv, CallsInv
        <3> QED BY <1>2, <3>1, CallStays
    <2>2. \A k \in calls : CallTyped(section', k) /\ CallTrue(k)'
        BY <2>1
    <2>3. \A k, l \in calls : k.n = l.n => k = l
        BY DEF PanelsInv, CallsInv
    <2>4. \A k, l \in calls' : k.n = l.n => k = l
        BY <1>4, <1>5, <2>3
    <2> QED BY <1>4, <1>6, <1>7, <2>2, <2>4 DEF CallsInv
<1>9. StateTyped'
    BY <1>2 DEF PanelsInv, StateTyped
<1>10. PageInv'
    <2>1. PageTyped(section, page) /\ FormTrue(section, page) /\ page.seen <= version /\ page.seen \in Nat
        BY DEF PanelsInv, PageInv, PageTyped
    <2>2. PageTyped(section', page') /\ FormTrue(section', page') /\ page'.seen <= version'
        BY <1>2, <2>1
    <2>3. CASE Unloaded
        <3>1. c.op = "get" /\ c.item = None
            BY <2>3 DEF Unloaded
        <3>2. e.op = "get" /\ e.item = None
            BY <1>5, <3>1
        <3>3. Unloaded'
            BY <1>2, <1>4, <2>3, <3>2 DEF Unloaded
        <3> QED BY <2>2, <3>3 DEF PageInv
    <2>4. CASE Loaded
        <3>1. page'.seen = version' => page'.has = server'
            BY <1>2, <2>1, <2>4 DEF Loaded
        <3>2. Loaded'
            BY <1>2, <2>4, <3>1 DEF Loaded
        <3> QED BY <2>2, <3>2 DEF PageInv
    <2> QED BY <2>3, <2>4 DEF PanelsInv, PageInv
<1>11. missed' \/ Current'
    <2>1. CASE c.op # "test"
        <3>1. Brings(e)'
            BY <1>5, <2>1 DEF Brings
        <3> QED BY <1>4, <3>1 DEF Current
    <2>2. CASE c.op = "test"
        <3>1. version' = version /\ server' = server
            BY <2>2
        <3>2. CASE missed
            BY <1>2, <3>2
        <3>3. CASE page.seen = version /\ page.has = server
            BY <1>2, <3>1, <3>3 DEF Current
        <3>4. CASE \E k \in calls : Brings(k)
            <4>1. PICK k \in calls : Brings(k)
                BY <3>4
            <4>2. k # c
                BY <2>2, <4>1 DEF Brings
            <4>3. k \in calls' /\ Brings(k)'
                BY <1>4, <3>1, <4>1, <4>2 DEF Brings
            <4> QED BY <4>3 DEF Current
        <3> QED BY <3>2, <3>3, <3>4 DEF PanelsInv, Current
    <2> QED BY <2>1, <2>2
<1> QED BY <1>8, <1>9, <1>10, <1>11 DEF PanelsInv

LEMMA PanelsServerInv ==
    ASSUME PanelsInv, NEW c \in calls, ServerDoes(c)
    PROVE  PanelsInv'
<1>1. /\ CallTyped(section, c) /\ c.stage = "sent" /\ UNCHANGED <<section, page, made, missed>>
      /\ IsStore(section, server)
    BY DEF ServerDoes, PanelsInv, CallsInv, StateTyped
<1>2. CASE c.op \in {"get", "test"} /\ UNCHANGED <<server, version>> /\ Done(c, c.item)
    BY <1>1, <1>2, DoneInv
<1>3. CASE /\ c.op = "save" /\ c.item \in DOMAIN server
           /\ Writes(c, c.item, [server EXCEPT ![c.item] = Stored(section, @, c.set)])
    <2> DEFINE d == Stored(section, server[c.item], c.set)
    <2>1. server[c.item] \in Settings(section)
        BY <1>1, <1>3 DEF IsStore
    <2>2. d \in Settings(section)
        BY <1>1, <1>3, <2>1 DEF CallTyped
    <2>3. server' = [server EXCEPT ![c.item] = d] /\ version' = version + 1 /\ Done(c, c.item)
        BY <1>3 DEF Writes
    <2> HIDE DEF d
    <2>4. IsStore(section, server')
        BY <1>1, <1>3, <2>2, <2>3, StorePut
    <2> QED BY <1>1, <1>3, <2>3, <2>4, DoneInv
<1>4. CASE c.op = "create" /\ \E t \in Themes \ DOMAIN server : Writes(c, t, With(t, c.set))
    <2>1. PICK t \in Themes : Writes(c, t, With(t, c.set))
        BY <1>4
    <2>2. section = "themes" /\ c.set = NewTheme
        BY <1>1, <1>4 DEF CallTyped
    <2>3. t \in Items(section) /\ c.set \in Settings(section)
        BY <2>2, ThemeSection, NewItems
    <2>4. server' = With(t, c.set) /\ version' = version + 1 /\ Done(c, t)
        BY <2>1 DEF Writes
    <2>5. IsStore(section, server')
        BY <1>1, <2>3, <2>4, StoreWith
    <2> QED BY <1>1, <1>4, <2>4, <2>5, DoneInv
<1>5. CASE /\ c.op = "delete" /\ c.item \in DOMAIN server
           /\ Writes(c, c.item, [i \in DOMAIN server \ {c.item} |-> server[i]])
    <2>1. section = "themes"
        BY <1>1, <1>5 DEF CallTyped
    <2>2. /\ server' = [i \in DOMAIN server \ {c.item} |-> server[i]]
          /\ version' = version + 1 /\ Done(c, c.item)
        BY <1>5 DEF Writes
    <2>3. IsStore(section, server')
        BY <1>1, <2>1, <2>2, StoreWithout
    <2> QED BY <1>1, <1>5, <2>2, <2>3, DoneInv
<1>6. CASE c.op = "mint" /\ \E k \in Tokens \ DOMAIN server : Writes(c, k, With(k, [revoked |-> FALSE]))
    <2>1. PICK k \in Tokens : Writes(c, k, With(k, [revoked |-> FALSE]))
        BY <1>6
    <2>2. section = "tokens"
        BY <1>1, <1>6 DEF CallTyped
    <2>3. k \in Items(section) /\ [revoked |-> FALSE] \in Settings(section)
        BY <2>2, TokenSection, NewItems
    <2>4. server' = With(k, [revoked |-> FALSE]) /\ version' = version + 1 /\ Done(c, k)
        BY <2>1 DEF Writes
    <2>5. IsStore(section, server')
        BY <1>1, <2>3, <2>4, StoreWith
    <2> QED BY <1>1, <1>6, <2>4, <2>5, DoneInv
<1>7. CASE /\ c.op = "revoke" /\ c.item \in DOMAIN server
           /\ Writes(c, c.item, [server EXCEPT ![c.item].revoked = TRUE])
    <2> DEFINE d == [server[c.item] EXCEPT !.revoked = TRUE]
    <2>1. section = "tokens" /\ server[c.item] \in Settings(section)
        BY <1>1, <1>7 DEF CallTyped, IsStore
    <2>2. d \in Settings(section)
        BY <2>1, NewItems
    <2>3. server' = [server EXCEPT ![c.item] = d] /\ version' = version + 1 /\ Done(c, c.item)
        BY <1>7 DEF Writes
    <2> HIDE DEF d
    <2>4. IsStore(section, server')
        BY <1>1, <1>7, <2>2, <2>3, StorePut
    <2> QED BY <1>1, <1>7, <2>3, <2>4, DoneInv
<1> QED BY <1>2, <1>3, <1>4, <1>5, <1>6, <1>7 DEF ServerDoes

(***************************************************************************)
(* The page hears an answer, or that there will be none.                   *)
(***************************************************************************)
LEMMA AnswerCalls ==
    ASSUME PanelsInv, NEW c \in calls, NEW p, NEW more, Answered(c, p, more), missed' \in BOOLEAN,
           more = {} \/ more = Get(c.n) \/ more = {[g EXCEPT !.item = c.item] : g \in Get(c.n)}
    PROVE  /\ StateTyped' /\ CallsInv' /\ page' = p /\ UNCHANGED <<section, server, version, made>>
           /\ more # {} => Current'
           /\ \A k \in calls \ {c} : \E e \in calls' : Alike(k, e)
           /\ \A e \in calls' : e \in more \/ \E k \in calls \ {c} : Alike(k, e)
<1>1. /\ page' = p /\ UNCHANGED <<section, server, version, made>>
      /\ StateTyped /\ CallsInv
    BY DEF Answered, PanelsInv
<1>2. StateTyped'
    BY <1>1 DEF StateTyped, IsStore
<1>3. CallTyped(section, c) /\ CallTrue(c) /\ c.n \in Nat /\ c.n <= made /\ version \in Nat
    BY <1>1 DEF CallsInv, CallTyped, CallTrue, StateTyped
<1>4. \A g \in more : CallTyped(section, g) /\ CallTrue(g) /\ g.n = c.n /\ Brings(g)
    <2> TAKE g \in more
    <2>1. g \in Get(c.n) \/ g \in {[h EXCEPT !.item = c.item] : h \in Get(c.n)}
        OBVIOUS
    <2> QED BY <1>3, <2>1, GetGood
<1>5. \A g, h \in more : g = h
    BY DEF Get
<1>6. /\ CallsInv' /\ more \subseteq calls'
      /\ \A k \in calls \ {c} : \E e \in calls' : Alike(k, e)
      /\ \A e \in calls' : e \in more \/ \E k \in calls \ {c} : Alike(k, e)
    BY <1>1, <1>4, <1>5, AnsweredCalls
<1>7. more # {} => Current'
    <2> SUFFICES ASSUME more # {} PROVE Current'
        OBVIOUS
    <2>1. PICK g \in more : Brings(g)
        BY <1>4
    <2>2. g \in calls' /\ Brings(g)'
        BY <1>1, <1>6, <2>1 DEF Brings
    <2> QED BY <2>2 DEF Current
<1> QED BY <1>1, <1>2, <1>6, <1>7

LEMMA AnswerPage ==
    ASSUME PanelsInv, UNCHANGED <<section, server, version>>,
           PageTyped(section, page'), FormTrue(section, page'), NEW c \in calls,
           \/ Loaded /\ page'.has = page.has /\ page'.seen = page.seen
           \/ c.stage = "done" /\ page'.has = c.got /\ page'.seen = c.version
    PROVE  PageInv'
<1>1. CASE Loaded /\ page'.has = page.has /\ page'.seen = page.seen
    <2>1. page.seen <= version
        BY DEF PanelsInv, PageInv
    <2> QED BY <1>1, <2>1, PageStays
<1>2. CASE c.stage = "done" /\ page'.has = c.got /\ page'.seen = c.version
    <2>1. /\ IsStore(section, c.got) /\ c.version <= version
          /\ c.version = version => c.got = server
        BY <1>2 DEF PanelsInv, CallsInv, CallTyped, CallTrue
    <2>2. Loaded'
        BY <1>2, <2>1 DEF Loaded, IsStore
    <2> QED BY <1>2, <2>1, <2>2 DEF PageInv
<1> QED BY <1>1, <1>2

\* What else is under way stays.
LEMMA StillBrings ==
    ASSUME PanelsInv, NEW c \in calls, NEW k \in calls \ {c}, Brings(k), version' = version,
           \A l \in calls \ {c} : \E e \in calls' : Alike(l, e)
    PROVE  Current'
<1>1. PICK e \in calls' : Alike(k, e)
    OBVIOUS
<1>2. CallTyped(section, k)
    BY DEF PanelsInv, CallsInv
<1>3. e.op = k.op /\ e.stage = k.stage /\ e.version = k.version
    BY <1>1, <1>2, AlikeFields
<1>4. Brings(e)'
    BY <1>3 DEF Brings
<1> QED BY <1>4 DEF Current

LEMMA AnyOther ==
    ASSUME PanelsInv, NEW c \in calls, c.op # "get"
    PROVE  Loaded
BY DEF PanelsInv, PageInv, Unloaded

LEMMA PageNow ==
    ASSUME PanelsInv
    PROVE  /\ PageTyped(section, page) /\ FormTrue(section, page) /\ section \in Sections
           /\ DOMAIN page = DOMAIN NewPage /\ missed \in BOOLEAN
           /\ PageTyped(section, Draw(page)) /\ FormTrue(section, Draw(page))
           /\ Draw(page).has = page.has /\ Draw(page).seen = page.seen
<1>1. PageTyped(section, page) /\ FormTrue(section, page) /\ section \in Sections /\ missed \in BOOLEAN
    BY DEF PanelsInv, PageInv, StateTyped
<1>2. /\ DOMAIN page = DOMAIN NewPage /\ DOMAIN page.has \subseteq Items(section)
      /\ page.has \in [DOMAIN page.has -> Settings(section)]
      /\ page.fresh \in Tokens \cup {None} /\ page.seen \in Nat
    BY <1>1 DEF PageTyped
<1> QED BY <1>1, <1>2, DrawGood

\* The page takes what an answer says.
LEMMA TakeInv ==
    ASSUME PanelsInv, NEW c \in calls, c.stage = "done", Answered(c, Take(page, c), {}), Overtaken(c)
    PROVE  PanelsInv'
<1>1. /\ IsStore(section, c.got) /\ c.version \in Nat /\ c.version <= version /\ version \in Nat
      /\ c.version = version => c.got = server
    BY DEF PanelsInv, CallsInv, CallTyped, CallTrue, StateTyped
<1>2. PICK p : p = Take(page, c)
    OBVIOUS
<1>3. /\ PageTyped(section, p) /\ FormTrue(section, p) /\ p.has = c.got /\ p.seen = c.version
    BY <1>1, <1>2, PageNow, TakeGood
<1>4. missed' \in BOOLEAN /\ Answered(c, p, {})
    BY <1>2 DEF Overtaken
<1>5. /\ StateTyped' /\ CallsInv' /\ page' = p /\ UNCHANGED <<section, server, version, made>>
      /\ \A k \in calls \ {c} : \E e \in calls' : Alike(k, e)
    BY <1>4, AnswerCalls
<1>6. PageInv'
    BY <1>3, <1>5, AnswerPage
<1>7. missed' \/ Current'
    <2>1. CASE missed \/ c.version < page.seen
        BY <2>1 DEF Overtaken
    <2>2. CASE c.version = version
        BY <1>1, <1>3, <1>5, <2>2 DEF Current
    <2>3. CASE ~missed /\ ~(c.version < page.seen) /\ c.version # version
        <3>1. page.seen \in Nat
            BY PageNow DEF PageTyped
        <3>2. page.seen # version
            BY <1>1, <2>3, <3>1
        <3>3. PICK k \in calls : Brings(k)
            BY <2>3, <3>2 DEF PanelsInv, Current
        <3>4. k # c
            BY <2>3, <3>3 DEF Brings
        <3> QED BY <1>5, <3>3, <3>4, StillBrings
    <2> QED BY <2>1, <2>2, <2>3
<1> QED BY <1>5, <1>6, <1>7 DEF PanelsInv

\* The page keeps what it has, and asks for the list.
LEMMA AskInv ==
    ASSUME PanelsInv, NEW c \in calls, c.op # "get", NEW p, NEW more, Answered(c, p, more), missed' = missed,
           more = Get(c.n) \/ more = {[g EXCEPT !.item = c.item] : g \in Get(c.n)},
           PageTyped(section, p), FormTrue(section, p), p.has = page.has, p.seen = page.seen
    PROVE  PanelsInv'
<1>1. more # {}
    BY DEF Get
<1>2. missed' \in BOOLEAN
    BY PageNow
<1>3. /\ StateTyped' /\ CallsInv' /\ page' = p /\ UNCHANGED <<section, server, version, made>>
      /\ Current'
    BY <1>1, <1>2, AnswerCalls
<1>4. PageInv'
    BY <1>3, AnyOther, AnswerPage
<1> QED BY <1>3, <1>4 DEF PanelsInv

\* The page keeps what it has, and does not: if the server did what was asked,
\* the answer is missed.
LEMMA KeepInv ==
    ASSUME PanelsInv, NEW c \in calls, c.op # "get", NEW p, Answered(c, p, {}),
           IF c.op = "test" THEN missed' = missed ELSE Unheard(c),
           PageTyped(section, p), FormTrue(section, p), p.has = page.has, p.seen = page.seen
    PROVE  PanelsInv'
<1>1. missed' \in BOOLEAN
    BY PageNow DEF Unheard
<1>2. /\ StateTyped' /\ CallsInv' /\ page' = p /\ UNCHANGED <<section, server, version, made>>
      /\ \A k \in calls \ {c} : \E e \in calls' : Alike(k, e)
    BY <1>1, AnswerCalls
<1>3. PageInv'
    BY <1>2, AnyOther, AnswerPage
<1>4. missed' \/ Current'
    <2>1. CASE missed \/ (c.op # "test" /\ c.stage = "done")
        BY <2>1 DEF Unheard
    <2>2. CASE page.seen = version /\ page.has = server
        BY <1>2, <2>2 DEF Current
    <2>3. CASE \E k \in calls : Brings(k) /\ ~(c.op # "test" /\ c.stage = "done")
        <3>1. PICK k \in calls : Brings(k)
            BY <2>3
        <3>2. k # c
            BY <2>3, <3>1 DEF Brings
        <3> QED BY <1>2, <3>1, <3>2, StillBrings
    <2> QED BY <2>1, <2>2, <2>3 DEF PanelsInv, Current
<1> QED BY <1>2, <1>3, <1>4 DEF PanelsInv

\* The list cannot be had.
LEMMA GetFailsInv ==
    ASSUME PanelsInv, NEW c \in calls, GetFails(c)
    PROVE  PanelsInv'
<1>1. missed' = TRUE /\ c.op = "get"
    BY DEF GetFails
<1>2. PICK p : /\ p = IF c.item = None THEN [page EXCEPT !.shown = "error"] ELSE Draw(page)
               /\ Answered(c, p, {})
    BY DEF GetFails
<1>3. /\ StateTyped' /\ CallsInv' /\ page' = p /\ UNCHANGED <<section, server, version, made>>
      /\ \A e \in calls' : \E k \in calls \ {c} : Alike(k, e)
    BY <1>1, <1>2, AnswerCalls
<1>4. PageInv'
    <2>1. CASE Unloaded
        <3>1. c.item = None
            BY <2>1 DEF Unloaded
        <3>2. p = [NewPage EXCEPT !.shown = "error"]
            <4>1. p = [page EXCEPT !.shown = "error"]
                BY <1>2, <3>1
            <4> QED BY <2>1, <4>1 DEF Unloaded, NewPage
        <3>3. \A e \in calls' : e.op = "get" /\ e.item = None
            <4> TAKE e \in calls'
            <4>1. PICK k \in calls : Alike(k, e)
                BY <1>3
            <4>2. CallTyped(section, k)
                BY DEF PanelsInv, CallsInv
            <4> QED BY <2>1, <4>1, <4>2, AlikeFields DEF Unloaded
        <3>4. Unloaded'
            BY <1>3, <3>2, <3>3 DEF Unloaded
        <3>5. PageTyped(section', page') /\ FormTrue(section', page') /\ page'.seen = 0
            BY <1>3, <3>2, NewPageGood
        <3>6. version' \in Nat
            BY <1>3 DEF StateTyped
        <3> QED BY <3>4, <3>5, <3>6 DEF PageInv
    <2>2. CASE Loaded
        <3>1. PageTyped(section, p) /\ FormTrue(section, p) /\ p.has = page.has /\ p.seen = page.seen
            <4>1. CASE c.item = None
                <5>1. p = [page EXCEPT !.shown = "error"]
                    BY <1>2, <4>1
                <5>2. /\ page.open \subseteq DOMAIN page.form /\ page.fresh \in Tokens \cup {None}
                      /\ page.test \in {"none", "running", "answered"}
                    BY PageNow DEF PageTyped
                <5>3. /\ DOMAIN p = DOMAIN page /\ p.has = page.has /\ p.seen = page.seen
                      /\ p.form = page.form /\ p.edited = page.edited /\ p.open = page.open
                      /\ p.fresh = page.fresh /\ p.shown = "error" /\ p.test = page.test
                    BY <5>1, PageNow, PageFields
                <5> QED BY <5>2, <5>3, PageNow, PageKept
            <4>2. CASE c.item # None
                BY <1>2, <4>2, PageNow
            <4> QED BY <4>1, <4>2
        <3> QED BY <1>3, <2>2, <3>1, AnswerPage
    <2> QED BY <2>1, <2>2 DEF PanelsInv, PageInv
<1> QED BY <1>1, <1>3, <1>4 DEF PanelsInv

LEMMA AnswersInv ==
    ASSUME PanelsInv, NEW c \in calls, Answers(c)
    PROVE  PanelsInv'
<1>1. CASE GetFails(c)
    BY <1>1, GetFailsInv
<1>2. CASE GetAnswered(c) \/ SettingsAnswered(c)
    BY <1>2, TakeInv DEF GetAnswered, SettingsAnswered
<1>3. CASE SettingsFail(c) \/ TokenFails(c)
    <2>1. c.op \in {"save", "mint", "revoke"} /\ Answered(c, Draw(page), {}) /\ Unheard(c)
        BY <1>3 DEF SettingsFail, TokenFails
    <2> QED BY <2>1, PageNow, KeepInv
<1>4. CASE ThemeFails(c)
    <2>1. c.op \in {"save", "create", "delete"} /\ Answered(c, page, {}) /\ Unheard(c)
        BY <1>4 DEF ThemeFails
    <2> QED BY <2>1, PageNow, KeepInv
<1>5. CASE ThemeAnswered(c)
    <2>1. c.op # "get" /\ Answered(c, Loading(page), Get(c.n)) /\ missed' = missed
        BY <1>5 DEF ThemeAnswered
    <2> QED BY <2>1, PageNow, LoadingGood, AskInv
<1>6. CASE MintAnswered(c)
    <2>1. /\ c.op # "get" /\ missed' = missed /\ c.item \in Tokens
          /\ Answered(c, Loading([page EXCEPT !.fresh = c.item]), Get(c.n))
        BY <1>6 DEF MintAnswered, PanelsInv, CallsInv, CallTyped
    <2>2. PICK p : p = [page EXCEPT !.fresh = c.item]
        OBVIOUS
    <2>3. /\ page.open \subseteq DOMAIN page.form /\ page.shown \in {"loading", "panel", "error"}
          /\ page.test \in {"none", "running", "answered"}
        BY PageNow DEF PageTyped
    <2>4. /\ DOMAIN p = DOMAIN page /\ p.has = page.has /\ p.seen = page.seen
          /\ p.form = page.form /\ p.edited = page.edited /\ p.open = page.open
          /\ p.fresh = c.item /\ p.shown = page.shown /\ p.test = page.test
        BY <2>2, PageNow, PageFields
    <2>5. PageTyped(section, p) /\ FormTrue(section, p)
        BY <2>1, <2>3, <2>4, PageNow, PageKept
    <2>6. /\ PageTyped(section, Loading(p)) /\ FormTrue(section, Loading(p))
          /\ Loading(p).has = page.has /\ Loading(p).seen = page.seen
        BY <2>4, <2>5, LoadingGood
    <2>7. Answered(c, Loading(p), Get(c.n))
        BY <2>1, <2>2
    <2> QED BY <2>1, <2>6, <2>7, AskInv
<1>7. CASE RevokeAnswered(c)
    <2>1. /\ c.op # "get" /\ missed' = missed
          /\ Answered(c, Loading(page), {[g EXCEPT !.item = c.item] : g \in Get(c.n)})
        BY <1>7 DEF RevokeAnswered
    <2> QED BY <2>1, PageNow, LoadingGood, AskInv
<1>8. CASE TestAnswered(c)
    <2>1. PICK p : p = IF c.live THEN [page EXCEPT !.test = "answered"] ELSE page
        OBVIOUS
    <2>2. c.op = "test" /\ Answered(c, p, {}) /\ missed' = missed
        BY <1>8, <2>1 DEF TestAnswered
    <2>3. PageTyped(section, p) /\ FormTrue(section, p) /\ p.has = page.has /\ p.seen = page.seen
        <3>1. CASE p = page
            BY <3>1, PageNow
        <3>2. CASE p = [page EXCEPT !.test = "answered"]
            <4>1. /\ page.open \subseteq DOMAIN page.form /\ page.shown \in {"loading", "panel", "error"}
                  /\ page.fresh \in Tokens \cup {None}
                BY PageNow DEF PageTyped
            <4>2. /\ DOMAIN p = DOMAIN page /\ p.has = page.has /\ p.seen = page.seen
                  /\ p.form = page.form /\ p.edited = page.edited /\ p.open = page.open
                  /\ p.fresh = page.fresh /\ p.shown = page.shown /\ p.test = "answered"
                BY <3>2, PageNow, PageFields
            <4> QED BY <4>1, <4>2, PageNow, PageKept
        <3> QED BY <2>1, <3>1, <3>2
    <2> QED BY <2>2, <2>3, KeepInv
<1> QED BY <1>1, <1>2, <1>3, <1>4, <1>5, <1>6, <1>7, <1>8 DEF Answers

(***************************************************************************)
(* The invariant holds of every behaviour.                                 *)
(***************************************************************************)
LEMMA StutterInv == PanelsInv /\ UNCHANGED panelVars => PanelsInv'
BY DEF panelVars, PanelsInv, StateTyped, CallsInv, CallTyped, CallTrue, PageInv, PageTyped, FormTrue,
       Unloaded, Loaded, Current, Brings, IsStore, OnlyEdits

LEMMA PanelsInvHolds == PanelsSpec => []PanelsInv
<1>1. PanelsInv /\ [PanelsNext]_panelVars => PanelsInv'
    BY UserInv, PanelsServerInv, AnswersInv, StutterInv DEF PanelsNext
<1> QED BY <1>1, PanelsInitInv, PTL DEF PanelsSpec

\* No two calls have one number, so there are no more of them than numbers.
LEMMA CallsBounded == StateTyped /\ CallsInv => IsFiniteSet(calls) /\ Cardinality(calls) <= MaxCalls + 1
<1> SUFFICES ASSUME StateTyped, CallsInv
             PROVE  IsFiniteSet(calls) /\ Cardinality(calls) <= MaxCalls + 1
    OBVIOUS
<1>1. MaxCalls \in Nat
    BY ManagePanelsAssumption
<1>2. \A c \in calls : c.n \in 0..MaxCalls
    BY <1>1 DEF StateTyped, CallsInv, CallTyped, CallTrue
<1> DEFINE N == {c.n : c \in calls}
           CallOf == [n \in N |-> CHOOSE c \in calls : c.n = n]
<1>3. IsFiniteSet(0..MaxCalls) /\ Cardinality(0..MaxCalls) = MaxCalls + 1
    BY <1>1, FS_Interval
<1>4. N \subseteq 0..MaxCalls
    BY <1>2
<1>5. IsFiniteSet(N) /\ Cardinality(N) <= MaxCalls + 1
    BY <1>3, <1>4, FS_Subset
<1>6. CallOf \in Surjection(N, calls)
    <2>1. \A c \in calls : CallOf[c.n] = c
        BY DEF CallsInv
    <2>2. CallOf \in [N -> calls]
        OBVIOUS
    <2>3. \A c \in calls : \E n \in N : CallOf[n] = c
        BY <2>1
    <2> HIDE DEF CallOf, N
    <2> QED BY <2>2, <2>3 DEF Surjection
<1> HIDE DEF N, CallOf
<1>7. IsFiniteSet(calls) /\ Cardinality(calls) <= Cardinality(N)
    BY <1>5, <1>6, FS_Surjection
<1>8. Cardinality(calls) \in Nat /\ Cardinality(N) \in Nat
    BY <1>5, <1>7, FS_CardinalityType
<1> QED BY <1>1, <1>5, <1>7, <1>8

(***************************************************************************)
(* The theorems.                                                           *)
(***************************************************************************)
\* The page, its forms and the calls have the types the page's functions rely on,
\* whatever is answered, lost or overtaken.
THEOREM PanelsTyped == PanelsSpec => []PanelsTypeOK
<1>1. PanelsInv => PanelsTypeOK
    <2> SUFFICES ASSUME PanelsInv PROVE PanelsTypeOK
        OBVIOUS
    <2>1. StateTyped /\ CallsInv /\ PageTyped(section, page) /\ page.seen <= version
        BY DEF PanelsInv, PageInv
    <2>2. Cardinality(calls) <= MaxCalls + 1
        BY <2>1, CallsBounded
    <2>3. page.seen \in 0..version
        BY <2>1 DEF StateTyped, PageTyped
    <2> QED BY <2>1, <2>2, <2>3 DEF PanelsTypeOK, StateTyped, IsStore, PageTyped
<1> QED BY <1>1, PanelsInvHolds, PTL

\* When nothing is under way, the panel shows what the server has, whatever was
\* saved at the same time, unless an answer was lost or overtaken.
THEOREM PanelAtRest == PanelsSpec => []PanelIsServer
<1>1. PanelsInv => PanelIsServer
    BY DEF PanelsInv, Current, PanelIsServer
<1> QED BY <1>1, PanelsInvHolds, PTL

\* If nothing was written since its panel was drawn, a save changes only what
\* was edited in its form: what is sent of the rest is what was drawn, and what
\* was drawn is what the server has (save...Settings, updateThemeFromUI,
\* toggleTheme...).
THEOREM SavesChangeOnlyEdits == PanelsSpec => SaveChangesOnlyEdits
<1> DEFINE Step == \A c \in calls : c.op = "save" /\ c.stage = "sent" /\ c.base = version
                                    /\ version' # version /\ c \notin calls' =>
                        \A i \in DOMAIN server : \A x \in DOMAIN server[i] :
                            \/ server'[i][x] = server[i][x]
                            \/ i = c.item /\ (x \in c.edits \/ DrawnAsDefault(x, server[i]))
<1>1. PanelsInv /\ [PanelsNext]_panelVars => [Step]_panelVars
    <2> SUFFICES ASSUME PanelsInv, PanelsNext, NEW c \in calls, c.op = "save", c.stage = "sent",
                        c.base = version, version' # version, c \notin calls',
                        NEW i \in DOMAIN server, NEW x \in DOMAIN server[i]
                 PROVE  \/ server'[i][x] = server[i][x]
                        \/ i = c.item /\ (x \in c.edits \/ DrawnAsDefault(x, server[i]))
        OBVIOUS
    <2>1. ~User
        <3>1. User => version' = version \/ calls = {}
            BY DEF User, Edit, clearApiKeyInput, testProviderConnection, initAdminSection,
                   saveProviderSettings, saveLimitSettings, resetLimitSettings, createThemeFromUI,
                   createApiToken, showThemeEditForm, updateThemeFromUI, deleteThemeFromUI, toggleTheme,
                   revokeApiToken, Save, Change, Send, Idle, Asked
        <3> QED BY <3>1
    <2>2. ASSUME NEW k \in calls, Answers(k) PROVE FALSE
        <3>1. version' = version
            BY <2>2 DEF Answers, GetFails, GetAnswered, SettingsAnswered, SettingsFail, ThemeAnswered,
                        ThemeFails, MintAnswered, RevokeAnswered, TokenFails, TestAnswered, Answered
        <3> QED BY <3>1
    <2>3. PICK k \in calls : ServerDoes(k)
        BY <2>1, <2>2 DEF PanelsNext
    <2>4. calls \ {k} \subseteq calls'
        BY <2>3 DEF ServerDoes, Writes, Done
    <2>5. c = k
        BY <2>4
    <2>6. server' = [server EXCEPT ![c.item] = Stored(section, @, c.set)]
        BY <2>3, <2>5 DEF ServerDoes, Writes
    <2>7. c.item \in DOMAIN server /\ OnlyEdits(section, server[c.item], c)
        BY DEF PanelsInv, CallsInv, CallTrue
    <2>8. CASE i = c.item
        BY <2>6, <2>7, <2>8 DEF OnlyEdits
    <2>9. CASE i # c.item
        BY <2>6, <2>9
    <2> QED BY <2>8, <2>9
<1>2. []PanelsInv /\ [][PanelsNext]_panelVars => [][Step]_panelVars
    BY <1>1, PTL
<1> QED BY <1>2, PanelsInvHolds, PTL DEF PanelsSpec, SaveChangesOnlyEdits
===============================================================================
