------------------------------ MODULE IngestDesk ------------------------------
(***************************************************************************)
(* One browser tab of the web client while documents are being ingested:   *)
(* the three streamed requests (ingest, re-ingest, regenerate), the        *)
(* /stats polling that notices jobs of this and of other clients, the      *)
(* suspension of the graph, the cockpit ("matrix" view) and the loads of   *)
(* the graph itself.  JavaScript runs one callback at a time, so every     *)
(* action below is one callback: a click, a timer, or the continuation of  *)
(* a fetch.  Whatever the page reads before an await and uses after it is  *)
(* kept in the request.                                                    *)
(*                                                                         *)
(* The server is reduced to what /stats tells of it: which jobs are        *)
(* active.  Whether the counters of an answer differ from the last ones,   *)
(* and whether a job completed in the last 30 seconds is still listed and  *)
(* is the one the cockpit shows, is left open.  Requests that are equal in *)
(* every respect count as one.                                             *)
(***************************************************************************)
EXTENDS Integers, FiniteSets

CONSTANTS
    Jobs,       \* the jobs /stats may report
    OwnJob,     \* the job this tab's own stream starts
    AwayJobs,   \* the jobs that run in another knowledge theme
    LoadsFail,  \* whether a /graph request may fail
    MaxReqs,    \* bound: /stats requests in flight
    MaxLoads    \* bound: /graph requests in flight

ASSUME DeskAssumption ==
    /\ OwnJob \in Jobs /\ AwayJobs \subseteq Jobs \ {OwnJob} /\ LoadsFail \in BOOLEAN
    /\ MaxReqs \in Nat \ {0} /\ MaxLoads \in Nat \ {0}

Views == {"graph", "reader", "matrix"}
Kinds == {"ingest", "reingest", "regen"}
NoStream == [kind |-> "none", st |-> "none"]

VARIABLES
    jobs,     \* server: the active jobs
    scope,    \* AUTH_SCOPE: "owner" or "expired"
    stream,   \* the streamed request of this tab, or NoStream
    running,  \* activeIngest.running, and its one-second timer
    graph,    \* graphSuspended, graphInitialized, loads
    center,   \* centerView
    poll,     \* pollTimer, trackingIngest (with isFastPolling), whether
              \* lastStatsSig is known
    reqs,     \* /stats requests in flight
    spin      \* the spinner of the cockpit turns

vars == <<jobs, scope, stream, running, graph, center, poll, reqs, spin>>

(***************************************************************************)
(* Types                                                                   *)
(***************************************************************************)
Request  == [kind: {"poll", "boot", "home"}, answered: BOOLEAN, jobs: SUBSET Jobs]
Load     == {"init", "refresh", "reload"}
Graph    == [suspended: BOOLEAN, ready: BOOLEAN, loads: SUBSET Load]
Poll     == [timer: BOOLEAN, tracking: BOOLEAN, known: BOOLEAN]
Stream   == [kind: Kinds, st: {"sent", "open", "ended"}]

TypeOK ==
    /\ jobs \subseteq Jobs
    /\ scope \in {"owner", "expired"}
    /\ stream \in Stream \cup {NoStream}
    /\ running \in BOOLEAN
    /\ graph \in Graph
    /\ center \in Views
    /\ poll \in Poll
    /\ reqs \in SUBSET Request
    /\ spin \in BOOLEAN

(***************************************************************************)
(* What the handlers are built from                                        *)
(***************************************************************************)
Busy(r) == r.jobs # {}

\* Asking for /graph.
AddLoad(g, k) == [g EXCEPT !.loads = @ \cup {k}]

\* initGraph: graphInitialized is set by the answer, not by the request.
initGraph(g) == IF g.ready THEN g ELSE AddLoad(g, "init")

refreshGraph(g) == IF g.suspended THEN g ELSE AddLoad(g, "refresh")

suspendGraphForIngest(g) == [g EXCEPT !.suspended = TRUE]

resumeGraphAfterIngest(g) ==
    LET back == [g EXCEPT !.suspended = FALSE] IN
    IF ~g.suspended THEN g
    ELSE IF ~g.ready THEN initGraph(back)
    ELSE refreshGraph(back)

\* setCenterView: going to the graph ends its suspension.
setCenterView(v) ==
    /\ center' = v
    /\ graph' = IF v = "graph" THEN resumeGraphAfterIngest(graph) ELSE graph

startFastIngestPolling(p) == [p EXCEPT !.tracking = TRUE, !.timer = TRUE]
stopFastIngestPolling(p) == [p EXCEPT !.tracking = FALSE, !.timer = TRUE]
scheduleNextPoll(p) == [p EXCEPT !.timer = TRUE]

\* renderMultiSlotUI and updateCenterJobView: the cockpit turns with the job
\* it shows, an active one or one just completed, and is left alone when no
\* job is listed.
renderMultiSlotUI(r) == IF Busy(r) THEN BOOLEAN ELSE {spin, FALSE}

\* resolveHomeView: a job of the shown theme takes the page to the cockpit.
resolveHomeView(r) ==
    IF ~Busy(r) THEN "graph"
    ELSE IF r.jobs \ AwayJobs # {} THEN "job"
    ELSE "graph+banner"

AddReq(k) == reqs \cup {[kind |-> k, answered |-> FALSE, jobs |-> {}]}

\* The page has asked for /stats once, and the first poll is 25 seconds away.
Init ==
    /\ jobs \in SUBSET (Jobs \ {OwnJob})
    /\ scope = "owner"
    /\ stream = NoStream
    /\ running = FALSE
    /\ graph = [suspended |-> FALSE, ready |-> FALSE, loads |-> {}]
    /\ center = "graph"
    /\ poll = [timer |-> TRUE, tracking |-> FALSE, known |-> FALSE]
    /\ reqs = {[kind |-> "boot", answered |-> FALSE, jobs |-> {}]}
    /\ spin = FALSE

(***************************************************************************)
(* The server                                                              *)
(***************************************************************************)
\* A job of another client, or of the command line, begins.
OtherJobStarts(j) ==
    /\ j # OwnJob /\ j \notin jobs
    /\ jobs' = jobs \cup {j}
    /\ UNCHANGED <<scope, stream, running, graph, center, poll, reqs, spin>>

\* A job ends, and with it the stream of this tab if it is the tab's own.
JobEnds(j) ==
    /\ j \in jobs
    /\ jobs' = jobs \ {j}
    /\ stream' = IF j = OwnJob /\ stream # NoStream /\ stream.st = "open"
                 THEN [stream EXCEPT !.st = "ended"] ELSE stream
    /\ UNCHANGED <<scope, running, graph, center, poll, reqs, spin>>

StatsAnswered(r) ==
    /\ ~r.answered
    /\ reqs' = (reqs \ {r}) \cup {[r EXCEPT !.answered = TRUE, !.jobs = jobs]}
    /\ UNCHANGED <<jobs, scope, stream, running, graph, center, poll, spin>>

\* The request of the tab reaches the server, which starts its job.
OwnJobStarts ==
    /\ stream # NoStream /\ stream.st = "sent" /\ OwnJob \notin jobs
    /\ jobs' = jobs \cup {OwnJob}
    /\ stream' = [stream EXCEPT !.st = "open"]
    /\ UNCHANGED <<scope, running, graph, center, poll, reqs, spin>>

(***************************************************************************)
(* The streamed requests                                                   *)
(***************************************************************************)
\* The cockpit opens, and its spinner turns until a result fills it.
initIngestMatrixView == center' = "matrix" /\ spin' = TRUE
completeIngestMatrixView(result) == spin' = (spin /\ result = "none")

\* runIngest, runReingest and runRegen up to their first await.  Only the
\* first two take the page to the cockpit.
Run(kind) ==
    /\ scope = "owner" /\ ~running
    /\ running' = TRUE
    /\ stream' = [kind |-> kind, st |-> "sent"]
    /\ graph' = suspendGraphForIngest(graph)
    /\ IF kind = "regen" THEN UNCHANGED <<center, spin>>
       ELSE initIngestMatrixView
    /\ UNCHANGED <<jobs, scope, poll, reqs>>

StopRunning ==
    /\ stream' = NoStream
    /\ running' = FALSE
    /\ UNCHANGED <<jobs, center, poll, reqs>>

\* Mutant: a page that keeps its running flag.
StreamRejected_StillRunning ==
    /\ stream # NoStream /\ stream.st = "sent"
    /\ stream' = NoStream
    /\ graph' = IF stream.kind = "regen" THEN resumeGraphAfterIngest(graph) ELSE graph
    /\ UNCHANGED <<jobs, scope, running, center, poll, reqs, spin>>

StreamBreaks_NoResume ==
    /\ stream # NoStream
    /\ StopRunning /\ UNCHANGED <<scope, graph, spin>>

\* 401 or 404: the session is over.  Only runRegen gives the graph back.
StreamRefused ==
    /\ stream # NoStream /\ stream.st = "sent"
    /\ scope' = "expired"
    /\ graph' = IF stream.kind = "regen" THEN resumeGraphAfterIngest(graph) ELSE graph
    /\ StopRunning /\ UNCHANGED spin

\* Any other refusal.  runRegen throws, the others return.
StreamRejected ==
    /\ stream # NoStream /\ stream.st = "sent"
    /\ graph' = IF stream.kind = "regen" THEN resumeGraphAfterIngest(graph) ELSE graph
    /\ StopRunning /\ UNCHANGED <<scope, spin>>

\* The connection breaks before the end of the stream; the job goes on.
StreamBreaks ==
    /\ stream # NoStream
    /\ graph' = IF stream.kind = "ingest" THEN graph ELSE resumeGraphAfterIngest(graph)
    /\ StopRunning /\ UNCHANGED <<scope, spin>>

\* runIngest: the result fills the cockpit and asks for the graph again,
\* which a suspended graph ignores.
IngestEnds(result) ==
    /\ stream # NoStream /\ stream.kind = "ingest" /\ stream.st = "ended"
    /\ completeIngestMatrixView(result)
    /\ graph' = IF result = "stored" THEN refreshGraph(graph) ELSE graph
    /\ StopRunning /\ UNCHANGED scope

\* runReingest resumes the graph, which asks for it, and asks again.
ReingestEnds(result) ==
    /\ stream # NoStream /\ stream.kind = "reingest" /\ stream.st = "ended"
    /\ graph' = IF result = "stored" THEN refreshGraph(resumeGraphAfterIngest(graph))
                ELSE resumeGraphAfterIngest(graph)
    /\ StopRunning /\ UNCHANGED <<scope, spin>>

\* runRegen resumes the graph and then loads all of it anew.
RegenEnds(result) ==
    /\ stream # NoStream /\ stream.kind = "regen" /\ stream.st = "ended"
    /\ graph' = IF result = "stored" THEN AddLoad(resumeGraphAfterIngest(graph), "reload")
                ELSE resumeGraphAfterIngest(graph)
    /\ StopRunning /\ UNCHANGED <<scope, spin>>

Results == {"none", "error", "stored"}
StreamEnds == \E result \in Results :
    IngestEnds(result) \/ ReingestEnds(result) \/ RegenEnds(result)

(***************************************************************************)
(* Polling                                                                 *)
(***************************************************************************)
Polls == {r \in reqs : r.kind = "poll"}

PollTimerFires ==
    /\ poll.timer /\ Cardinality(reqs) <= MaxReqs
    /\ poll' = [poll EXCEPT !.timer = FALSE]
    /\ reqs' = AddReq("poll")
    /\ UNCHANGED <<jobs, scope, stream, running, graph, center, spin>>

\* visibilitychange polls at once and leaves the timer alone.
VisibilityChange ==
    /\ Cardinality(reqs) < MaxReqs
    /\ reqs' = AddReq("poll")
    /\ UNCHANGED <<jobs, scope, stream, running, graph, center, poll, spin>>

\* Mutant: the failure path forgets the timer.
PollFails_Silent(r) ==
    /\ r.kind = "poll"
    /\ reqs' = reqs \ {r}
    /\ UNCHANGED <<jobs, scope, stream, running, graph, center, poll, spin>>

\* !r.ok and the exception: the next poll is scheduled, nothing else.
PollFails(r) ==
    /\ r.kind = "poll"
    /\ reqs' = reqs \ {r}
    /\ poll' = scheduleNextPoll(poll)
    /\ UNCHANGED <<jobs, scope, stream, running, graph, center, spin>>

\* Jobs run: a page that was not tracking them goes to the cockpit.
PollFindsJobs(r) ==
    /\ r.kind = "poll" /\ r.answered /\ Busy(r)
    /\ IF poll.tracking THEN UNCHANGED <<graph, center>> /\ poll' = scheduleNextPoll(poll)
       ELSE /\ graph' = suspendGraphForIngest(graph) /\ center' = "matrix"
            /\ poll' = startFastIngestPolling(poll)
    /\ spin' \in renderMultiSlotUI(r)
    /\ reqs' = reqs \ {r}
    /\ UNCHANGED <<jobs, scope, stream, running>>

\* The jobs this page followed are over.  The counters are taken for known
\* without a look at the graph.
PollFindsEnd(r) ==
    /\ r.kind = "poll" /\ r.answered /\ ~Busy(r) /\ poll.tracking
    /\ poll' = [stopFastIngestPolling(poll) EXCEPT !.known = TRUE]
    /\ spin' \in renderMultiSlotUI(r)
    /\ reqs' = reqs \ {r}
    /\ UNCHANGED <<jobs, scope, stream, running, graph, center>>

\* Mutant: it goes on turning.
SettleCockpit_Never == spin' = spin

\* A cockpit that still turns although nothing runs is put right.
SettleCockpit == spin' = (spin /\ center # "matrix")

PollFindsIdle(r) ==
    /\ r.kind = "poll" /\ r.answered /\ ~Busy(r) /\ ~poll.tracking
    /\ SettleCockpit
    /\ poll' = [scheduleNextPoll(poll) EXCEPT !.known = TRUE]
    /\ graph' \in {graph} \cup IF poll.known THEN {refreshGraph(graph)} ELSE {}
    /\ reqs' = reqs \ {r}
    /\ UNCHANGED <<jobs, scope, stream, running, center>>

PollSucceeds(r) == PollFindsJobs(r) \/ PollFindsEnd(r) \/ PollFindsIdle(r)

(***************************************************************************)
(* Entering the page, the home button and the views                        *)
(***************************************************************************)
\* The boot answer and the answer enterHome waited for: a job of the shown
\* theme takes the page to the cockpit, otherwise the graph is wanted.
FollowJobs(r) ==
    /\ graph' = suspendGraphForIngest(graph) /\ center' = "matrix"
    /\ spin' \in renderMultiSlotUI(r)
    /\ poll' = startFastIngestPolling(poll)

BootAnswered(r) ==
    /\ r.kind = "boot"
    /\ IF resolveHomeView(r) = "job" THEN FollowJobs(r)
       ELSE graph' = initGraph(graph) /\ UNCHANGED <<center, poll, spin>>
    /\ reqs' = reqs \ {r}
    /\ UNCHANGED <<jobs, scope, stream, running>>

EnterHome ==
    /\ Cardinality(reqs) < MaxReqs
    /\ reqs' = AddReq("home")
    /\ UNCHANGED <<jobs, scope, stream, running, graph, center, poll, spin>>

HomeAnswered(r) ==
    /\ r.kind = "home"
    /\ IF resolveHomeView(r) = "job" THEN FollowJobs(r)
       ELSE /\ center' = "graph" /\ graph' = initGraph(resumeGraphAfterIngest(graph))
            /\ UNCHANGED <<poll, spin>>
    /\ reqs' = reqs \ {r}
    /\ UNCHANGED <<jobs, scope, stream, running>>

SetCenter(v) ==
    /\ setCenterView(v)
    /\ UNCHANGED <<jobs, scope, stream, running, poll, reqs, spin>>

\* closeMatrixView: on to the document of the job, or to the graph.
CloseMatrix(v) ==
    /\ center = "matrix" /\ v # "matrix"
    /\ center' = v /\ graph' = resumeGraphAfterIngest(graph)
    /\ UNCHANGED <<jobs, scope, stream, running, poll, reqs, spin>>

\* A /graph answer.  The first one builds the network, even when the graph
\* was suspended meanwhile; a refresh adds to what is shown, a reload replaces
\* it.
LoadAnswered(l) ==
    /\ graph' = [graph EXCEPT !.loads = @ \ {l}, !.ready = @ \/ l = "init"]
    /\ UNCHANGED <<jobs, scope, stream, running, center, poll, reqs, spin>>

LoadFails(l) ==
    /\ LoadsFail
    /\ graph' = [graph EXCEPT !.loads = @ \ {l}]
    /\ UNCHANGED <<jobs, scope, stream, running, center, poll, reqs, spin>>

ServerStep ==
    \/ \E j \in Jobs : OtherJobStarts(j) \/ JobEnds(j)
    \/ \E r \in reqs : StatsAnswered(r)
    \/ OwnJobStarts

StreamStep ==
    \/ \E kind \in Kinds : Run(kind)
    \/ StreamRefused \/ StreamRejected \/ StreamBreaks \/ StreamEnds

PollStep ==
    \/ PollTimerFires \/ VisibilityChange
    \/ \E r \in reqs : PollFails(r) \/ PollSucceeds(r)

ViewStep ==
    \/ EnterHome
    \/ \E r \in reqs : BootAnswered(r) \/ HomeAnswered(r)
    \/ \E v \in Views : SetCenter(v) \/ CloseMatrix(v)
    \/ \E l \in graph.loads : LoadFails(l) \/ LoadAnswered(l)

\* Bound: no step begins more /graph requests than MaxLoads.
Next == (ServerStep \/ StreamStep \/ PollStep \/ ViewStep)
        /\ Cardinality(graph'.loads) <= MaxLoads

\* The browser fires its timers, and a page that keeps asking gets an
\* answer from time to time.
Fairness ==
    /\ WF_vars(PollTimerFires)
    /\ SF_vars(\E r \in Polls : StatsAnswered(r))
    /\ SF_vars(\E r \in reqs : PollSucceeds(r))

Spec == Init /\ [][Next]_vars
FairSpec == Spec /\ Fairness

(***************************************************************************)
(* Properties                                                              *)
(***************************************************************************)
\* The page never stops asking for /stats: the next poll is scheduled or one
\* is under way, whatever answers or fails (pollForUpdates).
PollingSurvives == poll.timer \/ Polls # {}

\* activeIngest.running (and its one-second timer) lives exactly as long as the
\* stream: none of the five ways a stream ends leaves the page refusing new
\* jobs or counting seconds (runIngest, runReingest, runRegen).
StreamAccounted == running <=> stream # NoStream

\* The graph view is blank only while a regeneration runs, the one job that
\* suspends the graph without leaving the view.
BlankOnlyWhileRegenerating ==
    center = "graph" /\ graph.suspended => stream # NoStream /\ stream.kind = "regen"

Quiet == stream = NoStream /\ jobs = {}

\* When all jobs are over the page stops following them, and no cockpit
\* spins for ever, whichever answer came late and however the stream ended.
DeskSettles == <>[]Quiet =>
    <>[]~poll.tracking /\ []<>~(center = "matrix" /\ spin)
===============================================================================
