---------------------------- MODULE KnowledgeBase ----------------------------
(***************************************************************************)
(* One theme of the deployment: the ingest jobs of the bot, the API and    *)
(* the recovery loop, and the purge commands of an operator, over one      *)
(* database.                                                               *)
(***************************************************************************)
EXTENDS Ingest, Purge

vars == <<docs, graph, cited, tombs, inbox, expandq, job, batch, purge>>

TypeOK ==
    /\ LibraryTypeOK
    /\ IngestTypeOK
    /\ PurgeTypeOK

Init ==
    /\ LibraryInit
    /\ IngestInit
    /\ PurgeInit

(* A tombstone that is lifted or replaced no longer binds a running job.   *)
KeepHeld ==
    /\ job' = [w \in Worker |-> [job[w] EXCEPT !.held = @ \cap tombs']]
    /\ UNCHANGED batch

PurgeNext ==
    \/ \E p \in Purgers :
          \/ PurgeBegin(p) /\ UNCHANGED ingestVars
          \/ PurgeRollback(p) /\ UNCHANGED ingestVars
          \/ PurgeDelete(p) /\ KeepHeld
          \/ HealBegin(p) /\ UNCHANGED ingestVars
          \/ HealPrune(p) /\ UNCHANGED ingestVars
          \/ PurgeCrash(p) /\ UNCHANGED ingestVars
    \/ /\ Purgers # {}
       /\ \E T \in SUBSET tombs : Untombstone(T) /\ KeepHeld

Next ==
    \/ IngestNext /\ UNCHANGED purge
    \/ PurgeNext

Spec == Init /\ [][Next]_vars

(* A worker that is alive finishes the job it has, recover-loop comes back *)
(* every interval, and backoff delays end.  Nobody has to send a message,  *)
(* run a command or crash.                                                 *)
Fairness ==
    /\ \A w \in Worker : WF_vars(PipelineStep(w) /\ UNCHANGED purge)
    /\ \A w \in Recoverers :
          WF_vars((Claim(w) \/ TakeNext(w)) /\ UNCHANGED purge)
    /\ \A r \in Rows : WF_vars(BackoffElapses(r) /\ UNCHANGED purge)

FairSpec == Spec /\ Fairness

-----------------------------------------------------------------------------
(* Safety.                                                                 *)

(* recover_failed never gives a row more than MaxAttempts tries, though it *)
(* decides from a snapshot and counts in the database.                     *)
AttemptsBounded == \A r \in Rows : inbox[r].attempts <= MaxAttempts

(* A row that used up its attempts is permanently failed and no longer in  *)
(* error, where it would wait for a retry that never comes.                *)
ExhaustedIsFailed ==
    \A r \in Rows : inbox[r].attempts >= MaxAttempts => inbox[r].status = "failed"

(* No body that was accepted as a document is forgotten: its extraction is *)
(* in the graph, or a job is still to do it, or a failed row names the     *)
(* document so that _retry_extract will.                                   *)
InHand(w, d) ==
    /\ job[w].doc = d
    /\ \/ job[w].pc \in {"extract", "resolve"}
       \/ job[w].pc \in {"load", "record"}
       \/ job[w].pc = "finish" /\ job[w].out = "error"

Accounted(d) ==
    \/ <<d, docs[d].hash>> \in graph
    \/ \E w \in Worker : InHand(w, d)
    \/ \E r \in Rows : inbox[r].doc = d /\ inbox[r].status \in {"error", "failed"}

EveryDocumentAccounted == \A d \in Live : Accounted(d)

(* A job never stores a document, or a new body of one, that a tombstone   *)
(* forbade all the time since the job began.                               *)
StoreRespectsTombstones ==
    [][\A w \in Worker :
          (job[w].pc \in {"store", "update"} /\ job'[w].pc = "extract") =>
             ~ \E t \in job[w].held : MatchesTombstone(t, job[w].url, job[w].got)]_vars

(* What recovery owes the sender of a message, as an abstract retry policy *)
(* this specification implements.                                          *)
PhaseOf(status) ==
    CASE status = "absent" -> "unseen"
      [] status = "received" -> "working"
      [] status = "error" -> "open"
      [] status = "failed" -> "abandoned"
      [] OTHER -> "settled"

Policy == INSTANCE RetryPolicy WITH
            Budget <- MaxAttempts,
            phase <- [r \in Rows |-> PhaseOf(inbox[r].status)],
            left <- [r \in Rows |-> MaxAttempts - inbox[r].attempts]

KeepsFairRetryPolicy == Policy!FairPolicySpec
=============================================================================
