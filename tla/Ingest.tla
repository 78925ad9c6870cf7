------------------------------- MODULE Ingest -------------------------------
(***************************************************************************)
(* The ingest pipeline and the three ways into it.                         *)
(*                                                                         *)
(*   Intakes     threads of the bot and the API that take a new message,   *)
(*               and `claire replay-failed`, which sends old ones again    *)
(*   Recoverers  recover_failed, run by recover-loop and `recover-run`     *)
(*   Retriers    retry_inbox, the /retry command of the bot                *)
(*                                                                         *)
(* A job is one run of ingest (fetch, tombstone screen, three dedup gates, *)
(* store, extract, resolve, final status) or of _retry_extract (load,      *)
(* extract, resolve, final status).  A step ends where the code commits or *)
(* starts a slow call, so a job can meet the database changed under it at  *)
(* every step.  A crash drops the job and keeps the database.              *)
(***************************************************************************)
EXTENDS Library

CONSTANTS
    Intakes, Recoverers, Retriers,
    MaxAttempts,        \* recover-loop --max-attempts
    RecoverLimit,       \* limit of recover_failed: 1 in the loop, 0 in the CLI
    AutoExpand,         \* settings.auto_expand
    AttachmentsFail,    \* whether storing required attachments may fail
    Crashable           \* the workers whose process may die during the run

Worker == Intakes \cup Recoverers \cup Retriers

ASSUME IngestAssumption ==
    /\ MaxAttempts \in Nat \ {0}
    /\ RecoverLimit \in Nat
    /\ AutoExpand \in BOOLEAN
    /\ AttachmentsFail \in BOOLEAN
    /\ Crashable \subseteq Worker
    /\ None \notin Worker
    /\ Intakes \cap Recoverers = {}
    /\ Intakes \cap Retriers = {}
    /\ Recoverers \cap Retriers = {}

VARIABLES
    job,     \* Worker -> the job it runs
    batch    \* Worker -> the rows it read to work on and has still to do

ingestVars == <<job, batch>>

-----------------------------------------------------------------------------
Pc == {"idle", "fetch", "screen", "hash", "same", "url", "update", "near",
       "store", "load", "extract", "resolve", "expand", "finish", "record"}

(* pc   next step                     row, url  the raw_inbox row worked on *)
(* mode new, update (in place) or retry (extract only)                     *)
(* got  body in memory                doc   report.document_id             *)
(* out, outdoc, err: what update_inbox is going to write                   *)
(* att  attempts in the snapshot recover_failed took                       *)
(* auto whether this source may enqueue a 1-hop expansion                  *)
(* held the tombstones in force without a break since the job began        *)
(*      (no code reads it; it only serves to state what the screen owes)   *)
Job == [pc : Pc, row : Rows \cup {None}, url : Urls \cup {None},
        mode : {"new", "update", "retry"}, got : Contents \cup {None},
        doc : DocIds \cup {None}, out : RowStatus,
        outdoc : DocIds \cup {None}, err : ErrorText, att : Nat,
        auto : BOOLEAN, held : SUBSET Tombstone]

IdleJob == [pc |-> "idle", row |-> None, url |-> None, mode |-> "new",
            got |-> None, doc |-> None, out |-> "received", outdoc |-> None,
            err |-> "none", att |-> 0, auto |-> FALSE, held |-> {}]

Snapshot == [row : Rows, url : Urls, doc : DocIds \cup {None}, att : Nat]

IngestTypeOK ==
    /\ job \in [Worker -> Job]
    /\ batch \in [Worker -> SUBSET Snapshot]

IngestInit ==
    /\ job = [w \in Worker |-> IdleJob]
    /\ batch = [w \in Worker |-> {}]

-----------------------------------------------------------------------------
(* How a job moves on.                                                     *)

Goto(w, pc) == job' = [job EXCEPT ![w] = [@ EXCEPT !.pc = pc]]

(* The pipeline has decided the final status; the next step writes it.     *)
Conclude(w, out, outdoc, doc, err) ==
    job' = [job EXCEPT ![w] = [@ EXCEPT !.pc = "finish", !.out = out,
                                        !.outdoc = outdoc, !.doc = doc,
                                        !.err = err]]

RowSnapshot(r) == [row |-> r, url |-> inbox[r].url, doc |-> inbox[r].doc,
                   att |-> inbox[r].attempts]

(* Worker w goes through the rows it read in the order of their ids.       *)
NextInBatch(w, s) ==
    /\ s \in batch[w]
    /\ \A t \in batch[w] : s.row <= t.row
    /\ batch' = [batch EXCEPT ![w] = @ \ {s}]

StoreUnchanged == UNCHANGED <<docs, graph, cited, tombs>>

(* A job on row r: a policy error (budget, job slots, daily limit) ends it *)
(* before the pipeline starts.                                             *)
StartIngest(w, r, u, att, auto) ==
    LET begun == [IdleJob EXCEPT !.pc = "fetch", !.row = r, !.url = u,
                                 !.att = att, !.auto = auto, !.held = tombs]
    IN  \/ job' = [job EXCEPT ![w] = begun]
        \/ job' = [job EXCEPT ![w] = [begun EXCEPT !.pc = "finish",
                                        !.out = "error", !.err = "other"]]

StartRetryExtract(w, r, u, d, att) ==
    job' = [job EXCEPT ![w] = [IdleJob EXCEPT !.pc = "load", !.row = r,
                                 !.url = u, !.mode = "retry", !.doc = d,
                                 !.att = att, !.held = tombs]]

-----------------------------------------------------------------------------
(* Ways in.                                                                *)

(* A message arrives: the row is written before anything else happens.     *)
Submit(w) ==
    /\ w \in Intakes
    /\ job[w].pc = "idle"
    /\ batch[w] = {}
    /\ \E r \in Rows, u \in Urls :
          /\ log_inbox(r, u)
          /\ StartIngest(w, r, u, 0, AutoExpand)
    /\ UNCHANGED <<batch, expandq>>
    /\ StoreUnchanged

(* replay_failed reads every error row, with include_permanent the failed  *)
(* ones too, and closes the connection.                                    *)
ListFailed(w) ==
    /\ w \in Intakes
    /\ job[w].pc = "idle"
    /\ batch[w] = {}
    /\ \E statuses \in {{"error"}, {"error", "failed"}} :
          LET rows == inbox_by_statuses(statuses)
          IN  /\ rows # {}
              /\ batch' = [batch EXCEPT ![w] = {RowSnapshot(r) : r \in rows}]
    /\ UNCHANGED <<job, inbox, expandq>>
    /\ StoreUnchanged

(* It sends each payload through a new row; the failed row stays as it is. *)
Replay(w) ==
    /\ w \in Intakes
    /\ job[w].pc = "idle"
    /\ \E s \in batch[w], r \in Rows :
          /\ NextInBatch(w, s)
          /\ log_inbox(r, s.url)
          /\ StartIngest(w, r, s.url, 0, FALSE)
    /\ UNCHANGED expandq
    /\ StoreUnchanged

(* recover_failed reads all the rows it is going to do and closes the      *)
(* connection; it works from this snapshot.                                *)
Claim(w) ==
    /\ w \in Recoverers
    /\ job[w].pc = "idle"
    /\ batch[w] = {}
    /\ LET due == due_for_recovery(MaxAttempts, RecoverLimit)
       IN  /\ due # {}
           /\ batch' = [batch EXCEPT ![w] = {RowSnapshot(r) : r \in due}]
    /\ UNCHANGED <<job, inbox, expandq>>
    /\ StoreUnchanged

(* The next row of the snapshot: extract only if the snapshot has a        *)
(* document, the whole pipeline if it has none.                            *)
TakeNext(w) ==
    /\ w \in Recoverers
    /\ job[w].pc = "idle"
    /\ \E s \in batch[w] :
          /\ NextInBatch(w, s)
          /\ IF s.doc # None
             THEN StartRetryExtract(w, s.row, s.url, s.doc, s.att)
             ELSE StartIngest(w, s.row, s.url, s.att, FALSE)
    /\ UNCHANGED <<inbox, expandq>>
    /\ StoreUnchanged

(* retry_inbox takes any row the operator names, whatever its status.      *)
Retry(w) ==
    /\ w \in Retriers
    /\ job[w].pc = "idle"
    /\ \E r \in Rows :
          /\ Exists(r)
          /\ IF inbox[r].doc # None
             THEN StartRetryExtract(w, r, inbox[r].url, inbox[r].doc, 0)
             ELSE StartIngest(w, r, inbox[r].url, 0, AutoExpand)
    /\ UNCHANGED <<batch, inbox, expandq>>
    /\ StoreUnchanged

-----------------------------------------------------------------------------
(* The pipeline.                                                           *)

Fetch(w) ==
    /\ job[w].pc = "fetch"
    /\ \/ \E c \in Contents :
             job' = [job EXCEPT ![w] = [@ EXCEPT !.pc = "screen", !.got = c]]
       \/ Conclude(w, "error", None, None, "other")
    /\ UNCHANGED <<batch, inbox, expandq>>
    /\ StoreUnchanged

(* The tombstones, then the documents that already list this URL as the    *)
(* source of a bundled presentation.                                       *)
Screen(w) ==
    LET bundled == find_document_by_extra_source(job[w].url) IN
    /\ job[w].pc = "screen"
    /\ IF is_tombstoned(job[w].url, job[w].got)
       THEN Conclude(w, "error", None, None, "tombstone")
       ELSE IF bundled # {}
       THEN \E d \in bundled : Conclude(w, "duplicate", d, d, "none")
       ELSE Goto(w, "hash")
    /\ UNCHANGED <<batch, inbox, expandq>>
    /\ StoreUnchanged

(* Dedup 1, same body.                                                     *)
DedupHash(w) ==
    /\ job[w].pc = "hash"
    /\ LET same == find_document_by_hash(job[w].got)
       IN  IF same = {} THEN Goto(w, "url")
           ELSE \E d \in same :
                   job' = [job EXCEPT ![w] = [@ EXCEPT !.pc = "same",
                                                       !.doc = d]]
    /\ UNCHANGED <<batch, inbox, expandq>>
    /\ StoreUnchanged

(* A changed presentation or a new focus updates the metadata or the       *)
(* rendering of the document and ends in done instead of duplicate.        *)
SameBody(w) ==
    LET d == job[w].doc IN
    /\ job[w].pc = "same"
    /\ \/ \E out \in {"duplicate", "done"} : Conclude(w, out, d, d, "none")
       \/ /\ AttachmentsFail
          /\ Conclude(w, "error", IF d \in Live THEN d ELSE None, None, "other")
    /\ UNCHANGED <<batch, inbox, expandq>>
    /\ StoreUnchanged

(* Dedup 2, same URL with another body: the document is to be updated.     *)
DedupUrl(w) ==
    /\ job[w].pc = "url"
    /\ LET same == find_document_by_canonical_url(job[w].url)
       IN  IF same = {} THEN Goto(w, "near")
           ELSE \E d \in same :
                   job' = [job EXCEPT ![w] = [@ EXCEPT !.pc = "update",
                                                       !.mode = "update",
                                                       !.doc = d]]
    /\ UNCHANGED <<batch, inbox, expandq>>
    /\ StoreUnchanged

UpdateInPlace(w) ==
    LET d == job[w].doc IN
    /\ job[w].pc = "update"
    /\ \/ /\ update_document_content(d, job[w].got)
          /\ Goto(w, "extract")
       \/ /\ AttachmentsFail
          /\ Conclude(w, "error", IF d \in Live THEN d ELSE None, None, "other")
          /\ UNCHANGED docs
    /\ UNCHANGED <<batch, inbox, expandq, graph, cited, tombs>>

(* Dedup 3, a different URL with a near-identical body.                    *)
DedupNear(w) ==
    /\ job[w].pc = "near"
    /\ LET near == near_duplicate_document(job[w].got)
       IN  IF near = {} THEN Goto(w, "store")
           ELSE \E d \in near : Conclude(w, "duplicate", d, d, "none")
    /\ UNCHANGED <<batch, inbox, expandq>>
    /\ StoreUnchanged

(* A member's document quota or a failed attachment stops the job before   *)
(* the document exists.                                                    *)
Store(w) ==
    /\ job[w].pc = "store"
    /\ \/ \E d \in DocIds :
             /\ insert_document(d, job[w].url, job[w].got)
             /\ job' = [job EXCEPT ![w] = [@ EXCEPT !.pc = "extract", !.doc = d]]
       \/ /\ Conclude(w, "error", None, None, "other")
          /\ UNCHANGED docs
    /\ UNCHANGED <<batch, inbox, expandq, graph, cited, tombs>>

(* _retry_extract: the body comes from the database.                       *)
Load(w) ==
    LET d == job[w].doc IN
    /\ job[w].pc = "load"
    /\ job' = [job EXCEPT ![w] =
                 IF d \in Live
                 THEN [@ EXCEPT !.pc = "extract", !.got = docs[d].hash]
                 ELSE [@ EXCEPT !.pc = "record", !.err = "other"]]
    /\ UNCHANGED <<batch, inbox, expandq>>
    /\ StoreUnchanged

(* Mutant: the row does not learn which document it stored.                *)
ExtractFails_Anonymous(w) ==
    IF job[w].mode = "retry"
    THEN job' = [job EXCEPT ![w] = [@ EXCEPT !.pc = "record", !.err = "other"]]
    ELSE Conclude(w, "error", None, None, "other")

(* A failed extraction: _retry_extract only reports it, the pipeline also  *)
(* writes it to the row, with the document.                                *)
ExtractFails(w) ==
    IF job[w].mode = "retry"
    THEN job' = [job EXCEPT ![w] = [@ EXCEPT !.pc = "record", !.err = "other"]]
    ELSE Conclude(w, "error", job[w].doc, job[w].doc, "other")

(* The LLM call.                                                           *)
Extract(w) ==
    /\ job[w].pc = "extract"
    /\ Goto(w, "resolve") \/ ExtractFails(w)
    /\ UNCHANGED <<batch, inbox, expandq>>
    /\ StoreUnchanged

(* Entities and relations are written with the document as their source,   *)
(* without a look at whether the document still exists.  A policy error    *)
(* half way leaves part of them.  A partial document is never expanded.    *)
Resolve(w) ==
    LET d == job[w].doc IN
    /\ job[w].pc = "resolve"
    /\ cited' = cited \cup {d}
    /\ \/ /\ graph' = graph \cup {<<d, job[w].got>>}
          /\ \/ job[w].mode = "new" /\ job[w].auto /\ Goto(w, "expand")
             \/ Conclude(w, "done", d, d, "none")
       \/ /\ UNCHANGED graph
          /\ ExtractFails(w)
    /\ UNCHANGED <<batch, inbox, expandq, docs, tombs>>

Expand(w) ==
    LET d == job[w].doc IN
    /\ job[w].pc = "expand"
    /\ enqueue_expand(d)
    /\ Conclude(w, "done", d, d, "none")
    /\ UNCHANGED <<batch, inbox>>
    /\ StoreUnchanged

(* Mutant: a duplicate ends without a word to the inbox.                   *)
Finish_SilentDuplicate(w) ==
    /\ job[w].pc = "finish"
    /\ IF job[w].out = "duplicate" THEN UNCHANGED inbox
       ELSE update_inbox(job[w].row, job[w].out, job[w].outdoc, job[w].err)
    /\ IF job[w].out = "error" /\ w \notin Intakes
       THEN Goto(w, "record")
       ELSE job' = [job EXCEPT ![w] = IdleJob]
    /\ UNCHANGED <<batch, expandq>>
    /\ StoreUnchanged

(* The last update_inbox of the job.  recover_failed and retry_inbox go on *)
(* to write their own record of a failure.                                 *)
Finish(w) ==
    /\ job[w].pc = "finish"
    /\ update_inbox(job[w].row, job[w].out, job[w].outdoc, job[w].err)
    /\ IF job[w].out = "error" /\ w \notin Intakes
       THEN Goto(w, "record")
       ELSE job' = [job EXCEPT ![w] = IdleJob]
    /\ UNCHANGED <<batch, expandq>>
    /\ StoreUnchanged

(* Mutant: the cap is compared with the attempts before this one.          *)
RecoverRecord_OffByOne(w) ==
    /\ w \in Recoverers
    /\ job[w].pc = "record"
    /\ record_recovery_attempt(job[w].row,
          IF job[w].att >= MaxAttempts THEN "failed" ELSE "error",
          job[w].doc, job[w].err)
    /\ job' = [job EXCEPT ![w] = IdleJob]
    /\ UNCHANGED <<batch, expandq>>
    /\ StoreUnchanged

(* The status recover_failed gives a row after a failure is computed from  *)
(* the attempts of its snapshot, the counter from the row itself.          *)
RecoverRecord(w) ==
    /\ w \in Recoverers
    /\ job[w].pc = "record"
    /\ record_recovery_attempt(job[w].row,
          IF job[w].att + 1 >= MaxAttempts THEN "failed" ELSE "error",
          job[w].doc, job[w].err)
    /\ job' = [job EXCEPT ![w] = IdleJob]
    /\ UNCHANGED <<batch, expandq>>
    /\ StoreUnchanged

(* retry_inbox leaves the row in error, attempts and document unchanged.   *)
RetryRecord(w) ==
    LET r == job[w].row IN
    /\ w \in Retriers
    /\ job[w].pc = "record"
    /\ inbox' = [inbox EXCEPT ![r] =
                   IF Exists(r)
                   THEN [@ EXCEPT !.status = "error", !.err = job[w].err]
                   ELSE @]
    /\ job' = [job EXCEPT ![w] = IdleJob]
    /\ UNCHANGED <<batch, expandq>>
    /\ StoreUnchanged

(* The process dies, or an exception no handler catches ends the job.      *)
Crash(w) ==
    /\ w \in Crashable
    /\ job[w].pc # "idle"
    /\ job' = [job EXCEPT ![w] = IdleJob]
    /\ batch' = [batch EXCEPT ![w] = {}]
    /\ \/ UNCHANGED cited
       \/ job[w].pc = "resolve" /\ cited' = cited \cup {job[w].doc}
    /\ UNCHANGED <<docs, graph, tombs, inbox, expandq>>

(* next_retry_at passes.                                                   *)
BackoffElapses(r) ==
    /\ inbox[r].status = "error"
    /\ inbox[r].retry = "later"
    /\ inbox' = [inbox EXCEPT ![r] = [@ EXCEPT !.retry = "due"]]
    /\ UNCHANGED <<job, batch, expandq>>
    /\ StoreUnchanged

-----------------------------------------------------------------------------
PipelineStep(w) ==
    \/ Fetch(w) \/ Screen(w) \/ DedupHash(w) \/ SameBody(w) \/ DedupUrl(w)
    \/ UpdateInPlace(w) \/ DedupNear(w) \/ Store(w) \/ Load(w)
    \/ Extract(w) \/ Resolve(w) \/ Expand(w) \/ Finish(w)
    \/ RecoverRecord(w) \/ RetryRecord(w)

IngestNext ==
    \/ \E w \in Worker :
          \/ Submit(w) \/ ListFailed(w) \/ Replay(w) \/ Claim(w) \/ TakeNext(w) \/ Retry(w)
          \/ PipelineStep(w) \/ Crash(w)
    \/ \E r \in Rows : BackoffElapses(r)
=============================================================================
