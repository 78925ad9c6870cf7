------------------------- MODULE KnowledgeBaseProofs ------------------------
(***************************************************************************)
(* Proofs about KnowledgeBase, for every number of rows, documents,        *)
(* workers and purge commands: its types (TypeInv), the bound on retries,  *)
(* the tombstone screen, exhausted rows (FollowInv), the retry policy that *)
(* automatic recovery implements, and the documents nothing forgets        *)
(* (KeptInv).                                                              *)
(***************************************************************************)
EXTENDS KnowledgeBase, TLAPS

(* TypeOK is not inductive by itself: which fields of a job or a purge     *)
(* command are set depends on the step it is at.                           *)
DocsFormed == \A d \in Live : docs[d].url \in Urls /\ docs[d].hash \in Contents

RowsFormed == \A r \in Rows : Exists(r) => inbox[r].url \in Urls

JobFormed(j) ==
    /\ j.pc # "idle" => j.row \in Rows /\ j.url \in Urls
    /\ j.pc \notin {"idle", "fetch", "load", "finish", "record"} => j.got \in Contents
    /\ j.pc \in {"same", "update", "load", "extract", "resolve", "expand"}
          => j.doc \in DocIds

JobsFormed == \A w \in Worker : JobFormed(job[w])

PurgeFormed ==
    \A p \in Purgers : purge[p].pc \in {"rollback", "delete"} =>
        /\ purge[p].doc \in DocIds
        /\ purge[p].url \in Urls
        /\ purge[p].hash \in Contents

TypeInv ==
    /\ TypeOK
    /\ DocsFormed
    /\ RowsFormed
    /\ JobsFormed
    /\ PurgeFormed

-----------------------------------------------------------------------------
(* A step that gives one worker a well-formed job keeps all jobs so.       *)
LEMMA JobUpdate ==
    ASSUME job \in [Worker -> Job], JobsFormed, NEW w \in Worker,
           NEW j \in Job, JobFormed(j), job' = [job EXCEPT ![w] = j]
    PROVE  job' \in [Worker -> Job] /\ JobsFormed'
  BY DEF JobsFormed, JobFormed

LEMMA GotoFormed ==
    ASSUME TypeInv, NEW w \in Worker, NEW pc \in Pc,
           JobFormed([job[w] EXCEPT !.pc = pc]), Goto(w, pc)
    PROVE  job' \in [Worker -> Job] /\ JobsFormed'
<1>1. [job[w] EXCEPT !.pc = pc] \in Job
  BY DEF TypeInv, TypeOK, IngestTypeOK, Job
<1>2. QED
  BY <1>1, JobUpdate DEF TypeInv, TypeOK, IngestTypeOK, Goto

LEMMA ConcludeFormed ==
    ASSUME TypeInv, NEW w \in Worker, job[w].pc # "idle", NEW out \in RowStatus,
           NEW od \in DocIds \cup {None}, NEW d \in DocIds \cup {None},
           NEW err \in ErrorText, Conclude(w, out, od, d, err)
    PROVE  job' \in [Worker -> Job] /\ JobsFormed'
<1> DEFINE j == [job[w] EXCEPT !.pc = "finish", !.out = out, !.outdoc = od,
                               !.doc = d, !.err = err]
<1> "finish" \in Pc
  BY DEF Pc
<1> job[w] \in Job
  BY DEF TypeInv, TypeOK, IngestTypeOK
<1>1. j \in Job
  BY DEF Job
<1>2. JobFormed(j)
  BY DEF TypeInv, TypeOK, IngestTypeOK, Job, JobsFormed, JobFormed
<1>3. QED
  BY <1>1, <1>2, JobUpdate DEF TypeInv, TypeOK, IngestTypeOK, Conclude

LEMMA StartIngestFormed ==
    ASSUME TypeInv, NEW w \in Worker, NEW r \in Rows, NEW u \in Urls,
           NEW att \in Nat, NEW auto \in BOOLEAN, StartIngest(w, r, u, att, auto)
    PROVE  job' \in [Worker -> Job] /\ JobsFormed'
<1> DEFINE j == [IdleJob EXCEPT !.pc = "fetch", !.row = r, !.url = u,
                                !.att = att, !.auto = auto, !.held = tombs]
           k == [j EXCEPT !.pc = "finish", !.out = "error", !.err = "other"]
<1>1. tombs \in SUBSET Tombstone
  BY DEF TypeInv, TypeOK, LibraryTypeOK
<1>2. j \in Job /\ k \in Job
  BY <1>1 DEF Job, IdleJob, Pc, RowStatus, ErrorText
<1>3. JobFormed(j) /\ JobFormed(k)
  BY DEF JobFormed, IdleJob
<1>4. job' = [job EXCEPT ![w] = j] \/ job' = [job EXCEPT ![w] = k]
  BY DEF StartIngest
<1>5. job \in [Worker -> Job] /\ JobsFormed
  BY DEF TypeInv, TypeOK, IngestTypeOK
<1> HIDE DEF j, k
<1>6. QED
  BY <1>2, <1>3, <1>4, <1>5, JobUpdate

LEMMA StartRetryFormed ==
    ASSUME TypeInv, NEW w \in Worker, NEW r \in Rows, NEW u \in Urls,
           NEW d \in DocIds, NEW att \in Nat, StartRetryExtract(w, r, u, d, att)
    PROVE  job' \in [Worker -> Job] /\ JobsFormed'
<1> DEFINE j == [IdleJob EXCEPT !.pc = "load", !.row = r, !.url = u,
                                !.mode = "retry", !.doc = d, !.att = att,
                                !.held = tombs]
<1>1. tombs \in SUBSET Tombstone
  BY DEF TypeInv, TypeOK, LibraryTypeOK
<1>2. j \in Job
  BY <1>1 DEF Job, IdleJob, Pc, RowStatus, ErrorText
<1>3. JobFormed(j)
  BY DEF JobFormed, IdleJob
<1>4. job' = [job EXCEPT ![w] = j]
  BY DEF StartRetryExtract
<1>5. job \in [Worker -> Job] /\ JobsFormed
  BY DEF TypeInv, TypeOK, IngestTypeOK
<1> HIDE DEF j
<1>6. QED
  BY <1>2, <1>3, <1>4, <1>5, JobUpdate

LEMMA IdleFormed ==
    ASSUME TypeInv, NEW w \in Worker, job' = [job EXCEPT ![w] = IdleJob]
    PROVE  job' \in [Worker -> Job] /\ JobsFormed'
<1>1. IdleJob \in Job /\ JobFormed(IdleJob)
  BY DEF Job, JobFormed, IdleJob, Pc, RowStatus, ErrorText
<1>2. QED
  BY <1>1, JobUpdate DEF TypeInv, TypeOK, IngestTypeOK

LEMMA ExtractFailsFormed ==
    ASSUME TypeInv, NEW w \in Worker, job[w].pc \in {"extract", "resolve"},
           ExtractFails(w)
    PROVE  job' \in [Worker -> Job] /\ JobsFormed'
<1> DEFINE j == [job[w] EXCEPT !.pc = "record", !.err = "other"]
<1>1. job[w] \in Job /\ JobFormed(job[w]) /\ job \in [Worker -> Job] /\ JobsFormed
  BY DEF TypeInv, TypeOK, IngestTypeOK, JobsFormed
<1>2. CASE job[w].mode = "retry"
  <2>1. j \in Job /\ JobFormed(j)
    BY <1>1 DEF Job, JobFormed, Pc, ErrorText
  <2>2. job' = [job EXCEPT ![w] = j]
    BY <1>2 DEF ExtractFails
  <2> HIDE DEF j
  <2>3. QED
    BY <1>1, <2>1, <2>2, JobUpdate
<1>3. CASE job[w].mode # "retry"
  <2>1. job[w].doc \in DocIds \cup {None}
    BY <1>1 DEF Job
  <2>2. Conclude(w, "error", job[w].doc, job[w].doc, "other")
    BY <1>3 DEF ExtractFails
  <2>3. "error" \in RowStatus /\ "other" \in ErrorText
    BY DEF RowStatus, ErrorText
  <2>4. QED
    BY <2>1, <2>2, <2>3, ConcludeFormed
<1>4. QED
  BY <1>2, <1>3

-----------------------------------------------------------------------------
(* What the writes of the library keep.                                    *)
InboxFormed == inbox \in [Rows -> InboxRow] /\ RowsFormed

LEMMA LogInboxFormed ==
    ASSUME InboxFormed, NEW r \in Rows, NEW u \in Urls, log_inbox(r, u)
    PROVE  InboxFormed'
  BY DEF InboxFormed, RowsFormed, Exists, log_inbox, NoRow, InboxRow, RowStatus,
         ErrorText

LEMMA UpdateInboxFormed ==
    ASSUME InboxFormed, NEW r \in Rows, NEW status \in RowStatus,
           NEW d \in DocIds \cup {None}, NEW err \in ErrorText,
           update_inbox(r, status, d, err)
    PROVE  InboxFormed'
  BY DEF InboxFormed, RowsFormed, Exists, update_inbox, InboxRow

LEMMA RecordAttemptFormed ==
    ASSUME InboxFormed, NEW r \in Rows, NEW status \in RowStatus,
           NEW d \in DocIds \cup {None}, NEW err \in ErrorText,
           record_recovery_attempt(r, status, d, err)
    PROVE  InboxFormed'
<1> DEFINE later == IF status = "failed" THEN "due" ELSE "later"
           new == [inbox[r] EXCEPT !.status = status, !.doc = d, !.err = err,
                                   !.attempts = inbox[r].attempts + 1, !.retry = later]
<1>1. later \in {"due", "later"}
  OBVIOUS
<1>2. inbox' = [inbox EXCEPT ![r] = IF Exists(r) THEN new ELSE @]
  BY DEF record_recovery_attempt
<1> HIDE DEF later
<1>3. inbox[r] \in InboxRow /\ inbox[r].attempts + 1 \in Nat
  BY DEF InboxFormed, InboxRow
<1>4. new \in InboxRow
  BY <1>1, <1>3 DEF InboxRow
<1>5. new.url = inbox[r].url
  BY <1>3 DEF InboxRow
<1> HIDE DEF new
<1>6. QED
  BY <1>2, <1>4, <1>5 DEF InboxFormed, RowsFormed, Exists

LEMMA DeleteFormed ==
    ASSUME LibraryTypeOK, DocsFormed, RowsFormed, NEW d \in DocIds,
           NEW u \in Urls, NEW c \in Contents, NEW mark \in BOOLEAN,
           delete_document(d, u, c, mark), UNCHANGED <<graph, cited>>
    PROVE  LibraryTypeOK' /\ DocsFormed' /\ RowsFormed'
<1>1. tombs' \subseteq Tombstone
  BY DEF LibraryTypeOK, delete_document, Tombstone
<1>2. docs' \in [DocIds -> Document] /\ DocsFormed'
  BY DEF LibraryTypeOK, delete_document, DocsFormed, Live, Document, NoDocument
<1>3. inbox' \in [Rows -> InboxRow] /\ RowsFormed'
  BY DEF LibraryTypeOK, delete_document, RowsFormed, Exists, InboxRow, NoRow,
         RowStatus, ErrorText
<1>4. expandq' \in [DocIds -> ExpandStatus]
  BY DEF LibraryTypeOK, delete_document, ExpandStatus
<1>5. QED
  BY <1>1, <1>2, <1>3, <1>4 DEF LibraryTypeOK

LEMMA UntombstoneFormed ==
    ASSUME LibraryTypeOK, RowsFormed, NEW T \in SUBSET tombs, remove_tombstones(T)
    PROVE  tombs' \subseteq Tombstone /\ inbox' \in [Rows -> InboxRow] /\ RowsFormed'
  BY DEF LibraryTypeOK, remove_tombstones, RowsFormed, Exists, InboxRow,
         RowStatus, ErrorText

-----------------------------------------------------------------------------
(* TypeInv holds after every step.                                         *)

LEMMA OnlyJob ==
    ASSUME TypeInv, job' \in [Worker -> Job] /\ JobsFormed',
           UNCHANGED <<docs, graph, cited, tombs, inbox, expandq, batch, purge>>
    PROVE  TypeInv'
  BY DEF TypeInv, TypeOK, LibraryTypeOK, IngestTypeOK, PurgeTypeOK, DocsFormed,
         RowsFormed, PurgeFormed, Live, Exists

LEMMA JobAndInbox ==
    ASSUME TypeInv, job' \in [Worker -> Job] /\ JobsFormed', InboxFormed',
           UNCHANGED <<docs, graph, cited, tombs, expandq, batch, purge>>
    PROVE  TypeInv'
  BY DEF TypeInv, TypeOK, LibraryTypeOK, IngestTypeOK, PurgeTypeOK, DocsFormed,
         RowsFormed, PurgeFormed, InboxFormed, Live, Exists

LEMMA JobAndDocs ==
    ASSUME TypeInv, job' \in [Worker -> Job] /\ JobsFormed',
           docs' \in [DocIds -> Document], DocsFormed',
           UNCHANGED <<graph, cited, tombs, inbox, expandq, batch, purge>>
    PROVE  TypeInv'
  BY DEF TypeInv, TypeOK, LibraryTypeOK, IngestTypeOK, PurgeTypeOK,
         RowsFormed, PurgeFormed, Exists

LEMMA SnapshotFormed ==
    ASSUME TypeInv, NEW r \in Rows, Exists(r)
    PROVE  RowSnapshot(r) \in Snapshot
  BY DEF TypeInv, TypeOK, LibraryTypeOK, RowsFormed, RowSnapshot, Snapshot, InboxRow

LEMMA IntakeSteps ==
    ASSUME TypeInv, NEW w \in Worker, UNCHANGED purge,
           \/ Submit(w) \/ ListFailed(w) \/ Replay(w)
           \/ Claim(w) \/ TakeNext(w) \/ Retry(w)
    PROVE  TypeInv'
<1> USE DEF StoreUnchanged
<1>1. /\ job \in [Worker -> Job]
      /\ batch \in [Worker -> SUBSET Snapshot]
      /\ inbox \in [Rows -> InboxRow]
      /\ InboxFormed
      /\ JobsFormed
  BY DEF TypeInv, TypeOK, LibraryTypeOK, IngestTypeOK, InboxFormed
<1>2. CASE Submit(w)
  <2>1. PICK r \in Rows, u \in Urls : log_inbox(r, u) /\ StartIngest(w, r, u, 0, AutoExpand)
    BY <1>2 DEF Submit
  <2>2. job' \in [Worker -> Job] /\ JobsFormed'
    BY <2>1, StartIngestFormed, IngestAssumption
  <2>3. InboxFormed'
    BY <1>1, <2>1, LogInboxFormed
  <2>4. QED
    BY <1>2, <2>2, <2>3, JobAndInbox DEF Submit
<1>3. CASE ListFailed(w)
  <2>1. PICK R \in SUBSET Rows :
           /\ \A r \in R : inbox[r].status \in {"error", "failed"}
           /\ batch' = [batch EXCEPT ![w] = {RowSnapshot(r) : r \in R}]
    BY <1>3 DEF ListFailed, inbox_by_statuses
  <2>2. {RowSnapshot(r) : r \in R} \subseteq Snapshot
    BY <2>1, SnapshotFormed DEF Exists
  <2>3. batch' \in [Worker -> SUBSET Snapshot]
    BY <1>1, <2>1, <2>2
  <2>4. QED
    BY <1>3, <2>3 DEF ListFailed, TypeInv, TypeOK, LibraryTypeOK, IngestTypeOK,
       PurgeTypeOK, DocsFormed, RowsFormed, JobsFormed, PurgeFormed, Live, Exists
<1>4. CASE Replay(w)
  <2>1. PICK s \in batch[w], r \in Rows :
           NextInBatch(w, s) /\ log_inbox(r, s.url) /\ StartIngest(w, r, s.url, 0, FALSE)
    BY <1>4 DEF Replay
  <2>2. s.url \in Urls
    BY <1>1, <2>1 DEF Snapshot
  <2>3. job' \in [Worker -> Job] /\ JobsFormed'
    BY <2>1, <2>2, StartIngestFormed
  <2>4. InboxFormed'
    BY <1>1, <2>1, <2>2, LogInboxFormed
  <2>5. batch' \in [Worker -> SUBSET Snapshot]
    BY <1>1, <2>1 DEF NextInBatch
  <2>6. QED
    BY <1>4, <2>3, <2>4, <2>5 DEF Replay, TypeInv, TypeOK, LibraryTypeOK,
       IngestTypeOK, PurgeTypeOK, DocsFormed, InboxFormed, PurgeFormed, Live
<1>5. CASE Claim(w)
  <2>1. PICK R \in SUBSET Rows :
           /\ \A r \in R : inbox[r].status = "error"
           /\ batch' = [batch EXCEPT ![w] = {RowSnapshot(r) : r \in R}]
    BY <1>5 DEF Claim, due_for_recovery
  <2>2. {RowSnapshot(r) : r \in R} \subseteq Snapshot
    BY <2>1, SnapshotFormed DEF Exists
  <2>3. batch' \in [Worker -> SUBSET Snapshot]
    BY <1>1, <2>1, <2>2
  <2>4. QED
    BY <1>5, <2>3 DEF Claim, TypeInv, TypeOK, LibraryTypeOK, IngestTypeOK,
       PurgeTypeOK, DocsFormed, RowsFormed, JobsFormed, PurgeFormed, Live, Exists
<1>6. CASE TakeNext(w)
  <2>1. PICK s \in batch[w] :
           /\ NextInBatch(w, s)
           /\ IF s.doc # None
              THEN StartRetryExtract(w, s.row, s.url, s.doc, s.att)
              ELSE StartIngest(w, s.row, s.url, s.att, FALSE)
    BY <1>6 DEF TakeNext
  <2>2. s \in Snapshot
    BY <1>1, <2>1
  <2>3. s.row \in Rows /\ s.url \in Urls /\ s.doc \in DocIds \cup {None} /\ s.att \in Nat
    BY <2>2 DEF Snapshot
  <2>4. job' \in [Worker -> Job] /\ JobsFormed'
    BY <2>1, <2>3, StartIngestFormed, StartRetryFormed
  <2>5. batch' \in [Worker -> SUBSET Snapshot]
    BY <1>1, <2>1 DEF NextInBatch
  <2>6. QED
    BY <1>6, <2>4, <2>5 DEF TakeNext, TypeInv, TypeOK, LibraryTypeOK,
       IngestTypeOK, PurgeTypeOK, DocsFormed, RowsFormed, PurgeFormed, Live, Exists
<1>7. CASE Retry(w)
  <2>1. PICK r \in Rows :
           /\ Exists(r)
           /\ IF inbox[r].doc # None
              THEN StartRetryExtract(w, r, inbox[r].url, inbox[r].doc, 0)
              ELSE StartIngest(w, r, inbox[r].url, 0, AutoExpand)
    BY <1>7 DEF Retry
  <2>2. inbox[r].url \in Urls /\ inbox[r].doc \in DocIds \cup {None}
    BY <1>1, <2>1 DEF InboxFormed, RowsFormed, InboxRow
  <2>3. job' \in [Worker -> Job] /\ JobsFormed'
    BY <2>1, <2>2, StartIngestFormed, StartRetryFormed, IngestAssumption
  <2>4. QED
    BY <1>7, <2>3, OnlyJob DEF Retry
<1>8. QED
  BY <1>2, <1>3, <1>4, <1>5, <1>6, <1>7

LEMMA PipelineSteps ==
    ASSUME TypeInv, NEW w \in Worker, UNCHANGED purge, PipelineStep(w)
    PROVE  TypeInv'
<1> USE DEF StoreUnchanged
<1>1. /\ job \in [Worker -> Job]
      /\ job[w] \in Job
      /\ JobFormed(job[w])
      /\ docs \in [DocIds -> Document]
      /\ InboxFormed
      /\ DocsFormed
  BY DEF TypeInv, TypeOK, LibraryTypeOK, IngestTypeOK, InboxFormed, JobsFormed
<1>a. {"done", "duplicate", "error", "failed"} \subseteq RowStatus
      /\ {"none", "tombstone", "other"} \subseteq ErrorText
  BY DEF RowStatus, ErrorText
<1>2. CASE Fetch(w)
  <2>1. CASE \E c \in Contents :
               job' = [job EXCEPT ![w] = [@ EXCEPT !.pc = "screen", !.got = c]]
    <3>1. PICK c \in Contents :
               job' = [job EXCEPT ![w] = [@ EXCEPT !.pc = "screen", !.got = c]]
      BY <2>1
    <3>2. [job[w] EXCEPT !.pc = "screen", !.got = c] \in Job
      BY <1>1 DEF Job, Pc
    <3>3. JobFormed([job[w] EXCEPT !.pc = "screen", !.got = c])
      BY <1>1, <1>2 DEF Job, JobFormed, Fetch
    <3>4. job' \in [Worker -> Job] /\ JobsFormed'
      BY <1>1, <3>1, <3>2, <3>3, JobUpdate DEF TypeInv
    <3>5. QED
      BY <1>2, <3>4, OnlyJob DEF Fetch
  <2>2. CASE Conclude(w, "error", None, None, "other")
    BY <1>2, <1>a, <2>2, ConcludeFormed, OnlyJob DEF Fetch
  <2>3. QED
    BY <1>2, <2>1, <2>2 DEF Fetch
<1>3. CASE Screen(w)
  <2>1. \/ \E d \in DocIds \cup {None}, out \in {"error", "duplicate"}, err \in ErrorText :
              Conclude(w, out, d, d, err)
        \/ Goto(w, "hash")
    BY <1>3, <1>a DEF Screen, find_document_by_extra_source, Live
  <2>2. "hash" \in Pc /\ JobFormed([job[w] EXCEPT !.pc = "hash"])
    BY <1>1, <1>3 DEF Screen, Pc, Job, JobFormed
  <2>3. job' \in [Worker -> Job] /\ JobsFormed'
    BY <1>3, <1>a, <2>1, <2>2, GotoFormed, ConcludeFormed DEF Screen
  <2>4. QED
    BY <1>3, <2>3, OnlyJob DEF Screen
<1>4. CASE DedupHash(w)
  <2>1. \/ Goto(w, "url")
        \/ \E d \in DocIds :
              job' = [job EXCEPT ![w] = [@ EXCEPT !.pc = "same", !.doc = d]]
    BY <1>4 DEF DedupHash, find_document_by_hash, Live
  <2>2. "url" \in Pc /\ JobFormed([job[w] EXCEPT !.pc = "url"])
    BY <1>1, <1>4 DEF DedupHash, Pc, Job, JobFormed
  <2>3. \A d \in DocIds : [job[w] EXCEPT !.pc = "same", !.doc = d] \in Job
    BY <1>1 DEF Pc, Job
  <2>4. \A d \in DocIds : JobFormed([job[w] EXCEPT !.pc = "same", !.doc = d])
    BY <1>1, <1>4 DEF DedupHash, Job, JobFormed
  <2>5. job' \in [Worker -> Job] /\ JobsFormed'
    BY <1>1, <2>1, <2>2, <2>3, <2>4, GotoFormed, JobUpdate DEF TypeInv
  <2>6. QED
    BY <1>4, <2>5, OnlyJob DEF DedupHash
<1>5. CASE SameBody(w)
  <2>1. \E out \in {"done", "duplicate", "error"}, od \in DocIds \cup {None},
            d \in DocIds \cup {None}, err \in ErrorText : Conclude(w, out, od, d, err)
    BY <1>1, <1>5, <1>a DEF SameBody, JobFormed
  <2>2. job' \in [Worker -> Job] /\ JobsFormed'
    BY <1>5, <1>a, <2>1, ConcludeFormed DEF SameBody
  <2>3. QED
    BY <1>5, <2>2, OnlyJob DEF SameBody
<1>6. CASE DedupUrl(w)
  <2>1. \/ Goto(w, "near")
        \/ \E d \in DocIds :
              job' = [job EXCEPT ![w] = [@ EXCEPT !.pc = "update", !.mode = "update",
                                                  !.doc = d]]
    BY <1>6 DEF DedupUrl, find_document_by_canonical_url, Live
  <2>2. "near" \in Pc /\ JobFormed([job[w] EXCEPT !.pc = "near"])
    BY <1>1, <1>6 DEF DedupUrl, Pc, Job, JobFormed
  <2>3. \A d \in DocIds :
           [job[w] EXCEPT !.pc = "update", !.mode = "update", !.doc = d] \in Job
    BY <1>1 DEF Pc, Job
  <2>4. \A d \in DocIds :
           JobFormed([job[w] EXCEPT !.pc = "update", !.mode = "update", !.doc = d])
    BY <1>1, <1>6 DEF DedupUrl, Job, JobFormed
  <2>5. job' \in [Worker -> Job] /\ JobsFormed'
    BY <1>1, <2>1, <2>2, <2>3, <2>4, GotoFormed, JobUpdate DEF TypeInv
  <2>6. QED
    BY <1>6, <2>5, OnlyJob DEF DedupUrl
<1>7. CASE UpdateInPlace(w)
  <2>1. CASE update_document_content(job[w].doc, job[w].got) /\ Goto(w, "extract")
    <3>1. docs' \in [DocIds -> Document] /\ DocsFormed'
      BY <1>1, <1>7, <2>1 DEF UpdateInPlace, update_document_content, Document,
         DocsFormed, Live, JobFormed
    <3>2. "extract" \in Pc /\ JobFormed([job[w] EXCEPT !.pc = "extract"])
      BY <1>1, <1>7 DEF UpdateInPlace, Pc, Job, JobFormed
    <3>3. job' \in [Worker -> Job] /\ JobsFormed'
      BY <2>1, <3>2, GotoFormed
    <3>4. QED
      BY <1>7, <3>1, <3>3, JobAndDocs DEF UpdateInPlace
  <2>2. CASE /\ \E od \in DocIds \cup {None} : Conclude(w, "error", od, None, "other")
             /\ UNCHANGED docs
    <3>1. job' \in [Worker -> Job] /\ JobsFormed'
      BY <1>7, <1>a, <2>2, ConcludeFormed DEF UpdateInPlace
    <3>2. QED
      BY <1>7, <2>2, <3>1, OnlyJob DEF UpdateInPlace
  <2>3. QED
    BY <1>1, <1>7, <2>1, <2>2 DEF UpdateInPlace, JobFormed
<1>8. CASE DedupNear(w)
  <2>1. \/ Goto(w, "store")
        \/ \E d \in DocIds : Conclude(w, "duplicate", d, d, "none")
    BY <1>8 DEF DedupNear, near_duplicate_document, Live
  <2>2. "store" \in Pc /\ JobFormed([job[w] EXCEPT !.pc = "store"])
    BY <1>1, <1>8 DEF DedupNear, Pc, Job, JobFormed
  <2>3. job' \in [Worker -> Job] /\ JobsFormed'
    BY <1>8, <1>a, <2>1, <2>2, GotoFormed, ConcludeFormed DEF DedupNear
  <2>4. QED
    BY <1>8, <2>3, OnlyJob DEF DedupNear
<1>9. CASE Store(w)
  <2>1. CASE \E d \in DocIds :
               /\ insert_document(d, job[w].url, job[w].got)
               /\ job' = [job EXCEPT ![w] = [@ EXCEPT !.pc = "extract", !.doc = d]]
    <3>1. PICK d \in DocIds :
               /\ insert_document(d, job[w].url, job[w].got)
               /\ job' = [job EXCEPT ![w] = [@ EXCEPT !.pc = "extract", !.doc = d]]
      BY <2>1
    <3>2. job[w].url \in Urls /\ job[w].got \in Contents
      BY <1>1, <1>9 DEF Store, JobFormed
    <3>3. docs' \in [DocIds -> Document] /\ DocsFormed'
      BY <1>1, <3>1, <3>2 DEF insert_document, Document, DocsFormed, Live
    <3>4. [job[w] EXCEPT !.pc = "extract", !.doc = d] \in Job
      BY <1>1 DEF Pc, Job
    <3>5. JobFormed([job[w] EXCEPT !.pc = "extract", !.doc = d])
      BY <1>1, <1>9 DEF Store, Job, JobFormed
    <3>6. job' \in [Worker -> Job] /\ JobsFormed'
      BY <1>1, <3>1, <3>4, <3>5, JobUpdate DEF TypeInv
    <3>7. QED
      BY <1>9, <3>3, <3>6, JobAndDocs DEF Store
  <2>2. CASE Conclude(w, "error", None, None, "other") /\ UNCHANGED docs
    BY <1>9, <1>a, <2>2, ConcludeFormed, OnlyJob DEF Store
  <2>3. QED
    BY <1>9, <2>1, <2>2 DEF Store
<1>10. CASE Load(w)
  <2> DEFINE found == [job[w] EXCEPT !.pc = "extract", !.got = docs[job[w].doc].hash]
             lost == [job[w] EXCEPT !.pc = "record", !.err = "other"]
  <2>1. \/ job[w].doc \in Live /\ job' = [job EXCEPT ![w] = found]
        \/ job' = [job EXCEPT ![w] = lost]
    BY <1>10 DEF Load
  <2>2. lost \in Job /\ JobFormed(lost)
    BY <1>1, <1>10, <1>a DEF Load, Pc, Job, JobFormed
  <2>3. ASSUME job[w].doc \in Live PROVE found \in Job /\ JobFormed(found)
    <3>1. docs[job[w].doc].hash \in Contents
      BY <1>1, <2>3 DEF DocsFormed
    <3>2. QED
      BY <1>1, <1>10, <3>1 DEF Load, Pc, Job, JobFormed
  <2>4. job' \in [Worker -> Job] /\ JobsFormed'
    <3> HIDE DEF found, lost
    <3>1. QED
      BY <1>1, <2>1, <2>2, <2>3, JobUpdate DEF TypeInv
  <2>5. QED
    BY <1>10, <2>4, OnlyJob DEF Load
<1>11. CASE Extract(w)
  <2>1. "resolve" \in Pc /\ JobFormed([job[w] EXCEPT !.pc = "resolve"])
    BY <1>1, <1>11 DEF Extract, Pc, Job, JobFormed
  <2>2. job' \in [Worker -> Job] /\ JobsFormed'
    BY <1>11, <2>1, GotoFormed, ExtractFailsFormed DEF Extract
  <2>3. QED
    BY <1>11, <2>2, OnlyJob DEF Extract
<1>12. CASE Resolve(w)
  <2>1. job[w].doc \in DocIds /\ job[w].got \in Contents
    BY <1>1, <1>12 DEF Resolve, JobFormed
  <2>2. cited' \subseteq DocIds /\ graph' \subseteq DocIds \X Contents
    BY <1>12, <2>1 DEF Resolve, TypeInv, TypeOK, LibraryTypeOK
  <2>3. "expand" \in Pc /\ JobFormed([job[w] EXCEPT !.pc = "expand"])
    BY <1>1, <1>12 DEF Resolve, Pc, Job, JobFormed
  <2>4. \/ Goto(w, "expand")
        \/ Conclude(w, "done", job[w].doc, job[w].doc, "none")
        \/ ExtractFails(w)
    BY <1>12 DEF Resolve
  <2>5. job' \in [Worker -> Job] /\ JobsFormed'
    BY <1>12, <1>a, <2>1, <2>3, <2>4, GotoFormed, ConcludeFormed,
       ExtractFailsFormed DEF Resolve
  <2>6. QED
    BY <1>12, <2>2, <2>5 DEF Resolve, TypeInv, TypeOK, LibraryTypeOK, IngestTypeOK,
       PurgeTypeOK, DocsFormed, RowsFormed, PurgeFormed, Live, Exists
<1>13. CASE Expand(w)
  <2>1. job[w].doc \in DocIds
    BY <1>1, <1>13 DEF Expand, JobFormed
  <2>2. job' \in [Worker -> Job] /\ JobsFormed'
    BY <1>13, <1>a, <2>1, ConcludeFormed DEF Expand
  <2>3. expandq' \in [DocIds -> ExpandStatus]
    BY <1>13 DEF Expand, enqueue_expand, ExpandStatus, TypeInv, TypeOK, LibraryTypeOK
  <2>4. QED
    BY <1>13, <2>2, <2>3 DEF Expand, TypeInv, TypeOK, LibraryTypeOK, IngestTypeOK,
       PurgeTypeOK, DocsFormed, RowsFormed, PurgeFormed, Live, Exists
<1>14. CASE Finish(w)
  <2>1. /\ job[w].row \in Rows
        /\ job[w].out \in RowStatus
        /\ job[w].outdoc \in DocIds \cup {None}
        /\ job[w].err \in ErrorText
    BY <1>1, <1>14 DEF Finish, Job, JobFormed
  <2>2. InboxFormed'
    BY <1>1, <1>14, <2>1, UpdateInboxFormed DEF Finish
  <2>3. "record" \in Pc /\ JobFormed([job[w] EXCEPT !.pc = "record"])
    BY <1>1, <1>14 DEF Finish, Pc, Job, JobFormed
  <2>4. job' \in [Worker -> Job] /\ JobsFormed'
    BY <1>14, <2>3, GotoFormed, IdleFormed DEF Finish
  <2>5. QED
    BY <1>14, <2>2, <2>4, JobAndInbox DEF Finish
<1>15. CASE RecoverRecord(w)
  <2>1. /\ job[w].row \in Rows
        /\ job[w].doc \in DocIds \cup {None}
        /\ job[w].err \in ErrorText
    BY <1>1, <1>15 DEF RecoverRecord, Job, JobFormed
  <2>2. PICK status \in RowStatus :
           record_recovery_attempt(job[w].row, status, job[w].doc, job[w].err)
    BY <1>15, <1>a DEF RecoverRecord
  <2>3. InboxFormed'
    BY <1>1, <2>1, <2>2, RecordAttemptFormed
  <2>4. job' \in [Worker -> Job] /\ JobsFormed'
    BY <1>15, IdleFormed DEF RecoverRecord
  <2>5. QED
    BY <1>15, <2>3, <2>4, JobAndInbox DEF RecoverRecord
<1>16. CASE RetryRecord(w)
  <2>1. job[w].row \in Rows /\ job[w].err \in ErrorText
    BY <1>1, <1>16 DEF RetryRecord, Job, JobFormed
  <2>2. InboxFormed'
    BY <1>1, <1>16, <1>a, <2>1 DEF RetryRecord, InboxFormed, RowsFormed, Exists, InboxRow
  <2>3. job' \in [Worker -> Job] /\ JobsFormed'
    BY <1>16, IdleFormed DEF RetryRecord
  <2>4. QED
    BY <1>16, <2>2, <2>3, JobAndInbox DEF RetryRecord
<1>17. QED
  BY <1>2, <1>3, <1>4, <1>5, <1>6, <1>7, <1>8, <1>9, <1>10, <1>11, <1>12, <1>13,
     <1>14, <1>15, <1>16 DEF PipelineStep

LEMMA CrashStep ==
    ASSUME TypeInv, NEW w \in Worker, UNCHANGED purge, Crash(w)
    PROVE  TypeInv'
<1>1. job' \in [Worker -> Job] /\ JobsFormed'
  BY IdleFormed DEF Crash
<1>2. batch' \in [Worker -> SUBSET Snapshot]
  BY DEF Crash, TypeInv, TypeOK, IngestTypeOK
<1>3. cited' \subseteq DocIds
  BY DEF Crash, TypeInv, TypeOK, LibraryTypeOK, JobsFormed, JobFormed
<1>4. QED
  BY <1>1, <1>2, <1>3 DEF Crash, TypeInv, TypeOK, LibraryTypeOK, IngestTypeOK,
     PurgeTypeOK, DocsFormed, RowsFormed, PurgeFormed, Live, Exists

LEMMA BackoffStep ==
    ASSUME TypeInv, NEW r \in Rows, UNCHANGED purge, BackoffElapses(r)
    PROVE  TypeInv'
<1>1. inbox' \in [Rows -> InboxRow] /\ RowsFormed'
  BY DEF BackoffElapses, TypeInv, TypeOK, LibraryTypeOK, RowsFormed, Exists, InboxRow
<1>2. QED
  BY <1>1 DEF BackoffElapses, StoreUnchanged, TypeInv, TypeOK, LibraryTypeOK,
     IngestTypeOK, PurgeTypeOK, DocsFormed, JobsFormed, PurgeFormed, Live

LEMMA HeldFormed ==
    ASSUME TypeInv, KeepHeld
    PROVE  job' \in [Worker -> Job] /\ JobsFormed'
<1>1. ASSUME NEW w \in Worker
      PROVE  /\ [job[w] EXCEPT !.held = @ \cap tombs'] \in Job
             /\ JobFormed([job[w] EXCEPT !.held = @ \cap tombs'])
  <2>1. job[w] \in Job /\ JobFormed(job[w])
    BY DEF TypeInv, TypeOK, IngestTypeOK, JobsFormed
  <2>2. job[w].held \cap tombs' \in SUBSET Tombstone
    BY <2>1 DEF Job
  <2>3. QED
    BY <2>1, <2>2 DEF Job, JobFormed
<1>2. QED
  BY <1>1 DEF KeepHeld, JobsFormed

LEMMA HealFormed ==
    ASSUME TypeInv, NEW valid, heal_graph(valid)
    PROVE  cited' \subseteq DocIds /\ graph' \subseteq DocIds \X Contents
  BY DEF heal_graph, TypeInv, TypeOK, LibraryTypeOK

LEMMA PurgeSteps ==
    ASSUME TypeInv, PurgeNext
    PROVE  TypeInv'
<1> USE DEF ingestVars
<1>1. CASE \E p \in Purgers : PurgeBegin(p) /\ UNCHANGED ingestVars
  <2>1. PICK p \in Purgers : PurgeBegin(p) /\ UNCHANGED ingestVars
    BY <1>1
  <2>2. purge' \in [Purgers -> PurgeJob] /\ PurgeFormed'
    BY <2>1 DEF PurgeBegin, TypeInv, TypeOK, PurgeTypeOK, PurgeJob, PurgeFormed,
       DocsFormed, Live
  <2>3. QED
    BY <2>1, <2>2 DEF PurgeBegin, libraryVars, TypeInv, TypeOK, LibraryTypeOK,
       IngestTypeOK, PurgeTypeOK, DocsFormed, RowsFormed, JobsFormed, Live, Exists
<1>2. CASE \E p \in Purgers : PurgeDelete(p) /\ KeepHeld
  <2>1. PICK p \in Purgers : PurgeDelete(p) /\ KeepHeld
    BY <1>2
  <2>2. LibraryTypeOK' /\ DocsFormed' /\ RowsFormed'
    <3>1. PICK mark \in BOOLEAN :
             delete_document(purge[p].doc, purge[p].url, purge[p].hash, mark)
      BY <2>1 DEF PurgeDelete
    <3>2. /\ purge[p].doc \in DocIds
          /\ purge[p].url \in Urls
          /\ purge[p].hash \in Contents
      BY <2>1 DEF PurgeDelete, TypeInv, PurgeFormed
    <3>3. QED
      BY <2>1, <3>1, <3>2, DeleteFormed DEF PurgeDelete, TypeInv, TypeOK
  <2>3. purge' \in [Purgers -> PurgeJob] /\ PurgeFormed'
    BY <2>1 DEF PurgeDelete, IdlePurge, TypeInv, TypeOK, PurgeTypeOK, PurgeJob,
       PurgeFormed
  <2>4. job' \in [Worker -> Job] /\ JobsFormed'
    BY <2>1, HeldFormed
  <2>5. batch' = batch
    BY <2>1 DEF KeepHeld
  <2>6. QED
    BY <2>2, <2>3, <2>4, <2>5 DEF TypeInv, TypeOK, IngestTypeOK, PurgeTypeOK
<1>3. CASE \E p \in Purgers : HealPrune(p) /\ UNCHANGED ingestVars
  <2>1. PICK p \in Purgers : HealPrune(p) /\ UNCHANGED ingestVars
    BY <1>3
  <2>2. purge' \in [Purgers -> PurgeJob] /\ PurgeFormed'
    BY <2>1 DEF HealPrune, IdlePurge, TypeInv, TypeOK, PurgeTypeOK, PurgeJob,
       PurgeFormed
  <2>3. cited' \subseteq DocIds /\ graph' \subseteq DocIds \X Contents
    BY <2>1, HealFormed DEF HealPrune
  <2>4. QED
    BY <2>1, <2>2, <2>3 DEF HealPrune, TypeInv, TypeOK, LibraryTypeOK,
       IngestTypeOK, PurgeTypeOK, DocsFormed, RowsFormed, JobsFormed, Live, Exists
<1>4. CASE \E p \in Purgers : PurgeCrash(p) /\ UNCHANGED ingestVars
  <2>1. PICK p \in Purgers : PurgeCrash(p) /\ UNCHANGED ingestVars
    BY <1>4
  <2>2. purge' \in [Purgers -> PurgeJob] /\ PurgeFormed'
    BY <2>1 DEF PurgeCrash, IdlePurge, TypeInv, TypeOK, PurgeTypeOK, PurgeJob,
       PurgeFormed
  <2>3. QED
    BY <2>1, <2>2 DEF PurgeCrash, libraryVars, TypeInv, TypeOK, LibraryTypeOK,
       IngestTypeOK, PurgeTypeOK, DocsFormed, RowsFormed, JobsFormed, Live, Exists
<1>5. CASE \E p \in Purgers : PurgeRollback(p) /\ UNCHANGED ingestVars
  <2>1. PICK p \in Purgers : PurgeRollback(p) /\ UNCHANGED ingestVars
    BY <1>5
  <2>2. purge' \in [Purgers -> PurgeJob] /\ PurgeFormed'
    BY <2>1 DEF PurgeRollback, TypeInv, TypeOK, PurgeTypeOK, PurgeJob, PurgeFormed
  <2>3. cited' \subseteq DocIds /\ graph' \subseteq DocIds \X Contents
    BY <2>1 DEF PurgeRollback, TypeInv, TypeOK, LibraryTypeOK
  <2>4. QED
    BY <2>1, <2>2, <2>3 DEF PurgeRollback, TypeInv, TypeOK, LibraryTypeOK,
       IngestTypeOK, PurgeTypeOK, DocsFormed, RowsFormed, JobsFormed, Live, Exists
<1>6. CASE \E T \in SUBSET tombs : Untombstone(T) /\ KeepHeld
  <2>1. PICK T \in SUBSET tombs : Untombstone(T) /\ KeepHeld
    BY <1>6
  <2>2. tombs' \subseteq Tombstone /\ inbox' \in [Rows -> InboxRow] /\ RowsFormed'
    BY <2>1, UntombstoneFormed DEF Untombstone, TypeInv, TypeOK
  <2>3. job' \in [Worker -> Job] /\ JobsFormed'
    BY <2>1, HeldFormed
  <2>4. QED
    BY <2>1, <2>2, <2>3 DEF Untombstone, KeepHeld, TypeInv, TypeOK, LibraryTypeOK,
       IngestTypeOK, PurgeTypeOK, DocsFormed, PurgeFormed, Live
<1>7. CASE \E p \in Purgers : HealBegin(p) /\ UNCHANGED ingestVars
  <2>1. PICK p \in Purgers : HealBegin(p) /\ UNCHANGED ingestVars
    BY <1>7
  <2>2. purge' \in [Purgers -> PurgeJob] /\ PurgeFormed'
    BY <2>1 DEF HealBegin, IdlePurge, TypeInv, TypeOK, PurgeTypeOK, PurgeJob,
       PurgeFormed, Live
  <2>3. QED
    BY <2>1, <2>2 DEF HealBegin, libraryVars, TypeInv, TypeOK, LibraryTypeOK,
       IngestTypeOK, PurgeTypeOK, DocsFormed, RowsFormed, JobsFormed, Live, Exists
<1>8. QED
  BY <1>1, <1>2, <1>3, <1>4, <1>5, <1>6, <1>7 DEF PurgeNext

LEMMA TypeInvInit == Init => TypeInv
<1> SUFFICES ASSUME Init PROVE TypeInv
  OBVIOUS
<1>1. LibraryTypeOK /\ DocsFormed /\ RowsFormed
  BY DEF Init, LibraryInit, LibraryTypeOK, DocsFormed, RowsFormed, Live, Exists,
     NoDocument, Document, NoRow, InboxRow, RowStatus, ErrorText, ExpandStatus
<1>2. IngestTypeOK /\ JobsFormed
  BY DEF Init, IngestInit, IngestTypeOK, JobsFormed, JobFormed, IdleJob, Job, Pc,
     RowStatus, ErrorText
<1>3. PurgeTypeOK /\ PurgeFormed
  BY DEF Init, PurgeInit, PurgeTypeOK, PurgeFormed, IdlePurge, PurgeJob
<1>4. QED
  BY <1>1, <1>2, <1>3 DEF TypeInv, TypeOK

LEMMA TypeInvStep == TypeInv /\ [Next]_vars => TypeInv'
<1> SUFFICES ASSUME TypeInv, [Next]_vars PROVE TypeInv'
  OBVIOUS
<1>1. CASE IngestNext /\ UNCHANGED purge
  BY <1>1, IntakeSteps, PipelineSteps, CrashStep, BackoffStep DEF IngestNext
<1>2. CASE PurgeNext
  BY <1>2, PurgeSteps
<1>3. CASE UNCHANGED vars
  BY <1>3 DEF vars, TypeInv, TypeOK, LibraryTypeOK, IngestTypeOK, PurgeTypeOK,
     DocsFormed, RowsFormed, JobsFormed, PurgeFormed, Live, Exists
<1>4. QED
  BY <1>1, <1>2, <1>3 DEF Next

(* Every variable keeps its type, for any rows, documents and workers.     *)
THEOREM TypeCorrect == Spec => []TypeOK
<1>1. Spec => []TypeInv
  BY TypeInvInit, TypeInvStep, PTL DEF Spec
<1>2. TypeInv => TypeOK
  BY DEF TypeInv
<1>3. QED
  BY <1>1, <1>2, PTL

-----------------------------------------------------------------------------
(* What the jobs do to each other: nothing.                                *)

(* The steps between the tombstone screen and the insert or update.        *)
Screened == {"hash", "url", "update", "near", "store"}

(* What one step of the pipeline does to the jobs: it moves worker w only, *)
(* keeps the row, the URL and the tombstones its job owes, and reaches a   *)
(* screened step only from one, or by passing the screen.                  *)
JobEffect(w) ==
    /\ job[w].pc # "idle"
    /\ \A v \in Worker : v # w => job'[v] = job[v]
    /\ job'[w].pc # "idle" =>
          /\ job'[w].row = job[w].row
          /\ job'[w].url = job[w].url
          /\ job'[w].held = job[w].held
    /\ job'[w].pc \in Screened =>
          /\ job'[w].got = job[w].got
          /\ \/ job[w].pc \in Screened
             \/ ~ is_tombstoned(job[w].url, job[w].got)

LEMMA SetEffect ==
    ASSUME TypeInv, NEW w \in Worker, NEW j, job' = [job EXCEPT ![w] = j],
           job[w].pc # "idle",
           j.pc # "idle" => /\ j.row = job[w].row
                            /\ j.url = job[w].url
                            /\ j.held = job[w].held,
           j.pc \notin Screened
    PROVE  JobEffect(w)
  BY DEF TypeInv, TypeOK, IngestTypeOK, JobEffect

LEMMA GotoEffect ==
    ASSUME TypeInv, NEW w \in Worker, NEW pc \in Pc, Goto(w, pc),
           job[w].pc # "idle", pc # "idle",
           pc \in Screened => \/ job[w].pc \in Screened
                              \/ ~ is_tombstoned(job[w].url, job[w].got)
    PROVE  JobEffect(w)
<1>1. job[w] \in Job /\ job \in [Worker -> Job]
  BY DEF TypeInv, TypeOK, IngestTypeOK
<1>2. job' = [job EXCEPT ![w] = [job[w] EXCEPT !.pc = pc]]
  BY DEF Goto
<1>3. /\ job'[w] = [job[w] EXCEPT !.pc = pc]
      /\ \A v \in Worker : v # w => job'[v] = job[v]
  BY <1>1, <1>2
<1>4. QED
  BY <1>1, <1>3 DEF Job, JobEffect

LEMMA ConcludeEffect ==
    ASSUME TypeInv, NEW w \in Worker, NEW out, NEW od, NEW d, NEW err,
           Conclude(w, out, od, d, err), job[w].pc # "idle"
    PROVE  JobEffect(w)
<1> DEFINE j == [job[w] EXCEPT !.pc = "finish", !.out = out, !.outdoc = od,
                               !.doc = d, !.err = err]
<1>1. job[w] \in Job
  BY DEF TypeInv, TypeOK, IngestTypeOK
<1>2. /\ j.pc = "finish" /\ j.row = job[w].row
      /\ j.url = job[w].url /\ j.held = job[w].held
  BY <1>1 DEF Job
<1>3. job' = [job EXCEPT ![w] = j]
  BY DEF Conclude
<1>4. j.pc \notin Screened
  BY <1>2 DEF Screened
<1> HIDE DEF j
<1>5. QED
  BY <1>2, <1>3, <1>4, SetEffect

LEMMA IdleEffect ==
    ASSUME TypeInv, NEW w \in Worker, job[w].pc # "idle",
           job' = [job EXCEPT ![w] = IdleJob]
    PROVE  JobEffect(w)
<1>1. IdleJob.pc = "idle" /\ IdleJob.pc \notin Screened
  BY DEF IdleJob, Screened
<1>2. QED
  BY <1>1, SetEffect

LEMMA ExtractFailsEffect ==
    ASSUME TypeInv, NEW w \in Worker, ExtractFails(w), job[w].pc # "idle"
    PROVE  JobEffect(w)
<1> DEFINE j == [job[w] EXCEPT !.pc = "record", !.err = "other"]
<1>1. job[w] \in Job
  BY DEF TypeInv, TypeOK, IngestTypeOK
<1>2. /\ j.pc = "record" /\ j.row = job[w].row
      /\ j.url = job[w].url /\ j.held = job[w].held
  BY <1>1 DEF Job
<1>3. j.pc \notin Screened
  BY <1>2 DEF Screened
<1>4. job' = [job EXCEPT ![w] = j]
      \/ Conclude(w, "error", job[w].doc, job[w].doc, "other")
  BY DEF ExtractFails
<1> HIDE DEF j
<1>5. QED
  BY <1>2, <1>3, <1>4, SetEffect, ConcludeEffect

LEMMA PipelineEffect ==
    ASSUME TypeInv, NEW w \in Worker, PipelineStep(w)
    PROVE  JobEffect(w) /\ batch' = batch /\ tombs' = tombs
<1> USE DEF StoreUnchanged
<1>1. job \in [Worker -> Job] /\ job[w] \in Job
  BY DEF TypeInv, TypeOK, IngestTypeOK
<1>2. CASE Fetch(w)
  <2>1. CASE \E c \in Contents :
               job' = [job EXCEPT ![w] = [@ EXCEPT !.pc = "screen", !.got = c]]
    <3>1. PICK c \in Contents :
               job' = [job EXCEPT ![w] = [@ EXCEPT !.pc = "screen", !.got = c]]
      BY <2>1
    <3> DEFINE j == [job[w] EXCEPT !.pc = "screen", !.got = c]
    <3>2. /\ j.pc = "screen" /\ j.row = job[w].row
          /\ j.url = job[w].url /\ j.held = job[w].held
      BY <1>1 DEF Job
    <3>3. j.pc \notin Screened
      BY <3>2 DEF Screened
    <3> HIDE DEF j
    <3>4. QED
      BY <1>2, <3>1, <3>2, <3>3, SetEffect DEF Fetch, j
  <2>2. QED
    BY <1>2, <2>1, ConcludeEffect DEF Fetch
<1>3. CASE Screen(w)
  <2>1. \/ ~ is_tombstoned(job[w].url, job[w].got) /\ Goto(w, "hash")
        \/ \E out, d, err : Conclude(w, out, d, d, err)
    BY <1>3 DEF Screen
  <2>2. QED
    BY <1>3, <2>1, GotoEffect, ConcludeEffect DEF Screen, Pc
<1>4. CASE DedupHash(w)
  <2>1. CASE Goto(w, "url")
    BY <1>4, <2>1, GotoEffect DEF DedupHash, Pc, Screened
  <2>2. ASSUME NEW d,
               job' = [job EXCEPT ![w] = [@ EXCEPT !.pc = "same", !.doc = d]]
        PROVE  JobEffect(w)
    <3>1. /\ job'[w] = [job[w] EXCEPT !.pc = "same", !.doc = d]
          /\ \A v \in Worker : v # w => job'[v] = job[v]
      BY <1>1, <2>2
    <3>2. QED
      BY <1>1, <1>4, <3>1 DEF DedupHash, Job, JobEffect, Screened
  <2>3. QED
    BY <1>4, <2>1, <2>2 DEF DedupHash
<1>5. CASE SameBody(w)
  BY <1>5, ConcludeEffect DEF SameBody
<1>6. CASE DedupUrl(w)
  <2>1. CASE Goto(w, "near")
    BY <1>6, <2>1, GotoEffect DEF DedupUrl, Pc, Screened
  <2>2. ASSUME NEW d,
               job' = [job EXCEPT ![w] = [@ EXCEPT !.pc = "update", !.mode = "update",
                                                   !.doc = d]]
        PROVE  JobEffect(w)
    <3>1. /\ job'[w] = [job[w] EXCEPT !.pc = "update", !.mode = "update", !.doc = d]
          /\ \A v \in Worker : v # w => job'[v] = job[v]
      BY <1>1, <2>2
    <3>2. QED
      BY <1>1, <1>6, <3>1 DEF DedupUrl, Job, JobEffect, Screened
  <2>3. QED
    BY <1>6, <2>1, <2>2 DEF DedupUrl
<1>7. CASE UpdateInPlace(w)
  <2>1. Goto(w, "extract") \/ \E od : Conclude(w, "error", od, None, "other")
    BY <1>7 DEF UpdateInPlace
  <2>2. QED
    BY <1>7, <2>1, GotoEffect, ConcludeEffect DEF UpdateInPlace, Pc, Screened
<1>8. CASE DedupNear(w)
  <2>1. Goto(w, "store") \/ \E d : Conclude(w, "duplicate", d, d, "none")
    BY <1>8 DEF DedupNear
  <2>2. QED
    BY <1>8, <2>1, GotoEffect, ConcludeEffect DEF DedupNear, Pc, Screened
<1>9. CASE Store(w)
  <2>1. ASSUME NEW d,
               job' = [job EXCEPT ![w] = [@ EXCEPT !.pc = "extract", !.doc = d]]
        PROVE  JobEffect(w)
    <3>1. /\ job'[w] = [job[w] EXCEPT !.pc = "extract", !.doc = d]
          /\ \A v \in Worker : v # w => job'[v] = job[v]
      BY <1>1, <2>1
    <3>2. QED
      BY <1>1, <1>9, <3>1 DEF Store, Job, JobEffect, Screened
  <2>2. QED
    BY <1>9, <2>1, ConcludeEffect DEF Store
<1>10. CASE Load(w)
  <2>1. PICK j : /\ job' = [job EXCEPT ![w] = j]
                 /\ \/ j = [job[w] EXCEPT !.pc = "extract", !.got = docs[job[w].doc].hash]
                    \/ j = [job[w] EXCEPT !.pc = "record", !.err = "other"]
    BY <1>10 DEF Load
  <2>2. /\ j.pc \in {"extract", "record"} /\ j.row = job[w].row
        /\ j.url = job[w].url /\ j.held = job[w].held
    BY <1>1, <2>1 DEF Job
  <2>3. j.pc \notin Screened
    BY <2>2 DEF Screened
  <2>4. QED
    BY <1>10, <2>1, <2>2, <2>3, SetEffect DEF Load
<1>11. CASE Extract(w)
  BY <1>11, GotoEffect, ExtractFailsEffect DEF Extract, Pc, Screened
<1>12. CASE Resolve(w)
  <2>1. Goto(w, "expand") \/ ExtractFails(w)
        \/ Conclude(w, "done", job[w].doc, job[w].doc, "none")
    BY <1>12 DEF Resolve
  <2>2. QED
    BY <1>12, <2>1, GotoEffect, ConcludeEffect, ExtractFailsEffect
       DEF Resolve, Pc, Screened
<1>13. CASE Expand(w)
  BY <1>13, ConcludeEffect DEF Expand
<1>14. CASE Finish(w)
  BY <1>14, GotoEffect, IdleEffect DEF Finish, Pc, Screened
<1>15. CASE RecoverRecord(w)
  BY <1>15, IdleEffect DEF RecoverRecord
<1>16. CASE RetryRecord(w)
  BY <1>16, IdleEffect DEF RetryRecord
<1>17. QED
  BY <1>2, <1>3, <1>4, <1>5, <1>6, <1>7, <1>8, <1>9, <1>10, <1>11, <1>12, <1>13,
     <1>14, <1>15, <1>16 DEF PipelineStep

-----------------------------------------------------------------------------
(* The retry bound.  With one process that runs recover_failed, a row in   *)
(* its snapshot, or under its job, still has an attempt left: nobody else  *)
(* counts attempts up, and it holds each row once.                         *)
RowsInHand(w) ==
    /\ \A s \in batch[w] : inbox[s.row].attempts < MaxAttempts
    /\ \A s, t \in batch[w] : s.row = t.row => s = t
    /\ job[w].pc # "idle" =>
          /\ inbox[job[w].row].attempts < MaxAttempts
          /\ \A s \in batch[w] : s.row # job[w].row

AttemptsInv ==
    /\ AttemptsBounded
    /\ \A w \in Recoverers : RowsInHand(w)

(* A step that counts no attempt and gives no recoverer a row keeps it.    *)
LEMMA AttemptsQuiet ==
    ASSUME TypeInv, AttemptsInv,
           \A r \in Rows : inbox'[r].attempts \in Nat
                           /\ inbox'[r].attempts <= inbox[r].attempts,
           \A w \in Recoverers :
              /\ batch'[w] \subseteq batch[w]
              /\ job'[w].pc # "idle" => job[w].pc # "idle" /\ job'[w].row = job[w].row
    PROVE  AttemptsInv'
<1>1. MaxAttempts \in Nat /\ \A r \in Rows : inbox[r].attempts \in Nat
  BY IngestAssumption DEF TypeInv, TypeOK, LibraryTypeOK, InboxRow
<1>2. AttemptsBounded'
  BY <1>1 DEF AttemptsInv, AttemptsBounded
<1>3. ASSUME NEW w \in Recoverers PROVE RowsInHand(w)'
  <2>1. w \in Worker
    BY DEF Worker
  <2>2. /\ \A s \in batch[w] : s.row \in Rows
        /\ job[w].pc # "idle" => job[w].row \in Rows
    BY <2>1 DEF TypeInv, TypeOK, IngestTypeOK, Snapshot, JobsFormed, JobFormed
  <2>3. RowsInHand(w)
    BY DEF AttemptsInv
  <2>4. QED
    BY <1>1, <2>2, <2>3 DEF RowsInHand
<1>4. QED
  BY <1>2, <1>3 DEF AttemptsInv

(* Only recover_failed's own record counts an attempt.                     *)
LEMMA AttemptsKept ==
    ASSUME TypeInv, NEW w \in Worker, PipelineStep(w), ~ RecoverRecord(w),
           NEW r \in Rows
    PROVE  inbox'[r].attempts = inbox[r].attempts
<1>1. inbox \in [Rows -> InboxRow]
  BY DEF TypeInv, TypeOK, LibraryTypeOK
<1>2. CASE UNCHANGED inbox
  BY <1>2
<1>3. CASE Finish(w)
  BY <1>1, <1>3 DEF Finish, update_inbox, InboxRow
<1>4. CASE RetryRecord(w)
  BY <1>1, <1>4 DEF RetryRecord, InboxRow
<1>5. QED
  BY <1>2, <1>3, <1>4 DEF PipelineStep, Fetch, Screen, DedupHash, SameBody, DedupUrl,
     UpdateInPlace, DedupNear, Store, Load, Extract, Resolve, Expand

LEMMA RecoverRecordKeeps ==
    ASSUME TypeInv, AttemptsInv, NEW w \in Recoverers, RecoverRecord(w),
           \A v \in Recoverers : v = w
    PROVE  AttemptsInv'
<1> DEFINE q == job[w].row
<1>1. w \in Worker
  BY DEF Worker
<1>2. /\ inbox \in [Rows -> InboxRow]
      /\ job \in [Worker -> Job]
      /\ \A s \in batch[w] : s.row \in Rows
      /\ q \in Rows
  BY <1>1 DEF TypeInv, TypeOK, LibraryTypeOK, IngestTypeOK, Snapshot, JobsFormed,
     JobFormed, RecoverRecord
<1>3. /\ RowsInHand(w)
      /\ inbox[q].attempts < MaxAttempts
      /\ \A s \in batch[w] : s.row # q
  BY DEF AttemptsInv, RowsInHand, RecoverRecord
<1>4. /\ \A r \in Rows : r # q => inbox'[r].attempts = inbox[r].attempts
      /\ inbox'[q].attempts \in {inbox[q].attempts, inbox[q].attempts + 1}
  BY <1>2 DEF RecoverRecord, record_recovery_attempt, InboxRow
<1>5. MaxAttempts \in Nat /\ \A r \in Rows : inbox[r].attempts \in Nat
  BY <1>2, IngestAssumption DEF InboxRow
<1>6. AttemptsBounded'
  BY <1>2, <1>3, <1>4, <1>5 DEF AttemptsInv, AttemptsBounded
<1>7. job'[w].pc = "idle" /\ batch' = batch
  BY <1>1, <1>2 DEF RecoverRecord, IdleJob
<1>8. RowsInHand(w)'
  BY <1>2, <1>3, <1>4, <1>7 DEF RowsInHand
<1>9. QED
  BY <1>6, <1>8 DEF AttemptsInv

LEMMA ClaimKeeps ==
    ASSUME TypeInv, AttemptsInv, NEW w \in Recoverers, Claim(w),
           \A v \in Recoverers : v = w
    PROVE  AttemptsInv'
<1>1. PICK R \in SUBSET Rows :
         /\ \A r \in R : inbox[r].attempts < MaxAttempts
         /\ batch' = [batch EXCEPT ![w] = {RowSnapshot(r) : r \in R}]
  BY DEF Claim, due_for_recovery
<1>2. w \in Worker /\ batch \in [Worker -> SUBSET Snapshot]
  BY DEF Worker, TypeInv, TypeOK, IngestTypeOK
<1>3. batch'[w] = {RowSnapshot(r) : r \in R}
  BY <1>1, <1>2
<1>4. \A r \in R : RowSnapshot(r).row = r
  BY DEF RowSnapshot
<1>5. job' = job /\ inbox' = inbox /\ job[w].pc = "idle"
  BY DEF Claim
<1>6. RowsInHand(w)'
  BY <1>1, <1>3, <1>4, <1>5 DEF RowsInHand
<1>7. QED
  BY <1>5, <1>6 DEF AttemptsInv, AttemptsBounded

LEMMA TakeNextKeeps ==
    ASSUME TypeInv, AttemptsInv, NEW w \in Recoverers, TakeNext(w),
           \A v \in Recoverers : v = w
    PROVE  AttemptsInv'
<1>1. PICK s \in batch[w] :
         /\ batch' = [batch EXCEPT ![w] = @ \ {s}]
         /\ \/ StartRetryExtract(w, s.row, s.url, s.doc, s.att)
            \/ StartIngest(w, s.row, s.url, s.att, FALSE)
  BY DEF TakeNext, NextInBatch
<1>2. /\ w \in Worker
      /\ batch \in [Worker -> SUBSET Snapshot]
      /\ job \in [Worker -> Job]
  BY DEF Worker, TypeInv, TypeOK, IngestTypeOK
<1>3. job'[w].row = s.row
  BY <1>1, <1>2 DEF StartRetryExtract, StartIngest, IdleJob
<1>4. batch'[w] = batch[w] \ {s}
  BY <1>1, <1>2
<1>5. inbox' = inbox
  BY DEF TakeNext
<1>6. RowsInHand(w)
  BY DEF AttemptsInv
<1>7. RowsInHand(w)'
  BY <1>1, <1>3, <1>4, <1>5, <1>6 DEF RowsInHand
<1>8. QED
  BY <1>5, <1>7 DEF AttemptsInv, AttemptsBounded

(* What starts elsewhere leaves the recoverers alone.                      *)
LEMMA OtherIntakesKeep ==
    ASSUME TypeInv, AttemptsInv, NEW w \in Worker,
           Submit(w) \/ ListFailed(w) \/ Replay(w) \/ Retry(w)
    PROVE  AttemptsInv'
<1>1. /\ inbox \in [Rows -> InboxRow]
      /\ job \in [Worker -> Job]
      /\ batch \in [Worker -> SUBSET Snapshot]
  BY DEF TypeInv, TypeOK, LibraryTypeOK, IngestTypeOK
<1>2. w \notin Recoverers
  BY IngestAssumption DEF Submit, ListFailed, Replay, Retry
<1>3. \A v \in Recoverers : job'[v] = job[v] /\ batch'[v] = batch[v]
  BY <1>1, <1>2 DEF Submit, ListFailed, Replay, Retry, StartIngest,
     StartRetryExtract, NextInBatch, Worker
<1>4. \A r \in Rows : inbox'[r].attempts \in Nat
                      /\ inbox'[r].attempts <= inbox[r].attempts
  <2>1. CASE UNCHANGED inbox
    BY <1>1, <2>1 DEF InboxRow
  <2>2. ASSUME NEW q \in Rows, NEW u, log_inbox(q, u)
        PROVE  \A r \in Rows : inbox'[r].attempts \in Nat
                               /\ inbox'[r].attempts <= inbox[r].attempts
    BY <1>1, <2>2 DEF log_inbox, NoRow, InboxRow
  <2>3. QED
    BY <2>1, <2>2 DEF Submit, ListFailed, Replay, Retry
<1>5. QED
  BY <1>3, <1>4, AttemptsQuiet

LEMMA PipelineKeepsAttempts ==
    ASSUME TypeInv, AttemptsInv, NEW w \in Worker, PipelineStep(w),
           \A u, v \in Recoverers : u = v
    PROVE  AttemptsInv'
<1>1. CASE RecoverRecord(w)
  BY <1>1, RecoverRecordKeeps DEF RecoverRecord
<1>2. CASE ~ RecoverRecord(w)
  <2>1. inbox \in [Rows -> InboxRow]
    BY DEF TypeInv, TypeOK, LibraryTypeOK
  <2>2. \A r \in Rows : inbox'[r].attempts = inbox[r].attempts
    BY <1>2, AttemptsKept
  <2>3. \A v \in Recoverers :
           /\ batch'[v] = batch[v]
           /\ job'[v].pc # "idle" => job[v].pc # "idle" /\ job'[v].row = job[v].row
    BY PipelineEffect DEF JobEffect, Worker
  <2>4. \A r \in Rows : inbox'[r].attempts \in Nat
                        /\ inbox'[r].attempts <= inbox[r].attempts
    BY <2>1, <2>2 DEF InboxRow
  <2>5. QED
    BY <2>3, <2>4, AttemptsQuiet
<1>3. QED
  BY <1>1, <1>2

LEMMA OtherStepsKeepAttempts ==
    ASSUME TypeInv, AttemptsInv,
           \/ \E w \in Worker : Crash(w)
           \/ \E r \in Rows : BackoffElapses(r)
           \/ PurgeNext
    PROVE  AttemptsInv'
<1>1. /\ inbox \in [Rows -> InboxRow]
      /\ job \in [Worker -> Job]
      /\ batch \in [Worker -> SUBSET Snapshot]
  BY DEF TypeInv, TypeOK, LibraryTypeOK, IngestTypeOK
<1>2. CASE \E w \in Worker : Crash(w)
  <2>1. PICK w \in Worker : Crash(w)
    BY <1>2
  <2>2. \A v \in Recoverers :
           /\ batch'[v] \subseteq batch[v]
           /\ job'[v].pc # "idle" => job[v].pc # "idle" /\ job'[v].row = job[v].row
    BY <1>1, <2>1 DEF Crash, IdleJob, Worker
  <2>3. QED
    BY <1>1, <2>1, <2>2, AttemptsQuiet DEF Crash, InboxRow
<1>3. CASE \E r \in Rows : BackoffElapses(r)
  <2>1. PICK q \in Rows : BackoffElapses(q)
    BY <1>3
  <2>2. \A r \in Rows : inbox'[r].attempts = inbox[r].attempts
    BY <1>1, <2>1 DEF BackoffElapses, InboxRow
  <2>3. QED
    BY <1>1, <2>1, <2>2, AttemptsQuiet DEF BackoffElapses, InboxRow
<1>4. CASE PurgeNext
  <2>1. \A v \in Recoverers :
           /\ batch'[v] = batch[v]
           /\ job'[v].pc # "idle" => job[v].pc # "idle" /\ job'[v].row = job[v].row
    <3>1. CASE UNCHANGED ingestVars
      BY <3>1 DEF ingestVars
    <3>2. CASE KeepHeld
      BY <1>1, <3>2 DEF KeepHeld, Worker, Job
    <3>3. QED
      BY <1>4, <3>1, <3>2 DEF PurgeNext
  <2>2. \A r \in Rows : inbox'[r].attempts \in Nat
                        /\ inbox'[r].attempts <= inbox[r].attempts
    <3>1. CASE UNCHANGED inbox
      BY <1>1, <3>1 DEF InboxRow
    <3>2. CASE \E p \in Purgers : PurgeDelete(p)
      <4>1. PICK d : inbox' = [r \in Rows |-> IF inbox[r].doc = d /\ Exists(r)
                                              THEN [NoRow EXCEPT !.status = "deleted"]
                                              ELSE inbox[r]]
        BY <3>2 DEF PurgeDelete, delete_document
      <4>2. \A r \in Rows : inbox'[r].attempts \in {0, inbox[r].attempts}
        BY <4>1 DEF NoRow
      <4>3. \A r \in Rows : inbox[r].attempts \in Nat
        BY <1>1 DEF InboxRow
      <4>4. QED
        BY <4>2, <4>3
    <3>3. CASE \E T \in SUBSET tombs : Untombstone(T)
      <4>1. PICK T : remove_tombstones(T)
        BY <3>3 DEF Untombstone
      <4>2. \A r \in Rows : inbox'[r].attempts \in {0, inbox[r].attempts}
        BY <1>1, <4>1 DEF remove_tombstones, InboxRow
      <4>3. \A r \in Rows : inbox[r].attempts \in Nat
        BY <1>1 DEF InboxRow
      <4>4. QED
        BY <4>2, <4>3
    <3>4. QED
      BY <1>4, <3>1, <3>2, <3>3 DEF PurgeNext, PurgeBegin, PurgeRollback, HealBegin,
         HealPrune, PurgeCrash, libraryVars
  <2>3. QED
    BY <2>1, <2>2, AttemptsQuiet
<1>5. QED
  BY <1>2, <1>3, <1>4

LEMMA AttemptsInvInit == Init => AttemptsInv
<1> SUFFICES ASSUME Init PROVE AttemptsInv
  OBVIOUS
<1>1. MaxAttempts \in Nat
  BY IngestAssumption
<1>2. \A w \in Recoverers : job[w].pc = "idle" /\ batch[w] = {}
  BY DEF Init, IngestInit, IdleJob, Worker
<1>3. \A r \in Rows : inbox[r].attempts = 0
  BY DEF Init, LibraryInit, NoRow
<1>4. QED
  BY <1>1, <1>2, <1>3 DEF AttemptsInv, AttemptsBounded, RowsInHand

LEMMA AttemptsInvStep ==
    ASSUME \A u, v \in Recoverers : u = v
    PROVE  TypeInv /\ AttemptsInv /\ [Next]_vars => AttemptsInv'
<1> SUFFICES ASSUME TypeInv, AttemptsInv, [Next]_vars PROVE AttemptsInv'
  OBVIOUS
<1>1. CASE IngestNext
  <2>1. CASE \E w \in Worker : Claim(w) \/ TakeNext(w)
    BY <2>1, ClaimKeeps, TakeNextKeeps DEF Claim, TakeNext
  <2>2. QED
    BY <1>1, <2>1, OtherIntakesKeep, PipelineKeepsAttempts, OtherStepsKeepAttempts
       DEF IngestNext
<1>2. CASE PurgeNext
  BY <1>2, OtherStepsKeepAttempts
<1>3. CASE UNCHANGED vars
  BY <1>3 DEF vars, AttemptsInv, AttemptsBounded, RowsInHand
<1>4. QED
  BY <1>1, <1>2, <1>3 DEF Next

(* No row is tried more than MaxAttempts times, however manual retries,    *)
(* crashes, purges and lifted tombstones interleave with recover_failed,   *)
(* as long as one process runs it.                                         *)
THEOREM AttemptsStayBounded ==
    ASSUME \A u, v \in Recoverers : u = v
    PROVE  Spec => []AttemptsBounded
<1>1. Spec => [](TypeInv /\ AttemptsInv)
  BY TypeInvInit, TypeInvStep, AttemptsInvInit, AttemptsInvStep, PTL DEF Spec
<1>2. AttemptsInv => AttemptsBounded
  BY DEF AttemptsInv
<1>3. QED
  BY <1>1, <1>2, PTL

-----------------------------------------------------------------------------
(* The tombstone screen.                                                   *)
HeldInv ==
    \A w \in Worker :
        /\ job[w].pc # "idle" => job[w].held \subseteq tombs
        /\ job[w].pc \in Screened =>
              \A t \in job[w].held : ~ MatchesTombstone(t, job[w].url, job[w].got)

(* A step that keeps the tombstones and starts no job.                     *)
LEMMA HeldAfterStart ==
    ASSUME HeldInv, NEW w \in Worker, tombs' = tombs,
           \A v \in Worker : v # w => job'[v] = job[v],
           job'[w].held = tombs, job'[w].pc \notin Screened
    PROVE  HeldInv'
  BY DEF HeldInv, Screened

LEMMA PipelineKeepsHeld ==
    ASSUME TypeInv, HeldInv, NEW w \in Worker, PipelineStep(w)
    PROVE  HeldInv'
<1>1. JobEffect(w) /\ tombs' = tombs
  BY PipelineEffect
<1>2. job'[w].pc # "idle" => job'[w].held \subseteq tombs'
  BY <1>1 DEF HeldInv, JobEffect
<1>3. job'[w].pc \in Screened =>
         \A t \in job'[w].held : ~ MatchesTombstone(t, job'[w].url, job'[w].got)
  BY <1>1, <1>2 DEF HeldInv, JobEffect, is_tombstoned, Screened
<1>4. QED
  BY <1>1, <1>2, <1>3 DEF HeldInv, JobEffect

LEMMA IntakesKeepHeld ==
    ASSUME TypeInv, HeldInv, NEW w \in Worker,
           \/ Submit(w) \/ ListFailed(w) \/ Replay(w)
           \/ Claim(w) \/ TakeNext(w) \/ Retry(w)
    PROVE  HeldInv'
<1>1. job \in [Worker -> Job] /\ tombs' = tombs
  BY DEF TypeInv, TypeOK, IngestTypeOK, Submit, ListFailed, Replay, Claim, TakeNext,
     Retry, StoreUnchanged
<1>2. ASSUME NEW r, NEW u, NEW att, NEW auto, StartIngest(w, r, u, att, auto)
      PROVE  HeldInv'
  <2>1. /\ job'[w].held = tombs /\ job'[w].pc \in {"fetch", "finish"}
        /\ \A v \in Worker : v # w => job'[v] = job[v]
    BY <1>1, <1>2 DEF StartIngest, IdleJob
  <2>2. QED
    BY <1>1, <2>1, HeldAfterStart DEF Screened
<1>3. ASSUME NEW r, NEW u, NEW d, NEW att, StartRetryExtract(w, r, u, d, att)
      PROVE  HeldInv'
  <2>1. /\ job'[w].held = tombs /\ job'[w].pc = "load"
        /\ \A v \in Worker : v # w => job'[v] = job[v]
    BY <1>1, <1>3 DEF StartRetryExtract, IdleJob
  <2>2. QED
    BY <1>1, <2>1, HeldAfterStart DEF Screened
<1>4. CASE UNCHANGED job
  BY <1>1, <1>4 DEF HeldInv
<1>5. QED
  BY <1>2, <1>3, <1>4 DEF Submit, ListFailed, Replay, Claim, TakeNext, Retry

LEMMA PurgeKeepsHeld ==
    ASSUME TypeInv, HeldInv, PurgeNext
    PROVE  HeldInv'
<1>1. CASE UNCHANGED <<job, tombs>>
  BY <1>1 DEF HeldInv
<1>2. CASE KeepHeld
  <2>1. job \in [Worker -> Job]
    BY DEF TypeInv, TypeOK, IngestTypeOK
  <2>2. \A w \in Worker : /\ job'[w].pc = job[w].pc
                          /\ job'[w].url = job[w].url
                          /\ job'[w].got = job[w].got
                          /\ job'[w].held = job[w].held \cap tombs'
    BY <1>2, <2>1 DEF KeepHeld, Job
  <2>3. QED
    BY <2>2 DEF HeldInv
<1>3. QED
  BY <1>1, <1>2 DEF PurgeNext, PurgeBegin, PurgeRollback, HealBegin, HealPrune,
     PurgeCrash, ingestVars, libraryVars

LEMMA HeldInvStep == TypeInv /\ HeldInv /\ [Next]_vars => HeldInv'
<1> SUFFICES ASSUME TypeInv, HeldInv, [Next]_vars PROVE HeldInv'
  OBVIOUS
<1>1. CASE \E w \in Worker : Crash(w)
  BY <1>1 DEF Crash, IdleJob, HeldInv, Screened, TypeInv, TypeOK, IngestTypeOK
<1>2. CASE \E r \in Rows : BackoffElapses(r)
  BY <1>2 DEF BackoffElapses, StoreUnchanged, HeldInv
<1>3. CASE IngestNext
  BY <1>1, <1>2, <1>3, IntakesKeepHeld, PipelineKeepsHeld DEF IngestNext
<1>4. CASE PurgeNext
  BY <1>4, PurgeKeepsHeld
<1>5. CASE UNCHANGED vars
  BY <1>5 DEF vars, HeldInv
<1>6. QED
  BY <1>3, <1>4, <1>5 DEF Next

(* No document is stored, or given a new body, against a tombstone that    *)
(* stood all the time since the job began.                                 *)
THEOREM TombstonesRespected == Spec => StoreRespectsTombstones
<1>1. Init => HeldInv
  BY DEF Init, IngestInit, IdleJob, HeldInv, Screened
<1>2. Spec => [](TypeInv /\ HeldInv)
  BY <1>1, TypeInvInit, TypeInvStep, HeldInvStep, PTL DEF Spec
<1>3. HeldInv => \A w \in Worker :
          (job[w].pc \in {"store", "update"} /\ job'[w].pc = "extract") =>
             ~ \E t \in job[w].held : MatchesTombstone(t, job[w].url, job[w].got)
  BY DEF HeldInv, Screened
<1>4. QED
  BY <1>2, <1>3, PTL DEF StoreRespectsTombstones

-----------------------------------------------------------------------------
(* Exhausted rows.                                                         *)

(* What a row is to the recoverer that holds it with `att` attempts read:  *)
(* it was answered with an error, and no attempt was counted since.  A     *)
(* purge or a lifted tombstone may take it away, and sets attempts back.   *)
Followed(r, att) ==
    /\ inbox[r].status \notin {"absent", "received"}
    /\ inbox[r].attempts <= att
    /\ Purgers = {} => inbox[r].status = "error" /\ inbox[r].attempts = att

Busy(w) == job[w].pc # "idle"

IntakesApart ==
    /\ \A w \in Intakes : Busy(w) => /\ inbox[job[w].row].status = "received"
                                     /\ inbox[job[w].row].attempts = 0
                                     /\ inbox[job[w].row].doc = None
    /\ \A v, w \in Intakes : Busy(v) /\ Busy(w) /\ job[v].row = job[w].row => v = w

FollowsRows(w) ==
    /\ \A s \in batch[w] : /\ Followed(s.row, s.att)
                           /\ Purgers = {} => inbox[s.row].doc = s.doc
    /\ Busy(w) => /\ Followed(job[w].row, job[w].att)
                  /\ Purgers = {} /\ job[w].pc = "load" => inbox[job[w].row].doc = job[w].doc

(* What a job may be about to write.                                       *)
Concluded(j) ==
    j.pc = "finish" => /\ j.out \in {"done", "duplicate", "error"}
                       /\ j.out = "error" => j.doc \in {None, j.outdoc}

FollowInv ==
    /\ IntakesApart
    /\ \A w \in Recoverers : FollowsRows(w)
    /\ \A w \in Worker : Concluded(job[w])
    /\ \A r \in Rows : inbox[r].status = "absent" => inbox[r].attempts = 0
    /\ ExhaustedIsFailed

-----------------------------------------------------------------------------
(* A step of a job keeps the attempts it read, and concludes well.         *)
Moves(w) ==
    job'[w].pc # "idle" => /\ job'[w].att = job[w].att
                           /\ job'[w].pc # "load"
                           /\ Concluded(job'[w])

LEMMA SetMoves ==
    ASSUME TypeInv, NEW w \in Worker, NEW j, job' = [job EXCEPT ![w] = j],
           j.pc # "idle" => j.att = job[w].att /\ j.pc # "load" /\ Concluded(j)
    PROVE  Moves(w)
<1>1. job'[w] = j
  BY DEF TypeInv, TypeOK, IngestTypeOK
<1>2. QED
  BY <1>1 DEF Moves

LEMMA GotoMoves ==
    ASSUME TypeInv, NEW w \in Worker, NEW pc \in Pc, Goto(w, pc),
           pc \notin {"load", "finish"}
    PROVE  Moves(w)
<1> DEFINE j == [job[w] EXCEPT !.pc = pc]
<1>1. job[w] \in Job
  BY DEF TypeInv, TypeOK, IngestTypeOK
<1>2. j.pc = pc /\ j.att = job[w].att
  BY <1>1 DEF Job
<1>3. job' = [job EXCEPT ![w] = j]
  BY DEF Goto
<1> HIDE DEF j
<1>4. QED
  BY <1>2, <1>3, SetMoves DEF Concluded

LEMMA ConcludeMoves ==
    ASSUME TypeInv, NEW w \in Worker, NEW out \in {"done", "duplicate", "error"},
           NEW od, NEW d, NEW err, Conclude(w, out, od, d, err),
           out = "error" => d \in {None, od}
    PROVE  Moves(w)
<1> DEFINE j == [job[w] EXCEPT !.pc = "finish", !.out = out, !.outdoc = od,
                               !.doc = d, !.err = err]
<1>1. job[w] \in Job
  BY DEF TypeInv, TypeOK, IngestTypeOK
<1>2. /\ j.pc = "finish" /\ j.att = job[w].att
      /\ j.out = out /\ j.outdoc = od /\ j.doc = d
  BY <1>1 DEF Job
<1>3. job' = [job EXCEPT ![w] = j]
  BY DEF Conclude
<1> HIDE DEF j
<1>4. QED
  BY <1>2, <1>3, SetMoves DEF Concluded

LEMMA ExtractFailsMoves ==
    ASSUME TypeInv, NEW w \in Worker, ExtractFails(w)
    PROVE  Moves(w)
<1> DEFINE j == [job[w] EXCEPT !.pc = "record", !.err = "other"]
<1>1. job[w] \in Job
  BY DEF TypeInv, TypeOK, IngestTypeOK
<1>2. j.pc = "record" /\ j.att = job[w].att
  BY <1>1 DEF Job
<1>3. job' = [job EXCEPT ![w] = j]
      \/ Conclude(w, "error", job[w].doc, job[w].doc, "other")
  BY DEF ExtractFails
<1> HIDE DEF j
<1>4. QED
  BY <1>2, <1>3, SetMoves, ConcludeMoves DEF Concluded

LEMMA IdleMoves ==
    ASSUME TypeInv, NEW w \in Worker, job' = [job EXCEPT ![w] = IdleJob]
    PROVE  Moves(w)
  BY SetMoves DEF IdleJob

LEMMA PipelineMoves ==
    ASSUME TypeInv, NEW w \in Worker, PipelineStep(w)
    PROVE  Moves(w)
<1>1. job[w] \in Job
  BY DEF TypeInv, TypeOK, IngestTypeOK
<1>2. CASE Fetch(w)
  <2>1. ASSUME NEW c,
               job' = [job EXCEPT ![w] = [@ EXCEPT !.pc = "screen", !.got = c]]
        PROVE  Moves(w)
    <3> DEFINE j == [job[w] EXCEPT !.pc = "screen", !.got = c]
    <3>1. j.pc = "screen" /\ j.att = job[w].att
      BY <1>1 DEF Job
    <3> HIDE DEF j
    <3>2. QED
      BY <2>1, <3>1, SetMoves DEF Concluded, j
  <2>2. QED
    BY <1>2, <2>1, ConcludeMoves DEF Fetch
<1>3. CASE Screen(w)
  BY <1>3, GotoMoves, ConcludeMoves DEF Screen, Pc
<1>4. CASE DedupHash(w)
  <2>1. ASSUME NEW d,
               job' = [job EXCEPT ![w] = [@ EXCEPT !.pc = "same", !.doc = d]]
        PROVE  Moves(w)
    <3> DEFINE j == [job[w] EXCEPT !.pc = "same", !.doc = d]
    <3>1. j.pc = "same" /\ j.att = job[w].att
      BY <1>1 DEF Job
    <3> HIDE DEF j
    <3>2. QED
      BY <2>1, <3>1, SetMoves DEF Concluded, j
  <2>2. QED
    BY <1>4, <2>1, GotoMoves DEF DedupHash, Pc
<1>5. CASE SameBody(w)
  BY <1>5, ConcludeMoves DEF SameBody
<1>6. CASE DedupUrl(w)
  <2>1. ASSUME NEW d,
               job' = [job EXCEPT ![w] = [@ EXCEPT !.pc = "update", !.mode = "update",
                                                   !.doc = d]]
        PROVE  Moves(w)
    <3> DEFINE j == [job[w] EXCEPT !.pc = "update", !.mode = "update", !.doc = d]
    <3>1. j.pc = "update" /\ j.att = job[w].att
      BY <1>1 DEF Job
    <3> HIDE DEF j
    <3>2. QED
      BY <2>1, <3>1, SetMoves DEF Concluded, j
  <2>2. QED
    BY <1>6, <2>1, GotoMoves DEF DedupUrl, Pc
<1>7. CASE UpdateInPlace(w)
  BY <1>7, GotoMoves, ConcludeMoves DEF UpdateInPlace, Pc
<1>8. CASE DedupNear(w)
  BY <1>8, GotoMoves, ConcludeMoves DEF DedupNear, Pc
<1>9. CASE Store(w)
  <2>1. ASSUME NEW d,
               job' = [job EXCEPT ![w] = [@ EXCEPT !.pc = "extract", !.doc = d]]
        PROVE  Moves(w)
    <3> DEFINE j == [job[w] EXCEPT !.pc = "extract", !.doc = d]
    <3>1. j.pc = "extract" /\ j.att = job[w].att
      BY <1>1 DEF Job
    <3> HIDE DEF j
    <3>2. QED
      BY <2>1, <3>1, SetMoves DEF Concluded, j
  <2>2. QED
    BY <1>9, <2>1, ConcludeMoves DEF Store
<1>10. CASE Load(w)
  <2>1. PICK j : /\ job' = [job EXCEPT ![w] = j]
                 /\ \/ j = [job[w] EXCEPT !.pc = "extract", !.got = docs[job[w].doc].hash]
                    \/ j = [job[w] EXCEPT !.pc = "record", !.err = "other"]
    BY <1>10 DEF Load
  <2>2. j.pc \in {"extract", "record"} /\ j.att = job[w].att
    BY <1>1, <2>1 DEF Job
  <2>3. QED
    BY <2>1, <2>2, SetMoves DEF Concluded
<1>11. CASE Extract(w)
  BY <1>11, GotoMoves, ExtractFailsMoves DEF Extract, Pc
<1>12. CASE Resolve(w)
  BY <1>12, GotoMoves, ConcludeMoves, ExtractFailsMoves DEF Resolve, Pc
<1>13. CASE Expand(w)
  BY <1>13, ConcludeMoves DEF Expand
<1>14. CASE Finish(w)
  BY <1>14, GotoMoves, IdleMoves DEF Finish, Pc
<1>15. CASE RecoverRecord(w)
  BY <1>15, IdleMoves DEF RecoverRecord
<1>16. CASE RetryRecord(w)
  BY <1>16, IdleMoves DEF RetryRecord
<1>17. QED
  BY <1>2, <1>3, <1>4, <1>5, <1>6, <1>7, <1>8, <1>9, <1>10, <1>11, <1>12, <1>13,
     <1>14, <1>15, <1>16 DEF PipelineStep

-----------------------------------------------------------------------------
(* FollowInv holds after every step.                                       *)

(* What every step but the start of a job leaves to worker v: no new row,  *)
(* and the attempts and the outcome as FollowInv wants them.               *)
Settled(v) ==
    /\ batch'[v] \subseteq batch[v]
    /\ job'[v].pc # "idle" => /\ job[v].pc # "idle"
                              /\ job'[v].row = job[v].row
                              /\ job'[v].att = job[v].att
    /\ job'[v].pc = "load" => job[v].pc = "load" /\ job'[v].doc = job[v].doc
    /\ Concluded(job'[v])

LEMMA PipelineSettles ==
    ASSUME TypeInv, FollowInv, NEW w \in Worker, PipelineStep(w)
    PROVE  \A v \in Worker : Settled(v)
<1>1. JobEffect(w) /\ batch' = batch /\ Moves(w)
  BY PipelineEffect, PipelineMoves
<1>2. Settled(w)
  BY <1>1 DEF Settled, JobEffect, Moves, Concluded
<1>3. ASSUME NEW v \in Worker, v # w PROVE Settled(v)
  BY <1>1, <1>3 DEF Settled, JobEffect, FollowInv
<1>4. QED
  BY <1>2, <1>3

LEMMA RowsOfWorkers ==
    ASSUME TypeInv
    PROVE  /\ \A v \in Worker : job[v].pc # "idle" => job[v].row \in Rows
           /\ \A v \in Worker : \A s \in batch[v] : s.row \in Rows /\ s.att \in Nat
           /\ \A v \in Worker : job[v].att \in Nat
  BY DEF TypeInv, TypeOK, IngestTypeOK, JobsFormed, JobFormed, Job, Snapshot

LEMMA FollowQuiet ==
    ASSUME TypeInv, FollowInv, \A v \in Worker : Settled(v),
           \A r \in Rows : /\ inbox'[r].status = inbox[r].status
                          /\ inbox'[r].attempts = inbox[r].attempts
                          /\ inbox'[r].doc = inbox[r].doc
    PROVE  FollowInv'
<1>1. IntakesApart'
  BY RowsOfWorkers DEF FollowInv, IntakesApart, Busy, Settled, Worker
<1>2. ASSUME NEW w \in Recoverers PROVE FollowsRows(w)'
  <2>1. FollowsRows(w) /\ Settled(w)
    BY DEF FollowInv, Worker
  <2>2. \A r \in Rows : \A a : Followed(r, a)' <=> Followed(r, a)
    BY DEF Followed
  <2>3. QED
    BY <2>1, <2>2, RowsOfWorkers DEF FollowsRows, Busy, Settled, Worker
<1>3. ExhaustedIsFailed'
  BY DEF FollowInv, ExhaustedIsFailed
<1>4. QED
  BY <1>1, <1>2, <1>3 DEF FollowInv, Settled

(* A step that writes one row q, which is then in no hand but perhaps that *)
(* of its recoverer.                                                       *)
LEMMA FollowRow ==
    ASSUME TypeInv, FollowInv, \A v \in Worker : Settled(v), NEW q \in Rows,
           \A r \in Rows : r # q => inbox'[r] = inbox[r],
           inbox'[q].attempts >= MaxAttempts => inbox'[q].status = "failed",
           inbox'[q].status # "absent",
           \A v \in Intakes : job'[v].pc # "idle" => job'[v].row # q,
           \A v \in Recoverers :
              /\ \A s \in batch'[v] : s.row # q
              /\ job'[v].pc # "idle" /\ job'[v].row = q =>
                    /\ job'[v].pc # "load"
                    /\ \A a : a = job'[v].att => Followed(q, a)'
    PROVE  FollowInv'
<1>1. /\ \A v \in Worker : job[v].pc # "idle" => job[v].row \in Rows
      /\ \A v \in Worker : \A s \in batch[v] : s.row \in Rows
  BY RowsOfWorkers
<1>2. IntakesApart'
  BY <1>1 DEF FollowInv, IntakesApart, Busy, Settled, Worker
<1>3. ASSUME NEW w \in Recoverers PROVE FollowsRows(w)'
  <2>1. FollowsRows(w) /\ Settled(w)
    BY DEF FollowInv, Worker
  <2>2. \A r \in Rows : \A a : r # q => (Followed(r, a)' <=> Followed(r, a))
    BY DEF Followed
  <2>3. \A s \in batch'[w] : Followed(s.row, s.att)' /\ (Purgers = {} => inbox'[s.row].doc = s.doc)
    BY <1>1, <2>1, <2>2 DEF FollowsRows, Settled, Worker
  <2>4. job'[w].pc # "idle" =>
           /\ \A r, a : r = job'[w].row /\ a = job'[w].att => Followed(r, a)'
           /\ Purgers = {} /\ job'[w].pc = "load" => inbox'[job'[w].row].doc = job'[w].doc
    <3>1. SUFFICES ASSUME job'[w].pc # "idle"
          PROVE  /\ \A r, a : r = job'[w].row /\ a = job'[w].att => Followed(r, a)'
                 /\ Purgers = {} /\ job'[w].pc = "load" => inbox'[job'[w].row].doc = job'[w].doc
      OBVIOUS
    <3>2. /\ job'[w].row = job[w].row /\ job'[w].att = job[w].att
          /\ job[w].row \in Rows /\ Followed(job[w].row, job[w].att)
          /\ job'[w].pc = "load" => job[w].pc = "load" /\ job'[w].doc = job[w].doc
          /\ Purgers = {} /\ job[w].pc = "load" => inbox[job[w].row].doc = job[w].doc
      BY <1>1, <2>1, <3>1 DEF FollowsRows, Settled, Worker, Busy
    <3>3. CASE job[w].row = q
      BY <3>1, <3>2, <3>3
    <3>4. CASE job[w].row # q
      BY <2>2, <3>2, <3>4
    <3>5. QED
      BY <3>3, <3>4
  <2>5. QED
    BY <2>3, <2>4 DEF FollowsRows, Busy
<1>4. ExhaustedIsFailed'
  BY DEF FollowInv, ExhaustedIsFailed
<1>5. QED
  BY <1>2, <1>3, <1>4 DEF FollowInv, Settled

(* The rows that a purge deletes or a lifted tombstone puts back.          *)
LEMMA FollowPurge ==
    ASSUME TypeInv, FollowInv, Purgers # {}, \A v \in Worker : Settled(v),
           \A r \in Rows :
              \/ inbox'[r] = inbox[r]
              \/ /\ inbox[r].status = "received" => inbox[r].doc # None
                 /\ inbox'[r].status \in {"deleted", "pending"}
                 /\ inbox'[r].attempts = 0
    PROVE  FollowInv'
<1>1. MaxAttempts \in Nat /\ ~ (0 >= MaxAttempts)
  BY IngestAssumption
<1>2. \A r \in Rows : inbox[r].attempts \in Nat
  BY DEF TypeInv, TypeOK, LibraryTypeOK, InboxRow
<1>3. IntakesApart'
  BY RowsOfWorkers DEF FollowInv, IntakesApart, Busy, Settled, Worker
<1>4. ASSUME NEW w \in Recoverers PROVE FollowsRows(w)'
  <2>1. FollowsRows(w) /\ Settled(w)
    BY DEF FollowInv, Worker
  <2>2. ASSUME NEW r \in Rows, NEW a \in Nat, Followed(r, a) PROVE Followed(r, a)'
    BY <2>2 DEF Followed
  <2>3. QED
    BY <2>1, <2>2, RowsOfWorkers DEF FollowsRows, Busy, Settled, Worker
<1>5. ExhaustedIsFailed'
  BY <1>1 DEF FollowInv, ExhaustedIsFailed
<1>6. QED
  BY <1>3, <1>4, <1>5 DEF FollowInv, Settled

LEMMA FinishFollows ==
    ASSUME TypeInv, AttemptsInv, FollowInv, Retriers = {},
           \A u, v \in Recoverers : u = v, NEW w \in Worker, Finish(w)
    PROVE  FollowInv'
<1>1. PICK q \in Rows : q = job[w].row
  BY RowsOfWorkers DEF Finish
<1>2. /\ inbox \in [Rows -> InboxRow] /\ job \in [Worker -> Job]
      /\ job[w].pc = "finish"
  BY DEF TypeInv, TypeOK, LibraryTypeOK, IngestTypeOK, Finish
<1>3. \A v \in Worker : Settled(v)
  BY PipelineSettles DEF PipelineStep
<1>4. /\ Concluded(job[w])
      /\ w \in Intakes => inbox[q].status = "received" /\ inbox[q].attempts = 0
      /\ w \in Recoverers => Followed(q, job[w].att) /\ inbox[q].attempts < MaxAttempts
      /\ w \in Recoverers => \A s \in batch[w] : s.row # q
  BY <1>1, <1>2 DEF FollowInv, FollowsRows, IntakesApart, Busy, AttemptsInv, RowsInHand
<1>5. /\ \A r \in Rows : r # q => inbox'[r] = inbox[r]
      /\ inbox'[q].attempts = inbox[q].attempts
      /\ Exists(q) => inbox'[q].status = job[w].out
      /\ ~ Exists(q) => inbox'[q] = inbox[q]
  BY <1>1, <1>2 DEF Finish, update_inbox, InboxRow
<1>6. ~ (inbox'[q].attempts >= MaxAttempts)
  BY <1>2, <1>4, <1>5, IngestAssumption DEF Worker, InboxRow, Followed
<1>7. inbox'[q].status # "absent"
  BY <1>2, <1>4, <1>5 DEF Worker, Followed, Concluded, Exists
<1>8. /\ \A v \in Worker : v # w => job'[v] = job[v]
      /\ job'[w].pc # "idle" => job'[w].pc = "record" /\ job[w].out = "error" /\ w \notin Intakes
      /\ batch' = batch
  BY <1>2 DEF Finish, Goto, IdleJob, Job
<1>9. ASSUME NEW v \in Intakes, job'[v].pc # "idle" PROVE job'[v].row # q
  BY <1>1, <1>2, <1>4, <1>8, <1>9 DEF FollowInv, IntakesApart, Busy, Worker, Followed
<1>10. ASSUME NEW v \in Recoverers, NEW s \in batch'[v] PROVE s.row # q
  <2>1. Followed(s.row, s.att)
    BY <1>8, <1>10 DEF FollowInv, FollowsRows
  <2>2. CASE w \in Intakes
    BY <1>4, <2>1, <2>2 DEF Followed
  <2>3. CASE w \in Recoverers
    BY <1>4, <1>8, <1>10, <2>3
  <2>4. QED
    BY <2>2, <2>3 DEF Worker
<1>11. ASSUME NEW v \in Recoverers, job'[v].pc # "idle", job'[v].row = q
      PROVE  job'[v].pc # "load" /\ \A a : a = job'[v].att => Followed(q, a)'
  <2>1. Followed(q, job[v].att)
    <3>1. CASE v = w
      BY <1>4, <3>1
    <3>2. CASE v # w
      BY <1>8, <1>11, <3>2 DEF FollowInv, FollowsRows, Busy, Worker
    <3>3. QED
      BY <3>1, <3>2
  <2>2. w \in Recoverers
    BY <1>4, <2>1 DEF Worker, Followed
  <2>3. v = w
    BY <2>2
  <2>4. /\ job'[w].pc = "record" /\ job'[w].att = job[w].att
        /\ job[w].out = "error"
    BY <1>3, <1>8, <1>11, <2>3 DEF Settled
  <2>5. ASSUME NEW a, a = job'[v].att PROVE Followed(q, a)'
    BY <1>5, <2>1, <2>3, <2>4, <2>5 DEF Followed, Exists
  <2>6. QED
    BY <2>3, <2>4, <2>5
<1>12. QED
  BY <1>2, <1>3, <1>5, <1>6, <1>9, <1>10, <1>11, <1>7, FollowRow

LEMMA RecoverRecordFollows ==
    ASSUME TypeInv, AttemptsInv, FollowInv,
           \A u, v \in Recoverers : u = v, NEW w \in Recoverers, RecoverRecord(w)
    PROVE  FollowInv'
<1>1. w \in Worker
  BY DEF Worker
<1> PICK q \in Rows : q = job[w].row
  BY <1>1, RowsOfWorkers DEF RecoverRecord
<1>2. /\ inbox \in [Rows -> InboxRow] /\ job \in [Worker -> Job]
      /\ job[w].pc = "record"
  BY <1>1, RowsOfWorkers DEF TypeInv, TypeOK, LibraryTypeOK, IngestTypeOK, RecoverRecord
<1>3. \A v \in Worker : Settled(v)
  BY <1>1, PipelineSettles DEF PipelineStep
<1>4. /\ Followed(q, job[w].att)
      /\ \A s \in batch[w] : s.row # q
  BY <1>2 DEF FollowInv, FollowsRows, Busy, AttemptsInv, RowsInHand
<1>5. /\ \A r \in Rows : r # q => inbox'[r] = inbox[r]
      /\ Exists(q) => /\ inbox'[q].attempts = inbox[q].attempts + 1
                      /\ inbox'[q].status = IF job[w].att + 1 >= MaxAttempts THEN "failed" ELSE "error"
      /\ ~ Exists(q) => inbox'[q] = inbox[q]
  BY <1>2 DEF RecoverRecord, record_recovery_attempt, InboxRow
<1>6. inbox'[q].attempts >= MaxAttempts => inbox'[q].status = "failed"
  <2>1. inbox[q].attempts \in Nat /\ job[w].att \in Nat /\ MaxAttempts \in Nat
    BY <1>1, <1>2, RowsOfWorkers, IngestAssumption DEF InboxRow
  <2>2. CASE Exists(q)
    BY <1>4, <1>5, <2>1, <2>2 DEF Followed
  <2>3. CASE ~ Exists(q)
    BY <1>2, <1>5, <2>3 DEF FollowInv, ExhaustedIsFailed
  <2>4. QED
    BY <2>2, <2>3
<1>7. inbox'[q].status # "absent"
  BY <1>4, <1>5 DEF Followed, Exists
<1>8. /\ \A v \in Worker : v # w => job'[v] = job[v]
      /\ job'[w].pc = "idle"
      /\ batch' = batch
  BY <1>1, <1>2 DEF RecoverRecord, IdleJob
<1>9. ASSUME NEW v \in Intakes, job'[v].pc # "idle" PROVE job'[v].row # q
  BY <1>2, <1>4, <1>8, <1>9 DEF FollowInv, IntakesApart, Busy, Worker, Followed
<1>10. ASSUME NEW v \in Recoverers
      PROVE  (\A s \in batch'[v] : s.row # q) /\ job'[v].pc = "idle"
  BY <1>4, <1>8
<1>11. QED
  BY <1>2, <1>3, <1>5, <1>6, <1>9, <1>10, <1>7, FollowRow

(* A new message, or an old one sent again, takes a row nobody has.        *)
LEMMA NewRowFollows ==
    ASSUME TypeInv, FollowInv, NEW w \in Intakes, job[w].pc = "idle",
           NEW q \in Rows, NEW u, NEW auto, log_inbox(q, u), StartIngest(w, q, u, 0, auto),
           \A v \in Recoverers : batch'[v] = batch[v]
    PROVE  FollowInv'
<1>1. w \in Worker /\ w \notin Recoverers
  BY IngestAssumption DEF Worker
<1>2. inbox \in [Rows -> InboxRow] /\ job \in [Worker -> Job]
  BY DEF TypeInv, TypeOK, LibraryTypeOK, IngestTypeOK
<1>3. /\ \A r \in Rows : r # q => inbox'[r] = inbox[r]
      /\ inbox[q].status = "absent"
      /\ inbox'[q].status = "received" /\ inbox'[q].attempts = 0 /\ inbox'[q].doc = None
  BY <1>2 DEF log_inbox, NoRow
<1>4. /\ \A v \in Worker : v # w => job'[v] = job[v]
      /\ job'[w].row = q
      /\ Concluded(job'[w])
  BY <1>1, <1>2 DEF StartIngest, IdleJob, Concluded
<1>5. IntakesApart'
  <2>1. ASSUME NEW v \in Intakes, v # w, job'[v].pc # "idle"
        PROVE  /\ job'[v].row # q
               /\ inbox'[job'[v].row] = inbox[job[v].row]
               /\ Busy(v) /\ job'[v].row = job[v].row
    BY <1>3, <1>4, <2>1, RowsOfWorkers DEF FollowInv, IntakesApart, Busy, Worker
  <2>2. QED
    BY <1>3, <1>4, <2>1 DEF FollowInv, IntakesApart, Busy
<1>6. ASSUME NEW v \in Recoverers PROVE FollowsRows(v)'
  <2>1. FollowsRows(v) /\ job'[v] = job[v] /\ batch'[v] = batch[v]
    BY <1>1, <1>4 DEF FollowInv, Worker
  <2>2. \A r \in Rows : \A a : Followed(r, a) => Followed(r, a)' /\ r # q
    BY <1>3 DEF Followed
  <2>3. QED
    BY <1>3, <2>1, <2>2, RowsOfWorkers DEF FollowsRows, Busy, Worker
<1>7. ExhaustedIsFailed'
  <2>1. ~ (inbox'[q].attempts >= MaxAttempts)
    BY <1>3, IngestAssumption
  <2>2. QED
    BY <1>3, <2>1 DEF FollowInv, ExhaustedIsFailed
<1>8. /\ \A v \in Worker : Concluded(job'[v])
      /\ \A r \in Rows : inbox'[r].status = "absent" => inbox'[r].attempts = 0
  BY <1>3, <1>4 DEF FollowInv
<1>9. QED
  BY <1>5, <1>6, <1>7, <1>8 DEF FollowInv

LEMMA IntakesFollow ==
    ASSUME TypeInv, FollowInv, NEW w \in Worker,
           Submit(w) \/ ListFailed(w) \/ Replay(w)
    PROVE  FollowInv'
<1>1. w \in Intakes /\ w \notin Recoverers /\ job[w].pc = "idle"
  BY IngestAssumption DEF Submit, ListFailed, Replay
<1>2. \A v \in Recoverers : batch'[v] = batch[v]
  BY <1>1 DEF Submit, ListFailed, Replay, NextInBatch, TypeInv, TypeOK, IngestTypeOK, Worker
<1>3. CASE ListFailed(w)
  <2>1. /\ \A v \in Worker : job'[v] = job[v]
        /\ \A r \in Rows : inbox'[r] = inbox[r]
    BY <1>3 DEF ListFailed
  <2>2. /\ IntakesApart' /\ ExhaustedIsFailed'
        /\ \A v \in Worker : Concluded(job'[v])
    BY <1>3 DEF ListFailed, FollowInv, IntakesApart, ExhaustedIsFailed, Busy
  <2>3. \A v \in Recoverers : FollowsRows(v)'
    BY <1>2, <1>3 DEF ListFailed, FollowInv, FollowsRows, Followed, Busy
  <2>4. QED
    BY <2>1, <2>2, <2>3 DEF FollowInv
<1>4. CASE Submit(w)
  BY <1>1, <1>2, <1>4, NewRowFollows DEF Submit
<1>5. CASE Replay(w)
  BY <1>1, <1>2, <1>5, NewRowFollows DEF Replay
<1>6. QED
  BY <1>3, <1>4, <1>5

LEMMA ClaimFollows ==
    ASSUME TypeInv, FollowInv, NEW w \in Recoverers, Claim(w)
    PROVE  FollowInv'
<1>1. PICK R \in SUBSET Rows :
         /\ \A r \in R : inbox[r].status = "error"
         /\ batch' = [batch EXCEPT ![w] = {RowSnapshot(r) : r \in R}]
  BY DEF Claim, due_for_recovery
<1>2. w \in Worker /\ batch \in [Worker -> SUBSET Snapshot] /\ inbox \in [Rows -> InboxRow]
  BY DEF Worker, TypeInv, TypeOK, LibraryTypeOK, IngestTypeOK
<1>3. job' = job /\ inbox' = inbox /\ job[w].pc = "idle"
  BY DEF Claim
<1>4. FollowsRows(w)'
  <2>1. ASSUME NEW r \in R
        PROVE  /\ RowSnapshot(r).row = r /\ RowSnapshot(r).doc = inbox[r].doc
               /\ Followed(r, RowSnapshot(r).att)
    BY <1>1, <1>2 DEF RowSnapshot, Followed, InboxRow
  <2>2. batch'[w] = {RowSnapshot(r) : r \in R}
    BY <1>1, <1>2
  <2>3. \A r, a : Followed(r, a)' <=> Followed(r, a)
    BY <1>3 DEF Followed
  <2>4. QED
    BY <1>3, <2>1, <2>2, <2>3 DEF FollowsRows, Busy
<1>5. ASSUME NEW v \in Recoverers, v # w PROVE FollowsRows(v)'
  BY <1>1, <1>2, <1>3, <1>5 DEF FollowInv, FollowsRows, Followed, Busy, Worker
<1>6. QED
  BY <1>3, <1>4, <1>5 DEF FollowInv, IntakesApart, ExhaustedIsFailed, Busy

LEMMA TakeNextFollows ==
    ASSUME TypeInv, FollowInv, NEW w \in Recoverers, TakeNext(w)
    PROVE  FollowInv'
<1>1. PICK s \in batch[w] :
         /\ batch' = [batch EXCEPT ![w] = @ \ {s}]
         /\ \/ StartRetryExtract(w, s.row, s.url, s.doc, s.att)
            \/ StartIngest(w, s.row, s.url, s.att, FALSE)
  BY DEF TakeNext, NextInBatch
<1>2. /\ w \in Worker /\ w \notin Intakes
      /\ batch \in [Worker -> SUBSET Snapshot]
      /\ job \in [Worker -> Job]
  BY IngestAssumption DEF Worker, TypeInv, TypeOK, IngestTypeOK
<1>3. inbox' = inbox
  BY DEF TakeNext
<1>4. /\ job'[w].row = s.row /\ job'[w].att = s.att
      /\ job'[w].pc = "load" => job'[w].doc = s.doc
      /\ Concluded(job'[w])
      /\ \A v \in Worker : v # w => job'[v] = job[v]
  <2>1. CASE StartRetryExtract(w, s.row, s.url, s.doc, s.att)
    <3>1. /\ job'[w].row = s.row /\ job'[w].att = s.att
          /\ job'[w].pc = "load" /\ job'[w].doc = s.doc
      BY <1>2, <2>1 DEF StartRetryExtract, IdleJob
    <3>2. \A v \in Worker : v # w => job'[v] = job[v]
      BY <1>2, <2>1 DEF StartRetryExtract
    <3>3. QED
      BY <3>1, <3>2 DEF Concluded
  <2>2. CASE StartIngest(w, s.row, s.url, s.att, FALSE)
    <3>1. /\ job'[w].row = s.row /\ job'[w].att = s.att
          /\ job'[w].pc \in {"fetch", "finish"}
      BY <1>2, <2>2 DEF StartIngest, IdleJob
    <3>2. job'[w].pc = "finish" => job'[w].out = "error" /\ job'[w].doc = None
      BY <1>2, <2>2 DEF StartIngest, IdleJob
    <3>3. \A v \in Worker : v # w => job'[v] = job[v]
      BY <1>2, <2>2 DEF StartIngest
    <3>4. QED
      BY <3>1, <3>2, <3>3 DEF Concluded
  <2>3. QED
    BY <1>1, <2>1, <2>2
<1>5. FollowsRows(w)'
  <2>1. FollowsRows(w)
    BY DEF FollowInv
  <2>2. \A r, a : Followed(r, a)' <=> Followed(r, a)
    BY <1>3 DEF Followed
  <2>3. batch'[w] = batch[w] \ {s}
    BY <1>1, <1>2
  <2>4. QED
    BY <1>3, <1>4, <2>1, <2>2, <2>3 DEF FollowsRows, Busy
<1>6. ASSUME NEW v \in Recoverers, v # w PROVE FollowsRows(v)'
  BY <1>1, <1>2, <1>3, <1>4, <1>6 DEF FollowInv, FollowsRows, Followed, Busy, Worker
<1>7. IntakesApart'
  BY <1>2, <1>3, <1>4 DEF FollowInv, IntakesApart, Busy, Worker
<1>8. QED
  BY <1>3, <1>4, <1>5, <1>6, <1>7 DEF FollowInv, ExhaustedIsFailed

LEMMA PurgeFollows ==
    ASSUME TypeInv, FollowInv, PurgeNext
    PROVE  FollowInv'
<1>1. inbox \in [Rows -> InboxRow] /\ job \in [Worker -> Job]
  BY DEF TypeInv, TypeOK, LibraryTypeOK, IngestTypeOK
<1>2. Purgers # {}
  BY DEF PurgeNext
<1>3. \A v \in Worker : Settled(v)
  <2>1. CASE UNCHANGED ingestVars
    BY <2>1 DEF ingestVars, Settled, FollowInv
  <2>2. CASE KeepHeld
    <3>1. /\ batch' = batch
          /\ \A v \in Worker : job'[v] = [job[v] EXCEPT !.held = job[v].held \cap tombs']
      BY <2>2 DEF KeepHeld
    <3>2. ASSUME NEW v \in Worker
          PROVE  /\ job'[v].pc = job[v].pc /\ job'[v].row = job[v].row
                 /\ job'[v].att = job[v].att /\ job'[v].doc = job[v].doc
                 /\ job'[v].out = job[v].out /\ job'[v].outdoc = job[v].outdoc
      BY <1>1, <2>2 DEF KeepHeld, Job
    <3>3. \A v \in Worker : Concluded(job'[v])
      BY <3>2 DEF FollowInv, Concluded
    <3>4. QED
      BY <3>1, <3>2, <3>3 DEF Settled
  <2>3. QED
    BY <2>1, <2>2 DEF PurgeNext
<1>4. CASE UNCHANGED inbox
  BY <1>3, <1>4, FollowQuiet
<1>5. CASE \E p \in Purgers : PurgeDelete(p)
  <2>1. PICK d \in DocIds : inbox' = [r \in Rows |-> IF inbox[r].doc = d /\ Exists(r)
                                          THEN [NoRow EXCEPT !.status = "deleted"]
                                          ELSE inbox[r]]
    BY <1>5 DEF PurgeDelete, delete_document, TypeInv, PurgeFormed
  <2>2. d # None
    BY LibraryAssumption
  <2>3. ASSUME NEW r \in Rows
        PROVE  \/ inbox'[r] = inbox[r]
               \/ /\ inbox[r].status = "received" => inbox[r].doc # None
                  /\ inbox'[r].status \in {"deleted", "pending"}
                  /\ inbox'[r].attempts = 0
    BY <2>1, <2>2 DEF NoRow
  <2>4. QED
    BY <1>2, <1>3, <2>3, FollowPurge
<1>6. CASE \E T \in SUBSET tombs : Untombstone(T)
  <2>1. PICK T : remove_tombstones(T)
    BY <1>6 DEF Untombstone
  <2>2. ASSUME NEW r \in Rows
        PROVE  \/ inbox'[r] = inbox[r]
               \/ /\ inbox[r].status = "received" => inbox[r].doc # None
                  /\ inbox'[r].status \in {"deleted", "pending"}
                  /\ inbox'[r].attempts = 0
    BY <1>1, <2>1 DEF remove_tombstones, InboxRow
  <2>3. QED
    BY <1>2, <1>3, <2>2, FollowPurge
<1>7. QED
  BY <1>4, <1>5, <1>6 DEF PurgeNext, PurgeBegin, PurgeRollback, HealBegin, HealPrune,
     PurgeCrash, libraryVars

LEMMA CrashFollows ==
    ASSUME TypeInv, FollowInv, NEW w \in Worker, Crash(w)
    PROVE  FollowInv'
<1>1. /\ job' = [job EXCEPT ![w] = IdleJob] /\ batch' = [batch EXCEPT ![w] = {}]
      /\ inbox' = inbox
      /\ job \in [Worker -> Job] /\ batch \in [Worker -> SUBSET Snapshot]
  BY DEF Crash, TypeInv, TypeOK, IngestTypeOK
<1>2. \A v \in Worker : Settled(v)
  BY <1>1 DEF Settled, IdleJob, Concluded, FollowInv
<1>3. QED
  BY <1>1, <1>2, FollowQuiet

LEMMA BackoffFollows ==
    ASSUME TypeInv, FollowInv, NEW q \in Rows, BackoffElapses(q)
    PROVE  FollowInv'
<1>1. \A r \in Rows : /\ inbox'[r].status = inbox[r].status
                       /\ inbox'[r].attempts = inbox[r].attempts
                       /\ inbox'[r].doc = inbox[r].doc
  BY DEF BackoffElapses, TypeInv, TypeOK, LibraryTypeOK, InboxRow
<1>2. \A v \in Worker : Settled(v)
  BY DEF BackoffElapses, Settled, FollowInv
<1>3. QED
  BY <1>1, <1>2, FollowQuiet

LEMMA FollowInvStep ==
    ASSUME Retriers = {}, \A u, v \in Recoverers : u = v
    PROVE  TypeInv /\ AttemptsInv /\ FollowInv /\ [Next]_vars => FollowInv'
<1> SUFFICES ASSUME TypeInv, AttemptsInv, FollowInv, [Next]_vars PROVE FollowInv'
  OBVIOUS
<1>1. ASSUME NEW w \in Worker, PipelineStep(w) PROVE FollowInv'
  <2>1. CASE Finish(w)
    BY <2>1, FinishFollows
  <2>2. CASE RecoverRecord(w)
    BY <2>2, RecoverRecordFollows DEF RecoverRecord
  <2>3. CASE UNCHANGED inbox
    BY <1>1, <2>3, PipelineSettles, FollowQuiet
  <2>4. QED
    BY <1>1, <2>1, <2>2, <2>3 DEF PipelineStep, Fetch, Screen, DedupHash, SameBody, DedupUrl,
       UpdateInPlace, DedupNear, Store, Load, Extract, Resolve, Expand, RetryRecord
<1>2. ASSUME NEW w \in Worker, Claim(w) \/ TakeNext(w) \/ Retry(w) PROVE FollowInv'
  BY <1>2, ClaimFollows, TakeNextFollows DEF Claim, TakeNext, Retry
<1>3. CASE IngestNext
  BY <1>1, <1>2, <1>3, IntakesFollow, CrashFollows, BackoffFollows DEF IngestNext
<1>4. CASE UNCHANGED vars
  BY <1>4, FollowQuiet DEF vars, Settled, FollowInv
<1>5. QED
  BY <1>3, <1>4, PurgeFollows DEF Next

LEMMA FollowInvInit == Init => FollowInv
<1> SUFFICES ASSUME Init PROVE FollowInv
  OBVIOUS
<1>1. \A w \in Worker : job[w] = IdleJob /\ batch[w] = {}
  BY DEF Init, IngestInit
<1>2. IdleJob.pc = "idle"
  BY DEF IdleJob
<1>3. \A r \in Rows : ~ (inbox[r].attempts >= MaxAttempts)
  BY IngestAssumption DEF Init, LibraryInit, NoRow
<1>4. \A r \in Rows : inbox[r].attempts = 0
  BY DEF Init, LibraryInit, NoRow
<1>5. QED
  BY <1>1, <1>2, <1>3, <1>4 DEF FollowInv, IntakesApart, FollowsRows, Concluded, Busy,
     ExhaustedIsFailed, Worker

LEMMA FollowInvariant ==
    ASSUME Retriers = {}, \A u, v \in Recoverers : u = v
    PROVE  Spec => [](TypeInv /\ AttemptsInv /\ FollowInv)
  BY TypeInvInit, TypeInvStep, AttemptsInvInit, AttemptsInvStep, FollowInvInit, FollowInvStep,
     PTL DEF Spec

(* A row that used up its attempts is failed for good: recover_failed      *)
(* decides so from the attempts it read, and no purge, lifted tombstone or *)
(* crash, and no intake, makes them differ from the counter to the row's   *)
(* harm, as long as one process runs it and nobody retries by hand.        *)
THEOREM ExhaustedRowsFail ==
    ASSUME Retriers = {}, \A u, v \in Recoverers : u = v
    PROVE  Spec => []ExhaustedIsFailed
<1>1. FollowInv => ExhaustedIsFailed
  BY DEF FollowInv
<1>2. QED
  BY <1>1, FollowInvariant, PTL

-----------------------------------------------------------------------------
(* What recovery owes the sender of a message.                             *)

LEMMA PolicyStutters ==
    ASSUME \A r \in Rows : /\ PhaseOf(inbox'[r].status) = PhaseOf(inbox[r].status)
                          /\ inbox'[r].attempts = inbox[r].attempts
    PROVE  UNCHANGED Policy!policyVars
  BY DEF Policy!policyVars

(* One row q moves as the policy lets it.                                  *)
LEMMA PolicyMoves ==
    ASSUME NEW q \in Rows, \A r \in Rows : r # q => inbox'[r] = inbox[r],
           \/ /\ inbox'[q].attempts = inbox[q].attempts
              /\ \/ inbox[q].status = "absent" /\ inbox'[q].status = "received"
                 \/ /\ inbox[q].status \in {"received", "error"}
                    /\ inbox'[q].status \in {"done", "duplicate", "error"}
           \/ /\ inbox[q].attempts \in Nat /\ inbox[q].attempts < MaxAttempts
              /\ inbox'[q].attempts = inbox[q].attempts + 1
              /\ inbox[q].status = "error"
              /\ inbox'[q].status = IF inbox[q].attempts + 1 >= MaxAttempts THEN "failed" ELSE "error"
    PROVE  [Policy!PolicyNext]_(Policy!policyVars)
<1> DEFINE phase == [r \in Rows |-> PhaseOf(inbox[r].status)]
           left == [r \in Rows |-> MaxAttempts - inbox[r].attempts]
<1>1. /\ phase' = [phase EXCEPT ![q] = PhaseOf(inbox'[q].status)]
      /\ left' = [left EXCEPT ![q] = MaxAttempts - inbox'[q].attempts]
      /\ phase[q] = PhaseOf(inbox[q].status)
      /\ left[q] = MaxAttempts - inbox[q].attempts
  OBVIOUS
<1>2. CASE inbox'[q].attempts = inbox[q].attempts
  <2>1. left' = left
    BY <1>1, <1>2
  <2>2. CASE inbox[q].status = "absent" /\ inbox'[q].status = "received"
    <3>1. phase[q] = "unseen" /\ phase' = [phase EXCEPT ![q] = "working"]
      BY <1>1, <2>2 DEF PhaseOf
    <3>2. QED
      BY <2>1, <3>1 DEF Policy!PolicyNext, Policy!Accept
  <2>3. CASE /\ inbox[q].status \in {"received", "error"}
             /\ inbox'[q].status \in {"done", "duplicate", "error"}
    <3>1. phase[q] \in {"working", "open"}
      BY <1>1, <2>3 DEF PhaseOf
    <3>2. PhaseOf(inbox'[q].status) \in {"open", "settled"}
      BY <2>3 DEF PhaseOf
    <3>3. CASE phase[q] = "working"
      BY <1>1, <2>1, <3>2, <3>3 DEF Policy!PolicyNext, Policy!Answer
    <3>4. CASE phase[q] = "open" /\ PhaseOf(inbox'[q].status) = "settled"
      BY <1>1, <2>1, <3>4 DEF Policy!PolicyNext, Policy!TrySucceeds
    <3>5. CASE phase[q] = "open" /\ PhaseOf(inbox'[q].status) = "open"
      BY <1>1, <2>1, <3>5 DEF Policy!policyVars
    <3>6. QED
      BY <3>1, <3>2, <3>3, <3>4, <3>5
  <2>4. QED
    BY <1>2, <2>2, <2>3
<1>3. CASE /\ inbox[q].attempts \in Nat /\ inbox[q].attempts < MaxAttempts
           /\ inbox'[q].attempts = inbox[q].attempts + 1
           /\ inbox[q].status = "error"
           /\ inbox'[q].status = IF inbox[q].attempts + 1 >= MaxAttempts THEN "failed" ELSE "error"
  <2>1. MaxAttempts \in Nat
    BY IngestAssumption
  <2>2. /\ phase[q] = "open" /\ left[q] > 0
        /\ MaxAttempts - inbox'[q].attempts = left[q] - 1
        /\ PhaseOf(inbox'[q].status) = IF left[q] = 1 THEN "abandoned" ELSE "open"
    BY <1>1, <1>3, <2>1 DEF PhaseOf
  <2>3. Policy!TryFails(q)
    BY <1>1, <2>2 DEF Policy!TryFails
  <2>4. QED
    BY <2>3 DEF Policy!PolicyNext
<1>4. QED
  BY <1>2, <1>3

LEMMA PolicyStep ==
    ASSUME TypeInv, AttemptsInv, FollowInv, [Next]_vars,
           Retriers = {}, Purgers = {}, \A u, v \in Recoverers : u = v
    PROVE  [Policy!PolicyNext]_(Policy!policyVars)
<1>1. inbox \in [Rows -> InboxRow] /\ job \in [Worker -> Job]
  BY DEF TypeInv, TypeOK, LibraryTypeOK, IngestTypeOK
<1>2. CASE UNCHANGED inbox
  BY <1>2, PolicyStutters
<1>3. ASSUME NEW q \in Rows, NEW u, log_inbox(q, u)
      PROVE  [Policy!PolicyNext]_(Policy!policyVars)
  <2>1. /\ \A r \in Rows : r # q => inbox'[r] = inbox[r]
        /\ inbox[q].status = "absent" /\ inbox'[q].status = "received"
        /\ inbox'[q].attempts = 0 /\ inbox[q].attempts = 0
    BY <1>1, <1>3 DEF log_inbox, NoRow, FollowInv
  <2>2. QED
    BY <2>1, PolicyMoves
<1>4. ASSUME NEW w \in Worker, Finish(w) PROVE [Policy!PolicyNext]_(Policy!policyVars)
  <2>1. PICK q \in Rows : q = job[w].row
    BY <1>4, RowsOfWorkers DEF Finish
  <2>2. inbox[q].status \in {"received", "error"}
    BY <1>4, <2>1 DEF Finish, FollowInv, IntakesApart, FollowsRows, Followed, Busy, Worker
  <2>3. job[w].out \in {"done", "duplicate", "error"}
    BY <1>4 DEF Finish, FollowInv, Concluded
  <2>4. /\ \A r \in Rows : r # q => inbox'[r] = inbox[r]
        /\ inbox'[q].attempts = inbox[q].attempts
        /\ inbox'[q].status = job[w].out
    BY <1>1, <1>4, <2>1, <2>2 DEF Finish, update_inbox, InboxRow, Exists
  <2>5. QED
    BY <2>2, <2>3, <2>4, PolicyMoves
<1>5. ASSUME NEW w \in Recoverers, RecoverRecord(w)
      PROVE  [Policy!PolicyNext]_(Policy!policyVars)
  <2>1. PICK q \in Rows : q = job[w].row
    BY <1>5, RowsOfWorkers DEF RecoverRecord, Worker
  <2>2. /\ inbox[q].status = "error" /\ inbox[q].attempts = job[w].att
        /\ inbox[q].attempts < MaxAttempts /\ inbox[q].attempts \in Nat
    BY <1>1, <1>5, <2>1 DEF RecoverRecord, FollowInv, FollowsRows, Followed, Busy, AttemptsInv,
       RowsInHand, InboxRow
  <2>3. /\ \A r \in Rows : r # q => inbox'[r] = inbox[r]
        /\ inbox'[q].attempts = inbox[q].attempts + 1
        /\ inbox'[q].status = IF inbox[q].attempts + 1 >= MaxAttempts THEN "failed" ELSE "error"
    BY <1>1, <1>5, <2>1, <2>2 DEF RecoverRecord, record_recovery_attempt, InboxRow, Exists
  <2>4. QED
    BY <2>2, <2>3, PolicyMoves
<1>6. ASSUME NEW q \in Rows, BackoffElapses(q) PROVE UNCHANGED Policy!policyVars
  <2>1. \A r \in Rows : /\ inbox'[r].status = inbox[r].status
                         /\ inbox'[r].attempts = inbox[r].attempts
    BY <1>1, <1>6 DEF BackoffElapses, InboxRow
  <2>2. QED
    BY <2>1, PolicyStutters
<1>7. ASSUME NEW w \in Worker, PipelineStep(w) PROVE [Policy!PolicyNext]_(Policy!policyVars)
  BY <1>2, <1>4, <1>5, <1>7 DEF PipelineStep, Fetch, Screen, DedupHash, SameBody, DedupUrl,
     UpdateInPlace, DedupNear, Store, Load, Extract, Resolve, Expand, RecoverRecord, RetryRecord
<1>8. ASSUME NEW w \in Worker,
             \/ Submit(w) \/ ListFailed(w) \/ Replay(w) \/ Claim(w) \/ TakeNext(w) \/ Retry(w)
             \/ Crash(w)
      PROVE  [Policy!PolicyNext]_(Policy!policyVars)
  BY <1>2, <1>3, <1>8 DEF Submit, ListFailed, Replay, Claim, TakeNext, Retry, Crash
<1>9. CASE IngestNext
  BY <1>6, <1>7, <1>8, <1>9 DEF IngestNext
<1>10. CASE UNCHANGED vars
  BY <1>2, <1>10 DEF vars
<1>11. QED
  BY <1>9, <1>10 DEF Next, PurgeNext

(* Automatic recovery implements the retry policy: a message is answered   *)
(* once, an error is tried again at most MaxAttempts times and given up    *)
(* with the last, and no other step changes what a sender is owed.  Any    *)
(* number of intakes and replays may run, and any process may crash; one   *)
(* process recovers, and nobody purges or retries by hand.                 *)
THEOREM RecoveryKeepsPolicy ==
    ASSUME Retriers = {}, Purgers = {}, \A u, v \in Recoverers : u = v
    PROVE  Spec => Policy!PolicySpec
<1>1. Init => Policy!PolicyInit
  BY IngestAssumption DEF Init, LibraryInit, NoRow, Policy!PolicyInit, PhaseOf
<1>2. TypeInv /\ AttemptsInv /\ FollowInv /\ [Next]_vars => [Policy!PolicyNext]_(Policy!policyVars)
  BY PolicyStep
<1>3. QED
  BY <1>1, <1>2, FollowInvariant, PTL DEF Spec, Policy!PolicySpec

-----------------------------------------------------------------------------
(* No document is forgotten.  EveryDocumentAccounted is not inductive: a   *)
(* job may hold a body that is no longer the document's, and a row may be  *)
(* about to be overwritten.  Kept counts neither.                          *)
ExtractingNow(w, d) ==
    /\ job[w].doc = d
    /\ \/ job[w].pc \in {"extract", "resolve"} /\ job[w].got = docs[d].hash
       \/ job[w].pc = "record"
       \/ job[w].pc = "finish" /\ job[w].out = "error"

RowKeeps(r, d) ==
    /\ inbox[r].doc = d /\ inbox[r].status \in {"error", "failed"}
    /\ \A w \in Recoverers : Busy(w) /\ job[w].row = r => job[w].pc = "load"

Kept(d) ==
    \/ <<d, docs[d].hash>> \in graph
    \/ \E w \in Worker : ExtractingNow(w, d)
    \/ \E r \in Rows : RowKeeps(r, d)

KeptInv == \A d \in Live : Kept(d)

(* A step of worker w: what it was extracting and the rows that kept a     *)
(* document must still account for it.                                     *)
LEMMA KeptStep ==
    ASSUME KeptInv, NEW w \in Worker, \A v \in Worker : v # w => job'[v] = job[v],
           graph \subseteq graph',
           \A d \in DocIds : docs'[d].st = "live" =>
              docs'[d] = docs[d] \/ Kept(d)',
           \A d \in Live : docs'[d] = docs[d] /\ ExtractingNow(w, d) => Kept(d)',
           \A d \in Live, r \in Rows : docs'[d] = docs[d] /\ RowKeeps(r, d) => Kept(d)'
    PROVE  KeptInv'
<1> SUFFICES ASSUME NEW d \in DocIds, docs'[d].st = "live", docs'[d] = docs[d] PROVE Kept(d)'
  BY DEF KeptInv, Live
<1>1. d \in Live /\ Kept(d)
  BY DEF KeptInv, Live
<1>2. CASE <<d, docs[d].hash>> \in graph
  BY <1>2 DEF Kept
<1>3. ASSUME NEW v \in Worker, v # w, ExtractingNow(v, d) PROVE Kept(d)'
  <2>1. ExtractingNow(v, d)'
    BY <1>3 DEF ExtractingNow
  <2>2. QED
    BY <2>1 DEF Kept
<1>4. QED
  BY <1>1, <1>2, <1>3 DEF Kept

LEMMA RowStillKeeps ==
    ASSUME NEW w \in Worker, \A v \in Worker : v # w => job'[v] = job[v],
           NEW r \in Rows, NEW d, RowKeeps(r, d),
           inbox'[r].doc = inbox[r].doc, inbox'[r].status = inbox[r].status,
           w \in Recoverers /\ job'[w].pc # "idle" /\ job'[w].row = r =>
              \/ job'[w].pc = "load"
              \/ job[w].pc \notin {"idle", "load"} /\ job[w].row = r
    PROVE  Kept(d)'
<1>1. RowKeeps(r, d)'
  BY DEF RowKeeps, Busy, Worker
<1>2. QED
  BY <1>1 DEF Kept

(* A step of the pipeline that writes no row and no document, before or    *)
(* after the extraction.                                                   *)
LEMMA KeptAround ==
    ASSUME TypeInv, KeptInv, NEW w \in Worker, PipelineStep(w),
           inbox' = inbox, docs' = docs, graph' = graph,
           job[w].pc \notin {"load", "extract", "resolve", "record", "finish"}
    PROVE  KeptInv'
<1>1. JobEffect(w)
  BY PipelineEffect
<1>2. \A d : ~ ExtractingNow(w, d)
  BY DEF ExtractingNow
<1>3. ASSUME NEW d \in Live, NEW r \in Rows, RowKeeps(r, d) PROVE Kept(d)'
  BY <1>1, <1>3, RowStillKeeps DEF JobEffect
<1>4. QED
  BY <1>1, <1>2, <1>3, KeptStep DEF JobEffect

LEMMA ExtractFailsKeeps ==
    ASSUME TypeInv, NEW w \in Worker, ExtractFails(w), NEW d \in DocIds, job[w].doc = d
    PROVE  Kept(d)'
<1>1. /\ job[w] \in Job /\ job \in [Worker -> Job]
  BY DEF TypeInv, TypeOK, IngestTypeOK
<1>2. /\ job'[w].doc = d
      /\ \/ job'[w].pc = "record"
         \/ job'[w].pc = "finish" /\ job'[w].out = "error"
  <2>1. CASE job[w].mode = "retry"
    <3>1. job' = [job EXCEPT ![w] = [job[w] EXCEPT !.pc = "record", !.err = "other"]]
      BY <2>1 DEF ExtractFails
    <3>2. job'[w] = [job[w] EXCEPT !.pc = "record", !.err = "other"]
      BY <1>1, <3>1
    <3>3. job'[w].doc = d /\ job'[w].pc = "record"
      BY <1>1, <3>2 DEF Job
    <3>4. QED
      BY <3>3
  <2>2. CASE job[w].mode # "retry"
    <3> DEFINE j == [job[w] EXCEPT !.pc = "finish", !.out = "error", !.outdoc = d,
                                   !.doc = d, !.err = "other"]
    <3>1. job' = [job EXCEPT ![w] = j]
      BY <2>2 DEF ExtractFails, Conclude
    <3>2. j.doc = d /\ j.pc = "finish" /\ j.out = "error"
      BY <1>1 DEF Job
    <3>3. QED
      BY <1>1, <3>1, <3>2
  <2>3. QED
    BY <2>1, <2>2
<1>3. ExtractingNow(w, d)'
  BY <1>2 DEF ExtractingNow
<1>4. QED
  BY <1>3 DEF Kept

LEMMA ExtractKeeps ==
    ASSUME TypeInv, KeptInv, NEW w \in Worker, Extract(w) \/ Resolve(w)
    PROVE  KeptInv'
<1>1. JobEffect(w)
  BY PipelineEffect DEF PipelineStep
<1>2. /\ job[w] \in Job /\ job \in [Worker -> Job]
      /\ inbox' = inbox /\ docs' = docs /\ graph \subseteq graph'
      /\ job[w].pc \in {"extract", "resolve"}
  BY DEF TypeInv, TypeOK, IngestTypeOK, Extract, Resolve, StoreUnchanged
<1>3. ASSUME NEW d \in Live, NEW r \in Rows, RowKeeps(r, d) PROVE Kept(d)'
  BY <1>1, <1>2, <1>3, RowStillKeeps DEF JobEffect
<1>4. ASSUME NEW d \in Live, ExtractingNow(w, d) PROVE Kept(d)'
  <2>1. d \in DocIds /\ job[w].doc = d /\ job[w].got = docs[d].hash
    BY <1>2, <1>4 DEF Live, ExtractingNow
  <2>2. CASE ExtractFails(w)
    BY <2>1, <2>2, ExtractFailsKeeps
  <2>3. CASE Goto(w, "resolve")
    <3>1. job'[w].doc = d /\ job'[w].pc = "resolve" /\ job'[w].got = docs'[d].hash
      BY <1>2, <2>1, <2>3 DEF Goto, Job
    <3>2. ExtractingNow(w, d)'
      BY <3>1 DEF ExtractingNow
    <3>3. QED
      BY <3>2 DEF Kept
  <2>4. CASE graph' = graph \cup {<<job[w].doc, job[w].got>>}
    BY <1>2, <2>1, <2>4 DEF Kept
  <2>5. QED
    BY <2>2, <2>3, <2>4 DEF Extract, Resolve
<1>5. QED
  BY <1>1, <1>2, <1>3, <1>4, KeptStep DEF JobEffect

(* A new document, or a new body of one, is in the hand of its job.        *)
LEMMA StoreKeeps ==
    ASSUME TypeInv, KeptInv, NEW w \in Worker, Store(w) \/ UpdateInPlace(w)
    PROVE  KeptInv'
<1>1. JobEffect(w)
  BY PipelineEffect DEF PipelineStep
<1>2. /\ job[w] \in Job /\ job \in [Worker -> Job]
      /\ docs \in [DocIds -> Document]
      /\ inbox' = inbox /\ graph' = graph
      /\ job[w].pc \in {"store", "update"}
  BY DEF TypeInv, TypeOK, LibraryTypeOK, IngestTypeOK, Store, UpdateInPlace
<1>3. ASSUME NEW d \in Live, NEW r \in Rows, RowKeeps(r, d) PROVE Kept(d)'
  BY <1>1, <1>2, <1>3, RowStillKeeps DEF JobEffect
<1>4. \A d : ~ ExtractingNow(w, d)
  BY <1>2 DEF ExtractingNow
<1>5. ASSUME NEW d \in DocIds, docs'[d] # docs[d] PROVE Kept(d)'
  <2>1. CASE Store(w)
    <3>1. /\ docs' = [docs EXCEPT ![d] = [st |-> "live", url |-> job[w].url, hash |-> job[w].got]]
          /\ job' = [job EXCEPT ![w] = [job[w] EXCEPT !.pc = "extract", !.doc = d]]
      BY <1>2, <1>5, <2>1 DEF Store, insert_document
    <3>2. job'[w].doc = d /\ job'[w].pc = "extract" /\ job'[w].got = docs'[d].hash
      BY <1>2, <3>1 DEF Job
    <3>3. ExtractingNow(w, d)'
      BY <3>2 DEF ExtractingNow
    <3>4. QED
      BY <3>3 DEF Kept
  <2>2. CASE UpdateInPlace(w)
    <3>1. /\ d = job[w].doc /\ Goto(w, "extract")
          /\ docs' = [docs EXCEPT ![d] = [docs[d] EXCEPT !.hash = job[w].got]]
      BY <1>2, <1>5, <2>2 DEF UpdateInPlace, update_document_content
    <3>2. job'[w].doc = d /\ job'[w].pc = "extract" /\ job'[w].got = docs'[d].hash
      BY <1>2, <3>1 DEF Job, Goto, Document
    <3>3. ExtractingNow(w, d)'
      BY <3>2 DEF ExtractingNow
    <3>4. QED
      BY <3>3 DEF Kept
  <2>3. QED
    BY <2>1, <2>2
<1>6. QED
  BY <1>1, <1>2, <1>3, <1>4, <1>5, KeptStep DEF JobEffect

(* _retry_extract reads the body the document has by now.                  *)
LEMMA LoadKeeps ==
    ASSUME TypeInv, FollowInv, KeptInv, Retriers = {}, Purgers = {},
           NEW w \in Worker, Load(w)
    PROVE  KeptInv'
<1>1. JobEffect(w)
  BY PipelineEffect DEF PipelineStep
<1>2. /\ job[w] \in Job /\ job \in [Worker -> Job]
      /\ inbox' = inbox /\ docs' = docs /\ graph' = graph
      /\ job[w].pc = "load"
  BY DEF TypeInv, TypeOK, IngestTypeOK, Load, StoreUnchanged
<1>3. ASSUME NEW d \in Live, NEW r \in Rows, RowKeeps(r, d) PROVE Kept(d)'
  <2>1. CASE w \in Recoverers /\ job[w].row = r
    <3>1. job[w].doc = d
      BY <1>2, <1>3, <2>1 DEF FollowInv, FollowsRows, Busy, RowKeeps
    <3>2. job' = [job EXCEPT ![w] = [job[w] EXCEPT !.pc = "extract", !.got = docs[d].hash]]
      BY <3>1 DEF Load
    <3>3. job'[w].doc = d /\ job'[w].pc = "extract" /\ job'[w].got = docs'[d].hash
      BY <1>2, <3>1, <3>2 DEF Job
    <3>4. ExtractingNow(w, d)'
      BY <3>3 DEF ExtractingNow
    <3>5. QED
      BY <3>4 DEF Kept
  <2>2. CASE ~ (w \in Recoverers /\ job[w].row = r)
    BY <1>1, <1>2, <1>3, <2>2, RowStillKeeps DEF JobEffect
  <2>3. QED
    BY <2>1, <2>2
<1>4. \A d : ~ ExtractingNow(w, d)
  BY <1>2 DEF ExtractingNow
<1>5. QED
  BY <1>1, <1>2, <1>3, <1>4, KeptStep DEF JobEffect

LEMMA FinishKeeps ==
    ASSUME TypeInv, FollowInv, KeptInv, Retriers = {}, Purgers = {},
           NEW w \in Worker, Finish(w)
    PROVE  KeptInv'
<1>1. PICK q \in Rows : q = job[w].row
  BY RowsOfWorkers DEF Finish
<1>2. JobEffect(w)
  BY PipelineEffect DEF PipelineStep
<1>3. /\ job[w] \in Job /\ job \in [Worker -> Job] /\ inbox \in [Rows -> InboxRow]
      /\ docs' = docs /\ graph' = graph
      /\ job[w].pc = "finish"
  BY DEF TypeInv, TypeOK, LibraryTypeOK, IngestTypeOK, Finish, StoreUnchanged
<1>4. /\ w \in Intakes => inbox[q].status = "received"
      /\ w \in Recoverers => inbox[q].status = "error"
      /\ w \in Intakes \/ w \in Recoverers
      /\ Concluded(job[w])
  BY <1>1, <1>3 DEF FollowInv, FollowsRows, Followed, IntakesApart, Busy, Worker
<1>5. /\ \A r \in Rows : r # q => inbox'[r] = inbox[r]
      /\ inbox'[q].status = job[w].out /\ inbox'[q].doc = job[w].outdoc
  BY <1>1, <1>3, <1>4 DEF Finish, update_inbox, Exists, InboxRow
<1>6. ASSUME NEW d \in Live, NEW r \in Rows, RowKeeps(r, d) PROVE Kept(d)'
  <2>1. r # q
    BY <1>1, <1>3, <1>4, <1>6 DEF RowKeeps, Busy
  <2>2. QED
    BY <1>1, <1>2, <1>5, <1>6, <2>1, RowStillKeeps DEF JobEffect
<1>7. ASSUME NEW d \in Live, ExtractingNow(w, d) PROVE Kept(d)'
  <2>1. /\ d \in DocIds /\ d # None /\ job[w].doc = d /\ job[w].out = "error"
        /\ job[w].outdoc = d
    BY <1>3, <1>4, <1>7, LibraryAssumption DEF Live, ExtractingNow, Concluded
  <2>2. CASE w \notin Intakes
    <3>1. job'[w].pc = "record" /\ job'[w].doc = d
      BY <1>3, <2>1, <2>2 DEF Finish, Goto, Job
    <3>2. ExtractingNow(w, d)'
      BY <3>1 DEF ExtractingNow
    <3>3. QED
      BY <3>2 DEF Kept
  <2>3. CASE w \in Intakes
    <3>1. ASSUME NEW v \in Recoverers, job'[v].pc # "idle" PROVE job'[v].row # q
      <4>1. v \in Worker /\ v # w
        BY <2>3, IngestAssumption DEF Worker
      <4>2. job[v].pc # "idle" /\ job'[v].row = job[v].row
        BY <1>2, <3>1, <4>1 DEF JobEffect
      <4>3. Followed(job[v].row, job[v].att)
        BY <4>2 DEF FollowInv, FollowsRows, Busy
      <4>4. QED
        BY <1>4, <2>3, <4>2, <4>3 DEF Followed
    <3>2. RowKeeps(q, d)'
      BY <1>5, <2>1, <3>1 DEF RowKeeps, Busy
    <3>3. QED
      BY <3>2 DEF Kept
  <2>4. QED
    BY <2>2, <2>3
<1>8. QED
  BY <1>2, <1>3, <1>6, <1>7, KeptStep DEF JobEffect

LEMMA RecoverRecordKeepsDocument ==
    ASSUME TypeInv, FollowInv, KeptInv, Purgers = {}, \A u, v \in Recoverers : u = v,
           NEW w \in Recoverers, RecoverRecord(w)
    PROVE  KeptInv'
<1>1. w \in Worker
  BY DEF Worker
<1>2. PICK q \in Rows : q = job[w].row
  BY <1>1, RowsOfWorkers DEF RecoverRecord
<1>3. JobEffect(w)
  BY <1>1, PipelineEffect DEF PipelineStep
<1>4. /\ job[w] \in Job /\ job \in [Worker -> Job] /\ inbox \in [Rows -> InboxRow]
      /\ docs' = docs /\ graph' = graph
      /\ job[w].pc = "record" /\ job'[w].pc = "idle"
  BY <1>1 DEF TypeInv, TypeOK, LibraryTypeOK, IngestTypeOK, RecoverRecord, StoreUnchanged, IdleJob
<1>5. inbox[q].status = "error"
  BY <1>2, <1>4 DEF FollowInv, FollowsRows, Followed, Busy
<1>6. /\ \A r \in Rows : r # q => inbox'[r] = inbox[r]
      /\ inbox'[q].status \in {"error", "failed"} /\ inbox'[q].doc = job[w].doc
  BY <1>2, <1>4, <1>5 DEF RecoverRecord, record_recovery_attempt, Exists, InboxRow
<1>7. ASSUME NEW d \in Live, NEW r \in Rows, RowKeeps(r, d) PROVE Kept(d)'
  <2>1. r # q
    BY <1>2, <1>4, <1>7 DEF RowKeeps, Busy
  <2>2. QED
    BY <1>1, <1>3, <1>4, <1>6, <1>7, <2>1, RowStillKeeps DEF JobEffect
<1>8. ASSUME NEW d \in Live, ExtractingNow(w, d) PROVE Kept(d)'
  <2>1. job[w].doc = d
    BY <1>8 DEF ExtractingNow
  <2>2. RowKeeps(q, d)'
    BY <1>4, <1>6, <2>1 DEF RowKeeps, Busy
  <2>3. QED
    BY <2>2 DEF Kept
<1>9. QED
  BY <1>1, <1>3, <1>4, <1>7, <1>8, KeptStep DEF JobEffect

(* What begins takes no row that keeps a document, but to extract it.      *)
LEMMA BeginKeeps ==
    ASSUME TypeInv, FollowInv, KeptInv, Purgers = {}, NEW w \in Worker,
           Submit(w) \/ ListFailed(w) \/ Replay(w) \/ Claim(w) \/ TakeNext(w)
    PROVE  KeptInv'
<1>1. /\ job \in [Worker -> Job] /\ inbox \in [Rows -> InboxRow]
      /\ docs' = docs /\ graph' = graph /\ job[w].pc = "idle"
  BY DEF TypeInv, TypeOK, LibraryTypeOK, IngestTypeOK, Submit, ListFailed, Replay, Claim,
     TakeNext, StoreUnchanged
<1>2. \A v \in Worker : v # w => job'[v] = job[v]
  BY <1>1 DEF Submit, ListFailed, Replay, Claim, TakeNext, StartIngest, StartRetryExtract
<1>3. \A d : ~ ExtractingNow(w, d)
  BY <1>1 DEF ExtractingNow
<1>4. ASSUME NEW d \in Live, NEW r \in Rows, RowKeeps(r, d) PROVE Kept(d)'
  <2>0. d # None /\ inbox[r].doc = d /\ inbox[r].status # "absent"
    BY <1>4, LibraryAssumption DEF Live, RowKeeps
  <2>1. CASE ListFailed(w) \/ Claim(w)
    BY <1>1, <1>2, <1>4, <2>1, RowStillKeeps DEF ListFailed, Claim
  <2>2. CASE Submit(w) \/ Replay(w)
    <3>1. w \notin Recoverers
      BY <2>2, IngestAssumption DEF Submit, Replay
    <3>2. PICK q, u : log_inbox(q, u)
      BY <2>2 DEF Submit, Replay
    <3>3. inbox'[r] = inbox[r]
      BY <1>1, <2>0, <3>2 DEF log_inbox
    <3>4. QED
      BY <1>2, <1>4, <3>1, <3>3, RowStillKeeps
  <2>3. CASE TakeNext(w)
    <3>1. PICK s \in batch[w] :
             IF s.doc # None THEN StartRetryExtract(w, s.row, s.url, s.doc, s.att)
             ELSE StartIngest(w, s.row, s.url, s.att, FALSE)
      BY <2>3 DEF TakeNext
    <3>2. inbox' = inbox /\ inbox[s.row].doc = s.doc
      BY <2>3 DEF TakeNext, FollowInv, FollowsRows
    <3>3. CASE s.row = r
      <4>1. s.doc # None
        BY <2>0, <3>2, <3>3
      <4>2. job'[w].pc = "load"
        BY <1>1, <3>1, <4>1 DEF StartRetryExtract, IdleJob
      <4>3. QED
        BY <1>2, <1>4, <3>2, <4>2, RowStillKeeps
    <3>4. CASE s.row # r
      <4>1. job'[w].row # r
        BY <1>1, <3>1, <3>4 DEF StartRetryExtract, StartIngest, IdleJob
      <4>2. QED
        BY <1>2, <1>4, <3>2, <4>1, RowStillKeeps
    <3>5. QED
      BY <3>3, <3>4
  <2>4. QED
    BY <2>1, <2>2, <2>3
<1>5. QED
  BY <1>1, <1>2, <1>3, <1>4, KeptStep

LEMMA QuietKeeps ==
    ASSUME KeptInv, job' = job, docs' = docs, graph' = graph,
           \A r \in Rows : inbox'[r].doc = inbox[r].doc /\ inbox'[r].status = inbox[r].status
    PROVE  KeptInv'
<1> SUFFICES ASSUME NEW d \in Live PROVE Kept(d)'
  BY DEF KeptInv, Live
<1>1. Kept(d)
  BY DEF KeptInv
<1>2. \A w \in Worker : ExtractingNow(w, d) => ExtractingNow(w, d)'
  BY DEF ExtractingNow
<1>3. \A r \in Rows : RowKeeps(r, d) => RowKeeps(r, d)'
  BY DEF RowKeeps, Busy
<1>4. QED
  BY <1>1, <1>2, <1>3 DEF Kept

LEMMA KeptInvStep ==
    ASSUME TypeInv, FollowInv, KeptInv, [Next]_vars, Retriers = {}, Purgers = {},
           Crashable = {}, \A u, v \in Recoverers : u = v
    PROVE  KeptInv'
<1>1. ASSUME NEW w \in Worker, PipelineStep(w) PROVE KeptInv'
  <2>1. CASE Load(w) \/ Finish(w) \/ RecoverRecord(w)
    BY <2>1, LoadKeeps, FinishKeeps, RecoverRecordKeepsDocument DEF RecoverRecord
  <2>2. CASE Extract(w) \/ Resolve(w) \/ Store(w) \/ UpdateInPlace(w)
    BY <2>2, ExtractKeeps, StoreKeeps
  <2>3. CASE Fetch(w) \/ Screen(w) \/ DedupHash(w) \/ SameBody(w) \/ DedupUrl(w) \/ DedupNear(w)
             \/ Expand(w)
    BY <1>1, <2>3, KeptAround DEF Fetch, Screen, DedupHash, SameBody, DedupUrl, DedupNear, Expand,
       StoreUnchanged
  <2>4. QED
    BY <1>1, <2>1, <2>2, <2>3 DEF PipelineStep, RetryRecord
<1>2. ASSUME NEW q \in Rows, BackoffElapses(q) PROVE KeptInv'
  <2>1. \A r \in Rows : inbox'[r].doc = inbox[r].doc /\ inbox'[r].status = inbox[r].status
    BY <1>2 DEF BackoffElapses, TypeInv, TypeOK, LibraryTypeOK, InboxRow
  <2>2. QED
    BY <1>2, <2>1, QuietKeeps DEF BackoffElapses, StoreUnchanged
<1>3. CASE IngestNext
  BY <1>1, <1>2, <1>3, BeginKeeps DEF IngestNext, Retry, Crash
<1>4. CASE UNCHANGED vars
  BY <1>4, QuietKeeps DEF vars
<1>5. QED
  BY <1>3, <1>4 DEF Next, PurgeNext

(* No accepted body is forgotten, at whatever step the jobs of any number  *)
(* of intakes and replays meet each other and the recovery loop: the       *)
(* document's present body is in the graph, or a job is on it, or a row    *)
(* from which a retry will extract it names the document.  The hypotheses  *)
(* are needed: purges, crashes and manual retries do lose documents.       *)
THEOREM NoDocumentForgotten ==
    ASSUME Retriers = {}, Purgers = {}, Crashable = {}, \A u, v \in Recoverers : u = v
    PROVE  Spec => []EveryDocumentAccounted
<1>1. Init => KeptInv
  BY DEF Init, LibraryInit, NoDocument, KeptInv, Live
<1>2. TypeInv /\ FollowInv /\ KeptInv /\ [Next]_vars => KeptInv'
  BY KeptInvStep
<1>3. KeptInv => EveryDocumentAccounted
  BY DEF KeptInv, Kept, EveryDocumentAccounted, Accounted, ExtractingNow, InHand, RowKeeps
<1>4. QED
  BY <1>1, <1>2, <1>3, FollowInvariant, PTL DEF Spec
=============================================================================
