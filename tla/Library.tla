------------------------------- MODULE Library -------------------------------
(***************************************************************************)
(* The knowledge base of one theme as the processes of the deployment see  *)
(* it: the tables of store/db.py that the ingest pipeline, the recovery    *)
(* loop and the purge command share through one SQLite file.  The helpers  *)
(* of store/db.py commit before they return, so each operator below is one *)
(* atomic change; the processes interleave between them.                   *)
(*                                                                         *)
(* A URL stands for a canonical URL, a member of Contents for a page body  *)
(* (equal members have equal content_hash), a row for a raw_inbox id.      *)
(***************************************************************************)
EXTENDS Naturals, FiniteSets

CONSTANTS
    Rows,          \* raw_inbox ids, in AUTOINCREMENT order
    DocIds,        \* document ids (uuid4, so never handed out twice)
    Urls,          \* canonical URLs
    Contents,      \* page bodies, told apart by content_hash
    Bundled,       \* <<u, v>>: a page at v lists u as an extra source
    NearPairs,     \* pairs of bodies whose MinHash similarity reaches 0.90
    None           \* SQL NULL

ASSUME LibraryAssumption ==
    /\ Rows \subseteq Nat
    /\ None \notin Rows \cup DocIds \cup Urls \cup Contents
    /\ Bundled \subseteq Urls \X Urls
    /\ NearPairs \subseteq Contents \X Contents

VARIABLES
    docs,          \* documents: DocIds -> [st, url, hash]
    graph,         \* <<d, c>>: body c of d was extracted, resolved and linked
    cited,         \* the ids named in the sources of entities and relations
    tombs,         \* purged_tombstones: {[doc, url, hash]}
    inbox,         \* raw_inbox: Rows -> [status, url, doc, attempts, retry, err]
    expandq        \* expand_queue.status per document ("none": no row)

libraryVars == <<docs, graph, cited, tombs, inbox, expandq>>

-----------------------------------------------------------------------------
Document == [st : {"absent", "live", "purged"},
             url : Urls \cup {None}, hash : Contents \cup {None}]

NoDocument == [st |-> "absent", url |-> None, hash |-> None]

Tombstone == [doc : DocIds, url : Urls, hash : Contents]

(* "absent" and "deleted" are not statuses of the code: a row is absent    *)
(* before its INSERT and deleted after purge_document_cascade removes it.  *)
RowStatus == {"absent", "deleted", "received", "pending", "done", "duplicate",
              "error", "failed"}

(* What the error column tells apart: remove_tombstones selects the rows   *)
(* whose error contains "tombstone".                                       *)
ErrorText == {"none", "tombstone", "other"}

(* retry: next_retry_at is NULL or past ("due"), or still to come.         *)
InboxRow == [status : RowStatus, url : Urls \cup {None},
             doc : DocIds \cup {None}, attempts : Nat,
             retry : {"due", "later"}, err : ErrorText]

NoRow == [status |-> "absent", url |-> None, doc |-> None, attempts |-> 0,
          retry |-> "due", err |-> "none"]

ExpandStatus == {"none", "pending", "done", "error"}

LibraryTypeOK ==
    /\ docs \in [DocIds -> Document]
    /\ graph \subseteq DocIds \X Contents
    /\ cited \subseteq DocIds
    /\ tombs \subseteq Tombstone
    /\ inbox \in [Rows -> InboxRow]
    /\ expandq \in [DocIds -> ExpandStatus]

LibraryInit ==
    /\ docs = [d \in DocIds |-> NoDocument]
    /\ graph = {}
    /\ cited = {}
    /\ tombs = {}
    /\ inbox = [r \in Rows |-> NoRow]
    /\ expandq = [d \in DocIds |-> "none"]

-----------------------------------------------------------------------------
(* Reads.                                                                  *)

Live == {d \in DocIds : docs[d].st = "live"}

Exists(r) == inbox[r].status \notin {"absent", "deleted"}

find_document_by_hash(c) == {d \in Live : docs[d].hash = c}

find_document_by_canonical_url(u) == {d \in Live : docs[d].url = u}

find_document_by_extra_source(u) == {d \in Live : <<u, docs[d].url>> \in Bundled}

near_duplicate_document(c) == {d \in Live : <<c, docs[d].hash>> \in NearPairs}

MatchesTombstone(t, u, c) == t.url = u \/ t.hash = c

(* Mutant: the screen compares bodies only.                                *)
is_tombstoned_ByHash(u, c) == \E t \in tombs : t.hash = c

is_tombstoned(u, c) == \E t \in tombs : MatchesTombstone(t, u, c)

inbox_by_statuses(statuses) == {r \in Rows : inbox[r].status \in statuses}

(* The lowest `limit` of the rows that are due; limit = 0 means all.       *)
due_for_recovery(max, limit) ==
    LET due == {r \in Rows : /\ inbox[r].status = "error"
                             /\ inbox[r].attempts < max
                             /\ inbox[r].retry = "due"}
    IN  IF limit = 0 THEN due
        ELSE {r \in due : Cardinality({q \in due : q < r}) < limit}

-----------------------------------------------------------------------------
(* Writes.                                                                 *)

log_inbox(r, u) ==
    /\ inbox[r].status = "absent"
    /\ \A q \in Rows : q < r => inbox[q].status # "absent"
    /\ inbox' = [inbox EXCEPT ![r] = [NoRow EXCEPT !.status = "received",
                                                   !.url = u]]

(* UPDATE ... WHERE id=?: it overwrites whatever the row says by now, and  *)
(* changes nothing if the row is gone.                                     *)
update_inbox(r, status, d, err) ==
    inbox' = [inbox EXCEPT ![r] =
                IF Exists(r)
                THEN [@ EXCEPT !.status = status, !.doc = d, !.err = err]
                ELSE @]

record_recovery_attempt(r, status, d, err) ==
    inbox' = [inbox EXCEPT ![r] =
                IF Exists(r)
                THEN [@ EXCEPT !.status = status, !.doc = d, !.err = err,
                               !.attempts = inbox[r].attempts + 1,
                               !.retry = IF status = "failed" THEN "due" ELSE "later"]
                ELSE @]

insert_document(d, u, c) ==
    /\ docs[d].st = "absent"
    /\ docs' = [docs EXCEPT ![d] = [st |-> "live", url |-> u, hash |-> c]]

update_document_content(d, c) ==
    docs' = [docs EXCEPT ![d] = IF d \in Live THEN [@ EXCEPT !.hash = c] ELSE @]

enqueue_expand(d) == expandq' = [expandq EXCEPT ![d] = "pending"]

(* Sources outside the document ids it read are dropped; if it read none   *)
(* the graph is reset, which leaves the same.                              *)
heal_graph(valid) ==
    /\ cited' = cited \cap valid
    /\ graph' = {g \in graph : g[1] \in valid}

(* The transaction of purge_document_cascade for one document d whose row  *)
(* was read as [url, hash] before; `mark` is its tombstone argument.       *)
delete_document(d, u, c, mark) ==
    /\ tombs' = IF mark THEN {t \in tombs : t.doc # d}
                             \cup {[doc |-> d, url |-> u, hash |-> c]}
                ELSE tombs
    /\ docs' = [docs EXCEPT ![d] = [NoDocument EXCEPT !.st = "purged"]]
    /\ inbox' = [r \in Rows |-> IF inbox[r].doc = d /\ Exists(r)
                                THEN [NoRow EXCEPT !.status = "deleted"]
                                ELSE inbox[r]]
    /\ expandq' = [expandq EXCEPT ![d] = "none"]

(* The tombstones T that a document id, a URL or a pattern selects are     *)
(* lifted, and the rows they had stopped go back to pending.               *)
remove_tombstones(T) ==
    /\ tombs' = tombs \ T
    /\ inbox' = [r \in Rows |->
                    IF /\ inbox[r].status \in {"error", "failed"}
                       /\ inbox[r].err = "tombstone"
                       /\ \E t \in T : inbox[r].url = t.url
                    THEN [inbox[r] EXCEPT !.status = "pending",
                                          !.attempts = 0, !.err = "none"]
                    ELSE inbox[r]]
=============================================================================
