-------------------------------- MODULE Purge --------------------------------
(***************************************************************************)
(* purge_document_cascade, `claire doctor --heal` and `claire untombstone`.*)
(* The purge reads the document, undoes the entity merges it took part in, *)
(* deletes it and everything that refers to it in one transaction, removes *)
(* its files, and heals the graph.  Each of these commits for itself, and  *)
(* ingest jobs go on meanwhile.                                            *)
(***************************************************************************)
EXTENDS Library

CONSTANT Purgers        \* processes that may run these commands

VARIABLE purge          \* Purgers -> where its command stands

(* valid: the document ids heal_graph read before it changes anything.     *)
PurgeJob == [pc : {"idle", "rollback", "delete", "heal", "prune"},
             doc : DocIds \cup {None}, url : Urls \cup {None},
             hash : Contents \cup {None}, valid : SUBSET DocIds]

IdlePurge == [pc |-> "idle", doc |-> None, url |-> None, hash |-> None,
              valid |-> {}]

PurgeTypeOK == purge \in [Purgers -> PurgeJob]

PurgeInit == purge = [p \in Purgers |-> IdlePurge]

-----------------------------------------------------------------------------
(* The document's row is read, its files are listed.                       *)
PurgeBegin(p) ==
    /\ purge[p].pc = "idle"
    /\ \E d \in Live :
          purge' = [purge EXCEPT ![p] = [pc |-> "rollback", doc |-> d,
                                         url |-> docs[d].url,
                                         hash |-> docs[d].hash,
                                         valid |-> {}]]
    /\ UNCHANGED libraryVars

(* What the document added to entities it was merged into is taken back:   *)
(* none of its contributions, some, or all that name it as a source.       *)
PurgeRollback(p) ==
    LET d == purge[p].doc IN
    /\ purge[p].pc = "rollback"
    /\ purge' = [purge EXCEPT ![p] = [@ EXCEPT !.pc = "delete"]]
    /\ \/ UNCHANGED <<graph, cited>>
       \/ /\ graph' = {g \in graph : g[1] # d}
          /\ cited' \in {cited, cited \ {d}}
    /\ UNCHANGED <<docs, tombs, inbox, expandq>>

PurgeDelete(p) ==
    /\ purge[p].pc = "delete"
    /\ \E mark \in BOOLEAN :
          delete_document(purge[p].doc, purge[p].url, purge[p].hash, mark)
    /\ purge' = [purge EXCEPT ![p] = [IdlePurge EXCEPT !.pc = "heal"]]
    /\ UNCHANGED <<graph, cited>>

(* heal_graph, at the end of a purge or on its own, reads the document ids *)
(* before its first write opens a transaction...                           *)
HealBegin(p) ==
    /\ purge[p].pc \in {"idle", "heal"}
    /\ purge' = [purge EXCEPT ![p] = [IdlePurge EXCEPT !.pc = "prune",
                                                       !.valid = Live]]
    /\ UNCHANGED libraryVars

(* ... and drops what any other document contributed.                      *)
HealPrune(p) ==
    /\ purge[p].pc = "prune"
    /\ heal_graph(purge[p].valid)
    /\ purge' = [purge EXCEPT ![p] = IdlePurge]
    /\ UNCHANGED <<docs, tombs, inbox, expandq>>

(* The command dies, or a write finds the database locked for too long.    *)
PurgeCrash(p) ==
    /\ purge[p].pc # "idle"
    /\ purge' = [purge EXCEPT ![p] = IdlePurge]
    /\ UNCHANGED libraryVars

Untombstone(T) ==
    /\ T # {}
    /\ remove_tombstones(T)
    /\ UNCHANGED <<purge, docs, graph, cited, expandq>>
=============================================================================
