---------------------------- MODULE MCIngestDesk ----------------------------
(* One tab next to one other client, whose jobs run in another theme. *)
EXTENDS IngestDesk
=============================================================================
