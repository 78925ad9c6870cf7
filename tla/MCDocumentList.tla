---------------------------- MODULE MCDocumentList ----------------------------
EXTENDS DocumentList, TLC

\* One document in each theme; the text is in the title of the first.
MCHome == (1 :> "t1") @@ (2 :> "t2")
MCMatch == "a" :> {1}
===============================================================================
