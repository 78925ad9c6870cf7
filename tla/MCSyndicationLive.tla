--------------------------- MODULE MCSyndicationLive ---------------------------
(* Two themes; the second has one document, the first has one or two. *)
EXTENDS SyndicationLive

CONSTANTS t1, t2

HomeOf == [d \in Docs |-> IF d = 3 THEN t2 ELSE t1]
================================================================================
