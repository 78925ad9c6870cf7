--------------------------- MODULE MCKnowledgeBase ---------------------------
(* Instances of KnowledgeBase for TLC.                                     *)
EXTENDS KnowledgeBase, TLC

(* Bodies are only compared, workers of one kind and documents are alike.  *)
Symmetry == Permutations(Intakes) \cup Permutations(DocIds)
            \cup Permutations(Contents) \cup Permutations(Urls)

(* One body is near to every other, those are not near to each other.      *)
OneNear == LET mid == CHOOSE c \in Contents : TRUE IN
           {p \in Contents \X Contents : p[1] # p[2] /\ mid \in {p[1], p[2]}}

(* A page at one URL lists all other URLs as extra sources.                *)
OneBundles == LET hub == CHOOSE u \in Urls : TRUE IN
              {p \in Urls \X Urls : p[1] # hub /\ p[2] = hub}
=============================================================================
