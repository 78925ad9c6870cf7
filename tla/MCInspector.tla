---------------------------- MODULE MCInspector ----------------------------
EXTENDS Inspector, TLC

\* Nothing tells one document or one node from another.
MCSymmetry == Permutations(Docs) \cup Permutations(Nodes)
===============================================================================
