---------------------------- MODULE MCDocuments ----------------------------
(* d1 and d2 are uploads of the same content, d3 is another document.       *)
EXTENDS Documents, TLC

CONSTANTS d1, d2, d3

MCContent == [d \in Docs |-> IF d = d2 THEN d1 ELSE d]
Symmetry  == Permutations(Requests)
=============================================================================
