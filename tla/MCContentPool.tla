--------------------------- MODULE MCContentPool ---------------------------
(* Model-checking instances of ContentPool. *)
EXTENDS ContentPool, TLC

CONSTANT q1

BothEdited == [q \in Qids |-> 2]
OneEdited == [q \in Qids |-> IF q = q1 THEN 2 ELSE 1]

Interchangeable == Permutations(Qids) \union Permutations(Workers)
============================================================================
