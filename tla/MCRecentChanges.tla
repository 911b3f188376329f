-------------------------- MODULE MCRecentChanges --------------------------
(* Model-checking instances of RecentChanges. *)
EXTENDS RecentChanges, TLC

Interchangeable == Permutations(Qids)
============================================================================
