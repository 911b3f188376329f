------------------------- MODULE MCInterestManager -------------------------
(* Model-checking instances of InterestManager. *)
EXTENDS InterestManager, TLC

Interchangeable == Permutations(Qids) \union Permutations(Sessions)
============================================================================
