--------------------------- MODULE MCUserHistory ---------------------------
(* Two requests for one user beside the worker. *)
EXTENDS UserHistory
============================================================================
