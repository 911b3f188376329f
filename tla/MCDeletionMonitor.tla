------------------------- MODULE MCDeletionMonitor -------------------------
(* Model-checking instances of DeletionMonitor. *)
EXTENDS DeletionMonitor

\* The second entry cannot be used.
Second == {2}
============================================================================
