--------------------------- MODULE MCEventStreams ---------------------------
(* Model-checking instances of EventStreams. *)
EXTENDS EventStreams
=============================================================================
