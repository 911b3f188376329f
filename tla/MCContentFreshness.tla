------------------------ MODULE MCContentFreshness ------------------------
(* Two pages that may redirect to each other, or one page for longer. *)
EXTENDS ContentFreshness
===========================================================================
