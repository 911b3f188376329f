------------------------- MODULE MCInlinksPipeline -------------------------
(* One target and two items that may link to it. *)
EXTENDS InlinksPipeline

ContentLevels == {None, Unknown, Strong}
=============================================================================
