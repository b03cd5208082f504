--------------------------- MODULE MCNodeDeadlines ---------------------------
(* Small instances of NodeDeadlines for TLC. *)
EXTENDS NodeDeadlines
=============================================================================
