---------------------------- MODULE MCBalletNode ----------------------------
(* Small instances of BalletNode for TLC. *)
EXTENDS BalletNode
=============================================================================
