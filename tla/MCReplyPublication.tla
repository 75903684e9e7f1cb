------------------------ MODULE MCReplyPublication -------------------------
(* An instance of ReplyPublication for TLC. *)
EXTENDS ReplyPublication

CONSTANTS p1, p2
============================================================================
