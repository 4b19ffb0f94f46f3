--------------------------- MODULE MCPartialRollout ---------------------------
(* Two generations over two servers.                                       *)
EXTENDS PartialRollout

CONSTANTS q1, q2

MCConversations == {q1, q2}
MCReplicas == 1..2
===============================================================================
