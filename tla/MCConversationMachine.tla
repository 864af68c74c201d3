------------------------ MODULE MCConversationMachine ------------------------
(* ConversationMachine with two agents and two instants. *)
EXTENDS ConversationMachine

CONSTANTS u1, u2, t1, t2

MCUsers    == {u1, u2}
MCInstants == {t1, t2}
=============================================================================
