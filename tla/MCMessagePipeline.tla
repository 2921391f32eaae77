------------------------- MODULE MCMessagePipeline --------------------------
(* Two messages of one Conversation.                                       *)
EXTENDS MessagePipeline, TLC

CONSTANTS m1, m2, c1

MCConversationOf == m1 :> c1 @@ m2 :> c1
=============================================================================
