---------------------------- MODULE MCTurnGuard -----------------------------
(* Two agent processes with two threads and one thread; two messages of    *)
(* one Conversation.                                                       *)
EXTENDS TurnGuard, TLC

CONSTANTS m1, m2, c1, a1, a2, t1, t2, t3, r1

MCConversationOf == m1 :> c1 @@ m2 :> c1
MCAgentOf == t1 :> a1 @@ t2 :> a1 @@ t3 :> a2
=============================================================================
