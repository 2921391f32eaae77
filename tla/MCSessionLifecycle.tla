------------------------- MODULE MCSessionLifecycle -------------------------
(* Two operations at a time, four engines, one reconnect attempt.          *)
EXTENDS SessionLifecycle
=============================================================================
