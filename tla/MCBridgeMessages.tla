-------------------------- MODULE MCBridgeMessages --------------------------
(* One message in each direction and two people who react to them.         *)
EXTENDS BridgeMessages, TLC

Symmetry == Permutations(Sender)
=============================================================================
