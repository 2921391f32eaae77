-------------------------- MODULE MCBaileysAdapter --------------------------
(* BaileysAdapter for TLC; see BaileysAdapter.cfg. *)
EXTENDS BaileysAdapter
=============================================================================
