---------------------------- MODULE MCBulkBatch -----------------------------
(* Three messages, progress saved after every second one, two cancels.     *)
EXTENDS BulkBatch
=============================================================================
