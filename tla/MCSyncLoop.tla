----------------------------- MODULE MCSyncLoop -----------------------------
(* Small instances of SyncLoop for TLC. *)
EXTENDS SyncLoop
=============================================================================
