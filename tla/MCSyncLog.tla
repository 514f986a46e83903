----------------------------- MODULE MCSyncLog -----------------------------
(* Small instances of SyncLog: the constants are given in the cfg.            *)
EXTENDS SyncLog
=============================================================================
