---------------------------- MODULE MCSyncQueue ----------------------------
(* The instance of SyncQueue for TLC: its values are in MCSyncQueue.cfg.     *)
EXTENDS SyncQueue
=============================================================================
