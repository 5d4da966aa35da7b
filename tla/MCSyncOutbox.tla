---------------------------- MODULE MCSyncOutbox -----------------------------
(* A small instance of SyncOutbox for TLC.                               *)
EXTENDS SyncOutbox
=============================================================================
