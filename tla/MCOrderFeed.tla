----------------------------- MODULE MCOrderFeed -----------------------------
(* A small instance of OrderFeed for TLC.                                *)
EXTENDS OrderFeed
=============================================================================
