----------------------------- MODULE MCOrderPage -----------------------------
(* A small instance of OrderPage for TLC.                                *)
EXTENDS OrderPage
=============================================================================
