---------------------------- MODULE MCAdminPortal ----------------------------
(* A small instance of AdminPortal for TLC.                              *)
EXTENDS AdminPortal
=============================================================================
