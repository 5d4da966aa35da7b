---------------------------- MODULE MCQrisPayment ----------------------------
(* A small instance of QrisPayment for TLC.                              *)
EXTENDS QrisPayment
=============================================================================
