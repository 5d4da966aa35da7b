--------------------------- MODULE MCDailySequence ---------------------------
(* A small instance of DailySequence for TLC.                            *)
EXTENDS DailySequence
=============================================================================
