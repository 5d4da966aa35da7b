--------------------------- MODULE MCQueueDisplay ----------------------------
(* A small instance of QueueDisplay for TLC.                             *)
EXTENDS QueueDisplay
=============================================================================
