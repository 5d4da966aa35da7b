------------------------ MODULE MCNotificationOutbox -------------------------
(* A small instance of NotificationOutbox for TLC.                       *)
EXTENDS NotificationOutbox
=============================================================================
