--------------------------- MODULE MCNotification ---------------------------
(* Instances of Notification for TLC.                                      *)
EXTENDS Notification

CONSTANTS start, junk, c1, c2
=============================================================================
