--------------------------- MODULE MCNotification ---------------------------
(* Three requests on one notification, so that two operators can retry it  *)
(* while a third is still delivering; the clock may stand still or go back.*)
EXTENDS Notification, TLC
=============================================================================
