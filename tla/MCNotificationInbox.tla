------------------------ MODULE MCNotificationInbox ------------------------
(* One monitor and the GUI thread; two of the three notifications are long. *)
EXTENDS NotificationInbox

CONSTANTS m1, gui
=============================================================================
