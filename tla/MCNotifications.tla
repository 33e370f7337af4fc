-------------------------- MODULE MCNotifications --------------------------
(***************************************************************************)
(* Small instances of Notifications.  The older log holds a notification   *)
(* that an older version's summary reported.                               *)
(***************************************************************************)
EXTENDS Notifications, TLC

CONSTANTS m1, m2, old, k1

MCKeyOf == [m \in Messages |-> k1]
MCOldLogs == {<<>>, <<NewEntry("held", {old}), NewEntry("summary", {})>>}
=============================================================================
