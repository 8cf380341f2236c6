--------------------------- MODULE MCNotifications ---------------------------
(* Two workers and two notifications.  Liveness is checked, so that no     *)
(* symmetry is declared.                                                   *)
EXTENDS Notifications

CONSTANTS w1, w2

MCWorker == {w1, w2}
=============================================================================
