-------------------------- MODULE MCNotifications --------------------------
(* Small instances of Notifications for the model checker.                 *)
EXTENDS Notifications

CONSTANTS e1, e2, d1, d2, d3

OneEvent == {e1}
OtherEvent == {e2}
TwoEvents == {e1, e2}
OneDispatcher == {d1}
TwoDispatchers == {d1, d2}
ThreeDispatchers == {d1, d2, d3}
=============================================================================
