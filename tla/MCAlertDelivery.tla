--------------------------- MODULE MCAlertDelivery ---------------------------
(* Instances of AlertDelivery for TLC.                                       *)
EXTENDS AlertDelivery, TLC

CONSTANTS c1, c2, d1, d2

\* A device of each of the two clients.
MCOwner == d1 :> c1 @@ d2 :> c2
MCSoleOwner == d1 :> c1
=============================================================================
