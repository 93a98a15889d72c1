--------------------------- MODULE MCEventDelivery ---------------------------
(* Instances of EventDelivery for TLC.                                        *)
EXTENDS EventDelivery

CONSTANTS c1, l1, l2

\* Two listeners in one client.
MCOwner == (l1 :> c1) @@ (l2 :> c1)
==============================================================================
