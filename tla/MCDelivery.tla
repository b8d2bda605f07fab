----------------------------- MODULE MCDelivery -----------------------------
(* Model checking of Delivery. *)
EXTENDS Delivery

CONSTANTS e1, e2, e3, analytics

OneEvent == {e1}
ThreeEvents == {e1, e2, e3}
LastEvent == {e3}
None == {}
Analytics == {analytics}
=============================================================================
