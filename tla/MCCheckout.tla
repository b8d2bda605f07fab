----------------------------- MODULE MCCheckout -----------------------------
(* Model checking of Checkout. *)
EXTENDS Checkout

CONSTANTS o1, o2

OneOrder == {o1}
TwoOrders == {o1, o2}

\* With MaxInt = 3, int32(5) is negative and int32(9) is 1.
SomeQuantities == {0, 2, 5, 9}
=============================================================================
