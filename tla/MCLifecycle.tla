---------------------------- MODULE MCLifecycle ----------------------------
(* Model checking of Lifecycle. *)
EXTENDS Lifecycle

CONSTANTS q1, q2, q3

ThreeRequests == {q1, q2, q3}
=============================================================================
