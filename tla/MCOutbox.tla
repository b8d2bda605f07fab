------------------------------ MODULE MCOutbox ------------------------------
(* Model checking of Outbox and of the inductive invariant of its proofs.    *)
EXTENDS Outbox, TLC

CONSTANTS o1, o2, o3, r1, r2

TwoOrders == {o1, o2}
ThreeOrders == {o1, o2, o3}
OneRelay == {r1}
TwoRelays == {r1, r2}
None == {}
LastOrder == {o2}

Symmetry == Permutations(Relays) \cup Permutations(Orders)
=============================================================================
