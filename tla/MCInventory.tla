---------------------------- MODULE MCInventory ----------------------------
(* Model checking of Inventory. *)
EXTENDS Inventory, TLC

CONSTANTS q1, q2, q3, item, ghost

ThreeRequests == {q1, q2, q3}
ItemOnly == {item}
ItemAndGhost == {item, ghost}
OneOrTwo == {1, 2}

=============================================================================
