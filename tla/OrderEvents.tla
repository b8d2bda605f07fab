---------------------------- MODULE OrderEvents ----------------------------
(***************************************************************************)
(* What the order-service promises the consumers of order.created, with   *)
(* no transaction, relay or broker in sight: an order is committed once,  *)
(* and every committed order is announced in the event log exactly once,  *)
(* at some later time and in any order.                                   *)
(***************************************************************************)
EXTENDS Naturals, Sequences

CONSTANTS
    Orders,       \* the orders clients may place
    Deliverable   \* the orders whose announcement the log accepts

VARIABLES
    committed,    \* the orders that exist
    log           \* the orders announced, oldest first

vars == <<committed, log>>

Announced == {log[i] : i \in DOMAIN log}

Init == /\ committed = {}
        /\ log = <<>>

Commit(o) == /\ o \notin committed
             /\ committed' = committed \cup {o}
             /\ UNCHANGED log

Announce(o) == /\ o \in committed \ Announced
               /\ log' = Append(log, o)
               /\ UNCHANGED committed

Next == \E o \in Orders : Commit(o) \/ Announce(o)

Spec == Init /\ [][Next]_vars

(***************************************************************************)
(* No committed order waits forever for its announcement.                  *)
(***************************************************************************)
FairSpec == Spec /\ \A o \in Orders \cap Deliverable : WF_vars(Announce(o))
=============================================================================
