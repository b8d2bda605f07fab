------------------------------- MODULE Stock -------------------------------
(***************************************************************************)
(* What the inventory-service promises whoever reserves or restocks, with  *)
(* no cache, query or retry in sight: a write takes effect at most once;   *)
(* answered ok, it did so at one moment between its request and its        *)
(* answer; a reservation is refused for want of stock only if at such a    *)
(* moment there was too little of it, and then takes none; and an error    *)
(* leaves open whether the write takes effect, and when.                   *)
(***************************************************************************)
EXTENDS Integers

CONSTANTS
    Requests,      \* the requests in progress at one time or another
    Skus,          \* the SKUs requests name
    Known,         \* those that exist
    InitialStock,  \* the quantity every known SKU starts with
    MaxInt         \* the largest quantity

VARIABLES
    stock,    \* the quantity of every SKU, 0 for an unknown one
    call,     \* what each request asks for
    outcome,  \* "applied", "short" of stock, or "open"
    reply     \* its answer

vars == <<stock, call, outcome, reply>>

Sku(r) == call[r].sku

After(r) == CASE call[r].op = "reserve" -> stock[Sku(r)] - call[r].quantity
              [] call[r].op = "restock" -> stock[Sku(r)] + call[r].quantity

Init == /\ stock = [s \in Skus |-> IF s \in Known THEN InitialStock ELSE 0]
        /\ outcome = [r \in Requests |-> "open"]
        /\ reply = [r \in Requests |-> "none"]

\* The write takes effect, before its answer, with it, or after an error.
Apply(r) ==
    /\ outcome[r] = "open" /\ reply[r] \in {"none", "error"}
    /\ call[r].op # "read" /\ Sku(r) \in Known
    /\ After(r) \in 0..MaxInt
    /\ stock' = [stock EXCEPT ![Sku(r)] = After(r)]
    /\ outcome' = [outcome EXCEPT ![r] = "applied"]
    /\ reply' \in {reply, [reply EXCEPT ![r] = "error"]}
    /\ UNCHANGED call

RunShort(r) ==
    /\ outcome[r] = "open" /\ reply[r] = "none"
    /\ call[r].op = "reserve"
    /\ After(r) < 0
    /\ outcome' = [outcome EXCEPT ![r] = "short"]
    /\ UNCHANGED <<stock, call, reply>>

\* The answers that fit what happened to a request.
Fitting(r) ==
    {"error"}
    \cup (IF call[r].op = "read" \/ outcome[r] = "applied" THEN {"ok"} ELSE {})
    \cup (IF outcome[r] = "short" THEN {"insufficient"} ELSE {})
    \cup (IF Sku(r) \notin Known THEN {"not_found"} ELSE {})

Answer(r) ==
    /\ reply[r] = "none"
    /\ \E answer \in Fitting(r) : reply' = [reply EXCEPT ![r] = answer]
    /\ outcome' = [outcome EXCEPT ![r] = IF @ = "short" THEN "open" ELSE @]
    /\ UNCHANGED <<stock, call>>

Next == \E r \in Requests : Apply(r) \/ RunShort(r) \/ Answer(r)

Spec == Init /\ [][Next]_vars
=============================================================================
