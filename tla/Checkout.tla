------------------------------ MODULE Checkout ------------------------------
(***************************************************************************)
(* Placing an order: the api-gateway forwards the request; the createOrder *)
(* handler of the order-service asks the inventory-service over gRPC to    *)
(* reserve stock, retries while the answer is Unavailable, and saves the   *)
(* order and its event in one transaction.  Each connection may be refused *)
(* or break under a call, whoever executes a call may go on after its      *)
(* caller has given up, and neither side undoes a reservation.             *)
(***************************************************************************)
EXTENDS Integers, FiniteSets, FiniteSetsExt

CONSTANTS
    Orders,        \* the POST /orders requests
    Quantities,    \* the quantities they ask for, as 64-bit integers
    InitialStock,  \* the stock of the one known SKU
    MaxInt,        \* the largest int32 and INTEGER
    MaxAttempts,   \* of reserveRetryConfig
    Resets,        \* TRUE iff a gRPC connection may break under a call
    Faults         \* TRUE iff Postgres and the connections of clients may fail

ASSUME QuantityAssumption == Quantities \subseteq Int
ASSUME StockAssumption == MaxInt \in Nat /\ InitialStock \in 0..MaxInt
ASSUME AttemptsAssumption == MaxAttempts \in Nat \ {0}
ASSUME SwitchAssumption == {Resets, Faults} \subseteq BOOLEAN

VARIABLES
    request,   \* the quantity each order asks for, of a known SKU or not
    pc,        \* where each createOrder stands
    attempt,   \* the attempts of Reserve before the present one
    running,   \* the calls the inventory-service or its Postgres still executes
    response,  \* the answer to the present call, on its way to the client
    seen,      \* the answer the client of each order gets
    stock,     \* inventory-db: the quantity of the known SKU
    orders,    \* order-db: the orders saved
    taken,     \* history: the stock each order took
    broken     \* history: orders with a call cut off after it was sent

vars == <<request, pc, attempt, running, response, seen, stock, orders, taken,
          broken>>

Requests == [quantity : Quantities, known : BOOLEAN]
Attempts == 0..(MaxAttempts - 1)
Steps == {"idle", "calling", "waiting", "backoff", "saving", "done"}
Responses == {"none", "ok", "not_found", "insufficient", "invalid", "internal"}
Replies == {"none", "created", "bad_request", "not_found", "insufficient",
            "unavailable", "failed", "bad_gateway"}

\* int32(quantity): the low bits, as a signed integer.
Int32(n) == ((n + MaxInt + 1) % (2 * (MaxInt + 1))) - (MaxInt + 1)

Quantity(o) == request[o].quantity

Init ==
    /\ request \in [Orders -> Requests]
    /\ pc = [o \in Orders |-> "idle"]
    /\ attempt = [o \in Orders |-> 0]
    /\ running = {}
    /\ response = [o \in Orders |-> "none"]
    /\ seen = [o \in Orders |-> "none"]
    /\ stock = InitialStock
    /\ orders = {}
    /\ taken = [o \in Orders |-> 0]
    /\ broken = {}

Goto(o, step) == pc' = [pc EXCEPT ![o] = step]

\* The gateway forwards the answer, unless it has given one itself.
Answer(o, outcome) == /\ Goto(o, "done")
                      /\ seen' = [seen EXCEPT ![o] = IF @ = "none" THEN outcome ELSE @]

dbVars == <<stock, orders, taken>>

-----------------------------------------------------------------------------
(* The proxy of the api-gateway *)

\* The order-service is not reached, its connection breaks, or the client is
\* gone: ErrorHandler answers 502, and the context of a request that was sent
\* is cancelled.
ProxyFails(o) ==
    /\ Faults /\ seen[o] = "none"
    /\ seen' = [seen EXCEPT ![o] = "bad_gateway"]
    /\ pc' = [pc EXCEPT ![o] = IF @ = "idle" THEN "done" ELSE @]
    /\ UNCHANGED <<request, attempt, running, response, broken, dbVars>>

-----------------------------------------------------------------------------
(* Handler.createOrder, up to the reservation *)

CreateOrder(o) ==
    /\ pc[o] = "idle"
    /\ \/ Quantity(o) <= 0 /\ Answer(o, "bad_request")
       \/ Quantity(o) > 0 /\ Goto(o, "calling") /\ UNCHANGED seen
    /\ UNCHANGED <<request, attempt, running, response, broken, dbVars>>

-----------------------------------------------------------------------------
(* Client.Reserve over retry.Do *)

Send(o) ==
    /\ pc[o] = "calling"
    /\ running' = running \cup {<<o, attempt[o]>>}
    /\ response' = [response EXCEPT ![o] = "none"]
    /\ Goto(o, "waiting")
    /\ UNCHANGED <<request, seen, attempt, broken, dbVars>>

\* Unavailable: wait for the next attempt, or give up after the last one.
RetryOrGiveUp(o) ==
    \/ attempt[o] < MaxAttempts - 1 /\ Goto(o, "backoff") /\ UNCHANGED seen
    \/ attempt[o] = MaxAttempts - 1 /\ Answer(o, "unavailable")

\* No connection: the call is not sent.
Refused(o) ==
    /\ pc[o] = "calling"
    /\ RetryOrGiveUp(o)
    /\ UNCHANGED <<request, attempt, running, response, broken, dbVars>>

\* The connection breaks after the call was sent, before the server starts on
\* it, while it executes it or while the answer is on its way.
ConnectionLost(o) ==
    /\ pc[o] = "waiting"
    /\ Resets
    /\ running' \in {running, running \ {<<o, attempt[o]>>}}
    /\ response' = [response EXCEPT ![o] = "none"]
    /\ broken' = broken \cup {o}
    /\ RetryOrGiveUp(o)
    /\ UNCHANGED <<request, attempt, dbVars>>

\* Mutant: the attempt is not counted.
MutBackoff(o) ==
    /\ pc[o] = "backoff"
    /\ Goto(o, "calling")
    /\ UNCHANGED <<request, seen, attempt, running, response, broken, dbVars>>

Backoff(o) ==
    /\ pc[o] = "backoff"
    /\ attempt' = [attempt EXCEPT ![o] = @ + 1]
    /\ Goto(o, "calling")
    /\ UNCHANGED <<request, seen, running, response, broken, dbVars>>

\* The cancelled context of the request ends the call, or the wait before the
\* next one, with an error that is not retried.
HangUp(o) ==
    /\ seen[o] = "bad_gateway"
    /\ pc[o] \in {"calling", "waiting", "backoff"}
    /\ response' = [response EXCEPT ![o] = "none"]
    /\ Answer(o, "unavailable")
    /\ UNCHANGED <<request, attempt, running, broken, dbVars>>

\* Mutant: Internal is retried like Unavailable.
MutDeliverRetries(o) ==
    /\ pc[o] = "waiting"
    /\ \/ response[o] = "ok" /\ Goto(o, "saving") /\ UNCHANGED seen
       \/ response[o] \in {"not_found", "insufficient"} /\ Answer(o, response[o])
       \/ response[o] = "invalid" /\ Answer(o, "unavailable")
       \/ response[o] = "internal" /\ RetryOrGiveUp(o)
    /\ UNCHANGED <<request, attempt, running, response, broken, dbVars>>

\* Mutant: a lack of stock is logged and the order saved.
MutDeliverIgnores(o) ==
    /\ pc[o] = "waiting"
    /\ \/ response[o] \in {"ok", "insufficient"} /\ Goto(o, "saving") /\ UNCHANGED seen
       \/ response[o] = "not_found" /\ Answer(o, response[o])
       \/ response[o] \in {"invalid", "internal"} /\ Answer(o, "unavailable")
    /\ UNCHANGED <<request, attempt, running, response, broken, dbVars>>

Deliver(o) ==
    /\ pc[o] = "waiting"
    /\ \/ response[o] = "ok" /\ Goto(o, "saving") /\ UNCHANGED seen
       \/ response[o] \in {"not_found", "insufficient"} /\ Answer(o, response[o])
       \/ response[o] \in {"invalid", "internal"} /\ Answer(o, "unavailable")
    /\ UNCHANGED <<request, attempt, running, response, broken, dbVars>>

-----------------------------------------------------------------------------
(* GRPCServer.ReserveStock *)

\* The call leaves the server; its answer finds the client only if it waits
\* and has none yet.
Respond(o, a, outcome) ==
    /\ <<o, a>> \in running
    /\ running' = running \ {<<o, a>>}
    /\ response' = IF pc[o] = "waiting" /\ attempt[o] = a /\ response[o] = "none"
                   THEN [response EXCEPT ![o] = outcome]
                   ELSE response
    /\ UNCHANGED <<request, seen, pc, attempt, orders, broken>>

\* What the call asks for: the narrowed quantity.
Wanted(o) == Int32(Quantity(o))

\* Mutant: the UPDATE has no condition on the quantity.
MutReserve(o, a) ==
    /\ Wanted(o) > 0 /\ request[o].known
    /\ stock' = stock - Wanted(o)
    /\ taken' = [taken EXCEPT ![o] = @ + Wanted(o)]
    /\ Respond(o, a, "ok")

\* The UPDATE takes effect; the store may still lose its answer.
Reserve(o, a) ==
    /\ Wanted(o) > 0 /\ request[o].known /\ stock >= Wanted(o)
    /\ stock' = stock - Wanted(o)
    /\ taken' = [taken EXCEPT ![o] = @ + Wanted(o)]
    /\ \/ Respond(o, a, "ok")
       \/ Faults /\ Respond(o, a, "internal")

\* The query that tells an unknown SKU from a lack of stock may fail, which
\* counts as a lack of stock.
Decline(o, a) ==
    /\ \/ Wanted(o) <= 0 /\ Respond(o, a, "invalid")
       \/ Wanted(o) > 0 /\ ~ request[o].known /\ Respond(o, a, "not_found")
       \/ /\ Wanted(o) > 0 /\ request[o].known => stock < Wanted(o)
          /\ request[o].known \/ Faults
          /\ Respond(o, a, "insufficient")
       \/ Wanted(o) > 0 /\ Faults /\ Respond(o, a, "internal")
    /\ UNCHANGED <<stock, taken>>

\* The connection to Postgres breaks with the UPDATE sent: the server answers
\* Internal, and the UPDATE may still take effect.
UpdateAbandoned(o, a) ==
    /\ <<o, a>> \in running
    /\ pc[o] = "waiting" /\ attempt[o] = a /\ response[o] = "none"
    /\ Faults /\ Wanted(o) > 0
    /\ response' = [response EXCEPT ![o] = "internal"]
    /\ UNCHANGED <<request, seen, pc, attempt, running, broken, dbVars>>

\* A call nobody waits for is cancelled, or dies with the process.
Cancelled(o, a) ==
    /\ <<o, a>> \in running
    /\ pc[o] # "waiting" \/ attempt[o] # a
    /\ running' = running \ {<<o, a>>}
    /\ UNCHANGED <<request, seen, pc, attempt, response, broken, dbVars>>

-----------------------------------------------------------------------------
(* Handler.createOrder, after the reservation *)

\* Mutant: the column takes any quantity.
MutSaveOrder(o) ==
    /\ pc[o] = "saving"
    /\ orders' = orders \cup {o}
    /\ Answer(o, "created")
    /\ UNCHANGED <<request, attempt, running, response, stock, taken, broken>>

\* The transaction commits; the answer to COMMIT may be lost.  The quantity is
\* the one requested, and has to fit the INTEGER column.
SaveOrder(o) ==
    /\ pc[o] = "saving"
    /\ Quantity(o) <= MaxInt
    /\ orders' = orders \cup {o}
    /\ Answer(o, "created") \/ (Faults /\ Answer(o, "failed"))
    /\ UNCHANGED <<request, attempt, running, response, stock, taken, broken>>

\* Mutant: the error of the store is only logged.
MutSaveFails(o) ==
    /\ pc[o] = "saving"
    /\ Faults \/ Quantity(o) > MaxInt
    /\ Answer(o, "created")
    /\ UNCHANGED <<request, attempt, running, response, broken, dbVars>>

\* Nothing is saved, and nothing gives the reserved stock back.
SaveFails(o) ==
    /\ pc[o] = "saving"
    /\ Faults \/ Quantity(o) > MaxInt
    /\ Answer(o, "failed")
    /\ UNCHANGED <<request, attempt, running, response, broken, dbVars>>

-----------------------------------------------------------------------------
(* Handler.getOrder *)

Found(o) == o \in orders

GetOrder(o) == (IF Found(o) THEN {"ok"} ELSE {"not_found"})
               \cup (IF Faults THEN {"failed"} ELSE {})

-----------------------------------------------------------------------------

Client(o) ==
    \/ Send(o) \/ Refused(o) \/ Backoff(o) \/ Deliver(o)
    \/ SaveOrder(o) \/ SaveFails(o)

Server(o, a) == Reserve(o, a) \/ Decline(o, a) \/ UpdateAbandoned(o, a)

AllDone == /\ \A o \in Orders : pc[o] = "done"
           /\ running = {}
           /\ UNCHANGED vars

Next ==
    \/ \E o \in Orders : \/ CreateOrder(o) \/ Client(o)
                        \/ ConnectionLost(o) \/ ProxyFails(o) \/ HangUp(o)
    \/ \E o \in Orders, a \in Attempts : Server(o, a) \/ Cancelled(o, a)
    \/ AllDone

Spec == Init /\ [][Next]_vars

(***************************************************************************)
(* The goroutine of a request runs on and the server answers every call it *)
(* gets; nothing makes a connection break or a client hang up.             *)
(***************************************************************************)
FairSpec ==
    /\ Spec
    /\ \A o \in Orders :
          /\ WF_vars(Client(o))
          /\ \A a \in Attempts : WF_vars(Server(o, a))

-----------------------------------------------------------------------------
(* Properties *)

(***************************************************************************)
(* Every variable ranges over the values the code can give it; the stock   *)
(* is never negative.                                                      *)
(***************************************************************************)
TypeOK ==
    /\ request \in [Orders -> Requests]
    /\ pc \in [Orders -> Steps]
    /\ attempt \in [Orders -> Attempts]
    /\ running \subseteq Orders \X Attempts
    /\ response \in [Orders -> Responses]
    /\ seen \in [Orders -> Replies]
    /\ stock \in 0..InitialStock
    /\ orders \subseteq Orders
    /\ taken \in [Orders -> 0..InitialStock]
    /\ broken \subseteq Orders

(***************************************************************************)
(* A saved order took at least its whole quantity from stock: neither the  *)
(* narrowing to int32 on the way to the inventory-service nor a retry lets *)
(* an order be saved for more than was reserved for it.                    *)
(***************************************************************************)
OrderBacked == \A o \in orders : taken[o] >= Quantity(o)

(***************************************************************************)
(* Concurrent, retried and half-failed orders together never sell more     *)
(* than there was: what is saved and what is left fit the initial stock.   *)
(***************************************************************************)
NoOversell == MapThenSumSet(Quantity, orders) + stock <= InitialStock

(***************************************************************************)
(* While no connection breaks under its calls, an order reserves at most   *)
(* once, refused connections and retries notwithstanding; one refused for  *)
(* a business reason took nothing and one answered 201 took its quantity.  *)
(***************************************************************************)
ReservedOnce ==
    \A o \in Orders \ broken :
        /\ taken[o] \in {0, Wanted(o)}
        /\ seen[o] \in {"bad_request", "not_found", "insufficient"}
              => taken[o] = 0
        /\ seen[o] = "created" => taken[o] = Quantity(o)

(***************************************************************************)
(* What a client is told is so, however much went on behind it: an order   *)
(* answered 201 can be read and has its stock, one refused or answered 502 *)
(* by the order-service is not there and will not be.  Only 500 and the    *)
(* gateway's own 502 leave it open.                                        *)
(***************************************************************************)
AnswersHold ==
    \A o \in Orders :
        /\ seen[o] = "created" => /\ "not_found" \notin GetOrder(o)
                                 /\ taken[o] >= Quantity(o)
        /\ seen[o] \in {"bad_request", "not_found", "insufficient", "unavailable"}
              => GetOrder(o) \subseteq {"not_found", "failed"}

(***************************************************************************)
(* What the README says of the retries: none risks a double reservation.   *)
(***************************************************************************)
NoDoubleReservation == \A o \in Orders : taken[o] \in {0, Wanted(o)}

(***************************************************************************)
(* Every order is answered: attempts are bounded, and each one ends.       *)
(***************************************************************************)
EveryOrderAnswered ==
    \A o \in Orders : pc[o] = "calling" ~> seen[o] # "none"
=============================================================================
