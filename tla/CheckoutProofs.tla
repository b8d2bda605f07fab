--------------------------- MODULE CheckoutProofs ---------------------------
(***************************************************************************)
(* Proofs about Checkout for any orders, quantities, integer width and     *)
(* number of attempts, with and without faults: stock is never oversold, a *)
(* saved order is backed by stock, an order whose connections hold takes   *)
(* its stock once, and what a client is told is so.                        *)
(***************************************************************************)
EXTENDS Checkout, Sums

-----------------------------------------------------------------------------
(* Lemmas about the operators of the model *)

(***************************************************************************)
(* The facts about % that the conversion to int32 needs.                   *)
(***************************************************************************)
LEMMA Remainder ==
    ASSUME NEW n \in Int, NEW d \in Nat \ {0}
    PROVE  n % d \in 0..(d - 1) /\ (0 <= n /\ n < d => n % d = n)
OBVIOUS

(***************************************************************************)
(* The conversion to int32 yields one, and leaves one alone.               *)
(***************************************************************************)
LEMMA Int32Narrows ==
    ASSUME NEW n \in Int
    PROVE  Int32(n) \in Int /\ (n \in 0..MaxInt => Int32(n) = n)
<1> DEFINE d == 2 * (MaxInt + 1)
           m == n + MaxInt + 1
<1>1. d \in Nat \ {0} /\ MaxInt \in Nat /\ m \in Int
  BY StockAssumption
<1>2. m % d \in Int /\ (0 <= m /\ m < d => m % d = m)
  <2> HIDE DEF d, m
  <2> QED BY <1>1, Remainder
<1> QED BY <1>1, <1>2 DEF Int32

(***************************************************************************)
(* What an order asks for is an integer, and so is what the call asks for, *)
(* the same one when it fits an int32.                                     *)
(***************************************************************************)
LEMMA Amounts ==
    ASSUME TypeOK, NEW o \in Orders
    PROVE  /\ Quantity(o) \in Int /\ Wanted(o) \in Int
           /\ Quantity(o) \in 0..MaxInt => Wanted(o) = Quantity(o)
<1>1. Quantity(o) \in Int
  BY QuantityAssumption DEF TypeOK, Requests, Quantity
<1> QED BY <1>1, Int32Narrows DEF Wanted

-----------------------------------------------------------------------------
(* The inductive invariant *)

\* Where an order stands: validated before it calls, answered when it is
\* done, and given up by the gateway at any time.
ProgressInv ==
    \A o \in Orders :
        /\ pc[o] \notin {"idle", "done"} => Quantity(o) > 0
        /\ pc[o] = "backoff" => attempt[o] < MaxAttempts - 1
        /\ pc[o] = "idle" => seen[o] = "none"
        /\ seen[o] \notin {"none", "bad_gateway"} => pc[o] = "done"

\* An answer ok on its way or delivered has its stock, and so has an order
\* that is saved.
BackedInv ==
    \A o \in Orders :
        /\ pc[o] = "waiting" /\ response[o] = "ok" => taken[o] >= Wanted(o)
        /\ pc[o] = "saving" => taken[o] >= Wanted(o)
        /\ o \in orders => /\ taken[o] >= Quantity(o)
                           /\ pc[o] = "done"
                           /\ seen[o] \in {"created", "failed", "bad_gateway"}
        /\ seen[o] = "created" => o \in orders

\* Without a broken connection the one call that may still take stock is the
\* present one, and none has taken any before it.
OnceInv ==
    \A o \in Orders \ broken :
        /\ taken[o] \in {0, Wanted(o)}
        /\ pc[o] \in {"idle", "calling", "backoff"} => taken[o] = 0
        /\ pc[o] = "waiting" /\ response[o] \in {"not_found", "insufficient", "invalid"}
              => taken[o] = 0
        /\ seen[o] \in {"bad_request", "not_found", "insufficient"} => taken[o] = 0
        /\ \A a \in Attempts :
              <<o, a>> \in running =>
                  /\ taken[o] = 0 /\ a = attempt[o]
                  /\ \/ pc[o] = "waiting" /\ response[o] \in {"none", "internal"}
                     \/ pc[o] = "done" /\ seen[o] \in {"bad_gateway", "unavailable"}
        /\ o \in orders => taken[o] = Wanted(o) /\ Wanted(o) = Quantity(o)
        /\ pc[o] = "saving" => taken[o] = Wanted(o)
        /\ pc[o] = "waiting" /\ response[o] = "ok" => taken[o] = Wanted(o)

\* What any orders took and what is left fit the initial stock.
StockInv ==
    /\ IsFiniteSet(orders)
    /\ \A S \in SUBSET Orders :
          IsFiniteSet(S) => SumOf(taken, S) + stock <= InitialStock

Inv == TypeOK /\ ProgressInv /\ BackedInv /\ OnceInv /\ StockInv

-----------------------------------------------------------------------------
(* The one action that takes stock *)

(***************************************************************************)
(* A reservation moves what the call asks for from the stock to the order, *)
(* and answers the client only if it still waits for this call.            *)
(***************************************************************************)
LEMMA ReserveMoves ==
    ASSUME TypeOK, NEW o \in Orders, NEW a \in Attempts, Reserve(o, a)
    PROVE  /\ stock \in Nat /\ taken \in [Orders -> Nat]
           /\ Wanted(o) \in 1..stock /\ stock' = stock - Wanted(o)
           /\ taken' = [taken EXCEPT ![o] = taken[o] + Wanted(o)]
           /\ <<o, a>> \in running /\ running' = running \ {<<o, a>>}
           /\ response' \in [Orders -> Responses]
           /\ \A p \in Orders \ {o} : response'[p] = response[p]
           /\ response'[o] \in {response[o], "ok", "internal"}
           /\ pc[o] = "waiting" /\ attempt[o] = a /\ response[o] \in {"none", "internal"}
                => response'[o] \in {"ok", "internal"}
           /\ UNCHANGED <<request, seen, pc, attempt, orders, broken>>
<1>1. Wanted(o) \in Int /\ stock \in Nat /\ taken \in [Orders -> Nat]
  BY Amounts, StockAssumption DEF TypeOK
<1>2. /\ Wanted(o) > 0 /\ stock >= Wanted(o) /\ stock' = stock - Wanted(o)
      /\ taken' = [taken EXCEPT ![o] = taken[o] + Wanted(o)]
      /\ <<o, a>> \in running /\ running' = running \ {<<o, a>>}
      /\ UNCHANGED <<request, seen, pc, attempt, orders, broken>>
  BY DEF Reserve, Respond
<1>3. PICK outcome \in {"ok", "internal"} :
         response' = IF pc[o] = "waiting" /\ attempt[o] = a /\ response[o] = "none"
                     THEN [response EXCEPT ![o] = outcome]
                     ELSE response
  BY DEF Reserve, Respond
<1>4. response \in [Orders -> Responses] /\ {"ok", "internal"} \subseteq Responses
  BY DEF TypeOK, Responses
<1>5. /\ response' \in [Orders -> Responses]
      /\ \A p \in Orders \ {o} : response'[p] = response[p]
      /\ response'[o] \in {response[o], "ok", "internal"}
      /\ pc[o] = "waiting" /\ attempt[o] = a /\ response[o] \in {"none", "internal"}
                => response'[o] \in {"ok", "internal"}
  BY <1>3, <1>4
<1>6. Wanted(o) \in 1..stock
  BY <1>1, <1>2
<1> QED BY <1>1, <1>2, <1>5, <1>6, Zenon

(***************************************************************************)
(* What an order has taken fits what is not left.                          *)
(***************************************************************************)
LEMMA TakenFits ==
    ASSUME TypeOK, StockInv, NEW o \in Orders
    PROVE  taken[o] + stock <= InitialStock
<1>1. IsFiniteSet({o}) /\ IsFiniteSet({})
  BY FS_Singleton, FS_EmptySet
<1>2. taken[o] \in Int
  BY StockAssumption DEF TypeOK
<1>3. SumOf(taken, {} \cup {o}) = SumOf(taken, {}) + taken[o]
  BY <1>1, <1>2, SumAdds
<1>4. SumOf(taken, {o}) = taken[o]
  BY <1>2, <1>3, SumEmpty
<1> QED BY <1>1, <1>4 DEF StockInv

-----------------------------------------------------------------------------
(* Type correctness *)

(***************************************************************************)
(* The initial state has the types.                                        *)
(***************************************************************************)
LEMMA TypeInit == Init => TypeOK
<1>1. InitialStock \in 0..InitialStock /\ 0 \in 0..InitialStock /\ 0 \in Attempts
  BY StockAssumption, AttemptsAssumption DEF Attempts
<1> QED BY <1>1 DEF Init, TypeOK, Steps, Replies, Responses

(***************************************************************************)
(* Every step preserves the types.                                         *)
(***************************************************************************)
LEMMA TypeStep == TypeOK /\ ProgressInv /\ StockInv /\ [Next]_vars => TypeOK'
<1> SUFFICES ASSUME TypeOK, ProgressInv, StockInv, [Next]_vars PROVE TypeOK'
  OBVIOUS
<1>1. ASSUME NEW o \in Orders, CreateOrder(o) PROVE TypeOK'
  BY <1>1 DEF CreateOrder, Answer, Goto, dbVars, TypeOK, Steps, Replies, Responses, Attempts
<1>2. ASSUME NEW o \in Orders, Send(o) PROVE TypeOK'
  BY <1>2 DEF Send, Goto, dbVars, TypeOK, Steps, Replies, Responses, Attempts
<1>3. ASSUME NEW o \in Orders, Refused(o) PROVE TypeOK'
  BY <1>3 DEF Refused, RetryOrGiveUp, Answer, Goto, dbVars, TypeOK, Steps, Replies, Responses, Attempts
<1>4. ASSUME NEW o \in Orders, Backoff(o) PROVE TypeOK'
  <2>1. attempt[o] + 1 \in Attempts
    BY <1>4, AttemptsAssumption DEF Backoff, ProgressInv, TypeOK, Attempts
  <2> QED BY <1>4, <2>1 DEF Backoff, Goto, dbVars, TypeOK, Steps
<1>5. ASSUME NEW o \in Orders, Deliver(o) PROVE TypeOK'
  BY <1>5 DEF Deliver, Answer, Goto, dbVars, TypeOK, Steps, Replies, Responses, Attempts
<1>6. ASSUME NEW o \in Orders, SaveOrder(o) PROVE TypeOK'
  BY <1>6 DEF SaveOrder, Answer, Goto, TypeOK, Steps, Replies, Responses, Attempts
<1>7. ASSUME NEW o \in Orders, SaveFails(o) PROVE TypeOK'
  BY <1>7 DEF SaveFails, Answer, Goto, dbVars, TypeOK, Steps, Replies, Responses, Attempts
<1>8. ASSUME NEW o \in Orders, ConnectionLost(o) PROVE TypeOK'
  BY <1>8 DEF ConnectionLost, RetryOrGiveUp, Answer, Goto, dbVars, TypeOK, Steps, Replies, Responses, Attempts
<1>9. ASSUME NEW o \in Orders, ProxyFails(o) PROVE TypeOK'
  BY <1>9 DEF ProxyFails, dbVars, TypeOK, Steps, Replies, Responses, Attempts
<1>10. ASSUME NEW o \in Orders, HangUp(o) PROVE TypeOK'
  BY <1>10 DEF HangUp, Answer, Goto, dbVars, TypeOK, Steps, Replies, Responses, Attempts
<1>11. ASSUME NEW o \in Orders, NEW a \in Attempts, Reserve(o, a) PROVE TypeOK'
  <2>1. /\ taken[o] + Wanted(o) \in 0..InitialStock
        /\ stock - Wanted(o) \in 0..InitialStock
    <3>1. taken[o] + stock <= InitialStock /\ Wanted(o) \in 1..stock
      BY <1>11, TakenFits, ReserveMoves
    <3> QED BY <3>1, StockAssumption DEF TypeOK
  <2>2. taken' \in [Orders -> 0..InitialStock] /\ stock' \in 0..InitialStock
    <3>1. /\ stock' = stock - Wanted(o)
          /\ taken' = [taken EXCEPT ![o] = taken[o] + Wanted(o)]
      BY <1>11, ReserveMoves
    <3> QED BY <2>1, <3>1 DEF TypeOK
  <2>3. /\ running' \subseteq running /\ response' \in [Orders -> Responses]
        /\ UNCHANGED <<request, seen, pc, attempt, orders, broken>>
    BY <1>11, ReserveMoves
  <2> QED BY <2>2, <2>3 DEF TypeOK
<1>12. ASSUME NEW o \in Orders, NEW a \in Attempts, Decline(o, a) PROVE TypeOK'
  BY <1>12 DEF Decline, Respond, TypeOK, Steps, Replies, Responses, Attempts
<1>13. ASSUME NEW o \in Orders, NEW a \in Attempts, Cancelled(o, a) PROVE TypeOK'
  BY <1>13 DEF Cancelled, dbVars, TypeOK, Steps, Replies, Responses, Attempts
<1>14. ASSUME NEW o \in Orders, NEW a \in Attempts, UpdateAbandoned(o, a)
       PROVE  TypeOK'
  BY <1>14 DEF UpdateAbandoned, dbVars, TypeOK, Steps, Replies, Responses, Attempts
<1>15. CASE UNCHANGED vars
  BY <1>15 DEF vars, TypeOK, Steps, Replies, Responses, Attempts
<1> QED
  BY <1>1, <1>2, <1>3, <1>4, <1>5, <1>6, <1>7, <1>8, <1>9, <1>10, <1>11, <1>12, <1>13, <1>14, <1>15
     DEF Next, Client, Server, AllDone

(***************************************************************************)
(* An order advances in the order of the handler.                          *)
(***************************************************************************)
LEMMA ProgressStep == TypeOK /\ ProgressInv /\ [Next]_vars => ProgressInv'
<1> SUFFICES ASSUME TypeOK, ProgressInv, [Next]_vars PROVE ProgressInv'
  OBVIOUS
<1>1. ASSUME NEW o \in Orders, CreateOrder(o) PROVE ProgressInv'
  BY <1>1 DEF CreateOrder, Answer, Goto, dbVars, ProgressInv, TypeOK, Quantity
<1>2. ASSUME NEW o \in Orders, Send(o) PROVE ProgressInv'
  BY <1>2 DEF Send, Goto, dbVars, ProgressInv, TypeOK, Quantity
<1>3. ASSUME NEW o \in Orders, Refused(o) PROVE ProgressInv'
  BY <1>3 DEF Refused, RetryOrGiveUp, Answer, Goto, dbVars, ProgressInv, TypeOK, Quantity
<1>4. ASSUME NEW o \in Orders, Backoff(o) PROVE ProgressInv'
  BY <1>4 DEF Backoff, Goto, dbVars, ProgressInv, TypeOK, Quantity
<1>5. ASSUME NEW o \in Orders, Deliver(o) PROVE ProgressInv'
  BY <1>5 DEF Deliver, Answer, Goto, dbVars, ProgressInv, TypeOK, Quantity
<1>6. ASSUME NEW o \in Orders, SaveOrder(o) PROVE ProgressInv'
  BY <1>6 DEF SaveOrder, Answer, Goto, ProgressInv, TypeOK, Quantity
<1>7. ASSUME NEW o \in Orders, SaveFails(o) PROVE ProgressInv'
  BY <1>7 DEF SaveFails, Answer, Goto, dbVars, ProgressInv, TypeOK, Quantity
<1>8. ASSUME NEW o \in Orders, ConnectionLost(o) PROVE ProgressInv'
  BY <1>8 DEF ConnectionLost, RetryOrGiveUp, Answer, Goto, dbVars, ProgressInv, TypeOK, Quantity
<1>9. ASSUME NEW o \in Orders, ProxyFails(o) PROVE ProgressInv'
  BY <1>9 DEF ProxyFails, dbVars, ProgressInv, TypeOK, Quantity
<1>10. ASSUME NEW o \in Orders, HangUp(o) PROVE ProgressInv'
  BY <1>10 DEF HangUp, Answer, Goto, dbVars, ProgressInv, TypeOK, Quantity
<1>11. ASSUME NEW o \in Orders, NEW a \in Attempts, Reserve(o, a) PROVE ProgressInv'
  BY <1>11 DEF Reserve, Respond, ProgressInv, TypeOK, Quantity
<1>12. ASSUME NEW o \in Orders, NEW a \in Attempts, Decline(o, a) PROVE ProgressInv'
  BY <1>12 DEF Decline, Respond, ProgressInv, TypeOK, Quantity
<1>13. ASSUME NEW o \in Orders, NEW a \in Attempts, Cancelled(o, a) PROVE ProgressInv'
  BY <1>13 DEF Cancelled, dbVars, ProgressInv, TypeOK, Quantity
<1>14. ASSUME NEW o \in Orders, NEW a \in Attempts, UpdateAbandoned(o, a)
       PROVE  ProgressInv'
  BY <1>14 DEF UpdateAbandoned, dbVars, ProgressInv, TypeOK, Quantity
<1>15. CASE UNCHANGED vars
  BY <1>15 DEF vars, ProgressInv, TypeOK, Quantity
<1> QED
  BY <1>1, <1>2, <1>3, <1>4, <1>5, <1>6, <1>7, <1>8, <1>9, <1>10, <1>11, <1>12, <1>13, <1>14, <1>15
     DEF Next, Client, Server, AllDone

(***************************************************************************)
(* Only a reservation lets an order on.                                    *)
(***************************************************************************)
LEMMA BackedStep == TypeOK /\ ProgressInv /\ BackedInv /\ [Next]_vars => BackedInv'
<1> SUFFICES ASSUME TypeOK, ProgressInv, BackedInv, [Next]_vars PROVE BackedInv'
  OBVIOUS
<1>1. ASSUME NEW o \in Orders, CreateOrder(o) PROVE BackedInv'
  BY <1>1 DEF CreateOrder, Answer, Goto, dbVars, BackedInv, ProgressInv, TypeOK, Quantity, Wanted
<1>2. ASSUME NEW o \in Orders, Send(o) PROVE BackedInv'
  BY <1>2 DEF Send, Goto, dbVars, BackedInv, ProgressInv, TypeOK, Quantity, Wanted
<1>3. ASSUME NEW o \in Orders, Refused(o) PROVE BackedInv'
  BY <1>3 DEF Refused, RetryOrGiveUp, Answer, Goto, dbVars, BackedInv, ProgressInv, TypeOK, Quantity, Wanted
<1>4. ASSUME NEW o \in Orders, Backoff(o) PROVE BackedInv'
  BY <1>4 DEF Backoff, Goto, dbVars, BackedInv, ProgressInv, TypeOK, Quantity, Wanted
<1>5. ASSUME NEW o \in Orders, Deliver(o) PROVE BackedInv'
  BY <1>5 DEF Deliver, Answer, Goto, dbVars, BackedInv, ProgressInv, TypeOK, Quantity, Wanted
<1>6. ASSUME NEW o \in Orders, SaveOrder(o) PROVE BackedInv'
  <2>1. taken[o] >= Quantity(o)
    <3>1. pc[o] = "saving" /\ Quantity(o) <= MaxInt /\ Quantity(o) > 0
      BY <1>6 DEF SaveOrder, ProgressInv
    <3>2. Quantity(o) \in 0..MaxInt
      BY <3>1, Amounts, StockAssumption
    <3> QED BY <3>1, <3>2, Amounts DEF BackedInv
  <2>2. /\ pc' = [pc EXCEPT ![o] = "done"]
        /\ orders' = orders \cup {o}
        /\ UNCHANGED <<request, response, taken>>
        /\ \E outcome \in {"created", "failed"} :
              seen' = [seen EXCEPT ![o] = IF @ = "none" THEN outcome ELSE @]
    BY <1>6 DEF SaveOrder, Answer, Goto
  <2>3. seen'[o] \in {"created", "failed", "bad_gateway"}
    <3>1. seen[o] \in {"none", "bad_gateway"}
      BY <1>6 DEF SaveOrder, ProgressInv
    <3> QED BY <2>2, <3>1 DEF TypeOK
  <2> QED BY <2>1, <2>2, <2>3 DEF BackedInv, TypeOK, Quantity, Wanted
<1>7. ASSUME NEW o \in Orders, SaveFails(o) PROVE BackedInv'
  BY <1>7 DEF SaveFails, Answer, Goto, dbVars, BackedInv, ProgressInv, TypeOK, Quantity, Wanted
<1>8. ASSUME NEW o \in Orders, ConnectionLost(o) PROVE BackedInv'
  BY <1>8 DEF ConnectionLost, RetryOrGiveUp, Answer, Goto, dbVars, BackedInv, ProgressInv, TypeOK, Quantity, Wanted
<1>9. ASSUME NEW o \in Orders, ProxyFails(o) PROVE BackedInv'
  BY <1>9 DEF ProxyFails, dbVars, BackedInv, ProgressInv, TypeOK, Quantity, Wanted
<1>10. ASSUME NEW o \in Orders, HangUp(o) PROVE BackedInv'
  BY <1>10 DEF HangUp, Answer, Goto, dbVars, BackedInv, ProgressInv, TypeOK, Quantity, Wanted
<1>11. ASSUME NEW o \in Orders, NEW a \in Attempts, Reserve(o, a) PROVE BackedInv'
  <2>1. /\ taken \in [Orders -> Nat] /\ Wanted(o) \in Nat
        /\ taken' = [taken EXCEPT ![o] = taken[o] + Wanted(o)]
        /\ UNCHANGED <<request, seen, pc, orders>>
        /\ \A p \in Orders \ {o} : response'[p] = response[p]
    <3>1. Wanted(o) \in 1..stock /\ stock \in Nat
      BY <1>11, ReserveMoves
    <3>2. Wanted(o) \in Nat
      BY <3>1
    <3> QED BY <1>11, <3>2, ReserveMoves, Zenon
  <2>2. \A p \in Orders : taken'[p] \in Nat /\ taken[p] \in Nat /\ taken'[p] >= taken[p]
    BY <2>1
  <2>3. taken'[o] >= Wanted(o)
    BY <2>1
  <2>4. \A p \in Orders : Quantity(p) \in Int /\ Wanted(p) \in Int
    BY Amounts
  <2> QED BY <2>1, <2>2, <2>3, <2>4 DEF BackedInv, Quantity, Wanted
<1>12. ASSUME NEW o \in Orders, NEW a \in Attempts, Decline(o, a) PROVE BackedInv'
  BY <1>12 DEF Decline, Respond, BackedInv, ProgressInv, TypeOK, Quantity, Wanted
<1>13. ASSUME NEW o \in Orders, NEW a \in Attempts, Cancelled(o, a) PROVE BackedInv'
  BY <1>13 DEF Cancelled, dbVars, BackedInv, ProgressInv, TypeOK, Quantity, Wanted
<1>14. ASSUME NEW o \in Orders, NEW a \in Attempts, UpdateAbandoned(o, a)
       PROVE  BackedInv'
  BY <1>14 DEF UpdateAbandoned, dbVars, BackedInv, ProgressInv, TypeOK, Quantity, Wanted
<1>15. CASE UNCHANGED vars
  BY <1>15 DEF vars, BackedInv, ProgressInv, TypeOK, Quantity, Wanted
<1> QED
  BY <1>1, <1>2, <1>3, <1>4, <1>5, <1>6, <1>7, <1>8, <1>9, <1>10, <1>11, <1>12, <1>13, <1>14, <1>15
     DEF Next, Client, Server, AllDone

(***************************************************************************)
(* Only the present call takes stock.                                      *)
(***************************************************************************)
LEMMA OnceStep == TypeOK /\ ProgressInv /\ BackedInv /\ OnceInv /\ [Next]_vars => OnceInv'
<1> SUFFICES ASSUME TypeOK, ProgressInv, BackedInv, OnceInv, [Next]_vars PROVE OnceInv'
  OBVIOUS
<1>1. ASSUME NEW o \in Orders, CreateOrder(o) PROVE OnceInv'
  BY <1>1 DEF CreateOrder, Answer, Goto, dbVars, OnceInv, ProgressInv, TypeOK, Quantity, Wanted
<1>2. ASSUME NEW o \in Orders, Send(o) PROVE OnceInv'
  BY <1>2 DEF Send, Goto, dbVars, OnceInv, ProgressInv, TypeOK, Quantity, Wanted
<1>3. ASSUME NEW o \in Orders, Refused(o) PROVE OnceInv'
  BY <1>3 DEF Refused, RetryOrGiveUp, Answer, Goto, dbVars, OnceInv, ProgressInv, TypeOK, Quantity, Wanted
<1>4. ASSUME NEW o \in Orders, Backoff(o) PROVE OnceInv'
  BY <1>4 DEF Backoff, Goto, dbVars, OnceInv, ProgressInv, TypeOK, Quantity, Wanted
<1>5. ASSUME NEW o \in Orders, Deliver(o) PROVE OnceInv'
  BY <1>5 DEF Deliver, Answer, Goto, dbVars, OnceInv, ProgressInv, TypeOK, Quantity, Wanted
<1>6. ASSUME NEW o \in Orders, SaveOrder(o) PROVE OnceInv'
  <2>1. pc[o] = "saving" /\ Wanted(o) = Quantity(o)
    <3>1. pc[o] = "saving" /\ Quantity(o) <= MaxInt /\ Quantity(o) > 0
      BY <1>6 DEF SaveOrder, ProgressInv
    <3> QED BY <3>1, Amounts, StockAssumption
  <2>2. /\ pc' = [pc EXCEPT ![o] = "done"]
        /\ orders' = orders \cup {o}
        /\ UNCHANGED <<request, attempt, running, response, taken, broken>>
        /\ \E outcome \in {"created", "failed"} :
              seen' = [seen EXCEPT ![o] = IF @ = "none" THEN outcome ELSE @]
    BY <1>6 DEF SaveOrder, Answer, Goto
  <2>3. seen[o] \in {"none", "bad_gateway"}
    BY <2>1 DEF ProgressInv
  <2> QED BY <2>1, <2>2, <2>3 DEF OnceInv, TypeOK, Quantity, Wanted
<1>7. ASSUME NEW o \in Orders, SaveFails(o) PROVE OnceInv'
  BY <1>7 DEF SaveFails, Answer, Goto, dbVars, OnceInv, ProgressInv, TypeOK, Quantity, Wanted
<1>8. ASSUME NEW o \in Orders, ConnectionLost(o) PROVE OnceInv'
  BY <1>8 DEF ConnectionLost, RetryOrGiveUp, Answer, Goto, dbVars, OnceInv, ProgressInv, TypeOK, Quantity, Wanted
<1>9. ASSUME NEW o \in Orders, ProxyFails(o) PROVE OnceInv'
  BY <1>9 DEF ProxyFails, dbVars, OnceInv, ProgressInv, TypeOK, Quantity, Wanted
<1>10. ASSUME NEW o \in Orders, HangUp(o) PROVE OnceInv'
  BY <1>10 DEF HangUp, Answer, Goto, dbVars, OnceInv, ProgressInv, TypeOK, Quantity, Wanted
<1>11. ASSUME NEW o \in Orders, NEW a \in Attempts, Reserve(o, a) PROVE OnceInv'
  <2>1. /\ taken \in [Orders -> Nat] /\ Wanted(o) \in Nat /\ Wanted(o) # 0
        /\ taken' = [taken EXCEPT ![o] = taken[o] + Wanted(o)]
        /\ <<o, a>> \in running /\ running' = running \ {<<o, a>>}
        /\ UNCHANGED <<request, seen, pc, attempt, orders, broken>>
        /\ \A p \in Orders \ {o} : response'[p] = response[p]
        /\ pc[o] = "waiting" /\ attempt[o] = a /\ response[o] \in {"none", "internal"}
                => response'[o] \in {"ok", "internal"}
    BY <1>11, ReserveMoves
  <2>2. \A p \in Orders \ {o} : taken'[p] = taken[p]
    BY <2>1
  <2>3. ASSUME o \notin broken
        PROVE  /\ taken'[o] = Wanted(o)
               /\ \A b \in Attempts : <<o, b>> \notin running'
               /\ o \notin orders /\ pc[o] \in {"waiting", "done"}
               /\ pc[o] = "waiting" => response'[o] \in {"ok", "internal"}
               /\ pc[o] = "done" => seen[o] \in {"bad_gateway", "unavailable"}
    <3>1. \A b \in Attempts : <<o, b>> \in running => b = attempt[o]
      BY <2>3 DEF OnceInv
    <3>2. /\ taken[o] = 0 /\ a = attempt[o]
          /\ \/ pc[o] = "waiting" /\ response[o] \in {"none", "internal"}
             \/ pc[o] = "done" /\ seen[o] \in {"bad_gateway", "unavailable"}
      BY <2>1, <2>3 DEF OnceInv
    <3>3. \A b \in Attempts : <<o, b>> \notin running'
      BY <2>1, <3>1, <3>2
    <3>4. o \notin orders
      BY <2>1, <2>3, <3>2 DEF OnceInv
    <3>5. taken'[o] = Wanted(o)
      BY <2>1, <3>2
    <3> QED BY <2>1, <3>2, <3>3, <3>4, <3>5
  <2>4. pc[o] = "done" => seen[o] \notin {"bad_request", "not_found", "insufficient"}
                          \/ o \in broken
    BY <2>3
  <2>5. \A p \in Orders, b \in Attempts : <<p, b>> \in running' => <<p, b>> \in running
    BY <2>1
  <2>6. pc[o] = "waiting" => seen[o] \in {"none", "bad_gateway"}
    BY DEF ProgressInv
  <2> QED BY <2>1, <2>2, <2>3, <2>4, <2>5, <2>6 DEF OnceInv, Quantity, Wanted
<1>12. ASSUME NEW o \in Orders, NEW a \in Attempts, Decline(o, a) PROVE OnceInv'
  BY <1>12 DEF Decline, Respond, OnceInv, ProgressInv, TypeOK, Quantity, Wanted
<1>13. ASSUME NEW o \in Orders, NEW a \in Attempts, Cancelled(o, a) PROVE OnceInv'
  BY <1>13 DEF Cancelled, dbVars, OnceInv, ProgressInv, TypeOK, Quantity, Wanted
<1>14. ASSUME NEW o \in Orders, NEW a \in Attempts, UpdateAbandoned(o, a)
       PROVE  OnceInv'
  BY <1>14 DEF UpdateAbandoned, dbVars, OnceInv, ProgressInv, TypeOK, Quantity, Wanted
<1>15. CASE UNCHANGED vars
  BY <1>15 DEF vars, OnceInv, ProgressInv, TypeOK, Quantity, Wanted
<1> QED
  BY <1>1, <1>2, <1>3, <1>4, <1>5, <1>6, <1>7, <1>8, <1>9, <1>10, <1>11, <1>12, <1>13, <1>14, <1>15
     DEF Next, Client, Server, AllDone

-----------------------------------------------------------------------------
(* The stock *)

(***************************************************************************)
(* What the orders of any set took grows exactly as the stock shrinks, and *)
(* one order is saved at a time.                                           *)
(***************************************************************************)
LEMMA StockStep == TypeOK /\ StockInv /\ [Next]_vars => StockInv'
<1> SUFFICES ASSUME TypeOK, StockInv, [Next]_vars PROVE StockInv'
  OBVIOUS
<1>1. ASSUME NEW o \in Orders, NEW a \in Attempts, Reserve(o, a) PROVE StockInv'
  <2>1. IsFiniteSet(orders')
    BY <1>1, ReserveMoves DEF StockInv
  <2> SUFFICES ASSUME NEW S \in SUBSET Orders, IsFiniteSet(S)
               PROVE  SumOf(taken', S) + stock' <= InitialStock
    BY <2>1 DEF StockInv
  <2>2. /\ SumOf(taken, S) \in Int /\ SumOf(taken', S) \in Int
        /\ SumOf(taken, S) + stock <= InitialStock
        /\ Wanted(o) \in 1..stock /\ stock' = stock - Wanted(o)
        /\ taken' = [taken EXCEPT ![o] = taken[o] + Wanted(o)]
    <3>1. /\ Wanted(o) \in 1..stock /\ stock' = stock - Wanted(o)
          /\ taken' = [taken EXCEPT ![o] = taken[o] + Wanted(o)]
      BY <1>1, ReserveMoves
    <3>2. \A x \in S : taken[x] \in Int /\ taken'[x] \in Int
      BY <3>1, StockAssumption DEF TypeOK
    <3> QED BY <3>1, <3>2, SumInt DEF StockInv
  <2>3. stock \in Int /\ taken \in [Orders -> Int]
    BY StockAssumption DEF TypeOK
  <2>4. CASE o \notin S
    <3>1. \A x \in S : taken'[x] \in Int /\ taken'[x] = taken[x]
      BY <2>2, <2>3, <2>4
    <3>2. SumOf(taken', S) = SumOf(taken, S)
      BY <3>1, SumEqual
    <3> QED BY <2>2, <2>3, <3>2, StockAssumption
  <2>5. CASE o \in S
    <3> DEFINE R == S \ {o}
    <3>1. /\ IsFiniteSet(R)
          /\ \A x \in S : taken[x] \in Int /\ taken'[x] \in Int
          /\ \A x \in R : taken'[x] = taken[x]
          /\ taken'[o] = taken[o] + Wanted(o)
      BY <2>2, <2>3, <2>5, FS_Subset
    <3>2. SumOf(taken, S) = taken[o] + SumOf(taken, R)
      BY <2>5, <3>1, SumSplits
    <3>3. SumOf(taken', S) = taken'[o] + SumOf(taken', R)
      BY <2>5, <3>1, SumSplits
    <3>4. SumOf(taken', R) = SumOf(taken, R) /\ SumOf(taken, R) \in Int
      BY <3>1, SumEqual, SumInt
    <3> HIDE DEF R
    <3> QED BY <2>2, <2>3, <2>5, <3>1, <3>2, <3>3, <3>4, StockAssumption
  <2> QED BY <2>4, <2>5
<1>2. ASSUME NEW o \in Orders, SaveOrder(o) PROVE StockInv'
  BY <1>2, FS_AddElement DEF SaveOrder, StockInv
<1>3. ASSUME NEW o \in Orders,
             \/ CreateOrder(o) \/ Send(o) \/ Refused(o) \/ Backoff(o)
             \/ Deliver(o) \/ SaveFails(o) \/ ConnectionLost(o)
             \/ ProxyFails(o) \/ HangUp(o)
      PROVE  UNCHANGED dbVars
  BY <1>3 DEF CreateOrder, Send, Refused, Backoff, Deliver, SaveFails,
              ConnectionLost, ProxyFails, HangUp, dbVars
<1>4. ASSUME NEW o \in Orders, NEW a \in Attempts,
             Decline(o, a) \/ UpdateAbandoned(o, a) \/ Cancelled(o, a)
      PROVE  UNCHANGED dbVars
  BY <1>4 DEF Decline, Respond, UpdateAbandoned, Cancelled, dbVars
<1>5. CASE UNCHANGED dbVars
  BY <1>5 DEF dbVars, StockInv
<1>6. CASE UNCHANGED vars
  BY <1>6 DEF vars, StockInv
<1> QED
  BY <1>1, <1>2, <1>3, <1>4, <1>5, <1>6 DEF Next, Client, Server, AllDone

-----------------------------------------------------------------------------
(* Theorems *)

(***************************************************************************)
(* Nothing is saved or taken in the initial state, which satisfies the     *)
(* invariant.                                                              *)
(***************************************************************************)
LEMMA InvInit == Init => Inv
<1> SUFFICES ASSUME Init PROVE Inv
  OBVIOUS
<1>1. ProgressInv /\ BackedInv /\ OnceInv
  BY DEF Init, ProgressInv, BackedInv, OnceInv
<1>2. StockInv
  <2>1. IsFiniteSet(orders)
    BY FS_EmptySet DEF Init
  <2>2. ASSUME NEW S \in SUBSET Orders, IsFiniteSet(S) PROVE SumOf(taken, S) = 0
    <3>1. \A x \in S : taken[x] \in Int /\ taken[x] = 0
      BY DEF Init
    <3> QED BY <2>2, <3>1, SumZero
  <2> QED BY <2>1, <2>2, StockAssumption DEF Init, StockInv
<1> QED BY <1>1, <1>2, TypeInit DEF Inv

(***************************************************************************)
(* The inductive invariant of checkout.                                    *)
(***************************************************************************)
THEOREM Invariance == Spec => []Inv
<1>1. Inv /\ [Next]_vars => Inv'
  BY TypeStep, ProgressStep, BackedStep, OnceStep, StockStep DEF Inv
<1> QED BY <1>1, InvInit, PTL DEF Spec

(***************************************************************************)
(* Type correctness; the stock is never negative.                          *)
(***************************************************************************)
THEOREM TypeCorrect == Spec => []TypeOK
<1>1. Inv => TypeOK
  BY DEF Inv
<1> QED BY <1>1, Invariance, PTL

(***************************************************************************)
(* A saved order took at least its whole quantity from stock, for any      *)
(* quantity a client asks for and any width of the integers.               *)
(***************************************************************************)
THEOREM SavedIsBacked == Spec => []OrderBacked
<1>1. Inv => OrderBacked
  BY DEF Inv, TypeOK, BackedInv, OrderBacked
<1> QED BY <1>1, Invariance, PTL

(***************************************************************************)
(* An order whose connections hold reserves at most once and gets exactly  *)
(* what it is answered.                                                    *)
(***************************************************************************)
THEOREM AtMostOneReservation == Spec => []ReservedOnce
<1>1. Inv => ReservedOnce
  <2> SUFFICES ASSUME Inv, NEW o \in Orders \ broken
               PROVE  /\ taken[o] \in {0, Wanted(o)}
                      /\ seen[o] \in {"bad_request", "not_found", "insufficient"}
                            => taken[o] = 0
                      /\ seen[o] = "created" => taken[o] = Quantity(o)
    BY DEF ReservedOnce
  <2> QED BY DEF Inv, BackedInv, OnceInv
<1> QED BY <1>1, Invariance, PTL

(***************************************************************************)
(* What a client is told of its order is so and stays so.                  *)
(***************************************************************************)
THEOREM AnswersAreTrue == Spec => []AnswersHold
<1>1. Inv => AnswersHold
  BY DEF Inv, BackedInv, AnswersHold, GetOrder, Found
<1> QED BY <1>1, Invariance, PTL

(***************************************************************************)
(* The sum NoOversell is about, as a sum of a function.                    *)
(***************************************************************************)
LEMMA QuantitySum ==
    ASSUME NEW T \in SUBSET Orders, IsFiniteSet(T)
    PROVE  MapThenSumSet(Quantity, T) = SumOf([o \in Orders |-> Quantity(o)], T)
<1> DEFINE f == [o \in Orders |-> Quantity(o)]
           Sums(g) == g = [s \in SUBSET T |->
                             IF s = {} THEN 0
                             ELSE LET x == CHOOSE x \in s : TRUE
                                  IN  Quantity(x) + g[s \ {x}]]
           iter == CHOOSE g : Sums(g)
<1>1. MapThenSumSet(Quantity, T) = iter[T]
  BY DEF MapThenSumSet, MapThenFoldSet
<1>2. \A g : Computes(g, f, SUBSET T) <=> Sums(g)
  <2>1. \A s \in SUBSET T : s # {} => f[Pick(s)] = Quantity(CHOOSE x \in s : TRUE)
    BY DEF Pick
  <2> QED BY <2>1 DEF Computes, Pick
<1>3. PICK g : Computes(g, f, SUBSET T)
  BY SumsExist
<1>4. Sums(iter)
  <2>1. Sums(g)
    BY <1>2, <1>3
  <2> HIDE DEF Sums
  <2> QED BY <2>1
<1>5. Computes(iter, f, SUBSET T)
  <2> HIDE DEF iter, Sums
  <2> QED BY <1>2, <1>4
<1>6. SumOf(f, T) = iter[T]
  <2> HIDE DEF iter, f
  <2> QED BY <1>5, SumUnique
<1> QED BY <1>1, <1>6

(***************************************************************************)
(* Stock is never oversold: the quantities saved and what is left fit what *)
(* there was, for any number of concurrent, retried and half-failed orders.*)
(***************************************************************************)
THEOREM NeverOversold == Spec => []NoOversell
<1>1. Inv => NoOversell
  <2> SUFFICES ASSUME Inv PROVE NoOversell
    OBVIOUS
  <2> DEFINE f == [o \in Orders |-> Quantity(o)]
  <2>1. orders \in SUBSET Orders /\ IsFiniteSet(orders)
    BY DEF Inv, TypeOK, StockInv
  <2>2. MapThenSumSet(Quantity, orders) = SumOf(f, orders)
    BY <2>1, QuantitySum
  <2>3. \A o \in orders : /\ f[o] \in Int /\ taken[o] \in Int
                         /\ f[o] <= taken[o]
    BY <2>1, Amounts, StockAssumption DEF Inv, TypeOK, BackedInv
  <2>4. /\ SumOf(f, orders) <= SumOf(taken, orders)
        /\ SumOf(f, orders) \in Int /\ SumOf(taken, orders) \in Int
    <3> HIDE DEF f
    <3> QED BY <2>1, <2>3, SumBelow, SumInt
  <2>5. SumOf(taken, orders) + stock <= InitialStock /\ stock \in Int
    BY <2>1, StockAssumption DEF Inv, TypeOK, StockInv
  <2> QED BY <2>2, <2>4, <2>5, StockAssumption DEF NoOversell
<1> QED BY <1>1, Invariance, PTL

(***************************************************************************)
(* What the README says of the retries is so as long as no connection      *)
(* breaks under a call: refused connections alone, however often retried,  *)
(* never make an order reserve twice.                                      *)
(***************************************************************************)
THEOREM RefusalsAreSafe ==
    ASSUME ~ Resets
    PROVE  Spec => []NoDoubleReservation
<1> DEFINE NoneBroken == broken = {}
<1>1. Init => NoneBroken
  BY DEF Init
<1>2. NoneBroken /\ [Next]_vars => NoneBroken'
  <2> SUFFICES ASSUME NoneBroken, [Next]_vars PROVE broken' = broken
    OBVIOUS
  <2>1. ASSUME NEW o \in Orders,
               \/ CreateOrder(o) \/ Client(o) \/ ConnectionLost(o)
               \/ ProxyFails(o) \/ HangUp(o)
        PROVE  broken' = broken
    BY <2>1 DEF CreateOrder, Client, Send, Refused, Backoff, Deliver, SaveOrder,
       SaveFails, ConnectionLost, ProxyFails, HangUp
  <2>2. ASSUME NEW o \in Orders, NEW a \in Attempts, Server(o, a) \/ Cancelled(o, a)
        PROVE  broken' = broken
    BY <2>2 DEF Server, Reserve, Decline, Respond, UpdateAbandoned, Cancelled
  <2>3. CASE UNCHANGED vars
    BY <2>3 DEF vars
  <2> QED BY <2>1, <2>2, <2>3 DEF Next, AllDone
<1>3. Inv /\ NoneBroken => NoDoubleReservation
  BY DEF Inv, OnceInv, NoDoubleReservation
<1> QED BY <1>1, <1>2, <1>3, Invariance, PTL DEF Spec
=============================================================================
