------------------------------- MODULE Outbox -------------------------------
(***************************************************************************)
(* The transactional outbox of the order-service: CreateOrder writes an    *)
(* order and its outbox row in one Postgres transaction, and relays poll   *)
(* the unpublished rows, publish each to the JetStream stream ORDERS under *)
(* the message id "outbox-<row id>" and mark the row published.  Two       *)
(* relays overlap while a rolling update replaces the pod.  Requests and   *)
(* relays fail or die at any step, publishes and acknowledgements are      *)
(* lost, and a publish its caller gave up on may still reach the server.   *)
(***************************************************************************)
EXTENDS Naturals, Sequences, FiniteSets

CONSTANTS
    Orders,       \* the orders placed, one per createOrder that reserved its stock
    Relays,       \* the relay goroutines, one per order-service process
    BatchSize,    \* the batchSize of the relay
    Rejected,     \* orders whose event the server refuses every time
    LongOutages,  \* TRUE iff the deduplication window may close while a copy
                  \* of the message can still be sent or is still in flight
    MaxStream     \* bound on the length of the stream

ASSUME OrdersAssumption == IsFiniteSet(Orders)
ASSUME BatchAssumption == BatchSize \in Nat \ {0}
ASSUME RejectedAssumption == Rejected \subseteq Orders
ASSUME OutageAssumption == LongOutages \in BOOLEAN

VARIABLES
    \* Postgres
    orders,       \* the committed rows of the orders table
    outbox,       \* the committed rows of outbox_events
    publishedAt,  \* the ids of the rows whose published_at is set
    nextId,       \* the BIGSERIAL sequence of outbox_events
    \* the CreateOrder calls
    tx,           \* where each call stands
    staged,       \* the outbox rows of the open transactions
    \* the relays
    relayPc,      \* where each relay stands in Run
    batch,        \* the rows a relay fetched and has not finished with
    \* NATS JetStream
    stream,       \* the messages of the stream ORDERS
    window,       \* the message ids the server still deduplicates
    late          \* abandoned publishes that may still reach the server

dbVars == <<orders, outbox, publishedAt, nextId>>
txVars == <<tx, staged>>
relayVars == <<relayPc, batch>>
natsVars == <<stream, window, late>>
vars == <<dbVars, txVars, relayVars, natsVars>>

Event == [id : Nat, order : Orders]

\* "orderRow" and "eventRow": the inserts done so far in the open transaction.
TxState == {"idle", "begun", "orderRow", "eventRow", "created", "error"}

\* "publishing": PublishMsg has no answer and its message is not stored yet;
\* "stored": the server has the message, its acknowledgement is on its way.
RelayState == {"down", "idle", "publishing", "stored", "marking"}

Init ==
    /\ orders = {} /\ outbox = {} /\ publishedAt = {} /\ nextId = 1
    /\ tx = [o \in Orders |-> "idle"] /\ staged = {}
    /\ relayPc = [r \in Relays |-> "down"]
    /\ batch = [r \in Relays |-> {}]
    /\ stream = <<>> /\ window = {} /\ late = {}

-----------------------------------------------------------------------------
(* PostgresStore.CreateOrder *)

Begin(o) ==
    /\ tx[o] = "idle"
    /\ tx' = [tx EXCEPT ![o] = "begun"]
    /\ UNCHANGED <<staged, dbVars, relayVars, natsVars>>

\* Mutant: the order is inserted on the pool, outside the transaction.
MutInsertOrder(o) ==
    /\ tx[o] = "begun"
    /\ tx' = [tx EXCEPT ![o] = "orderRow"]
    /\ orders' = orders \cup {o}
    /\ UNCHANGED <<staged, outbox, publishedAt, nextId, relayVars, natsVars>>

InsertOrder(o) ==
    /\ tx[o] = "begun"
    /\ tx' = [tx EXCEPT ![o] = "orderRow"]
    /\ UNCHANGED <<staged, dbVars, relayVars, natsVars>>

\* The row takes its id here, and the sequence keeps it whatever becomes of the
\* transaction: ids have gaps and rows may commit out of id order.
InsertEvent(o) ==
    /\ tx[o] = "orderRow"
    /\ tx' = [tx EXCEPT ![o] = "eventRow"]
    /\ staged' = staged \cup {[id |-> nextId, order |-> o]}
    /\ nextId' = nextId + 1
    /\ UNCHANGED <<orders, outbox, publishedAt, relayVars, natsVars>>

\* Mutant: the status of the order is taken for the outcome of the call.
MutCommit(o) ==
    /\ tx[o] = "eventRow"
    /\ tx' = [tx EXCEPT ![o] = "confirmed"]
    /\ orders' = orders \cup {o}
    /\ outbox' = outbox \cup {e \in staged : e.order = o}
    /\ staged' = {e \in staged : e.order # o}
    /\ UNCHANGED <<publishedAt, nextId, relayVars, natsVars>>

\* Both rows become visible in one step.  The handler answers 201, or 500 when
\* the answer to COMMIT is lost although the transaction is durable.
Commit(o) ==
    /\ tx[o] = "eventRow"
    /\ \E reply \in {"created", "error"} : tx' = [tx EXCEPT ![o] = reply]
    /\ orders' = orders \cup {o}
    /\ outbox' = outbox \cup {e \in staged : e.order = o}
    /\ staged' = {e \in staged : e.order # o}
    /\ UNCHANGED <<publishedAt, nextId, relayVars, natsVars>>

\* Mutant: the deferred Rollback is missing and the transaction stays open.
MutRollback(o) ==
    /\ tx[o] \in {"begun", "orderRow", "eventRow"}
    /\ tx' = [tx EXCEPT ![o] = "error"]
    /\ UNCHANGED <<staged, dbVars, relayVars, natsVars>>

\* Any statement fails, the client hangs up or the process dies before COMMIT:
\* the deferred Rollback, or the server, discards both inserts.
Rollback(o) ==
    /\ tx[o] \in {"begun", "orderRow", "eventRow"}
    /\ tx' = [tx EXCEPT ![o] = "error"]
    /\ staged' = {e \in staged : e.order # o}
    /\ UNCHANGED <<dbVars, relayVars, natsVars>>

-----------------------------------------------------------------------------
(* The stream and its deduplication window *)

InStream(e) == \E i \in DOMAIN stream : stream[i] = e

\* Mutant: every publish has a message id of its own.
MutReceive(e) ==
    /\ Len(stream) < MaxStream
    /\ stream' = Append(stream, e)
    /\ window' = window \cup {e.id}

Receive(e) ==
    \/ /\ e.id \in window
       /\ UNCHANGED <<stream, window>>
    \/ /\ e.id \notin window
       /\ Len(stream) < MaxStream
       /\ stream' = Append(stream, e)
       /\ window' = window \cup {e.id}

-----------------------------------------------------------------------------
(* Relay.Run, publishPending and publishOne *)

\* Mutant: the poll sees the rows of open transactions.
MutUnpublishedDirty == {e \in outbox \cup staged : e.id \notin publishedAt}

\* Mutant: the relay keeps a cursor, the highest id published, instead of
\* published_at.
MutUnpublishedCursor ==
    {e \in outbox : \A id \in publishedAt : e.id > id}

Unpublished == {e \in outbox : e.id \notin publishedAt}

\* ORDER BY id LIMIT n
FirstRows(rows, n) ==
    {e \in rows : Cardinality({f \in rows : f.id < e.id}) < n}

\* The row at the head of the loop over the fetched rows.
Current(r) == {e \in batch[r] : \A f \in batch[r] : e.id <= f.id}

\* On to the next row of the batch, or back to the ticker after the last one.
NextRow(r, e) ==
    /\ batch' = [batch EXCEPT ![r] = @ \ {e}]
    /\ relayPc' = [relayPc EXCEPT
                     ![r] = IF batch[r] = {e} THEN "idle" ELSE "publishing"]

Start(r) ==
    /\ relayPc[r] = "down"
    /\ relayPc' = [relayPc EXCEPT ![r] = "idle"]
    /\ UNCHANGED <<batch, dbVars, txVars, natsVars>>

\* A poll.  A failed query and one that finds no row leave the relay waiting
\* for the next tick.
Fetch(r) ==
    /\ relayPc[r] = "idle"
    /\ Unpublished # {}
    /\ batch' = [batch EXCEPT ![r] = FirstRows(Unpublished, BatchSize)]
    /\ relayPc' = [relayPc EXCEPT ![r] = "publishing"]
    /\ UNCHANGED <<dbVars, txVars, natsVars>>

ServerStores(r, e) ==
    /\ relayPc[r] = "publishing"
    /\ e \in Current(r)
    /\ e.order \notin Rejected
    /\ Receive(e)
    /\ relayPc' = [relayPc EXCEPT ![r] = "stored"]
    /\ UNCHANGED <<batch, late, dbVars, txVars>>

AckArrives(r, e) ==
    /\ relayPc[r] = "stored"
    /\ e \in Current(r)
    /\ relayPc' = [relayPc EXCEPT ![r] = "marking"]
    /\ UNCHANGED <<batch, dbVars, txVars, natsVars>>

\* Mutant: an event that cannot be published is marked all the same.
MutPublishFailsMarks(r, e) ==
    /\ relayPc[r] = "publishing"
    /\ e \in Current(r)
    /\ late' \in {late, late \cup {e}}
    /\ publishedAt' = publishedAt \cup {e.id}
    /\ NextRow(r, e)
    /\ UNCHANGED <<stream, window, orders, outbox, nextId, txVars>>

\* Mutant: the first error ends the poll.
MutPublishFailsReturns(r, e) ==
    /\ relayPc[r] = "publishing"
    /\ e \in Current(r)
    /\ late' \in {late, late \cup {e}}
    /\ batch' = [batch EXCEPT ![r] = {}]
    /\ relayPc' = [relayPc EXCEPT ![r] = "idle"]
    /\ UNCHANGED <<stream, window, dbVars, txVars>>

\* PublishMsg returns an error: the server refused the message, the request
\* was lost, or it timed out and stays in a buffer on its way to the server.
PublishFails(r, e) ==
    /\ relayPc[r] = "publishing"
    /\ e \in Current(r)
    /\ late' \in {late, late \cup {e}}
    /\ NextRow(r, e)
    /\ UNCHANGED <<stream, window, dbVars, txVars>>

\* The server has stored the message and the relay sees only the timeout.
AckLost(r, e) ==
    /\ relayPc[r] = "stored"
    /\ e \in Current(r)
    /\ NextRow(r, e)
    /\ UNCHANGED <<dbVars, txVars, natsVars>>

MarkPublished(r, e) ==
    /\ relayPc[r] = "marking"
    /\ e \in Current(r)
    /\ publishedAt' = publishedAt \cup {e.id}
    /\ NextRow(r, e)
    /\ UNCHANGED <<orders, outbox, nextId, txVars, natsVars>>

MarkFails(r, e) ==
    /\ relayPc[r] = "marking"
    /\ e \in Current(r)
    /\ NextRow(r, e)
    /\ UNCHANGED <<dbVars, txVars, natsVars>>

\* The process crashes, or SIGTERM cancels the context every remaining call of
\* the poll uses.  The rows of the batch are forgotten; the message of an open
\* publish may be on the wire.
Stop(r) ==
    /\ relayPc[r] # "down"
    /\ relayPc' = [relayPc EXCEPT ![r] = "down"]
    /\ batch' = [batch EXCEPT ![r] = {}]
    /\ \/ UNCHANGED late
       \/ relayPc[r] = "publishing" /\ late' = late \cup Current(r)
    /\ UNCHANGED <<stream, window, dbVars, txVars>>

-----------------------------------------------------------------------------
(* NATS JetStream *)

\* One of the copies of an abandoned publish arrives, others may follow.
LateArrival(e) ==
    /\ e \in late
    /\ e.order \notin Rejected
    /\ Receive(e)
    /\ UNCHANGED <<late, dbVars, txVars, relayVars>>

LateGone(e) ==
    /\ e \in late
    /\ late' = late \ {e}
    /\ UNCHANGED <<stream, window, dbVars, txVars, relayVars>>

\* No copy of the message can reach the server any more: its row is marked,
\* no relay holds it and none is in flight.
Settled(e) ==
    /\ e.id \in publishedAt
    /\ e \notin late
    /\ \A r \in Relays : e \notin batch[r]

\* The two-minute deduplication window of a message closes.  When LongOutages
\* is FALSE, outages and relay stalls are shorter than the window.
WindowCloses(e) ==
    /\ e.id \in window
    /\ LongOutages \/ Settled(e)
    /\ window' = window \ {e.id}
    /\ UNCHANGED <<stream, late, dbVars, txVars, relayVars>>

-----------------------------------------------------------------------------

CreateOrder(o) ==
    Begin(o) \/ InsertOrder(o) \/ InsertEvent(o) \/ Commit(o) \/ Rollback(o)

PublishPending(r) ==
    \/ Fetch(r)
    \/ \E e \in batch[r] :
          \/ ServerStores(r, e)
          \/ AckArrives(r, e)
          \/ PublishFails(r, e)
          \/ AckLost(r, e)
          \/ MarkPublished(r, e)
          \/ MarkFails(r, e)

Nats == \E e \in outbox : LateArrival(e) \/ LateGone(e) \/ WindowCloses(e)

Next ==
    \/ \E o \in Orders : CreateOrder(o)
    \/ \E r \in Relays : Start(r) \/ PublishPending(r) \/ Stop(r)
    \/ Nats

Spec == Init /\ [][Next]_vars

(***************************************************************************)
(* Run is restarted and polls on; no failure repeats forever on the same   *)
(* row: a call that is made again and again succeeds now and then, and a   *)
(* publish always returns (PublishMsg has a deadline).                     *)
(***************************************************************************)
Fairness ==
    \A r \in Relays :
        /\ WF_vars(Start(r))
        /\ SF_vars(Fetch(r))
        /\ \A o \in Orders \ Rejected :
              LET Row == {e \in batch[r] : e.order = o}
              IN  /\ SF_vars(\E e \in Row : ServerStores(r, e))
                  /\ SF_vars(\E e \in Row : AckArrives(r, e))
                  /\ SF_vars(\E e \in Row : MarkPublished(r, e))
        /\ \A o \in Rejected :
              SF_vars(\E e \in batch[r] : e.order = o /\ PublishFails(r, e))

FairSpec == Spec /\ Fairness
-----------------------------------------------------------------------------
(* Properties *)

(***************************************************************************)
(* Every variable ranges over the values the code can give it.             *)
(***************************************************************************)
TypeOK ==
    /\ orders \subseteq Orders
    /\ outbox \subseteq Event
    /\ publishedAt \subseteq Nat
    /\ nextId \in Nat
    /\ tx \in [Orders -> TxState]
    /\ staged \subseteq Event
    /\ relayPc \in [Relays -> RelayState]
    /\ batch \in [Relays -> SUBSET Event]
    /\ stream \in Seq(Event)
    /\ window \subseteq Nat
    /\ late \subseteq Event

(***************************************************************************)
(* The promise of the comment on CreateOrder: an order exists exactly when *)
(* one outbox row announces it, at every instant, wherever requests fail.  *)
(* An order answered with 201 exists.                                      *)
(***************************************************************************)
OrderIffEvent ==
    /\ \A o \in orders : \E e \in outbox : e.order = o
    /\ \A e \in outbox : e.order \in orders
    /\ \A e, f \in outbox : e.order = f.order \/ e.id = f.id => e = f
    /\ \A o \in Orders : tx[o] = "created" => o \in orders

(***************************************************************************)
(* A row leaves the queue only after its event is durable in the stream,   *)
(* so no failure between publish and MarkPublished loses an event.         *)
(***************************************************************************)
PublishedIsStored ==
    \A e \in outbox : e.id \in publishedAt => InStream(e)

(***************************************************************************)
(* No event is in the stream twice, whichever relays retry it, however     *)
(* often, and whatever late copies arrive: the stable message id and the   *)
(* deduplication window make the retries of the relay safe.                *)
(***************************************************************************)
AtMostOnce ==
    \A i, j \in DOMAIN stream : stream[i].order = stream[j].order => i = j

(***************************************************************************)
(* The invariants above made inductive.  Rows: an id is taken once, a call *)
(* owns at most one outbox row, and a staged row belongs to a transaction  *)
(* that can still commit.                                                  *)
(***************************************************************************)
RowsInv ==
    /\ orders = {e.order : e \in outbox}
    /\ \A o \in orders : tx[o] \in {"created", "error"}
    /\ \A o \in Orders : tx[o] = "created" => o \in orders
    /\ \A o \in Orders : tx[o] = "eventRow" => \E e \in staged : e.order = o
    /\ \A e \in staged : tx[e.order] = "eventRow"
    /\ \A e \in outbox \cup staged : e.id < nextId
    /\ \A e, f \in outbox \cup staged :
          e.order = f.order \/ e.id = f.id => e = f

(***************************************************************************)
(* Copies: whatever a relay holds, is in flight or is in the stream is the *)
(* event of a committed row; an id is marked or deduplicated only once the *)
(* event of its row is stored, and so is what a relay is about to mark.    *)
(***************************************************************************)
CopiesInv ==
    /\ late \subseteq outbox
    /\ \A r \in Relays : batch[r] \subseteq outbox
    /\ \A i \in DOMAIN stream : stream[i] \in outbox
    /\ \A id \in publishedAt \cup window :
          \E e \in outbox : e.id = id /\ InStream(e)
    /\ \A r \in Relays : relayPc[r] \in {"stored", "marking"} =>
          \A e \in Current(r) : InStream(e)

(***************************************************************************)
(* Window: an event the server would store again has no copy left that     *)
(* could reach it.                                                         *)
(***************************************************************************)
WindowInv ==
    /\ \A e \in outbox : InStream(e) /\ e.id \notin window => Settled(e)
    /\ AtMostOnce

Inv == /\ TypeOK
       /\ RowsInv
       /\ CopiesInv
       /\ ~LongOutages => WindowInv

(***************************************************************************)
(* The outbox implements the abstract promise: the table of orders is what *)
(* is committed, the stream is the log of announcements.                   *)
(***************************************************************************)
Promise == INSTANCE OrderEvents WITH
    Deliverable <- Orders \ Rejected,
    committed   <- orders,
    log         <- [i \in DOMAIN stream |-> stream[i].order]

ImplementsPromise == Promise!Spec

(***************************************************************************)
(* The same with the fairness of the abstract promise: what the relays,    *)
(* retries and marks amount to is that no committed order waits forever.   *)
(***************************************************************************)
ImplementsFairPromise == Promise!FairSpec

(***************************************************************************)
(* Every committed order is announced and its row leaves the queue, even   *)
(* when its 201 was lost, its row committed after rows with a higher id,   *)
(* relays die between any two steps, or an event the server refuses sits   *)
(* in front of it in the batch.                                            *)
(***************************************************************************)
EventuallyPublished ==
    \A o \in Orders \ Rejected :
        o \in orders ~> \E e \in outbox : /\ e.order = o
                                          /\ InStream(e)
                                          /\ e.id \in publishedAt
=============================================================================
