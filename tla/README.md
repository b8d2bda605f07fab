# A TLA+ model of go-event-platform

These modules describe the parts of go-event-platform that carry its own logic:
how an order takes stock, how it is saved together with its event, how the event
reaches the stream and the consumers, how stock is read through a cache, and how
the processes start, lose their connections, are probed and stop. TLC
checks them on small instances; TLAPS proves their safety for all instances. Paths
below are relative to the repository (`src/`).

## Inventory

| Part | State it keeps | Operations | Modelled in |
|---|---|---|---|
| api-gateway proxy, `api-gateway/internal/proxy` | none | forward, 502 when the upstream fails | `Checkout` |
| order checkout, `order-service/internal/order/handler.go` | the request in progress | `createOrder`: validate, reserve over gRPC, save; `getOrder` | `Checkout` |
| inventory client and `retry.Do`, `internal/inventoryclient`, `internal/retry` | the attempt, the wait | `Reserve`: call, classify, retry `Unavailable`; `backoffDelay` | `Checkout`, `Retry` |
| order store, `internal/order/store.go`, `internal/db/schema.sql` | tables `orders`, `outbox_events` | `CreateOrder`: one transaction, two inserts | `Outbox` |
| outbox relay, `internal/outbox` | `published_at`, the batch in hand | `publishPending` every 500 ms | `Outbox`, `Platform` |
| event publisher, `internal/events/publisher.go` | its connection; ensures the stream at start | `Publish` with `Nats-Msg-Id` | `Outbox`, `Delivery`, `Platform` |
| inventory store and cache, `inventory-service/internal/inventory` | table `items`, Redis entries | `GetItem`, `ReserveStock`, `RestockItem` | `Inventory`, `Stock` |
| inventory transports, `handler.go`, `grpc_server.go` | none | validate, map errors | `Inventory`, `Checkout` |
| consumers, `notification-service`, `analytics-service` | in-memory `Stats`; JetStream keeps the durable consumer | `Consume`: callback, ack, nak | `Delivery`, `Platform` |
| lifecycle, the five `cmd/*/main.go` with `config`, `tlsconfig`, `db`, `cache` | open resources, goroutines, root context | load, open, signal, drain, close | `Lifecycle` |
| health checks, `httpx/health.go`, and the probes of `k8s/` | none | ping the pool, or look at the connection; restart | `Platform` |
| trace propagation, `events/carrier.go`, `relay.go`, `tracing` | the trace in row, header and context | inject, restore, extract | only the exporter, in `Lifecycle` |
| metrics, request logs, JSON helpers, generated code | none the program reads | | not modelled |

How they interact: `createOrder` calls the inventory-service synchronously
(gRPC), then writes Postgres; the relay polls that table and publishes to
JetStream; JetStream delivers to each consumer. Nothing flows back: no
component undoes what an earlier one did.

What is hard, and what correctness means there:

- **checkout**: a call that failed at the client may have taken effect, or may
  still; retries are not idempotent. A saved order must have its stock, and stock
  must never be sold twice, whatever is retried or abandoned.
- **order store and relay**: two writes that must not diverge; a publish with
  three outcomes (stored, not stored, stored later); two relays during a rolling
  update; rows that commit out of id order; restarts between publish and mark.
  Every order must be announced, and once.
- **cache**: read and fill are two steps, write and invalidation are two more;
  they interleave and the Redis half may be lost.
- **consumers**: crash between recording and acknowledging, lost acknowledgements,
  redelivery, events that never decode.
- **lifecycle**: dependencies that are missing at start; a signal or a failing part
  at any time; waits with and without a deadline; closes under work in progress.
- **backoff**: a shift and a product that overflow; a context that ends as the
  timer fires.
- **the platform as a whole**: connections that give up for ever, what was set up at
  start and is lost later, a liveness probe that does not see it, a subscription that
  ends in a process that goes on, and a mark that comes after NATS lost the event.

`PROJECT.json` lists each hazard at the line where it bites.

## Modules

- **`OrderEvents`**: the abstract promise of the order-service, a set of committed
  orders and a log in which each is announced once, later, in any order.
- **`Outbox`**: `PostgresStore.CreateOrder`, `Relay.Run` and the stream.
  `Begin`, `InsertOrder`, `InsertEvent`, `Commit` and `Rollback` are the
  statements of the transaction; `Commit` may lose its answer. `Fetch` is
  `FetchUnpublished`; `ServerStores`, `AckArrives`, `PublishFails` and `AckLost`
  are the outcomes of `PublishMsg`, split where a crash can fall between them;
  `MarkPublished` and `MarkFails` end a row. `Stop` is a crash or SIGTERM, whose
  cancelled context fails the rest of the poll. `window` is the JetStream
  deduplication window, `late` holds publishes whose caller gave up. Payloads are
  the order itself; subjects and traces are left out.
- **`Inventory`**: `CachingStore` over `PostgresStore`. A request makes one
  Postgres or Redis call per step. An item is its quantity. `clean` and `debt` are
  history: which reads no write has overlapped, and which entries may be stale with
  no `Del` on its way. Whoever executes a statement may outlive its caller: `LateFill`
  is a `Set` after the read was answered, `UpdateAbandoned` answers an error while
  Postgres has the `UPDATE`, and `LateUpdate` executes or drops it.
- **`Checkout`**: `createOrder`, `Client.Reserve` over `retry.Do`, and
  `GRPCServer.ReserveStock` as a server that may outlive its client. `Int32` is the
  conversion in `client.go:113` at a small width. `ProxyFails` is the gateway: its
  own 502 when the order-service is not reached, the connection breaks or the client
  hangs up, which also cancels the context of the handler. `seen` is what the client
  gets, `GetOrder` what a later `GET /orders/{id}` answers. A call the client has
  given up stays in `running`, and so does an `UPDATE` the server has given up
  (`UpdateAbandoned`). `taken` and `broken` are history.
- **`Stock`**: the abstract promise of the inventory-service to whoever writes: a
  write takes effect once at most; answered ok, it did so between request and answer;
  refused for want of stock, there was too little at such a moment and it takes none;
  answered with an error, it may take effect then, later or never.
- **`Retry`**: `retry.Do` and `backoffDelay`. `Wrap` and `Shift` are Go's arithmetic
  on a signed integer of `Width` bits; `Delays` is the set the random jitter draws
  from. `Fails` goes to the `select`, which `Timeout` or `CutShort` leaves.
- **`Delivery`**: the stream, the durable consumers and `Subscriber.Consume`. Both
  services run the same code, so they are one definition with a parameter. The
  callback is split where a crash matters: taken, recorded, acknowledged.
- **`Platform`**: the composition: order-service, stream and consumers as processes
  with a connection each. A delivery with its callback and acknowledgement is one step
  here, and so is a publish with its acknowledgement (`Delivery` and `Outbox` have them
  in detail); publish and mark are two, `confirmed` holding the rows between them, and
  NATS may be replaced there. What is added is which process sets up the stream and the
  durable consumers and when, what `nats.Conn` does in an outage (`Connect` is called
  without options, so it gives up after 60 attempts), what `/healthz` sees, and what a
  replaced NATS forgets: stream, durable consumers and message ids. `stream` and `acked`
  stand for the messages of an order: `Store` of an event that is in the stream either
  is dropped by its message id or, after the deduplication window, adds a message that
  no consumer has acknowledged. `recorded`, `wiped` and `repeated` are history.
- **`Lifecycle`**: the `main` of the five services as one definition over a
  description of each: what its configuration insists on, the resources it opens
  (closed by defers in the opposite order) and what each needs, its servers and its
  worker. `missing` is what is down or absent while it starts. `BeginStop`, `Drained`, `Stopped`, `TimesOut`,
  `Close` and `Exit` are the lines after `<-ctx.Done()`; a request is a step in a
  handler and may hold a connection of the pool, whose `Close` waits for it.
  `SubscriptionEnds` is the end of a subscription under a running consumer, whose
  `Consume` waits for its context only and does not notice.
- **`OutboxProofs`**, **`CheckoutProofs`**, **`InventoryProofs`**,
  **`DeliveryProofs`**, **`PlatformProofs`**, **`LifecycleProofs`**,
  **`RetryProofs`**: the theorems about the modules of those names.
- **`Sums`**: lemmas about sums over finite sets, for the proofs about stock.
- **`MC*`**: sets for the configurations.

Operators called `Mut...` are plausible mistakes, one for every property a
passing run checks; with the mistake in place of the definition named after `Mut`
the property fails. No specification uses them.

## Runs

| Run | Instance | What it shows |
|---|---|---|
| `OutboxSafety` | 3 orders, 2 relays, batch 2, stream up to 4, symmetric | `OrderIffEvent`, `PublishedIsStored`, `AtMostOnce`, the inductive `Inv`, and that `Outbox` implements `OrderEvents` |
| `OutboxLiveness` | 2 orders, 1 relay, batch 1 | `EventuallyPublished`, and `OrderEvents` with its fairness |
| `OutboxRefusedEvent` | 2 orders, one refused for ever, 2 relays | the refused event does not hold up the other |
| `OutboxLongOutage` | outages longer than the window | an event stored twice (finding) |
| `Inventory` | 3 requests, a known and an unknown SKU, quantities 1 and 2, every fault | stock accounts for all writes; `Inventory` implements `Stock`; every staleness has one of three causes; the TTL ends it |
| `InventoryOvertaken` | no faults | a stale read after a write was answered (finding) |
| `Checkout` | 2 orders, quantities 0, 2, 5, 9 at 3-bit integers, 2 attempts, every fault | `OrderBacked`, `NoOversell`, `ReservedOnce`, `AnswersHold`, and an answer to every order |
| `CheckoutRetry` | 1 order, 3 attempts | stock taken twice for one order (finding) |
| `Delivery` | 3 events, one undecodable, 1 consumer | `AckedWasHandled`, `CountedOnce`, `EventuallyAcked` |
| `Lifecycle` | each of five services, any set of dependencies missing, 3 requests | `RelayHasResources`, `RequestsDrained`, `StartsAlone`, `StopsWhenTold`, `NoHalfService` |
| `Retry` | 9-bit durations, 1, 0, -1 and 11 attempts, 56 pairs of delays and the one of `Reserve` | `BackoffBounded`, `BudgetBridgesRestart`, `CancelStops` |
| `Platform` | 1 order, both consumers, every fault | `OnlyReplacementLoses`, `RecordedAgain`, `ConsumersReconnect`, `EventuallyRecorded` |

Runs with a finding check one sentence of the README or of a comment, which
`PROJECT.json` quotes.

A lost `Del` has the same effect as an overtaken fill: the README has an outage of
Redis degrade performance only, and the model has it in `debt`, one of the three
causes `StaleExplained` allows (the others are a fill that a write has overtaken,
and a write still on its way to its `Del`). `RequestsDrained` excepts REST requests
that outlast the ten seconds of `Shutdown`. `NoHalfService` says that a process ends
when one of its servers fails or its consumer cannot be set up; a subscription that ends
later ends nothing, and what follows from that is in `Platform`.

`OnlyReplacementLoses` covers the mark that follows a publish whatever happened in
between: an order that is marked and in no stream was in it when NATS lost its storage,
before the mark or after, so nothing is marked that was published while the stream was
missing. `RecordedAgain` is the other side: when the mark fails, or the new NATS knows no
message ids, the event is stored twice, and only then a consumer takes it again.

`EventuallyRecorded` is the promise of the whole: a saved order reaches every
consumer, through any finite number of outages, crashes and replacements. It excepts
three states, spelled out in `Severed`, and fails if any of them is left out:

1. the relay's connection gave up, and `/healthz` of the order-service, which pings
   Postgres only (`order-service/internal/httpx/health.go:16`), leaves it so;
2. NATS was replaced, and a consumer that has reconnected is healthy but has no
   durable consumer, which is bound at start only (`subscriber.go:72`);
3. the event was marked published and its stream is gone: NATS has no volume
   (`k8s/04-nats.yaml`).

A missing stream needs no case of its own: it is missing only while no process has
started since NATS was replaced, and then every connected consumer is in the second
state.

`StartsAlone` says what each service needs to start. For the order-service that
includes NATS, so one that restarts during an outage of NATS takes no orders, and for
the inventory-service Redis: `README.md:275-276` ("no longer depends on NATS being up
at all") and `README.md:68-70` hold of a process that is already running.

Why the bounds are enough. Three orders, two relays and a batch of two give a full
batch, a row left for the next poll, rows that commit out of id order and two relays
on the same rows; `MaxStream` is one more than the orders, so a duplicate fits.
Three inventory requests are the least for a fill overtaken by a write and read by a
third. Integers of three bits leave the quantities 5 (out of range, narrowed to a
negative) and 9 (narrowed to 1, which the server accepts) and 2 in range, so that
two orders compete for a stock of 3; two attempts have a first, a retry and a last.
Eleven attempts shift out of nine bits, and the delays reach products that wrap to
zero, negative and positive values. The assumption `Safe` (the base, or its negation,
times the limit fits the width, as 300 ms times 2 s does in 64 bits) is what makes the
clamp sufficient; the delays -15 and 17 are at its edge. Two
consumers give one that has what the other lacks, and one whose start sets up the stream
under the other; orders do not wait for each other on that way (`OutboxRefusedEvent` and
`Delivery` have several), so `Platform` takes one. Two good events and a bad
one give an order to be held up in; `MaxCount` is 2, the least double count. Three
lifecycle requests leave one on each server and one waiting. Consumers share nothing
but the stream, so one stands for each.

## Fairness

- `Outbox`: a relay process is restarted and polls again. A step the relay tries
  again and again (publish, acknowledgement, mark) succeeds now and then: strong
  fairness, because crashes and failures interrupt it. Requests, failures,
  stops and the server's window get none.
- `Inventory`: a request in progress goes on (a goroutine) and Redis expires keys.
- `Checkout`: a handler in progress goes on, and the server answers every call it
  gets. The second is an assumption: no deadline bounds an attempt
  (`client.go:111`), so a server that accepts a call and stays silent would keep the
  order waiting until its client hangs up. Nothing makes a connection break or a
  client hang up.
- `Delivery`: services are started again (Kubernetes restarts containers; the compose
  file sets no restart policy, so there an operator does),
  crashes stop some day, AckWait is a timer, acknowledgements are not lost for
  ever, and the buffer is first in, first out, so an event in it gets its turn
  although bad events come back. Nothing makes anyone publish.
- `Platform`: servers and processes fail finitely often and come back, probes and
  polls are periodic, a connection that can be restored is restored. A connection
  that gives up is never forced, nor excluded, and no mark has to succeed.
- `Retry` checks safety only.
- `Lifecycle`: `main` goes on and its deadline is a timer; polls end, because their
  calls carry the cancelled context; the `select` of the relay picks the cancelled
  context in the end; a request ends. The last is an assumption on the databases:
  neither `GracefulStop` nor the close of the pool has a limit of its own. Signals,
  failures and kills are never forced.

## Proofs

Each component has one inductive invariant `Inv`, a theorem `Invariance` (`Spec =>
[]Inv`), and the properties as consequences of it. `Inv` is proved per part: a lemma
`...Step` says that every action preserves that part, with one step per action. All
safety properties of the passing runs are proved, for any constants that meet the
named assumptions of the modules:

| Module | For any | Proved |
|---|---|---|
| `OutboxProofs` | finite set of orders, relays, batch size, refused orders | `TypeOK`, `OrderIffEvent`, `PublishedIsStored`, `AtMostOnce`, `ImplementsPromise` |
| `CheckoutProofs` | orders, quantities, integer width, attempts, with and without faults | `TypeOK`, `OrderBacked`, `ReservedOnce`, `AnswersHold`, `NoOversell`; `NoDoubleReservation` if no connection breaks |
| `InventoryProofs` | requests, SKUs, quantities, initial stock, with and without faults | `TypeOK`, `StaleExplained`, `CleanReadsCurrent`, `StockBacksReplies`, `ImplementsStock` |
| `DeliveryProofs` | consumers, events, undecodable events, count bound | `TypeOK`, `AckedWasHandled`, `CountedOnce` |
| `PlatformProofs` | orders, consumers | `TypeOK`, `OnlyReplacementLoses`, `RecordedAgain` |
| `LifecycleProofs` | requests, in each of the five services | `TypeOK`, `RelayHasResources`, `RequestsDrained`, the safety half of `StartsAlone` |
| `RetryProofs` | width of a duration, configurations that are `Safe` | `TypeOK`, `BackoffBounded`, `CancelStops`; `BudgetBridgesRestart` for the configuration of `Reserve` |

### Assumptions

The named assumptions say that a constant has its type: a quantity is an integer, a
switch a Boolean, a limit a positive number, a marker (`Absent`, `Nothing`) not
a value. Four theorems assume more, each where a run shows that it is needed or the
code fixes the value:

- `NoDuplicate` and `Refinement`: no outage outlives the deduplication window
  (`~LongOutages`). `OutboxLongOutage` shows the duplicate otherwise.
- `RefusalsAreSafe`: no connection breaks under a call (`~Resets`). It is the part of
  the claim about retries that holds: refused connections and `Unavailable` from
  before the call never take stock twice. `CheckoutRetry` shows the rest failing.
- `ReserveBudget`: the configuration is the one in `client.go`, 6 attempts, 300 ms and
  2 s, in units of 50 ms.

`Safe` came out of a proof. The assumption used to bound base times limit only, and
the lemma about the product was false for a large negative base: a product that wraps
to a small positive number is a shorter wait than the intended cap. The bound now holds
for the negated base too, and `MCRetry` has a base of -15. No configuration in the code
is near it.

### Why the invariants are stronger

- **`Outbox`**: `PublishedIsStored` says nothing of a relay about to mark, nor of a
  row whose id another order might reuse; `AtMostOnce` says nothing of the copies
  still on their way. `RowsInv` has unique ids below the sequence, and a staged row
  belongs to a transaction that can still commit; `CopiesInv` has every copy belong
  to a committed row, and an id marked or deduplicated, or about to be marked, only if
  its event is stored; `WindowInv` leaves an event the server would store again no
  copy that could reach it. The run `OutboxSafety` checks the same `Inv`. `Refinement`
  maps `Commit` to `Commit`, a `Receive` outside the window to `Announce`, and
  everything else to a stutter.
- **`Checkout`**: `OrderBacked` speaks of saved orders, so `BackedInv` follows the
  stock from the answer of the server through `saving` to the row. `ReservedOnce`
  holds because a call of an unbroken order that is still running at the server is
  its present attempt and nothing was taken yet, also when the answer was `Internal` and
  its `UPDATE` is still to come (`OnceInv`). The narrowing is harmless
  because a quantity is positive from validation on (`ProgressInv`) and fits the column
  when it is saved, so it was not changed on its way. `NoOversell` is a sum over saved
  orders, but stock also goes to orders that are never saved: `StockInv` bounds what any
  finite set of orders took plus what is left.
- **`Inventory`**: `StaleExplained` is inductive beside `ProgressInv`, which ties the
  step of a request to its kind and its reply, and `CleanInv`: a clean read in hand
  has seen the present stock, and no write to its SKU waits for its `Del`.
  `CleanReadsCurrent` is proved of the step that answers. `StockInv` gives the stock
  of each SKU as a sum over the writes applied. `ImplementsPromise` maps each
  action to an action of `Stock` or to a stutter (`StepMaps`); a `LateUpdate` is the
  `Apply` of a write that was answered with an error.
- **`Delivery`**: `HandledInv` says of acknowledgements in flight and of the callback
  what `AckedWasHandled` says of the server. `FirstInv` says that an event not overdue
  is in at most one of three places (not delivered, in the buffer, in the callback) and
  was not counted before the callback records it.
- **`Platform`**: `OnlyReplacementLoses` says nothing of a publish that was acknowledged
  and waits for its mark: `StoredInv` has it stored or wiped from the acknowledgement on,
  so the mark may come at any time. `RecordedAgain` is a property of one step;
  `RepeatInv` says what has to hold before it: an event in the stream that a consumer
  recorded is acknowledged by its durable consumer, or was stored twice.
- **`Lifecycle`**: `PhaseInv` says for each phase of `main` what may be open, listening and
  in progress. `RunsComplete` adds `StartInv`: what `main` has got past was there.
- **`Retry`**: the arithmetic is the proof. `ShiftShape` says what `1 << k` is in a
  word of any width (a power of two, its negation in the top bit, or 0),
  `ProductShape` that a product, wrapped or not, is a multiple of `2^k`, and
  `CapIsIdeal` that a multiple that passes the clamp is the product without overflow.
  `LateInv` says that the loop does not wait again after the one call a cancelled
  context lets through: the next wait is not empty, so the `select` ends it at once.

Sums and powers are defined by recursion, and the library's induction theorems, which
take an operator, cannot be used here. `Sums` proves induction on natural numbers for
a set instead (`SetInduction`, from the library's `WFMin`), and with it that a sum over
a finite set does not depend on the order in which `CHOOSE` takes its elements and grows
by what is added. `2^n` is known to the library as the number of subsets of a set of n
elements; `PowerDoubles` and `PowerAdds` count them.

### Only model-checked

- Liveness and the fair refinements, which need `ENABLED`: `EventuallyPublished`,
  `ImplementsFairPromise`, `EventuallyFresh`, `EveryOrderAnswered`, `EventuallyAcked`,
  `ConsumersReconnect`, `EventuallyRecorded`, `StopsWhenTold`, `NoHalfService` and the
  liveness half of `StartsAlone`.
- What the findings refute, which is false of the code.

## Not modelled

- metrics, request logs, JSON encoding and generated code, which keep no state the
  program acts on; the other routes of the gateway, which share the proxy of
  `POST /orders`, and its static page;
- traces. A handler runs behind `otelhttp` and `Publish` starts a span of its own, so
  every span context is valid, the row has a `trace_parent` and the header one too: each
  hop copies what it was given, in a context of its own, and a model of it would be the
  identity;
- `GET /stats`, which reads `Stats`: these are in memory and start from zero with each
  process (`Delivery` resets `count`), and no property claims more;
- time, other than the delays of `Retry`: the length of a poll, of the deduplication
  window and of a reconnection is an order of events, not a number;
- the TLS handshake; certificates are only something a service cannot start without;
- images, ingress, dashboards, and the scripts that generate secrets;
- PostgreSQL, Redis, gRPC and JetStream inside. They are what the code relies on:
  atomic transactions and conditional updates, one call at a time per key,
  `Unavailable` for connection errors, deduplication by message id, redelivery
  until acknowledged. Definitions for them are marked external in `PROJECT.json`.

## Plan

Modelled, in the order of what an error would cost: `Outbox` with its abstract
specification and proofs, `Inventory` with `Stock`, `Checkout` with the gateway,
`Delivery`, `Lifecycle` with its dependencies, `Platform`, `Retry`. Every safety
property of a passing run has its theorem.

Next, to prove:

1. `Platform`: when an order is severed, as safety: a durable consumer is gone only
   after NATS was replaced, and the stream only together with those of every running
   consumer. It is what `EventuallyRecorded` rests on.
2. `Checkout`: stock leaves only into orders, as an equation of `stock` and the sum of
   `taken` over the orders that called.
3. `Stock` and `OrderEvents`: their own invariants for a caller, so that the
   refinements carry them to `Inventory` and `Outbox`.
4. `Retry`: the number of waits before a call, for every configuration.
