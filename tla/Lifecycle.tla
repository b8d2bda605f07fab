----------------------------- MODULE Lifecycle -----------------------------
(***************************************************************************)
(* The main function of the five services: what one needs and opens at     *)
(* start, the goroutines it runs, and what it waits for and closes when it *)
(* stops.                                                                  *)
(* A signal, a server that fails or a consumer that cannot start cancels   *)
(* the root context at any time; requests keep coming until a listener is  *)
(* closed, and hold connections of the pool while they query.              *)
(***************************************************************************)
EXTENDS Naturals, Sequences, FiniteSets

CONSTANTS
    Requests   \* the requests that arrive, of either server

-----------------------------------------------------------------------------
(* The services.  Resources are listed as opened; each is closed by a defer *)
(* in the opposite order.  "config" is what config.Load insists on, "tls"   *)
(* what the gRPC server reads before it runs.                               *)

OrderConfig == {"DATABASE_URL"}
InventoryConfig == {"DATABASE_URL"}
ServerTLS == {"certificates"}
ClientTLS == {"certificates"}

Gateway ==
    [config    |-> {},
     resources |-> <<"tracing">>,
     tls       |-> {},
     servers   |-> {"http"},
     worker    |-> "none"]

OrderService ==
    [config    |-> OrderConfig,
     resources |-> <<"tracing", "pool", "publisher", "client">>,
     tls       |-> {},
     servers   |-> {"http"},
     worker    |-> "relay"]

InventoryService ==
    [config    |-> InventoryConfig,
     resources |-> <<"tracing", "pool", "redis">>,
     tls       |-> ServerTLS,
     servers   |-> {"http", "grpc"},
     worker    |-> "none"]

NotificationService ==
    [config    |-> {},
     resources |-> <<"tracing", "subscriber">>,
     tls       |-> {},
     servers   |-> {"http"},
     worker    |-> "consumer"]

AnalyticsService ==
    [config    |-> {},
     resources |-> <<"tracing", "subscriber">>,
     tls       |-> {},
     servers   |-> {"http"},
     worker    |-> "consumer"]

Services == {Gateway, OrderService, InventoryService, NotificationService,
             AnalyticsService}

\* What opening a resource cannot do without.  The pool and Redis are pinged
\* and the connection to NATS is made; the exporter and the gRPC client dial
\* when they are first used.
Pool == {"postgres"}
Redis == {"redis"}
Publisher == {"nats"}
Subscriber == {"nats"}
Exporter == {}

\* Mutant: the client dials before it is returned.
MutClient == ClientTLS \cup {"inventory-service"}

Client == ClientTLS

Needs(resource) ==
    CASE resource = "tracing"    -> Exporter
      [] resource = "pool"       -> Pool
      [] resource = "redis"      -> Redis
      [] resource = "publisher"  -> Publisher
      [] resource = "subscriber" -> Subscriber
      [] resource = "client"     -> Client

\* What a starting service may find missing.
Outside == {"DATABASE_URL", "certificates", "postgres", "redis", "nats",
            "jaeger", "inventory-service"}

VARIABLES
    service,    \* the service this process runs
    missing,    \* what of Outside is down or absent while it starts
    main,       \* where main stands
    opened,     \* the resources open, as a stack
    cancelled,  \* TRUE iff the root context is
    listening,  \* the servers that accept requests
    worker,     \* the relay, or Consume and its callback
    on,         \* the server each request is on, or its state
    querying,   \* the requests that hold a connection of the pool
    timedOut    \* history: Shutdown reached its deadline

process == <<service, missing>>
vars == <<process, main, opened, cancelled, listening, worker, on, querying,
          timedOut>>

\* "loading": before NotifyContext; "draining": GracefulStop, or the wait for
\* the relay; "stopping": Shutdown.
MainState == {"loading", "starting", "running", "draining", "stopping",
              "closing", "exited", "failed", "killed"}

\* "left": Consume has returned under its callback; "deaf": it waits, and its
\* subscription is gone.
WorkerState == {"none", "starting", "idle", "busy", "deaf", "left", "done"}

Gone == main \in {"exited", "failed", "killed"}
On(servers) == {r \in Requests : on[r] \in servers}
InProgress == On({"http", "grpc"})
IsOpen(resource) == \E i \in DOMAIN opened : opened[i] = resource
Top == opened[Len(opened)]

Init ==
    /\ service \in Services
    /\ missing \in SUBSET Outside
    /\ main = "loading" /\ opened = <<>>
    /\ cancelled = FALSE /\ listening = {} /\ worker = "none"
    /\ on = [r \in Requests |-> "new"] /\ querying = {}
    /\ timedOut = FALSE

-----------------------------------------------------------------------------
(* Starting *)

Load ==
    /\ main = "loading"
    /\ main' = IF service.config \cap missing = {} THEN "starting" ELSE "failed"
    /\ UNCHANGED <<process, opened, cancelled, listening, worker, on,
                   querying, timedOut>>

Starting == main = "starting" /\ Len(opened) < Len(service.resources)
Following == service.resources[Len(opened) + 1]

Open ==
    /\ Starting
    /\ Needs(Following) \cap missing = {}
    /\ opened' = Append(opened, Following)
    /\ UNCHANGED <<process, main, cancelled, listening, worker, on,
                   querying, timedOut>>

\* os.Exit: no defer runs.  Opening may also fail on the cancelled context; the
\* port of the gRPC server is free.
StartFails ==
    /\ \/ Starting /\ (Needs(Following) \cap missing # {} \/ cancelled)
       \/ /\ main = "starting" /\ opened = service.resources
          /\ service.tls \cap missing # {}
    /\ main' = "failed"
    /\ opened' = <<>>
    /\ UNCHANGED <<process, cancelled, listening, worker, on, querying,
                   timedOut>>

Run ==
    /\ main = "starting"
    /\ opened = service.resources
    /\ service.tls \cap missing = {}
    /\ main' = "running"
    /\ listening' = service.servers
    /\ worker' = CASE service.worker = "relay"    -> "idle"
                   [] service.worker = "consumer" -> "starting"
                   [] service.worker = "none"     -> "none"
    /\ UNCHANGED <<process, opened, cancelled, on, querying, timedOut>>

-----------------------------------------------------------------------------
(* What cancels the root context *)

Signal ==
    /\ ~ Gone /\ ~ cancelled /\ main # "loading"
    /\ cancelled' = TRUE
    /\ UNCHANGED <<process, main, opened, listening, worker, on, querying, timedOut>>

\* Mutant: the failure of a server is only logged.
MutServerFails(v) ==
    /\ v \in listening
    /\ listening' = listening \ {v}
    /\ UNCHANGED <<process, main, opened, cancelled, worker, on, querying, timedOut>>

ServerFails(v) ==
    /\ v \in listening
    /\ listening' = listening \ {v}
    /\ cancelled' = TRUE
    /\ UNCHANGED <<process, main, opened, worker, on, querying, timedOut>>

\* Consume cannot ensure the stream or bind its consumer.
ConsumeFails ==
    /\ worker = "starting"
    /\ worker' = "done"
    /\ cancelled' = TRUE
    /\ UNCHANGED <<process, main, opened, listening, on, querying, timedOut>>

-----------------------------------------------------------------------------
(* The worker: Relay.Run, or Subscriber.Consume *)

ConsumeStarts ==
    /\ worker = "starting"
    /\ worker' = "idle"
    /\ UNCHANGED <<process, main, opened, cancelled, listening, on, querying, timedOut>>

\* NATS is replaced, or the durable consumer deleted: no event comes any more.
\* Consume waits for its context alone and returns no error.
SubscriptionEnds ==
    /\ worker = "idle" /\ service.worker = "consumer"
    /\ worker' = "deaf"
    /\ UNCHANGED <<process, main, opened, cancelled, listening, on, querying, timedOut>>

\* A poll, or a callback.  When the tick is due the select of the relay may
\* choose it although the context is cancelled.
Work ==
    /\ worker = "idle"
    /\ worker' = "busy"
    /\ UNCHANGED <<process, main, opened, cancelled, listening, on, querying, timedOut>>

WorkEnds ==
    /\ \/ worker = "busy" /\ worker' = "idle"
       \/ worker = "left" /\ worker' = "done"
    /\ UNCHANGED <<process, main, opened, cancelled, listening, on, querying, timedOut>>

\* Mutant: the relay runs with a context of its own.
MutWorkerReturns ==
    /\ cancelled /\ service.worker = "consumer"
    /\ \/ worker \in {"idle", "deaf"} /\ worker' = "done"
       \/ worker = "busy" /\ worker' = "left"
    /\ UNCHANGED <<process, main, opened, cancelled, listening, on, querying, timedOut>>

\* The relay returns between two polls; Consume waits for no callback.
WorkerReturns ==
    /\ cancelled
    /\ \/ worker \in {"idle", "deaf"} /\ worker' = "done"
       \/ worker = "busy" /\ service.worker = "consumer" /\ worker' = "left"
    /\ UNCHANGED <<process, main, opened, cancelled, listening, on, querying, timedOut>>

-----------------------------------------------------------------------------
(* Requests *)

Accept(r, v) ==
    /\ on[r] = "new" /\ v \in listening
    /\ on' = [on EXCEPT ![r] = v]
    /\ UNCHANGED <<process, main, opened, cancelled, listening, worker, querying,
                   timedOut>>

\* A pool that is being closed gives no more connections.
Query(r) ==
    /\ r \in InProgress \ querying
    /\ IsOpen("pool") /\ ~ (main = "closing" /\ Top = "pool")
    /\ querying' = querying \cup {r}
    /\ UNCHANGED <<process, main, opened, cancelled, listening, worker, on, timedOut>>

QueryEnds(r) ==
    /\ r \in querying
    /\ querying' = querying \ {r}
    /\ UNCHANGED <<process, main, opened, cancelled, listening, worker, on, timedOut>>

Finish(r) ==
    /\ r \in InProgress \ querying
    /\ on' = [on EXCEPT ![r] = "answered"]
    /\ UNCHANGED <<process, main, opened, cancelled, listening, worker, querying,
                   timedOut>>

-----------------------------------------------------------------------------
(* Stopping *)

\* The root context is done.  GracefulStop closes the gRPC listener.
BeginStop ==
    /\ main = "running" /\ cancelled
    /\ main' = "draining"
    /\ listening' = listening \ {"grpc"}
    /\ UNCHANGED <<process, opened, cancelled, worker, on, querying, timedOut>>

\* Mutant: main does not wait for the relay.
MutDrained ==
    /\ main = "draining"
    /\ On({"grpc"}) = {}
    /\ main' = "stopping"
    /\ listening' = {}
    /\ UNCHANGED <<process, opened, cancelled, worker, on, querying, timedOut>>

\* GracefulStop has seen every call end, or the relay has returned; neither
\* wait has a limit.  Shutdown closes the HTTP listener.
Drained ==
    /\ main = "draining"
    /\ On({"grpc"}) = {}
    /\ service.worker = "relay" => worker = "done"
    /\ main' = "stopping"
    /\ listening' = {}
    /\ UNCHANGED <<process, opened, cancelled, worker, on, querying, timedOut>>

\* Mutant: the listener is closed and the requests are not waited for.
MutStopped ==
    /\ main = "stopping"
    /\ main' = "closing"
    /\ UNCHANGED <<process, opened, cancelled, listening, worker, on, querying,
                   timedOut>>

Stopped ==
    /\ main = "stopping"
    /\ On({"http"}) = {}
    /\ main' = "closing"
    /\ UNCHANGED <<process, opened, cancelled, listening, worker, on, querying,
                   timedOut>>

\* The ten seconds of shutdownCtx pass with requests in progress.
TimesOut ==
    /\ main = "stopping"
    /\ On({"http"}) # {}
    /\ main' = "closing"
    /\ timedOut' = TRUE
    /\ UNCHANGED <<process, opened, cancelled, listening, worker, on, querying>>

\* Mutant: resources are closed in the order they were opened.
MutClose ==
    /\ main = "closing" /\ opened # <<>>
    /\ opened' = Tail(opened)
    /\ UNCHANGED <<process, main, cancelled, listening, worker, on, querying, timedOut>>

\* The defers.  Close of the pool waits for the connections in use, without a
\* limit; every other close is bounded.
Close ==
    /\ main = "closing" /\ opened # <<>>
    /\ Top = "pool" => querying = {}
    /\ opened' = SubSeq(opened, 1, Len(opened) - 1)
    /\ UNCHANGED <<process, main, cancelled, listening, worker, on, querying, timedOut>>

\* The process ends with whatever still runs in it.
End(how) ==
    /\ main' = how
    /\ opened' = <<>> /\ listening' = {} /\ querying' = {}
    /\ worker' = IF worker = "none" THEN "none" ELSE "done"
    /\ on' = [r \in Requests |-> IF r \in InProgress THEN "cut" ELSE on[r]]
    /\ UNCHANGED <<process, cancelled, timedOut>>

Exit == main = "closing" /\ opened = <<>> /\ End("exited")

\* A panic, SIGKILL, or the end of the grace period of the container.
Kill == ~ Gone /\ End("killed")

-----------------------------------------------------------------------------

Serve(r) ==
    \/ \E v \in listening : Accept(r, v)
    \/ Query(r) \/ QueryEnds(r) \/ Finish(r)

Worker == ConsumeStarts \/ SubscriptionEnds \/ Work \/ WorkEnds \/ WorkerReturns

Main == \/ Load \/ Open \/ StartFails \/ Run
        \/ BeginStop \/ Drained \/ Stopped \/ TimesOut \/ Close \/ Exit

Next == \/ Main \/ Kill
        \/ Signal \/ ConsumeFails
        \/ \E v \in listening : ServerFails(v)
        \/ Worker
        \/ \E r \in Requests : Serve(r)
        \/ Gone /\ UNCHANGED vars

Spec == Init /\ [][Next]_vars

(***************************************************************************)
(* main goes on, and so do its timers; a request ends, though neither side *)
(* gives it a deadline; a poll ends, because its calls carry the cancelled *)
(* context; the select of the relay sees it in the end.                    *)
(***************************************************************************)
FairSpec ==
    /\ Spec
    /\ WF_vars(Main)
    /\ WF_vars(WorkEnds)
    /\ SF_vars(WorkerReturns)
    /\ \A r \in Requests : WF_vars(QueryEnds(r)) /\ SF_vars(Finish(r))

-----------------------------------------------------------------------------
(* Properties *)

(***************************************************************************)
(* Every variable ranges over the values the code can give it; resources   *)
(* are open in the order main opened them, up to the one it closed last.   *)
(***************************************************************************)
TypeOK ==
    /\ service \in Services
    /\ missing \subseteq Outside
    /\ main \in MainState
    /\ Len(opened) <= Len(service.resources)
    /\ opened = SubSeq(service.resources, 1, Len(opened))
    /\ cancelled \in BOOLEAN
    /\ listening \subseteq service.servers
    /\ worker \in WorkerState
    /\ on \in [Requests -> {"new", "http", "grpc", "answered", "cut"}]
    /\ querying \subseteq InProgress
    /\ timedOut \in BOOLEAN

(***************************************************************************)
(* What the comment in the main of the order-service says: the relay ends  *)
(* its poll before the publisher and the pool are closed underneath it.    *)
(***************************************************************************)
RelayHasResources ==
    service.worker = "relay" /\ worker = "busy" => opened = service.resources

(***************************************************************************)
(* A request in progress has everything its service opened: a gRPC call    *)
(* always, a REST request unless it outlasted the deadline of Shutdown.    *)
(* Only such a request, or a kill, is cut off without an answer.           *)
(***************************************************************************)
RequestsDrained ==
    /\ \A r \in On({"grpc"}) : opened = service.resources
    /\ \A r \in On({"http"}) : opened = service.resources \/ timedOut
    /\ main = "exited" /\ On({"cut"}) # {} => timedOut

\* What a service has to find when it starts.
Essential(s) ==
    CASE s = Gateway          -> {}
      [] s = OrderService     -> {"DATABASE_URL", "postgres", "nats", "certificates"}
      [] s = InventoryService -> {"DATABASE_URL", "postgres", "redis", "certificates"}
      [] s \in {NotificationService, AnalyticsService} -> {"nats"}

(***************************************************************************)
(* No service waits for another to start: with its own stores there it     *)
(* runs, whatever else is down, and without one of them it never does.     *)
(***************************************************************************)
StartsAlone ==
    /\ main = "loading" /\ Essential(service) \cap missing = {}
          ~> main = "running" \/ cancelled \/ main = "killed"
    /\ [](main = "running" => Essential(service) \cap missing = {})

(***************************************************************************)
(* A service whose context is cancelled ends, once its requests do: no     *)
(* wait of main, the relay, the servers and the pool is for another.       *)
(***************************************************************************)
StopsWhenTold == cancelled ~> Gone

(***************************************************************************)
(* When a server fails, or Consume returns because it cannot ensure the    *)
(* stream or bind its consumer, the rest of the process does not live on:  *)
(* it ends as a whole and can be restarted.  This is all that main watches *)
(* for: a subscription that ends later leaves Consume waiting and the      *)
(* process running (see Severed in Platform).                              *)
(***************************************************************************)
NoHalfService ==
    main = "running" /\ (listening # service.servers \/ worker = "done") ~> Gone
=============================================================================
