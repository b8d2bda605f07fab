------------------------------ MODULE Platform ------------------------------
(***************************************************************************)
(* The order-service, NATS and the consumers as processes that start, lose *)
(* their connections, are probed and restarted: the way of an order from   *)
(* Postgres to every consumer, through outages of NATS and Postgres,       *)
(* crashes, and a NATS pod that is replaced and loses its storage.  What a *)
(* poll of the relay and a callback of a consumer do step by step is in    *)
(* Outbox and Delivery.                                                    *)
(***************************************************************************)
CONSTANTS
    Orders,      \* the orders placed
    Consumers    \* the services that consume, by durable name

ASSUME NamesAssumption == "order" \notin Consumers

VARIABLES
    nats,       \* TRUE iff the NATS server is up
    postgres,   \* TRUE iff the order-db is up
    conn,       \* each process and its connection to NATS
    hasStream,  \* the stream ORDERS exists
    stream,     \* the orders whose event is in it
    bound,      \* the durable consumers that exist
    acked,      \* the events in the stream each of them has had acknowledged
    rows,       \* the orders saved, each with its outbox row
    confirmed,  \* those whose publish was acknowledged, with the mark to come
    marked,     \* those whose row is marked published
    \* History, read by no guard:
    recorded,   \* the orders each consumer has handled and acknowledged
    wiped,      \* those whose event went with the storage of NATS
    repeated    \* those in the stream whose event was stored before

natsVars == <<hasStream, stream, bound, acked>>
orderVars == <<rows, confirmed, marked>>
history == <<recorded, wiped, repeated>>
vars == <<nats, postgres, conn, natsVars, orderVars, history>>

Services == {"order"} \cup Consumers

\* Of a process without a connection ("off"), or of nats.Conn.
ConnState == {"off", "connected", "reconnecting", "closed"}

Running(s) == conn[s] # "off"
Connected(s) == nats /\ conn[s] = "connected"
Become(s, state) == conn' = [conn EXCEPT ![s] = state]

Init ==
    /\ nats = TRUE /\ postgres = TRUE
    /\ conn = [s \in Services |-> "off"]
    /\ hasStream = FALSE /\ stream = {} /\ bound = {}
    /\ acked = [c \in Consumers |-> {}]
    /\ rows = {} /\ confirmed = {} /\ marked = {}
    /\ recorded = [c \in Consumers |-> {}]
    /\ wiped = {} /\ repeated = {}

-----------------------------------------------------------------------------
(* The order-service *)

\* db.NewPool, db.ApplySchema and NewPublisher, which ensures the stream: with
\* either server down main exits, and the container is started again.
StartOrderService ==
    /\ ~ Running("order") /\ postgres /\ nats
    /\ Become("order", "connected")
    /\ hasStream' = TRUE
    /\ UNCHANGED <<nats, postgres, stream, bound, acked, orderVars, history>>

\* Order and row in one transaction, with or without NATS.
Save(o) ==
    /\ Running("order") /\ postgres
    /\ o \notin rows
    /\ rows' = rows \cup {o}
    /\ UNCHANGED <<nats, postgres, conn, natsVars, confirmed, marked, history>>

\* Mutant: the message is sent without JetStream, and dropped with no stream.
MutStore(o) ==
    /\ Connected("order")
    /\ stream' = IF hasStream THEN stream \cup {o} ELSE stream
    /\ wiped' = wiped \ {o}
    /\ repeated' = repeated \cup ({o} \cap wiped)
    /\ UNCHANGED acked

\* PublishMsg: without a stream nobody responds.  A message id the server
\* remembers is dropped; once its deduplication window has passed, the event is
\* stored as a message no consumer has acknowledged.
Store(o) ==
    /\ Connected("order") /\ hasStream
    /\ stream' = stream \cup {o}
    /\ wiped' = wiped \ {o}
    /\ \/ o \in stream /\ UNCHANGED <<acked, repeated>>
       \/ /\ acked' = [c \in Consumers |-> acked[c] \ {o}]
          /\ repeated' = repeated \cup ({o} \cap (stream \cup wiped))

\* The row of a batch, fetched while Postgres was up, is published and the
\* acknowledgement arrives.
Publish(o) ==
    /\ o \in rows \ marked
    /\ Store(o)
    /\ confirmed' = confirmed \cup {o}
    /\ UNCHANGED <<nats, postgres, conn, hasStream, bound, rows, marked, recorded>>

\* Mutant: the error of a publish is only logged.
MutPublishCut(o) ==
    /\ o \in rows \ marked
    /\ Running("order")
    /\ confirmed' = confirmed \cup {o}
    /\ UNCHANGED <<nats, postgres, conn, natsVars, rows, marked, history>>

\* The acknowledgement is lost, and the row is left for the next poll.
PublishCut(o) ==
    /\ o \in rows \ marked
    /\ Store(o)
    /\ UNCHANGED <<nats, postgres, conn, hasStream, bound, orderVars, recorded>>

\* Mutant: the row of a published event is deleted.
MutMarkPublished(o) ==
    /\ postgres /\ o \in confirmed
    /\ rows' = rows \ {o}
    /\ confirmed' = confirmed \ {o}
    /\ marked' = marked \cup {o}
    /\ UNCHANGED <<nats, postgres, conn, natsVars, history>>

\* The UPDATE after the publish, whatever happened to NATS in between.  One
\* that a relay has given up on, or died over, may still take effect.
MarkPublished(o) ==
    /\ postgres /\ o \in confirmed
    /\ confirmed' = confirmed \ {o}
    /\ marked' = marked \cup {o}
    /\ UNCHANGED <<nats, postgres, conn, natsVars, rows, history>>

\* The UPDATE fails, or its process dies before it.
MarkFails(o) ==
    /\ o \in confirmed
    /\ confirmed' = confirmed \ {o}
    /\ UNCHANGED <<nats, postgres, conn, natsVars, rows, marked, history>>

-----------------------------------------------------------------------------
(* A consumer *)

\* Mutant: the durable consumer has a name of its own at every start.
MutStartConsumer(c) ==
    /\ ~ Running(c) /\ nats
    /\ Become(c, "connected")
    /\ hasStream' = TRUE
    /\ bound' = bound \cup {c}
    /\ acked' = [acked EXCEPT ![c] = {}]
    /\ UNCHANGED <<nats, postgres, stream, orderVars, history>>

\* Connect, then Consume: ensure the stream and bind the durable consumer,
\* which goes on where it was.
StartConsumer(c) ==
    /\ ~ Running(c) /\ nats
    /\ Become(c, "connected")
    /\ hasStream' = TRUE
    /\ bound' = bound \cup {c}
    /\ UNCHANGED <<nats, postgres, stream, acked, orderVars, history>>

\* Delivery of what this durable consumer has not had acknowledged, callback
\* and acknowledgement.
Record(c, o) ==
    /\ Connected(c) /\ c \in bound
    /\ o \in stream \ acked[c]
    /\ acked' = [acked EXCEPT ![c] = @ \cup {o}]
    /\ recorded' = [recorded EXCEPT ![c] = @ \cup {o}]
    /\ UNCHANGED <<nats, postgres, conn, hasStream, stream, bound, orderVars,
                   wiped, repeated>>

-----------------------------------------------------------------------------
(* nats.Conn: Connect is called without options *)

Disconnect(s) ==
    /\ Connected(s)
    /\ Become(s, "reconnecting")
    /\ UNCHANGED <<nats, postgres, natsVars, orderVars, history>>

Reconnect(s) ==
    /\ nats /\ conn[s] = "reconnecting"
    /\ Become(s, "connected")
    /\ UNCHANGED <<nats, postgres, natsVars, orderVars, history>>

\* The default limit of reconnection attempts, 60 two seconds apart, is
\* reached: the connection is closed for good.
GiveUp(s) ==
    /\ conn[s] = "reconnecting"
    /\ Become(s, "closed")
    /\ UNCHANGED <<nats, postgres, natsVars, orderVars, history>>

-----------------------------------------------------------------------------
(* The servers and Kubernetes *)

NatsDown ==
    /\ nats
    /\ nats' = FALSE
    /\ conn' = [s \in Services |-> IF conn[s] = "connected" THEN "reconnecting" ELSE conn[s]]
    /\ UNCHANGED <<postgres, natsVars, orderVars, history>>

\* The process or its network comes back with its storage.
NatsUp ==
    /\ ~ nats
    /\ nats' = TRUE
    /\ UNCHANGED <<postgres, conn, natsVars, orderVars, history>>

\* A new container: no volume keeps the stream or the durable consumers.
NatsReplaced ==
    /\ ~ nats
    /\ nats' = TRUE
    /\ hasStream' = FALSE /\ stream' = {} /\ bound' = {}
    /\ acked' = [c \in Consumers |-> {}]
    /\ wiped' = wiped \cup stream /\ repeated' = {}
    /\ UNCHANGED <<postgres, conn, orderVars, recorded>>

PostgresFlips ==
    /\ postgres' = ~ postgres
    /\ UNCHANGED <<nats, conn, natsVars, orderVars, history>>

Stop(s) ==
    /\ Become(s, "off")
    /\ UNCHANGED <<nats, postgres, natsVars, orderVars, history>>

Crash(s) == Running(s) /\ Stop(s)

\* HealthHandler of the order-service pings its pool, that of a consumer looks
\* at the state of its connection.
PoolAnswers == postgres
IsConnected(c) == conn[c] = "connected"

\* Mutant: the consumers answer ok as the gateway does.
MutHealthy(s) == s = "order" => PoolAnswers

Healthy(s) == IF s = "order" THEN PoolAnswers ELSE IsConnected(s)

\* The liveness probe fails often enough, and the container is restarted.
ProbeFails(s) == Running(s) /\ ~ Healthy(s) /\ Stop(s)

-----------------------------------------------------------------------------

OrderService ==
    \/ StartOrderService
    \/ \E o \in Orders :
          Save(o) \/ Publish(o) \/ PublishCut(o) \/ MarkPublished(o) \/ MarkFails(o)

Consumer(c) == StartConsumer(c) \/ \E o \in Orders : Record(c, o)

Fault == \/ NatsDown
         \/ postgres /\ PostgresFlips
         \/ \E s \in Services : Disconnect(s) \/ Crash(s)

Next == \/ OrderService
        \/ \E c \in Consumers : Consumer(c)
        \/ \E s \in Services : Reconnect(s) \/ GiveUp(s) \/ ProbeFails(s)
        \/ NatsUp \/ NatsReplaced \/ PostgresFlips
        \/ Fault

Spec == Init /\ [][Next]_vars

(***************************************************************************)
(* Servers and processes fail finitely often and are started again, by     *)
(* Kubernetes; probes and the polls of the relay are periodic.  That a     *)
(* mark ever succeeds is not assumed.                                      *)
(***************************************************************************)
FairSpec ==
    /\ Spec
    /\ <>[][~ Fault]_vars
    /\ WF_vars(NatsUp \/ NatsReplaced)
    /\ WF_vars(~ postgres /\ PostgresFlips)
    /\ WF_vars(StartOrderService)
    /\ \A o \in Orders : WF_vars(Publish(o))
    /\ \A s \in Services : WF_vars(Reconnect(s)) /\ WF_vars(ProbeFails(s))
    /\ \A c \in Consumers :
          /\ WF_vars(StartConsumer(c))
          /\ \A o \in Orders : WF_vars(Record(c, o))

-----------------------------------------------------------------------------
(* Properties *)

(***************************************************************************)
(* Every variable ranges over the values the code can give it; only what   *)
(* is saved is published, and only what is in the stream is acknowledged.  *)
(***************************************************************************)
TypeOK ==
    /\ {nats, postgres, hasStream} \subseteq BOOLEAN
    /\ conn \in [Services -> ConnState]
    /\ bound \subseteq Consumers
    /\ rows \subseteq Orders
    /\ stream \cup wiped \cup confirmed \cup marked \subseteq rows
    /\ repeated \subseteq stream
    /\ acked \in [Consumers -> SUBSET stream]
    /\ recorded \in [Consumers -> SUBSET (stream \cup wiped)]

(***************************************************************************)
(* Between Postgres and the stream no order is lost: what is marked        *)
(* published is in the stream, unless NATS lost its storage with the event *)
(* in it, before the mark or after.  In particular nothing is marked that  *)
(* the relay published while the stream was missing.                       *)
(***************************************************************************)
OnlyReplacementLoses == marked \ stream \subseteq wiped

(***************************************************************************)
(* A service that restarts, reconnects or is redelivered to goes on where  *)
(* its durable consumer was: it takes an event it has acknowledged again   *)
(* only if the relay, whose mark had failed or was late, stored the event  *)
(* once more, after its deduplication window or after NATS had lost its    *)
(* storage and the memory of message ids with it.                          *)
(***************************************************************************)
RecordedAgain ==
    [][\A c \in Consumers : \A o \in recorded[c] :
          o \in acked'[c] \ acked[c] => o \in repeated]_vars

(***************************************************************************)
(* A consumer is connected to NATS in the end, also after its connection   *)
(* has given up: the probe sees it and the process is restarted.           *)
(***************************************************************************)
ConsumersReconnect ==
    \A c \in Consumers : conn[c] # "connected" ~> conn[c] = "connected"

\* The three ways in which an order does not reach a consumer although every
\* server is up and every process healthy: the relay's connection has given
\* up, which no probe looks at; NATS was replaced under the consumer, which
\* binds its durable consumer only at start (until some process starts, the
\* stream is missing as well); or the event went with the storage of NATS and
\* its row is marked.
Severed(c, o) ==
    \/ conn["order"] = "closed"
    \/ conn[c] = "connected" /\ c \notin bound
    \/ o \in marked \cap wiped

(***************************************************************************)
(* Every saved order is recorded by every consumer, through any finite     *)
(* number of outages and crashes, unless it stays severed in one of these  *)
(* three ways.                                                             *)
(***************************************************************************)
EventuallyRecorded ==
    \A c \in Consumers, o \in Orders :
        <>[]~ Severed(c, o) => (o \in rows ~> o \in recorded[c])
=============================================================================
