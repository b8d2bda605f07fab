------------------------------ MODULE Delivery ------------------------------
(***************************************************************************)
(* From the stream ORDERS to the consumers: notification-service and       *)
(* analytics-service each bind a durable JetStream consumer with explicit  *)
(* acknowledgement and run one callback at a time, which records the event *)
(* and acknowledges it.  Services crash or restart at any step, deliveries *)
(* and acknowledgements are lost or late, and the server redelivers what   *)
(* is not acknowledged in time.                                            *)
(***************************************************************************)
EXTENDS Naturals, FiniteSets

CONSTANTS
    Consumers,    \* the durable names, one per service
    Events,       \* the events the outbox relay publishes, each stored once
    Undecodable,  \* those whose payload does not decode as OrderCreated
    MaxCount,     \* bound on the times one process records the same event
    Nothing       \* no event in the callback

ASSUME EventsAssumption == Nothing \notin Events /\ Undecodable \subseteq Events
ASSUME CountAssumption == MaxCount \in Nat \ {0}

VARIABLES
    \* JetStream
    streamExists,  \* the stream ORDERS has been created
    stream,        \* the events in it
    bound,         \* the durable consumers that exist
    state,         \* what the server knows of each event, per consumer
    acks,          \* acknowledgements on their way to the server
    \* the services
    up,            \* the services that consume
    buffer,        \* the events a service received and has not processed
    current,       \* the event in the callback of a service, or Nothing
    recorded,      \* TRUE iff the callback has recorded it
    count,         \* times a process has recorded each event (Stats)
    \* History, read by no guard:
    handled,       \* the events a service ever recorded
    overdue        \* the events redelivered for want of an acknowledgement

serverVars == <<streamExists, stream, bound, state>>
serviceVars == <<up, buffer, current, recorded, count, handled>>
vars == <<serverVars, serviceVars, acks, overdue>>

\* "out": delivered and within its AckWait.
States == {"pending", "out", "acked"}

Init ==
    /\ streamExists = FALSE /\ stream = {} /\ bound = {}
    /\ state = [c \in Consumers |-> [e \in Events |-> "pending"]]
    /\ acks = [c \in Consumers |-> {}]
    /\ up = {}
    /\ buffer = [c \in Consumers |-> {}]
    /\ current = [c \in Consumers |-> Nothing]
    /\ recorded = [c \in Consumers |-> FALSE]
    /\ count = [c \in Consumers |-> [e \in Events |-> 0]]
    /\ handled = [c \in Consumers |-> {}]
    /\ overdue = [c \in Consumers |-> {}]

-----------------------------------------------------------------------------
(* The order-service *)

\* NewPublisher ensures the stream, when the process starts and only then.
PublisherStarts ==
    /\ streamExists' = TRUE
    /\ UNCHANGED <<stream, bound, state, serviceVars, acks, overdue>>

Publish(e) ==
    /\ streamExists
    /\ e \notin stream
    /\ stream' = stream \cup {e}
    /\ UNCHANGED <<streamExists, bound, state, serviceVars, acks, overdue>>

-----------------------------------------------------------------------------
(* Subscriber.Consume *)

\* Ensure the stream and bind the durable consumer: what it has acknowledged
\* stays acknowledged.
Start(c) ==
    /\ c \notin up
    /\ up' = up \cup {c}
    /\ streamExists' = TRUE
    /\ bound' = bound \cup {c}
    /\ UNCHANGED <<stream, state, buffer, current, recorded, count,
                   handled, acks, overdue>>

Callback(c, e) ==
    /\ current[c] = Nothing
    /\ e \in buffer[c]
    /\ buffer' = [buffer EXCEPT ![c] = @ \ {e}]
    /\ current' = [current EXCEPT ![c] = e]
    /\ UNCHANGED <<serverVars, up, recorded, count, handled, acks, overdue>>

\* The callback fails to decode the event and naks it; the nak is lost or
\* makes the server deliver the event again at once.
Nak(c, e) ==
    /\ current[c] = e /\ e \in Undecodable
    /\ current' = [current EXCEPT ![c] = Nothing]
    /\ \/ UNCHANGED state
       \/ state[c][e] = "out" /\ state' = [state EXCEPT ![c][e] = "pending"]
    /\ UNCHANGED <<streamExists, stream, bound, up, buffer, recorded,
                   count, handled, acks, overdue>>

\* Mutant: Stats add the quantity of the order to the number of orders.
MutRecord(c, e) ==
    count' = [count EXCEPT ![c][e] = IF @ < MaxCount THEN @ + MaxCount + 1 ELSE @]

\* Stats.Record, up to MaxCount times.
Record(c, e) ==
    count' = [count EXCEPT ![c][e] = IF @ < MaxCount THEN @ + 1 ELSE @]

\* handleOrderCreated: the event is recorded, and never refused.
Handle(c, e) ==
    /\ current[c] = e /\ ~ recorded[c] /\ e \notin Undecodable
    /\ Record(c, e)
    /\ recorded' = [recorded EXCEPT ![c] = TRUE]
    /\ handled' = [handled EXCEPT ![c] = @ \cup {e}]
    /\ UNCHANGED <<serverVars, up, buffer, current, acks, overdue>>

\* Mutant: the callback naks an event it has recorded.
MutAck(c, e) ==
    /\ current[c] = e /\ recorded[c]
    /\ state' = [state EXCEPT ![c][e] = IF @ = "out" THEN "pending" ELSE @]
    /\ current' = [current EXCEPT ![c] = Nothing]
    /\ recorded' = [recorded EXCEPT ![c] = FALSE]
    /\ UNCHANGED <<streamExists, stream, bound, up, buffer, count,
                   handled, acks, overdue>>

Ack(c, e) ==
    /\ current[c] = e /\ recorded[c]
    /\ acks' = [acks EXCEPT ![c] = @ \cup {e}]
    /\ current' = [current EXCEPT ![c] = Nothing]
    /\ recorded' = [recorded EXCEPT ![c] = FALSE]
    /\ UNCHANGED <<serverVars, up, buffer, count, handled, overdue>>

\* The process ends, by a crash or by a shutdown that waits for no callback.
\* Its Stats are in memory.
Stop(c) ==
    /\ c \in up
    /\ up' = up \ {c}
    /\ buffer' = [buffer EXCEPT ![c] = {}]
    /\ current' = [current EXCEPT ![c] = Nothing]
    /\ recorded' = [recorded EXCEPT ![c] = FALSE]
    /\ count' = [count EXCEPT ![c] = [e \in Events |-> 0]]
    /\ UNCHANGED <<serverVars, handled, acks, overdue>>

-----------------------------------------------------------------------------
(* NATS JetStream *)

\* Mutant: a consumer without explicit acknowledgement.
MutDeliver(c, e) ==
    /\ c \in up \cap bound
    /\ e \in stream /\ state[c][e] = "pending"
    /\ state' = [state EXCEPT ![c][e] = "acked"]
    /\ buffer' = [buffer EXCEPT ![c] = @ \cup {e}]
    /\ UNCHANGED <<streamExists, stream, bound, up, current, recorded,
                   count, handled, acks, overdue>>

Deliver(c, e) ==
    /\ c \in up \cap bound
    /\ e \in stream /\ state[c][e] = "pending"
    /\ state' = [state EXCEPT ![c][e] = "out"]
    /\ buffer' = [buffer EXCEPT ![c] = @ \cup {e}]
    /\ UNCHANGED <<streamExists, stream, bound, up, current, recorded,
                   count, handled, acks, overdue>>

AckArrives(c, e) ==
    /\ e \in acks[c]
    /\ acks' = [acks EXCEPT ![c] = @ \ {e}]
    /\ state' = [state EXCEPT ![c][e] = "acked"]
    /\ UNCHANGED <<streamExists, stream, bound, serviceVars, overdue>>

AckLost(c, e) ==
    /\ e \in acks[c]
    /\ acks' = [acks EXCEPT ![c] = @ \ {e}]
    /\ UNCHANGED <<serverVars, serviceVars, overdue>>

\* Mutant: a consumer that delivers an event at most twice.
MutAckWaitPasses(c, e) ==
    /\ state[c][e] = "out" /\ e \notin overdue[c]
    /\ state' = [state EXCEPT ![c][e] = "pending"]
    /\ overdue' = [overdue EXCEPT ![c] = @ \cup {e}]
    /\ UNCHANGED <<streamExists, stream, bound, serviceVars, acks>>

\* AckWait passes without an acknowledgement: lost with the process or on the
\* wire, late, or the event still waits in the buffer.
AckWaitPasses(c, e) ==
    /\ state[c][e] = "out"
    /\ state' = [state EXCEPT ![c][e] = "pending"]
    /\ overdue' = [overdue EXCEPT ![c] = @ \cup {e}]
    /\ UNCHANGED <<streamExists, stream, bound, serviceVars, acks>>

-----------------------------------------------------------------------------

Consume(c) == \E e \in Events : Callback(c, e) \/ Nak(c, e) \/ Handle(c, e) \/ Ack(c, e)

Server == \E c \in Consumers, e \in Events :
    Deliver(c, e) \/ AckArrives(c, e) \/ AckLost(c, e) \/ AckWaitPasses(c, e)

Next == \/ PublisherStarts
        \/ \E e \in Events : Publish(e)
        \/ \E c \in Consumers : Start(c) \/ Consume(c) \/ Stop(c)
        \/ Server

Spec == Init /\ [][Next]_vars

(***************************************************************************)
(* Services are started again and crash finitely often, AckWait is a timer, *)
(* no acknowledgement is lost for ever, the buffer is FIFO.                *)
(***************************************************************************)
FairSpec ==
    /\ Spec
    /\ <>[][\A c \in Consumers : ~ Stop(c)]_vars
    /\ \A c \in Consumers :
          /\ WF_vars(Start(c))
          /\ \A e \in Undecodable : WF_vars(Nak(c, e))
          /\ \A e \in Events \ Undecodable :
                /\ WF_vars(Deliver(c, e))
                /\ WF_vars(AckWaitPasses(c, e))
                /\ SF_vars(Callback(c, e))
                /\ WF_vars(Handle(c, e))
                /\ WF_vars(Ack(c, e))
                /\ SF_vars(AckArrives(c, e))

-----------------------------------------------------------------------------
(* Properties *)

(***************************************************************************)
(* Every variable ranges over the values the code can give it.             *)
(***************************************************************************)
TypeOK ==
    /\ streamExists \in BOOLEAN
    /\ stream \subseteq Events
    /\ bound \subseteq Consumers /\ up \subseteq Consumers
    /\ state \in [Consumers -> [Events -> States]]
    /\ acks \in [Consumers -> SUBSET Events]
    /\ buffer \in [Consumers -> SUBSET Events]
    /\ current \in [Consumers -> Events \cup {Nothing}]
    /\ recorded \in [Consumers -> BOOLEAN]
    /\ count \in [Consumers -> [Events -> 0..MaxCount]]
    /\ handled \in [Consumers -> SUBSET Events]
    /\ overdue \in [Consumers -> SUBSET Events]

(***************************************************************************)
(* The server never stops delivering an event the service has not handled: *)
(* no crash in the callback, redelivery or late acknowledgement loses it.  *)
(***************************************************************************)
AckedWasHandled ==
    \A c \in Consumers, e \in Events : state[c][e] = "acked" => e \in handled[c]

(***************************************************************************)
(* Stats count an event twice only if its AckWait passed, whatever crashes *)
(* and restarts the service goes through.                                  *)
(***************************************************************************)
CountedOnce ==
    \A c \in Consumers, e \in Events : count[c][e] > 1 => e \in overdue[c]

(***************************************************************************)
(* "Events published while a consumer is offline are delivered once it     *)
(* reconnects": every stored event is acknowledged by every consumer,      *)
(* through crashes, lost acknowledgements and an event that does not       *)
(* decode, naked and delivered again for ever.                             *)
(***************************************************************************)
EventuallyAcked ==
    \A c \in Consumers, e \in Events \ Undecodable :
        e \in stream ~> state[c][e] = "acked"
=============================================================================
