-------------------------- MODULE LifecycleProofs --------------------------
(***************************************************************************)
(* Proofs about Lifecycle for the five services and any number of          *)
(* requests: the relay never polls with a resource closed underneath it,   *)
(* and a request is not cut off unless it outlasts the deadline.           *)
(***************************************************************************)
EXTENDS Lifecycle, Integers, TLAPS

-----------------------------------------------------------------------------
(* The services *)

Resource == {"tracing", "pool", "redis", "publisher", "subscriber", "client"}

(***************************************************************************)
(* What every service has, and all the proofs need to know of it.          *)
(***************************************************************************)
LEMMA ServiceShape ==
    ASSUME NEW s \in Services
    PROVE  /\ s.resources \in Seq(Resource)
           /\ s.servers \subseteq {"http", "grpc"}
           /\ s.worker \in {"relay", "consumer", "none"}
<1>1. CASE s = Gateway
  BY <1>1 DEF Gateway, Resource
<1>2. CASE s = OrderService
  BY <1>2 DEF OrderService, Resource
<1>3. CASE s = InventoryService
  BY <1>3 DEF InventoryService, Resource
<1>4. CASE s = NotificationService
  BY <1>4 DEF NotificationService, Resource
<1>5. CASE s = AnalyticsService
  BY <1>5 DEF AnalyticsService, Resource
<1> QED BY <1>1, <1>2, <1>3, <1>4, <1>5 DEF Services

(***************************************************************************)
(* Opening the next resource of a list keeps a prefix of it open.          *)
(***************************************************************************)
LEMMA PrefixGrows ==
    ASSUME NEW list \in Seq(Resource), NEW n \in 0..Len(list),
           NEW prefix, prefix = SubSeq(list, 1, n), Len(prefix) < Len(list)
    PROVE  /\ Len(prefix) = n
           /\ Append(prefix, list[n + 1]) = SubSeq(list, 1, n + 1)
           /\ Len(Append(prefix, list[n + 1])) = n + 1
OBVIOUS

(***************************************************************************)
(* Closing the one opened last does.                                       *)
(***************************************************************************)
LEMMA PrefixShrinks ==
    ASSUME NEW list \in Seq(Resource), NEW n \in 1..Len(list),
           NEW prefix, prefix = SubSeq(list, 1, n)
    PROVE  /\ SubSeq(prefix, 1, Len(prefix) - 1) = SubSeq(list, 1, n - 1)
           /\ Len(SubSeq(prefix, 1, Len(prefix) - 1)) = n - 1
OBVIOUS

-----------------------------------------------------------------------------
(* The inductive invariant *)

\* Before it runs a service serves nobody, while it runs and drains everything
\* is open, and once it closes its resources the listeners, the calls of gRPC
\* and the relay are gone, and the REST requests too unless Shutdown gave up.
PhaseInv ==
    /\ main = "loading" => opened = <<>>
    /\ main \in {"loading", "starting"} =>
          listening = {} /\ worker = "none" /\ InProgress = {}
    /\ main \in {"running", "draining", "stopping"} => opened = service.resources
    /\ main = "draining" => "grpc" \notin listening
    /\ main \in {"stopping", "closing"} =>
          /\ listening = {} /\ On({"grpc"}) = {}
          /\ service.worker = "relay" => worker = "done"
    /\ main = "closing" => On({"http"}) = {} \/ timedOut
    /\ Gone => listening = {} /\ InProgress = {} /\ worker \in {"none", "done"}
    /\ ~ Gone => On({"cut"}) = {}
    /\ main = "exited" => On({"cut"}) = {} \/ timedOut

Inv == TypeOK /\ PhaseInv

-----------------------------------------------------------------------------
(* Steps *)

(***************************************************************************)
(* Every step preserves the types; what is open stays a prefix of what     *)
(* main opens.                                                             *)
(***************************************************************************)
LEMMA TypeStep == TypeOK /\ PhaseInv /\ [Next]_vars => TypeOK'
<1> SUFFICES ASSUME TypeOK, PhaseInv, [Next]_vars PROVE TypeOK'
  OBVIOUS
<1>1. CASE Load
  BY <1>1, ServiceShape DEF Load, process, TypeOK, PhaseInv, MainState,
     WorkerState, InProgress, On, Gone
<1>2. CASE Open
  BY <1>2, ServiceShape DEF Open, Starting, Following, process, TypeOK,
     PhaseInv, MainState, WorkerState, InProgress, On, Gone
<1>3. CASE StartFails
  BY <1>3, ServiceShape DEF StartFails, Starting, process, TypeOK, PhaseInv,
     MainState, WorkerState, InProgress, On, Gone
<1>4. CASE Run
  BY <1>4, ServiceShape DEF Run, process, TypeOK, PhaseInv, MainState,
     WorkerState, InProgress, On, Gone
<1>5. CASE Signal
  BY <1>5, ServiceShape DEF Signal, process, TypeOK, PhaseInv, MainState,
     WorkerState, InProgress, On, Gone
<1>6. ASSUME NEW v \in listening, ServerFails(v) PROVE TypeOK'
  BY <1>6, ServiceShape DEF ServerFails, process, TypeOK, PhaseInv, MainState,
     WorkerState, InProgress, On, Gone
<1>7. CASE ConsumeFails
  BY <1>7, ServiceShape DEF ConsumeFails, process, TypeOK, PhaseInv,
     MainState, WorkerState, InProgress, On, Gone
<1>8. CASE ConsumeStarts
  BY <1>8, ServiceShape DEF ConsumeStarts, process, TypeOK, PhaseInv,
     MainState, WorkerState, InProgress, On, Gone
<1>9. CASE SubscriptionEnds
  BY <1>9, ServiceShape DEF SubscriptionEnds, process, TypeOK, PhaseInv,
     MainState, WorkerState, InProgress, On, Gone
<1>10. CASE Work
  BY <1>10, ServiceShape DEF Work, process, TypeOK, PhaseInv, MainState,
     WorkerState, InProgress, On, Gone
<1>11. CASE WorkEnds
  BY <1>11, ServiceShape DEF WorkEnds, process, TypeOK, PhaseInv, MainState,
     WorkerState, InProgress, On, Gone
<1>12. CASE WorkerReturns
  BY <1>12, ServiceShape DEF WorkerReturns, process, TypeOK, PhaseInv,
     MainState, WorkerState, InProgress, On, Gone
<1>13. ASSUME NEW r \in Requests, NEW v \in listening, Accept(r, v) PROVE TypeOK'
  BY <1>13, ServiceShape DEF Accept, process, TypeOK, PhaseInv, MainState,
     WorkerState, InProgress, On, Gone
<1>14. ASSUME NEW r \in Requests, Query(r) PROVE TypeOK'
  BY <1>14, ServiceShape DEF Query, process, TypeOK, PhaseInv, MainState,
     WorkerState, InProgress, On, Gone
<1>15. ASSUME NEW r \in Requests, QueryEnds(r) PROVE TypeOK'
  BY <1>15, ServiceShape DEF QueryEnds, process, TypeOK, PhaseInv, MainState,
     WorkerState, InProgress, On, Gone
<1>16. ASSUME NEW r \in Requests, Finish(r) PROVE TypeOK'
  BY <1>16, ServiceShape DEF Finish, process, TypeOK, PhaseInv, MainState,
     WorkerState, InProgress, On, Gone
<1>17. CASE BeginStop
  BY <1>17, ServiceShape DEF BeginStop, process, TypeOK, PhaseInv, MainState,
     WorkerState, InProgress, On, Gone
<1>18. CASE Drained
  BY <1>18, ServiceShape DEF Drained, process, TypeOK, PhaseInv, MainState,
     WorkerState, InProgress, On, Gone
<1>19. CASE Stopped
  BY <1>19, ServiceShape DEF Stopped, process, TypeOK, PhaseInv, MainState,
     WorkerState, InProgress, On, Gone
<1>20. CASE TimesOut
  BY <1>20, ServiceShape DEF TimesOut, process, TypeOK, PhaseInv, MainState,
     WorkerState, InProgress, On, Gone
<1>21. CASE Close
  BY <1>21, ServiceShape DEF Close, process, TypeOK, PhaseInv, MainState,
     WorkerState, InProgress, On, Gone
<1>22. CASE Exit
  BY <1>22, ServiceShape DEF Exit, End, process, TypeOK, PhaseInv, MainState,
     WorkerState, InProgress, On, Gone
<1>23. CASE Kill
  BY <1>23, ServiceShape DEF Kill, End, process, TypeOK, PhaseInv, MainState,
     WorkerState, InProgress, On, Gone
<1>24. CASE UNCHANGED vars
  BY <1>24 DEF vars, process, TypeOK, PhaseInv, MainState, WorkerState,
     InProgress, On, Gone
<1> QED
  BY <1>1, <1>2, <1>3, <1>4, <1>5, <1>6, <1>7, <1>8, <1>9, <1>10, <1>11,
     <1>12, <1>13, <1>14, <1>15, <1>16, <1>17, <1>18, <1>19, <1>20, <1>21,
     <1>22, <1>23, <1>24
     DEF Next, Main, Worker, Serve

(***************************************************************************)
(* main goes through its phases in order, waiting for what each of them    *)
(* must leave behind.                                                      *)
(***************************************************************************)
LEMMA PhaseStep == TypeOK /\ PhaseInv /\ [Next]_vars => PhaseInv'
<1> SUFFICES ASSUME TypeOK, PhaseInv, [Next]_vars PROVE PhaseInv'
  OBVIOUS
<1>1. CASE Load
  BY <1>1, ServiceShape DEF Load, process, TypeOK, PhaseInv, MainState,
     WorkerState, InProgress, On, Gone
<1>2. CASE Open
  BY <1>2, ServiceShape DEF Open, Starting, Following, process, TypeOK,
     PhaseInv, MainState, WorkerState, InProgress, On, Gone
<1>3. CASE StartFails
  BY <1>3, ServiceShape DEF StartFails, Starting, process, TypeOK, PhaseInv,
     MainState, WorkerState, InProgress, On, Gone
<1>4. CASE Run
  BY <1>4, ServiceShape DEF Run, process, TypeOK, PhaseInv, MainState,
     WorkerState, InProgress, On, Gone
<1>5. CASE Signal
  BY <1>5, ServiceShape DEF Signal, process, TypeOK, PhaseInv, MainState,
     WorkerState, InProgress, On, Gone
<1>6. ASSUME NEW v \in listening, ServerFails(v) PROVE PhaseInv'
  BY <1>6, ServiceShape DEF ServerFails, process, TypeOK, PhaseInv, MainState,
     WorkerState, InProgress, On, Gone
<1>7. CASE ConsumeFails
  BY <1>7, ServiceShape DEF ConsumeFails, process, TypeOK, PhaseInv,
     MainState, WorkerState, InProgress, On, Gone
<1>8. CASE ConsumeStarts
  BY <1>8, ServiceShape DEF ConsumeStarts, process, TypeOK, PhaseInv,
     MainState, WorkerState, InProgress, On, Gone
<1>9. CASE SubscriptionEnds
  BY <1>9, ServiceShape DEF SubscriptionEnds, process, TypeOK, PhaseInv,
     MainState, WorkerState, InProgress, On, Gone
<1>10. CASE Work
  BY <1>10, ServiceShape DEF Work, process, TypeOK, PhaseInv, MainState,
     WorkerState, InProgress, On, Gone
<1>11. CASE WorkEnds
  BY <1>11, ServiceShape DEF WorkEnds, process, TypeOK, PhaseInv, MainState,
     WorkerState, InProgress, On, Gone
<1>12. CASE WorkerReturns
  BY <1>12, ServiceShape DEF WorkerReturns, process, TypeOK, PhaseInv,
     MainState, WorkerState, InProgress, On, Gone
<1>13. ASSUME NEW r \in Requests, NEW v \in listening, Accept(r, v) PROVE PhaseInv'
  BY <1>13, ServiceShape DEF Accept, process, TypeOK, PhaseInv, MainState,
     WorkerState, InProgress, On, Gone
<1>14. ASSUME NEW r \in Requests, Query(r) PROVE PhaseInv'
  BY <1>14, ServiceShape DEF Query, process, TypeOK, PhaseInv, MainState,
     WorkerState, InProgress, On, Gone
<1>15. ASSUME NEW r \in Requests, QueryEnds(r) PROVE PhaseInv'
  BY <1>15, ServiceShape DEF QueryEnds, process, TypeOK, PhaseInv, MainState,
     WorkerState, InProgress, On, Gone
<1>16. ASSUME NEW r \in Requests, Finish(r) PROVE PhaseInv'
  BY <1>16, ServiceShape DEF Finish, process, TypeOK, PhaseInv, MainState,
     WorkerState, InProgress, On, Gone
<1>17. CASE BeginStop
  BY <1>17, ServiceShape DEF BeginStop, process, TypeOK, PhaseInv, MainState,
     WorkerState, InProgress, On, Gone
<1>18. CASE Drained
  BY <1>18, ServiceShape DEF Drained, process, TypeOK, PhaseInv, MainState,
     WorkerState, InProgress, On, Gone
<1>19. CASE Stopped
  BY <1>19, ServiceShape DEF Stopped, process, TypeOK, PhaseInv, MainState,
     WorkerState, InProgress, On, Gone
<1>20. CASE TimesOut
  BY <1>20, ServiceShape DEF TimesOut, process, TypeOK, PhaseInv, MainState,
     WorkerState, InProgress, On, Gone
<1>21. CASE Close
  BY <1>21, ServiceShape DEF Close, process, TypeOK, PhaseInv, MainState,
     WorkerState, InProgress, On, Gone
<1>22. CASE Exit
  BY <1>22, ServiceShape DEF Exit, End, process, TypeOK, PhaseInv, MainState,
     WorkerState, InProgress, On, Gone
<1>23. CASE Kill
  BY <1>23, ServiceShape DEF Kill, End, process, TypeOK, PhaseInv, MainState,
     WorkerState, InProgress, On, Gone
<1>24. CASE UNCHANGED vars
  BY <1>24 DEF vars, process, TypeOK, PhaseInv, MainState, WorkerState,
     InProgress, On, Gone
<1> QED
  BY <1>1, <1>2, <1>3, <1>4, <1>5, <1>6, <1>7, <1>8, <1>9, <1>10, <1>11,
     <1>12, <1>13, <1>14, <1>15, <1>16, <1>17, <1>18, <1>19, <1>20, <1>21,
     <1>22, <1>23, <1>24
     DEF Next, Main, Worker, Serve

-----------------------------------------------------------------------------
(* Theorems *)

(***************************************************************************)
(* The inductive invariant of a service.                                   *)
(***************************************************************************)
THEOREM Invariance == Spec => []Inv
<1>1. Init => Inv
  <2> SUFFICES ASSUME Init PROVE Inv
    OBVIOUS
  <2>1. service.resources \in Seq(Resource) /\ Len(<<>>) = 0
    BY ServiceShape DEF Init
  <2>2. Len(opened) <= Len(service.resources)
        /\ opened = SubSeq(service.resources, 1, Len(opened))
    BY <2>1 DEF Init
  <2>3. TypeOK
    BY <2>2 DEF Init, TypeOK, MainState, WorkerState
  <2>4. PhaseInv
    BY DEF Init, PhaseInv, InProgress, On, Gone
  <2> QED BY <2>3, <2>4 DEF Inv
<1>2. Inv /\ [Next]_vars => Inv'
  BY TypeStep, PhaseStep DEF Inv
<1> QED BY <1>1, <1>2, PTL DEF Spec

(***************************************************************************)
(* Type correctness: at any time the resources open are a prefix of those  *)
(* main opens.                                                             *)
(***************************************************************************)
THEOREM TypeCorrect == Spec => []TypeOK
<1>1. Inv => TypeOK
  BY DEF Inv
<1> QED BY <1>1, Invariance, PTL

(***************************************************************************)
(* The relay ends its poll before the publisher and the pool are closed    *)
(* underneath it.                                                          *)
(***************************************************************************)
THEOREM RelayOutlived == Spec => []RelayHasResources
<1>1. Inv => RelayHasResources
  BY DEF Inv, TypeOK, MainState, PhaseInv, Gone, RelayHasResources
<1> QED BY <1>1, Invariance, PTL

(***************************************************************************)
(* A request in progress has everything its service opened, and is cut off *)
(* only by a kill or after the deadline of Shutdown.                       *)
(***************************************************************************)
THEOREM NoRequestCut == Spec => []RequestsDrained
<1>1. Inv => RequestsDrained
  BY DEF Inv, TypeOK, MainState, PhaseInv, Gone, On, InProgress, RequestsDrained
<1> QED BY <1>1, Invariance, PTL

-----------------------------------------------------------------------------
(* Starting *)

(***************************************************************************)
(* What a service opens and reads is what it cannot do without.            *)
(***************************************************************************)
LEMMA EssentialNeeds ==
    ASSUME NEW s \in Services, NEW gone,
           s.config \cap gone = {}, s.tls \cap gone = {},
           \A i \in 1..Len(s.resources) : Needs(s.resources[i]) \cap gone = {}
    PROVE  Essential(s) \cap gone = {}
<1> USE DEF Needs, Exporter, Pool, Redis, Publisher, Subscriber, Client, ClientTLS, Essential
<1>1. /\ Gateway.worker = "none" /\ Gateway.servers = {"http"}
      /\ InventoryService.worker = "none" /\ InventoryService.servers = {"http", "grpc"}
      /\ OrderService.worker = "relay"
      /\ NotificationService.worker = "consumer" /\ AnalyticsService.worker = "consumer"
  BY DEF Gateway, OrderService, InventoryService, NotificationService, AnalyticsService
<1>2. Gateway # InventoryService
  <2>1. "grpc" \notin {"http"} /\ "grpc" \in {"http", "grpc"}
    OBVIOUS
  <2> QED BY <1>1, <2>1
<1>3. CASE s = Gateway
  BY <1>1, <1>3
<1>4. CASE s = OrderService
  <2>1. /\ OrderService.config = {"DATABASE_URL"}
        /\ OrderService.resources = <<"tracing", "pool", "publisher", "client">>
    BY DEF OrderService, OrderConfig
  <2>2. Essential(s) = {"DATABASE_URL", "postgres", "nats", "certificates"}
    BY <1>1, <1>4
  <2>3. {"postgres"} \cap gone = {} /\ {"nats"} \cap gone = {} /\ {"certificates"} \cap gone = {}
    BY <1>4, <2>1
  <2> QED BY <1>4, <2>1, <2>2, <2>3
<1>5. CASE s = InventoryService
  <2>1. /\ InventoryService.config = {"DATABASE_URL"} /\ InventoryService.tls = {"certificates"}
        /\ InventoryService.resources = <<"tracing", "pool", "redis">>
    BY DEF InventoryService, InventoryConfig, ServerTLS
  <2>2. Essential(s) = {"DATABASE_URL", "postgres", "redis", "certificates"}
    BY <1>1, <1>2, <1>5
  <2>3. {"postgres"} \cap gone = {} /\ {"redis"} \cap gone = {}
    BY <1>5, <2>1
  <2> QED BY <1>5, <2>1, <2>2, <2>3
<1>6. CASE s \in {NotificationService, AnalyticsService}
  <2>1. s.resources = <<"tracing", "subscriber">>
    BY <1>6 DEF NotificationService, AnalyticsService
  <2>2. Essential(s) = {"nats"}
    BY <1>1, <1>6
  <2>3. 2 \in 1..Len(s.resources) /\ s.resources[2] = "subscriber"
    BY <2>1
  <2>4. Needs("subscriber") \cap gone = {}
    BY <2>3, Zenon
  <2>5. Needs("subscriber") = {"nats"}
    OBVIOUS
  <2> QED BY <2>2, <2>4, <2>5, Zenon
<1>7. \/ s = Gateway \/ s = OrderService \/ s = InventoryService
      \/ s \in {NotificationService, AnalyticsService}
  BY DEF Services
<1> QED BY <1>3, <1>4, <1>5, <1>6, <1>7, Zenon

\* What main has got past was there.
StartInv ==
    /\ main = "starting" =>
          /\ service.config \cap missing = {}
          /\ \A i \in 1..Len(opened) : Needs(service.resources[i]) \cap missing = {}
    /\ main = "running" => Essential(service) \cap missing = {}

(***************************************************************************)
(* No service runs without one of the stores, certificates or settings it  *)
(* cannot do without: main opens them all first, and gives up on the first *)
(* it misses.  The safety half of StartsAlone.                             *)
(***************************************************************************)
THEOREM RunsComplete ==
    Spec => [](main = "running" => Essential(service) \cap missing = {})
<1>1. Init => StartInv
  BY DEF Init, StartInv
<1>2. Inv /\ StartInv /\ [Next]_vars => StartInv'
  <2> SUFFICES ASSUME Inv, StartInv, [Next]_vars PROVE StartInv'
    OBVIOUS
  <2>1. CASE Load
    BY <2>1 DEF Load, process, StartInv, Inv, PhaseInv
  <2>2. CASE Open
    <3>1. /\ Len(opened) < Len(service.resources) /\ service.resources \in Seq(Resource)
          /\ opened = SubSeq(service.resources, 1, Len(opened))
          /\ Len(opened) \in 0..Len(service.resources)
      BY <2>2, ServiceShape DEF Open, Starting, Inv, TypeOK
    <3>2. opened' = Append(opened, service.resources[Len(opened) + 1])
      BY <2>2 DEF Open, Following
    <3>3. Len(opened') = Len(opened) + 1
      BY <3>1, <3>2, PrefixGrows
    <3>4. Needs(service.resources[Len(opened) + 1]) \cap missing = {}
      BY <2>2 DEF Open, Following
    <3>5. \A i \in 1..Len(opened') : i \in 1..Len(opened) \/ i = Len(opened) + 1
      BY <3>1, <3>3
    <3>6. main = "starting" /\ UNCHANGED <<service, missing, main>>
      BY <2>2 DEF Open, Starting, process
    <3> QED BY <3>4, <3>5, <3>6 DEF StartInv
  <2>3. CASE Run
    BY <2>3, EssentialNeeds DEF Run, process, StartInv, Inv, TypeOK
  <2>4. ASSUME UNCHANGED <<service, missing, main, opened>> PROVE StartInv'
    BY <2>4 DEF StartInv
  <2>5. ASSUME main' \notin {"starting", "running"} PROVE StartInv'
    BY <2>5 DEF StartInv
  <2>6. CASE \/ StartFails \/ BeginStop \/ Drained \/ Stopped \/ TimesOut \/ Close
             \/ Exit \/ Kill
    BY <2>5, <2>6 DEF StartFails, BeginStop, Drained, Stopped, TimesOut, Close, Exit, Kill, End
  <2>7. CASE \/ Signal \/ ConsumeFails \/ Worker
             \/ \E v \in listening : ServerFails(v)
             \/ \E r \in Requests : Serve(r)
    BY <2>4, <2>7 DEF Signal, ConsumeFails, Worker, ConsumeStarts, SubscriptionEnds, Work,
       WorkEnds, WorkerReturns, ServerFails, Serve, Accept, Query, QueryEnds,
       Finish, process
  <2>8. CASE UNCHANGED vars
    BY <2>4, <2>8 DEF vars, process
  <2> QED BY <2>1, <2>2, <2>3, <2>6, <2>7, <2>8 DEF Next, Main
<1>3. StartInv => (main = "running" => Essential(service) \cap missing = {})
  BY DEF StartInv
<1> QED BY <1>1, <1>2, <1>3, Invariance, PTL DEF Spec
=============================================================================
