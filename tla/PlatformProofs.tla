--------------------------- MODULE PlatformProofs ---------------------------
(***************************************************************************)
(* Proofs about Platform for any orders and consumers: however servers and *)
(* processes fail and are replaced, and whenever a mark takes effect, an   *)
(* order is lost between Postgres and the stream only with the storage of  *)
(* NATS, and taken twice only if it was stored twice.                      *)
(***************************************************************************)
EXTENDS Platform, TLAPS

-----------------------------------------------------------------------------
(* The inductive invariant *)

ProcessInv ==
    /\ {nats, postgres, hasStream} \subseteq BOOLEAN
    /\ conn \in [Services -> ConnState]
    /\ bound \subseteq Consumers

SavedInv ==
    /\ rows \subseteq Orders
    /\ stream \cup wiped \cup confirmed \cup marked \subseteq rows
    /\ repeated \subseteq stream
    /\ acked \in [Consumers -> SUBSET stream]
    /\ recorded \in [Consumers -> SUBSET (stream \cup wiped)]

\* A publish that was acknowledged was stored, and is there until NATS loses
\* it: before the row is marked, or after.
StoredInv == confirmed \cup marked \subseteq stream \cup wiped

\* What a consumer has recorded is acknowledged, or was stored a second time.
RepeatInv ==
    \A c \in Consumers : \A o \in recorded[c] \cap stream :
        o \in acked[c] \/ o \in repeated

Inv == ProcessInv /\ SavedInv /\ StoredInv /\ RepeatInv

(***************************************************************************)
(* The states of processes and connections.                                *)
(***************************************************************************)
LEMMA ProcessStep == ProcessInv /\ [Next]_vars => ProcessInv'
<1> SUFFICES ASSUME ProcessInv, [Next]_vars PROVE ProcessInv'
  OBVIOUS
<1>1. CASE StartOrderService
  BY <1>1 DEF StartOrderService, Become, natsVars, orderVars, history,
     ProcessInv, ConnState, Services
<1>2. ASSUME NEW o \in Orders, Save(o) PROVE ProcessInv'
  BY <1>2 DEF Save, natsVars, orderVars, history, ProcessInv, ConnState,
     Services
<1>3. ASSUME NEW o \in Orders, Publish(o) PROVE ProcessInv'
  BY <1>3 DEF Publish, Store, natsVars, orderVars, history, ProcessInv,
     ConnState, Services
<1>4. ASSUME NEW o \in Orders, PublishCut(o) PROVE ProcessInv'
  BY <1>4 DEF PublishCut, Store, natsVars, orderVars, history, ProcessInv,
     ConnState, Services
<1>5. ASSUME NEW o \in Orders, MarkPublished(o) PROVE ProcessInv'
  BY <1>5 DEF MarkPublished, natsVars, orderVars, history, ProcessInv,
     ConnState, Services
<1>6. ASSUME NEW o \in Orders, MarkFails(o) PROVE ProcessInv'
  BY <1>6 DEF MarkFails, natsVars, orderVars, history, ProcessInv, ConnState,
     Services
<1>7. ASSUME NEW c \in Consumers, StartConsumer(c) PROVE ProcessInv'
  BY <1>7 DEF StartConsumer, Become, natsVars, orderVars, history, ProcessInv,
     ConnState, Services
<1>8. ASSUME NEW c \in Consumers, NEW o \in Orders, Record(c, o) PROVE ProcessInv'
  BY <1>8 DEF Record, natsVars, orderVars, history, ProcessInv, ConnState,
     Services
<1>9. ASSUME NEW s \in Services, Reconnect(s) PROVE ProcessInv'
  BY <1>9 DEF Reconnect, Become, natsVars, orderVars, history, ProcessInv,
     ConnState, Services
<1>10. ASSUME NEW s \in Services, GiveUp(s) PROVE ProcessInv'
  BY <1>10 DEF GiveUp, Become, natsVars, orderVars, history, ProcessInv,
     ConnState, Services
<1>11. ASSUME NEW s \in Services, Disconnect(s) PROVE ProcessInv'
  BY <1>11 DEF Disconnect, Become, natsVars, orderVars, history, ProcessInv,
     ConnState, Services
<1>12. ASSUME NEW s \in Services, Stop(s) PROVE ProcessInv'
  BY <1>12 DEF Stop, Become, natsVars, orderVars, history, ProcessInv,
     ConnState, Services
<1>13. CASE NatsDown
  BY <1>13 DEF NatsDown, natsVars, orderVars, history, ProcessInv, ConnState,
     Services
<1>14. CASE NatsUp
  BY <1>14 DEF NatsUp, natsVars, orderVars, history, ProcessInv, ConnState,
     Services
<1>15. CASE NatsReplaced
  BY <1>15 DEF NatsReplaced, natsVars, orderVars, history, ProcessInv,
     ConnState, Services
<1>16. CASE PostgresFlips
  BY <1>16 DEF PostgresFlips, natsVars, orderVars, history, ProcessInv,
     ConnState, Services
<1>17. CASE UNCHANGED vars
  BY <1>17 DEF vars, natsVars, orderVars, history, ProcessInv, ConnState,
     Services
<1> QED
  BY <1>1, <1>2, <1>3, <1>4, <1>5, <1>6, <1>7, <1>8, <1>9, <1>10, <1>11,
     <1>12, <1>13, <1>14, <1>15, <1>16, <1>17
     DEF Next, OrderService, Consumer, Fault, Crash, ProbeFails

(***************************************************************************)
(* Only what is saved is published, only what is in the stream is          *)
(* acknowledged, and only what was is recorded.                            *)
(***************************************************************************)
LEMMA SavedStep == SavedInv /\ [Next]_vars => SavedInv'
<1> SUFFICES ASSUME SavedInv, [Next]_vars PROVE SavedInv'
  OBVIOUS
<1>1. CASE StartOrderService
  BY <1>1 DEF StartOrderService, Become, natsVars, orderVars, history,
     SavedInv
<1>2. ASSUME NEW o \in Orders, Save(o) PROVE SavedInv'
  BY <1>2 DEF Save, natsVars, orderVars, history, SavedInv
<1>3. ASSUME NEW o \in Orders, Publish(o) PROVE SavedInv'
  BY <1>3 DEF Publish, Store, natsVars, orderVars, history, SavedInv
<1>4. ASSUME NEW o \in Orders, PublishCut(o) PROVE SavedInv'
  BY <1>4 DEF PublishCut, Store, natsVars, orderVars, history, SavedInv
<1>5. ASSUME NEW o \in Orders, MarkPublished(o) PROVE SavedInv'
  BY <1>5 DEF MarkPublished, natsVars, orderVars, history, SavedInv
<1>6. ASSUME NEW o \in Orders, MarkFails(o) PROVE SavedInv'
  BY <1>6 DEF MarkFails, natsVars, orderVars, history, SavedInv
<1>7. ASSUME NEW c \in Consumers, StartConsumer(c) PROVE SavedInv'
  BY <1>7 DEF StartConsumer, Become, natsVars, orderVars, history, SavedInv
<1>8. ASSUME NEW c \in Consumers, NEW o \in Orders, Record(c, o) PROVE SavedInv'
  BY <1>8 DEF Record, natsVars, orderVars, history, SavedInv
<1>9. ASSUME NEW s \in Services, Reconnect(s) PROVE SavedInv'
  BY <1>9 DEF Reconnect, Become, natsVars, orderVars, history, SavedInv
<1>10. ASSUME NEW s \in Services, GiveUp(s) PROVE SavedInv'
  BY <1>10 DEF GiveUp, Become, natsVars, orderVars, history, SavedInv
<1>11. ASSUME NEW s \in Services, Disconnect(s) PROVE SavedInv'
  BY <1>11 DEF Disconnect, Become, natsVars, orderVars, history, SavedInv
<1>12. ASSUME NEW s \in Services, Stop(s) PROVE SavedInv'
  BY <1>12 DEF Stop, Become, natsVars, orderVars, history, SavedInv
<1>13. CASE NatsDown
  BY <1>13 DEF NatsDown, natsVars, orderVars, history, SavedInv
<1>14. CASE NatsUp
  BY <1>14 DEF NatsUp, natsVars, orderVars, history, SavedInv
<1>15. CASE NatsReplaced
  BY <1>15 DEF NatsReplaced, natsVars, orderVars, history, SavedInv
<1>16. CASE PostgresFlips
  BY <1>16 DEF PostgresFlips, natsVars, orderVars, history, SavedInv
<1>17. CASE UNCHANGED vars
  BY <1>17 DEF vars, natsVars, orderVars, history, SavedInv
<1> QED
  BY <1>1, <1>2, <1>3, <1>4, <1>5, <1>6, <1>7, <1>8, <1>9, <1>10, <1>11,
     <1>12, <1>13, <1>14, <1>15, <1>16, <1>17
     DEF Next, OrderService, Consumer, Fault, Crash, ProbeFails

(***************************************************************************)
(* A publish is confirmed only once the event is stored, and only a        *)
(* replaced NATS empties the stream, which the mark of the row may follow. *)
(***************************************************************************)
LEMMA StoredStep == StoredInv /\ [Next]_vars => StoredInv'
<1> SUFFICES ASSUME StoredInv, [Next]_vars PROVE StoredInv'
  OBVIOUS
<1>1. CASE StartOrderService
  BY <1>1 DEF StartOrderService, Become, natsVars, orderVars, history,
     StoredInv
<1>2. ASSUME NEW o \in Orders, Save(o) PROVE StoredInv'
  BY <1>2 DEF Save, natsVars, orderVars, history, StoredInv
<1>3. ASSUME NEW o \in Orders, Publish(o) PROVE StoredInv'
  BY <1>3 DEF Publish, Store, natsVars, orderVars, history, StoredInv
<1>4. ASSUME NEW o \in Orders, PublishCut(o) PROVE StoredInv'
  BY <1>4 DEF PublishCut, Store, natsVars, orderVars, history, StoredInv
<1>5. ASSUME NEW o \in Orders, MarkPublished(o) PROVE StoredInv'
  BY <1>5 DEF MarkPublished, natsVars, orderVars, history, StoredInv
<1>6. ASSUME NEW o \in Orders, MarkFails(o) PROVE StoredInv'
  BY <1>6 DEF MarkFails, natsVars, orderVars, history, StoredInv
<1>7. ASSUME NEW c \in Consumers, StartConsumer(c) PROVE StoredInv'
  BY <1>7 DEF StartConsumer, Become, natsVars, orderVars, history, StoredInv
<1>8. ASSUME NEW c \in Consumers, NEW o \in Orders, Record(c, o) PROVE StoredInv'
  BY <1>8 DEF Record, natsVars, orderVars, history, StoredInv
<1>9. ASSUME NEW s \in Services, Reconnect(s) PROVE StoredInv'
  BY <1>9 DEF Reconnect, Become, natsVars, orderVars, history, StoredInv
<1>10. ASSUME NEW s \in Services, GiveUp(s) PROVE StoredInv'
  BY <1>10 DEF GiveUp, Become, natsVars, orderVars, history, StoredInv
<1>11. ASSUME NEW s \in Services, Disconnect(s) PROVE StoredInv'
  BY <1>11 DEF Disconnect, Become, natsVars, orderVars, history, StoredInv
<1>12. ASSUME NEW s \in Services, Stop(s) PROVE StoredInv'
  BY <1>12 DEF Stop, Become, natsVars, orderVars, history, StoredInv
<1>13. CASE NatsDown
  BY <1>13 DEF NatsDown, natsVars, orderVars, history, StoredInv
<1>14. CASE NatsUp
  BY <1>14 DEF NatsUp, natsVars, orderVars, history, StoredInv
<1>15. CASE NatsReplaced
  BY <1>15 DEF NatsReplaced, natsVars, orderVars, history, StoredInv
<1>16. CASE PostgresFlips
  BY <1>16 DEF PostgresFlips, natsVars, orderVars, history, StoredInv
<1>17. CASE UNCHANGED vars
  BY <1>17 DEF vars, natsVars, orderVars, history, StoredInv
<1> QED
  BY <1>1, <1>2, <1>3, <1>4, <1>5, <1>6, <1>7, <1>8, <1>9, <1>10, <1>11,
     <1>12, <1>13, <1>14, <1>15, <1>16, <1>17
     DEF Next, OrderService, Consumer, Fault, Crash, ProbeFails

(***************************************************************************)
(* A recorded event is there to be taken again only if it was stored       *)
(* again, the first copy lost or too old to be remembered.                 *)
(***************************************************************************)
LEMMA RepeatStep == SavedInv /\ RepeatInv /\ [Next]_vars => RepeatInv'
<1> SUFFICES ASSUME SavedInv, RepeatInv, [Next]_vars PROVE RepeatInv'
  OBVIOUS
<1>1. CASE StartOrderService
  BY <1>1 DEF StartOrderService, Become, natsVars, orderVars, history,
     SavedInv, RepeatInv
<1>2. ASSUME NEW o \in Orders, Save(o) PROVE RepeatInv'
  BY <1>2 DEF Save, natsVars, orderVars, history, SavedInv, RepeatInv
<1>3. ASSUME NEW o \in Orders, Publish(o) PROVE RepeatInv'
  BY <1>3 DEF Publish, Store, natsVars, orderVars, history, SavedInv,
     RepeatInv
<1>4. ASSUME NEW o \in Orders, PublishCut(o) PROVE RepeatInv'
  BY <1>4 DEF PublishCut, Store, natsVars, orderVars, history, SavedInv,
     RepeatInv
<1>5. ASSUME NEW o \in Orders, MarkPublished(o) PROVE RepeatInv'
  BY <1>5 DEF MarkPublished, natsVars, orderVars, history, SavedInv, RepeatInv
<1>6. ASSUME NEW o \in Orders, MarkFails(o) PROVE RepeatInv'
  BY <1>6 DEF MarkFails, natsVars, orderVars, history, SavedInv, RepeatInv
<1>7. ASSUME NEW c \in Consumers, StartConsumer(c) PROVE RepeatInv'
  BY <1>7 DEF StartConsumer, Become, natsVars, orderVars, history, SavedInv,
     RepeatInv
<1>8. ASSUME NEW c \in Consumers, NEW o \in Orders, Record(c, o) PROVE RepeatInv'
  BY <1>8 DEF Record, natsVars, orderVars, history, SavedInv, RepeatInv
<1>9. ASSUME NEW s \in Services, Reconnect(s) PROVE RepeatInv'
  BY <1>9 DEF Reconnect, Become, natsVars, orderVars, history, SavedInv,
     RepeatInv
<1>10. ASSUME NEW s \in Services, GiveUp(s) PROVE RepeatInv'
  BY <1>10 DEF GiveUp, Become, natsVars, orderVars, history, SavedInv,
     RepeatInv
<1>11. ASSUME NEW s \in Services, Disconnect(s) PROVE RepeatInv'
  BY <1>11 DEF Disconnect, Become, natsVars, orderVars, history, SavedInv,
     RepeatInv
<1>12. ASSUME NEW s \in Services, Stop(s) PROVE RepeatInv'
  BY <1>12 DEF Stop, Become, natsVars, orderVars, history, SavedInv, RepeatInv
<1>13. CASE NatsDown
  BY <1>13 DEF NatsDown, natsVars, orderVars, history, SavedInv, RepeatInv
<1>14. CASE NatsUp
  BY <1>14 DEF NatsUp, natsVars, orderVars, history, SavedInv, RepeatInv
<1>15. CASE NatsReplaced
  BY <1>15 DEF NatsReplaced, natsVars, orderVars, history, SavedInv, RepeatInv
<1>16. CASE PostgresFlips
  BY <1>16 DEF PostgresFlips, natsVars, orderVars, history, SavedInv,
     RepeatInv
<1>17. CASE UNCHANGED vars
  BY <1>17 DEF vars, natsVars, orderVars, history, SavedInv, RepeatInv
<1> QED
  BY <1>1, <1>2, <1>3, <1>4, <1>5, <1>6, <1>7, <1>8, <1>9, <1>10, <1>11,
     <1>12, <1>13, <1>14, <1>15, <1>16, <1>17
     DEF Next, OrderService, Consumer, Fault, Crash, ProbeFails

-----------------------------------------------------------------------------
(* Theorems *)

(***************************************************************************)
(* The inductive invariant of the platform.                                *)
(***************************************************************************)
THEOREM Invariance == Spec => []Inv
<1>1. Init => Inv
  BY DEF Init, Inv, ProcessInv, ConnState, SavedInv, StoredInv, RepeatInv
<1>2. Inv /\ [Next]_vars => Inv'
  BY ProcessStep, SavedStep, StoredStep, RepeatStep DEF Inv
<1> QED BY <1>1, <1>2, PTL DEF Spec

(***************************************************************************)
(* Type correctness: only what is saved is published, whatever fails.      *)
(***************************************************************************)
THEOREM TypeCorrect == Spec => []TypeOK
<1>1. Inv => TypeOK
  BY DEF Inv, ProcessInv, SavedInv, TypeOK
<1> QED BY <1>1, Invariance, PTL

(***************************************************************************)
(* What is marked published is in the stream, unless NATS lost its storage *)
(* with the event in it, between the publish and the mark or later.        *)
(***************************************************************************)
THEOREM NoOtherLoss == Spec => []OnlyReplacementLoses
<1>1. Inv => OnlyReplacementLoses
  BY DEF Inv, StoredInv, OnlyReplacementLoses
<1> QED BY <1>1, Invariance, PTL

(***************************************************************************)
(* A consumer takes an event it has acknowledged again only if the relay   *)
(* stored it once more, through any restarts, replaced servers and late    *)
(* marks.                                                                  *)
(***************************************************************************)
THEOREM NoOtherRepeat == Spec => RecordedAgain
<1> DEFINE Again == \A c \in Consumers : \A o \in recorded[c] :
                      o \in acked'[c] \ acked[c] => o \in repeated
<1>1. Inv /\ [Next]_vars => Again
  <2> SUFFICES ASSUME Inv, [Next]_vars,
                      NEW c \in Consumers, NEW o \in recorded[c],
                      o \in acked'[c] \ acked[c]
               PROVE  o \in repeated
    OBVIOUS
  <2>1. acked \in [Consumers -> SUBSET stream] /\ acked' # acked
    BY DEF Inv, SavedInv
  <2>2. /\ acked' # [d \in Consumers |-> {}]
        /\ \A p \in Orders : acked' # [d \in Consumers |-> acked[d] \ {p}]
    BY <2>1
  <2>3. PICK d \in Consumers, p \in Orders : Record(d, p)
    <3>1. CASE UNCHANGED vars
      BY <3>1, <2>1 DEF vars, natsVars
    <3>2. CASE OrderService
      BY <3>2, <2>1, <2>2 DEF OrderService, StartOrderService, Save, Publish,
         PublishCut, Store, MarkPublished, MarkFails, natsVars
    <3>3. CASE \E d \in Consumers : Consumer(d)
      BY <3>3, <2>1 DEF Consumer, StartConsumer
    <3>4. CASE \E s \in Services : Reconnect(s) \/ GiveUp(s) \/ Stop(s) \/ Disconnect(s)
      BY <3>4, <2>1 DEF Reconnect, GiveUp, Stop, Disconnect, natsVars
    <3>5. CASE NatsUp \/ NatsReplaced \/ PostgresFlips \/ NatsDown
      BY <3>5, <2>1, <2>2 DEF NatsUp, NatsReplaced, PostgresFlips, NatsDown, natsVars
    <3> QED BY <3>1, <3>2, <3>3, <3>4, <3>5 DEF Next, ProbeFails, Fault, Crash
  <2>4. d = c /\ p = o /\ o \in stream
    BY <2>1, <2>3 DEF Record
  <2> QED BY <2>4 DEF Inv, RepeatInv
<1>2. Inv /\ [Next]_vars => [Again]_vars
  BY <1>1
<1> QED BY <1>2, Invariance, PTL DEF Spec, RecordedAgain
=============================================================================
