--------------------------- MODULE DeliveryProofs ---------------------------
(***************************************************************************)
(* Proofs about Delivery for any consumers and events: the server stops    *)
(* delivering an event only once the service has handled it, and a process *)
(* counts an event twice only if its AckWait has passed.                   *)
(***************************************************************************)
EXTENDS Delivery, Integers, TLAPS

-----------------------------------------------------------------------------
(* The inductive invariant *)

\* An acknowledgement, sent or received, is of an event that was handled, and
\* so is what the callback has recorded.
HandledInv ==
    \A c \in Consumers :
        /\ acks[c] \subseteq handled[c]
        /\ recorded[c] => current[c] \in handled[c]
        /\ handled[c] \cap Undecodable = {}
        /\ \A e \in Events : /\ state[c][e] = "acked" => e \in handled[c]
                             /\ count[c][e] > 0 => e \in handled[c]

\* Until its AckWait passes an event is in one place: with the server, in the
\* buffer, in the callback, counted, or acknowledged.
FirstInv ==
    \A c \in Consumers : \A e \in Events \ overdue[c] :
        /\ state[c][e] = "pending" => /\ e \notin buffer[c] \cup acks[c]
                                      /\ current[c] # e
                                      /\ count[c][e] = 0
        /\ e \in buffer[c] => /\ current[c] # e
                              /\ count[c][e] = 0
        /\ current[c] = e /\ ~ recorded[c] => count[c][e] = 0
        /\ count[c][e] \in {0, 1}

Inv == TypeOK /\ HandledInv /\ FirstInv

-----------------------------------------------------------------------------
(* Steps *)

(***************************************************************************)
(* Every step preserves the types.                                         *)
(***************************************************************************)
LEMMA TypeStep == TypeOK /\ [Next]_vars => TypeOK'
<1> SUFFICES ASSUME TypeOK, [Next]_vars PROVE TypeOK'
  OBVIOUS
<1>1. CASE PublisherStarts
  BY <1>1, EventsAssumption DEF PublisherStarts, serverVars, serviceVars,
     TypeOK, States
<1>2. ASSUME NEW e \in Events, Publish(e) PROVE TypeOK'
  BY <1>2, EventsAssumption DEF Publish, serverVars, serviceVars, TypeOK,
     States
<1>3. ASSUME NEW c \in Consumers, Start(c) PROVE TypeOK'
  BY <1>3, EventsAssumption DEF Start, serverVars, serviceVars, TypeOK, States
<1>4. ASSUME NEW c \in Consumers, NEW e \in Events, Callback(c, e) PROVE TypeOK'
  BY <1>4, EventsAssumption DEF Callback, serverVars, serviceVars, TypeOK,
     States
<1>5. ASSUME NEW c \in Consumers, NEW e \in Events, Nak(c, e) PROVE TypeOK'
  <2>1. CASE UNCHANGED state
    BY <1>5, <2>1 DEF Nak, TypeOK, States
  <2>2. CASE state' = [state EXCEPT ![c][e] = "pending"]
    <3>1. state' \in [Consumers -> [Events -> States]]
      BY <2>2 DEF TypeOK, States
    <3>2. current' \in [Consumers -> Events \cup {Nothing}]
      BY <1>5 DEF Nak, TypeOK
    <3> QED BY <1>5, <3>1, <3>2 DEF Nak, TypeOK
  <2> QED BY <1>5, <2>1, <2>2 DEF Nak
<1>6. ASSUME NEW c \in Consumers, NEW e \in Events, Handle(c, e) PROVE TypeOK'
  BY <1>6, EventsAssumption, CountAssumption DEF Handle, Record, serverVars,
     serviceVars, TypeOK, States
<1>7. ASSUME NEW c \in Consumers, NEW e \in Events, Ack(c, e) PROVE TypeOK'
  BY <1>7, EventsAssumption DEF Ack, serverVars, serviceVars, TypeOK, States
<1>8. ASSUME NEW c \in Consumers, Stop(c) PROVE TypeOK'
  BY <1>8, EventsAssumption, CountAssumption DEF Stop, serverVars,
     serviceVars, TypeOK, States
<1>9. ASSUME NEW c \in Consumers, NEW e \in Events, Deliver(c, e) PROVE TypeOK'
  BY <1>9, EventsAssumption DEF Deliver, serverVars, serviceVars, TypeOK,
     States
<1>10. ASSUME NEW c \in Consumers, NEW e \in Events, AckArrives(c, e) PROVE TypeOK'
  BY <1>10, EventsAssumption DEF AckArrives, serverVars, serviceVars, TypeOK,
     States
<1>11. ASSUME NEW c \in Consumers, NEW e \in Events, AckLost(c, e) PROVE TypeOK'
  BY <1>11, EventsAssumption DEF AckLost, serverVars, serviceVars, TypeOK,
     States
<1>12. ASSUME NEW c \in Consumers, NEW e \in Events, AckWaitPasses(c, e) PROVE TypeOK'
  BY <1>12, EventsAssumption DEF AckWaitPasses, serverVars, serviceVars,
     TypeOK, States
<1>13. CASE UNCHANGED vars
  BY <1>13 DEF vars, serverVars, serviceVars, TypeOK, States
<1> QED
  BY <1>1, <1>2, <1>3, <1>4, <1>5, <1>6, <1>7, <1>8, <1>9, <1>10, <1>11,
     <1>12, <1>13
     DEF Next, Consume, Server

(***************************************************************************)
(* Only an event that the callback has recorded is acknowledged.           *)
(***************************************************************************)
LEMMA HandledStep == TypeOK /\ HandledInv /\ [Next]_vars => HandledInv'
<1> SUFFICES ASSUME TypeOK, HandledInv, [Next]_vars PROVE HandledInv'
  OBVIOUS
<1>1. CASE PublisherStarts
  BY <1>1, EventsAssumption DEF PublisherStarts, serverVars, serviceVars,
     TypeOK, States, HandledInv
<1>2. ASSUME NEW e \in Events, Publish(e) PROVE HandledInv'
  BY <1>2, EventsAssumption DEF Publish, serverVars, serviceVars, TypeOK,
     States, HandledInv
<1>3. ASSUME NEW c \in Consumers, Start(c) PROVE HandledInv'
  BY <1>3, EventsAssumption DEF Start, serverVars, serviceVars, TypeOK,
     States, HandledInv
<1>4. ASSUME NEW c \in Consumers, NEW e \in Events, Callback(c, e) PROVE HandledInv'
  BY <1>4, EventsAssumption DEF Callback, serverVars, serviceVars, TypeOK,
     States, HandledInv
<1>5. ASSUME NEW c \in Consumers, NEW e \in Events, Nak(c, e) PROVE HandledInv'
  BY <1>5, EventsAssumption DEF Nak, serverVars, serviceVars, TypeOK, States,
     HandledInv
<1>6. ASSUME NEW c \in Consumers, NEW e \in Events, Handle(c, e) PROVE HandledInv'
  BY <1>6, EventsAssumption, CountAssumption DEF Handle, Record, serverVars,
     serviceVars, TypeOK, States, HandledInv
<1>7. ASSUME NEW c \in Consumers, NEW e \in Events, Ack(c, e) PROVE HandledInv'
  BY <1>7, EventsAssumption DEF Ack, serverVars, serviceVars, TypeOK, States,
     HandledInv
<1>8. ASSUME NEW c \in Consumers, Stop(c) PROVE HandledInv'
  BY <1>8, EventsAssumption, CountAssumption DEF Stop, serverVars,
     serviceVars, TypeOK, States, HandledInv
<1>9. ASSUME NEW c \in Consumers, NEW e \in Events, Deliver(c, e) PROVE HandledInv'
  BY <1>9, EventsAssumption DEF Deliver, serverVars, serviceVars, TypeOK,
     States, HandledInv
<1>10. ASSUME NEW c \in Consumers, NEW e \in Events, AckArrives(c, e) PROVE HandledInv'
  BY <1>10, EventsAssumption DEF AckArrives, serverVars, serviceVars, TypeOK,
     States, HandledInv
<1>11. ASSUME NEW c \in Consumers, NEW e \in Events, AckLost(c, e) PROVE HandledInv'
  BY <1>11, EventsAssumption DEF AckLost, serverVars, serviceVars, TypeOK,
     States, HandledInv
<1>12. ASSUME NEW c \in Consumers, NEW e \in Events, AckWaitPasses(c, e) PROVE HandledInv'
  BY <1>12, EventsAssumption DEF AckWaitPasses, serverVars, serviceVars,
     TypeOK, States, HandledInv
<1>13. CASE UNCHANGED vars
  BY <1>13 DEF vars, serverVars, serviceVars, TypeOK, States, HandledInv
<1> QED
  BY <1>1, <1>2, <1>3, <1>4, <1>5, <1>6, <1>7, <1>8, <1>9, <1>10, <1>11,
     <1>12, <1>13
     DEF Next, Consume, Server

(***************************************************************************)
(* An event moves from one place to the next.                              *)
(***************************************************************************)
LEMMA FirstStep == TypeOK /\ HandledInv /\ FirstInv /\ [Next]_vars => FirstInv'
<1> SUFFICES ASSUME TypeOK, HandledInv, FirstInv, [Next]_vars PROVE FirstInv'
  OBVIOUS
<1>1. CASE PublisherStarts
  BY <1>1, EventsAssumption DEF PublisherStarts, serverVars, serviceVars,
     TypeOK, States, HandledInv, FirstInv
<1>2. ASSUME NEW e \in Events, Publish(e) PROVE FirstInv'
  BY <1>2, EventsAssumption DEF Publish, serverVars, serviceVars, TypeOK,
     States, HandledInv, FirstInv
<1>3. ASSUME NEW c \in Consumers, Start(c) PROVE FirstInv'
  BY <1>3, EventsAssumption DEF Start, serverVars, serviceVars, TypeOK,
     States, HandledInv, FirstInv
<1>4. ASSUME NEW c \in Consumers, NEW e \in Events, Callback(c, e) PROVE FirstInv'
  BY <1>4, EventsAssumption DEF Callback, serverVars, serviceVars, TypeOK,
     States, HandledInv, FirstInv
<1>5. ASSUME NEW c \in Consumers, NEW e \in Events, Nak(c, e) PROVE FirstInv'
  BY <1>5, EventsAssumption DEF Nak, serverVars, serviceVars, TypeOK, States,
     HandledInv, FirstInv
<1>6. ASSUME NEW c \in Consumers, NEW e \in Events, Handle(c, e) PROVE FirstInv'
  BY <1>6, EventsAssumption, CountAssumption DEF Handle, Record, serverVars,
     serviceVars, TypeOK, States, HandledInv, FirstInv
<1>7. ASSUME NEW c \in Consumers, NEW e \in Events, Ack(c, e) PROVE FirstInv'
  BY <1>7, EventsAssumption DEF Ack, serverVars, serviceVars, TypeOK, States,
     HandledInv, FirstInv
<1>8. ASSUME NEW c \in Consumers, Stop(c) PROVE FirstInv'
  BY <1>8, EventsAssumption, CountAssumption DEF Stop, serverVars,
     serviceVars, TypeOK, States, HandledInv, FirstInv
<1>9. ASSUME NEW c \in Consumers, NEW e \in Events, Deliver(c, e) PROVE FirstInv'
  BY <1>9, EventsAssumption DEF Deliver, serverVars, serviceVars, TypeOK,
     States, HandledInv, FirstInv
<1>10. ASSUME NEW c \in Consumers, NEW e \in Events, AckArrives(c, e) PROVE FirstInv'
  BY <1>10, EventsAssumption DEF AckArrives, serverVars, serviceVars, TypeOK,
     States, HandledInv, FirstInv
<1>11. ASSUME NEW c \in Consumers, NEW e \in Events, AckLost(c, e) PROVE FirstInv'
  BY <1>11, EventsAssumption DEF AckLost, serverVars, serviceVars, TypeOK,
     States, HandledInv, FirstInv
<1>12. ASSUME NEW c \in Consumers, NEW e \in Events, AckWaitPasses(c, e) PROVE FirstInv'
  BY <1>12, EventsAssumption DEF AckWaitPasses, serverVars, serviceVars,
     TypeOK, States, HandledInv, FirstInv
<1>13. CASE UNCHANGED vars
  BY <1>13 DEF vars, serverVars, serviceVars, TypeOK, States, HandledInv,
     FirstInv
<1> QED
  BY <1>1, <1>2, <1>3, <1>4, <1>5, <1>6, <1>7, <1>8, <1>9, <1>10, <1>11,
     <1>12, <1>13
     DEF Next, Consume, Server

-----------------------------------------------------------------------------
(* Theorems *)

(***************************************************************************)
(* The inductive invariant of delivery.                                    *)
(***************************************************************************)
THEOREM Invariance == Spec => []Inv
<1>1. Init => Inv
  <2> SUFFICES ASSUME Init PROVE Inv
    OBVIOUS
  <2>1. TypeOK
    <3>1. /\ 0 \in 0..MaxCount /\ "pending" \in States
          /\ {} \in SUBSET Events /\ Nothing \in Events \cup {Nothing}
      BY CountAssumption DEF States
    <3>2. /\ state \in [Consumers -> [Events -> States]]
          /\ count \in [Consumers -> [Events -> 0..MaxCount]]
      BY <3>1, Zenon DEF Init
    <3> QED BY <3>1, <3>2 DEF Init, TypeOK
  <2>2. HandledInv /\ FirstInv
    BY EventsAssumption DEF Init, HandledInv, FirstInv
  <2> QED BY <2>1, <2>2 DEF Inv
<1>2. Inv /\ [Next]_vars => Inv'
  BY TypeStep, HandledStep, FirstStep DEF Inv
<1> QED BY <1>1, <1>2, PTL DEF Spec

(***************************************************************************)
(* Type correctness.                                                       *)
(***************************************************************************)
THEOREM TypeCorrect == Spec => []TypeOK
<1>1. Inv => TypeOK
  BY DEF Inv
<1> QED BY <1>1, Invariance, PTL

(***************************************************************************)
(* No crash in the callback, redelivery or late acknowledgement makes the  *)
(* server forget an event the service has not handled.                     *)
(***************************************************************************)
THEOREM NothingAckedUnhandled == Spec => []AckedWasHandled
<1>1. Inv => AckedWasHandled
  BY DEF Inv, HandledInv, AckedWasHandled
<1> QED BY <1>1, Invariance, PTL

(***************************************************************************)
(* Stats count an event twice only if its AckWait passed, whatever crashes *)
(* and restarts the service goes through.                                  *)
(***************************************************************************)
THEOREM CountedTwiceIfOverdue == Spec => []CountedOnce
<1>1. Inv => CountedOnce
  BY DEF Inv, FirstInv, CountedOnce
<1> QED BY <1>1, Invariance, PTL
=============================================================================
