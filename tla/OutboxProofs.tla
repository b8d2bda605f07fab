---------------------------- MODULE OutboxProofs ----------------------------
(***************************************************************************)
(* Proofs about Outbox for any orders, relays, batch size and bound: an    *)
(* order and its outbox row exist together, a row is marked only when its  *)
(* event is stored, and, when the deduplication window outlives outages,   *)
(* the stream announces each order at most once and implements the         *)
(* abstract promise of OrderEvents.                                        *)
(***************************************************************************)
EXTENDS Outbox, TLAPS

-----------------------------------------------------------------------------
(* Lemmas about the operators of the model *)

(***************************************************************************)
(* ORDER BY id LIMIT n returns rows of the table.                          *)
(***************************************************************************)
LEMMA FirstRowsSubset ==
    ASSUME NEW rows, NEW n
    PROVE  FirstRows(rows, n) \subseteq rows
BY DEF FirstRows

(***************************************************************************)
(* Finishing a row only shrinks the batch of that relay.                   *)
(***************************************************************************)
LEMMA NextRowShrinks ==
    ASSUME TypeOK, NEW r \in Relays, NEW e, NextRow(r, e)
    PROVE  /\ batch' \in [Relays -> SUBSET Event]
           /\ relayPc' \in [Relays -> RelayState]
           /\ \A q \in Relays : batch'[q] \subseteq batch[q]
           /\ \A q \in Relays \ {r} : /\ batch'[q] = batch[q]
                                      /\ relayPc'[q] = relayPc[q]
           /\ relayPc'[r] \in {"idle", "publishing"}
<1>1. /\ batch' = [batch EXCEPT ![r] = @ \ {e}]
      /\ relayPc' = [relayPc EXCEPT
                       ![r] = IF batch[r] = {e} THEN "idle" ELSE "publishing"]
  BY DEF NextRow
<1>2. batch \in [Relays -> SUBSET Event] /\ relayPc \in [Relays -> RelayState]
  BY DEF TypeOK
<1> QED BY <1>1, <1>2 DEF RelayState

(***************************************************************************)
(* A message that reaches the server leaves a stream of events and a set   *)
(* of ids; the id is in the window and the stream grows by it or not.      *)
(***************************************************************************)
LEMMA ReceiveTypes ==
    ASSUME TypeOK, NEW e \in Event, Receive(e)
    PROVE  /\ stream' \in Seq(Event)
           /\ window' \subseteq Nat
           /\ window' = window \cup {e.id}
           /\ \/ e.id \in window /\ stream' = stream
              \/ e.id \notin window /\ stream' = Append(stream, e)
<1>1. e.id \in Nat /\ stream \in Seq(Event) /\ window \subseteq Nat
  BY DEF Event, TypeOK
<1>2. CASE e.id \in window /\ UNCHANGED <<stream, window>>
  BY <1>1, <1>2
<1>3. CASE /\ e.id \notin window
           /\ stream' = Append(stream, e)
           /\ window' = window \cup {e.id}
  <2>1. stream' \in Seq(Event)
    BY <1>1, <1>3
  <2> QED BY <1>1, <1>3, <2>1
<1> QED BY <1>2, <1>3 DEF Receive

(***************************************************************************)
(* When the window holds only ids of stored messages, a message that       *)
(* reaches the server is in the stream afterwards and none is lost.        *)
(***************************************************************************)
LEMMA AppendStores ==
    ASSUME stream \in Seq(Event), NEW e \in Event,
           stream' = Append(stream, e)
    PROVE  /\ Len(stream) \in Nat
           /\ DOMAIN stream = 1..Len(stream)
           /\ DOMAIN stream' = 1..(Len(stream) + 1)
           /\ \A i \in DOMAIN stream : stream'[i] = stream[i]
           /\ stream'[Len(stream) + 1] = e
           /\ \A f : InStream(f)' <=> InStream(f) \/ f = e
<1>1. /\ Len(stream) \in Nat
      /\ DOMAIN stream = 1..Len(stream)
      /\ DOMAIN stream' = 1..(Len(stream) + 1)
      /\ \A i \in 1..Len(stream) : stream'[i] = stream[i]
      /\ stream'[Len(stream) + 1] = e
  OBVIOUS
<1>2. DOMAIN stream' = DOMAIN stream \cup {Len(stream) + 1}
  BY <1>1
<1>3. \A f : InStream(f)' <=> InStream(f) \/ f = e
  BY <1>1, <1>2 DEF InStream
<1> QED BY <1>1, <1>3

-----------------------------------------------------------------------------
(* Type correctness *)

(***************************************************************************)
(* The types hold at the start.                                            *)
(***************************************************************************)
LEMMA TypeInit == Init => TypeOK
BY DEF Init, TypeOK, TxState, RelayState

(***************************************************************************)
(* Every step of a transaction, a relay or the server preserves the types. *)
(***************************************************************************)
LEMMA TypeStep == TypeOK /\ [Next]_vars => TypeOK'
<1> SUFFICES ASSUME TypeOK, [Next]_vars PROVE TypeOK'
  OBVIOUS
<1> USE DEF dbVars, txVars, relayVars, natsVars
<1>1. ASSUME NEW o \in Orders, CreateOrder(o) PROVE TypeOK'
  <2>1. tx' \in [Orders -> TxState]
    BY <1>1 DEF TypeOK, CreateOrder, Begin, InsertOrder, InsertEvent, Commit,
                Rollback, TxState
  <2>2. staged' \subseteq Event /\ nextId' \in Nat
    BY <1>1 DEF TypeOK, CreateOrder, Begin, InsertOrder, InsertEvent, Commit,
                Rollback, Event
  <2>3. orders' \subseteq Orders /\ outbox' \subseteq Event
    BY <1>1 DEF TypeOK, CreateOrder, Begin, InsertOrder, InsertEvent, Commit,
                Rollback
  <2>4. UNCHANGED <<publishedAt, relayPc, batch, stream, window, late>>
    BY <1>1 DEF CreateOrder, Begin, InsertOrder, InsertEvent, Commit, Rollback
  <2> QED BY <2>1, <2>2, <2>3, <2>4 DEF TypeOK
<1>2. ASSUME NEW r \in Relays, Start(r) PROVE TypeOK'
  BY <1>2 DEF TypeOK, Start, RelayState
<1>3. ASSUME NEW r \in Relays, Fetch(r) PROVE TypeOK'
  <2>1. FirstRows(Unpublished, BatchSize) \subseteq Event
    BY FirstRowsSubset DEF TypeOK, Unpublished
  <2> QED BY <1>3, <2>1 DEF TypeOK, Fetch, RelayState
<1>4. ASSUME NEW r \in Relays, NEW e \in batch[r], ServerStores(r, e)
      PROVE  TypeOK'
  <2>1. e \in Event
    BY DEF TypeOK
  <2>2. stream' \in Seq(Event) /\ window' \subseteq Nat
    BY <1>4, <2>1, ReceiveTypes DEF TypeOK, ServerStores
  <2> QED BY <1>4, <2>2 DEF TypeOK, ServerStores, RelayState
<1>5. ASSUME NEW r \in Relays, NEW e \in batch[r], AckArrives(r, e)
      PROVE  TypeOK'
  BY <1>5 DEF TypeOK, AckArrives, RelayState
<1>6. ASSUME NEW r \in Relays, NEW e \in batch[r],
             \/ PublishFails(r, e) \/ AckLost(r, e)
             \/ MarkPublished(r, e) \/ MarkFails(r, e)
      PROVE  TypeOK'
  <2>1. e \in Event
    BY DEF TypeOK
  <2>2. NextRow(r, e)
    BY <1>6 DEF PublishFails, AckLost, MarkPublished, MarkFails
  <2>3. late' \subseteq Event /\ publishedAt' \subseteq Nat
    BY <1>6, <2>1 DEF TypeOK, PublishFails, AckLost, MarkPublished, MarkFails,
                      Event
  <2>4. UNCHANGED <<orders, outbox, nextId, tx, staged, stream, window>>
    BY <1>6 DEF PublishFails, AckLost, MarkPublished, MarkFails
  <2> QED BY <2>2, <2>3, <2>4, NextRowShrinks DEF TypeOK
<1>7. ASSUME NEW r \in Relays, Stop(r) PROVE TypeOK'
  <2>1. late' \subseteq Event
    BY <1>7 DEF TypeOK, Stop, Current
  <2> QED BY <1>7, <2>1 DEF TypeOK, Stop, RelayState
<1>8. ASSUME NEW e \in outbox, LateArrival(e) PROVE TypeOK'
  <2>1. stream' \in Seq(Event) /\ window' \subseteq Nat
    BY <1>8, ReceiveTypes DEF TypeOK, LateArrival
  <2> QED BY <1>8, <2>1 DEF TypeOK, LateArrival
<1>9. ASSUME NEW e \in outbox, LateGone(e) \/ WindowCloses(e) PROVE TypeOK'
  BY <1>9 DEF TypeOK, LateGone, WindowCloses
<1>10. CASE UNCHANGED vars
  BY <1>10 DEF TypeOK, vars
<1> QED
  BY <1>1, <1>2, <1>3, <1>4, <1>5, <1>6, <1>7, <1>8, <1>9, <1>10
     DEF Next, PublishPending, Nats

(***************************************************************************)
(* Type correctness of the outbox.                                         *)
(***************************************************************************)
THEOREM TypeCorrect == Spec => []TypeOK
BY TypeInit, TypeStep, PTL DEF Spec

-----------------------------------------------------------------------------
(* Rows: the order and its outbox row *)

(***************************************************************************)
(* At the start there is neither an order nor a row.                       *)
(***************************************************************************)
LEMMA RowsInit == Init => RowsInv
BY DEF Init, RowsInv

(***************************************************************************)
(* What the transactions do to the rows.  Only CreateOrder touches them.   *)
(***************************************************************************)
LEMMA RowsCreateOrder ==
    ASSUME TypeOK, RowsInv, NEW o \in Orders, CreateOrder(o)
    PROVE  RowsInv'
<1> USE DEF dbVars, TypeOK, Event
<1>1. CASE Begin(o)
  <2>1. tx' = [tx EXCEPT ![o] = "begun"] /\ tx[o] = "idle"
    BY <1>1 DEF Begin
  <2>2. UNCHANGED <<orders, outbox, nextId, staged>>
    BY <1>1 DEF Begin
  <2> QED BY <2>1, <2>2 DEF RowsInv
<1>2. CASE InsertOrder(o)
  <2>1. tx' = [tx EXCEPT ![o] = "orderRow"] /\ tx[o] = "begun"
    BY <1>2 DEF InsertOrder
  <2>2. UNCHANGED <<orders, outbox, nextId, staged>>
    BY <1>2 DEF InsertOrder
  <2> QED BY <2>1, <2>2 DEF RowsInv
<1>3. CASE InsertEvent(o)
  <2> DEFINE new == [id |-> nextId, order |-> o]
  <2>1. tx' = [tx EXCEPT ![o] = "eventRow"] /\ tx[o] = "orderRow"
    BY <1>3 DEF InsertEvent
  <2>2. /\ UNCHANGED <<orders, outbox>>
        /\ staged' = staged \cup {new} /\ nextId' = nextId + 1
    BY <1>3 DEF InsertEvent
  <2>3. new.id = nextId /\ new.order = o
    OBVIOUS
  <2>4. \A e \in outbox \cup staged : e.id # nextId /\ e.order # o
    <3>1. \A e \in outbox \cup staged : e.id \in Nat /\ e.id < nextId
      BY DEF RowsInv
    <3>2. \A e \in staged : e.order # o
      BY <2>1 DEF RowsInv
    <3>3. \A e \in outbox : tx[e.order] \in {"created", "error"}
      BY DEF RowsInv
    <3> QED BY <2>1, <3>1, <3>2, <3>3
  <2>5. \A e \in outbox' \cup staged' : e \in outbox \cup staged \/ e = new
    BY <2>2
  <2>6. \A e \in outbox' \cup staged' : e.id < nextId'
    BY <2>2, <2>3, <2>5 DEF RowsInv
  <2>7. \A e, f \in outbox' \cup staged' :
           e.order = f.order \/ e.id = f.id => e = f
    BY <2>3, <2>4, <2>5 DEF RowsInv
  <2>8. \A e \in staged' : tx'[e.order] = "eventRow"
    BY <2>1, <2>2, <2>3 DEF RowsInv
  <2>9. \A p \in Orders : tx'[p] = "eventRow" => \E e \in staged' : e.order = p
    BY <2>1, <2>2, <2>3 DEF RowsInv
  <2> QED BY <2>1, <2>2, <2>6, <2>7, <2>8, <2>9 DEF RowsInv
<1>4. CASE Commit(o)
  <2>1. PICK reply \in {"created", "error"} : tx' = [tx EXCEPT ![o] = reply]
    BY <1>4 DEF Commit
  <2>2. /\ tx[o] = "eventRow" /\ orders' = orders \cup {o}
        /\ outbox' = outbox \cup {e \in staged : e.order = o}
        /\ staged' = {e \in staged : e.order # o}
        /\ nextId' = nextId
    BY <1>4 DEF Commit
  <2>3. PICK new \in staged : new.order = o
    BY <2>2 DEF RowsInv
  <2>4. {e \in staged : e.order = o} = {new}
    BY <2>3 DEF RowsInv
  <2>5. orders' = {e.order : e \in outbox'}
    BY <2>2, <2>3, <2>4 DEF RowsInv
  <2>6. outbox' \cup staged' = outbox \cup staged
    BY <2>2
  <2> QED BY <2>1, <2>2, <2>5, <2>6 DEF RowsInv
<1>5. CASE Rollback(o)
  <2>1. /\ tx[o] \in {"begun", "orderRow", "eventRow"}
        /\ tx' = [tx EXCEPT ![o] = "error"]
        /\ staged' = {e \in staged : e.order # o}
    BY <1>5 DEF Rollback
  <2>2. UNCHANGED <<orders, outbox, nextId>>
    BY <1>5 DEF Rollback
  <2> QED BY <2>1, <2>2 DEF RowsInv
<1> QED BY <1>1, <1>2, <1>3, <1>4, <1>5 DEF CreateOrder

(***************************************************************************)
(* The relays and the server leave the rows and the transactions alone.    *)
(***************************************************************************)
LEMMA RowsUntouched ==
    ASSUME [Next]_vars, ~ \E o \in Orders : CreateOrder(o)
    PROVE  UNCHANGED <<orders, outbox, nextId, tx, staged>>
<1> USE DEF dbVars, txVars, relayVars, natsVars
<1>1. ASSUME NEW r \in Relays, Start(r) \/ Stop(r) \/ Fetch(r)
      PROVE  UNCHANGED <<orders, outbox, nextId, tx, staged>>
  BY <1>1 DEF Start, Stop, Fetch
<1>2. ASSUME NEW r \in Relays, NEW e,
             \/ ServerStores(r, e) \/ AckArrives(r, e) \/ PublishFails(r, e)
             \/ AckLost(r, e) \/ MarkPublished(r, e) \/ MarkFails(r, e)
      PROVE  UNCHANGED <<orders, outbox, nextId, tx, staged>>
  BY <1>2 DEF ServerStores, AckArrives, PublishFails, AckLost, MarkPublished,
              MarkFails
<1>3. ASSUME NEW e, LateArrival(e) \/ LateGone(e) \/ WindowCloses(e)
      PROVE  UNCHANGED <<orders, outbox, nextId, tx, staged>>
  BY <1>3 DEF LateArrival, LateGone, WindowCloses
<1>4. CASE UNCHANGED vars
  BY <1>4 DEF vars
<1> QED BY <1>1, <1>2, <1>3, <1>4 DEF Next, PublishPending, Nats

(***************************************************************************)
(* Every step keeps orders and rows together and the ids of rows distinct. *)
(***************************************************************************)
LEMMA RowsStep == TypeOK /\ RowsInv /\ [Next]_vars => RowsInv'
<1> SUFFICES ASSUME TypeOK, RowsInv, [Next]_vars PROVE RowsInv'
  OBVIOUS
<1>1. CASE \E o \in Orders : CreateOrder(o)
  BY <1>1, RowsCreateOrder
<1>2. CASE ~ \E o \in Orders : CreateOrder(o)
  BY <1>2, RowsUntouched DEF RowsInv
<1> QED BY <1>1, <1>2

(***************************************************************************)
(* The rows of the tables say what the comment on CreateOrder promises.    *)
(***************************************************************************)
LEMMA RowsImplyOrderIffEvent == RowsInv => OrderIffEvent
BY DEF RowsInv, OrderIffEvent

(***************************************************************************)
(* At every instant an order exists exactly when one outbox row announces  *)
(* it, whichever statements fail.                                          *)
(***************************************************************************)
THEOREM OrderAndEventTogether == Spec => []OrderIffEvent
<1>1. Init => TypeOK /\ RowsInv
  BY TypeInit, RowsInit
<1>2. (TypeOK /\ RowsInv) /\ [Next]_vars => (TypeOK /\ RowsInv)'
  BY TypeStep, RowsStep
<1>3. TypeOK /\ RowsInv => OrderIffEvent
  BY RowsImplyOrderIffEvent
<1> QED BY <1>1, <1>2, <1>3, PTL DEF Spec

-----------------------------------------------------------------------------
(* Copies: the events relays hold, in flight and in the stream *)

(***************************************************************************)
(* At the start no event has a copy anywhere.                              *)
(***************************************************************************)
LEMMA CopiesInit == Init => CopiesInv
BY DEF Init, CopiesInv, InStream, Current

(***************************************************************************)
(* With the rows identified by their ids, one row heads a batch.           *)
(***************************************************************************)
LEMMA OneCurrent ==
    ASSUME TypeOK, RowsInv, CopiesInv, NEW r \in Relays,
           NEW e \in Current(r), NEW f \in Current(r)
    PROVE  e = f
<1>1. e \in outbox /\ f \in outbox
  BY DEF Current, CopiesInv
<1>2. e.id \in Nat /\ f.id \in Nat /\ e.id <= f.id /\ f.id <= e.id
  BY <1>1 DEF Current, TypeOK, Event
<1>3. e.id = f.id
  BY <1>2
<1> QED BY <1>1, <1>3 DEF RowsInv

(***************************************************************************)
(* A transaction adds rows and disturbs nothing else.                      *)
(***************************************************************************)
LEMMA CreateOrderGrows ==
    ASSUME NEW o \in Orders, CreateOrder(o)
    PROVE  /\ UNCHANGED <<publishedAt, relayPc, batch, stream, window, late>>
           /\ outbox \subseteq outbox'
           /\ outbox' \subseteq outbox \cup staged
BY DEF CreateOrder, Begin, InsertOrder, InsertEvent, Commit, Rollback, dbVars,
       txVars, relayVars, natsVars

(***************************************************************************)
(* A message that reaches the server is in the stream afterwards, nothing  *)
(* else enters it and nothing leaves it.                                   *)
(***************************************************************************)
LEMMA ReceiveStores ==
    ASSUME TypeOK, RowsInv, CopiesInv, NEW e \in outbox, Receive(e)
    PROVE  /\ window' = window \cup {e.id}
           /\ \A f : InStream(f)' <=> InStream(f) \/ f = e
           /\ \A i \in DOMAIN stream' : stream'[i] \in outbox
<1>1. e \in Event /\ stream \in Seq(Event)
  BY DEF TypeOK
<1>2. CASE e.id \in window /\ stream' = stream
  <2>1. PICK f \in outbox : f.id = e.id /\ InStream(f)
    BY <1>2 DEF CopiesInv
  <2>2. InStream(e)
    BY <2>1 DEF RowsInv
  <2> QED BY <1>1, <1>2, <2>2, ReceiveTypes DEF InStream, CopiesInv
<1>3. CASE e.id \notin window /\ stream' = Append(stream, e)
  <2>1. /\ \A i \in DOMAIN stream : stream'[i] = stream[i]
        /\ stream'[Len(stream) + 1] = e
        /\ \A f : InStream(f)' <=> InStream(f) \/ f = e
    BY <1>1, <1>3, AppendStores
  <2>2. DOMAIN stream' = DOMAIN stream \cup {Len(stream) + 1}
    BY <1>1, <1>3, AppendStores
  <2>3. \A i \in DOMAIN stream' : stream'[i] \in outbox
    BY <2>1, <2>2 DEF CopiesInv
  <2> QED BY <1>1, <2>1, <2>3, ReceiveTypes
<1> QED BY <1>1, <1>2, <1>3, ReceiveTypes

(***************************************************************************)
(* No step makes a relay hold, send, mark or store an event of no row.     *)
(***************************************************************************)
LEMMA CopiesStep == TypeOK /\ RowsInv /\ CopiesInv /\ [Next]_vars => CopiesInv'
<1> SUFFICES ASSUME TypeOK, RowsInv, CopiesInv, [Next]_vars PROVE CopiesInv'
  OBVIOUS
<1> USE DEF dbVars, txVars, relayVars, natsVars
<1>1. ASSUME NEW o \in Orders, CreateOrder(o) PROVE CopiesInv'
  BY <1>1, CreateOrderGrows DEF CopiesInv, InStream, Current
<1>2. ASSUME NEW r \in Relays, Start(r) PROVE CopiesInv'
  BY <1>2 DEF Start, CopiesInv, InStream, Current, TypeOK
<1>3. ASSUME NEW r \in Relays, Fetch(r) PROVE CopiesInv'
  <2>1. FirstRows(Unpublished, BatchSize) \subseteq outbox
    BY FirstRowsSubset DEF Unpublished
  <2> QED BY <1>3, <2>1 DEF Fetch, CopiesInv, InStream, Current, TypeOK
<1>4. ASSUME NEW r \in Relays, NEW e \in batch[r], ServerStores(r, e)
      PROVE  CopiesInv'
  <2>1. e \in outbox /\ Receive(e) /\ e \in Current(r)
    BY <1>4 DEF ServerStores, CopiesInv
  <2>2. /\ window' = window \cup {e.id}
        /\ \A f : InStream(f)' <=> InStream(f) \/ f = e
    BY <2>1, ReceiveStores
  <2>3. /\ UNCHANGED <<outbox, publishedAt, batch, late>>
        /\ relayPc' = [relayPc EXCEPT ![r] = "stored"]
    BY <1>4 DEF ServerStores
  <2>4. \A q \in Relays : Current(q)' = Current(q)
    BY <2>3 DEF Current
  <2>5. \A q \in Relays : relayPc'[q] \in {"stored", "marking"} =>
           \A f \in Current(q)' : InStream(f)'
    <3>1. \A f \in Current(r) : f = e
      BY <2>1, OneCurrent
    <3>2. \A q \in Relays \ {r} : relayPc'[q] = relayPc[q]
      BY <2>3 DEF TypeOK
    <3> QED BY <2>2, <2>4, <3>1, <3>2 DEF CopiesInv
  <2>6. \A i \in DOMAIN stream' : stream'[i] \in outbox
    BY <2>1, ReceiveStores
  <2>7. \A id \in (publishedAt \cup window)' :
           \E f \in outbox : f.id = id /\ InStream(f)'
    BY <2>1, <2>2, <2>3 DEF CopiesInv
  <2> QED BY <2>3, <2>5, <2>6, <2>7 DEF CopiesInv
<1>5. ASSUME NEW r \in Relays, NEW e \in batch[r], AckArrives(r, e)
      PROVE  CopiesInv'
  BY <1>5 DEF AckArrives, CopiesInv, InStream, Current, TypeOK
<1>6. ASSUME NEW r \in Relays, NEW e \in batch[r],
             \/ PublishFails(r, e) \/ AckLost(r, e)
             \/ MarkPublished(r, e) \/ MarkFails(r, e)
      PROVE  CopiesInv'
  <2>1. NextRow(r, e)
    BY <1>6 DEF PublishFails, AckLost, MarkPublished, MarkFails
  <2>2. UNCHANGED <<outbox, stream, window>>
    BY <1>6 DEF PublishFails, AckLost, MarkPublished, MarkFails
  <2>3. late' \subseteq outbox
    BY <1>6 DEF PublishFails, AckLost, MarkPublished, MarkFails, CopiesInv
  <2>4. \/ publishedAt' = publishedAt
        \/ publishedAt' = publishedAt \cup {e.id} /\ InStream(e)
    BY <1>6 DEF PublishFails, AckLost, MarkPublished, MarkFails, CopiesInv
  <2>5. \A id \in (publishedAt \cup window)' :
           \E f \in outbox : f.id = id /\ InStream(f)
    BY <2>2, <2>4 DEF CopiesInv
  <2>6. \A q \in Relays : relayPc'[q] \in {"stored", "marking"} =>
           \A f \in Current(q)' : InStream(f)
    BY <2>1, NextRowShrinks DEF Current, CopiesInv
  <2>7. \A q \in Relays : batch'[q] \subseteq outbox
    BY <2>1, NextRowShrinks DEF CopiesInv
  <2> QED BY <2>2, <2>3, <2>5, <2>6, <2>7 DEF CopiesInv, InStream
<1>7. ASSUME NEW r \in Relays, Stop(r) PROVE CopiesInv'
  <2>1. late' \subseteq outbox
    BY <1>7 DEF Stop, CopiesInv, Current
  <2> QED BY <1>7, <2>1 DEF Stop, CopiesInv, InStream, Current, TypeOK
<1>8. ASSUME NEW e \in outbox, LateArrival(e) PROVE CopiesInv'
  <2>1. /\ Receive(e)
        /\ UNCHANGED <<outbox, publishedAt, relayPc, batch, late>>
    BY <1>8 DEF LateArrival
  <2>2. /\ window' = window \cup {e.id}
        /\ \A f : InStream(f)' <=> InStream(f) \/ f = e
    BY <2>1, ReceiveStores
  <2>3. \A i \in DOMAIN stream' : stream'[i] \in outbox
    BY <2>1, ReceiveStores
  <2>4. \A id \in (publishedAt \cup window)' :
           \E f \in outbox : f.id = id /\ InStream(f)'
    BY <2>1, <2>2 DEF CopiesInv
  <2>5. \A q \in Relays : relayPc'[q] \in {"stored", "marking"} =>
           \A f \in Current(q)' : InStream(f)'
    BY <2>1, <2>2 DEF CopiesInv, Current
  <2> QED BY <2>1, <2>3, <2>4, <2>5 DEF CopiesInv
<1>9. ASSUME NEW e \in outbox, LateGone(e) \/ WindowCloses(e)
      PROVE  CopiesInv'
  BY <1>9 DEF LateGone, WindowCloses, CopiesInv, InStream, Current
<1>10. CASE UNCHANGED vars
  BY <1>10 DEF CopiesInv, InStream, Current, vars
<1> QED
  BY <1>1, <1>2, <1>3, <1>4, <1>5, <1>6, <1>7, <1>8, <1>9, <1>10
     DEF Next, PublishPending, Nats

(***************************************************************************)
(* Only stored events are marked published, so none is lost.               *)
(***************************************************************************)
LEMMA CopiesImplyPublishedIsStored ==
    RowsInv /\ CopiesInv => PublishedIsStored
BY DEF RowsInv, CopiesInv, PublishedIsStored

(***************************************************************************)
(* A row leaves the queue only after its event is durable in the stream,   *)
(* long outages or not.                                                    *)
(***************************************************************************)
THEOREM NoEventLost == Spec => []PublishedIsStored
<1>1. Init => TypeOK /\ RowsInv /\ CopiesInv
  BY TypeInit, RowsInit, CopiesInit
<1>2. (TypeOK /\ RowsInv /\ CopiesInv) /\ [Next]_vars
      => (TypeOK /\ RowsInv /\ CopiesInv)'
  BY TypeStep, RowsStep, CopiesStep
<1>3. TypeOK /\ RowsInv /\ CopiesInv => PublishedIsStored
  BY CopiesImplyPublishedIsStored
<1> QED BY <1>1, <1>2, <1>3, PTL DEF Spec

-----------------------------------------------------------------------------
(* Window: the stream holds no event twice *)

(***************************************************************************)
(* At the start nothing is stored or on its way.                           *)
(***************************************************************************)
LEMMA WindowInit == Init => WindowInv
BY DEF Init, WindowInv, AtMostOnce, InStream

(***************************************************************************)
(* The message of an event the window has forgotten is stored only once:   *)
(* an event somebody still holds is deduplicated or not in the stream.     *)
(***************************************************************************)
LEMMA ReceiveOnce ==
    ASSUME TypeOK, RowsInv, CopiesInv, WindowInv,
           NEW e \in outbox, ~ Settled(e), Receive(e)
    PROVE  AtMostOnce'
<1>1. e \in Event /\ stream \in Seq(Event)
  BY DEF TypeOK
<1>2. CASE e.id \in window /\ stream' = stream
  BY <1>2 DEF WindowInv, AtMostOnce
<1>3. CASE e.id \notin window /\ stream' = Append(stream, e)
  <2>1. ~ InStream(e)
    BY <1>3 DEF WindowInv
  <2>2. \A i \in DOMAIN stream : stream[i].order # e.order
    BY <2>1 DEF CopiesInv, RowsInv, InStream
  <2>3. /\ DOMAIN stream' = DOMAIN stream \cup {Len(stream) + 1}
        /\ \A i \in DOMAIN stream : stream'[i] = stream[i]
        /\ stream'[Len(stream) + 1] = e
    BY <1>1, <1>3, AppendStores
  <2> QED BY <2>2, <2>3 DEF AtMostOnce, WindowInv
<1> QED BY <1>1, <1>2, <1>3, ReceiveTypes

(***************************************************************************)
(* No relay fetches, keeps or abandons a copy of an event whose message id *)
(* the server has forgotten, while outages are shorter than the window.    *)
(***************************************************************************)
LEMMA WindowStep ==
    ASSUME ~LongOutages
    PROVE  TypeOK /\ RowsInv /\ CopiesInv /\ WindowInv /\ [Next]_vars
           => WindowInv'
<1> SUFFICES ASSUME TypeOK, RowsInv, CopiesInv, WindowInv, [Next]_vars
             PROVE  WindowInv'
  OBVIOUS
<1> USE DEF dbVars, txVars, relayVars, natsVars
<1>1. ASSUME NEW o \in Orders, CreateOrder(o) PROVE WindowInv'
  <2>1. \A f : InStream(f) => f \in outbox
    BY DEF InStream, CopiesInv
  <2> QED
    BY <1>1, <2>1, CreateOrderGrows
       DEF WindowInv, InStream, Settled, AtMostOnce
<1>2. ASSUME NEW r \in Relays, Start(r) PROVE WindowInv'
  BY <1>2 DEF Start, WindowInv, InStream, Settled, AtMostOnce
<1>3. ASSUME NEW r \in Relays, Fetch(r) PROVE WindowInv'
  <2>1. FirstRows(Unpublished, BatchSize) \subseteq Unpublished
    BY FirstRowsSubset
  <2>2. UNCHANGED <<outbox, publishedAt, stream, window, late>>
    BY <1>3 DEF Fetch
  <2>3. ASSUME NEW e \in outbox, Settled(e) PROVE Settled(e)'
    BY <1>3, <2>1, <2>2, <2>3 DEF Fetch, Unpublished, Settled, TypeOK
  <2> QED BY <2>2, <2>3 DEF WindowInv, InStream, AtMostOnce
<1>4. ASSUME NEW r \in Relays, NEW e \in batch[r], ServerStores(r, e)
      PROVE  WindowInv'
  <2>1. e \in outbox /\ Receive(e)
    BY <1>4 DEF ServerStores, CopiesInv
  <2>2. UNCHANGED <<outbox, publishedAt, batch, late>>
    BY <1>4 DEF ServerStores
  <2>3. AtMostOnce'
    BY <2>1, ReceiveOnce DEF Settled
  <2> QED BY <2>1, <2>2, <2>3, ReceiveStores DEF WindowInv, Settled
<1>5. ASSUME NEW r \in Relays, NEW e \in batch[r], AckArrives(r, e)
      PROVE  WindowInv'
  BY <1>5 DEF AckArrives, WindowInv, InStream, Settled, AtMostOnce
<1>6. ASSUME NEW r \in Relays, NEW e \in batch[r],
             \/ PublishFails(r, e) \/ AckLost(r, e)
             \/ MarkPublished(r, e) \/ MarkFails(r, e)
      PROVE  WindowInv'
  <2>1. NextRow(r, e)
    BY <1>6 DEF PublishFails, AckLost, MarkPublished, MarkFails
  <2>2. UNCHANGED <<outbox, stream, window>>
    BY <1>6 DEF PublishFails, AckLost, MarkPublished, MarkFails
  <2>3. publishedAt \subseteq publishedAt' /\ late' \subseteq late \cup {e}
    BY <1>6 DEF PublishFails, AckLost, MarkPublished, MarkFails
  <2>4. ASSUME NEW f \in outbox, Settled(f) PROVE Settled(f)'
    BY <2>1, <2>3, <2>4, NextRowShrinks DEF Settled
  <2> QED BY <2>2, <2>4 DEF WindowInv, InStream, AtMostOnce
<1>7. ASSUME NEW r \in Relays, Stop(r) PROVE WindowInv'
  <2>1. late' \subseteq late \cup batch[r]
    BY <1>7 DEF Stop, Current
  <2>2. /\ UNCHANGED <<outbox, publishedAt, stream, window>>
        /\ \A q \in Relays : batch'[q] \subseteq batch[q]
    BY <1>7 DEF Stop, TypeOK
  <2> QED BY <2>1, <2>2 DEF WindowInv, InStream, Settled, AtMostOnce
<1>8. ASSUME NEW e \in outbox, LateArrival(e) PROVE WindowInv'
  <2>1. Receive(e) /\ UNCHANGED <<outbox, publishedAt, batch, late>>
    BY <1>8 DEF LateArrival
  <2>2. AtMostOnce'
    BY <1>8, <2>1, ReceiveOnce DEF Settled, LateArrival
  <2> QED BY <2>1, <2>2, ReceiveStores DEF WindowInv, Settled
<1>9. ASSUME NEW e \in outbox, LateGone(e) PROVE WindowInv'
  BY <1>9 DEF LateGone, WindowInv, InStream, Settled, AtMostOnce
<1>10. ASSUME NEW e \in outbox, WindowCloses(e) PROVE WindowInv'
  <2>1. /\ Settled(e) /\ window' = window \ {e.id}
        /\ UNCHANGED <<outbox, publishedAt, batch, stream, late>>
    BY <1>10 DEF WindowCloses
  <2>2. \A f \in outbox : f.id = e.id => f = e
    BY DEF RowsInv
  <2> QED BY <2>1, <2>2 DEF WindowInv, InStream, Settled, AtMostOnce
<1>11. CASE UNCHANGED vars
  BY <1>11 DEF WindowInv, InStream, Settled, AtMostOnce, vars
<1> QED
  BY <1>1, <1>2, <1>3, <1>4, <1>5, <1>6, <1>7, <1>8, <1>9, <1>10, <1>11
     DEF Next, PublishPending, Nats

(***************************************************************************)
(* The inductive invariant, whatever the outages.                          *)
(***************************************************************************)
THEOREM Invariance == Spec => []Inv
<1>1. Init => Inv
  BY TypeInit, RowsInit, CopiesInit, WindowInit DEF Inv
<1>2. Inv /\ [Next]_vars => Inv'
  <2> SUFFICES ASSUME Inv, [Next]_vars PROVE Inv'
    OBVIOUS
  <2>1. TypeOK' /\ RowsInv' /\ CopiesInv'
    BY TypeStep, RowsStep, CopiesStep DEF Inv
  <2>2. ~LongOutages => WindowInv'
    BY WindowStep DEF Inv
  <2> QED BY <2>1, <2>2 DEF Inv
<1> QED BY <1>1, <1>2, PTL DEF Spec

(***************************************************************************)
(* No order is announced twice when the deduplication window outlives      *)
(* outages and stalls, with any number of relays retrying it.              *)
(***************************************************************************)
THEOREM NoDuplicate == ASSUME ~LongOutages PROVE Spec => []AtMostOnce
<1>1. Inv => AtMostOnce
  BY DEF Inv, WindowInv
<1> QED BY <1>1, Invariance, PTL

-----------------------------------------------------------------------------
(* Refinement of OrderEvents *)

(***************************************************************************)
(* The empty stream is the empty log.                                      *)
(***************************************************************************)
LEMMA PromiseInit == Init => Promise!Init
BY DEF Init, Promise!Init

(***************************************************************************)
(* The server stores an event that is not in the stream: an announcement.  *)
(***************************************************************************)
LEMMA ReceiveAnnounces ==
    ASSUME TypeOK, RowsInv, CopiesInv, WindowInv, UNCHANGED orders,
           NEW e \in outbox, ~ Settled(e), Receive(e)
    PROVE  [Promise!Next]_(Promise!vars)
<1> DEFINE log == [i \in DOMAIN stream |-> stream[i].order]
<1>1. e \in Event /\ stream \in Seq(Event) /\ e.order \in orders
  BY DEF TypeOK, RowsInv
<1>2. CASE e.id \in window /\ stream' = stream
  BY <1>2 DEF Promise!vars
<1>3. CASE e.id \notin window /\ stream' = Append(stream, e)
  <2>1. ~ InStream(e)
    BY <1>3 DEF WindowInv
  <2>2. \A i \in DOMAIN stream : stream[i].order # e.order
    BY <2>1 DEF CopiesInv, RowsInv, InStream
  <2>3. e.order \in Orders /\ e.order \in orders \ Promise!Announced
    BY <1>1, <2>2 DEF Promise!Announced, TypeOK
  <2>4. log' = Append(log, e.order)
    <3>1. /\ Len(stream) \in Nat /\ DOMAIN stream = 1..Len(stream)
          /\ DOMAIN stream' = 1..(Len(stream) + 1)
          /\ \A i \in DOMAIN stream : stream'[i] = stream[i]
          /\ stream'[Len(stream) + 1] = e
      BY <1>1, <1>3, AppendStores
    <3>2. \A i \in DOMAIN stream : stream[i].order \in Orders
      <4>1. \A i \in DOMAIN stream : stream[i] \in Event
        BY <1>1, <3>1
      <4> QED BY <4>1 DEF Event
    <3>3. log \in Seq(Orders) /\ Len(log) = Len(stream)
      BY <3>1, <3>2
    <3>4. Append(log, e.order) = [i \in 1..(Len(stream) + 1) |->
             IF i = Len(stream) + 1 THEN e.order ELSE log[i]]
      BY <2>3, <3>1, <3>3
    <3> QED BY <3>1, <3>4
  <2> QED BY <2>3, <2>4 DEF Promise!Next, Promise!Announce
<1> QED BY <1>1, <1>2, <1>3, ReceiveTypes

(***************************************************************************)
(* Commit is the abstract commit, storing an event the abstract            *)
(* announcement, and every other step is invisible to the promise.         *)
(***************************************************************************)
LEMMA PromiseStep ==
    ASSUME ~LongOutages
    PROVE  Inv /\ [Next]_vars => [Promise!Next]_(Promise!vars)
<1> SUFFICES ASSUME Inv, [Next]_vars PROVE [Promise!Next]_(Promise!vars)
  OBVIOUS
<1> USE DEF dbVars, txVars, relayVars, natsVars
<1>1. TypeOK /\ RowsInv /\ CopiesInv /\ WindowInv
  BY DEF Inv
<1>2. ASSUME NEW o \in Orders, Commit(o)
      PROVE  [Promise!Next]_(Promise!vars)
  <2>1. tx[o] = "eventRow" /\ orders' = orders \cup {o} /\ stream' = stream
    BY <1>2 DEF Commit
  <2>2. o \notin orders
    BY <1>1, <2>1 DEF RowsInv
  <2> QED BY <2>1, <2>2 DEF Promise!Next, Promise!Commit
<1>3. ASSUME NEW o \in Orders,
             Begin(o) \/ InsertOrder(o) \/ InsertEvent(o) \/ Rollback(o)
      PROVE  UNCHANGED <<orders, stream>>
  BY <1>3 DEF Begin, InsertOrder, InsertEvent, Rollback
<1>4. ASSUME NEW r \in Relays, NEW e \in batch[r], ServerStores(r, e)
      PROVE  [Promise!Next]_(Promise!vars)
  <2>1. e \in outbox /\ ~ Settled(e) /\ Receive(e) /\ UNCHANGED orders
    BY <1>1, <1>4 DEF ServerStores, CopiesInv, Settled
  <2> QED BY <1>1, <2>1, ReceiveAnnounces
<1>5. ASSUME NEW e \in outbox, LateArrival(e)
      PROVE  [Promise!Next]_(Promise!vars)
  <2>1. ~ Settled(e) /\ Receive(e) /\ UNCHANGED orders
    BY <1>5 DEF LateArrival, Settled
  <2> QED BY <1>1, <2>1, ReceiveAnnounces
<1>6. ASSUME NEW r \in Relays, Start(r) \/ Stop(r) \/ Fetch(r)
      PROVE  UNCHANGED <<orders, stream>>
  BY <1>6 DEF Start, Stop, Fetch
<1>7. ASSUME NEW r \in Relays, NEW e,
             \/ AckArrives(r, e) \/ PublishFails(r, e) \/ AckLost(r, e)
             \/ MarkPublished(r, e) \/ MarkFails(r, e)
      PROVE  UNCHANGED <<orders, stream>>
  BY <1>7 DEF AckArrives, PublishFails, AckLost, MarkPublished, MarkFails
<1>8. ASSUME NEW e, LateGone(e) \/ WindowCloses(e)
      PROVE  UNCHANGED <<orders, stream>>
  BY <1>8 DEF LateGone, WindowCloses
<1>9. CASE UNCHANGED vars
  BY <1>9 DEF vars, Promise!vars
<1>10. ASSUME UNCHANGED <<orders, stream>> PROVE UNCHANGED Promise!vars
  BY <1>10 DEF Promise!vars
<1> QED
  BY <1>2, <1>3, <1>4, <1>5, <1>6, <1>7, <1>8, <1>9, <1>10
     DEF Next, CreateOrder, PublishPending, Nats

(***************************************************************************)
(* When the deduplication window outlives outages and stalls, transactions,*)
(* relays and server together commit each order once and announce only     *)
(* committed orders, each at most once.                                    *)
(***************************************************************************)
THEOREM Refinement == ASSUME ~LongOutages PROVE Spec => ImplementsPromise
<1>1. Inv /\ [Next]_vars => [Promise!Next]_(Promise!vars)
  BY PromiseStep
<1> QED BY <1>1, PromiseInit, Invariance, PTL
        DEF Spec, ImplementsPromise, Promise!Spec

=============================================================================
