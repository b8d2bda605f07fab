----------------------------- MODULE Inventory -----------------------------
(***************************************************************************)
(* The stock of the inventory-service: the items table in Postgres, where  *)
(* one conditional UPDATE reserves or restocks, and the CachingStore in    *)
(* front of it, which fills a Redis entry after a read misses and deletes  *)
(* it after a write.  REST and gRPC requests interleave between any two    *)
(* calls; Redis and Postgres calls fail, replies are lost, requests are    *)
(* cancelled and the process dies between a write and its invalidation.    *)
(***************************************************************************)
EXTENDS Integers, FiniteSets, FiniteSetsExt

CONSTANTS
    Requests,      \* the requests in progress at one time or another
    Skus,          \* the SKUs requests name
    Known,         \* those with a row in the items table
    Quantities,    \* the quantities reserved and restocked
    InitialStock,  \* the quantity every known SKU starts with
    MaxInt,        \* the largest value of the INTEGER column quantity
    RedisFaults,   \* TRUE iff Redis calls may fail
    Faults,        \* TRUE iff Postgres calls may fail and requests may die
    Absent         \* no entry in Redis

ASSUME KnownAssumption == Known \subseteq Skus
ASSUME QuantityAssumption == Quantities \subseteq Nat \ {0}
ASSUME StockAssumption == MaxInt \in Nat /\ InitialStock \in 0..MaxInt
ASSUME AbsentAssumption == Absent \notin 0..MaxInt
ASSUME SwitchAssumption == {RedisFaults, Faults} \subseteq BOOLEAN

VARIABLES
    stock,    \* Postgres: the quantity of every SKU, 0 for an unknown one
    cache,    \* Redis: the quantity in the entry of every SKU, or Absent
    call,     \* what each request asks for
    pc,       \* the call each request makes next
    seen,     \* the quantity a request read from Redis or Postgres
    reply,    \* its outcome
    \* History, read by no guard:
    applied,  \* the writes whose UPDATE took effect
    clean,    \* reads of which no write to the same SKU has overlapped a step
    debt      \* SKUs whose entry may be stale with no Del on its way

vars == <<stock, cache, call, pc, seen, reply, applied, clean, debt>>

Level == 0..MaxInt

Calls == [op : {"read"}, sku : Skus, quantity : {0}]
         \cup [op : {"reserve", "restock"}, sku : Skus, quantity : Quantities]

\* "late": the request is answered and its Set may still reach Redis;
\* "abandoned": it is answered and Postgres may still execute its UPDATE.
Steps == {"idle", "lookup", "query", "fill", "late",
          "update", "abandoned", "classify", "invalidate", "done"}

Replies == {"none", "ok", "not_found", "insufficient", "error"}

Reads == {r \in Requests : call[r].op = "read"}
Writes == Requests \ Reads
Of(s) == {r \in Requests : call[r].sku = s}
Open(r) == pc[r] \notin {"idle", "done"}

Init ==
    /\ stock = [s \in Skus |-> IF s \in Known THEN InitialStock ELSE 0]
    /\ cache = [s \in Skus |-> Absent]
    /\ call \in [Requests -> Calls]
    /\ pc = [r \in Requests |-> "idle"]
    /\ seen = [r \in Requests |-> 0]
    /\ reply = [r \in Requests |-> "none"]
    /\ applied = {} /\ clean = {} /\ debt = {}

Goto(r, step) == pc' = [pc EXCEPT ![r] = step]

Answer(r, outcome) == /\ Goto(r, "done")
                      /\ reply' = [reply EXCEPT ![r] = outcome]

Issue(r) ==
    /\ pc[r] = "idle"
    /\ Goto(r, IF r \in Reads THEN "lookup" ELSE "update")
    /\ clean' = IF \E w \in Writes \cap Of(call[r].sku) : Open(w)
                THEN clean
                ELSE clean \cup ({r} \cap Reads)
    /\ UNCHANGED <<stock, cache, call, seen, reply, applied, debt>>

-----------------------------------------------------------------------------
(* CachingStore.GetItem *)

\* Mutant: the cache key does not depend on the SKU.
MutCacheHit(r) ==
    /\ pc[r] = "lookup"
    /\ \E s \in Skus : /\ cache[s] # Absent
                      /\ seen' = [seen EXCEPT ![r] = cache[s]]
    /\ Answer(r, "ok")
    /\ UNCHANGED <<stock, cache, call, applied, clean, debt>>

CacheHit(r) ==
    /\ pc[r] = "lookup"
    /\ cache[call[r].sku] # Absent
    /\ seen' = [seen EXCEPT ![r] = cache[call[r].sku]]
    /\ Answer(r, "ok")
    /\ UNCHANGED <<stock, cache, call, applied, clean, debt>>

\* No entry, or an error of Redis.
CacheMiss(r) ==
    /\ pc[r] = "lookup"
    /\ cache[call[r].sku] = Absent \/ RedisFaults
    /\ Goto(r, "query")
    /\ UNCHANGED <<stock, cache, call, seen, reply, applied, clean, debt>>

Query(r) ==
    /\ pc[r] = "query"
    /\ \/ /\ call[r].sku \in Known
          /\ seen' = [seen EXCEPT ![r] = stock[call[r].sku]]
          /\ Goto(r, "fill")
          /\ UNCHANGED reply
       \/ /\ call[r].sku \notin Known
          /\ Answer(r, "not_found")
          /\ UNCHANGED seen
    /\ UNCHANGED <<stock, cache, call, applied, clean, debt>>

\* The Set of what the query returned, however long ago.
SetEntry(r) ==
    /\ cache' = [cache EXCEPT ![call[r].sku] = seen[r]]
    /\ debt' = IF r \in clean THEN debt \ {call[r].sku}
                              ELSE debt \cup {call[r].sku}

Fill(r) ==
    /\ pc[r] = "fill"
    /\ SetEntry(r)
    /\ Answer(r, "ok")
    /\ UNCHANGED <<stock, call, seen, applied, clean>>

\* The error of Set is ignored, and Redis may execute it later.
FillFails(r) ==
    /\ pc[r] = "fill"
    /\ RedisFaults
    /\ \E step \in {"done", "late"} : Goto(r, step)
    /\ reply' = [reply EXCEPT ![r] = "ok"]
    /\ UNCHANGED <<stock, cache, call, seen, applied, clean, debt>>

LateFill(r) ==
    /\ pc[r] = "late"
    /\ Goto(r, "done")
    /\ SetEntry(r)
    /\ UNCHANGED <<stock, call, seen, reply, applied, clean>>

-----------------------------------------------------------------------------
(* CachingStore.ReserveStock and RestockItem over PostgresStore *)

\* Mutant: the last unit cannot be reserved.
MutMatches(r) ==
    /\ call[r].sku \in Known
    /\ call[r].op = "reserve" => stock[call[r].sku] > call[r].quantity

\* The row the UPDATE matches, and the quantity it leaves.
Matches(r) ==
    /\ call[r].sku \in Known
    /\ call[r].op = "reserve" => stock[call[r].sku] >= call[r].quantity

NewLevel(r) ==
    IF call[r].op = "reserve" THEN stock[call[r].sku] - call[r].quantity
                              ELSE stock[call[r].sku] + call[r].quantity

\* Mutant: the column is wider than INTEGER.
MutApplyUpdate(r) ==
    /\ Matches(r)
    /\ stock' = [stock EXCEPT ![call[r].sku] = NewLevel(r)]
    /\ applied' = applied \cup {r}
    /\ clean' = clean \ Of(call[r].sku)

ApplyUpdate(r) ==
    /\ Matches(r)
    /\ NewLevel(r) \in Level
    /\ stock' = [stock EXCEPT ![call[r].sku] = NewLevel(r)]
    /\ applied' = applied \cup {r}
    /\ clean' = clean \ Of(call[r].sku)

\* Mutant: the write trusts the TTL and leaves the entry alone.
MutUpdate(r) ==
    /\ pc[r] = "update"
    /\ ApplyUpdate(r)
    /\ seen' = [seen EXCEPT ![r] = NewLevel(r)]
    /\ Answer(r, "ok")
    /\ UNCHANGED <<cache, call, debt>>

Update(r) ==
    /\ pc[r] = "update"
    /\ ApplyUpdate(r)
    /\ seen' = [seen EXCEPT ![r] = NewLevel(r)]
    /\ Goto(r, "invalidate")
    /\ UNCHANGED <<cache, call, reply, debt>>

\* Mutant: any error of the UPDATE counts as a lack of stock.
MutUpdateReplyLost(r) ==
    /\ pc[r] = "update"
    /\ Faults
    /\ ApplyUpdate(r)
    /\ debt' = debt \cup {call[r].sku}
    /\ Answer(r, "insufficient")
    /\ UNCHANGED <<cache, call, seen>>

\* The UPDATE is durable and its answer is lost: the store reports an error
\* and never reaches Del.
UpdateReplyLost(r) ==
    /\ pc[r] = "update"
    /\ Faults
    /\ ApplyUpdate(r)
    /\ debt' = debt \cup {call[r].sku}
    /\ Answer(r, "error")
    /\ UNCHANGED <<cache, call, seen>>

\* The context is cancelled, the connection breaks or the process dies with
\* the UPDATE sent: the caller has its error, and Postgres may go on.
UpdateAbandoned(r) ==
    /\ pc[r] = "update"
    /\ Faults
    /\ Goto(r, "abandoned")
    /\ reply' = [reply EXCEPT ![r] = "error"]
    /\ UNCHANGED <<stock, cache, call, seen, applied, clean, debt>>

\* Postgres executes it after all, with no Del to follow, or drops it.
LateUpdate(r) ==
    /\ pc[r] = "abandoned"
    /\ Goto(r, "done")
    /\ \/ ApplyUpdate(r) /\ debt' = debt \cup {call[r].sku}
       \/ UNCHANGED <<stock, applied, clean, debt>>
    /\ UNCHANGED <<cache, call, seen, reply>>

\* quantity + $1 is out of range for an INTEGER.
UpdateOverflows(r) ==
    /\ pc[r] = "update"
    /\ Matches(r)
    /\ NewLevel(r) \notin Level
    /\ Answer(r, "error")
    /\ UNCHANGED <<stock, cache, call, seen, applied, clean, debt>>

\* RETURNING yields no row.  For a reservation a second query tells a missing
\* item from a lack of stock.
UpdateNoRow(r) ==
    /\ pc[r] = "update"
    /\ ~ Matches(r)
    /\ \/ call[r].op = "restock" /\ Answer(r, "not_found")
       \/ call[r].op = "reserve" /\ Goto(r, "classify") /\ UNCHANGED reply
    /\ UNCHANGED <<stock, cache, call, seen, applied, clean, debt>>

\* Only ErrNotFound of the second query makes a difference, any other error
\* counts as a lack of stock.
Classify(r) ==
    /\ pc[r] = "classify"
    /\ \/ call[r].sku \notin Known /\ Answer(r, "not_found")
       \/ (call[r].sku \in Known \/ Faults) /\ Answer(r, "insufficient")
    /\ UNCHANGED <<stock, cache, call, seen, applied, clean, debt>>

Invalidate(r) ==
    /\ pc[r] = "invalidate"
    /\ cache' = [cache EXCEPT ![call[r].sku] = Absent]
    /\ debt' = debt \ {call[r].sku}
    /\ Answer(r, "ok")
    /\ UNCHANGED <<stock, call, seen, applied, clean>>

\* The result of Del is ignored.  One that Redis executes later has the effect
\* of Expire.
InvalidateFails(r) ==
    /\ pc[r] = "invalidate"
    /\ RedisFaults
    /\ debt' = debt \cup {call[r].sku}
    /\ Answer(r, "ok")
    /\ UNCHANGED <<stock, cache, call, seen, applied, clean>>

-----------------------------------------------------------------------------

\* A statement fails with nothing changed, the client hangs up, or the process
\* dies: the request ends here, before the Del of a write that took effect.
Fail(r) ==
    /\ Faults
    /\ pc[r] \in {"lookup", "query", "fill", "update", "classify", "invalidate"}
    /\ debt' = IF pc[r] = "invalidate" THEN debt \cup {call[r].sku} ELSE debt
    /\ Answer(r, "error")
    /\ UNCHANGED <<stock, cache, call, seen, applied, clean>>

\* Mutant: the entry is set without an expiration.
MutExpire(s) == s \notin Skus /\ UNCHANGED vars

\* The entry reaches its TTL of 30 seconds.
Expire(s) ==
    /\ cache[s] # Absent
    /\ cache' = [cache EXCEPT ![s] = Absent]
    /\ debt' = debt \ {s}
    /\ UNCHANGED <<stock, call, pc, seen, reply, applied, clean>>

GetItem(r) ==
    CacheHit(r) \/ CacheMiss(r) \/ Query(r) \/ Fill(r) \/ FillFails(r) \/ LateFill(r)

ReserveOrRestock(r) ==
    \/ Update(r) \/ UpdateReplyLost(r) \/ UpdateAbandoned(r) \/ LateUpdate(r)
    \/ UpdateOverflows(r) \/ UpdateNoRow(r)
    \/ Classify(r) \/ Invalidate(r) \/ InvalidateFails(r)

Serve(r) == GetItem(r) \/ ReserveOrRestock(r) \/ Fail(r)

\* Every request answered and every entry expired: nothing is left to do.
Quiet == /\ \A r \in Requests : pc[r] = "done"
         /\ \A s \in Skus : cache[s] = Absent
         /\ UNCHANGED vars

Next == \/ \E r \in Requests : Issue(r) \/ Serve(r)
        \/ \E s \in Skus : Expire(s)
        \/ Quiet

Spec == Init /\ [][Next]_vars

(***************************************************************************)
(* A request that is being served takes its next step, Redis expires keys. *)
(***************************************************************************)
FairSpec == /\ Spec
            /\ \A r \in Requests : WF_vars(Serve(r))
            /\ \A s \in Skus : WF_vars(Expire(s))
-----------------------------------------------------------------------------
(* Properties *)

(***************************************************************************)
(* Every variable ranges over the values the code can give it; the stock   *)
(* respects the CHECK and the width of its column.                         *)
(***************************************************************************)
TypeOK ==
    /\ stock \in [Skus -> Level]
    /\ cache \in [Skus -> Level \cup {Absent}]
    /\ call \in [Requests -> Calls]
    /\ pc \in [Requests -> Steps]
    /\ seen \in [Requests -> Level]
    /\ reply \in [Requests -> Replies]
    /\ applied \subseteq Requests
    /\ clean \subseteq Requests
    /\ debt \subseteq Skus

Fresh(s) == cache[s] \in {Absent, stock[s]}

(***************************************************************************)
(* A stale entry is always on account of something CachingStore lets       *)
(* happen: a write is still on its way to its Del, or a Del was lost, or a *)
(* Set came from a read that a write had overtaken.  No other interleaving *)
(* leaves Redis and Postgres apart.                                        *)
(***************************************************************************)
StaleExplained ==
    \A s \in Skus :
        \/ Fresh(s)
        \/ s \in debt
        \/ \E w \in Writes \cap Of(s) : pc[w] = "invalidate"

ReadAnswered(r) == /\ r \in Reads
                   /\ reply[r] = "none" /\ reply'[r] = "ok"

(***************************************************************************)
(* A read that no write to its SKU overlaps returns the stock in Postgres, *)
(* from Redis or not, unless an earlier Del was lost or an overtaken Set   *)
(* came last.                                                              *)
(***************************************************************************)
CleanReadsCurrent ==
    [][\A r \in clean : ReadAnswered(r) /\ call[r].sku \notin debt
                         => seen'[r] = stock[call[r].sku]]_vars

(***************************************************************************)
(* What the comment on CachingStore says: stock is never served stale.  A  *)
(* read that starts after every write to its SKU was answered and left     *)
(* Postgres, and during which none takes effect, returns the stock there.  *)
(***************************************************************************)
NeverStale ==
    [][\A r \in clean : ReadAnswered(r) => seen'[r] = stock[call[r].sku]]_vars

Total(writes) == MapThenSumSet(LAMBDA r : call[r].quantity, writes)

(***************************************************************************)
(* No overselling: the quantity of a SKU is what it started with, plus the *)
(* restocks and less the reservations that took effect, each once.  Every  *)
(* write answered ok took effect, none refused did, and one answered with  *)
(* an error may have, however requests interleave and fail.                *)
(***************************************************************************)
StockBacksReplies ==
    /\ \A s \in Known :
          LET Done(op) == {r \in applied \cap Of(s) : call[r].op = op}
          IN  stock[s] = InitialStock + Total(Done("restock"))
                                      - Total(Done("reserve"))
    /\ \A r \in Writes : /\ reply[r] = "ok" => r \in applied
                         /\ r \in applied => reply[r] \in {"none", "ok", "error"}

\* A request is short of stock once its UPDATE has matched no row.
Promise == INSTANCE Stock WITH
    outcome <- [r \in Requests |->
                  IF r \in applied THEN "applied"
                  ELSE IF pc[r] = "classify" THEN "short" ELSE "open"]

(***************************************************************************)
(* Each write is atomic to its caller: the UPDATE is its one moment, and   *)
(* the answer, after the second query, the Del and every fault, fits what  *)
(* the stock was then.  Only a write answered with an error may have that  *)
(* moment after its answer.                                                *)
(***************************************************************************)
ImplementsStock == Promise!Spec

(***************************************************************************)
(* Whatever calls were lost, Redis and Postgres agree again once no more   *)
(* requests come: the TTL bounds every staleness.                          *)
(***************************************************************************)
EventuallyFresh == <>[](\A s \in Skus : Fresh(s))
=============================================================================
