--------------------------- MODULE InventoryProofs ---------------------------
(***************************************************************************)
(* Proofs about Inventory for any requests, SKUs and quantities, with and  *)
(* without faults of Redis and Postgres: the stock is what the writes that *)
(* took effect make it, a stale entry has one of three causes, a read that *)
(* no write overlaps is current, and every write is atomic to its caller.  *)
(***************************************************************************)
EXTENDS Inventory, Sums

-----------------------------------------------------------------------------
(* The inductive invariant *)

ReadSteps == {"idle", "lookup", "query", "fill", "late", "done"}
WriteSteps == {"idle", "update", "abandoned", "classify", "invalidate", "done"}

\* Each request follows its own handler, answers at the end of it, and is
\* applied from its UPDATE on.
ProgressInv ==
    \A r \in Requests :
        /\ r \in Reads => pc[r] \in ReadSteps
        /\ r \in Writes => pc[r] \in WriteSteps
        /\ pc[r] \notin {"late", "abandoned", "done"} => reply[r] = "none"
        /\ pc[r] = "done" => reply[r] # "none"
        /\ pc[r] = "late" => reply[r] = "ok"
        /\ pc[r] = "abandoned" => reply[r] = "error"
        /\ pc[r] = "classify" => call[r].op = "reserve"
        /\ pc[r] = "invalidate" => r \in applied
        /\ r \in applied => /\ r \in Writes /\ call[r].sku \in Known
                            /\ pc[r] \in {"invalidate", "done"}
                            /\ reply[r] \in {"none", "ok", "error"}
        /\ r \in Writes /\ reply[r] = "ok" => r \in applied

\* No write to the SKU of a clean read waits to delete the entry, and what the
\* read got from Postgres is still the stock.
CleanInv ==
    \A r \in clean :
        /\ r \in Reads
        /\ \A w \in Writes \cap Of(call[r].sku) : pc[w] # "invalidate"
        /\ pc[r] \in {"fill", "late"} => seen[r] = stock[call[r].sku]

Amount == [r \in Requests |-> call[r].quantity]
Effect(op, s) == {r \in applied \cap Of(s) : call[r].op = op}

\* The stock is what the applied writes make it.
StockInv ==
    /\ IsFiniteSet(applied)
    /\ \A s \in Skus \ Known : stock[s] = 0
    /\ \A s \in Known : stock[s] = InitialStock + SumOf(Amount, Effect("restock", s))
                                                - SumOf(Amount, Effect("reserve", s))

Inv == TypeOK /\ ProgressInv /\ CleanInv /\ StaleExplained /\ StockInv

-----------------------------------------------------------------------------
(* Type correctness *)

(***************************************************************************)
(* A request names a SKU and an operation, and asks for a quantity of it.  *)
(***************************************************************************)
LEMMA Typed ==
    ASSUME TypeOK, NEW r \in Requests
    PROVE  /\ call[r].sku \in Skus
           /\ call[r].op \in {"read", "reserve", "restock"}
           /\ call[r].quantity \in Nat
           /\ call[r].op # "read" => call[r].quantity > 0
           /\ stock[call[r].sku] \in Nat
           /\ r \in Reads \/ r \in Writes
           /\ r \in Reads <=> call[r].op = "read"
           /\ r \in Writes <=> call[r].op # "read"
<1>1. call[r] \in Calls
  BY DEF TypeOK
<1>2. /\ call[r].sku \in Skus
      /\ call[r].op \in {"read", "reserve", "restock"}
      /\ call[r].quantity \in Nat
      /\ call[r].op # "read" => call[r].quantity > 0
  <2> DEFINE c == call[r]
  <2>1. CASE c \in [op : {"read"}, sku : Skus, quantity : {0}]
    BY <2>1
  <2>2. CASE c \in [op : {"reserve", "restock"}, sku : Skus, quantity : Quantities]
    <3>1. c.sku \in Skus /\ c.op \in {"reserve", "restock"} /\ c.quantity \in Quantities
      BY <2>2
    <3>2. c.quantity \in Nat \ {0}
      BY <3>1, QuantityAssumption, Zenon
    <3> QED BY <3>1, <3>2
  <2>3. \/ c \in [op : {"read"}, sku : Skus, quantity : {0}]
        \/ c \in [op : {"reserve", "restock"}, sku : Skus, quantity : Quantities]
    BY <1>1 DEF Calls
  <2> QED BY <2>1, <2>2, <2>3, Zenon
<1>3. stock[call[r].sku] \in Nat
  BY <1>2, StockAssumption DEF TypeOK, Level
<1> QED BY <1>2, <1>3, Zenon DEF Reads, Writes

(***************************************************************************)
(* Every step preserves the types: an UPDATE that would leave the column's *)
(* range fails.                                                            *)
(***************************************************************************)
LEMMA TypeStep == TypeOK /\ [Next]_vars => TypeOK'
<1> SUFFICES ASSUME TypeOK, [Next]_vars PROVE TypeOK'
  OBVIOUS
<1>1. ASSUME NEW r \in Requests, Issue(r) PROVE TypeOK'
  BY <1>1, Typed DEF Issue, Goto, TypeOK, Steps, Replies, Level
<1>2. ASSUME NEW r \in Requests, CacheHit(r) PROVE TypeOK'
  BY <1>2, Typed DEF CacheHit, Answer, Goto, TypeOK, Steps, Replies, Level
<1>3. ASSUME NEW r \in Requests, CacheMiss(r) PROVE TypeOK'
  BY <1>3, Typed DEF CacheMiss, Goto, TypeOK, Steps, Replies, Level
<1>4. ASSUME NEW r \in Requests, Query(r) PROVE TypeOK'
  BY <1>4, Typed DEF Query, Answer, Goto, TypeOK, Steps, Replies, Level
<1>5. ASSUME NEW r \in Requests, Fill(r) PROVE TypeOK'
  BY <1>5, Typed DEF Fill, SetEntry, Answer, Goto, TypeOK, Steps, Replies,
     Level
<1>6. ASSUME NEW r \in Requests, FillFails(r) PROVE TypeOK'
  BY <1>6, Typed DEF FillFails, Goto, TypeOK, Steps, Replies, Level
<1>7. ASSUME NEW r \in Requests, LateFill(r) PROVE TypeOK'
  BY <1>7, Typed DEF LateFill, SetEntry, Goto, TypeOK, Steps, Replies, Level
<1>8. ASSUME NEW r \in Requests, Update(r) PROVE TypeOK'
  <2>1. NewLevel(r) \in Level /\ call[r].sku \in Skus /\ r \in Requests
    BY <1>8, Typed DEF Update, ApplyUpdate
  <2> QED BY <1>8, <2>1 DEF Update, ApplyUpdate, Answer, Goto, TypeOK, Steps, Replies
<1>9. ASSUME NEW r \in Requests, UpdateReplyLost(r) PROVE TypeOK'
  <2>1. NewLevel(r) \in Level /\ call[r].sku \in Skus /\ r \in Requests
    BY <1>9, Typed DEF UpdateReplyLost, ApplyUpdate
  <2> QED BY <1>9, <2>1 DEF UpdateReplyLost, ApplyUpdate, Answer, Goto, TypeOK, Steps, Replies
<1>10. ASSUME NEW r \in Requests, UpdateAbandoned(r) PROVE TypeOK'
  BY <1>10, Typed DEF UpdateAbandoned, Goto, TypeOK, Steps, Replies, Level
<1>11. ASSUME NEW r \in Requests, LateUpdate(r) PROVE TypeOK'
  <2>1. CASE ApplyUpdate(r)
    <3>1. NewLevel(r) \in Level /\ call[r].sku \in Skus /\ r \in Requests
      BY <2>1, Typed DEF ApplyUpdate
    <3> QED BY <1>11, <2>1, <3>1 DEF LateUpdate, ApplyUpdate, Goto, TypeOK, Steps, Replies
  <2>2. CASE UNCHANGED <<stock, applied, clean, debt>>
    BY <1>11, <2>2 DEF LateUpdate, Goto, TypeOK, Steps, Replies
  <2> QED BY <1>11, <2>1, <2>2 DEF LateUpdate
<1>12. ASSUME NEW r \in Requests, UpdateOverflows(r) PROVE TypeOK'
  BY <1>12, Typed DEF UpdateOverflows, Answer, Goto, TypeOK, Steps, Replies,
     Level
<1>13. ASSUME NEW r \in Requests, UpdateNoRow(r) PROVE TypeOK'
  BY <1>13, Typed DEF UpdateNoRow, Answer, Goto, TypeOK, Steps, Replies, Level
<1>14. ASSUME NEW r \in Requests, Classify(r) PROVE TypeOK'
  BY <1>14, Typed DEF Classify, Answer, Goto, TypeOK, Steps, Replies, Level
<1>15. ASSUME NEW r \in Requests, Invalidate(r) PROVE TypeOK'
  BY <1>15, Typed DEF Invalidate, Answer, Goto, TypeOK, Steps, Replies, Level
<1>16. ASSUME NEW r \in Requests, InvalidateFails(r) PROVE TypeOK'
  BY <1>16, Typed DEF InvalidateFails, Answer, Goto, TypeOK, Steps, Replies,
     Level
<1>17. ASSUME NEW r \in Requests, Fail(r) PROVE TypeOK'
  BY <1>17, Typed DEF Fail, Answer, Goto, TypeOK, Steps, Replies, Level
<1>18. ASSUME NEW s \in Skus, Expire(s) PROVE TypeOK'
  BY <1>18, Typed DEF Expire, TypeOK, Steps, Replies, Level
<1>19. CASE UNCHANGED vars
  BY <1>19, Typed DEF vars, TypeOK, Steps, Replies, Level
<1> QED
  BY <1>1, <1>2, <1>3, <1>4, <1>5, <1>6, <1>7, <1>8, <1>9, <1>10, <1>11,
  <1>12, <1>13, <1>14, <1>15, <1>16, <1>17, <1>18, <1>19
     DEF Next, Serve, GetItem, ReserveOrRestock, Quiet

-----------------------------------------------------------------------------
(* Where requests and entries stand *)

(***************************************************************************)
(* A request takes the steps of its handler, one UPDATE at most among      *)
(* them.                                                                   *)
(***************************************************************************)
LEMMA ProgressStep == TypeOK /\ ProgressInv /\ [Next]_vars => ProgressInv'
<1> SUFFICES ASSUME TypeOK, ProgressInv, [Next]_vars PROVE ProgressInv'
  OBVIOUS
<1>1. ASSUME NEW r \in Requests, Issue(r) PROVE ProgressInv'
  BY <1>1, Typed DEF Issue, Goto, ProgressInv, ReadSteps, WriteSteps, Reads,
     Writes, TypeOK, Matches
<1>2. ASSUME NEW r \in Requests, CacheHit(r) PROVE ProgressInv'
  BY <1>2, Typed DEF CacheHit, Answer, Goto, ProgressInv, ReadSteps,
     WriteSteps, Reads, Writes, TypeOK, Matches
<1>3. ASSUME NEW r \in Requests, CacheMiss(r) PROVE ProgressInv'
  BY <1>3, Typed DEF CacheMiss, Goto, ProgressInv, ReadSteps, WriteSteps,
     Reads, Writes, TypeOK, Matches
<1>4. ASSUME NEW r \in Requests, Query(r) PROVE ProgressInv'
  BY <1>4, Typed DEF Query, Answer, Goto, ProgressInv, ReadSteps, WriteSteps,
     Reads, Writes, TypeOK, Matches
<1>5. ASSUME NEW r \in Requests, Fill(r) PROVE ProgressInv'
  BY <1>5, Typed DEF Fill, SetEntry, Answer, Goto, ProgressInv, ReadSteps,
     WriteSteps, Reads, Writes, TypeOK, Matches
<1>6. ASSUME NEW r \in Requests, FillFails(r) PROVE ProgressInv'
  BY <1>6, Typed DEF FillFails, Goto, ProgressInv, ReadSteps, WriteSteps,
     Reads, Writes, TypeOK, Matches
<1>7. ASSUME NEW r \in Requests, LateFill(r) PROVE ProgressInv'
  BY <1>7, Typed DEF LateFill, SetEntry, Goto, ProgressInv, ReadSteps,
     WriteSteps, Reads, Writes, TypeOK, Matches
<1>8. ASSUME NEW r \in Requests, Update(r) PROVE ProgressInv'
  BY <1>8, Typed DEF Update, ApplyUpdate, Goto, ProgressInv, ReadSteps,
     WriteSteps, Reads, Writes, TypeOK, Matches
<1>9. ASSUME NEW r \in Requests, UpdateReplyLost(r) PROVE ProgressInv'
  BY <1>9, Typed DEF UpdateReplyLost, ApplyUpdate, Answer, Goto, ProgressInv,
     ReadSteps, WriteSteps, Reads, Writes, TypeOK, Matches
<1>10. ASSUME NEW r \in Requests, UpdateAbandoned(r) PROVE ProgressInv'
  BY <1>10, Typed DEF UpdateAbandoned, Goto, ProgressInv, ReadSteps,
     WriteSteps, Reads, Writes, TypeOK, Matches
<1>11. ASSUME NEW r \in Requests, LateUpdate(r) PROVE ProgressInv'
  BY <1>11, Typed DEF LateUpdate, ApplyUpdate, Goto, ProgressInv, ReadSteps,
     WriteSteps, Reads, Writes, TypeOK, Matches
<1>12. ASSUME NEW r \in Requests, UpdateOverflows(r) PROVE ProgressInv'
  BY <1>12, Typed DEF UpdateOverflows, Answer, Goto, ProgressInv, ReadSteps,
     WriteSteps, Reads, Writes, TypeOK, Matches
<1>13. ASSUME NEW r \in Requests, UpdateNoRow(r) PROVE ProgressInv'
  BY <1>13, Typed DEF UpdateNoRow, Answer, Goto, ProgressInv, ReadSteps,
     WriteSteps, Reads, Writes, TypeOK, Matches
<1>14. ASSUME NEW r \in Requests, Classify(r) PROVE ProgressInv'
  BY <1>14, Typed DEF Classify, Answer, Goto, ProgressInv, ReadSteps,
     WriteSteps, Reads, Writes, TypeOK, Matches
<1>15. ASSUME NEW r \in Requests, Invalidate(r) PROVE ProgressInv'
  BY <1>15, Typed DEF Invalidate, Answer, Goto, ProgressInv, ReadSteps,
     WriteSteps, Reads, Writes, TypeOK, Matches
<1>16. ASSUME NEW r \in Requests, InvalidateFails(r) PROVE ProgressInv'
  BY <1>16, Typed DEF InvalidateFails, Answer, Goto, ProgressInv, ReadSteps,
     WriteSteps, Reads, Writes, TypeOK, Matches
<1>17. ASSUME NEW r \in Requests, Fail(r) PROVE ProgressInv'
  BY <1>17, Typed DEF Fail, Answer, Goto, ProgressInv, ReadSteps, WriteSteps,
     Reads, Writes, TypeOK, Matches
<1>18. ASSUME NEW s \in Skus, Expire(s) PROVE ProgressInv'
  BY <1>18, Typed DEF Expire, ProgressInv, ReadSteps, WriteSteps, Reads,
  Writes, TypeOK, Matches
<1>19. CASE UNCHANGED vars
  BY <1>19, Typed DEF vars, ProgressInv, ReadSteps, WriteSteps, Reads, Writes,
  TypeOK, Matches
<1> QED
  BY <1>1, <1>2, <1>3, <1>4, <1>5, <1>6, <1>7, <1>8, <1>9, <1>10, <1>11,
  <1>12, <1>13, <1>14, <1>15, <1>16, <1>17, <1>18, <1>19
     DEF Next, Serve, GetItem, ReserveOrRestock, Quiet

(***************************************************************************)
(* An UPDATE takes every read of its SKU out of the clean ones, and none   *)
(* starts clean before the entry is deleted.                               *)
(***************************************************************************)
LEMMA CleanStep == TypeOK /\ ProgressInv /\ CleanInv /\ [Next]_vars => CleanInv'
<1> SUFFICES ASSUME TypeOK, ProgressInv, CleanInv, [Next]_vars PROVE CleanInv'
  OBVIOUS
<1>1. ASSUME NEW r \in Requests, Issue(r) PROVE CleanInv'
  BY <1>1, Typed DEF Issue, Goto, CleanInv, ProgressInv, ReadSteps,
     WriteSteps, Reads, Writes, Of, Open, TypeOK
<1>2. ASSUME NEW r \in Requests, CacheHit(r) PROVE CleanInv'
  BY <1>2, Typed DEF CacheHit, Answer, Goto, CleanInv, ProgressInv, ReadSteps,
     WriteSteps, Reads, Writes, Of, Open, TypeOK
<1>3. ASSUME NEW r \in Requests, CacheMiss(r) PROVE CleanInv'
  BY <1>3, Typed DEF CacheMiss, Goto, CleanInv, ProgressInv, ReadSteps,
     WriteSteps, Reads, Writes, Of, Open, TypeOK
<1>4. ASSUME NEW r \in Requests, Query(r) PROVE CleanInv'
  BY <1>4, Typed DEF Query, Answer, Goto, CleanInv, ProgressInv, ReadSteps,
     WriteSteps, Reads, Writes, Of, Open, TypeOK
<1>5. ASSUME NEW r \in Requests, Fill(r) PROVE CleanInv'
  BY <1>5, Typed DEF Fill, SetEntry, Answer, Goto, CleanInv, ProgressInv,
     ReadSteps, WriteSteps, Reads, Writes, Of, Open, TypeOK
<1>6. ASSUME NEW r \in Requests, FillFails(r) PROVE CleanInv'
  BY <1>6, Typed DEF FillFails, Goto, CleanInv, ProgressInv, ReadSteps,
     WriteSteps, Reads, Writes, Of, Open, TypeOK
<1>7. ASSUME NEW r \in Requests, LateFill(r) PROVE CleanInv'
  BY <1>7, Typed DEF LateFill, SetEntry, Goto, CleanInv, ProgressInv,
     ReadSteps, WriteSteps, Reads, Writes, Of, Open, TypeOK
<1>8. ASSUME NEW r \in Requests, Update(r) PROVE CleanInv'
  BY <1>8, Typed DEF Update, ApplyUpdate, Goto, CleanInv, ProgressInv,
     ReadSteps, WriteSteps, Reads, Writes, Of, Open, TypeOK
<1>9. ASSUME NEW r \in Requests, UpdateReplyLost(r) PROVE CleanInv'
  BY <1>9, Typed DEF UpdateReplyLost, ApplyUpdate, Answer, Goto, CleanInv,
     ProgressInv, ReadSteps, WriteSteps, Reads, Writes, Of, Open, TypeOK
<1>10. ASSUME NEW r \in Requests, UpdateAbandoned(r) PROVE CleanInv'
  BY <1>10, Typed DEF UpdateAbandoned, Goto, CleanInv, ProgressInv, ReadSteps,
     WriteSteps, Reads, Writes, Of, Open, TypeOK
<1>11. ASSUME NEW r \in Requests, LateUpdate(r) PROVE CleanInv'
  BY <1>11, Typed DEF LateUpdate, ApplyUpdate, Goto, CleanInv, ProgressInv,
     ReadSteps, WriteSteps, Reads, Writes, Of, Open, TypeOK
<1>12. ASSUME NEW r \in Requests, UpdateOverflows(r) PROVE CleanInv'
  BY <1>12, Typed DEF UpdateOverflows, Answer, Goto, CleanInv, ProgressInv,
     ReadSteps, WriteSteps, Reads, Writes, Of, Open, TypeOK
<1>13. ASSUME NEW r \in Requests, UpdateNoRow(r) PROVE CleanInv'
  BY <1>13, Typed DEF UpdateNoRow, Answer, Goto, CleanInv, ProgressInv,
     ReadSteps, WriteSteps, Reads, Writes, Of, Open, TypeOK
<1>14. ASSUME NEW r \in Requests, Classify(r) PROVE CleanInv'
  BY <1>14, Typed DEF Classify, Answer, Goto, CleanInv, ProgressInv,
     ReadSteps, WriteSteps, Reads, Writes, Of, Open, TypeOK
<1>15. ASSUME NEW r \in Requests, Invalidate(r) PROVE CleanInv'
  BY <1>15, Typed DEF Invalidate, Answer, Goto, CleanInv, ProgressInv,
     ReadSteps, WriteSteps, Reads, Writes, Of, Open, TypeOK
<1>16. ASSUME NEW r \in Requests, InvalidateFails(r) PROVE CleanInv'
  BY <1>16, Typed DEF InvalidateFails, Answer, Goto, CleanInv, ProgressInv,
     ReadSteps, WriteSteps, Reads, Writes, Of, Open, TypeOK
<1>17. ASSUME NEW r \in Requests, Fail(r) PROVE CleanInv'
  BY <1>17, Typed DEF Fail, Answer, Goto, CleanInv, ProgressInv, ReadSteps,
     WriteSteps, Reads, Writes, Of, Open, TypeOK
<1>18. ASSUME NEW s \in Skus, Expire(s) PROVE CleanInv'
  BY <1>18, Typed DEF Expire, CleanInv, ProgressInv, ReadSteps, WriteSteps,
  Reads, Writes, Of, Open, TypeOK
<1>19. CASE UNCHANGED vars
  BY <1>19, Typed DEF vars, CleanInv, ProgressInv, ReadSteps, WriteSteps,
  Reads, Writes, Of, Open, TypeOK
<1> QED
  BY <1>1, <1>2, <1>3, <1>4, <1>5, <1>6, <1>7, <1>8, <1>9, <1>10, <1>11,
  <1>12, <1>13, <1>14, <1>15, <1>16, <1>17, <1>18, <1>19
     DEF Next, Serve, GetItem, ReserveOrRestock, Quiet

(***************************************************************************)
(* Only a clean read clears a debt by its Set, with the present stock.     *)
(***************************************************************************)
LEMMA StaleStep == TypeOK /\ ProgressInv /\ CleanInv /\ StaleExplained /\ [Next]_vars => StaleExplained'
<1> SUFFICES ASSUME TypeOK, ProgressInv, CleanInv, StaleExplained, [Next]_vars PROVE StaleExplained'
  OBVIOUS
<1>1. ASSUME NEW r \in Requests, Issue(r) PROVE StaleExplained'
  BY <1>1, Typed DEF Issue, Goto, StaleExplained, Fresh, CleanInv,
     ProgressInv, Reads, Writes, Of, TypeOK
<1>2. ASSUME NEW r \in Requests, CacheHit(r) PROVE StaleExplained'
  BY <1>2, Typed DEF CacheHit, Answer, Goto, StaleExplained, Fresh, CleanInv,
     ProgressInv, Reads, Writes, Of, TypeOK
<1>3. ASSUME NEW r \in Requests, CacheMiss(r) PROVE StaleExplained'
  BY <1>3, Typed DEF CacheMiss, Goto, StaleExplained, Fresh, CleanInv,
     ProgressInv, Reads, Writes, Of, TypeOK
<1>4. ASSUME NEW r \in Requests, Query(r) PROVE StaleExplained'
  BY <1>4, Typed DEF Query, Answer, Goto, StaleExplained, Fresh, CleanInv,
     ProgressInv, Reads, Writes, Of, TypeOK
<1>5. ASSUME NEW r \in Requests, Fill(r) PROVE StaleExplained'
  BY <1>5, Typed DEF Fill, SetEntry, Answer, Goto, StaleExplained, Fresh,
     CleanInv, ProgressInv, Reads, Writes, Of, TypeOK
<1>6. ASSUME NEW r \in Requests, FillFails(r) PROVE StaleExplained'
  BY <1>6, Typed DEF FillFails, Goto, StaleExplained, Fresh, CleanInv,
     ProgressInv, Reads, Writes, Of, TypeOK
<1>7. ASSUME NEW r \in Requests, LateFill(r) PROVE StaleExplained'
  BY <1>7, Typed DEF LateFill, SetEntry, Goto, StaleExplained, Fresh,
     CleanInv, ProgressInv, Reads, Writes, Of, TypeOK
<1>8. ASSUME NEW r \in Requests, Update(r) PROVE StaleExplained'
  <2>1. /\ r \in Writes \cap Of(call[r].sku) /\ pc' = [pc EXCEPT ![r] = "invalidate"]
        /\ stock' = [stock EXCEPT ![call[r].sku] = NewLevel(r)]
        /\ UNCHANGED <<cache, call, debt>>
    BY <1>8, Typed DEF Update, ApplyUpdate, Goto, ProgressInv, ReadSteps, Of
  <2> SUFFICES ASSUME NEW s \in Skus
               PROVE  \/ Fresh(s)'
                      \/ s \in debt'
                      \/ \E w \in (Writes \cap Of(s))' : pc'[w] = "invalidate"
    BY DEF StaleExplained
  <2>2. CASE s = call[r].sku
    BY <2>1, <2>2 DEF Writes, Reads, Of, TypeOK
  <2>3. CASE s # call[r].sku
    <3>1. stock'[s] = stock[s]
      BY <2>1, <2>3 DEF TypeOK
    <3>2. \A w \in Requests : pc[w] = "invalidate" => pc'[w] = "invalidate"
      BY <2>1 DEF TypeOK
    <3> QED BY <2>1, <3>1, <3>2 DEF StaleExplained, Fresh, Writes, Reads, Of
  <2> QED BY <2>2, <2>3
<1>9. ASSUME NEW r \in Requests, UpdateReplyLost(r) PROVE StaleExplained'
  BY <1>9, Typed DEF UpdateReplyLost, ApplyUpdate, Answer, Goto,
     StaleExplained, Fresh, CleanInv, ProgressInv, Reads, Writes, Of, TypeOK
<1>10. ASSUME NEW r \in Requests, UpdateAbandoned(r) PROVE StaleExplained'
  BY <1>10, Typed DEF UpdateAbandoned, Goto, StaleExplained, Fresh, CleanInv,
     ProgressInv, Reads, Writes, Of, TypeOK
<1>11. ASSUME NEW r \in Requests, LateUpdate(r) PROVE StaleExplained'
  <2>1. CASE ApplyUpdate(r)
    BY <1>11, <2>1, Typed DEF LateUpdate, ApplyUpdate, Goto, StaleExplained, Fresh,
       ProgressInv, Reads, Writes, Of, TypeOK
  <2>2. CASE UNCHANGED <<stock, applied, clean, debt>>
    BY <1>11, <2>2 DEF LateUpdate, Goto, StaleExplained, Fresh, Reads, Writes, Of, TypeOK
  <2> QED BY <1>11, <2>1, <2>2 DEF LateUpdate
<1>12. ASSUME NEW r \in Requests, UpdateOverflows(r) PROVE StaleExplained'
  BY <1>12, Typed DEF UpdateOverflows, Answer, Goto, StaleExplained, Fresh,
     CleanInv, ProgressInv, Reads, Writes, Of, TypeOK
<1>13. ASSUME NEW r \in Requests, UpdateNoRow(r) PROVE StaleExplained'
  BY <1>13, Typed DEF UpdateNoRow, Answer, Goto, StaleExplained, Fresh,
     CleanInv, ProgressInv, Reads, Writes, Of, TypeOK
<1>14. ASSUME NEW r \in Requests, Classify(r) PROVE StaleExplained'
  BY <1>14, Typed DEF Classify, Answer, Goto, StaleExplained, Fresh, CleanInv,
     ProgressInv, Reads, Writes, Of, TypeOK
<1>15. ASSUME NEW r \in Requests, Invalidate(r) PROVE StaleExplained'
  BY <1>15, Typed DEF Invalidate, Answer, Goto, StaleExplained, Fresh,
     CleanInv, ProgressInv, Reads, Writes, Of, TypeOK
<1>16. ASSUME NEW r \in Requests, InvalidateFails(r) PROVE StaleExplained'
  BY <1>16, Typed DEF InvalidateFails, Answer, Goto, StaleExplained, Fresh,
     CleanInv, ProgressInv, Reads, Writes, Of, TypeOK
<1>17. ASSUME NEW r \in Requests, Fail(r) PROVE StaleExplained'
  BY <1>17, Typed DEF Fail, Answer, Goto, StaleExplained, Fresh, CleanInv,
     ProgressInv, Reads, Writes, Of, TypeOK
<1>18. ASSUME NEW s \in Skus, Expire(s) PROVE StaleExplained'
  BY <1>18, Typed DEF Expire, StaleExplained, Fresh, CleanInv, ProgressInv,
  Reads, Writes, Of, TypeOK
<1>19. CASE UNCHANGED vars
  BY <1>19, Typed DEF vars, StaleExplained, Fresh, CleanInv, ProgressInv,
  Reads, Writes, Of, TypeOK
<1> QED
  BY <1>1, <1>2, <1>3, <1>4, <1>5, <1>6, <1>7, <1>8, <1>9, <1>10, <1>11,
  <1>12, <1>13, <1>14, <1>15, <1>16, <1>17, <1>18, <1>19
     DEF Next, Serve, GetItem, ReserveOrRestock, Quiet

-----------------------------------------------------------------------------
(* The stock *)

(***************************************************************************)
(* An UPDATE adds its own amount to the sum it belongs to, and to no       *)
(* other.                                                                  *)
(***************************************************************************)
LEMMA UpdateAdds ==
    ASSUME TypeOK, ProgressInv, StockInv, NEW r \in Requests,
           pc[r] \in {"update", "abandoned"}, ApplyUpdate(r), call' = call
    PROVE  StockInv'
<1>1. /\ call[r].sku \in Known /\ call[r].op \in {"reserve", "restock"}
      /\ r \notin applied /\ applied' = applied \cup {r}
      /\ NewLevel(r) \in Int
      /\ stock' = [stock EXCEPT ![call[r].sku] = NewLevel(r)]
  BY Typed, StockAssumption DEF ApplyUpdate, Matches, ProgressInv, ReadSteps, Level
<1>2. /\ \A q \in Requests : Amount[q] \in Int
      /\ Amount' = Amount
      /\ Amount[r] = call[r].quantity
  BY Typed DEF Amount
<1>3. ASSUME NEW op, NEW s
      PROVE  /\ IsFiniteSet(Effect(op, s)) /\ Effect(op, s) \subseteq Requests
             /\ r \notin Effect(op, s)
             /\ SumOf(Amount, Effect(op, s)) \in Int
             /\ SumOf(Amount, Effect(op, s) \cup {r})
                   = SumOf(Amount, Effect(op, s)) + Amount[r]
  <2>1. /\ Effect(op, s) \subseteq applied /\ Effect(op, s) \subseteq Requests
        /\ r \notin Effect(op, s)
    BY <1>1 DEF Effect, Of
  <2>2. IsFiniteSet(Effect(op, s))
    BY <2>1, FS_Subset DEF StockInv
  <2>3. \A x \in Effect(op, s) \cup {r} : Amount[x] \in Int
    BY <1>2, <2>1
  <2> HIDE DEF Effect
  <2> QED BY <2>1, <2>2, <2>3, SumAdds
<1>4. ASSUME NEW op, NEW s
      PROVE  Effect(op, s)' = IF op = call[r].op /\ s = call[r].sku
                              THEN Effect(op, s) \cup {r} ELSE Effect(op, s)
  BY <1>1 DEF Effect, Of
<1>5. \A s \in Skus : stock'[s] = IF s = call[r].sku THEN NewLevel(r) ELSE stock[s]
  BY <1>1 DEF TypeOK
<1>6. IsFiniteSet(applied')
  BY <1>1, FS_AddElement DEF StockInv
<1>7. \A s \in Skus \ Known : stock'[s] = 0
  BY <1>1, <1>5 DEF StockInv
<1>8. ASSUME NEW s \in Known
      PROVE  stock'[s] = InitialStock + SumOf(Amount, Effect("restock", s)')
                                      - SumOf(Amount, Effect("reserve", s)')
  <2>1. stock[s] = InitialStock + SumOf(Amount, Effect("restock", s))
                                - SumOf(Amount, Effect("reserve", s))
    BY DEF StockInv
  <2>2. InitialStock \in Int /\ Amount[r] \in Int /\ Amount[r] = call[r].quantity
    BY <1>2, StockAssumption
  <2>3. /\ SumOf(Amount, Effect("restock", s)) \in Int
        /\ SumOf(Amount, Effect("reserve", s)) \in Int
    BY <1>3
  <2>4. CASE s # call[r].sku
    <3>1. /\ Effect("restock", s)' = Effect("restock", s)
          /\ Effect("reserve", s)' = Effect("reserve", s)
      BY <1>4, <2>4
    <3> QED BY <1>5, <2>1, <2>4, <3>1, KnownAssumption
  <2>5. CASE s = call[r].sku /\ call[r].op = "restock"
    <3>1. /\ Effect("restock", s)' = Effect("restock", s) \cup {r}
          /\ Effect("reserve", s)' = Effect("reserve", s)
      BY <1>4, <2>5
    <3>2. SumOf(Amount, Effect("restock", s)') = SumOf(Amount, Effect("restock", s)) + Amount[r]
      BY <1>3, <3>1
    <3>3. stock'[s] = stock[s] + call[r].quantity
      BY <1>5, <2>5, KnownAssumption DEF NewLevel
    <3> QED BY <2>1, <2>2, <2>3, <3>1, <3>2, <3>3
  <2>6. CASE s = call[r].sku /\ call[r].op = "reserve"
    <3>1. /\ Effect("restock", s)' = Effect("restock", s)
          /\ Effect("reserve", s)' = Effect("reserve", s) \cup {r}
      BY <1>4, <2>6
    <3>2. SumOf(Amount, Effect("reserve", s)') = SumOf(Amount, Effect("reserve", s)) + Amount[r]
      BY <1>3, <3>1
    <3>3. stock'[s] = stock[s] - call[r].quantity
      BY <1>5, <2>6, KnownAssumption DEF NewLevel
    <3> QED BY <2>1, <2>2, <2>3, <3>1, <3>2, <3>3
  <2> QED BY <1>1, <2>4, <2>5, <2>6
<1> QED BY <1>2, <1>6, <1>7, <1>8 DEF StockInv

(***************************************************************************)
(* Only an UPDATE that takes effect touches the stock.                     *)
(***************************************************************************)
LEMMA StockStep == TypeOK /\ ProgressInv /\ StockInv /\ [Next]_vars => StockInv'
<1> SUFFICES ASSUME TypeOK, ProgressInv, StockInv, [Next]_vars PROVE StockInv'
  OBVIOUS
<1>1. CASE UNCHANGED <<stock, call, applied>>
  BY <1>1 DEF StockInv, Amount, Effect, Of
<1>2. ASSUME NEW r \in Requests, Update(r) \/ UpdateReplyLost(r) PROVE StockInv'
  BY <1>2, UpdateAdds DEF Update, UpdateReplyLost
<1>3. ASSUME NEW r \in Requests, LateUpdate(r) PROVE StockInv'
  <2>1. CASE ApplyUpdate(r)
    BY <1>3, <2>1, UpdateAdds DEF LateUpdate
  <2>2. CASE UNCHANGED <<stock, applied>>
    BY <1>1, <1>3, <2>2 DEF LateUpdate
  <2> QED BY <1>3, <2>1, <2>2 DEF LateUpdate
<1>4. ASSUME NEW r \in Requests, Issue(r) \/ GetItem(r) \/ Fail(r)
      PROVE  UNCHANGED <<stock, call, applied>>
  BY <1>4 DEF Issue, GetItem, CacheHit, CacheMiss, Query, Fill, FillFails,
              LateFill, Fail
<1>5. ASSUME NEW r \in Requests,
             \/ UpdateAbandoned(r) \/ UpdateOverflows(r) \/ UpdateNoRow(r)
             \/ Classify(r) \/ Invalidate(r) \/ InvalidateFails(r)
      PROVE  UNCHANGED <<stock, call, applied>>
  BY <1>5 DEF UpdateAbandoned, UpdateOverflows, UpdateNoRow, Classify, Invalidate, InvalidateFails
<1>6. ASSUME NEW s \in Skus, Expire(s) PROVE UNCHANGED <<stock, call, applied>>
  BY <1>6 DEF Expire
<1>7. CASE UNCHANGED vars
  BY <1>1, <1>7 DEF vars
<1> QED
  BY <1>1, <1>2, <1>3, <1>4, <1>5, <1>6, <1>7
     DEF Next, Serve, ReserveOrRestock, Quiet

-----------------------------------------------------------------------------
(* Theorems *)

(***************************************************************************)
(* In the initial state nothing is cached, applied or owed.                *)
(***************************************************************************)
LEMMA InvInit == Init => Inv
<1> SUFFICES ASSUME Init PROVE Inv
  OBVIOUS
<1>1. TypeOK
  <2>1. InitialStock \in Level /\ 0 \in Level
    BY StockAssumption DEF Level
  <2> QED BY <2>1 DEF Init, TypeOK, Steps, Replies
<1>2. ProgressInv /\ CleanInv /\ StaleExplained
  BY DEF Init, ProgressInv, ReadSteps, WriteSteps, CleanInv, StaleExplained, Fresh
<1>3. StockInv
  <2>1. IsFiniteSet(applied) /\ \A op, s : Effect(op, s) = {}
    BY FS_EmptySet DEF Init, Effect
  <2>2. \A s \in Known : stock[s] = InitialStock
    BY KnownAssumption DEF Init
  <2>3. SumOf(Amount, {}) = 0
    BY SumEmpty
  <2> QED BY <2>1, <2>2, <2>3, StockAssumption DEF StockInv, Init
<1> QED BY <1>1, <1>2, <1>3 DEF Inv

(***************************************************************************)
(* The inductive invariant of the inventory.                               *)
(***************************************************************************)
THEOREM Invariance == Spec => []Inv
<1>1. Inv /\ [Next]_vars => Inv'
  BY TypeStep, ProgressStep, CleanStep, StaleStep, StockStep DEF Inv
<1> QED BY <1>1, InvInit, PTL DEF Spec

(***************************************************************************)
(* Type correctness: the stock respects the CHECK and the width of its     *)
(* column.                                                                 *)
(***************************************************************************)
THEOREM TypeCorrect == Spec => []TypeOK
<1>1. Inv => TypeOK
  BY DEF Inv
<1> QED BY <1>1, Invariance, PTL

(***************************************************************************)
(* Redis and Postgres differ only while a write is on its way to its Del,  *)
(* or after a Del was lost, or after the Set of a read that a write had    *)
(* overtaken, for any number of requests in any order.                     *)
(***************************************************************************)
THEOREM StaleIsExplained == Spec => []StaleExplained
<1>1. Inv => StaleExplained
  BY DEF Inv
<1> QED BY <1>1, Invariance, PTL

(***************************************************************************)
(* A step that answers a clean read without a debt answers it the stock.   *)
(***************************************************************************)
LEMMA CleanAnswer ==
    ASSUME Inv, [Next]_vars, NEW q \in clean, ReadAnswered(q),
           call[q].sku \notin debt
    PROVE  seen'[q] = stock[call[q].sku]
<1> USE DEF Inv, TypeOK, CleanInv, ReadAnswered
<1>1. ASSUME NEW r \in Requests, CacheHit(r) PROVE seen'[q] = stock[call[q].sku]
  <2>1. r = q /\ seen'[q] = cache[call[q].sku] /\ cache[call[q].sku] # Absent
    BY <1>1 DEF CacheHit, Answer
  <2>2. Fresh(call[q].sku)
    BY Typed DEF StaleExplained
  <2> QED BY <2>1, <2>2 DEF Fresh
<1>2. ASSUME NEW r \in Requests, Fill(r) \/ FillFails(r)
      PROVE  seen'[q] = stock[call[q].sku]
  BY <1>2 DEF Fill, FillFails, Answer
<1>3. ASSUME NEW r \in Requests,
             \/ Issue(r) \/ CacheMiss(r) \/ Query(r) \/ LateFill(r) \/ Fail(r)
      PROVE  FALSE
  BY <1>3 DEF Issue, CacheMiss, Query, LateFill, Fail, Answer
<1>4. ASSUME NEW r \in Requests, ReserveOrRestock(r) PROVE FALSE
  <2>1. r \in Writes /\ r # q
    BY <1>4, Typed DEF ReserveOrRestock, Update, UpdateReplyLost, UpdateAbandoned,
       LateUpdate, UpdateOverflows, UpdateNoRow, Classify, Invalidate, InvalidateFails, ProgressInv, ReadSteps, Writes
  <2> QED BY <1>4, <2>1 DEF ReserveOrRestock, Update, UpdateReplyLost, UpdateAbandoned,
       LateUpdate, UpdateOverflows, UpdateNoRow, Classify, Invalidate, InvalidateFails, Answer
<1>5. ASSUME NEW s \in Skus, Expire(s) PROVE FALSE
  BY <1>5 DEF Expire
<1>6. CASE UNCHANGED vars
  BY <1>6 DEF vars
<1> QED
  BY <1>1, <1>2, <1>3, <1>4, <1>5, <1>6 DEF Next, Serve, GetItem, Quiet

(***************************************************************************)
(* A read that no write to its SKU overlaps returns the stock in Postgres, *)
(* from Redis or not, unless a Del was lost or an overtaken Set came last. *)
(***************************************************************************)
THEOREM CleanReadsAreCurrent == Spec => CleanReadsCurrent
<1>1. Inv /\ [Next]_vars
         => [\A r \in clean : ReadAnswered(r) /\ call[r].sku \notin debt
                               => seen'[r] = stock[call[r].sku]]_vars
  BY CleanAnswer
<1> QED BY <1>1, Invariance, PTL DEF Spec, CleanReadsCurrent

(***************************************************************************)
(* The total StockBacksReplies is about, as a sum of a function.           *)
(***************************************************************************)
LEMMA TotalSum ==
    ASSUME NEW T \in SUBSET Requests, IsFiniteSet(T)
    PROVE  Total(T) = SumOf(Amount, T)
<1> DEFINE Sums(g) == g = [s \in SUBSET T |->
                             IF s = {} THEN 0
                             ELSE LET x == CHOOSE x \in s : TRUE
                                  IN  call[x].quantity + g[s \ {x}]]
           iter == CHOOSE g : Sums(g)
<1>1. Total(T) = iter[T]
  BY DEF Total, MapThenSumSet, MapThenFoldSet
<1>2. \A g : Computes(g, Amount, SUBSET T) <=> Sums(g)
  <2>1. \A s \in SUBSET T :
           s # {} => Amount[Pick(s)] = call[CHOOSE x \in s : TRUE].quantity
    BY DEF Pick, Amount
  <2> QED BY <2>1 DEF Computes, Pick
<1>3. PICK g : Computes(g, Amount, SUBSET T)
  BY SumsExist
<1>4. Sums(iter)
  <2>1. Sums(g)
    BY <1>2, <1>3
  <2> HIDE DEF Sums
  <2> QED BY <2>1
<1>5. Computes(iter, Amount, SUBSET T)
  <2> HIDE DEF iter, Sums
  <2> QED BY <1>2, <1>4
<1>6. SumOf(Amount, T) = iter[T]
  <2> HIDE DEF iter
  <2> QED BY <1>5, SumUnique
<1> QED BY <1>1, <1>6

(***************************************************************************)
(* The stock of a SKU is what it started with, plus the restocks and less  *)
(* the reservations that took effect, and the answers say which did, for   *)
(* any number of concurrent writes that fail or overflow.                  *)
(***************************************************************************)
THEOREM StockMatchesReplies == Spec => []StockBacksReplies
<1>1. Inv => StockBacksReplies
  <2> SUFFICES ASSUME Inv PROVE StockBacksReplies
    OBVIOUS
  <2>1. \A op, s : /\ Effect(op, s) \in SUBSET Requests
                   /\ Effect(op, s) \subseteq applied
                   /\ IsFiniteSet(Effect(op, s))
    BY FS_Subset DEF Effect, Of, Inv, StockInv
  <2>2. \A op, s : Total(Effect(op, s)) = SumOf(Amount, Effect(op, s))
    <3> HIDE DEF Effect
    <3> QED BY <2>1, TotalSum
  <2>3. \A s \in Known :
           stock[s] = InitialStock + Total({r \in applied \cap Of(s) : call[r].op = "restock"})
                                   - Total({r \in applied \cap Of(s) : call[r].op = "reserve"})
    BY <2>2 DEF Effect, Inv, StockInv
  <2>4. \A r \in Writes : /\ reply[r] = "ok" => r \in applied
                          /\ r \in applied => reply[r] \in {"none", "ok", "error"}
    BY DEF Inv, ProgressInv, Writes
  <2> QED BY <2>3, <2>4 DEF StockBacksReplies
<1> QED BY <1>1, Invariance, PTL

-----------------------------------------------------------------------------
(* Refinement of Stock *)

\* What Stock calls the outcome of a request.
Outcome == [r \in Requests |->
              IF r \in applied THEN "applied"
              ELSE IF pc[r] = "classify" THEN "short" ELSE "open"]

(***************************************************************************)
(* A step that neither answers nor applies anything is no step of Stock.   *)
(***************************************************************************)
LEMMA QuietMaps ==
    ASSUME UNCHANGED <<stock, call, reply, applied>>,
           \A q \in Requests : pc'[q] = "classify" <=> pc[q] = "classify"
    PROVE  UNCHANGED Promise!vars
BY DEF Promise!vars

(***************************************************************************)
(* Every answer fits what happened to its request.                         *)
(***************************************************************************)
LEMMA AnswerMaps ==
    ASSUME TypeOK, NEW r \in Requests, NEW outcome,
           reply[r] = "none", outcome \in Promise!Fitting(r),
           reply' = [reply EXCEPT ![r] = outcome],
           \E step \in {"done", "late", "abandoned"} : pc' = [pc EXCEPT ![r] = step],
           UNCHANGED <<stock, call, applied>>
    PROVE  Promise!Next
<1>1. Outcome' = [Outcome EXCEPT ![r] = IF @ = "short" THEN "open" ELSE @]
  BY DEF Outcome, TypeOK
<1> QED BY <1>1 DEF Outcome, Promise!Next, Promise!Answer

(***************************************************************************)
(* An UPDATE that matches its row is the moment at which a write takes     *)
(* effect.                                                                 *)
(***************************************************************************)
LEMMA UpdateMaps ==
    ASSUME TypeOK, ProgressInv, NEW r \in Requests,
           pc[r] \in {"update", "abandoned"}, ApplyUpdate(r), call' = call,
           \E step \in {"invalidate", "done"} : Goto(r, step),
           reply' = reply \/ reply' = [reply EXCEPT ![r] = "error"]
    PROVE  Promise!Next
<1>1. /\ r \in Writes /\ r \notin applied /\ reply[r] \in {"none", "error"}
      /\ call[r].op \in {"reserve", "restock"} /\ call[r].sku \in Known
  BY Typed DEF ApplyUpdate, Matches, ProgressInv, ReadSteps
<1>2. Promise!After(r) = NewLevel(r) /\ Promise!Sku(r) = call[r].sku
  BY <1>1 DEF Promise!After, Promise!Sku, NewLevel
<1>3. Outcome' = [Outcome EXCEPT ![r] = "applied"]
  BY <1>1 DEF ApplyUpdate, Goto, Outcome, TypeOK
<1>4. Outcome[r] = "open"
  BY <1>1 DEF Outcome
<1>5. NewLevel(r) \in 0..MaxInt /\ stock' = [stock EXCEPT ![call[r].sku] = NewLevel(r)]
  BY DEF ApplyUpdate, Level
<1>6. Promise!Apply(r)
  BY <1>1, <1>2, <1>3, <1>4, <1>5 DEF Outcome, Promise!Apply
<1> QED BY <1>6 DEF Promise!Next

(***************************************************************************)
(* A reservation whose UPDATE matches no row of a known SKU is short of    *)
(* stock, and so is any of an unknown one.                                 *)
(***************************************************************************)
LEMMA ShortMaps ==
    ASSUME TypeOK, ProgressInv, StockInv, NEW r \in Requests,
           pc[r] = "update", ~ Matches(r), call[r].op = "reserve",
           Goto(r, "classify"), UNCHANGED <<stock, call, reply, applied>>
    PROVE  Promise!Next
<1>1. /\ r \in Writes /\ r \notin applied /\ reply[r] = "none"
      /\ call[r].sku \in Skus /\ call[r].quantity \in Nat
      /\ call[r].quantity > 0 /\ stock[call[r].sku] \in Nat
  BY Typed DEF ProgressInv
<1>2. stock[call[r].sku] < call[r].quantity
  BY <1>1 DEF Matches, StockInv
<1>3. Promise!After(r) < 0
  BY <1>1, <1>2 DEF Promise!After, Promise!Sku
<1>4. Outcome' = [Outcome EXCEPT ![r] = "short"] /\ Outcome[r] = "open"
  BY <1>1 DEF Outcome, Goto, TypeOK
<1>5. Promise!RunShort(r)
  BY <1>1, <1>3, <1>4 DEF Outcome, Promise!RunShort
<1> QED BY <1>5 DEF Promise!Next

(***************************************************************************)
(* Every step is one of Stock, or none.                                    *)
(***************************************************************************)
LEMMA StepMaps ==
    ASSUME Inv, [Next]_vars
    PROVE  [Promise!Next]_(Promise!vars)
<1> USE DEF Inv
<1>1. ASSUME NEW r \in Requests, Issue(r) \/ CacheMiss(r) \/ LateFill(r)
      PROVE  UNCHANGED Promise!vars
  BY <1>1, QuietMaps DEF Issue, CacheMiss, LateFill, Goto, TypeOK
<1>2. ASSUME NEW r \in Requests, CacheHit(r) \/ Fill(r) \/ FillFails(r)
      PROVE  Promise!Next
  <2>1. r \in Reads /\ reply[r] = "none"
    BY <1>2, Typed DEF CacheHit, Fill, FillFails, ProgressInv, WriteSteps
  <2>2. "ok" \in Promise!Fitting(r)
    BY <2>1 DEF Promise!Fitting, Reads
  <2> QED BY <1>2, <2>1, <2>2, AnswerMaps DEF CacheHit, Fill, FillFails, Answer, Goto
<1>3. ASSUME NEW r \in Requests, Query(r) PROVE [Promise!Next]_(Promise!vars)
  <2>1. CASE call[r].sku \in Known
    BY <1>3, <2>1, QuietMaps DEF Query, Goto, TypeOK
  <2>2. CASE call[r].sku \notin Known
    <3>1. "not_found" \in Promise!Fitting(r) /\ reply[r] = "none"
      BY <1>3, <2>2 DEF Query, ProgressInv, Promise!Fitting, Promise!Sku
    <3> QED BY <1>3, <2>2, <3>1, AnswerMaps DEF Query, Answer, Goto
  <2> QED BY <2>1, <2>2
<1>4. ASSUME NEW r \in Requests, Update(r) \/ UpdateReplyLost(r) PROVE Promise!Next
  BY <1>4, UpdateMaps DEF Update, UpdateReplyLost, Answer, Goto
<1>5. ASSUME NEW r \in Requests, UpdateAbandoned(r) PROVE Promise!Next
  <2>1. "error" \in Promise!Fitting(r) /\ reply[r] = "none"
    BY <1>5 DEF UpdateAbandoned, ProgressInv, Promise!Fitting
  <2> QED BY <1>5, <2>1, AnswerMaps DEF UpdateAbandoned, Goto
<1>6. ASSUME NEW r \in Requests, LateUpdate(r)
       PROVE  [Promise!Next]_(Promise!vars)
  <2>1. CASE ApplyUpdate(r)
    BY <1>6, <2>1, UpdateMaps DEF LateUpdate, Goto
  <2>2. CASE UNCHANGED <<stock, applied>>
    BY <1>6, <2>2, QuietMaps DEF LateUpdate, Goto, TypeOK
  <2> QED BY <1>6, <2>1, <2>2 DEF LateUpdate
<1>7. ASSUME NEW r \in Requests, UpdateOverflows(r) \/ Fail(r) PROVE Promise!Next
  <2>1. "error" \in Promise!Fitting(r) /\ reply[r] = "none"
    BY <1>7 DEF UpdateOverflows, Fail, ProgressInv, Promise!Fitting
  <2> QED BY <1>7, <2>1, AnswerMaps DEF UpdateOverflows, Fail, Answer, Goto
<1>8. ASSUME NEW r \in Requests, UpdateNoRow(r) PROVE Promise!Next
  <2>1. CASE call[r].op = "reserve"
    BY <1>8, <2>1, ShortMaps DEF UpdateNoRow
  <2>2. CASE call[r].op # "reserve"
    <3>1. "not_found" \in Promise!Fitting(r) /\ reply[r] = "none"
      BY <1>8, <2>2 DEF UpdateNoRow, Matches, ProgressInv, Promise!Fitting, Promise!Sku
    <3> QED BY <1>8, <2>2, <3>1, AnswerMaps DEF UpdateNoRow, Answer, Goto
  <2> QED BY <2>1, <2>2
<1>9. ASSUME NEW r \in Requests, Classify(r) PROVE Promise!Next
  <2>1. r \notin applied /\ reply[r] = "none" /\ Outcome[r] = "short"
    BY <1>9 DEF Classify, ProgressInv, Outcome
  <2>2. "insufficient" \in Promise!Fitting(r)
    BY <2>1 DEF Promise!Fitting, Outcome
  <2>3. call[r].sku \notin Known => "not_found" \in Promise!Fitting(r)
    BY DEF Promise!Fitting, Promise!Sku
  <2> QED BY <1>9, <2>1, <2>2, <2>3, AnswerMaps DEF Classify, Answer, Goto
<1>10. ASSUME NEW r \in Requests, Invalidate(r) \/ InvalidateFails(r)
      PROVE  Promise!Next
  <2>1. Outcome[r] = "applied" /\ reply[r] = "none"
    BY <1>10 DEF Invalidate, InvalidateFails, ProgressInv, Outcome
  <2>2. "ok" \in Promise!Fitting(r)
    BY <2>1 DEF Promise!Fitting, Outcome
  <2> QED BY <1>10, <2>1, <2>2, AnswerMaps DEF Invalidate, InvalidateFails, Answer, Goto
<1>11. ASSUME NEW s \in Skus, Expire(s) PROVE UNCHANGED Promise!vars
  BY <1>11, QuietMaps DEF Expire
<1>12. CASE UNCHANGED vars
  BY <1>12, QuietMaps DEF vars
<1> QED
  BY <1>1, <1>2, <1>3, <1>4, <1>5, <1>6, <1>7, <1>8, <1>9,
     <1>10, <1>11, <1>12
     DEF Next, Serve, GetItem, ReserveOrRestock, Quiet

(***************************************************************************)
(* The table behind its cache, with every fault, does what Stock promises: *)
(* a write is atomic to its caller, and refused for want of stock only at  *)
(* a moment at which there is too little.                                  *)
(***************************************************************************)
THEOREM ImplementsPromise == Spec => ImplementsStock
<1>1. Init => Promise!Init
  BY DEF Init, Promise!Init
<1>2. Inv /\ [Next]_vars => [Promise!Next]_(Promise!vars)
  BY StepMaps
<1> QED BY <1>1, <1>2, Invariance, PTL DEF Spec, ImplementsStock, Promise!Spec
=============================================================================
