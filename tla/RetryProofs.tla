----------------------------- MODULE RetryProofs -----------------------------
(***************************************************************************)
(* Proofs about Retry for any width of a duration and any configurations:  *)
(* the wait is the one the comment of backoffDelay computes, whatever      *)
(* overflows, and a cancelled context stops the calls.                     *)
(***************************************************************************)
EXTENDS Retry, Sums

-----------------------------------------------------------------------------
(* Powers of two *)

(***************************************************************************)
(* What the library knows of powers of two: they count subsets.            *)
(***************************************************************************)
LEMMA PowerCounts ==
    ASSUME NEW n \in Nat
    PROVE  /\ IsFiniteSet(SUBSET (1..n))
           /\ Cardinality(SUBSET (1..n)) = 2^n
           /\ 2^n \in Nat
<1>1. IsFiniteSet(1..n) /\ Cardinality(1..n) = n
  BY FS_Interval
<1>2. IsFiniteSet(SUBSET (1..n)) /\ Cardinality(SUBSET (1..n)) = 2^n
  BY <1>1, FS_SUBSET
<1> QED BY <1>2, FS_CardinalityType

(***************************************************************************)
(* A further element doubles the number of subsets.                        *)
(***************************************************************************)
LEMMA PowerDoubles ==
    ASSUME NEW n \in Nat
    PROVE  2^(n + 1) = 2 * 2^n
<1> DEFINE Old == SUBSET (1..n)
           New == {s \cup {n + 1} : s \in Old}
           f == [s \in Old |-> s \cup {n + 1}]
<1>1. SUBSET (1..(n + 1)) = Old \cup New
  <2>1. 1..(n + 1) = (1..n) \cup {n + 1}
    OBVIOUS
  <2>2. ASSUME NEW s \in SUBSET (1..(n + 1)) PROVE s \in Old \cup New
    <3>1. CASE n + 1 \in s
      <4>1. s \ {n + 1} \in Old /\ s = (s \ {n + 1}) \cup {n + 1}
        BY <2>1, <3>1
      <4> QED BY <4>1
    <3>2. CASE n + 1 \notin s
      BY <2>1, <3>2
    <3> QED BY <3>1, <3>2
  <2>3. Old \cup New \subseteq SUBSET (1..(n + 1))
    BY <2>1
  <2> QED BY <2>2, <2>3
<1>2. n + 1 \notin 1..n
  OBVIOUS
<1>3. Old \cap New = {}
  BY <1>2
<1>4. f \in Bijection(Old, New)
  <2>1. f \in [Old -> New]
    OBVIOUS
  <2>2. \A s, t \in Old : f[s] = f[t] => s = t
    <3>1. \A s \in Old : f[s] \ {n + 1} = s
      BY <1>2
    <3> HIDE DEF f
    <3> QED BY <3>1
  <2>3. \A t \in New : \E s \in Old : f[s] = t
    OBVIOUS
  <2> HIDE DEF f, Old, New
  <2> QED BY <2>1, <2>2, <2>3 DEF Bijection, Injection, Surjection, IsInjective
<1>5. PICK p \in Nat : IsFiniteSet(Old) /\ Cardinality(Old) = p /\ p = 2^n
  BY PowerCounts
<1>6. IsFiniteSet(New) /\ Cardinality(New) = p
  <2> HIDE DEF f, Old, New
  <2> QED BY <1>4, <1>5, FS_Bijection DEF ExistsBijection
<1>7. Cardinality(Old \cup New) = p + p
  <2>1. Cardinality({}) = 0
    BY FS_EmptySet
  <2> HIDE DEF Old, New
  <2>2. IsFiniteSet(Old) /\ Cardinality(Old) = p
    BY <1>5
  <2>3. Cardinality(Old \cup New) = Cardinality(Old) + Cardinality(New) - Cardinality({})
    BY <1>3, <1>6, <2>2, FS_Union
  <2> QED BY <1>6, <2>1, <2>2, <2>3
<1>8. Cardinality(SUBSET (1..(n + 1))) = 2^(n + 1)
  <2>1. n + 1 \in Nat
    OBVIOUS
  <2> QED BY <2>1, PowerCounts, Zenon
<1>9. 2^(n + 1) = p + p
  <2> HIDE DEF Old, New
  <2> QED BY <1>1, <1>7, <1>8, Zenon
<1> QED BY <1>5, <1>9

(***************************************************************************)
(* Powers of two are positive.                                             *)
(***************************************************************************)
LEMMA PowerPositive == \A n \in Nat : 2^n \in Nat \ {0}
<1> DEFINE C == {n \in Nat : 2^n \in Nat \ {0}}
<1>1. 0 \in C
  OBVIOUS
<1>2. ASSUME NEW n \in Nat, n \in C PROVE n + 1 \in C
  <2>1. PICK p \in Nat \ {0} : p = 2^n
    BY <1>2
  <2>2. 2^(n + 1) = 2 * p
    BY <2>1, PowerDoubles
  <2>3. 2 * p \in Nat \ {0} /\ n + 1 \in Nat
    OBVIOUS
  <2> QED BY <2>2, <2>3, Zenon
<1>3. Nat \subseteq C
  <2> HIDE DEF C
  <2> QED BY <1>1, <1>2, SetInduction
<1> QED BY <1>3, Zenon

(***************************************************************************)
(* Powers of two multiply as their exponents add.                          *)
(***************************************************************************)
LEMMA PowerAdds == \A m, n \in Nat : 2^(m + n) = 2^m * 2^n
<1> SUFFICES ASSUME NEW m \in Nat PROVE \A n \in Nat : 2^(m + n) = 2^m * 2^n
  OBVIOUS
<1> DEFINE C == {n \in Nat : 2^(m + n) = 2^m * 2^n}
<1>0. PICK q \in Nat : q = 2^m
  BY PowerPositive
<1>1. 0 \in C
  <2>1. m + 0 = m /\ 2^0 = 1 /\ q * 1 = q
    OBVIOUS
  <2>2. 0 \in Nat
    OBVIOUS
  <2> QED BY <1>0, <2>1, <2>2, Zenon
<1>2. ASSUME NEW n \in Nat, n \in C PROVE n + 1 \in C
  <2>1. PICK p \in Nat : p = 2^n
    BY PowerPositive
  <2>2. 2^(m + n) = q * p
    BY <1>0, <1>2, <2>1, Zenon
  <2>3. 2^(n + 1) = 2 * p
    BY <2>1, PowerDoubles, Zenon
  <2>4. 2^((m + n) + 1) = 2 * (q * p)
    <3>1. m + n \in Nat
      OBVIOUS
    <3> QED BY <2>2, <3>1, PowerDoubles, Zenon
  <2>5. (m + n) + 1 = m + (n + 1) /\ 2 * (q * p) = q * (2 * p) /\ n + 1 \in Nat
    OBVIOUS
  <2> QED BY <1>0, <2>3, <2>4, <2>5, Zenon
<1>3. Nat \subseteq C
  <2> HIDE DEF C
  <2> QED BY <1>1, <1>2, SetInduction
<1> QED BY <1>3, Zenon

-----------------------------------------------------------------------------
(* Integers of Width bits *)

(***************************************************************************)
(* The remainder, as the difference to a multiple.                         *)
(***************************************************************************)
LEMMA Remainder ==
    ASSUME NEW n \in Int, NEW d \in Nat \ {0}
    PROVE  /\ n % d \in 0..(d - 1)
           /\ 0 <= n /\ n < d => n % d = n
           /\ \E j \in Int : n % d = n - d * j
<1>1. n \div d \in Int /\ n % d = n - d * (n \div d)
  OBVIOUS
<1>2. n % d \in 0..(d - 1) /\ (0 <= n /\ n < d => n % d = n)
  OBVIOUS
<1> QED BY <1>1, <1>2

Half == 2^(Width - 1)

(***************************************************************************)
(* Half of the integers of Width bits are negative.                        *)
(***************************************************************************)
LEMMA HalfOfFull == Half \in Nat \ {0} /\ 2^Width = 2 * Half
<1>1. Width - 1 \in Nat /\ (Width - 1) + 1 = Width
  BY WidthAssumption
<1> QED BY <1>1, PowerPositive, PowerDoubles, Zenon DEF Half

(***************************************************************************)
(* Wrapping leaves alone what fits, and keeps the rest modulo the width.   *)
(***************************************************************************)
LEMMA WrapShape ==
    ASSUME NEW n \in Int
    PROVE  /\ Wrap(n) \in Int
           /\ -Half <= n /\ n < Half => Wrap(n) = n
           /\ \E j \in Int : Wrap(n) = n - 2 * Half * j
<1>1. Wrap(n) = ((n + Half) % (2 * Half)) - Half
  BY HalfOfFull, Zenon DEF Wrap, Half
<1>2. PICK h \in Nat \ {0} : h = Half
  BY HalfOfFull
<1>3. n + h \in Int /\ 2 * h \in Nat \ {0}
  OBVIOUS
<1>4. /\ (n + h) % (2 * h) \in Int
      /\ 0 <= n + h /\ n + h < 2 * h => (n + h) % (2 * h) = n + h
      /\ \E j \in Int : (n + h) % (2 * h) = (n + h) - (2 * h) * j
  <2>1. (n + h) % (2 * h) \in Int
    BY <1>3
  <2>2. /\ 0 <= n + h /\ n + h < 2 * h => (n + h) % (2 * h) = n + h
        /\ \E j \in Int : (n + h) % (2 * h) = (n + h) - (2 * h) * j
    BY <1>3, Remainder, Zenon
  <2> QED BY <2>1, <2>2
<1>5. PICK w \in Int : w = (n + h) % (2 * h)
  BY <1>4
<1>6. PICK j \in Int : w = (n + h) - (2 * h) * j
  BY <1>4, <1>5
<1>7. Wrap(n) = w - h
  BY <1>1, <1>2, <1>5, Zenon
<1>8. w - h \in Int /\ w - h = n - 2 * h * j
  BY <1>6
<1>9. -h <= n /\ n < h => w - h = n
  BY <1>4, <1>5
<1> QED BY <1>2, <1>7, <1>8, <1>9, Zenon

(***************************************************************************)
(* The bit of the shift: at its place, at the sign, or shifted out.        *)
(***************************************************************************)
LEMMA ShiftShape ==
    ASSUME NEW k \in Nat
    PROVE  /\ k >= Width => Shift(k) = 0
           /\ k < Width => \E r \in Nat \ {0} :
                 /\ Half = 2^k * r
                 /\ Shift(k) = IF r = 1 THEN -(2^k) ELSE 2^k
<1>1. ASSUME k >= Width PROVE Shift(k) = 0
  BY <1>1, WidthAssumption DEF Shift
<1>2. ASSUME k < Width
      PROVE  \E r \in Nat \ {0} :
                 /\ Half = 2^k * r
                 /\ Shift(k) = IF r = 1 THEN -(2^k) ELSE 2^k
  <2>1. PICK m \in Nat : m = (Width - 1) - k
    BY <1>2, WidthAssumption
  <2>2. PICK q \in Nat \ {0} : q = 2^k
    BY PowerPositive
  <2>3. PICK r \in Nat \ {0} : r = 2^m
    BY PowerPositive
  <2>4. Half = q * r
    <3>1. k + m = Width - 1
      BY <2>1, WidthAssumption
    <3> QED BY <2>2, <2>3, <3>1, PowerAdds, Zenon DEF Half
  <2>5. Shift(k) = Wrap(q)
    BY <1>2, <2>2, Zenon DEF Shift
  <2>6. CASE r = 1
    <3>1. Wrap(q) = -q
      <4>1. Wrap(q) = ((Half + Half) % (2 * Half)) - Half
        BY <2>4, <2>6, HalfOfFull DEF Wrap, Half
      <4> QED BY <2>4, <2>6, <4>1
    <3> QED BY <2>2, <2>4, <2>5, <2>6, <3>1, Zenon
  <2>7. CASE r # 1
    <3>1. q < q * r /\ -(q * r) <= q
      BY <2>7
    <3>2. Wrap(q) = q
      BY <2>4, <3>1, WrapShape
    <3> QED BY <2>2, <2>4, <2>5, <2>7, <3>2, Zenon
  <2> QED BY <2>6, <2>7
<1> QED BY <1>1, <1>2

-----------------------------------------------------------------------------
(* The cap of a wait *)

(***************************************************************************)
(* The product is right when it fits; if not it is at least a multiple of  *)
(* the power of two.                                                       *)
(***************************************************************************)
LEMMA ProductShape ==
    ASSUME NEW c \in Configs, NEW k \in Nat
    PROVE  /\ Product(c, k) \in Int
           /\ k >= Width => Product(c, k) = 0
           /\ k < Width => /\ \E j \in Int : Product(c, k) = 2^k * j
                           /\ -Half <= c.baseDelay * 2^k /\ c.baseDelay * 2^k < Half
                                 => Product(c, k) = c.baseDelay * 2^k
<1>1. PICK b \in Int : b = c.baseDelay
  BY ConfigAssumption
<1>2. PICK q \in Nat \ {0} : q = 2^k
  BY PowerPositive
<1>3. PICK h \in Nat \ {0} : h = Half
  BY HalfOfFull
<1>4. ASSUME k >= Width PROVE Product(c, k) = 0
  <2>1. Product(c, k) = Wrap(b * 0) /\ b * 0 = 0
    BY <1>1, <1>4, ShiftShape DEF Product
  <2> QED BY <1>3, <2>1, WrapShape
<1>5. ASSUME k < Width
      PROVE  /\ Product(c, k) \in Int
             /\ \E j \in Int : Product(c, k) = q * j
             /\ -h <= b * q /\ b * q < h => Product(c, k) = b * q
  <2>1. PICK r \in Nat \ {0} : h = q * r /\ Shift(k) = IF r = 1 THEN -q ELSE q
    BY <1>2, <1>3, <1>5, ShiftShape
  <2>2. PICK s \in {-1, 1} : Shift(k) = s * q /\ (r # 1 => s = 1)
    BY <2>1
  <2>3. Product(c, k) = Wrap(b * (s * q)) /\ b * (s * q) \in Int
    BY <1>1, <2>2 DEF Product
  <2>4. PICK i \in Int : Wrap(b * (s * q)) = b * (s * q) - 2 * h * i
    BY <1>3, <2>3, WrapShape
  <2>5. b * (s * q) - 2 * h * i = q * (b * s - 2 * r * i) /\ b * s - 2 * r * i \in Int
    BY <2>1
  <2>6. ASSUME -h <= b * q, b * q < h PROVE Wrap(b * (s * q)) = b * q
    <3>1. CASE s = 1
      BY <1>3, <2>6, <3>1, WrapShape
    <3>2. CASE s = -1
      <4>1. r = 1 /\ h = q
        BY <2>1, <2>2, <3>2
      <4>2. b \in {-1, 0}
        BY <2>6, <4>1
      <4>3. CASE b = 0
        BY <1>3, <3>2, <4>3, WrapShape
      <4>4. CASE b = -1
        <5>1. b * (s * q) = h /\ b * q = -h
          BY <3>2, <4>1, <4>4
        <5>2. Wrap(h) = ((h + h) % (2 * h)) - h
          BY <1>3, HalfOfFull, Zenon DEF Wrap, Half
        <5>3. (h + h) % (2 * h) = 0
          OBVIOUS
        <5> QED BY <5>1, <5>2, <5>3
      <4> QED BY <4>2, <4>3, <4>4
    <3> QED BY <3>1, <3>2
  <2>7. Product(c, k) = q * (b * s - 2 * r * i)
    BY <2>3, <2>4, <2>5, Zenon
  <2>8. q * (b * s - 2 * r * i) \in Int
    BY <2>5
  <2> QED BY <2>3, <2>5, <2>6, <2>7, <2>8, Zenon
<1>6. 0 \in Int /\ (k >= Width <=> ~ (k < Width))
  BY WidthAssumption
<1> QED BY <1>1, <1>2, <1>3, <1>4, <1>5, <1>6, Zenon

(***************************************************************************)
(* What the comment of backoffDelay computes is what the code computes, or *)
(* there is no wait at all.                                                *)
(***************************************************************************)
LEMMA CapIsIdeal ==
    ASSUME NEW c \in Configs, NEW k \in Nat
    PROVE  /\ Ideal(c, k) \in Nat /\ Cap(c, k) \in Int
           /\ Cap(c, k) > 0 => Cap(c, k) = Ideal(c, k)
           /\ Cap(c, k) <= 0 => Ideal(c, k) = 0
           /\ Ideal(c, 0) >= 2 => Ideal(c, k) >= 2
<1>1. PICK b \in Int : b = c.baseDelay
  BY ConfigAssumption
<1>2. PICK l \in Int : l = c.maxDelay
  BY ConfigAssumption
<1>3. PICK q \in Nat \ {0} : q = 2^k
  BY PowerPositive
<1>4. PICK h \in Nat \ {0} : h = Half
  BY HalfOfFull
<1>5. PICK p \in Int : p = Product(c, k)
  BY ProductShape
<1>6. l > 0 => b * l < h /\ (-b) * l < h
  BY <1>1, <1>2, <1>4, ConfigAssumption DEF Safe, Half
<1>7. /\ k >= Width => p = 0
      /\ k < Width => /\ \E j \in Int : p = q * j
                      /\ -h <= b * q /\ b * q < h => p = b * q
  BY <1>1, <1>3, <1>4, <1>5, ProductShape
<1>8. k >= Width => q >= h
  <2> SUFFICES ASSUME k >= Width PROVE q >= h
    OBVIOUS
  <2>1. PICK m \in Nat : m = k - (Width - 1)
    BY WidthAssumption
  <2>2. PICK r \in Nat \ {0} : r = 2^m
    BY PowerPositive
  <2>3. Width - 1 \in Nat /\ (Width - 1) + m = k
    BY <2>1, WidthAssumption
  <2>4. q = h * r
    BY <1>3, <1>4, <2>2, <2>3, PowerAdds, Zenon DEF Half
  <2> QED BY <2>4
<1>9. Ideal(c, k) = IF l <= 0 THEN 0
                    ELSE IF b <= 0 THEN l
                    ELSE IF b * q < l THEN b * q ELSE l
  BY <1>1, <1>2, <1>3 DEF Ideal
<1>10. Ideal(c, 0) = IF l <= 0 THEN 0
                     ELSE IF b <= 0 THEN l
                     ELSE IF b < l THEN b ELSE l
  BY <1>1, <1>2 DEF Ideal
<1>11. Cap(c, k) = IF p \in 1..l THEN p ELSE l
  BY <1>2, <1>5 DEF Cap
<1>12. b > 0 => b * q \in Nat /\ b * q >= b /\ b * q >= q
  OBVIOUS
<1>13. ASSUME l > 0
       PROVE  Cap(c, k) = Ideal(c, k)
  <2>1. b > 0 => l < h
    BY <1>6, <1>13
  <2>2. CASE b > 0 /\ b * q < h
    <3>1. k < Width
      BY <1>8, <1>12, <2>2, WidthAssumption
    <3>2. p = b * q
      BY <1>4, <1>7, <1>12, <2>2, <3>1
    <3> QED BY <1>9, <1>11, <1>12, <1>13, <2>2, <3>2
  <2>3. CASE ~ (b > 0 /\ b * q < h)
    <3>1. p \notin 1..l
      <4> SUFFICES ASSUME p \in 1..l PROVE FALSE
        OBVIOUS
      <4>1. k < Width
        BY <1>7, WidthAssumption
      <4>2. PICK j \in Int : p = q * j
        BY <1>7, <4>1
      <4>3. j >= 1
        BY <4>2
      <4>4. p >= q
        BY <4>2, <4>3
      <4>5. q <= l
        BY <4>4
      <4>6. CASE b > 0
        <5>1. b * q <= b * l
          BY <4>5, <4>6
        <5> QED BY <1>6, <1>13, <2>3, <4>6, <5>1
      <4>7. CASE b <= 0
        <5>1. (-b) * q <= (-b) * l
          BY <4>5, <4>7
        <5>2. -h <= b * q /\ b * q <= 0
          BY <1>6, <1>13, <4>7, <5>1
        <5>3. p = b * q
          BY <1>7, <4>1, <5>2
        <5> QED BY <5>2, <5>3
      <4> QED BY <4>6, <4>7
    <3>2. Cap(c, k) = l
      BY <1>11, <3>1
    <3>3. Ideal(c, k) = l
      BY <1>9, <1>12, <1>13, <2>1, <2>3
    <3> QED BY <3>2, <3>3
  <2> QED BY <2>2, <2>3
<1>14. ASSUME l <= 0 PROVE Cap(c, k) = l /\ Ideal(c, k) = 0
  BY <1>9, <1>11, <1>14
<1>15. Ideal(c, k) \in Nat /\ (l > 0 => Ideal(c, k) > 0)
  BY <1>9, <1>12
<1>16. Ideal(c, 0) >= 2 => Ideal(c, k) >= 2
  BY <1>9, <1>10, <1>12
<1> QED BY <1>13, <1>14, <1>15, <1>16

(***************************************************************************)
(* Every wait that the jitter can choose is within the bounds.             *)
(***************************************************************************)
LEMMA DelayBounds ==
    ASSUME NEW c \in Configs, NEW k \in Nat, NEW d \in Delays(c, k)
    PROVE  /\ d \in Nat /\ Ideal(c, k) \in Nat
           /\ Ideal(c, k) \div 2 <= d /\ d <= Ideal(c, k)
           /\ Ideal(c, 0) >= 2 => d > 0
<1>1. PICK ideal \in Nat : ideal = Ideal(c, k)
  BY CapIsIdeal
<1>2. PICK cap \in Int : cap = Cap(c, k)
  BY CapIsIdeal
<1>3. /\ cap > 0 => cap = ideal
      /\ cap <= 0 => ideal = 0
      /\ Ideal(c, 0) >= 2 => ideal >= 2
  BY <1>1, <1>2, CapIsIdeal
<1>4. d \in IF cap <= 0 THEN {0} ELSE {cap \div 2 + r : r \in 0..(cap - cap \div 2)}
  BY <1>2, Zenon DEF Delays
<1>5. CASE cap <= 0
  BY <1>1, <1>3, <1>4, <1>5
<1>6. CASE cap > 0
  <2>1. PICK r \in 0..(cap - cap \div 2) : d = cap \div 2 + r
    BY <1>4, <1>6
  <2>2. cap \div 2 \in Nat /\ cap \div 2 <= cap /\ (cap >= 2 => cap \div 2 >= 1)
    BY <1>6
  <2> QED BY <1>1, <1>3, <1>6, <2>1, <2>2
<1> QED BY <1>5, <1>6

-----------------------------------------------------------------------------
(* The inductive invariant *)

\* A call is one of the attempts, and a wait is before a further one.
AttemptInv ==
    /\ pc = "calling" => attempt < config.maxAttempts
    /\ pc = "waiting" => attempt < config.maxAttempts - 1

\* After a call that came late every wait has a length, and ends at once.
LateInv ==
    Ideal(config, 0) >= 2 =>
        \/ late = 0
        \/ late = 1 /\ cancelled /\ pc # "waiting"

Inv == TypeOK /\ AttemptInv /\ BackoffBounded /\ LateInv

(***************************************************************************)
(* Every step preserves the invariant.                                     *)
(***************************************************************************)
LEMMA InvStep == Inv /\ [Next]_vars => Inv'
<1> SUFFICES ASSUME Inv, [Next]_vars PROVE Inv'
  OBVIOUS
<1> USE DEF Inv
<1>1. config.maxAttempts \in Int
  BY ConfigAssumption DEF TypeOK
<1>2. CASE Succeeds \/ FailsForGood \/ FailsLast
  BY <1>2 DEF Succeeds, FailsForGood, FailsLast, Return, TypeOK, Results,
     AttemptInv, BackoffBounded, LateInv
<1>3. CASE Fails
  <2>1. PICK d \in Delays(config, attempt) :
           IF cancelled /\ d > 0
           THEN Return("cancelled")
           ELSE pc' = "waiting" /\ delay' = d /\ UNCHANGED result
    BY <1>3 DEF Fails
  <2>2. /\ pc = "calling" /\ ~ Last
        /\ UNCHANGED <<config, attempt, cancelled, waited, late>>
    BY <1>3 DEF Fails
  <2>3. /\ d \in Nat
        /\ Ideal(config, attempt) \div 2 <= d /\ d <= Ideal(config, attempt)
        /\ Ideal(config, 0) >= 2 => d > 0
    BY DelayBounds DEF TypeOK
  <2>4. CASE cancelled /\ d > 0
    BY <2>1, <2>2, <2>4 DEF Return, TypeOK, Results, AttemptInv, BackoffBounded, LateInv
  <2>5. CASE ~ (cancelled /\ d > 0)
    <3>1. pc' = "waiting" /\ delay' = d /\ result' = result
      BY <2>1, <2>5
    <3>2. TypeOK' /\ AttemptInv'
      BY <1>1, <2>2, <2>3, <3>1 DEF Last, TypeOK, AttemptInv
    <3>3. Ideal(config', attempt') = Ideal(config, attempt) /\ Ideal(config', 0) = Ideal(config, 0)
      BY <2>2
    <3>4. BackoffBounded'
      BY <2>3, <3>1, <3>3 DEF BackoffBounded
    <3>5. LateInv'
      BY <2>2, <2>3, <2>5, <3>1, <3>3 DEF TypeOK, LateInv
    <3> QED BY <3>2, <3>4, <3>5
  <2> QED BY <2>4, <2>5
<1>4. CASE Timeout
  BY <1>1, <1>4 DEF Timeout, TypeOK, AttemptInv, BackoffBounded, LateInv
<1>5. CASE CutShort
  BY <1>5 DEF CutShort, Return, TypeOK, Results, AttemptInv, BackoffBounded, LateInv
<1>6. CASE Cancel
  BY <1>6 DEF Cancel, TypeOK, AttemptInv, BackoffBounded, LateInv
<1>7. CASE UNCHANGED vars
  BY <1>7 DEF vars, TypeOK, AttemptInv, BackoffBounded, LateInv
<1> QED BY <1>2, <1>3, <1>4, <1>5, <1>6, <1>7 DEF Next, Call, Returned

-----------------------------------------------------------------------------
(* Theorems *)

(***************************************************************************)
(* The inductive invariant of retry.Do.                                    *)
(***************************************************************************)
THEOREM Invariance == Spec => []Inv
<1>1. Init => Inv
  <2> SUFFICES ASSUME Init PROVE Inv
    OBVIOUS
  <2>1. config.maxAttempts \in Int
    BY ConfigAssumption DEF Init
  <2>2. TypeOK /\ AttemptInv
    BY <2>1 DEF Init, TypeOK, Results, AttemptInv
  <2>3. BackoffBounded /\ LateInv
    BY DEF Init, BackoffBounded, LateInv
  <2> QED BY <2>2, <2>3 DEF Inv
<1> QED BY <1>1, InvStep, PTL DEF Spec

(***************************************************************************)
(* Type correctness: fn is never called more than MaxAttempts times.       *)
(***************************************************************************)
THEOREM TypeCorrect == Spec => []TypeOK
<1>1. Inv => TypeOK
  BY DEF Inv
<1> QED BY <1>1, Invariance, PTL

(***************************************************************************)
(* Each wait is at least half of the cap and at most the cap, for any      *)
(* width and number of attempts: a shift or a product that overflows never *)
(* passes for a short wait.                                                *)
(***************************************************************************)
THEOREM WaitsAreBounded == Spec => []BackoffBounded
<1>1. Inv => BackoffBounded
  BY DEF Inv
<1> QED BY <1>1, Invariance, PTL

(***************************************************************************)
(* Whoever is gone causes at most one more call.                           *)
(***************************************************************************)
THEOREM CancelledStops == Spec => []CancelStops
<1>1. Inv => CancelStops
  BY DEF Inv, TypeOK, LateInv, CancelStops
<1> QED BY <1>1, Invariance, PTL

-----------------------------------------------------------------------------
(* The budget of Reserve *)

\* What the calls of Reserve have waited for in all before each attempt.
Least == <<0, 3, 9, 21, 41, 61>>
Most == <<0, 6, 18, 42, 82, 122>>

BudgetInv ==
    config = Reserve /\ pc # "returned" =>
        /\ Least[attempt + 1] <= waited
        /\ waited <= Most[attempt + 1]

(***************************************************************************)
(* The waits of Reserve before its second to sixth attempts.               *)
(***************************************************************************)
LEMMA ReserveWaits ==
    ASSUME Reserve = [maxAttempts |-> 6, baseDelay |-> 6, maxDelay |-> 40],
           NEW k \in 0..4
    PROVE  /\ Ideal(Reserve, k) \div 2 = Least[k + 2] - Least[k + 1]
           /\ Ideal(Reserve, k) = Most[k + 2] - Most[k + 1]
<1>1. 2^0 = 1 /\ 2^1 = 2 /\ 2^2 = 4 /\ 2^3 = 8 /\ 2^4 = 16
  OBVIOUS
<1>2. Ideal(Reserve, k) = IF 6 * 2^k < 40 THEN 6 * 2^k ELSE 40
  BY DEF Ideal
<1>3. CASE k = 0
  BY <1>1, <1>2, <1>3 DEF Least, Most
<1>4. CASE k = 1
  BY <1>1, <1>2, <1>4 DEF Least, Most
<1>5. CASE k = 2
  BY <1>1, <1>2, <1>5 DEF Least, Most
<1>6. CASE k = 3
  BY <1>1, <1>2, <1>6 DEF Least, Most
<1>7. CASE k = 4
  BY <1>1, <1>2, <1>7 DEF Least, Most
<1> QED BY <1>3, <1>4, <1>5, <1>6, <1>7

(***************************************************************************)
(* With the configuration of client.go, and any width it fits, whoever     *)
(* calls Reserve waits between 3.05 and 6.1 seconds before the last        *)
(* attempt, so that it bridges a restart of the inventory-service.         *)
(***************************************************************************)
THEOREM ReserveBudget ==
    ASSUME Reserve = [maxAttempts |-> 6, baseDelay |-> 6, maxDelay |-> 40]
    PROVE  Spec => []BudgetBridgesRestart
<1>1. Init => BudgetInv
  BY DEF Init, BudgetInv, Least, Most
<1>2. Inv /\ BudgetInv /\ [Next]_vars => BudgetInv'
  <2> SUFFICES ASSUME Inv, BudgetInv, [Next]_vars, config = Reserve, pc' # "returned"
               PROVE  BudgetInv'
    <3>1. Inv /\ [Next]_vars => config' = config
      BY DEF Next, Call, Succeeds, FailsForGood, FailsLast, Fails, Timeout,
         CutShort, Cancel, Returned, vars
    <3> QED BY <3>1 DEF BudgetInv
  <2>1. CASE Timeout
    <3>1. attempt \in 0..4 /\ pc = "waiting"
      BY <2>1 DEF Timeout, Inv, TypeOK, AttemptInv
    <3>2. /\ Ideal(Reserve, attempt) \div 2 <= delay
          /\ delay <= Ideal(Reserve, attempt)
      BY <3>1 DEF Inv, BackoffBounded
    <3>3. /\ Least[attempt + 2] - Least[attempt + 1] <= delay
          /\ delay <= Most[attempt + 2] - Most[attempt + 1]
      BY <3>1, <3>2, ReserveWaits
    <3>4. \A i \in 1..6 : Least[i] \in Int /\ Most[i] \in Int
      BY DEF Least, Most
    <3>5. /\ Least[attempt + 2] <= waited + delay
          /\ waited + delay <= Most[attempt + 2]
      BY <3>1, <3>3, <3>4 DEF BudgetInv, Inv, TypeOK
    <3>6. attempt' + 1 = attempt + 2 /\ waited' = waited + delay
      BY <2>1, <3>1 DEF Timeout
    <3> QED BY <3>5, <3>6 DEF BudgetInv
  <2>2. CASE Succeeds \/ FailsForGood \/ FailsLast \/ CutShort
    BY <2>2 DEF Succeeds, FailsForGood, FailsLast, CutShort, Return
  <2>3. CASE Fails \/ Cancel
    BY <2>3 DEF Fails, Cancel, Return, Inv, TypeOK, BudgetInv
  <2>4. CASE UNCHANGED vars
    BY <2>4 DEF vars, BudgetInv
  <2> QED BY <2>1, <2>2, <2>3, <2>4 DEF Next, Call, Returned
<1>3. Inv /\ BudgetInv => BudgetBridgesRestart
  <2> SUFFICES ASSUME Inv, BudgetInv, config = Reserve, pc = "calling", Last
               PROVE  waited \in 61..122
    BY DEF BudgetBridgesRestart
  <2>1. attempt = 5
    BY DEF Last
  <2> QED BY <2>1 DEF BudgetInv, Inv, TypeOK, Least, Most
<1> QED BY <1>1, <1>2, <1>3, Invariance, PTL DEF Spec

=============================================================================
