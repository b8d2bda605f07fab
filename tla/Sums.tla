-------------------------------- MODULE Sums --------------------------------
(***************************************************************************)
(* Sums over finite sets, as MapThenSumSet of FiniteSetsExt computes them, *)
(* for the proofs about stock: the value does not depend on the order in   *)
(* which CHOOSE takes the elements, so a sum grows by what is added.       *)
(***************************************************************************)
EXTENDS Integers, FiniteSets, FiniteSetsExt, FiniteSetTheorems, WellFoundedInduction, TLAPS

-----------------------------------------------------------------------------
(* Induction on naturals, for a set instead of a predicate *)

(***************************************************************************)
(* A set with 0 and the successor of every natural number in it has them   *)
(* all: induction without a predicate to instantiate.                      *)
(***************************************************************************)
LEMMA SetInduction ==
    ASSUME NEW C, 0 \in C, \A n \in Nat : n \in C => n + 1 \in C
    PROVE  Nat \subseteq C
<1> SUFFICES ASSUME Nat \ C # {} PROVE FALSE
  OBVIOUS
<1>1. IsWellFoundedOn(OpToRel(<, Nat), Nat)
  BY NatLessThanWellFounded
<1>2. PICK n \in Nat \ C : \A m \in Nat \ C : ~ (<<m, n>> \in OpToRel(<, Nat))
  BY <1>1, WFMin
<1>3. \A m \in Nat \ C : ~ (m < n)
  BY <1>2 DEF OpToRel
<1>4. n # 0 /\ n - 1 \in Nat /\ n - 1 < n
  OBVIOUS
<1>5. n - 1 \in C
  BY <1>3, <1>4
<1> QED BY <1>4, <1>5

-----------------------------------------------------------------------------
(* The recursion *)

Pick(s) == CHOOSE x \in s : TRUE

\* g computes sums over the members of D, a set of sets.
Computes(g, f, D) ==
    g = [s \in D |-> IF s = {} THEN 0 ELSE f[Pick(s)] + g[s \ {Pick(s)}]]

UpTo(n, T) == {s \in SUBSET T : Cardinality(s) <= n}

(***************************************************************************)
(* Taking the picked element away leaves a set with one element less.      *)
(***************************************************************************)
LEMMA PickSmaller ==
    ASSUME NEW s, IsFiniteSet(s), s # {}
    PROVE  /\ Pick(s) \in s
           /\ IsFiniteSet(s \ {Pick(s)})
           /\ Cardinality(s) \in Nat /\ Cardinality(s \ {Pick(s)}) \in Nat
           /\ Cardinality(s \ {Pick(s)}) = Cardinality(s) - 1
<1>1. Pick(s) \in s
  BY DEF Pick
<1>2. /\ IsFiniteSet(s \ {Pick(s)})
      /\ Cardinality(s \ {Pick(s)}) = Cardinality(s) - 1
  BY <1>1, FS_RemoveElement
<1> QED BY <1>1, <1>2, FS_CardinalityType

(***************************************************************************)
(* The recursion of MapThenSumSet has a solution over every finite set.    *)
(***************************************************************************)
LEMMA SumsExist ==
    ASSUME NEW f, NEW T, IsFiniteSet(T)
    PROVE  \E g : Computes(g, f, SUBSET T)
<1> DEFINE C == {n \in Nat : \E g : Computes(g, f, UpTo(n, T))}
<1>0. \A s \in SUBSET T : IsFiniteSet(s) /\ Cardinality(s) \in Nat
                          /\ Cardinality(s) <= Cardinality(T)
  BY FS_Subset, FS_CardinalityType
<1>1. 0 \in C
  <2> DEFINE g == [s \in UpTo(0, T) |-> 0]
  <2>1. \A s \in UpTo(0, T) : s = {}
    BY <1>0, FS_EmptySet DEF UpTo
  <2>2. Computes(g, f, UpTo(0, T))
    BY <2>1 DEF Computes
  <2> QED BY <2>2
<1>2. ASSUME NEW n \in Nat, n \in C PROVE n + 1 \in C
  <2>1. PICK g : Computes(g, f, UpTo(n, T))
    BY <1>2
  <2> DEFINE h == [s \in UpTo(n + 1, T) |->
                     IF s = {} THEN 0 ELSE f[Pick(s)] + g[s \ {Pick(s)}]]
  <2>2. UpTo(n, T) \subseteq UpTo(n + 1, T)
    BY <1>0 DEF UpTo
  <2>3. \A s \in UpTo(n, T) : h[s] = g[s]
    BY <2>1, <2>2 DEF Computes
  <2>4. \A s \in UpTo(n + 1, T) : s # {} => s \ {Pick(s)} \in UpTo(n, T)
    BY <1>0, PickSmaller DEF UpTo
  <2>5. \A s \in UpTo(n + 1, T) :
           h[s] = IF s = {} THEN 0 ELSE f[Pick(s)] + h[s \ {Pick(s)}]
    BY <2>3, <2>4
  <2>6. Computes(h, f, UpTo(n + 1, T))
    BY <2>5 DEF Computes
  <2> QED BY <2>6
<1>3. Cardinality(T) \in Nat
  BY FS_CardinalityType
<1>4. Cardinality(T) \in C
  <2> HIDE DEF C
  <2> QED BY <1>1, <1>2, <1>3, SetInduction
<1>5. UpTo(Cardinality(T), T) = SUBSET T
  BY <1>0 DEF UpTo
<1> QED BY <1>4, <1>5

(***************************************************************************)
(* Two solutions agree wherever both are defined.                          *)
(***************************************************************************)
LEMMA SumsAgree ==
    ASSUME NEW f, NEW T, NEW U, NEW g, NEW h, NEW s,
           IsFiniteSet(s), s \subseteq T, s \subseteq U,
           Computes(g, f, SUBSET T), Computes(h, f, SUBSET U)
    PROVE  g[s] = h[s]
<1> DEFINE C == {n \in Nat : \A r \in SUBSET s : Cardinality(r) = n => g[r] = h[r]}
<1>0. \A r \in SUBSET s : IsFiniteSet(r) /\ Cardinality(r) \in Nat
                          /\ r \in SUBSET T /\ r \in SUBSET U
  BY FS_Subset, FS_CardinalityType
<1>1. \A r \in SUBSET s :
         /\ g[r] = IF r = {} THEN 0 ELSE f[Pick(r)] + g[r \ {Pick(r)}]
         /\ h[r] = IF r = {} THEN 0 ELSE f[Pick(r)] + h[r \ {Pick(r)}]
  BY <1>0 DEF Computes
<1>2. 0 \in C
  BY <1>0, <1>1, FS_EmptySet
<1>3. ASSUME NEW n \in Nat, n \in C PROVE n + 1 \in C
  <2> SUFFICES ASSUME NEW r \in SUBSET s, Cardinality(r) = n + 1
               PROVE  g[r] = h[r]
    OBVIOUS
  <2>1. r # {}
    <3>1. Cardinality({}) = 0 /\ n + 1 # 0
      BY FS_EmptySet
    <3> HIDE DEF C
    <3> QED BY <3>1
  <2>2. r \ {Pick(r)} \in SUBSET s /\ Cardinality(r \ {Pick(r)}) = n
    BY <1>0, <2>1, PickSmaller
  <2>3. g[r \ {Pick(r)}] = h[r \ {Pick(r)}]
    BY <1>3, <2>2
  <2> QED BY <1>1, <2>1, <2>3
<1>4. Cardinality(s) \in C
  <2> HIDE DEF C
  <2> QED BY <1>0, <1>2, <1>3, SetInduction
<1> QED BY <1>4

-----------------------------------------------------------------------------
(* Sums *)

SumOf(f, T) == MapThenSumSet(LAMBDA x : f[x], T)

(***************************************************************************)
(* Whatever satisfies the recursion computes the sum.                      *)
(***************************************************************************)
LEMMA SumUnique ==
    ASSUME NEW f, NEW T, IsFiniteSet(T), NEW g, Computes(g, f, SUBSET T)
    PROVE  SumOf(f, T) = g[T]
<1> DEFINE iter == CHOOSE h : Computes(h, f, SUBSET T)
<1>1. Computes(iter, f, SUBSET T)
  <2> HIDE DEF Computes
  <2> QED OBVIOUS
<1>2. SumOf(f, T) = iter[T]
  BY DEF SumOf, MapThenSumSet, MapThenFoldSet, Computes, Pick
<1>3. iter[T] = g[T]
  <2> HIDE DEF iter
  <2> QED BY <1>1, SumsAgree
<1> QED BY <1>2, <1>3

(***************************************************************************)
(* The sum takes one element after the other.                              *)
(***************************************************************************)
LEMMA SumStep ==
    ASSUME NEW f, NEW T, IsFiniteSet(T)
    PROVE  SumOf(f, T) = IF T = {} THEN 0
                         ELSE f[Pick(T)] + SumOf(f, T \ {Pick(T)})
<1>1. PICK g : Computes(g, f, SUBSET T)
  BY SumsExist
<1>2. SumOf(f, T) = g[T]
  BY <1>1, SumUnique
<1>3. g[T] = IF T = {} THEN 0 ELSE f[Pick(T)] + g[T \ {Pick(T)}]
  BY <1>1 DEF Computes
<1>4. ASSUME T # {} PROVE SumOf(f, T \ {Pick(T)}) = g[T \ {Pick(T)}]
  <2> DEFINE R == T \ {Pick(T)}
  <2>1. IsFiniteSet(R) /\ R \subseteq T
    BY <1>4, PickSmaller
  <2>2. PICK h : Computes(h, f, SUBSET R)
    BY <2>1, SumsExist
  <2>3. h[R] = g[R]
    <3> HIDE DEF R
    <3> QED BY <1>1, <2>1, <2>2, SumsAgree
  <2>4. SumOf(f, R) = h[R]
    BY <2>1, <2>2, SumUnique
  <2> QED BY <2>3, <2>4
<1> QED BY <1>2, <1>3, <1>4

(***************************************************************************)
(* The sum of nothing is 0.                                                *)
(***************************************************************************)
LEMMA SumEmpty == ASSUME NEW f PROVE SumOf(f, {}) = 0
BY SumStep, FS_EmptySet

(***************************************************************************)
(* A sum of integers is an integer.                                        *)
(***************************************************************************)
LEMMA SumInt ==
    ASSUME NEW f, NEW T, IsFiniteSet(T), \A x \in T : f[x] \in Int
    PROVE  \A r \in SUBSET T : SumOf(f, r) \in Int
<1> DEFINE C == {n \in Nat : \A r \in SUBSET T :
                                Cardinality(r) = n => SumOf(f, r) \in Int}
<1>0. \A r \in SUBSET T : IsFiniteSet(r) /\ Cardinality(r) \in Nat
  BY FS_Subset, FS_CardinalityType
<1>1. 0 \in C
  <2>1. \A r \in SUBSET T : Cardinality(r) = 0 => r = {}
    BY <1>0, FS_EmptySet
  <2> QED BY <2>1, SumEmpty
<1>2. ASSUME NEW n \in Nat, n \in C PROVE n + 1 \in C
  <2> SUFFICES ASSUME NEW r \in SUBSET T, Cardinality(r) = n + 1
               PROVE  SumOf(f, r) \in Int
    OBVIOUS
  <2>1. CASE r = {}
    BY <2>1, SumEmpty
  <2>2. CASE r # {}
    <3>1. /\ Pick(r) \in r /\ Cardinality(r \ {Pick(r)}) = n
          /\ SumOf(f, r) = f[Pick(r)] + SumOf(f, r \ {Pick(r)})
      BY <1>0, <2>2, SumStep, PickSmaller
    <3>2. SumOf(f, r \ {Pick(r)}) \in Int
      BY <1>2, <3>1
    <3> QED BY <3>1, <3>2
  <2> QED BY <2>1, <2>2
<1>3. Nat \subseteq C
  <2> HIDE DEF C
  <2> QED BY <1>1, <1>2, SetInduction
<1> QED BY <1>0, <1>3

(***************************************************************************)
(* Any term of a sum can be split off, not only the one CHOOSE picks.      *)
(***************************************************************************)
LEMMA SumSplits ==
    ASSUME NEW f, NEW T, IsFiniteSet(T), \A x \in T : f[x] \in Int
    PROVE  \A z \in T : SumOf(f, T) = f[z] + SumOf(f, T \ {z})
<1> DEFINE Splits(r) == \A z \in r : SumOf(f, r) = f[z] + SumOf(f, r \ {z})
           C == {n \in Nat : \A r \in SUBSET T : Cardinality(r) = n => Splits(r)}
<1>0. \A r \in SUBSET T : /\ IsFiniteSet(r) /\ Cardinality(r) \in Nat
                           /\ SumOf(f, r) \in Int
  BY FS_Subset, FS_CardinalityType, SumInt
<1>1. 0 \in C
  BY <1>0, FS_EmptySet
<1>2. ASSUME NEW n \in Nat, n \in C PROVE n + 1 \in C
  <2> SUFFICES ASSUME NEW r \in SUBSET T, Cardinality(r) = n + 1, NEW z \in r
               PROVE  SumOf(f, r) = f[z] + SumOf(f, r \ {z})
    OBVIOUS
  <2> DEFINE p == Pick(r)
  <2>1. /\ p \in r /\ SumOf(f, r) = f[p] + SumOf(f, r \ {p})
    BY <1>0, SumStep, PickSmaller
  <2>2. \A y \in r : Cardinality(r \ {y}) = n
    <3>1. \A y \in r : Cardinality(r \ {y}) = Cardinality(r) - 1
      BY <1>0, FS_RemoveElement
    <3> HIDE DEF C
    <3> QED BY <3>1
  <2>3. \A y \in r : Splits(r \ {y})
    <3> HIDE DEF Splits
    <3> QED BY <1>2, <2>2
  <2> HIDE DEF p, C
  <2>4. CASE z # p
    <3> DEFINE rest == (r \ {p}) \ {z}
    <3>1. SumOf(f, r \ {p}) = f[z] + SumOf(f, rest)
      BY <2>1, <2>3, <2>4
    <3>2. SumOf(f, r \ {z}) = f[p] + SumOf(f, rest)
      <4>1. (r \ {z}) \ {p} = rest
        OBVIOUS
      <4> QED BY <2>1, <2>3, <2>4, <4>1
    <3>3. f[z] \in Int /\ f[p] \in Int /\ SumOf(f, rest) \in Int
      BY <1>0, <2>1
    <3> HIDE DEF rest, Splits
    <3> QED BY <2>1, <3>1, <3>2, <3>3
  <2> QED BY <2>1, <2>4
<1>3. Nat \subseteq C
  <2> HIDE DEF C
  <2> QED BY <1>1, <1>2, SetInduction
<1>4. Splits(T)
  BY <1>0, <1>3
<1> QED BY <1>4

(***************************************************************************)
(* A sum grows by what is added to the set.                                *)
(***************************************************************************)
LEMMA SumAdds ==
    ASSUME NEW f, NEW T, IsFiniteSet(T), NEW z, z \notin T,
           \A x \in T \cup {z} : f[x] \in Int
    PROVE  /\ SumOf(f, T \cup {z}) = SumOf(f, T) + f[z]
           /\ SumOf(f, T) \in Int
<1>1. IsFiniteSet(T \cup {z})
  BY FS_AddElement
<1>2. (T \cup {z}) \ {z} = T
  OBVIOUS
<1>3. SumOf(f, T) \in Int
  BY SumInt
<1> QED BY <1>1, <1>2, <1>3, SumSplits

(***************************************************************************)
(* Sums are monotonic in their terms.                                      *)
(***************************************************************************)
LEMMA SumBelow ==
    ASSUME NEW f, NEW g, NEW T, IsFiniteSet(T),
           \A x \in T : f[x] \in Int /\ g[x] \in Int /\ f[x] <= g[x]
    PROVE  SumOf(f, T) <= SumOf(g, T)
<1> DEFINE C == {n \in Nat : \A r \in SUBSET T :
                                Cardinality(r) = n => SumOf(f, r) <= SumOf(g, r)}
<1>0. \A r \in SUBSET T :
         /\ IsFiniteSet(r) /\ Cardinality(r) \in Nat
         /\ SumOf(f, r) \in Int /\ SumOf(g, r) \in Int
  BY FS_Subset, FS_CardinalityType, SumInt
<1>1. 0 \in C
  <2>1. \A r \in SUBSET T : Cardinality(r) = 0 => r = {}
    BY <1>0, FS_EmptySet
  <2> QED BY <2>1, SumEmpty
<1>2. ASSUME NEW n \in Nat, n \in C PROVE n + 1 \in C
  <2> SUFFICES ASSUME NEW r \in SUBSET T, Cardinality(r) = n + 1
               PROVE  SumOf(f, r) <= SumOf(g, r)
    OBVIOUS
  <2>1. CASE r = {}
    BY <2>1, SumEmpty
  <2>2. CASE r # {}
    <3> DEFINE p == Pick(r)
    <3>1. p \in r /\ Cardinality(r \ {p}) = n
      BY <1>0, <2>2, PickSmaller
    <3>2. SumOf(f, r \ {p}) <= SumOf(g, r \ {p})
      BY <1>2, <3>1
    <3>3. SumOf(f, r) = f[p] + SumOf(f, r \ {p})
      BY <1>0, <2>2, SumStep
    <3>4. SumOf(g, r) = g[p] + SumOf(g, r \ {p})
      BY <1>0, <2>2, SumStep
    <3> HIDE DEF p, C
    <3>5. SumOf(f, r \ {p}) \in Int /\ SumOf(g, r \ {p}) \in Int
      BY <1>0
    <3> QED BY <3>1, <3>2, <3>3, <3>4, <3>5
  <2> QED BY <2>1, <2>2
<1>3. Nat \subseteq C
  <2> HIDE DEF C
  <2> QED BY <1>1, <1>2, SetInduction
<1> QED BY <1>0, <1>3

(***************************************************************************)
(* Only the terms matter.                                                  *)
(***************************************************************************)
LEMMA SumEqual ==
    ASSUME NEW f, NEW g, NEW T, IsFiniteSet(T),
           \A x \in T : f[x] \in Int /\ f[x] = g[x]
    PROVE  SumOf(f, T) = SumOf(g, T)
<1>1. SumOf(f, T) \in Int /\ SumOf(g, T) \in Int
  BY SumInt
<1>2. SumOf(f, T) <= SumOf(g, T) /\ SumOf(g, T) <= SumOf(f, T)
  BY SumBelow
<1> QED BY <1>1, <1>2

(***************************************************************************)
(* A sum of zeros is 0.                                                    *)
(***************************************************************************)
LEMMA SumZero ==
    ASSUME NEW f, NEW T, IsFiniteSet(T), \A x \in T : f[x] = 0
    PROVE  SumOf(f, T) = 0
<1> DEFINE g == [s \in SUBSET T |-> 0]
<1>1. Computes(g, f, SUBSET T)
  <2>1. \A s \in SUBSET T : s # {} => Pick(s) \in T
    BY DEF Pick
  <2> QED BY <2>1 DEF Computes
<1> HIDE DEF g
<1>2. g[T] = 0
  BY DEF g
<1> QED BY <1>1, <1>2, SumUnique
=============================================================================
