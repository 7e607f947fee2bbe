----------------------------- MODULE FoldLemmas -----------------------------
(***************************************************************************)
(* Finite sets of numbers, sorted enumerations and folds: what the proofs   *)
(* about ordered rows and about disks need to know.  Induction takes a set  *)
(* in place of a predicate.                                                 *)
(***************************************************************************)
EXTENDS SequencesExt, Integers, FiniteSetTheorems, WellFoundedInduction, TLAPS

\* Induction over the numbers in a set.
LEMMA SetInduction ==
    ASSUME NEW T, 0 \in T, \A n \in Nat : n \in T => n + 1 \in T
    PROVE  Nat \subseteq T
<1> SUFFICES ASSUME Nat \ T # {} PROVE FALSE
  OBVIOUS
<1>1. IsWellFoundedOn(OpToRel(<, Nat), Nat)
  BY NatLessThanWellFounded
<1>2. PICK n \in Nat \ T : \A m \in Nat \ T : <<m, n>> \notin OpToRel(<, Nat)
  BY <1>1, WFMin
<1>3. \A m \in Nat \ T : ~(m < n)
  BY <1>2 DEF OpToRel
<1>4. n \in Nat /\ n # 0
  OBVIOUS
<1>5. n - 1 \in Nat /\ n = (n - 1) + 1
  BY <1>4
<1>6. n - 1 \in T
  BY <1>3, <1>4, <1>5, SMT
<1> QED
  BY <1>5, <1>6

\* Some element of a finite set has the largest key.
LEMMA LargestKey ==
    ASSUME NEW S, IsFiniteSet(S), S # {}, NEW key \in [S -> Int]
    PROVE  \E i \in S : \A j \in S : key[j] <= key[i]
<1> DEFINE Has(s) == \E i \in s : \A j \in s : key[j] <= key[i]
           T == {n \in Nat : \A s \in SUBSET S : Cardinality(s) = n + 1 => Has(s)}
<1>1. \A s \in SUBSET S : IsFiniteSet(s) /\ Cardinality(s) \in Nat
  BY FS_Subset, FS_CardinalityType
<1>2. 0 \in T
  <2> SUFFICES ASSUME NEW s \in SUBSET S, Cardinality(s) = 1
               PROVE  Has(s)
    OBVIOUS
  <2>1. PICK x : s = {x}
    BY <1>1, FS_Singleton
  <2>2. key[x] <= key[x]
    BY <2>1
  <2> QED
    BY <2>1, <2>2
<1>3. ASSUME NEW n \in Nat, n \in T
      PROVE  n + 1 \in T
  <2> SUFFICES ASSUME NEW s \in SUBSET S, Cardinality(s) = (n + 1) + 1
               PROVE  Has(s)
    OBVIOUS
  <2>1. PICK x \in s : TRUE
    BY <1>1, FS_EmptySet
  <2>2. s \ {x} \in SUBSET S /\ Cardinality(s \ {x}) = n + 1
    BY <1>1, <2>1, FS_RemoveElement
  <2>3. PICK i \in s \ {x} : \A j \in s \ {x} : key[j] <= key[i]
    BY <1>3, <2>2
  <2>4. CASE key[x] <= key[i]
    BY <2>3, <2>4
  <2>5. CASE key[i] <= key[x]
    <3>1. \A j \in s : key[j] <= key[x]
      BY <2>1, <2>3, <2>5
    <3> QED
      BY <2>1, <3>1
  <2>6. key[x] \in Int /\ key[i] \in Int
    BY <2>1, <2>3
  <2> QED
    BY <2>4, <2>5, <2>6
<1>4. Nat \subseteq T
  <2> HIDE DEF T
  <2> QED
    BY <1>2, <1>3, SetInduction
<1>5. Cardinality(S) - 1 \in Nat /\ Cardinality(S) = (Cardinality(S) - 1) + 1
  <2>1. Cardinality(S) \in Nat /\ Cardinality(S) # 0
    BY FS_CardinalityType, FS_EmptySet
  <2> QED
    BY <2>1
<1> QED
  BY <1>4, <1>5

LEMMA LargestNumber ==
    ASSUME NEW S \in SUBSET Int, IsFiniteSet(S), S # {}
    PROVE  Max(S) \in S /\ \A j \in S : j <= Max(S)
<1> DEFINE key == [i \in S |-> i]
<1>1. key \in [S -> Int]
  OBVIOUS
<1>2. PICK i \in S : \A j \in S : key[j] <= key[i]
  <2> HIDE DEF key
  <2> QED
    BY <1>1, LargestKey
<1>3. \A j \in S : i >= j
  BY <1>2
<1>4. Max(S) \in S /\ \A j \in S : Max(S) >= j
  BY <1>3 DEF Max
<1> QED
  BY <1>4

\* A finite set whose elements have different keys can be written down in their order.
LEMMA SortedEnumeration ==
    ASSUME NEW S, IsFiniteSet(S), NEW key \in [S -> Int],
           \A i, j \in S : i # j => key[i] # key[j]
    PROVE  \E ids \in SetToSeqs(S) :
              \A m, n \in DOMAIN ids : m < n => key[ids[m]] < key[ids[n]]
<1> DEFINE Sorted(ids) == \A m, n \in DOMAIN ids : m < n => key[ids[m]] < key[ids[n]]
           Has(s) == \E ids \in [1..Cardinality(s) -> s] : Sorted(ids)
           T == {n \in Nat : \A s \in SUBSET S : Cardinality(s) = n => Has(s)}
<1>1. \A s \in SUBSET S : IsFiniteSet(s) /\ Cardinality(s) \in Nat
  BY FS_Subset, FS_CardinalityType
<1>2. 0 \in T
  <2> SUFFICES ASSUME NEW s \in SUBSET S, Cardinality(s) = 0
               PROVE  Has(s)
    OBVIOUS
  <2>1. [n \in 1..0 |-> n] \in [1..Cardinality(s) -> s]
    OBVIOUS
  <2>2. Sorted([n \in 1..0 |-> n])
    OBVIOUS
  <2> QED
    BY <2>1, <2>2
<1>3. ASSUME NEW n \in Nat, n \in T
      PROVE  n + 1 \in T
  <2> SUFFICES ASSUME NEW s \in SUBSET S, Cardinality(s) = n + 1
               PROVE  Has(s)
    OBVIOUS
  <2>1. s # {}
    BY <1>1, FS_EmptySet
  <2>2. PICK i \in s : \A j \in s : key[j] <= key[i]
    <3> DEFINE own == [j \in s |-> key[j]]
    <3>1. own \in [s -> Int]
      OBVIOUS
    <3>2. \E i \in s : \A j \in s : own[j] <= own[i]
      <4> HIDE DEF own
      <4> QED
        BY <1>1, <2>1, <3>1, LargestKey
    <3> QED
      BY <3>2
  <2>3. s \ {i} \in SUBSET S /\ Cardinality(s \ {i}) = n
    <3>1. Cardinality(s \ {i}) = Cardinality(s) - 1
      BY <1>1, <2>2, FS_RemoveElement
    <3> QED
      BY <3>1
  <2>4. PICK ids \in [1..n -> s \ {i}] : Sorted(ids)
    BY <1>3, <2>3
  <2> DEFINE more == [m \in 1..(n + 1) |-> IF m = n + 1 THEN i ELSE ids[m]]
  <2>5. more \in [1..Cardinality(s) -> s]
    <3>1. \A m \in 1..(n + 1) : m = n + 1 \/ m \in 1..n
      OBVIOUS
    <3> QED
      BY <2>2, <2>4, <3>1
  <2>6. ASSUME NEW m1 \in DOMAIN more, NEW m2 \in DOMAIN more, m1 < m2
        PROVE  key[more[m1]] < key[more[m2]]
    <3>1. m1 \in 1..n /\ more[m1] = ids[m1] /\ ids[m1] \in s \ {i}
      BY <2>4, <2>6
    <3>2. CASE m2 = n + 1
      <4>1. more[m2] = i
        BY <3>2
      <4>2. key[ids[m1]] <= key[i] /\ key[ids[m1]] # key[i]
        BY <2>2, <3>1
      <4>3. key[ids[m1]] \in Int /\ key[i] \in Int
        BY <2>2, <3>1
      <4> QED
        BY <3>1, <4>1, <4>2, <4>3
    <3>3. CASE m2 # n + 1
      <4>1. m2 \in 1..n /\ more[m2] = ids[m2]
        BY <3>3
      <4> QED
        BY <2>4, <2>6, <3>1, <4>1
    <3> QED
      BY <3>2, <3>3
  <2> HIDE DEF more
  <2>7. Sorted(more)
    BY <2>6
  <2> QED
    BY <2>5, <2>7
<1>4. Nat \subseteq T
  <2> HIDE DEF T
  <2> QED
    BY <1>2, <1>3, SetInduction
<1>5. PICK ids \in [1..Cardinality(S) -> S] : Sorted(ids)
  BY <1>1, <1>4
<1>6. ASSUME NEW m \in DOMAIN ids, NEW n \in DOMAIN ids, m # n
      PROVE  ids[m] # ids[n]
  <2>1. m < n \/ n < m
    BY <1>1, <1>6
  <2>2. key[ids[m]] \in Int /\ key[ids[n]] \in Int
    OBVIOUS
  <2>3. key[ids[m]] < key[ids[n]] \/ key[ids[n]] < key[ids[m]]
    BY <1>5, <2>1
  <2> QED
    BY <2>2, <2>3
<1>7. ids \in SetToSeqs(S)
  BY <1>6 DEF SetToSeqs
<1> QED
  BY <1>5, <1>7

\* A sequence of the elements of a finite set, each once, has them all.
LEMMA EnumerationCovers ==
    ASSUME NEW S, IsFiniteSet(S), NEW ids \in SetToSeqs(S)
    PROVE  /\ Cardinality(S) \in Nat
           /\ ids \in [1..Cardinality(S) -> S]
           /\ Len(ids) = Cardinality(S)
           /\ \A m, n \in 1..Cardinality(S) : m # n => ids[m] # ids[n]
           /\ Range(ids) = S
<1>1. /\ Cardinality(S) \in Nat
      /\ ids \in [1..Cardinality(S) -> S]
      /\ \A m, n \in 1..Cardinality(S) : m # n => ids[m] # ids[n]
  BY FS_CardinalityType DEF SetToSeqs
<1>2. ids \in Injection(1..Cardinality(S), S)
  BY <1>1 DEF Injection, IsInjective
<1>3. Cardinality(1..Cardinality(S)) = Cardinality(S)
  BY <1>1, FS_Interval
<1>4. ids \in Surjection(1..Cardinality(S), S)
  BY <1>2, <1>3, FS_Injection
<1> QED
  BY <1>1, <1>4 DEF Surjection, Range

\* A recursion over the numbers up to n: where it starts, and what comes next.
StepFunctions(n, V) == [1..n -> [V -> V]]

Solutions(n, V, base, next) ==
    {f \in [0..n -> V] : \A k \in 0..n : f[k] = IF k = 0 THEN base ELSE next[k][f[k - 1]]}

\* There is one.
LEMMA RecursionExists ==
    ASSUME NEW n \in Nat, NEW V, NEW base \in V, NEW next \in StepFunctions(n, V)
    PROVE  Solutions(n, V, base, next) # {}
<1> USE DEF StepFunctions
<1> DEFINE Solves(f, m) == \A k \in 0..m : f[k] = IF k = 0 THEN base ELSE next[k][f[k - 1]]
           Has(m) == \E f \in [0..n -> V] : Solves(f, m)
           T == {m \in Nat : m <= n => Has(m)}
<1>1. Has(0)
  <2>1. [k \in 0..n |-> base] \in [0..n -> V]
    OBVIOUS
  <2>2. Solves([k \in 0..n |-> base], 0)
    OBVIOUS
  <2> QED
    BY <2>1, <2>2
<1>2. ASSUME NEW m \in 0..(n - 1), Has(m)
      PROVE  Has(m + 1)
  <2>1. PICK f \in [0..n -> V] : Solves(f, m)
    BY <1>2
  <2>2. m \in 0..n /\ m + 1 \in 1..n /\ f[m] \in V
    OBVIOUS
  <2> DEFINE after == next[m + 1][f[m]]
             g == [k \in 0..n |-> IF k = m + 1 THEN after ELSE f[k]]
  <2>3. after \in V
    BY <2>2
  <2> HIDE DEF after
  <2>4. g \in [0..n -> V]
    BY <2>3
  <2>5. g[m + 1] = after /\ \A k \in 0..m : g[k] = f[k]
    OBVIOUS
  <2> HIDE DEF g
  <2>6. ASSUME NEW k \in 0..(m + 1)
        PROVE  g[k] = IF k = 0 THEN base ELSE next[k][g[k - 1]]
    <3>1. CASE k = m + 1
      <4>1. k # 0 /\ k - 1 = m /\ g[m] = f[m]
        BY <2>5, <3>1
      <4> QED
        BY <2>5, <3>1, <4>1 DEF after
    <3>2. CASE k # m + 1
      <4>1. k \in 0..m /\ (k # 0 => k - 1 \in 0..m)
        BY <3>2
      <4>2. g[k] = f[k] /\ (k # 0 => g[k - 1] = f[k - 1])
        BY <2>5, <4>1
      <4> QED
        BY <2>1, <4>1, <4>2
    <3> QED
      BY <3>1, <3>2
  <2> QED
    BY <2>4, <2>6
<1> HIDE DEF Has
<1>3. Nat \subseteq T
  <2>1. 0 \in T
    BY <1>1
  <2>2. ASSUME NEW m \in Nat, m \in T
        PROVE  m + 1 \in T
    <3>1. m + 1 <= n => m \in 0..(n - 1)
      OBVIOUS
    <3> QED
      BY <1>2, <2>2, <3>1
  <2> HIDE DEF T
  <2> QED
    BY <2>1, <2>2, SetInduction
<1>4. Has(n)
  BY <1>3
<1> QED
  BY <1>4 DEF Has, Solutions
=============================================================================
