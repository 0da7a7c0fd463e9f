------------------------------- MODULE Counting -------------------------------
(***************************************************************************)
(* Facts about sizes that the proofs of several components share.          *)
(*                                                                         *)
(* A sum is counted as a set of units: f[k] of them for every k of S, each *)
(* a pair.  The library's facts about finite sets then apply to sums, and  *)
(* what changes one term adds or removes one block of units.               *)
(***************************************************************************)
EXTENDS Integers, FiniteSets, FiniteSetTheorems, FunctionTheorems, TLAPS

\* The empty set is finite, so is a part of a finite set, and the set with one
\* element more.
LEMMA NothingFinite == IsFiniteSet({})
BY FS_EmptySet

LEMMA SubsetFinite ==
  ASSUME NEW S, IsFiniteSet(S), NEW T \in SUBSET S
  PROVE  IsFiniteSet(T)
BY FS_Subset

LEMMA AddedFinite ==
  ASSUME NEW S, IsFiniteSet(S), NEW x
  PROVE  IsFiniteSet(S \cup {x})
BY FS_AddElement

Block(f, k) == {k} \X (1..f[k])

Units(f, S) == UNION {Block(f, k) : k \in S}

LEMMA BlockSize ==
  ASSUME NEW f, NEW k, f[k] \in Nat
  PROVE  IsFiniteSet(Block(f, k)) /\ Cardinality(Block(f, k)) = f[k]
<1>1. IsFiniteSet(1..f[k]) /\ Cardinality(1..f[k]) = f[k]
  <2>1. /\ IsFiniteSet(1..f[k])
        /\ Cardinality(1..f[k]) = IF 1 > f[k] THEN 0 ELSE f[k] - 1 + 1
    BY FS_Interval
  <2> QED BY <2>1
<1>2. IsFiniteSet({k}) /\ Cardinality({k}) = 1  BY FS_Singleton
<1>3. /\ IsFiniteSet({k} \X (1..f[k]))
      /\ Cardinality({k} \X (1..f[k])) = Cardinality({k}) * Cardinality(1..f[k])
  BY <1>1, <1>2, FS_Product
<1> QED BY <1>1, <1>2, <1>3 DEF Block

\* The sum of no terms is 0; another term adds its own value.
LEMMA UnitsOfNothing ==
  ASSUME NEW f
  PROVE  Units(f, {}) = {} /\ Cardinality(Units(f, {})) = 0
<1>1. Units(f, {}) = {}  BY DEF Units
<1> QED BY <1>1, FS_EmptySet

LEMMA UnitsFinite ==
  ASSUME NEW f, NEW S, IsFiniteSet(S), \A k \in S : f[k] \in Nat
  PROVE  IsFiniteSet(Units(f, S)) /\ Cardinality(Units(f, S)) \in Nat
<1> DEFINE blocks == {Block(f, k) : k \in S}
           g == [k \in S |-> Block(f, k)]
<1>1. g \in Surjection(S, blocks)
  <2>1. g \in [S -> blocks] /\ \A b \in blocks : \E k \in S : g[k] = b
    OBVIOUS
  <2> HIDE DEF g, blocks
  <2> QED BY <2>1 DEF Surjection
<1>2. IsFiniteSet(blocks)
  <2> HIDE DEF g, blocks
  <2> QED BY <1>1, FS_Surjection
<1>3. \A b \in blocks : IsFiniteSet(b)  BY BlockSize
<1>4. IsFiniteSet(UNION blocks)
  <2> HIDE DEF blocks
  <2> QED BY <1>2, <1>3, FS_UNION
<1>5. IsFiniteSet(Units(f, S))  BY <1>4 DEF Units
<1> QED BY <1>5, FS_CardinalityType

LEMMA UnitsAdded ==
  ASSUME NEW f, NEW S, IsFiniteSet(S), \A k \in S : f[k] \in Nat,
         NEW x, x \notin S, f[x] \in Nat
  PROVE  Cardinality(Units(f, S \cup {x})) = Cardinality(Units(f, S)) + f[x]
<1>1. Units(f, S \cup {x}) = Units(f, S) \cup Block(f, x)
  BY DEF Units
<1>2. Units(f, S) \cap Block(f, x) = {}
  BY DEF Units, Block
<1>3. /\ IsFiniteSet(Units(f, S)) /\ Cardinality(Units(f, S)) \in Nat
      /\ IsFiniteSet(Block(f, x)) /\ Cardinality(Block(f, x)) = f[x]
  BY UnitsFinite, BlockSize
<1>4. Cardinality(Units(f, S) \cup Block(f, x))
        = Cardinality(Units(f, S)) + Cardinality(Block(f, x))
            - Cardinality(Units(f, S) \cap Block(f, x))
  BY <1>3, FS_Union
<1>5. Cardinality(Units(f, S) \cap Block(f, x)) = 0  BY <1>2, FS_EmptySet
<1>6. Cardinality(Units(f, S \cup {x}))
        = Cardinality(Units(f, S)) + Cardinality(Block(f, x)) - 0
  BY <1>1, <1>4, <1>5
<1> QED BY <1>3, <1>6

\* Terms that have the same values have the same sum.
LEMMA UnitsSame ==
  ASSUME NEW f, NEW g, NEW S, \A k \in S : f[k] = g[k]
  PROVE  Units(f, S) = Units(g, S)
<1>1. \A k \in S : Block(f, k) = Block(g, k)  BY DEF Block
<1> QED BY <1>1 DEF Units

------------------------------------------------------------------------------
(***************************************************************************)
(* The fold MapThenSumSet is a recursive function on the subsets of S:     *)
(* some `sum' with Sums(f, S, sum).  There is one (SumsUnits), and it has  *)
(* one value at S (SumsUnique), so that a sum may be counted in units.     *)
(***************************************************************************)

Sums(f, S, sum) ==
  sum = [s \in SUBSET S |->
           IF s = {} THEN 0
           ELSE LET x == CHOOSE x \in s : TRUE IN f[x] + sum[s \ {x}]]

\* Counting units solves the equation.
LEMMA SumsUnits ==
  ASSUME NEW f, NEW S, IsFiniteSet(S), \A k \in S : f[k] \in Nat
  PROVE  Sums(f, S, [s \in SUBSET S |-> Cardinality(Units(f, s))])
<1> DEFINE sum == [s \in SUBSET S |-> Cardinality(Units(f, s))]
<1>1. sum[{}] = 0  BY UnitsOfNothing
<1>2. ASSUME NEW s \in SUBSET S, s # {}, NEW x \in s
      PROVE  sum[s] = f[x] + sum[s \ {x}]
  <2> DEFINE rest == s \ {x}
  <2>1. IsFiniteSet(rest)
    <3>1. rest \in SUBSET S  OBVIOUS
    <3> QED BY <3>1, FS_Subset
  <2>2. s = rest \cup {x} /\ x \notin rest /\ rest \in SUBSET S  BY <1>2
  <2>3. f[x] \in Nat /\ \A k \in rest : f[k] \in Nat  BY <1>2
  <2> HIDE DEF rest
  <2>4. Cardinality(Units(f, rest \cup {x})) = Cardinality(Units(f, rest)) + f[x]
    BY <2>1, <2>2, <2>3, UnitsAdded
  <2>5. Cardinality(Units(f, rest)) \in Nat  BY <2>1, <2>3, UnitsFinite
  <2>6. sum[s] = Cardinality(Units(f, rest)) + f[x]  BY <2>2, <2>4
  <2>7. sum[rest] = Cardinality(Units(f, rest))  BY <2>2
  <2> HIDE DEF sum
  <2> QED BY <2>3, <2>5, <2>6, <2>7 DEF rest
<1>3. ASSUME NEW s \in SUBSET S
      PROVE  sum[s] = IF s = {} THEN 0
                      ELSE LET x == CHOOSE x \in s : TRUE IN f[x] + sum[s \ {x}]
  <2>1. CASE s = {}  BY <1>1, <2>1
  <2>2. CASE s # {}
    <3>1. (CHOOSE x \in s : TRUE) \in s  BY <2>2
    <3> HIDE DEF sum
    <3> QED BY <1>2, <2>2, <3>1
  <2> QED BY <2>1, <2>2
<1> DEFINE goal == [s \in SUBSET S |->
           IF s = {} THEN 0
           ELSE LET x == CHOOSE x \in s : TRUE IN f[x] + sum[s \ {x}]]
<1>4. DOMAIN sum = SUBSET S /\ DOMAIN goal = SUBSET S  OBVIOUS
<1>5. \A s \in SUBSET S : sum[s] = goal[s]
  <2> HIDE DEF sum
  <2> QED BY <1>3
<1>6. sum = [s \in SUBSET S |-> sum[s]] /\ goal = [s \in SUBSET S |-> goal[s]]
  OBVIOUS
<1>7. sum = goal
  <2> HIDE DEF sum, goal
  <2> QED BY <1>5, <1>6
<1> QED BY <1>7 DEF Sums

\* On finite sets the equation has one solution: two that differ would differ
\* on a set none of whose proper subsets they differ on.
LEMMA SumsUnique ==
  ASSUME NEW f, NEW S, IsFiniteSet(S), NEW a, NEW b, Sums(f, S, a), Sums(f, S, b)
  PROVE  a[S] = b[S]
<1> DEFINE Bad == {s \in SUBSET S : a[s] # b[s]}
<1> SUFFICES ASSUME Bad # {} PROVE FALSE  OBVIOUS
<1>1. IsWellFoundedOn(StrictSubsetOrdering(S), SUBSET S)
  BY FS_StrictSubsetOrderingWellFounded, FS_FiniteSubsetsOfFinite
<1>2. PICK s \in Bad : \A t \in Bad : ~(<<t, s>> \in StrictSubsetOrdering(S))
  <2>1. Bad \subseteq SUBSET S  OBVIOUS
  <2> HIDE DEF Bad
  <2> QED BY <1>1, <2>1, WFMin
<1>3. \A t \in SUBSET S :
        /\ a[t] = IF t = {} THEN 0 ELSE LET x == CHOOSE x \in t : TRUE IN f[x] + a[t \ {x}]
        /\ b[t] = IF t = {} THEN 0 ELSE LET x == CHOOSE x \in t : TRUE IN f[x] + b[t \ {x}]
  BY DEF Sums
<1>4. s # {}  BY <1>3
<1> DEFINE x == CHOOSE x \in s : TRUE
           t == s \ {x}
<1>5. x \in s  BY <1>4
<1>6. a[s] = f[x] + a[t] /\ b[s] = f[x] + b[t]  BY <1>3, <1>4
<1>7. a[t] # b[t]  BY <1>6
<1>8. <<t, s>> \in StrictSubsetOrdering(S)  BY <1>5 DEF StrictSubsetOrdering
<1> QED BY <1>2, <1>7, <1>8

------------------------------------------------------------------------------
(* Powers of two, for exponential countdowns.                              *)

\* A power of two counts the subsets of 1..n; one element more doubles them.
LEMMA Doubling ==
  /\ 2 ^ 0 = 1
  /\ \A n \in Nat : 2 ^ n \in Nat /\ 2 ^ (n + 1) = 2 ^ n + 2 ^ n
<1>1. \A n \in Nat : /\ IsFiniteSet(1..n)
                     /\ Cardinality(1..n) = n
                     /\ IsFiniteSet(SUBSET (1..n))
                     /\ Cardinality(SUBSET (1..n)) = 2 ^ n
                     /\ 2 ^ n \in Nat
  <2> TAKE n \in Nat
  <2>1. IsFiniteSet(1..n) /\ Cardinality(1..n) = IF 1 > n THEN 0 ELSE n - 1 + 1
    BY FS_Interval
  <2>2. Cardinality(1..n) = n  BY <2>1
  <2>3. /\ IsFiniteSet(SUBSET (1..n))
        /\ Cardinality(SUBSET (1..n)) = 2 ^ Cardinality(1..n)
    BY <2>1, FS_SUBSET
  <2>4. Cardinality(SUBSET (1..n)) \in Nat  BY <2>3, FS_CardinalityType
  <2> QED BY <2>1, <2>2, <2>3, <2>4
<1>2. \A n \in Nat : 2 ^ (n + 1) = 2 ^ n + 2 ^ n
  <2> TAKE n \in Nat
  <2> DEFINE Small == SUBSET (1..n)
             Large == {A \cup {n + 1} : A \in Small}
             f == [A \in Small |-> A \cup {n + 1}]
  <2>1. f \in Bijection(Small, Large)
    <3>1. f \in [Small -> Large]  OBVIOUS
    <3>2. \A A, B \in Small : f[A] = f[B] => A = B
      <4> SUFFICES ASSUME NEW A \in Small, NEW B \in Small,
                          A \cup {n + 1} = B \cup {n + 1}
                   PROVE  A = B
        OBVIOUS
      <4>1. n + 1 \notin A /\ n + 1 \notin B  OBVIOUS
      <4> QED BY <4>1
    <3>3. \A y \in Large : \E A \in Small : f[A] = y  OBVIOUS
    <3> HIDE DEF f, Small, Large
    <3> QED BY <3>1, <3>2, <3>3, Fun_IsBij
  <2>2. SUBSET (1..(n + 1)) = Small \cup Large
    <3>1. ASSUME NEW A \in SUBSET (1..(n + 1))  PROVE A \in Small \cup Large
      <4>1. CASE n + 1 \notin A
        <5>1. A \subseteq 1..n  BY <4>1
        <5> QED BY <5>1
      <4>2. CASE n + 1 \in A
        <5>1. A \ {n + 1} \in Small  OBVIOUS
        <5>2. A = (A \ {n + 1}) \cup {n + 1}  BY <4>2
        <5> QED BY <5>1, <5>2
      <4> QED BY <4>1, <4>2
    <3>2. \A A \in Small : A \subseteq 1..(n + 1) /\ A \cup {n + 1} \subseteq 1..(n + 1)
      <4> TAKE A \in Small
      <4>1. \A x \in A : x \in 1..(n + 1)  OBVIOUS
      <4>2. n + 1 \in 1..(n + 1)  OBVIOUS
      <4> QED BY <4>1, <4>2
    <3>3. Small \cup Large \subseteq SUBSET (1..(n + 1))  BY <3>2
    <3> QED BY <3>1, <3>3
  <2>3. Small \cap Large = {}
    <3>1. \A A \in Small : n + 1 \notin A  OBVIOUS
    <3>2. \A A \in Large : n + 1 \in A  OBVIOUS
    <3> QED BY <3>1, <3>2
  <2>4. IsFiniteSet(Small) /\ Cardinality(Small) = 2 ^ n  BY <1>1
  <2>5. IsFiniteSet(Large) /\ Cardinality(Large) = 2 ^ n
    <3> HIDE DEF f, Small, Large
    <3>1. ExistsBijection(Small, Large)  BY <2>1 DEF ExistsBijection
    <3> QED BY <3>1, <2>4, FS_Bijection
  <2>6. Cardinality(SUBSET (1..(n + 1))) = 2 ^ (n + 1)
    <3> DEFINE k == n + 1
    <3>1. k \in Nat  OBVIOUS
    <3> HIDE DEF k
    <3>2. Cardinality(SUBSET (1..k)) = 2 ^ k  BY <3>1, <1>1
    <3> QED BY <3>2 DEF k
  <2>7. /\ 2 ^ n \in Nat
        /\ Cardinality({}) = 0
    BY <1>1, FS_EmptySet
  <2> HIDE DEF Small, Large
  <2>8. Cardinality(Small \cup Large)
          = Cardinality(Small) + Cardinality(Large) - Cardinality(Small \cap Large)
    BY <2>4, <2>5, FS_Union
  <2>9. Cardinality(Small \cup Large) = 2 ^ (n + 1)  BY <2>2, <2>6
  <2>10. Cardinality(Small \cap Large) = 0  BY <2>3, <2>7
  <2> QED BY <2>4, <2>5, <2>7, <2>8, <2>9, <2>10
<1>3. 2 ^ 0 = 1  OBVIOUS
<1> QED BY <1>1, <1>2, <1>3
==============================================================================
