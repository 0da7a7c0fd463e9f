-------------------------- MODULE RuleEngineProofs ---------------------------
(***************************************************************************)
(* The rule engine finds the worst risk, and the built-in rules bind every *)
(* approval, whatever rules the staff have stored and in whatever order    *)
(* the database returns the rules of one priority.                         *)
(*                                                                         *)
(* The argument: the stable sort is a permutation (SortKeepsRules), so the *)
(* loop runs over exactly the rules in force; the loop invariant LoopInv   *)
(* says what the running maximum stands for after `at - 1' rules, and      *)
(* TraceInv which rules the list of triggered ones stands for; when the    *)
(* loop has ended these are statements about all of them.                  *)
(***************************************************************************)
EXTENDS RuleEngine, FraudDecisionProofs, FiniteSetTheorems

------------------------------------------------------------------------------
(* Sorting.                                                                *)

\* Places are numbered 1 .. n, and two elements never share one.
LEMMA RankInjective ==
  ASSUME NEW s, NEW n \in Nat, DOMAIN s = 1..n,
         \A i \in 1..n : s[i].priority \in Int
  PROVE  /\ \A i \in 1..n : Rank(s, i) \in 1..n
         /\ \A i, j \in 1..n : Precedes(s, i, j) /\ i # j => Rank(s, i) < Rank(s, j)
         /\ \A i, j \in 1..n : Rank(s, i) = Rank(s, j) => i = j
<1> DEFINE Upto(i) == {j \in 1..n : Precedes(s, j, i)}
<1>1. \A i \in 1..n : Rank(s, i) = Cardinality(Upto(i))
  BY DEF Rank
<1>2. IsFiniteSet(1..n) /\ Cardinality(1..n) = n
  <2>1. /\ IsFiniteSet(1..n)
        /\ Cardinality(1..n) = IF 1 > n THEN 0 ELSE n - 1 + 1
    BY FS_Interval
  <2> QED BY <2>1
<1>3. \A i \in 1..n : /\ IsFiniteSet(Upto(i))
                      /\ Cardinality(Upto(i)) \in Nat
                      /\ Cardinality(Upto(i)) <= n
                      /\ i \in Upto(i)
  <2> TAKE i \in 1..n
  <2>1. Upto(i) \in SUBSET (1..n)  OBVIOUS
  <2>2. IsFiniteSet(Upto(i)) /\ Cardinality(Upto(i)) <= n
    BY <2>1, <1>2, FS_Subset
  <2>3. Cardinality(Upto(i)) \in Nat  BY <2>2, FS_CardinalityType
  <2>4. i \in Upto(i)  BY DEF Precedes
  <2> QED BY <2>2, <2>3, <2>4
<1>4. \A i \in 1..n : Rank(s, i) \in 1..n
  <2> TAKE i \in 1..n
  <2>1. Cardinality(Upto(i)) # 0  BY <1>3, FS_EmptySet
  <2> HIDE DEF Upto
  <2> QED BY <2>1, <1>1, <1>3
<1>5. \A i, j \in 1..n : Precedes(s, i, j) /\ i # j => Rank(s, i) < Rank(s, j)
  <2> TAKE i, j \in 1..n
  <2> HAVE Precedes(s, i, j) /\ i # j
  <2>1. Upto(i) \in SUBSET Upto(j)  BY DEF Precedes
  <2>2. j \notin Upto(i)  BY DEF Precedes
  <2>3. Upto(i) # Upto(j)  BY <2>2, <1>3
  <2>4. /\ Cardinality(Upto(i)) <= Cardinality(Upto(j))
        /\ Cardinality(Upto(i)) # Cardinality(Upto(j))
    <3> HIDE DEF Upto
    <3> QED BY <2>1, <2>3, <1>3, FS_Subset
  <2> HIDE DEF Upto
  <2> QED BY <2>4, <1>1, <1>3
<1>6. \A i, j \in 1..n : Rank(s, i) = Rank(s, j) => i = j
  <2> TAKE i, j \in 1..n
  <2>1. Precedes(s, i, j) \/ Precedes(s, j, i)  BY DEF Precedes
  <2> QED BY <2>1, <1>4, <1>5
<1> QED BY <1>4, <1>5, <1>6

\* Every place is taken.
LEMMA RankSurjective ==
  ASSUME NEW s, NEW n \in Nat, DOMAIN s = 1..n,
         \A i \in 1..n : s[i].priority \in Int
  PROVE  \A k \in 1..n : \E i \in 1..n : Rank(s, i) = k
<1> DEFINE f == [i \in 1..n |-> Rank(s, i)]
<1>1. f \in Injection(1..n, 1..n)
  <2>1. \A i \in 1..n : Rank(s, i) \in 1..n  BY RankInjective
  <2>2. \A i, j \in 1..n : Rank(s, i) = Rank(s, j) => i = j  BY RankInjective
  <2>3. f \in [1..n -> 1..n]  BY <2>1
  <2>4. \A i, j \in DOMAIN f : f[i] = f[j] => i = j  BY <2>2
  <2> QED BY <2>3, <2>4 DEF Injection, IsInjective
<1>2. IsFiniteSet(1..n)  BY FS_Interval
<1>3. f \in Surjection(1..n, 1..n)
  <2> HIDE DEF f
  <2> QED BY <1>1, <1>2, FS_Injection
<1> QED BY <1>3 DEF Surjection

\* No two of the first n elements have the same name.
Named(s, n) == \A i, j \in 1..n : s[i].name = s[j].name => i = j

\* The stable sort returns the elements it was given, no more and no fewer, each
\* once, in non-decreasing priority.
LEMMA SortKeepsRules ==
  ASSUME NEW s, NEW n \in Nat, DOMAIN s = 1..n,
         \A i \in 1..n : s[i].priority \in Int
  PROVE  /\ DOMAIN ByPriority(s) = 1..n
         /\ {ByPriority(s)[k] : k \in 1..n} = {s[k] : k \in 1..n}
         /\ \A i, j \in 1..n :
              i < j => ByPriority(s)[i].priority <= ByPriority(s)[j].priority
         /\ Named(s, n) => Named(ByPriority(s), n)
<1> DEFINE At(k) == CHOOSE i \in 1..n : Rank(s, i) = k
<1>1. \A k \in 1..n : At(k) \in 1..n /\ Rank(s, At(k)) = k
  BY RankSurjective
<1>2. DOMAIN ByPriority(s) = 1..n /\ \A k \in 1..n : ByPriority(s)[k] = s[At(k)]
  BY DEF ByPriority
<1>3. \A i \in 1..n : At(Rank(s, i)) = i
  BY <1>1, RankInjective
<1>4. \A i \in 1..n : \E k \in 1..n : ByPriority(s)[k] = s[i]
  <2> TAKE i \in 1..n
  <2>1. Rank(s, i) \in 1..n  BY RankInjective
  <2> WITNESS Rank(s, i) \in 1..n
  <2> QED BY <2>1, <1>2, <1>3
<1>5. \A i, j \in 1..n :
        i < j => ByPriority(s)[i].priority <= ByPriority(s)[j].priority
  <2> TAKE i, j \in 1..n
  <2> HAVE i < j
  <2>1. At(i) \in 1..n /\ At(j) \in 1..n /\ At(i) # At(j)  BY <1>1
  <2> HIDE DEF At
  <2>2. ~Precedes(s, At(j), At(i))
    <3>1. \A x, y \in 1..n : Precedes(s, x, y) /\ x # y => Rank(s, x) < Rank(s, y)
      BY RankInjective
    <3>2. Rank(s, At(i)) = i /\ Rank(s, At(j)) = j  BY <1>1
    <3>3. ~(Rank(s, At(j)) < Rank(s, At(i)))  BY <3>2
    <3> QED BY <2>1, <3>1, <3>3
  <2>3. s[At(i)].priority <= s[At(j)].priority  BY <2>1, <2>2 DEF Precedes
  <2> QED BY <2>3, <1>2
<1> HIDE DEF At
<1>6. Named(s, n) => Named(ByPriority(s), n)
  <2> SUFFICES ASSUME Named(s, n), NEW i \in 1..n, NEW j \in 1..n,
                      s[At(i)].name = s[At(j)].name
               PROVE  i = j
    BY <1>2 DEF Named
  <2>1. At(i) = At(j)  BY <1>1 DEF Named
  <2> QED BY <1>1, <2>1
<1> QED BY <1>1, <1>2, <1>4, <1>5, <1>6

------------------------------------------------------------------------------
(* The rules the loop runs over.                                           *)

WellFormed(r) == r.priority \in Int /\ r.risk \in RiskLevels

LEMMA SystemRulesWellFormed ==
  /\ DOMAIN SystemRules = 1..5
  /\ Len(SystemRules) = 5
  /\ SystemRules \in Seq({SystemRules[k] : k \in DOMAIN SystemRules})
  /\ \A k \in 1..5 : WellFormed(SystemRules[k])
<1>1. DOMAIN SystemRules = 1..5 /\ Len(SystemRules) = 5  BY DEF SystemRules
<1>2. SystemRules \in Seq({SystemRules[k] : k \in DOMAIN SystemRules})
  <2> DEFINE S == {SystemRules[k] : k \in DOMAIN SystemRules}
  <2>1. \A k \in 1..5 : SystemRules[k] \in S  BY <1>1
  <2>2. SystemRules = [k \in 1..5 |-> SystemRules[k]]  BY DEF SystemRules
  <2> QED BY <2>1, <2>2, 5 \in Nat
<1>3. \A k \in 1..5 : WellFormed(SystemRules[k])
  <2>1. WellFormed(SystemRules[1])  BY DEF SystemRules, WellFormed, Rule, RiskLevels
  <2>2. WellFormed(SystemRules[2])  BY DEF SystemRules, WellFormed, Rule, RiskLevels
  <2>3. WellFormed(SystemRules[3])  BY DEF SystemRules, WellFormed, Rule, RiskLevels
  <2>4. WellFormed(SystemRules[4])  BY DEF SystemRules, WellFormed, Rule, RiskLevels
  <2>5. WellFormed(SystemRules[5])  BY DEF SystemRules, WellFormed, Rule, RiskLevels
  <2>6. \A k \in 1..5 : k = 1 \/ k = 2 \/ k = 3 \/ k = 4 \/ k = 5  OBVIOUS
  <2> QED BY <2>1, <2>2, <2>3, <2>4, <2>5, <2>6
<1> QED BY <1>1, <1>2, <1>3

LEMMA Concatenation ==
  ASSUME NEW A, NEW B, NEW s \in Seq(A), NEW t \in Seq(B)
  PROVE  /\ DOMAIN (s \o t) = 1..(Len(s) + Len(t))
         /\ \A k \in 1..Len(s) : (s \o t)[k] = s[k]
         /\ \A k \in 1..Len(t) : (s \o t)[Len(s) + k] = t[k]
<1>1. Len(s) \in Nat /\ Len(t) \in Nat  OBVIOUS
<1>2. Len(s \o t) = Len(s) + Len(t)  OBVIOUS
<1>3. s \o t \in Seq(A \cup B)
  <2>1. s \in Seq(A \cup B) /\ t \in Seq(A \cup B)  OBVIOUS
  <2> QED BY <2>1
<1>4. DOMAIN (s \o t) = 1..Len(s \o t)  BY <1>3
<1>5. \A k \in 1..Len(s) : (s \o t)[k] = s[k]  BY <1>1
<1>6. \A k \in 1..Len(t) : (s \o t)[Len(s) + k] = t[k]  BY <1>1
<1> QED BY <1>2, <1>4, <1>5, <1>6

\* The active rules of a table and the built-in ones, as a set.
RulesOf(t) ==
  {SystemRules[k] : k \in DOMAIN SystemRules} \cup {r \in t : r.active}

\* The name column of fraud_rules is unique; that no stored rule also takes the
\* name of a built-in one is left to the staff.
ApartIn(t) ==
  \A r \in t : r.active =>
    /\ \A s \in t : s.active /\ s.name = r.name => s = r
    /\ \A k \in DOMAIN SystemRules : SystemRules[k].name # r.name

LEMMA SystemRulesNamed == Named(SystemRules, 5)
<1>1. /\ SystemRules[1].name = "high_amount_foreign"
      /\ SystemRules[2].name = "velocity_attack"
      /\ SystemRules[3].name = "overnight_large_transaction"
      /\ SystemRules[4].name = "extreme_amount_spike"
      /\ SystemRules[5].name = "exceeds_balance"
  BY DEF SystemRules, Rule
<1>2. \A k \in 1..5 : k = 1 \/ k = 2 \/ k = 3 \/ k = 4 \/ k = 5  OBVIOUS
<1> QED BY <1>1, <1>2 DEF Named

\* RuleEngine.__init__ ends up with exactly the rules in force, in order, each
\* of them once if no two have the same name.
LEMMA LoadedRules ==
  ASSUME NEW t \in RuleTables, NEW fetched \in Fetches(t)
  PROVE  LET loaded == ByPriority(SystemRules \o fetched) IN
         /\ Len(loaded) \in Nat
         /\ DOMAIN loaded = 1..Len(loaded)
         /\ {loaded[k] : k \in DOMAIN loaded} = RulesOf(t)
         /\ \A i, j \in 1..Len(loaded) :
              i < j => loaded[i].priority <= loaded[j].priority
         /\ ApartIn(t) => Named(loaded, Len(loaded))
<1> DEFINE active == {r \in t : r.active}
           c == Cardinality(active)
           all == SystemRules \o fetched
           S == {SystemRules[k] : k \in DOMAIN SystemRules}
<1>1. IsFiniteSet(active) /\ c \in Nat
  <2>1. IsFiniteSet(t)  BY RuleEngineAssumption
  <2>2. active \in SUBSET t  OBVIOUS
  <2>3. IsFiniteSet(active)  BY <2>1, <2>2, FS_Subset
  <2> QED BY <2>3, FS_CardinalityType
<1>2. /\ fetched \in [1..c -> active]
      /\ \A r \in active : \E i \in 1..c : fetched[i] = r
  BY DEF Fetches
<1>3. \A r \in active : WellFormed(r)
  BY RuleEngineAssumption DEF WellFormed
<1> HIDE DEF active, c
<1>4. fetched \in Seq(active) /\ Len(fetched) = c
  BY <1>1, <1>2
<1>5. /\ DOMAIN all = 1..(5 + c)
      /\ \A k \in 1..5 : all[k] = SystemRules[k]
      /\ \A k \in 1..c : all[5 + k] = fetched[k]
  <2>1. SystemRules \in Seq(S) /\ Len(SystemRules) = 5  BY SystemRulesWellFormed
  <2> HIDE DEF S
  <2> DEFINE sys == SystemRules
  <2>2. /\ DOMAIN (sys \o fetched) = 1..(Len(sys) + Len(fetched))
        /\ \A k \in 1..Len(sys) : (sys \o fetched)[k] = sys[k]
        /\ \A k \in 1..Len(fetched) : (sys \o fetched)[Len(sys) + k] = fetched[k]
    <3>1. sys \in Seq(S) /\ fetched \in Seq(active)  BY <2>1, <1>4
    <3> HIDE DEF sys
    <3>2. DOMAIN (sys \o fetched) = 1..(Len(sys) + Len(fetched))  BY <3>1, Concatenation
    <3>3. \A k \in 1..Len(sys) : (sys \o fetched)[k] = sys[k]  BY <3>1, Concatenation
    <3>4. \A k \in 1..Len(fetched) : (sys \o fetched)[Len(sys) + k] = fetched[k]
      BY <3>1, Concatenation
    <3> QED BY <3>2, <3>3, <3>4
  <2> QED BY <2>1, <2>2, <1>4
<1>6. \A k \in 1..(5 + c) : k \in 1..5 \/ \E i \in 1..c : k = 5 + i
  <2> TAKE k \in 1..(5 + c)
  <2>1. CASE k <= 5  BY <2>1
  <2>2. CASE k > 5
    <3>1. k - 5 \in 1..c /\ k = 5 + (k - 5)  BY <1>1, <2>2
    <3> QED BY <3>1
  <2> QED BY <1>1, <2>1, <2>2
<1> HIDE DEF all
<1>7. {all[k] : k \in 1..(5 + c)} = RulesOf(t)
  <2>1. \A k \in 1..(5 + c) : all[k] \in RulesOf(t)
    BY <1>2, <1>5, <1>6, SystemRulesWellFormed DEF RulesOf, active
  <2>2. \A r \in RulesOf(t) : \E k \in 1..(5 + c) : all[k] = r
    <3> TAKE r \in RulesOf(t)
    <3>1. CASE \E k \in 1..5 : r = SystemRules[k]
      BY <3>1, <1>1, <1>5
    <3>2. CASE r \in active
      <4>1. PICK i \in 1..c : fetched[i] = r  BY <3>2, <1>2
      <4>2. 5 + i \in 1..(5 + c) /\ all[5 + i] = r  BY <4>1, <1>1, <1>5
      <4> QED BY <4>2
    <3> QED BY <3>1, <3>2, SystemRulesWellFormed DEF RulesOf, active
  <2> QED BY <2>1, <2>2
<1>8. \A k \in 1..(5 + c) : all[k].priority \in Int
  <2>1. \A k \in 1..5 : all[k].priority \in Int
    BY <1>5, SystemRulesWellFormed DEF WellFormed
  <2>2. \A i \in 1..c : all[5 + i].priority \in Int
    BY <1>2, <1>3, <1>5 DEF WellFormed
  <2> QED BY <1>6, <2>1, <2>2
<1>9. 5 + c \in Nat  BY <1>1
<1>10. /\ DOMAIN ByPriority(all) = 1..(5 + c)
       /\ {ByPriority(all)[k] : k \in 1..(5 + c)} = {all[k] : k \in 1..(5 + c)}
  <2> DEFINE n == 5 + c
  <2>1. n \in Nat /\ DOMAIN all = 1..n /\ \A k \in 1..n : all[k].priority \in Int
    BY <1>5, <1>8, <1>9
  <2> HIDE DEF n
  <2>2. DOMAIN ByPriority(all) = 1..n
    BY <2>1, SortKeepsRules
  <2>3. {ByPriority(all)[k] : k \in 1..n} = {all[k] : k \in 1..n}
    BY <2>1, SortKeepsRules
  <2> QED BY <2>2, <2>3 DEF n
<1>11. Len(ByPriority(all)) = 5 + c
  BY <1>9, <1>10
<1>12. ApartIn(t) => Named(all, 5 + c)
  <2> SUFFICES ASSUME ApartIn(t) PROVE Named(all, 5 + c)  OBVIOUS
  <2>1. \A i, j \in 1..c : fetched[i] = fetched[j] => i = j
    <3>1. fetched \in Surjection(1..c, active)  BY <1>2 DEF Surjection
    <3>2. IsFiniteSet(1..c) /\ Cardinality(1..c) = c
      <4>1. /\ IsFiniteSet(1..c)
            /\ Cardinality(1..c) = IF 1 > c THEN 0 ELSE c - 1 + 1
        BY <1>1, FS_Interval
      <4> QED BY <1>1, <4>1
    <3>3. fetched \in Injection(1..c, active)
      <4>1. Cardinality(active) = c  BY DEF c
      <4> QED BY <3>1, <3>2, <4>1, FS_Surjection
    <3> QED BY <3>3 DEF Injection, IsInjective
  <2>2. \A i, j \in 1..c : fetched[i].name = fetched[j].name => i = j
    <3> TAKE i, j \in 1..c
    <3> HAVE fetched[i].name = fetched[j].name
    <3>1. fetched[i] \in active /\ fetched[j] \in active  BY <1>2
    <3>2. fetched[i] = fetched[j]  BY <3>1 DEF ApartIn, active
    <3> QED BY <2>1, <3>2
  <2>3. \A k \in 1..5, i \in 1..c : SystemRules[k].name # fetched[i].name
    BY <1>2, SystemRulesWellFormed DEF ApartIn, active
  <2> SUFFICES ASSUME NEW i \in 1..(5 + c), NEW j \in 1..(5 + c), all[i].name = all[j].name
               PROVE  i = j
    BY DEF Named
  <2>4. CASE i \in 1..5 /\ j \in 1..5
    BY <1>5, <2>4, SystemRulesNamed DEF Named
  <2>5. CASE (\E x \in 1..c : i = 5 + x) /\ (\E y \in 1..c : j = 5 + y)
    BY <1>5, <2>2, <2>5
  <2>6. CASE i \in 1..5 /\ \E y \in 1..c : j = 5 + y
    BY <1>5, <2>3, <2>6
  <2>7. CASE (\E x \in 1..c : i = 5 + x) /\ j \in 1..5
    BY <1>5, <2>3, <2>7
  <2> QED BY <1>6, <2>4, <2>5, <2>6, <2>7
<1>13. /\ \A i, j \in 1..(5 + c) :
            i < j => ByPriority(all)[i].priority <= ByPriority(all)[j].priority
       /\ Named(all, 5 + c) => Named(ByPriority(all), 5 + c)
  <2> DEFINE n == 5 + c
  <2>1. n \in Nat /\ DOMAIN all = 1..n /\ \A k \in 1..n : all[k].priority \in Int
    BY <1>5, <1>8, <1>9
  <2> HIDE DEF n
  <2>2. \A i, j \in 1..n :
          i < j => ByPriority(all)[i].priority <= ByPriority(all)[j].priority
    BY <2>1, SortKeepsRules
  <2>3. Named(all, n) => Named(ByPriority(all), n)
    BY <2>1, SortKeepsRules
  <2> QED BY <2>2, <2>3 DEF n
<1> QED BY <1>7, <1>9, <1>10, <1>11, <1>12, <1>13 DEF all

------------------------------------------------------------------------------
(* The loop.                                                               *)

LoopType ==
  /\ input \in Inputs
  /\ table \in RuleTables
  /\ at \in Nat
  /\ triggered \in Seq({r.name : r \in InForce})
  /\ maxRisk \in RiskLevels
  /\ shouldDecline \in BOOLEAN

\* Before the loop there are no rules and no verdict; once it runs, it runs over
\* the rules in force.
Loaded ==
  /\ Len(rules) \in Nat /\ DOMAIN rules = 1..Len(rules)
  /\ at = 0 => rules = <<>> /\ verdicts = {} /\ maxRisk = "low"
  /\ at > 0 => {rules[k] : k \in DOMAIN rules} = InForce
  /\ at <= Len(rules) + 1

\* What the running maximum stands for after the rules before `at'.
Running ==
  /\ maxWeight = RiskWeight[maxRisk]
  /\ shouldDecline <=> maxRisk = "critical"
  /\ \A k \in DOMAIN rules :
       k < at /\ Fires(rules[k], ctx) => RiskWeight[rules[k].risk] <= maxWeight
  /\ \/ maxRisk = "low"
     \/ \E k \in DOMAIN rules :
          k < at /\ Fires(rules[k], ctx) /\ rules[k].risk = maxRisk

Concluded ==
  verdicts # {} =>
    /\ at > 0
    /\ at = Len(rules) + 1
    /\ verdicts = {Combine(Outcome, Normalise(input.raw))}

LoopInv == LoopType /\ Loaded /\ Running /\ Concluded

LEMMA InForceWellFormed ==
  ASSUME table \in RuleTables
  PROVE  \A r \in InForce : WellFormed(r)
BY SystemRulesWellFormed, RuleEngineAssumption DEF InForce, WellFormed

LEMMA WeightsOrdered ==
  /\ \A x \in RiskLevels : RiskWeight[x] \in 1..4
  /\ \A x \in RiskLevels : RiskWeight[x] = 4 <=> x = "critical"
  /\ RiskWeight["low"] = 1
BY DEF RiskLevels, RiskWeight

LEMMA LoopInit == Init => LoopInv
<1> SUFFICES ASSUME Init PROVE LoopInv  OBVIOUS
<1>1. LoopType
  <2>1. shouldDecline \in BOOLEAN  BY Zenon DEF Init
  <2>2. /\ input \in Inputs /\ table \in RuleTables /\ at \in Nat
        /\ triggered \in Seq({r.name : r \in InForce}) /\ maxRisk \in RiskLevels
    BY DEF Init, RiskLevels
  <2> QED BY <2>1, <2>2, Zenon DEF LoopType
<1>2. Loaded  BY DEF Init, Loaded
<1>3. Running  BY DEF Init, Running, RiskWeight
<1>4. Concluded  BY DEF Init, Concluded
<1> QED BY <1>1, <1>2, <1>3, <1>4 DEF LoopInv

LEMMA LoopLoad == LoopInv /\ LoadRules => LoopInv'
<1> SUFFICES ASSUME LoopInv, LoadRules PROVE LoopInv'  OBVIOUS
<1> USE DEF LoopInv
<1>1. PICK fetched \in Fetches(table) : rules' = ByPriority(SystemRules \o fetched)
  BY DEF LoadRules
<1>2. /\ at = 0 /\ at' = 1 /\ maxRisk = "low" /\ verdicts = {}
      /\ UNCHANGED <<input, table, triggered, maxWeight, maxRisk, shouldDecline, verdicts>>
  BY DEF LoadRules, Loaded
<1>3. /\ Len(rules') \in Nat
      /\ DOMAIN rules' = 1..Len(rules')
      /\ {rules'[k] : k \in DOMAIN rules'} = InForce
  <2>1. RulesOf(table) = InForce  BY DEF RulesOf, InForce
  <2> DEFINE loaded == ByPriority(SystemRules \o fetched)
  <2>2. /\ Len(loaded) \in Nat
        /\ DOMAIN loaded = 1..Len(loaded)
        /\ {loaded[k] : k \in DOMAIN loaded} = RulesOf(table)
    BY LoadedRules DEF LoopType
  <2>3. rules' = loaded  BY <1>1
  <2> HIDE DEF loaded
  <2> QED BY <2>1, <2>2, <2>3
<1>4. LoopType'  BY <1>2 DEF LoopType, InForce
<1>5. Loaded'
  <2>1. InForce' = InForce  BY <1>2 DEF InForce
  <2>2. at' # 0 /\ at' <= Len(rules') + 1  BY <1>2, <1>3
  <2> QED BY <1>3, <2>1, <2>2 DEF Loaded
<1>6. Running'  BY <1>2, <1>3 DEF Running
<1>7. Concluded'  BY <1>2 DEF Concluded
<1> QED BY <1>4, <1>5, <1>6, <1>7

LEMMA LoopStep == LoopInv /\ EvaluateRule => LoopInv'
<1> SUFFICES ASSUME LoopInv, EvaluateRule PROVE LoopInv'  OBVIOUS
<1> USE DEF LoopInv
<1>1. /\ at \in 1..Len(rules) /\ at' = at + 1
      /\ Len(rules) \in Nat /\ DOMAIN rules = 1..Len(rules)
      /\ rules' = rules /\ input' = input /\ table' = table /\ verdicts' = verdicts
      /\ ctx' = ctx
      /\ at \in Nat
  BY DEF EvaluateRule, Loaded, LoopType, ctx
<1>2. WellFormed(rules[at])
  BY <1>1, InForceWellFormed DEF Loaded, LoopType
<1>3. verdicts = {}
  BY <1>1 DEF Concluded
<1>4. Loaded'
  <2>1. InForce' = InForce  BY <1>1 DEF InForce
  <2>2. at' # 0 /\ at > 0 /\ at' <= Len(rules) + 1  BY <1>1
  <2> QED BY <1>1, <2>1, <2>2 DEF Loaded
<1>5. Concluded'
  BY <1>1, <1>3 DEF Concluded
<1>6. CASE ~Fires(rules[at], ctx)
  <2>1. UNCHANGED <<triggered, maxWeight, maxRisk, shouldDecline>>
    BY <1>6 DEF EvaluateRule
  <2>2. LoopType'  BY <1>1, <2>1 DEF LoopType, InForce
  <2>3. \A k \in DOMAIN rules : k < at' /\ Fires(rules[k], ctx) => k < at
    BY <1>1, <1>6
  <2>4. \A k \in DOMAIN rules : k < at => k < at'  BY <1>1
  <2>5. Running'  BY <1>1, <2>1, <2>3, <2>4 DEF Running
  <2> QED BY <1>4, <1>5, <2>2, <2>5
<1>7. CASE Fires(rules[at], ctx)
  <2> DEFINE risk == rules[at].risk
  <2>1. risk \in RiskLevels /\ maxRisk \in RiskLevels
    BY <1>2 DEF WellFormed, LoopType
  <2>2. triggered' \in Seq({r.name : r \in InForce})'
    <3>1. triggered' = Append(triggered, rules[at].name)  BY <1>7 DEF EvaluateRule
    <3>2. rules[at] \in InForce /\ InForce' = InForce  BY <1>1 DEF Loaded, InForce
    <3> QED BY <3>1, <3>2 DEF LoopType
  <2>3. Escalate(risk)  BY <1>7 DEF EvaluateRule
  <2> HIDE DEF risk
  <2>4. \A k \in DOMAIN rules : k < at' => k < at \/ k = at  BY <1>1
  <2>5. \A k \in DOMAIN rules : k < at => k < at'  BY <1>1
  <2>6. at \in DOMAIN rules /\ at < at'  BY <1>1
  <2>7. rules[at].risk = risk  BY DEF risk
  <2>8. CASE RiskWeight[risk] > maxWeight
    <3>1. /\ maxWeight' = RiskWeight[risk] /\ maxRisk' = risk
          /\ shouldDecline' = (shouldDecline \/ risk = "critical")
      BY <2>3, <2>8 DEF Escalate
    <3>2. maxRisk # "critical"
      BY <2>1, <2>8, WeightsOrdered DEF Running
    <3>3. shouldDecline' <=> maxRisk' = "critical"
      BY <3>1, <3>2 DEF Running, LoopType
    <3>4. LoopType'  BY <1>1, <2>1, <2>2, <3>1 DEF LoopType
    <3>5. \A k \in DOMAIN rules :
            k < at /\ Fires(rules[k], ctx) => RiskWeight[rules[k].risk] <= RiskWeight[risk]
      <4> TAKE k \in DOMAIN rules
      <4> HAVE k < at /\ Fires(rules[k], ctx)
      <4>1. WellFormed(rules[k])  BY <1>1, InForceWellFormed DEF Loaded, LoopType
      <4>2. RiskWeight[rules[k].risk] <= maxWeight  BY DEF Running
      <4>3. /\ RiskWeight[rules[k].risk] \in 1..4 /\ RiskWeight[risk] \in 1..4
            /\ maxWeight \in 1..4
        BY <4>1, <2>1, WeightsOrdered DEF Running, WellFormed
      <4> QED BY <2>8, <4>2, <4>3
    <3>6. RiskWeight[risk] <= RiskWeight[risk]  BY <2>1, WeightsOrdered
    <3>7. Running'
      BY <1>1, <1>7, <2>4, <2>6, <2>7, <3>1, <3>3, <3>5, <3>6 DEF Running
    <3> QED BY <1>4, <1>5, <3>4, <3>7
  <2>9. CASE ~(RiskWeight[risk] > maxWeight)
    <3>1. UNCHANGED <<maxWeight, maxRisk, shouldDecline>>
      BY <2>3, <2>9 DEF Escalate
    <3>2. RiskWeight[risk] <= maxWeight
      BY <2>1, <2>9, WeightsOrdered DEF Running
    <3>3. LoopType'  BY <1>1, <2>2, <3>1 DEF LoopType
    <3>4. Running'
      BY <1>1, <2>4, <2>5, <2>7, <3>1, <3>2 DEF Running
    <3> QED BY <1>4, <1>5, <3>3, <3>4
  <2> QED BY <2>8, <2>9
<1> QED BY <1>6, <1>7

LEMMA LoopDecide == LoopInv /\ Decide => LoopInv'
<1> SUFFICES ASSUME LoopInv, Decide PROVE LoopInv'  OBVIOUS
<1> USE DEF LoopInv
<1>1. /\ at > 0 /\ at \notin DOMAIN rules
      /\ verdicts' = {Combine(Outcome, Normalise(input.raw))}
      /\ UNCHANGED <<input, table, rules, at, triggered, maxWeight, maxRisk, shouldDecline>>
  BY DEF Decide
<1>2. at = Len(rules) + 1  BY <1>1 DEF Loaded, LoopType
<1>3. LoopType'  BY <1>1 DEF LoopType, InForce
<1>4. Loaded'
  <2>1. InForce' = InForce  BY <1>1 DEF InForce
  <2>2. at # 0 /\ at' = at /\ rules' = rules  BY <1>1 DEF LoopType
  <2> QED BY <2>1, <2>2 DEF Loaded
<1>5. Running'  BY <1>1 DEF Running, ctx
<1>6. Concluded'  BY <1>1, <1>2 DEF Concluded, Outcome
<1> QED BY <1>3, <1>4, <1>5, <1>6

LEMMA LoopInvariant == Spec => []LoopInv
<1>1. LoopInv /\ UNCHANGED vars => LoopInv'
  <2> SUFFICES ASSUME LoopInv, UNCHANGED vars PROVE LoopInv'  OBVIOUS
  <2>1. InForce' = InForce /\ ctx' = ctx /\ Outcome' = Outcome
    BY DEF vars, InForce, ctx, Outcome
  <2>2. LoopType'  BY <2>1 DEF vars, LoopInv, LoopType
  <2>3. Loaded'  BY <2>1 DEF vars, LoopInv, Loaded
  <2>4. Running'  BY <2>1 DEF vars, LoopInv, Running
  <2>5. Concluded'  BY <2>1 DEF vars, LoopInv, Concluded
  <2> QED BY <2>2, <2>3, <2>4, <2>5 DEF LoopInv
<1>2. LoopInv /\ [Next]_vars => LoopInv'
  BY <1>1, LoopLoad, LoopStep, LoopDecide DEF Next
<1> QED BY LoopInit, <1>2, PTL DEF Spec

------------------------------------------------------------------------------
(***************************************************************************)
(* The list of triggered rules.  Its k-th entry stands for the rule at     *)
(* some place pos[k] of the loop's sequence; the places increase, and no   *)
(* rule that fires is passed over.                                         *)
(***************************************************************************)

Traces(pos) ==
  /\ pos \in [1..Len(triggered) -> DOMAIN rules]
  /\ \A i, j \in 1..Len(triggered) : i < j => pos[i] < pos[j]
  /\ \A i \in 1..Len(triggered) :
       /\ pos[i] < at
       /\ Fires(rules[pos[i]], ctx)
       /\ triggered[i] = rules[pos[i]].name
  /\ \A k \in DOMAIN rules :
       k < at /\ Fires(rules[k], ctx) => \E i \in 1..Len(triggered) : pos[i] = k

Traced == \E pos : Traces(pos)

\* What the loop runs over is sorted, and has each name once if the stored
\* rules' names are apart.
NamesApart == ApartIn(table)

Ordered ==
  /\ \A i, j \in DOMAIN rules : i < j => rules[i].priority <= rules[j].priority
  /\ NamesApart => Named(rules, Len(rules))

TraceInv == Ordered /\ Traced /\ (at = 0 => triggered = <<>>)

\* Another entry, for the rule at `at', leaves the others where they are.
LEMMA TraceExtended ==
  ASSUME LoopInv, EvaluateRule, Fires(rules[at], ctx), NEW pos, Traces(pos)
  PROVE  Traced'
<1> DEFINE n == Len(triggered)
           longer == [i \in 1..(n + 1) |-> IF i <= n THEN pos[i] ELSE at]
<1>1. /\ at \in DOMAIN rules /\ at \in Nat /\ at' = at + 1
      /\ rules' = rules /\ ctx' = ctx
      /\ triggered' = Append(triggered, rules[at].name)
      /\ DOMAIN rules = 1..Len(rules) /\ Len(rules) \in Nat
  BY DEF EvaluateRule, ctx, LoopInv, LoopType, Loaded
<1>2. n \in Nat /\ triggered \in Seq({r.name : r \in InForce})
  BY DEF LoopInv, LoopType
<1>3. /\ Len(triggered') = n + 1
      /\ \A i \in 1..n : triggered'[i] = triggered[i]
      /\ triggered'[n + 1] = rules[at].name
  BY <1>1, <1>2
<1>4. /\ pos \in [1..n -> DOMAIN rules]
      /\ \A i, j \in 1..n : i < j => pos[i] < pos[j]
      /\ \A i \in 1..n : /\ pos[i] < at
                         /\ Fires(rules[pos[i]], ctx)
                         /\ triggered[i] = rules[pos[i]].name
      /\ \A k \in DOMAIN rules :
           k < at /\ Fires(rules[k], ctx) => \E i \in 1..n : pos[i] = k
  BY DEF Traces
<1> HIDE DEF n
<1>5. /\ longer \in [1..(n + 1) -> DOMAIN rules]
      /\ \A i \in 1..n : longer[i] = pos[i]
      /\ longer[n + 1] = at
  BY <1>1, <1>2, <1>4
<1> HIDE DEF longer
<1>6. \A i \in 1..(n + 1) : i \in 1..n \/ i = n + 1  BY <1>2
<1>7. \A i, j \in 1..(n + 1) : i < j => longer[i] < longer[j]
  <2> TAKE i, j \in 1..(n + 1)
  <2> HAVE i < j
  <2>1. i \in 1..n  BY <1>2
  <2>2. CASE j \in 1..n  BY <1>4, <1>5, <2>1, <2>2
  <2>3. CASE j = n + 1  BY <1>4, <1>5, <2>1, <2>3
  <2> QED BY <1>6, <2>2, <2>3
<1>8. \A i \in 1..(n + 1) :
        /\ longer[i] < at + 1
        /\ Fires(rules[longer[i]], ctx)
        /\ triggered'[i] = rules[longer[i]].name
  <2> TAKE i \in 1..(n + 1)
  <2>1. CASE i \in 1..n
    <3>1. pos[i] \in Nat /\ pos[i] < at  BY <1>1, <1>4, <2>1
    <3> QED BY <1>1, <1>3, <1>4, <1>5, <2>1, <3>1
  <2>2. CASE i = n + 1  BY <1>1, <1>3, <1>5, <2>2
  <2> QED BY <1>6, <2>1, <2>2
<1>9. ASSUME NEW k \in DOMAIN rules, k < at + 1, Fires(rules[k], ctx)
      PROVE  \E i \in 1..(n + 1) : longer[i] = k
  <2>1. CASE k < at
    <3>1. PICK i \in 1..n : pos[i] = k  BY <1>4, <1>9, <2>1
    <3>2. i \in 1..(n + 1) /\ longer[i] = k  BY <1>2, <1>5, <3>1
    <3> QED BY <3>2
  <2>2. CASE k = at
    <3>1. n + 1 \in 1..(n + 1)  BY <1>2
    <3> QED BY <1>5, <2>2, <3>1
  <2> QED BY <1>1, <1>9, <2>1, <2>2
<1>10. /\ longer \in [1..Len(triggered') -> DOMAIN rules']
       /\ \A i, j \in 1..Len(triggered') : i < j => longer[i] < longer[j]
       /\ \A i \in 1..Len(triggered') :
            /\ longer[i] < at'
            /\ Fires(rules'[longer[i]], ctx')
            /\ triggered'[i] = rules'[longer[i]].name
       /\ \A k \in DOMAIN rules' :
            k < at' /\ Fires(rules'[k], ctx') => \E i \in 1..Len(triggered') : longer[i] = k
  BY <1>1, <1>3, <1>5, <1>7, <1>8, <1>9
<1> QED BY <1>10 DEF Traced, Traces

LEMMA TraceInit == Init => TraceInv
<1> SUFFICES ASSUME Init PROVE TraceInv  OBVIOUS
<1>1. rules = <<>> /\ triggered = <<>> /\ at = 0  BY DEF Init
<1>2. Ordered  BY <1>1 DEF Ordered, Named
<1>3. Traces(<<>>)
  <2>1. <<>> \in [1..Len(triggered) -> DOMAIN rules]  BY <1>1
  <2> QED BY <1>1, <2>1 DEF Traces
<1> QED BY <1>1, <1>2, <1>3 DEF TraceInv, Traced

\* Fetching the rules starts an empty trace, a rule that does not fire keeps it.
LEMMA TraceNext == LoopInv /\ TraceInv /\ [Next]_vars => TraceInv'
<1> SUFFICES ASSUME LoopInv, TraceInv, [Next]_vars PROVE TraceInv'  OBVIOUS
<1>1. CASE LoadRules
  <2>1. PICK fetched \in Fetches(table) : rules' = ByPriority(SystemRules \o fetched)
    BY <1>1 DEF LoadRules
  <2>2. /\ at = 0 /\ at' = 1 /\ triggered = <<>> /\ triggered' = <<>> /\ table' = table
    BY <1>1 DEF LoadRules, TraceInv
  <2>3. /\ Len(rules') \in Nat /\ DOMAIN rules' = 1..Len(rules')
        /\ \A i, j \in 1..Len(rules') : i < j => rules'[i].priority <= rules'[j].priority
        /\ ApartIn(table) => Named(rules', Len(rules'))
    <3> DEFINE loaded == ByPriority(SystemRules \o fetched)
    <3>1. /\ Len(loaded) \in Nat /\ DOMAIN loaded = 1..Len(loaded)
          /\ \A i, j \in 1..Len(loaded) : i < j => loaded[i].priority <= loaded[j].priority
          /\ ApartIn(table) => Named(loaded, Len(loaded))
      BY LoadedRules DEF LoopInv, LoopType
    <3>2. rules' = loaded  BY <2>1
    <3> HIDE DEF loaded
    <3> QED BY <3>1, <3>2
  <2>4. Ordered'  BY <2>2, <2>3 DEF Ordered, NamesApart
  <2>5. /\ <<>> \in [1..Len(triggered') -> DOMAIN rules']
        /\ \A k \in DOMAIN rules' : ~(k < at')
        /\ 1..Len(triggered') = {}
    BY <2>2, <2>3
  <2>6. Traced'
    <3>1. Traces(<<>>)'  BY <2>5 DEF Traces
    <3> QED BY <3>1 DEF Traced
  <2> QED BY <2>2, <2>4, <2>6 DEF TraceInv
<1>2. CASE EvaluateRule
  <2>1. /\ at \in DOMAIN rules /\ at \in Nat /\ at' = at + 1
        /\ rules' = rules /\ table' = table /\ ctx' = ctx
        /\ DOMAIN rules = 1..Len(rules) /\ Len(rules) \in Nat
    BY <1>2 DEF EvaluateRule, ctx, LoopInv, LoopType, Loaded
  <2>2. Ordered'  BY <2>1 DEF TraceInv, Ordered, NamesApart
  <2>3. PICK pos : Traces(pos)  BY DEF TraceInv, Traced
  <2>4. CASE Fires(rules[at], ctx)
    <3>1. Traced'  BY <1>2, <2>3, <2>4, TraceExtended
    <3> QED BY <2>1, <2>2, <3>1 DEF TraceInv
  <2>5. CASE ~Fires(rules[at], ctx)
    <3>1. triggered' = triggered  BY <1>2, <2>5 DEF EvaluateRule
    <3>2. \A k \in DOMAIN rules :
            k < at' /\ Fires(rules[k], ctx) => k < at
      BY <2>1, <2>5
    <3>3. \A k \in DOMAIN rules : k < at => k < at'  BY <2>1
    <3>4. /\ pos \in [1..Len(triggered') -> DOMAIN rules']
          /\ \A i, j \in 1..Len(triggered') : i < j => pos[i] < pos[j]
          /\ \A i \in 1..Len(triggered') :
               /\ pos[i] < at'
               /\ Fires(rules'[pos[i]], ctx')
               /\ triggered'[i] = rules'[pos[i]].name
          /\ \A k \in DOMAIN rules' :
               k < at' /\ Fires(rules'[k], ctx') => \E i \in 1..Len(triggered') : pos[i] = k
      BY <2>1, <2>3, <3>1, <3>2, <3>3 DEF Traces
    <3>5. Traced'  BY <3>4 DEF Traced, Traces
    <3> QED BY <2>1, <2>2, <3>5 DEF TraceInv
  <2> QED BY <2>4, <2>5
<1>3. CASE Decide \/ UNCHANGED vars
  <2>1. UNCHANGED <<input, table, rules, at, triggered>> /\ ctx' = ctx
    BY <1>3 DEF Decide, vars, ctx
  <2>2. Ordered'  BY <2>1 DEF TraceInv, Ordered, NamesApart
  <2>3. PICK pos : Traces(pos)  BY DEF TraceInv, Traced
  <2>4. Traced'
    <3>1. /\ pos \in [1..Len(triggered') -> DOMAIN rules']
          /\ \A i, j \in 1..Len(triggered') : i < j => pos[i] < pos[j]
          /\ \A i \in 1..Len(triggered') :
               /\ pos[i] < at'
               /\ Fires(rules'[pos[i]], ctx')
               /\ triggered'[i] = rules'[pos[i]].name
          /\ \A k \in DOMAIN rules' :
               k < at' /\ Fires(rules'[k], ctx') => \E i \in 1..Len(triggered') : pos[i] = k
      BY <2>1, <2>3 DEF Traces
    <3> QED BY <3>1 DEF Traced, Traces
  <2> QED BY <2>1, <2>2, <2>4 DEF TraceInv
<1> QED BY <1>1, <1>2, <1>3 DEF Next

LEMMA TraceInvariant == Spec => []TraceInv
BY TraceInit, TraceNext, LoopInvariant, PTL DEF Spec

\* When the loop has ended, the places of the entries are those of the rules
\* that fire.
LEMMA TraceEnds ==
  ASSUME LoopInv, verdicts # {}, NEW pos, Traces(pos)
  PROVE  /\ \A i \in 1..Len(triggered) :
              /\ rules[pos[i]] \in Fired
              /\ triggered[i] = rules[pos[i]].name
         /\ \A r \in Fired : \E i \in 1..Len(triggered) : rules[pos[i]] = r
<1>1. /\ {rules[k] : k \in DOMAIN rules} = InForce
      /\ \A k \in DOMAIN rules : k < at
  BY DEF LoopInv, Loaded, Concluded
<1>2. ASSUME NEW i \in 1..Len(triggered)
      PROVE  rules[pos[i]] \in Fired /\ triggered[i] = rules[pos[i]].name
  BY <1>1 DEF Traces, Fired
<1>3. ASSUME NEW r \in Fired
      PROVE  \E i \in 1..Len(triggered) : rules[pos[i]] = r
  <2>1. PICK k \in DOMAIN rules : rules[k] = r  BY <1>1 DEF Fired
  <2>2. Fires(rules[k], ctx)  BY <2>1 DEF Fired
  <2>3. PICK i \in 1..Len(triggered) : pos[i] = k  BY <1>1, <2>2 DEF Traces
  <2> QED BY <2>1, <2>3
<1> QED BY <1>2, <1>3

------------------------------------------------------------------------------
(* The theorems.                                                           *)

LEMMA OutcomeType ==
  ASSUME LoopInv
  PROVE  Outcome \in RuleOutcomes
BY DEF LoopInv, LoopType, Outcome, RuleOutcomes

\* Every variable keeps its type.
THEOREM TypeCorrect == Spec => []TypeOK
<1>1. LoopInv => TypeOK
  <2> SUFFICES ASSUME LoopInv PROVE TypeOK  OBVIOUS
  <2>1. Normalise(input.raw) \in Scores
    BY NormaliseType, RuleEngineAssumption DEF LoopInv, LoopType
  <2>2. Combine(Outcome, Normalise(input.raw)) \in Verdicts
    BY <2>1, OutcomeType, CombineType
  <2>3. verdicts \subseteq Verdicts
    BY <2>2 DEF LoopInv, Concluded
  <2>4. maxWeight \in 1..4
    BY WeightsOrdered DEF LoopInv, LoopType, Running
  <2>5. DOMAIN rules = 1..Len(rules)
    BY DEF LoopInv, Loaded
  <2> QED BY <2>3, <2>4, <2>5 DEF LoopInv, LoopType, TypeOK
<1> QED BY <1>1, LoopInvariant, PTL

\* At the end of the loop the running maximum is the maximum over every rule in
\* force: no tie, no order and no number of stored rules can hide the worst.
THEOREM FindsWorstRule == Spec => []WorstRuleWins
<1>1. LoopInv => WorstRuleWins
  <2> SUFFICES ASSUME LoopInv, verdicts # {}
               PROVE  /\ shouldDecline <=> \E r \in Fired : r.risk = "critical"
                      /\ \A r \in Fired : RiskWeight[r.risk] <= RiskWeight[maxRisk]
                      /\ maxRisk = "low" \/ \E r \in Fired : r.risk = maxRisk
    BY DEF WorstRuleWins
  <2>1. /\ {rules[k] : k \in DOMAIN rules} = InForce
        /\ \A k \in DOMAIN rules : k < at
    BY DEF LoopInv, Loaded, Concluded
  <2>2. \A r \in Fired : RiskWeight[r.risk] <= RiskWeight[maxRisk]
    BY <2>1 DEF LoopInv, Running, Fired
  <2>3. maxRisk = "low" \/ \E r \in Fired : r.risk = maxRisk
    BY <2>1 DEF LoopInv, Running, Fired
  <2>4. \A r \in Fired : r.risk = "critical" => maxRisk = "critical"
    <3> TAKE r \in Fired
    <3> HAVE r.risk = "critical"
    <3>1. RiskWeight["critical"] = 4  BY DEF RiskWeight
    <3>2. RiskWeight[maxRisk] \in 1..4 /\ maxRisk \in RiskLevels
      BY WeightsOrdered DEF LoopInv, LoopType
    <3>3. 4 <= RiskWeight[maxRisk]  BY <2>2, <3>1
    <3> QED BY <3>2, <3>3, WeightsOrdered
  <2>5. shouldDecline <=> maxRisk = "critical"  BY DEF LoopInv, Running
  <2>6. shouldDecline <=> \E r \in Fired : r.risk = "critical"
    BY <2>3, <2>4, <2>5
  <2> QED BY <2>2, <2>3, <2>6
<1> QED BY <1>1, LoopInvariant, PTL

\* What is not approved has an alert, and an e-mail is only about an alert.
THEOREM AlertsAreConsistent == Spec => []BlockedIsAlerted
<1>1. LoopInv => BlockedIsAlerted
  <2> SUFFICES ASSUME LoopInv, NEW v \in verdicts
               PROVE  /\ v.decision # "approve" => AlertNeeded(v)
                      /\ EmailNeeded(v) => AlertNeeded(v)
    BY DEF BlockedIsAlerted
  <2>1. v = Combine(Outcome, Normalise(input.raw))
    BY DEF LoopInv, Concluded
  <2>2. Normalise(input.raw) \in Scores
    BY NormaliseType, RuleEngineAssumption DEF LoopInv, LoopType
  <2> QED BY <2>1, <2>2, OutcomeType, AlertsAgree
<1> QED BY <1>1, LoopInvariant, PTL

\* Rounding the ratio up to hundredths does not change the comparison with 10.
LEMMA RatioBound ==
  ASSUME NEW amount \in Nat, NEW average \in Nat,
         ~(AverageRatio(amount, average) > 1000)
  PROVE  amount <= 10 * Larger(average, 100)
<1> DEFINE d == Larger(average, 100)
           x == 100 * amount + d - 1
<1>1. d \in Nat /\ d >= 100  BY DEF Larger
<1> HIDE DEF d
<1>2. x \in Int  BY <1>1
<1>3. x \div d <= 1000  BY <1>1 DEF AverageRatio, d
<1> HIDE DEF x
<1>4. x < d * ((x \div d) + 1)  BY <1>1, <1>2
<1>5. (x \div d) + 1 <= 1001  BY <1>1, <1>2, <1>3
<1>6. d * ((x \div d) + 1) <= d * 1001  BY <1>1, <1>2, <1>5
<1>7. x < 1001 * d  BY <1>1, <1>2, <1>4, <1>6
<1>8. 100 * amount < 1000 * d + 1  BY <1>1, <1>7 DEF x
<1> QED BY <1>1, <1>8 DEF d

\* The three built-in rules of critical risk, on the context of this analysis.
LEMMA CriticalRulesQuiet ==
  ASSUME input \in Inputs, \A r \in Fired : r.risk # "critical"
  PROVE  /\ input.amount <= input.balance
         /\ input.lastHour <= 5
         /\ input.amount <= 10 * Larger(input.average, 100)
<1>1. /\ input.amount \in Nat /\ input.balance \in Int
      /\ input.average \in Nat /\ input.lastHour \in Nat
  BY RuleEngineAssumption
<1>2. \A k \in 1..5 : SystemRules[k].risk = "critical" => ~Fires(SystemRules[k], ctx)
  BY SystemRulesWellFormed DEF Fired, InForce
<1>3. ~Fires(SystemRules[2], ctx) /\ ~Fires(SystemRules[4], ctx) /\ ~Fires(SystemRules[5], ctx)
  BY <1>2 DEF SystemRules, Rule
<1>4. input.lastHour <= 5
  <2>1. ~Holds(Cond("transactions_last_hour", ">", Num(500)), ctx)
    BY <1>3 DEF Fires, SystemRules, Rule
  <2>2. ~(100 * input.lastHour > 500)
    BY <2>1 DEF Holds, Cond, Applies, Orders, ctx, Context, Num
  <2> QED BY <1>1, <2>2
<1>5. ~(AverageRatio(input.amount, input.average) > 1000)
  <2>1. ~Holds(Cond("amount_vs_avg_ratio", ">", Num(1000)), ctx)
    BY <1>3 DEF Fires, SystemRules, Rule
  <2> QED BY <2>1 DEF Holds, Cond, Applies, Orders, ctx, Context, Num
<1>6. ~(input.amount > input.balance)
  <2>1. ~Holds(Cond("amount", ">", Ref("account_balance")), ctx)
    BY <1>3 DEF Fires, SystemRules, Rule
  <2> QED BY <2>1 DEF Holds, Cond, Applies, Orders, ctx, Context, Num, Ref
<1> QED BY <1>1, <1>4, <1>5, <1>6, RatioBound

\* No stored rule, and no order of rules, can outvote the built-in ones: an
\* approval is within balance, velocity limit and ten times the average.
THEOREM SystemRulesCannotBeBypassed == Spec => []SystemRulesBind
<1>1. LoopInv /\ WorstRuleWins => SystemRulesBind
  <2> SUFFICES ASSUME LoopInv, WorstRuleWins, NEW v \in verdicts, v.decision = "approve"
               PROVE  /\ input.amount <= input.balance
                      /\ input.lastHour <= 5
                      /\ input.amount <= 10 * Larger(input.average, 100)
    BY DEF SystemRulesBind
  <2>1. v = Combine(Outcome, Normalise(input.raw))
    BY DEF LoopInv, Concluded
  <2>2. input \in Inputs  BY DEF LoopInv, LoopType
  <2>3. Normalise(input.raw) \in Scores
    BY <2>2, NormaliseType, RuleEngineAssumption
  <2>4. ~Outcome.shouldDecline
    BY <2>1, <2>3, OutcomeType, ApprovalMeans
  <2>5. \A r \in Fired : r.risk # "critical"
    BY <2>4 DEF WorstRuleWins, Outcome
  <2> QED BY <2>2, <2>5, CriticalRulesQuiet
<1> QED BY <1>1, LoopInvariant, FindsWorstRule, PTL

\* No step of the evaluation lowers the risk or takes a decline back.
THEOREM RiskOnlyRises == Spec => RiskNeverDrops
<1>1. LoopInv /\ [Next]_vars
        => [/\ RiskWeight[maxRisk'] >= RiskWeight[maxRisk]
            /\ shouldDecline => shouldDecline']_vars
  <2> SUFFICES ASSUME LoopInv, Next
               PROVE  /\ RiskWeight[maxRisk'] >= RiskWeight[maxRisk]
                      /\ shouldDecline => shouldDecline'
    OBVIOUS
  <2>1. RiskWeight[maxRisk] \in 1..4 /\ maxWeight = RiskWeight[maxRisk]
    BY WeightsOrdered DEF LoopInv, LoopType, Running
  <2>2. CASE LoadRules  BY <2>1, <2>2 DEF LoadRules
  <2>3. CASE Decide  BY <2>1, <2>3 DEF Decide
  <2>4. CASE EvaluateRule
    <3>1. CASE Fires(rules[at], ctx) /\ RiskWeight[rules[at].risk] > maxWeight
      <4>1. /\ maxRisk' = rules[at].risk
            /\ shouldDecline' = (shouldDecline \/ rules[at].risk = "critical")
        BY <2>4, <3>1 DEF EvaluateRule, Escalate
      <4>2. rules[at].risk \in RiskLevels
        BY <2>4, InForceWellFormed
        DEF EvaluateRule, LoopInv, Loaded, LoopType, WellFormed
      <4>3. RiskWeight[rules[at].risk] \in 1..4  BY <4>2, WeightsOrdered
      <4>4. RiskWeight[maxRisk'] >= RiskWeight[maxRisk]  BY <2>1, <3>1, <4>1, <4>3
      <4>5. shouldDecline => shouldDecline'  BY <4>1, Zenon
      <4> QED BY <4>4, <4>5, Zenon
    <3>2. CASE ~(Fires(rules[at], ctx) /\ RiskWeight[rules[at].risk] > maxWeight)
      <4>1. maxRisk' = maxRisk /\ shouldDecline' = shouldDecline
        BY <2>4, <3>2 DEF EvaluateRule, Escalate
      <4> QED BY <2>1, <4>1
    <3> QED BY <3>1, <3>2
  <2> QED BY <2>2, <2>3, <2>4 DEF Next
<1> QED BY <1>1, LoopInvariant, PTL DEF Spec, RiskNeverDrops

\* triggered_rules, and with it rule_flags, names what fired and nothing else,
\* even where a stored rule has taken the name of a built-in one.
THEOREM FlagsNameWhatFired ==
  Spec => [](verdicts # {} =>
               {triggered[k] : k \in DOMAIN triggered} = {r.name : r \in Fired})
<1>1. LoopInv /\ TraceInv /\ verdicts # {} =>
        {triggered[k] : k \in DOMAIN triggered} = {r.name : r \in Fired}
  <2> SUFFICES ASSUME LoopInv, TraceInv, verdicts # {}
               PROVE  {triggered[k] : k \in DOMAIN triggered} = {r.name : r \in Fired}
    OBVIOUS
  <2>1. PICK pos : Traces(pos)  BY DEF TraceInv, Traced
  <2>2. DOMAIN triggered = 1..Len(triggered)  BY DEF LoopInv, LoopType
  <2>3. /\ \A i \in 1..Len(triggered) :
             rules[pos[i]] \in Fired /\ triggered[i] = rules[pos[i]].name
        /\ \A r \in Fired : \E i \in 1..Len(triggered) : rules[pos[i]] = r
    BY <2>1, TraceEnds
  <2>4. \A i \in 1..Len(triggered) : triggered[i] \in {r.name : r \in Fired}  BY <2>3
  <2>5. \A r \in Fired : \E i \in 1..Len(triggered) : triggered[i] = r.name  BY <2>3
  <2> QED BY <2>2, <2>4, <2>5
<1> QED BY <1>1, LoopInvariant, TraceInvariant, PTL

\* As long as no stored rule takes the name of a built-in one, it names each
\* rule that fired once, most urgent first.  (Where one does, a name has two
\* priorities, and the order cannot be read off the names.)
THEOREM FlagsAreCompleteAndOrdered == Spec => [](NamesApart => TriggeredIsComplete)
<1>1. LoopInv /\ TraceInv /\ NamesApart => TriggeredIsComplete
  <2> SUFFICES ASSUME LoopInv, TraceInv, NamesApart, verdicts # {}
               PROVE  /\ {triggered[k] : k \in DOMAIN triggered} = {r.name : r \in Fired}
                      /\ Len(triggered) = Cardinality(Fired)
                      /\ \A i, j \in DOMAIN triggered : \A r, s \in Fired :
                           i < j /\ r.name = triggered[i] /\ s.name = triggered[j]
                             => r.priority <= s.priority
    BY DEF TriggeredIsComplete
  <2> DEFINE n == Len(triggered)
  <2>1. PICK pos : Traces(pos)  BY DEF TraceInv, Traced
  <2>2. DOMAIN triggered = 1..n /\ n \in Nat  BY DEF LoopInv, LoopType
  <2>3. /\ \A i \in 1..n : rules[pos[i]] \in Fired /\ triggered[i] = rules[pos[i]].name
        /\ \A r \in Fired : \E i \in 1..n : rules[pos[i]] = r
    BY <2>1, TraceEnds
  <2>4. /\ DOMAIN rules = 1..Len(rules) /\ Len(rules) \in Nat
        /\ \A i, j \in DOMAIN rules : rules[i].name = rules[j].name => i = j
        /\ \A i, j \in DOMAIN rules : i < j => rules[i].priority <= rules[j].priority
    BY DEF LoopInv, Loaded, TraceInv, Ordered, Named
  <2>5. /\ pos \in [1..n -> DOMAIN rules]
        /\ \A i, j \in 1..n : i < j => pos[i] < pos[j]
    BY <2>1 DEF Traces
  <2> HIDE DEF n
  <2>6. {triggered[k] : k \in DOMAIN triggered} = {r.name : r \in Fired}
    <3>1. \A i \in 1..n : triggered[i] \in {r.name : r \in Fired}  BY <2>3
    <3>2. \A r \in Fired : \E i \in 1..n : triggered[i] = r.name  BY <2>3
    <3> QED BY <2>2, <3>1, <3>2
  <2>7. n = Cardinality(Fired)
    <3> DEFINE f == [i \in 1..n |-> rules[pos[i]]]
    <3>1. f \in Surjection(1..n, Fired)
      <4>1. f \in [1..n -> Fired] /\ \A r \in Fired : \E i \in 1..n : f[i] = r
        BY <2>3
      <4> HIDE DEF f
      <4> QED BY <4>1 DEF Surjection
    <3>2. f \in Injection(1..n, Fired)
      <4>1. f \in [1..n -> Fired]  BY <2>3
      <4>2. ASSUME NEW i \in 1..n, NEW j \in 1..n, f[i] = f[j] PROVE i = j
        <5>1. pos[i] \in DOMAIN rules /\ pos[j] \in DOMAIN rules  BY <2>5
        <5>2. pos[i] = pos[j]  BY <2>4, <4>2, <5>1
        <5>3. pos[i] \in Int  BY <2>4, <5>1
        <5> QED BY <2>2, <2>5, <5>2, <5>3
      <4> HIDE DEF f
      <4> QED BY <4>1, <4>2 DEF Injection, IsInjective
    <3>3. IsFiniteSet(1..n) /\ Cardinality(1..n) = n
      <4>1. /\ IsFiniteSet(1..n)
            /\ Cardinality(1..n) = IF 1 > n THEN 0 ELSE n - 1 + 1
        BY <2>2, FS_Interval
      <4> QED BY <2>2, <4>1
    <3> HIDE DEF f
    <3> QED BY <3>1, <3>2, <3>3, FS_Surjection
  <2>8. ASSUME NEW i \in 1..n, NEW j \in 1..n, NEW r \in Fired, NEW s \in Fired,
               i < j, r.name = triggered[i], s.name = triggered[j]
        PROVE  r.priority <= s.priority
    <3>1. PICK x \in 1..n : rules[pos[x]] = r  BY <2>3
    <3>2. PICK y \in 1..n : rules[pos[y]] = s  BY <2>3
    <3>3. /\ pos[i] \in DOMAIN rules /\ pos[j] \in DOMAIN rules
          /\ pos[x] \in DOMAIN rules /\ pos[y] \in DOMAIN rules
      BY <2>5
    <3>4. pos[x] = pos[i] /\ pos[y] = pos[j]
      BY <2>3, <2>4, <2>8, <3>1, <3>2, <3>3
    <3>5. pos[i] < pos[j]  BY <2>5, <2>8
    <3> QED BY <2>4, <3>1, <3>2, <3>3, <3>4, <3>5
  <2> QED BY <2>2, <2>6, <2>7, <2>8 DEF n
<1> QED BY <1>1, LoopInvariant, TraceInvariant, PTL
==============================================================================
