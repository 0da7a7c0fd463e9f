----------------------------- MODULE RuleEngine ------------------------------
(***************************************************************************)
(* One fraud analysis: the context is built from the request and the       *)
(* user's history, the active rules are fetched and merged with the        *)
(* built-in ones, evaluated one by one in priority order, and the outcome  *)
(* is combined with the ML score.                                          *)
(*                                                                         *)
(* A value a condition can meet is tagged with its Python type: "num" (a   *)
(* number or a bool, in hundredths), "str", "list" (a sequence of values), *)
(* "none", or "ref", a string that names a context field.                  *)
(***************************************************************************)
EXTENDS FraudDecision, Sequences, FiniteSets

CONSTANTS
  Inputs,      \* the analysed requests, with the history and clock they meet
  RuleTables,  \* the contents of fraud_rules: sets of rules with an `active' flag
  OccursIn,    \* the pairs <<s, t>> of texts, s a substring of t
  Upper,       \* str.upper, on the country codes in use
  Printed      \* str(float(n)), on the numbers in use

ASSUME RuleEngineAssumption ==
  /\ \A in \in Inputs : /\ in.amount \in Nat /\ in.balance \in Int
                        /\ in.average \in Nat /\ in.lastHour \in Nat
                        /\ in.raw \in Int
  /\ \A t \in RuleTables :
       /\ IsFiniteSet(t)
       /\ \A r \in t : r.priority \in Int /\ r.risk \in RiskLevels

Num(n)  == [t |-> "num", v |-> n]
Str(s)  == [t |-> "str", v |-> s]
Ref(f)  == [t |-> "ref", v |-> f]
List(s) == [t |-> "list", v |-> s]
None    == [t |-> "none", v |-> 0]
Bool(b) == Num(IF b THEN 100 ELSE 0)     \* float(True) = 1.0

\* A faulty AverageRatio: rounded down, 10.0001 becomes 10.
AverageRatioDown(amount, average) == (100 * amount) \div Larger(average, 100)

\* request.amount / max(avg_amount, 1.0), rounded up to hundredths: exact for
\* the comparisons `>' with a whole number.
AverageRatio(amount, average) ==
  LET divisor == Larger(average, 100) IN (100 * amount + divisor - 1) \div divisor

\* The RuleEvaluationContext analyse_transaction builds.  It never passes
\* device_fingerprint, which therefore keeps its default, None.
Context(in) ==
  [amount                 |-> Num(in.amount),
   currency               |-> in.currency,
   transaction_country    |-> in.country,
   transaction_city       |-> in.city,
   user_home_country      |-> in.home,
   user_home_city         |-> in.homeCity,
   hour_of_day            |-> Num(100 * in.hour),
   day_of_week            |-> Num(100 * in.weekday),
   transactions_last_hour |-> Num(100 * in.lastHour),
   transactions_last_24h  |-> Num(100 * in.lastDay),
   amount_vs_avg_ratio    |-> Num(AverageRatio(in.amount, in.average)),
   is_foreign_transaction |-> Bool(/\ in.country.t # "none"
                                   /\ in.home.t # "none"
                                   /\ Upper[in.country.v] # Upper[in.home.v]),
   account_balance        |-> Num(in.balance),
   merchant_category      |-> in.category,
   device_fingerprint     |-> None]

------------------------------------------------------------------------------
(* Conditions.                                                             *)

Equal(x, y) == x.t = y.t /\ x.v = y.v

Orders(op, x, y) ==
  \/ op = ">"  /\ x > y
  \/ op = ">=" /\ x >= y
  \/ op = "<"  /\ x < y
  \/ op = "<=" /\ x <= y

\* `x in y': membership for a list, substring for two strings.
Within(x, y) ==
  \/ y.t = "list" /\ \E k \in DOMAIN y.v : Equal(x, y.v[k])
  \/ y.t = "str" /\ x.t = "str" /\ <<x.v, y.v>> \in OccursIn

\* `x in y' raises TypeError unless y is a list, or both are strings.
Containable(x, y) == y.t = "list" \/ (x.t = "str" /\ y.t = "str")

Text(x) == IF x.t = "num" THEN Printed[x.v] ELSE x.v

\* OPERATOR_MAP.  A comparison that raises is caught and counts as False, and
\* so does an operator the map does not have.  (Strings are ordered by no
\* rule of the repository: their order is left out.)
Applies(op, x, y) ==
  \/ x.t = "num" /\ y.t = "num" /\ Orders(op, x.v, y.v)
  \/ op = "==" /\ Equal(x, y)
  \/ op = "!=" /\ ~Equal(x, y)
  \/ op = "in" /\ Within(x, y)
  \/ op = "not_in" /\ Containable(x, y) /\ ~Within(x, y)
  \/ op = "contains" /\ y.t = "str" /\ <<y.v, Text(x)>> \in OccursIn

\* _evaluate_condition: an absent field fails, a value that names a field
\* stands for that field.
Holds(cond, ctx) ==
  /\ cond.field \in DOMAIN ctx
  /\ ctx[cond.field].t # "none"
  /\ Applies(cond.op, ctx[cond.field],
             IF cond.value.t = "ref" THEN ctx[cond.value.v] ELSE cond.value)

\* Conditions are joined by AND: a rule without conditions fires on everything.
Fires(rule, ctx) ==
  \A k \in DOMAIN rule.conditions : Holds(rule.conditions[k], ctx)

------------------------------------------------------------------------------
(* Rules.                                                                  *)

Cond(field, op, value) == [field |-> field, op |-> op, value |-> value]

Rule(name, priority, risk, conditions) ==
  [name |-> name, priority |-> priority, risk |-> risk,
   conditions |-> conditions, active |-> TRUE]

SystemRules ==
  << Rule("high_amount_foreign", 10, "high",
       << Cond("amount", ">", Num(500000)),
          Cond("is_foreign_transaction", "==", Bool(TRUE)) >>),
     Rule("velocity_attack", 5, "critical",
       << Cond("transactions_last_hour", ">", Num(500)) >>),
     Rule("overnight_large_transaction", 20, "medium",
       << Cond("amount", ">", Num(100000)), Cond("hour_of_day", "<", Num(400)) >>),
     Rule("extreme_amount_spike", 15, "critical",
       << Cond("amount_vs_avg_ratio", ">", Num(1000)) >>),
     Rule("exceeds_balance", 1, "critical",
       << Cond("amount", ">", Ref("account_balance")) >>) >>

\* A faulty Fetches: the filter on is_active left out.
FetchesAnything(table) ==
  {s \in [1..Cardinality(table) -> table] :
     /\ \A r \in table : \E i \in DOMAIN s : s[i] = r
     /\ \A i, j \in DOMAIN s : i < j => s[i].priority <= s[j].priority}

\* The answers of get_active_db_rules: the active rules ordered by priority,
\* those of one priority in whatever order the database returns them.
Fetches(table) ==
  LET active == {r \in table : r.active}
  IN  {s \in [1..Cardinality(active) -> active] :
         /\ \A r \in active : \E i \in DOMAIN s : s[i] = r
         /\ \A i, j \in DOMAIN s : i < j => s[i].priority <= s[j].priority}

\* sorted(all_rules, key=priority): a stable sort, element i going to the
\* place Rank(s, i), the number of elements up to and including it.
Precedes(s, j, i) ==
  \/ s[j].priority < s[i].priority
  \/ s[j].priority = s[i].priority /\ j <= i

Rank(s, i) == Cardinality({j \in DOMAIN s : Precedes(s, j, i)})

\* A faulty ByPriority: the database's rules just appended.
Unsorted(s) == s

ByPriority(s) ==
  [k \in DOMAIN s |-> s[CHOOSE i \in DOMAIN s : Rank(s, i) = k]]

------------------------------------------------------------------------------
(* The evaluation.                                                         *)

VARIABLES
  input,          \* what is analysed
  table,          \* fraud_rules
  rules,          \* RuleEngine._rules, <<>> until fetched
  at,             \* position of the loop of evaluate(), 0 before it starts
  triggered,      \* result.triggered_rules
  maxWeight,      \* the loop's max_weight
  maxRisk,        \* result.max_risk_level
  shouldDecline,  \* result.should_decline
  verdicts        \* the FraudAnalysisResult: none or one verdict

vars == <<input, table, rules, at, triggered, maxWeight, maxRisk,
          shouldDecline, verdicts>>

ctx == Context(input)

Init ==
  /\ input \in Inputs
  /\ table \in RuleTables
  /\ rules = <<>>
  /\ at = 0
  /\ triggered = <<>>
  /\ maxWeight = RiskWeight["low"]
  /\ maxRisk = "low"
  /\ shouldDecline = FALSE
  /\ verdicts = {}

LoadRules ==
  /\ at = 0
  /\ \E fetched \in Fetches(table) : rules' = ByPriority(SystemRules \o fetched)
  /\ at' = 1
  /\ UNCHANGED <<input, table, triggered, maxWeight, maxRisk, shouldDecline, verdicts>>

\* A faulty Escalate: one level is skipped.
EscalateByTwo(risk) ==
  IF RiskWeight[risk] > maxWeight + 1
    THEN /\ maxWeight' = RiskWeight[risk]
         /\ maxRisk' = risk
         /\ shouldDecline' = (shouldDecline \/ risk = "critical")
    ELSE UNCHANGED <<maxWeight, maxRisk, shouldDecline>>

\* The part of evaluate()'s loop body under `if all_passed'.
Escalate(risk) ==
  IF RiskWeight[risk] > maxWeight
    THEN /\ maxWeight' = RiskWeight[risk]
         /\ maxRisk' = risk
         /\ shouldDecline' = (shouldDecline \/ risk = "critical")
    ELSE UNCHANGED <<maxWeight, maxRisk, shouldDecline>>

EvaluateRule ==
  /\ at \in DOMAIN rules
  /\ IF Fires(rules[at], ctx)
       THEN /\ triggered' = Append(triggered, rules[at].name)
            /\ Escalate(rules[at].risk)
       ELSE UNCHANGED <<triggered, maxWeight, maxRisk, shouldDecline>>
  /\ at' = at + 1
  /\ UNCHANGED <<input, table, rules, verdicts>>

Outcome ==
  [maxRisk |-> maxRisk, shouldDecline |-> shouldDecline, fired |-> triggered # <<>>]

Decide ==
  /\ at > 0
  /\ at \notin DOMAIN rules
  /\ verdicts = {}
  /\ verdicts' = {Combine(Outcome, Normalise(input.raw))}
  /\ UNCHANGED <<input, table, rules, at, triggered, maxWeight, maxRisk, shouldDecline>>

Next == LoadRules \/ EvaluateRule \/ Decide

Spec == Init /\ [][Next]_vars

------------------------------------------------------------------------------
(* Properties.                                                             *)

\* The rules in force for this analysis, however they are ordered.
InForce == {SystemRules[k] : k \in DOMAIN SystemRules} \cup {r \in table : r.active}

\* Every variable stays within its type, and triggered_rules names only rules
\* that are in force.
TypeOK ==
  /\ input \in Inputs
  /\ table \in RuleTables
  /\ at \in Nat
  /\ DOMAIN rules = 1..Len(rules)
  /\ triggered \in Seq({r.name : r \in InForce})
  /\ maxRisk \in RiskLevels
  /\ maxWeight \in 1..4
  /\ shouldDecline \in BOOLEAN
  /\ verdicts \subseteq Verdicts

Fired == {r \in InForce : Fires(r, ctx)}

\* The single pass with its running maximum finds the worst risk among all the
\* rules in force that fire, in whatever order the database returned the rules
\* of one priority: should_decline is set exactly when a critical one fires, and
\* the risk is `low' exactly when none fires above it.  (evaluate, should_decline
\* set only inside `weight > max_weight'.)
WorstRuleWins ==
  verdicts # {} =>
    /\ shouldDecline <=> \E r \in Fired : r.risk = "critical"
    /\ \A r \in Fired : RiskWeight[r.risk] <= RiskWeight[maxRisk]
    /\ maxRisk = "low" \/ \E r \in Fired : r.risk = maxRisk

\* triggered_rules names every rule in force that fires, once, most urgent
\* priority first: the list stored in rule_flags is complete and ordered.
TriggeredIsComplete ==
  verdicts # {} =>
    /\ {triggered[k] : k \in DOMAIN triggered} = {r.name : r \in Fired}
    /\ Len(triggered) = Cardinality(Fired)
    /\ \A i, j \in DOMAIN triggered : \A r, s \in Fired :
         i < j /\ r.name = triggered[i] /\ s.name = triggered[j]
           => r.priority <= s.priority

\* Whatever rules the staff add, an approved transaction is within the balance
\* that was read, within the velocity limit, and at most ten times the user's
\* average: the built-in rules cannot be outvoted or shadowed.
SystemRulesBind ==
  \A v \in verdicts : v.decision = "approve" =>
    /\ input.amount <= input.balance
    /\ input.lastHour <= 5
    /\ input.amount <= 10 * Larger(input.average, 100)

\* A transaction that is not approved always leaves a FraudAlert for the
\* analysts, and an alert e-mail is only ever queued for one that has such an
\* alert: the thresholds of the three places agree.
BlockedIsAlerted ==
  \A v \in verdicts :
    /\ v.decision # "approve" => AlertNeeded(v)
    /\ EmailNeeded(v) => AlertNeeded(v)

\* No rule evaluated later lowers the risk or takes a decline back.
RiskNeverDrops ==
  [][ /\ RiskWeight[maxRisk'] >= RiskWeight[maxRisk]
      /\ shouldDecline => shouldDecline' ]_vars

------------------------------------------------------------------------------
(* What the documentation says.                                            *)

\* README, Risk Scoring: MEDIUM, 0.50 to 0.64, is flagged for review; CRITICAL,
\* 0.80 to 1.0, is declined automatically.
ScoreBandsDecide ==
  \A v \in verdicts :
    /\ v.score \in 5000..6499 => v.decision = "flag"
    /\ v.score >= 8000 => v.decision = "decline"
==============================================================================
