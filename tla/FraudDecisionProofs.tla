------------------------- MODULE FraudDecisionProofs -------------------------
(* Lemmas about the arithmetic of the fraud decision, for every raw score    *)
(* and every outcome of the rule engine.                                     *)
EXTENDS FraudDecision, TLAPS

\* Whatever the isolation forest returns, score() stays within 0 .. 1.
LEMMA NormaliseType ==
  ASSUME NEW raw \in Int
  PROVE  Normalise(raw) \in Scores
BY DEF Normalise, Clip, Scores

\* A more anomalous (lower) raw output never yields a lower fraud score.
LEMMA NormaliseAntitone ==
  ASSUME NEW x \in Int, NEW y \in Int, x <= y
  PROVE  Normalise(y) <= Normalise(x)
BY DEF Normalise, Clip

\* analyse_transaction's combination is a verdict in every case.
LEMMA CombineType ==
  ASSUME NEW rule \in RuleOutcomes, NEW ml \in Scores
  PROVE  Combine(rule, ml) \in Verdicts
BY DEF Combine, Verdict, Verdicts, RuleOutcomes, RiskLevels, Decisions, Scores, Larger

\* An approval requires that the rules neither forced a decline nor found a
\* high risk, and that the ML score is below 0.65.
LEMMA ApprovalMeans ==
  ASSUME NEW rule \in RuleOutcomes, NEW ml \in Scores,
         Combine(rule, ml).decision = "approve"
  PROVE  /\ ~rule.shouldDecline
         /\ rule.maxRisk \in {"low", "medium"}
         /\ ml < 6500
         /\ Combine(rule, ml).risk \in {"low", "medium"}
BY DEF Combine, Verdict, RuleOutcomes, RiskLevels, Scores

\* The three places that react to a verdict agree: what is not approved has an
\* alert (create_transaction), and what is e-mailed about (the endpoint) has one.
LEMMA AlertsAgree ==
  ASSUME NEW rule \in RuleOutcomes, NEW ml \in Scores
  PROVE  /\ AlertNeeded(Combine(rule, ml)) <=> Combine(rule, ml).decision # "approve"
         /\ EmailNeeded(Combine(rule, ml)) => AlertNeeded(Combine(rule, ml))
BY DEF AlertNeeded, EmailNeeded, Combine, Verdict, RuleOutcomes, RiskLevels,
       Scores, Larger
==============================================================================
