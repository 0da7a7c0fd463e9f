---------------------------- MODULE FraudDecision ----------------------------
(***************************************************************************)
(* The arithmetic of the fraud decision: the ML score as FraudScoring-     *)
(* Service.score normalises it, and analyse_transaction's combination of   *)
(* the rule engine's outcome with that score into one verdict, from which  *)
(* the ledger row's status, the FraudAlert row and the alert e-mail follow. *)
(*                                                                         *)
(* Scores are fixed-point: the code rounds them to four decimals, so a     *)
(* score is an integer of 0 .. 10000 ten-thousandths.  The raw output of   *)
(* the isolation forest is an integer number of 1/25000, the grid on which *)
(* the code's clip range [-0.25, 0.15] maps exactly onto those scores.     *)
(***************************************************************************)
EXTENDS Integers

RiskLevels == {"low", "medium", "high", "critical"}

\* RISK_LEVEL_WEIGHTS.
RiskWeight == [low |-> 1, medium |-> 2, high |-> 3, critical |-> 4]

Decisions == {"approve", "flag", "decline"}

Scores == 0..10000

Larger(a, b) == IF a >= b THEN a ELSE b

Clip(x, low, high) == IF x < low THEN low ELSE IF x > high THEN high ELSE x

\* score(): 1 - (clip(raw, -0.25, 0.15) + 0.25) / 0.40, clipped to [0, 1].
Normalise(raw) == Clip(10000 - (Clip(raw, -6250, 3750) + 6250), 0, 10000)

Verdicts == [risk : RiskLevels, decision : Decisions, score : Scores]

Verdict(risk, decision, score) ==
  [risk |-> risk, decision |-> decision, score |-> score]

\* What RuleEngine.evaluate hands over: RuleEngineResult, with `fired' for a
\* non-empty triggered_rules.
RuleOutcomes == [maxRisk : RiskLevels, shouldDecline : BOOLEAN, fired : BOOLEAN]

\* A faulty Combine, for a run to reject: the floors of the score left out.
CombineWithoutFloors(rule, ml) ==
  IF rule.shouldDecline THEN Verdict("critical", "decline", ml)
  ELSE IF rule.maxRisk \in {"high", "critical"} THEN Verdict(rule.maxRisk, "flag", ml)
  ELSE IF ml >= 6500
    THEN Verdict(IF ml >= 8000 THEN "high" ELSE "medium",
                 IF ml < 8500 THEN "flag" ELSE "decline", ml)
  ELSE Verdict(IF rule.fired THEN rule.maxRisk ELSE "low", "approve", ml)

\* "Combine Signals" of analyse_transaction.
Combine(rule, ml) ==
  IF rule.shouldDecline
    THEN Verdict("critical", "decline", Larger(ml, 9000))
  ELSE IF rule.maxRisk \in {"high", "critical"}
    THEN Verdict(rule.maxRisk, "flag", Larger(ml, 7000))
  ELSE IF ml >= 6500
    THEN Verdict(IF ml >= 8000 THEN "high" ELSE "medium",
                 IF ml < 8500 THEN "flag" ELSE "decline", ml)
  ELSE Verdict(IF rule.fired THEN rule.maxRisk ELSE "low", "approve", ml)

\* status_map of create_transaction.
StatusOf == [approve |-> "approved", flag |-> "flagged", decline |-> "declined"]

Statuses == {"approved", "flagged", "declined"}

\* A faulty AlertNeeded: the threshold of the high band instead of the medium one.
AlertNeededAboveHigh(verdict) ==
  verdict.decision \in {"flag", "decline"} /\ verdict.score >= 8000

\* The condition under which create_transaction inserts a FraudAlert.
AlertNeeded(verdict) ==
  verdict.decision \in {"flag", "decline"} /\ verdict.score >= 5000

\* A faulty EmailNeeded: the critical transactions only.
EmailNeededIfCritical(verdict) == verdict.risk = "critical"

\* The condition under which the endpoint queues send_fraud_alert_email.
EmailNeeded(verdict) == verdict.risk \in {"high", "critical"}
==============================================================================
