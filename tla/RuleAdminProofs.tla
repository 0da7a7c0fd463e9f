--------------------------- MODULE RuleAdminProofs ---------------------------
(***************************************************************************)
(* Proofs about RuleAdmin, for every number of edits, rules, names and     *)
(* payments.  RuleTypeOK is not inductive by itself: Bookkeeping adds what *)
(* the place an edit stands at says of its target, of what it loaded and   *)
(* of what it has been answered.                                           *)
(***************************************************************************)
EXTENDS RuleAdmin, FraudDecisionProofs

\* An edit's target, the row it loaded and its answer agree with where it is.
Bookkeeping ==
  \A e \in Edits :
    /\ edit[e].op # "create" => target[e] = edit[e].id
    /\ at[e] = "idle" => loaded[e] = NoRule
    /\ answer[e].code # 0 => at[e] = "done"
    /\ at[e] = "refresh" => edit[e].op # "deactivate"

TypeInv == RuleTypeOK /\ Bookkeeping

\* What a step of an edit may do to the places, answers and loaded rows.
LEMMA TypeInit == RuleInit => TypeInv
  BY RuleConstants
  DEF RuleInit, TypeInv, RuleTypeOK, Bookkeeping, Stored, NoAnswer, Answers, Stages,
      EditRequests, Verdict, Verdicts, RiskLevels, Decisions, Scores

\* What stored rules contribute is an outcome of the rule engine.
LEMMA OutcomeType ==
  ASSUME TypeInv, NEW ids \in SUBSET Stored, NEW p \in Payments
  PROVE  OutcomeUnder(ids, p) \in RuleOutcomes
<1> DEFINE hit == {rules[i].risk : i \in {j \in ids : p \in rules[j].fires}}
<1>1. hit \subseteq RiskLevels
  BY DEF TypeInv, RuleTypeOK, RuleRows, Stored
<1>2. Worst(hit) \in RiskLevels
  <2>1. CASE hit = {}
    BY <2>1 DEF Worst, RiskLevels
  <2>2. CASE hit # {}
    <3>1. \E l \in hit : \A k \in hit : RiskWeight[k] <= RiskWeight[l]
      <4>1. CASE "critical" \in hit
        BY <1>1, <4>1 DEF RiskWeight, RiskLevels
      <4>2. CASE "critical" \notin hit /\ "high" \in hit
        BY <1>1, <4>2 DEF RiskWeight, RiskLevels
      <4>3. CASE "critical" \notin hit /\ "high" \notin hit /\ "medium" \in hit
        BY <1>1, <4>3 DEF RiskWeight, RiskLevels
      <4>4. CASE hit = {"low"}
        BY <4>4 DEF RiskWeight
      <4> QED
        BY <1>1, <2>2, <4>1, <4>2, <4>3, <4>4 DEF RiskLevels
    <3> QED
      BY <1>1, <2>2, <3>1 DEF Worst
  <2> QED
    BY <2>1, <2>2
<1> QED
  BY <1>2 DEF OutcomeUnder, RuleOutcomes

\* Types and bookkeeping survive every step.
LEMMA TypeStep == TypeInv /\ [RuleNext]_ruleVars => TypeInv'
<1> SUFFICES ASSUME TypeInv, [RuleNext]_ruleVars PROVE TypeInv'
  OBVIOUS
<1> USE RuleConstants DEF TypeInv
<1>1. ASSUME NEW e \in Edits, RejectEdit(e) PROVE TypeInv'
  BY <1>1 DEF RejectEdit, Answer, RuleTypeOK, Bookkeeping, Stored, Answers, Invalid, table, paying
<1>2. ASSUME NEW e \in Edits, CheckName(e) PROVE TypeInv'
  <2>1. CASE Answer(e, 409, NoRule)
    BY <1>2, <2>1 DEF CheckName, Answer, RuleTypeOK, Bookkeeping, Stored, Answers, Invalid,
                      table, paying
  <2>2. CASE Advance(e, "write") /\ UNCHANGED <<loaded, target>>
    BY <1>2, <2>2 DEF CheckName, Advance, RuleTypeOK, Bookkeeping, Stored, Invalid, table, paying
  <2> QED
    BY <1>2, <2>1, <2>2 DEF CheckName
<1>3. ASSUME NEW e \in Edits, LoadRule(e) PROVE TypeInv'
  <2>1. CASE Answer(e, 404, NoRule)
    BY <1>3, <2>1 DEF LoadRule, Answer, RuleTypeOK, Bookkeeping, Stored, Answers, Invalid,
                      table, paying
  <2>2. CASE /\ edit[e].id \in Stored
             /\ Advance(e, "write")
             /\ loaded' = [loaded EXCEPT ![e] = rules[edit[e].id]]
             /\ UNCHANGED target
    <3>1. rules[edit[e].id] \in RuleRows /\ rules[edit[e].id] # NoRule
      BY <2>2 DEF RuleTypeOK, Stored
    <3>2. edit[e].op # "create" /\ ~Invalid(e) /\ target[e] = edit[e].id
      BY <1>3 DEF LoadRule, Bookkeeping
    <3> QED
      BY <1>3, <2>2, <3>1, <3>2 DEF LoadRule, Advance, RuleTypeOK, Bookkeeping, Stored,
                                     Invalid, table, paying
  <2> QED
    BY <1>3, <2>1, <2>2 DEF LoadRule
<1>4. ASSUME NEW e \in Edits, InsertRule(e) PROVE TypeInv'
  <2>1. Row(e) \in RuleRows
    BY <1>4 DEF InsertRule, Row, RuleRows, RuleTypeOK, EditRequests, Invalid
  <2> QED
    BY <1>4, <2>1 DEF InsertRule, Advance, RuleTypeOK, Bookkeeping, Stored, Answers, Invalid,
                      paying, EditRequests
<1>5. ASSUME NEW e \in Edits, UpdateRule(e) PROVE TypeInv'
  <2>1. Merged(e) \in RuleRows
    BY <1>5 DEF UpdateRule, Merged, Merge, RuleRows, RuleTypeOK, EditRequests, Invalid, Stored
  <2> QED
    BY <1>5, <2>1 DEF UpdateRule, Advance, RuleTypeOK, Bookkeeping, Stored, Answers, Invalid,
                      paying
<1>6. ASSUME NEW e \in Edits, NameConflict(e) PROVE TypeInv'
  BY <1>6 DEF NameConflict, Answer, RuleTypeOK, Bookkeeping, Stored, Answers, Invalid, table, paying
<1>7. ASSUME NEW e \in Edits, DeactivateRule(e) PROVE TypeInv'
  BY <1>7 DEF DeactivateRule, Answer, RuleTypeOK, Bookkeeping, Stored, Answers, Invalid, paying
<1>8. ASSUME NEW e \in Edits, RefreshRule(e) PROVE TypeInv'
  BY <1>8 DEF RefreshRule, Answer, RuleTypeOK, Bookkeeping, Stored, Answers, Invalid, table, paying
<1>9. ASSUME NEW e \in Edits, EditFails(e) PROVE TypeInv'
  BY <1>9 DEF EditFails, Answer, RuleTypeOK, Bookkeeping, Stored, Answers, Invalid, table, paying
<1>10. ASSUME NEW p \in Payments, AnalysePayment(p) PROVE TypeInv'
  <2>1. InForce \in SUBSET Stored /\ InForce \in SUBSET RuleIds
    BY DEF InForce, RuleTypeOK, Stored
  <2>2. \A raw \in RawScores : Combine(OutcomeUnder(InForce, p), Normalise(raw)) \in Verdicts
    BY <2>1, RuleConstants, OutcomeType, CombineType, NormaliseType
  <2>3. verdict' \in [Payments -> Verdicts]
    BY <1>10, <2>2 DEF AnalysePayment, RuleTypeOK
  <2> QED
    BY <1>10, <2>1, <2>3 DEF AnalysePayment, RuleTypeOK, Bookkeeping, Stored, Stages, Invalid,
                             table, editing
<1>11. CASE UNCHANGED ruleVars
  BY <1>11 DEF RuleTypeOK, Bookkeeping, Stored, Invalid, ruleVars, table, editing, paying
<1> QED
  BY <1>1, <1>2, <1>3, <1>4, <1>5, <1>6, <1>7, <1>8, <1>9, <1>10, <1>11
  DEF RuleNext, EditStep

LEMMA TypesHold == RuleSpec => []TypeInv
  BY TypeInit, TypeStep, PTL DEF RuleSpec

\* Every variable of the rule administration keeps its type, and edits write
\* only valid rows, over rows that are there.
THEOREM RuleTypeCorrect == RuleSpec => []RuleTypeOK
<1>1. TypeInv => RuleTypeOK
  BY DEF TypeInv
<1> QED
  BY <1>1, TypesHold, PTL

------------------------------------------------------------------------------
(* Names.                                                                  *)

LEMMA NamesStep == TypeInv /\ NamesUnique /\ [RuleNext]_ruleVars => NamesUnique'
<1> SUFFICES ASSUME TypeInv, NamesUnique, [RuleNext]_ruleVars PROVE NamesUnique'
  OBVIOUS
<1> USE RuleConstants
<1>1. ASSUME NEW e \in Edits, InsertRule(e) PROVE NamesUnique'
  <2>1. PICK i \in RuleIds \ Stored : rules' = [rules EXCEPT ![i] = Row(e)]
    BY <1>1 DEF InsertRule
  <2>2. \A j \in Stored : rules[j].name # Row(e).name
    BY <1>1 DEF InsertRule, NameUsed, Row, Stored
  <2> QED
    BY <2>1, <2>2 DEF NamesUnique, Distinct, Stored, TypeInv, RuleTypeOK
<1>2. ASSUME NEW e \in Edits, UpdateRule(e) PROVE NamesUnique'
  <2>1. rules' = [rules EXCEPT ![target[e]] = Merged(e)] /\ target[e] \in RuleIds
    BY <1>2 DEF UpdateRule, TypeInv, RuleTypeOK
  <2>2. \A j \in Stored \ {target[e]} : rules[j].name # Merged(e).name
    BY <1>2 DEF UpdateRule, NameUsed, Stored
  <2> QED
    BY <2>1, <2>2 DEF NamesUnique, Distinct, Stored, TypeInv, RuleTypeOK
<1>3. CASE UNCHANGED rules
  BY <1>3 DEF NamesUnique, Distinct
<1> QED
  BY <1>1, <1>2, <1>3
  DEF RuleNext, EditStep, RejectEdit, CheckName, LoadRule, NameConflict, DeactivateRule,
      RefreshRule, EditFails, AnalysePayment, ruleVars, table, editing

\* No two rules ever share a name, however creates and renames interleave.
THEOREM NamesStayUnique == RuleSpec => []NamesUnique
<1>1. RuleInit => NamesUnique
  BY RuleConstants DEF RuleInit, NamesUnique
<1> QED
  BY <1>1, NamesStep, TypesHold, PTL DEF RuleSpec

------------------------------------------------------------------------------
(* Deactivation.                                                           *)

\* Only the create that stores a rule activates it: what is stored stays, and
\* what is inactive stays so.
LEMMA StaysRetired ==
  ASSUME TypeInv, [RuleNext]_ruleVars, NEW i \in Stored
  PROVE  rules'[i] # NoRule /\ (i \notin active => i \notin active')
<1>1. ASSUME NEW e \in Edits, InsertRule(e) PROVE rules'[i] # NoRule /\ (i \notin active => i \notin active')
  BY <1>1 DEF InsertRule, Stored, TypeInv, RuleTypeOK
<1>2. ASSUME NEW e \in Edits, UpdateRule(e) PROVE rules'[i] # NoRule /\ (i \notin active => i \notin active')
  <2>1. Merged(e) \in RuleRows
    BY <1>2 DEF UpdateRule, Merged, Merge, RuleRows, RuleTypeOK, EditRequests, Invalid, Stored, TypeInv
  <2> QED
    BY <1>2, <2>1, RuleConstants DEF UpdateRule, Stored, TypeInv, RuleTypeOK
<1>3. CASE UNCHANGED rules /\ active' \subseteq active
  BY <1>3 DEF Stored
<1> QED
  BY <1>1, <1>2, <1>3
  DEF RuleNext, EditStep, RejectEdit, CheckName, LoadRule, NameConflict, DeactivateRule,
      RefreshRule, EditFails, AnalysePayment, ruleVars, table, editing

\* No update revives a rule that was deactivated after the update loaded it.
THEOREM DeactivationsStick == RuleSpec => DeactivationSticks
<1>1. TypeInv /\ [RuleNext]_ruleVars =>
        [\A i \in Stored : rules'[i] # NoRule /\ (i \notin active => i \notin active')]_ruleVars
  BY StaysRetired
<1> QED
  BY <1>1, TypesHold, PTL DEF RuleSpec, DeactivationSticks

------------------------------------------------------------------------------
(* What administrators have been told applies.                             *)

\* A deactivation that was acknowledged has had its effect, and a rule that was
\* created is active unless a deactivation of it was acknowledged.
HasCreated(e) == (at[e] = "refresh" /\ edit[e].op = "create") \/ answer[e].code = 201

Acknowledged ==
  \A e \in Edits :
    /\ edit[e].op = "deactivate" /\ answer[e].code = 200 =>
         edit[e].id \in Stored \ active
    /\ HasCreated(e) => target[e] \in active \/ Retired(target[e])

\* An answer, once given, and what it answers, stay.
LEMMA AnswersStay ==
  ASSUME TypeInv, [RuleNext]_ruleVars, NEW e \in Edits
  PROVE  /\ edit' = edit
         /\ answer[e].code # 0 => /\ answer'[e] = answer[e] /\ at'[e] = at[e]
                                  /\ target'[e] = target[e] /\ loaded'[e] = loaded[e]
<1> USE DEF TypeInv, RuleTypeOK, Bookkeeping
<1>1. ASSUME NEW d \in Edits, EditStep(d)
      PROVE  /\ edit' = edit
             /\ d # e => /\ answer'[e] = answer[e] /\ at'[e] = at[e]
                         /\ target'[e] = target[e] /\ loaded'[e] = loaded[e]
             /\ at[d] # "done"
  BY <1>1 DEF EditStep, RejectEdit, CheckName, LoadRule, InsertRule, UpdateRule, NameConflict,
              DeactivateRule, RefreshRule, EditFails, Answer, Advance, table, paying
<1>2. CASE UNCHANGED editing
  BY <1>2 DEF editing
<1> QED
  BY <1>1, <1>2 DEF RuleNext, AnalysePayment, ruleVars

\* A rule leaves the active ones only by an acknowledged deactivation.
LEMMA LeavesByRetirement ==
  ASSUME TypeInv, [RuleNext]_ruleVars, NEW i \in RuleIds,
         i \in active \/ Retired(i)
  PROVE  i \in active' \/ Retired(i)'
<1>1. CASE Retired(i)
  <2>1. PICK e \in Edits : edit[e].op = "deactivate" /\ edit[e].id = i /\ answer[e].code = 200
    BY <1>1 DEF Retired
  <2> QED
    BY <2>1, AnswersStay DEF Retired
<1>2. ASSUME NEW e \in Edits, DeactivateRule(e), i \in active PROVE i \in active' \/ Retired(i)'
  <2>1. target[e] = edit[e].id
    BY <1>2 DEF DeactivateRule, TypeInv, Bookkeeping
  <2>2. answer'[e].code = 200 /\ edit' = edit
    BY <1>2 DEF DeactivateRule, Answer, TypeInv, RuleTypeOK
  <2> QED
    BY <1>2, <2>1, <2>2 DEF DeactivateRule, Retired
<1>3. CASE i \in active /\ active \subseteq active'
  BY <1>3
<1> QED
  BY <1>1, <1>2, <1>3
  DEF RuleNext, EditStep, RejectEdit, CheckName, LoadRule, InsertRule, UpdateRule, NameConflict,
      RefreshRule, EditFails, AnalysePayment, ruleVars, table, editing

\* Who acknowledges a deactivation has just made it.
LEMMA AcknowledgesDeactivation ==
  ASSUME TypeInv, [RuleNext]_ruleVars, NEW e \in Edits, edit[e].op = "deactivate",
         answer'[e].code = 200, answer[e].code # 200
  PROVE  edit[e].id \in Stored /\ edit[e].id \notin active'
<1> USE DEF TypeInv, RuleTypeOK, Bookkeeping
<1>1. ASSUME NEW d \in Edits, EditStep(d) PROVE DeactivateRule(e)
  BY <1>1 DEF EditStep, RejectEdit, CheckName, LoadRule, InsertRule, UpdateRule, NameConflict,
              DeactivateRule, RefreshRule, EditFails, Answer, Advance, table, paying
<1>2. DeactivateRule(e)
  BY <1>1 DEF RuleNext, AnalysePayment, ruleVars, editing
<1> QED
  BY <1>2 DEF DeactivateRule

\* Who has just created a rule has activated it.
LEMMA CreationActivates ==
  ASSUME TypeInv, [RuleNext]_ruleVars, NEW e \in Edits, HasCreated(e)', ~HasCreated(e)
  PROVE  target'[e] \in active'
<1> USE DEF TypeInv, RuleTypeOK, Bookkeeping, HasCreated
<1>1. ASSUME NEW d \in Edits, EditStep(d) PROVE InsertRule(e)
  BY <1>1 DEF EditStep, RejectEdit, CheckName, LoadRule, InsertRule, UpdateRule, NameConflict,
              DeactivateRule, RefreshRule, EditFails, Answer, Advance, table, paying
<1>2. InsertRule(e)
  BY <1>1 DEF RuleNext, AnalysePayment, ruleVars, editing
<1> QED
  BY <1>2 DEF InsertRule

\* The rule an edit has created is the one it created.
LEMMA CreatedStays ==
  ASSUME TypeInv, [RuleNext]_ruleVars, NEW e \in Edits, HasCreated(e)
  PROVE  target'[e] = target[e]
<1> USE DEF TypeInv, RuleTypeOK, Bookkeeping, HasCreated
<1>1. ASSUME NEW d \in Edits, EditStep(d) PROVE target'[e] = target[e]
  BY <1>1 DEF EditStep, RejectEdit, CheckName, LoadRule, InsertRule, UpdateRule, NameConflict,
              DeactivateRule, RefreshRule, EditFails, Answer, Advance, table, paying
<1> QED
  BY <1>1 DEF RuleNext, AnalysePayment, ruleVars, editing

LEMMA AcknowledgedStep == TypeInv /\ Acknowledged /\ [RuleNext]_ruleVars => Acknowledged'
<1> SUFFICES ASSUME TypeInv, Acknowledged, [RuleNext]_ruleVars, NEW e \in Edits
             PROVE  /\ (edit[e].op = "deactivate" /\ answer[e].code = 200)' =>
                         (edit[e].id \in Stored \ active)'
                    /\ HasCreated(e)' => (target[e] \in active \/ Retired(target[e]))'
  BY DEF Acknowledged
<1>1. edit' = edit /\ (answer[e].code # 0 => answer'[e] = answer[e])
  BY AnswersStay
<1>2. ASSUME edit[e].op = "deactivate", answer'[e].code = 200
      PROVE  edit[e].id \in Stored' /\ edit[e].id \notin active'
  <2>1. CASE answer[e].code = 200
    <3>1. edit[e].id \in Stored /\ edit[e].id \notin active
      BY <1>2, <2>1 DEF Acknowledged
    <3> QED
      BY <3>1, StaysRetired DEF Stored
  <2>2. CASE answer[e].code # 200
    <3>1. edit[e].id \in Stored /\ edit[e].id \notin active'
      BY <1>2, <2>2, AcknowledgesDeactivation
    <3> QED
      BY <3>1, StaysRetired DEF Stored
  <2> QED
    BY <2>1, <2>2
<1>3. ASSUME HasCreated(e)' PROVE (target[e] \in active \/ Retired(target[e]))'
  <2>1. CASE ~HasCreated(e)
    BY <1>3, <2>1, CreationActivates
  <2>2. CASE HasCreated(e)
    <3>1. target[e] \in RuleIds /\ target'[e] = target[e]
      BY <2>2, CreatedStays DEF TypeInv, RuleTypeOK
    <3>2. PICK i \in RuleIds : i = target[e]
      BY <3>1
    <3>3. i \in active \/ Retired(i)
      BY <2>2, <3>2 DEF Acknowledged
    <3>4. i \in active' \/ Retired(i)'
      BY <3>3, LeavesByRetirement
    <3> QED
      BY <3>1, <3>2, <3>4 DEF Retired
  <2> QED
    BY <2>1, <2>2
<1> QED
  BY <1>1, <1>2, <1>3 DEF Retired

\* An analysis of a payment that a critical rule in force fires on declines it.
LEMMA CriticalDeclines ==
  ASSUME TypeInv, NEW p \in Payments, NEW i \in active, NEW ml \in Scores,
         rules[i].risk = "critical", p \in rules[i].fires
  PROVE  Combine(OutcomeUnder(active, p), ml).decision = "decline"
<1>1. OutcomeUnder(active, p).shouldDecline
  BY DEF OutcomeUnder
<1> QED
  BY <1>1 DEF Combine, Verdict

\* Every analysis goes by what was acknowledged before it began.
LEMMA EffectStep ==
  TypeInv /\ Acknowledged /\ [RuleNext]_ruleVars =>
    [\A p \in Payments : stage[p] = "idle" /\ stage'[p] # "idle" =>
           /\ \A i \in RuleIds : Retired(i) => i \notin used'[p]
           /\ \A e \in Edits :
                LET i == target[e] IN
                answer[e].code = 201 /\ ~Retired(i) =>
                  /\ i \in used'[p]
                  /\ rules[i].risk = "critical" /\ p \in rules[i].fires =>
                       verdict'[p].decision = "decline"]_ruleVars
<1> SUFFICES ASSUME TypeInv, Acknowledged, [RuleNext]_ruleVars, NEW p \in Payments,
                    stage[p] = "idle", stage'[p] # "idle"
             PROVE  /\ \A i \in RuleIds : Retired(i) => i \notin used'[p]
                    /\ \A e \in Edits :
                         answer[e].code = 201 /\ ~Retired(target[e]) =>
                           /\ target[e] \in used'[p]
                           /\ rules[target[e]].risk = "critical" /\ p \in rules[target[e]].fires =>
                                verdict'[p].decision = "decline"
  OBVIOUS
<1>1. AnalysePayment(p)
  BY DEF TypeInv, RuleTypeOK, RuleNext, EditStep, RejectEdit, CheckName, LoadRule, InsertRule,
         UpdateRule, NameConflict, DeactivateRule, RefreshRule, EditFails, AnalysePayment,
         ruleVars, paying
<1>2. used'[p] = active
  BY <1>1 DEF AnalysePayment, InForce, TypeInv, RuleTypeOK
<1>3. ASSUME NEW i \in RuleIds, Retired(i) PROVE i \notin used'[p]
  BY <1>2, <1>3 DEF Retired, Acknowledged
<1>4. ASSUME NEW e \in Edits, answer[e].code = 201, ~Retired(target[e])
      PROVE  target[e] \in active
  BY <1>4 DEF Acknowledged, HasCreated
<1>5. ASSUME NEW i \in active, rules[i].risk = "critical", p \in rules[i].fires
      PROVE  verdict'[p].decision = "decline"
  <2>1. PICK raw \in RawScores :
          verdict' = [verdict EXCEPT ![p] = Combine(OutcomeUnder(active, p), Normalise(raw))]
    BY <1>1 DEF AnalysePayment, InForce
  <2>2. Normalise(raw) \in Scores
    BY RuleConstants, NormaliseType
  <2>3. Combine(OutcomeUnder(active, p), Normalise(raw)).decision = "decline"
    BY <1>5, <2>2, CriticalDeclines
  <2> QED
    BY <2>1, <2>3 DEF TypeInv, RuleTypeOK
<1> QED
  BY <1>2, <1>3, <1>4, <1>5

\* What an administrator has been told of a rule holds for every later analysis.
THEOREM RulesDoTakeEffect == RuleSpec => RulesTakeEffect
<1>1. RuleInit => Acknowledged
  BY DEF RuleInit, Acknowledged, HasCreated, NoAnswer
<1>2. RuleSpec => []Acknowledged
  BY <1>1, AcknowledgedStep, TypesHold, PTL DEF RuleSpec
<1> QED
  BY <1>2, EffectStep, TypesHold, PTL DEF RuleSpec, RulesTakeEffect

------------------------------------------------------------------------------
(* Concurrent updates.                                                     *)

Updated(e) == at[e] = "refresh" \/ answer[e].code = 200

NameKept(e, i) ==
  edit[e].name # loaded[e].name =>
    \E d \in Edits : Changes(d, i) /\ edit[d].name # loaded[d].name /\ rules[i].name = edit[d].name

RiskKept(e, i) ==
  edit[e].risk # loaded[e].risk =>
    \E d \in Edits : Changes(d, i) /\ edit[d].risk # loaded[d].risk /\ rules[i].risk = edit[d].risk

FiresKept(e, i) ==
  edit[e].fires # loaded[e].fires =>
    \E d \in Edits : Changes(d, i) /\ edit[d].fires # loaded[d].fires /\ rules[i].fires = edit[d].fires

\* What was loaded is there, and the columns of committed updates are kept
\* from the commit on, not only once it is acknowledged.
Kept ==
  \A e \in Edits, i \in RuleIds :
    Changes(e, i) =>
      /\ i \in Stored
      /\ Updated(e) => NameKept(e, i) /\ RiskKept(e, i) /\ FiresKept(e, i)

\* A row that was loaded is loaded for good, and is the stored one at first.
LEMMA ChangesStay ==
  ASSUME TypeInv, [RuleNext]_ruleVars, NEW e \in Edits, NEW i \in RuleIds
  PROVE  /\ edit' = edit
         /\ Changes(e, i) => Changes(e, i)' /\ loaded'[e] = loaded[e]
         /\ Changes(e, i)' /\ ~Changes(e, i) => i \in Stored /\ at'[e] = "write" /\ answer[e].code = 0
<1> USE DEF TypeInv, RuleTypeOK, Bookkeeping, Changes
<1>1. ASSUME NEW d \in Edits, EditStep(d)
      PROVE  /\ edit' = edit
             /\ loaded'[e] = loaded[e] \/ LoadRule(e)
  BY <1>1 DEF EditStep, RejectEdit, CheckName, LoadRule, InsertRule, UpdateRule, NameConflict,
              DeactivateRule, RefreshRule, EditFails, Answer, Advance, table, paying
<1>2. ASSUME LoadRule(e), edit' = edit
      PROVE  /\ loaded[e] = NoRule /\ answer[e].code = 0
             /\ Changes(e, i)' => i \in Stored /\ at'[e] = "write"
  BY <1>2 DEF LoadRule, Answer, Advance
<1>3. ASSUME edit' = edit, loaded'[e] = loaded[e]
      PROVE  Changes(e, i)' <=> Changes(e, i)
  BY <1>3
<1>4. edit' = edit /\ (loaded'[e] = loaded[e] \/ LoadRule(e))
  BY <1>1 DEF RuleNext, AnalysePayment, ruleVars, editing
<1> QED
  BY <1>2, <1>3, <1>4

\* An update sets the columns it means to change and leaves the others.
LEMMA UpdateWrites ==
  ASSUME TypeInv, NEW d \in Edits, NEW i \in RuleIds, UpdateRule(d), Changes(d, i)
  PROVE  /\ rules'[i].name = IF edit[d].name # loaded[d].name THEN edit[d].name ELSE rules[i].name
         /\ rules'[i].risk = IF edit[d].risk # loaded[d].risk THEN edit[d].risk ELSE rules[i].risk
         /\ rules'[i].fires =
              IF edit[d].fires # loaded[d].fires THEN edit[d].fires ELSE rules[i].fires
<1>1. target[d] = i
  BY DEF UpdateRule, Changes, TypeInv, Bookkeeping
<1>2. rules'[i] = Merged(d)
  BY <1>1 DEF UpdateRule, TypeInv, RuleTypeOK
<1> QED
  BY <1>1, <1>2 DEF Merged, Merge

\* Nothing but an update changes a stored row.
LEMMA RowStep ==
  ASSUME TypeInv, [RuleNext]_ruleVars, NEW i \in Stored, rules'[i] # rules[i]
  PROVE  \E d \in Edits : UpdateRule(d) /\ Changes(d, i)
<1>1. ASSUME NEW d \in Edits, InsertRule(d) PROVE rules'[i] = rules[i]
  BY <1>1 DEF InsertRule, Stored, TypeInv, RuleTypeOK
<1>2. \E d \in Edits : UpdateRule(d)
  BY <1>1 DEF RuleNext, EditStep, RejectEdit, CheckName, LoadRule, NameConflict, DeactivateRule,
              RefreshRule, EditFails, AnalysePayment, ruleVars, table, editing
<1>3. PICK d \in Edits : UpdateRule(d)
  BY <1>2
<1>4. target[d] = i
  BY <1>3 DEF UpdateRule, Stored, TypeInv, RuleTypeOK
<1> QED
  BY <1>3, <1>4 DEF UpdateRule, Changes, TypeInv, RuleTypeOK, Bookkeeping

\* Who has just committed or been acknowledged an update has just made it.
LEMMA UpdatesByUpdating ==
  ASSUME TypeInv, [RuleNext]_ruleVars, NEW e \in Edits, edit[e].op = "update",
         Updated(e)', ~Updated(e)
  PROVE  UpdateRule(e)
<1> USE DEF TypeInv, RuleTypeOK, Bookkeeping, Updated
<1>1. ASSUME NEW d \in Edits, EditStep(d) PROVE UpdateRule(e)
  <2>1. CASE RejectEdit(d) \/ NameConflict(d) \/ EditFails(d)
    BY <2>1 DEF RejectEdit, NameConflict, EditFails, Answer
  <2>2. CASE CheckName(d)
    BY <2>2 DEF CheckName, Answer, Advance
  <2>3. CASE LoadRule(d)
    BY <2>3 DEF LoadRule, Answer, Advance
  <2>4. CASE InsertRule(d)
    BY <2>4 DEF InsertRule, Advance
  <2>5. CASE UpdateRule(d)
    BY <2>5 DEF UpdateRule, Advance
  <2>6. CASE DeactivateRule(d)
    BY <2>6 DEF DeactivateRule, Answer
  <2>7. CASE RefreshRule(d)
    BY <2>7 DEF RefreshRule, Answer
  <2> QED
    BY <1>1, <2>1, <2>2, <2>3, <2>4, <2>5, <2>6, <2>7 DEF EditStep
<1> QED
  BY <1>1 DEF RuleNext, AnalysePayment, ruleVars, editing

LEMMA KeptStep == TypeInv /\ Kept /\ [RuleNext]_ruleVars => Kept'
<1> SUFFICES ASSUME TypeInv, Kept, [RuleNext]_ruleVars,
                    NEW e \in Edits, NEW i \in RuleIds, Changes(e, i)'
             PROVE  /\ i \in Stored'
                    /\ Updated(e)' => NameKept(e, i)' /\ RiskKept(e, i)' /\ FiresKept(e, i)'
  BY DEF Kept
<1>1. i \in Stored /\ i \in Stored'
  <2>1. i \in Stored
    BY ChangesStay DEF Kept
  <2> QED
    BY <2>1, StaysRetired DEF Stored
<1>2. edit' = edit /\ \A d \in Edits : Changes(d, i) => Changes(d, i)' /\ loaded'[d] = loaded[d]
  BY ChangesStay
<1>3. ASSUME Updated(e)' PROVE Changes(e, i) /\ loaded'[e] = loaded[e]
  <2>1. CASE Updated(e)
    BY <1>3, ChangesStay, TypeStep DEF Updated, TypeInv, Bookkeeping
  <2>2. CASE ~Updated(e)
    <3>1. edit[e].op = "update"
      BY <1>2 DEF Changes
    <3>2. UpdateRule(e)
      BY <1>3, <2>2, <3>1, UpdatesByUpdating
    <3> QED
      BY <1>2, <3>2 DEF UpdateRule, Changes
  <2> QED
    BY <2>1, <2>2
<1>4. ASSUME Updated(e)', Updated(e), rules'[i] = rules[i]
      PROVE  NameKept(e, i)' /\ RiskKept(e, i)' /\ FiresKept(e, i)'
  <2>1. NameKept(e, i) /\ RiskKept(e, i) /\ FiresKept(e, i)
    BY <1>3, <1>4 DEF Kept
  <2> QED
    BY <1>2, <1>3, <1>4, <2>1 DEF NameKept, RiskKept, FiresKept
<1>5. ASSUME Updated(e)', NEW d \in Edits, UpdateRule(d), Changes(d, i), Updated(e) \/ d = e
      PROVE  NameKept(e, i)' /\ RiskKept(e, i)' /\ FiresKept(e, i)'
  <2>1. Changes(d, i)' /\ loaded'[d] = loaded[d] /\ Changes(e, i) /\ loaded'[e] = loaded[e]
    BY <1>2, <1>3, <1>5
  <2>2. d # e => NameKept(e, i) /\ RiskKept(e, i) /\ FiresKept(e, i)
    BY <1>5, <2>1 DEF Kept
  <2>3. NameKept(e, i)'
    <3>1. rules'[i].name = IF edit[d].name # loaded[d].name THEN edit[d].name ELSE rules[i].name
      BY <1>5, UpdateWrites
    <3> QED
      BY <1>2, <2>1, <2>2, <3>1 DEF NameKept
  <2>4. RiskKept(e, i)'
    <3>1. rules'[i].risk = IF edit[d].risk # loaded[d].risk THEN edit[d].risk ELSE rules[i].risk
      BY <1>5, UpdateWrites
    <3> QED
      BY <1>2, <2>1, <2>2, <3>1 DEF RiskKept
  <2>5. FiresKept(e, i)'
    <3>1. rules'[i].fires =
            IF edit[d].fires # loaded[d].fires THEN edit[d].fires ELSE rules[i].fires
      BY <1>5, UpdateWrites
    <3> QED
      BY <1>2, <2>1, <2>2, <3>1 DEF FiresKept
  <2> QED
    BY <2>3, <2>4, <2>5
<1>6. ASSUME Updated(e)', ~Updated(e) PROVE UpdateRule(e) /\ Changes(e, i)
  BY <1>2, <1>3, <1>6, UpdatesByUpdating DEF Changes
<1>7. ASSUME rules'[i] # rules[i] PROVE \E d \in Edits : UpdateRule(d) /\ Changes(d, i)
  BY <1>1, <1>7, RowStep
<1> QED
  BY <1>1, <1>4, <1>5, <1>6, <1>7

LEMMA KeptMeans == TypeInv /\ Kept => EditsSurvive
  BY DEF TypeInv, RuleTypeOK, EditRequests, Kept, EditsSurvive, Changes, Updated,
         NameKept, RiskKept, FiresKept

\* No update undoes a change another acknowledged update made to a column it
\* did not itself mean to change.
THEOREM EditsDoSurvive == RuleSpec => []EditsSurvive
<1>1. RuleInit => Kept
  BY RuleConstants DEF RuleInit, Kept, Changes
<1> QED
  BY <1>1, KeptMeans, KeptStep, TypesHold, PTL DEF RuleSpec
==============================================================================
