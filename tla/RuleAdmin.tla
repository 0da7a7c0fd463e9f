----------------------------- MODULE RuleAdmin -------------------------------
(***************************************************************************)
(* The administration of stored fraud rules, /api/v1/admin/rules: requests *)
(* of administrators that create, update and deactivate rules, each one    *)
(* reading and writing in separate steps, while transactions are analysed  *)
(* under the rules their analysis fetches.                                 *)
(*                                                                         *)
(* at[e] is where edit e stands: idle, then write (it has read what it     *)
(* checks or changes), refresh (its change is committed), done.  A flush   *)
(* and the commit behind it are one step: the UPDATE or INSERT waits for   *)
(* the row and the unique index until other writers have committed.  What  *)
(* a rule tests is the set of payments it fires on (RuleEngine has the     *)
(* condition language); priority and description are two more columns      *)
(* that update_rule treats like these.  Identifiers never run out: a       *)
(* create finds a free one as long as RuleIds is large enough.             *)
(***************************************************************************)
EXTENDS FraudDecision, FiniteSets

CONSTANTS
  Edits,       \* requests to create, update or deactivate a rule
  RuleIds,     \* fraud_rules.id
  Names,
  Payments,    \* transactions to analyse
  RuleTables,  \* contents of fraud_rules to start from
  EditLoads,   \* which edit asks for what
  RawScores,   \* outputs of the isolation forest
  NoRule       \* the absence of a row

RuleRows == [name : Names, risk : RiskLevels, fires : SUBSET Payments]

\* What an edit carries: id is ignored by a create, the columns by a
\* deactivation; "unheard" stands for the risk levels that are not one.
EditRequests ==
  [op : {"create", "update", "deactivate"}, id : RuleIds, name : Names,
   risk : RiskLevels \cup {"unheard"}, fires : SUBSET Payments]

Distinct(table) ==
  \A i, j \in RuleIds :
    i # j /\ table[i] # NoRule /\ table[j] # NoRule => table[i].name # table[j].name

ASSUME RuleConstants ==
  /\ NoRule \notin RuleRows
  /\ RuleTables \subseteq [RuleIds -> RuleRows \cup {NoRule}]
  /\ \A table \in RuleTables : Distinct(table)
  /\ EditLoads \subseteq [Edits -> EditRequests]
  /\ RawScores \subseteq Int

VARIABLES
  rules,    \* fraud_rules, by id
  active,   \* the ids with is_active
  at,       \* where each edit stands
  edit,     \* what it asks for
  loaded,   \* the row it loaded
  target,   \* the id it works on
  answer,   \* its response: a status code and a rule
  stage,    \* idle, or what became of each payment
  used,     \* the ids of the rules it was analysed under
  verdict   \* what the analysis came to

table == <<rules, active>>
editing == <<at, edit, loaded, target, answer>>
paying == <<stage, used, verdict>>
ruleVars == <<table, editing, paying>>

Stored == {i \in RuleIds : rules[i] # NoRule}

NoAnswer == [code |-> 0, rule |-> NoRule]

\* An edit that nobody sends is done from the start, a payment absent.
RuleInit ==
  /\ rules \in RuleTables
  /\ active = Stored
  /\ at \in [Edits -> {"idle", "done"}]
  /\ edit \in EditLoads
  /\ loaded = [e \in Edits |-> NoRule]
  /\ target = [e \in Edits |-> edit[e].id]
  /\ answer = [e \in Edits |-> NoAnswer]
  /\ stage \in [Payments -> {"idle", "absent"}]
  /\ used = [p \in Payments |-> {}]
  /\ verdict = [p \in Payments |-> Verdict("low", "approve", 0)]

------------------------------------------------------------------------------
(* The requests.                                                           *)

Answer(e, code, rule) ==
  /\ at' = [at EXCEPT ![e] = "done"]
  /\ answer' = [answer EXCEPT ![e] = [code |-> code, rule |-> rule]]
  /\ UNCHANGED <<edit, loaded, target>>

Advance(e, where) == at' = [at EXCEPT ![e] = where] /\ UNCHANGED <<edit, answer>>

\* A faulty Invalid: no validator.
InvalidNever(e) == FALSE

\* FraudRuleCreateRequest, the body of POST and PUT, knows four risk levels.
Invalid(e) == edit[e].op # "deactivate" /\ edit[e].risk \notin RiskLevels

RejectEdit(e) ==
  /\ at[e] = "idle"
  /\ Invalid(e)
  /\ Answer(e, 422, NoRule)
  /\ UNCHANGED <<table, paying>>

NameUsed(name, others) == \E i \in Stored \cap others : rules[i].name = name

CheckName(e) ==
  /\ at[e] = "idle" /\ edit[e].op = "create" /\ ~Invalid(e)
  /\ \/ /\ NameUsed(edit[e].name, RuleIds)
        /\ Answer(e, 409, NoRule)
     \/ /\ ~NameUsed(edit[e].name, RuleIds)
        /\ Advance(e, "write")
        /\ UNCHANGED <<loaded, target>>
  /\ UNCHANGED <<table, paying>>

LoadRule(e) ==
  /\ at[e] = "idle" /\ edit[e].op # "create" /\ ~Invalid(e)
  /\ \/ /\ edit[e].id \notin Stored
        /\ Answer(e, 404, NoRule)
     \/ /\ edit[e].id \in Stored
        /\ Advance(e, "write")
        /\ loaded' = [loaded EXCEPT ![e] = rules[edit[e].id]]
        /\ UNCHANGED target
  /\ UNCHANGED <<table, paying>>

Row(e) == [name |-> edit[e].name, risk |-> edit[e].risk, fires |-> edit[e].fires]

\* A faulty InsertRule: no unique index on the name.
InsertRuleUnchecked(e) ==
  /\ at[e] = "write" /\ edit[e].op = "create"
  /\ \E i \in RuleIds \ Stored :
       /\ rules' = [rules EXCEPT ![i] = Row(e)]
       /\ active' = active \cup {i}
       /\ target' = [target EXCEPT ![e] = i]
  /\ Advance(e, "refresh")
  /\ UNCHANGED <<loaded, paying>>

InsertRule(e) ==
  /\ at[e] = "write" /\ edit[e].op = "create"
  /\ ~NameUsed(edit[e].name, RuleIds)
  /\ \E i \in RuleIds \ Stored :
       /\ rules' = [rules EXCEPT ![i] = Row(e)]
       /\ active' = active \cup {i}
       /\ target' = [target EXCEPT ![e] = i]
  /\ Advance(e, "refresh")
  /\ UNCHANGED <<loaded, paying>>

\* A faulty Merge: the UPDATE sets every column.
MergeAll(current, before, wanted) == wanted

\* The unit of work sets the columns whose value differs from what was loaded.
Merge(current, before, wanted) == IF wanted # before THEN wanted ELSE current

Merged(e) ==
  LET row == rules[target[e]] IN
  [name  |-> Merge(row.name, loaded[e].name, edit[e].name),
   risk  |-> Merge(row.risk, loaded[e].risk, edit[e].risk),
   fires |-> Merge(row.fires, loaded[e].fires, edit[e].fires)]

\* A faulty UpdateRule: it sets is_active as create_rule does.
UpdateRuleRevives(e) ==
  /\ at[e] = "write" /\ edit[e].op = "update"
  /\ ~NameUsed(Merged(e).name, RuleIds \ {target[e]})
  /\ rules' = [rules EXCEPT ![target[e]] = Merged(e)]
  /\ active' = active \cup {target[e]}
  /\ Advance(e, "refresh")
  /\ UNCHANGED <<loaded, target, paying>>

UpdateRule(e) ==
  /\ at[e] = "write" /\ edit[e].op = "update"
  /\ ~NameUsed(Merged(e).name, RuleIds \ {target[e]})
  /\ rules' = [rules EXCEPT ![target[e]] = Merged(e)]
  /\ Advance(e, "refresh")
  /\ UNCHANGED <<active, loaded, target, paying>>

\* The unique index refuses the name: IntegrityError, a 500.
NameConflict(e) ==
  /\ at[e] = "write"
  /\ \/ edit[e].op = "create" /\ NameUsed(edit[e].name, RuleIds)
     \/ edit[e].op = "update" /\ NameUsed(Merged(e).name, RuleIds \ {target[e]})
  /\ Answer(e, 500, NoRule)
  /\ UNCHANGED <<table, paying>>

DeactivateRule(e) ==
  /\ at[e] = "write" /\ edit[e].op = "deactivate"
  /\ active' = active \ {target[e]}
  /\ Answer(e, 200, loaded[e])
  /\ UNCHANGED <<rules, paying>>

\* db.refresh: what the response shows is the row as it is by then.
RefreshRule(e) ==
  /\ at[e] = "refresh"
  /\ Answer(e, IF edit[e].op = "create" THEN 201 ELSE 200, rules[target[e]])
  /\ UNCHANGED <<table, paying>>

\* The database fails, before the commit or after it.
EditFails(e) ==
  /\ at[e] \in {"write", "refresh"}
  /\ Answer(e, 500, NoRule)
  /\ UNCHANGED <<table, paying>>

EditStep(e) ==
  \/ RejectEdit(e) \/ CheckName(e) \/ LoadRule(e)
  \/ InsertRule(e) \/ UpdateRule(e) \/ NameConflict(e) \/ DeactivateRule(e)
  \/ RefreshRule(e) \/ EditFails(e)

------------------------------------------------------------------------------
(* The analysis of a transaction.                                          *)

\* A faulty InForce: the query without its WHERE.
EveryStored == Stored

\* get_active_db_rules, read by one SELECT.
InForce == active

Worst(levels) ==
  IF levels = {} THEN "low"
  ELSE CHOOSE l \in levels : \A k \in levels : RiskWeight[k] <= RiskWeight[l]

\* The stored rules' part of RuleEngineResult; the built-in rules, which no
\* administrator can change, stay silent.
OutcomeUnder(ids, p) ==
  LET hit == {rules[i].risk : i \in {j \in ids : p \in rules[j].fires}} IN
  [maxRisk |-> Worst(hit), shouldDecline |-> "critical" \in hit, fired |-> hit # {}]

AnalysePayment(p) ==
  /\ stage[p] = "idle"
  /\ used' = [used EXCEPT ![p] = InForce]
  /\ \E raw \in RawScores :
       verdict' = [verdict EXCEPT ![p] = Combine(OutcomeUnder(InForce, p), Normalise(raw))]
  /\ stage' = [stage EXCEPT ![p] = "analysed"]
  /\ UNCHANGED <<table, editing>>

RuleNext == (\E e \in Edits : EditStep(e)) \/ (\E p \in Payments : AnalysePayment(p))

RuleSpec == RuleInit /\ [][RuleNext]_ruleVars

------------------------------------------------------------------------------
(* Properties.                                                             *)

Stages == {"absent", "idle", "analysed", "flushed", "posted", "failed"}

Answers == [code : {0, 200, 201, 404, 409, 422, 500}, rule : RuleRows \cup {NoRule}]

\* Every variable stays within its type; an edit that has something to write
\* asks for a valid row, and one that updates has loaded a row that stays.
RuleTypeOK ==
  /\ rules \in [RuleIds -> RuleRows \cup {NoRule}]
  /\ active \subseteq Stored
  /\ at \in [Edits -> {"idle", "write", "refresh", "done"}]
  /\ edit \in [Edits -> EditRequests]
  /\ loaded \in [Edits -> RuleRows \cup {NoRule}]
  /\ target \in [Edits -> RuleIds]
  /\ answer \in [Edits -> Answers]
  /\ stage \in [Payments -> Stages]
  /\ used \in [Payments -> SUBSET RuleIds]
  /\ verdict \in [Payments -> Verdicts]
  /\ \A e \in Edits :
       /\ at[e] \in {"write", "refresh"} => ~Invalid(e)
       /\ at[e] = "write" /\ edit[e].op # "create" =>
            loaded[e] # NoRule /\ target[e] \in Stored
       /\ at[e] = "refresh" => target[e] \in Stored

\* Check-then-insert and concurrent renames never leave two rules of one name.
NamesUnique == Distinct(rules)

\* A deactivated rule stays deactivated and stored, whatever updates that
\* loaded it before are written after it.
DeactivationSticks ==
  [][\A i \in Stored :
       rules'[i] # NoRule /\ (i \notin active => i \notin active')]_ruleVars

Changes(e, i) ==
  edit[e].op = "update" /\ edit[e].id = i /\ loaded[e] # NoRule

\* A column that an acknowledged update changed holds what that update or
\* another one that meant to change it asked for: no update undoes a change
\* to a column it did not itself touch.
EditsSurvive ==
  \A e \in Edits :
    LET i == edit[e].id
        rivals == {d \in Edits : Changes(d, i)} IN
    answer[e].code = 200 /\ Changes(e, i) =>
      /\ edit[e].name # loaded[e].name =>
           \E d \in rivals : edit[d].name # loaded[d].name /\ rules[i].name = edit[d].name
      /\ edit[e].risk # loaded[e].risk =>
           \E d \in rivals : edit[d].risk # loaded[d].risk /\ rules[i].risk = edit[d].risk
      /\ edit[e].fires # loaded[e].fires =>
           \E d \in rivals : edit[d].fires # loaded[d].fires /\ rules[i].fires = edit[d].fires

Retired(i) ==
  \E e \in Edits : edit[e].op = "deactivate" /\ edit[e].id = i /\ answer[e].code = 200

\* "Rules are applied to all subsequent transactions in real time": once an
\* administrator has been told that a rule is deactivated, it has no part in
\* the analyses that follow; once told that one is created, it has its part in
\* them, and declines what it fires on if it is critical, until deactivated.
RulesTakeEffect ==
  [][\A p \in Payments : stage[p] = "idle" /\ stage'[p] # "idle" =>
       /\ \A i \in RuleIds : Retired(i) => i \notin used'[p]
       /\ \A e \in Edits :
            LET i == target[e] IN
            answer[e].code = 201 /\ ~Retired(i) =>
              /\ i \in used'[p]
              /\ rules[i].risk = "critical" /\ p \in rules[i].fires =>
                   verdict'[p].decision = "decline"]_ruleVars
==============================================================================
