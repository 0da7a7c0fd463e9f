-------------------------- MODULE BackofficeProofs ---------------------------
(***************************************************************************)
(* Proofs about Backoffice, for any number of edits, payments and readers. *)
(* A step of Backoffice is one of RuleAdmin, or moves a payment on, which  *)
(* RuleAdmin's invariants do not notice (PaymentMoves): so what            *)
(* RuleAdminProofs shows of the rules holds here too.  Then the dashboard: *)
(* Figures says what each count is between while the others are taken.     *)
(* Last the lists: a row's rank is the number of newer rows, so those that *)
(* come only push the others back, and a resolved alert lets one row slip  *)
(* into the ranks already read (Ranks, ZoneKept, ZoneLoses); Paged counts  *)
(* the rows that may have slipped past a reader.                           *)
(***************************************************************************)
EXTENDS Backoffice, RuleAdminProofs, FiniteSetTheorems

\* What FlushPayment, CommitPayment and FailPayment do to RuleAdmin's variables.
PaymentMoves ==
  /\ \E p \in Payments, where \in {"flushed", "posted", "failed"} :
       stage[p] \in {"analysed", "flushed"} /\ stage' = [stage EXCEPT ![p] = where]
  /\ UNCHANGED <<table, editing, used, verdict>>

LEMMA RuleSteps == [Next]_vars => [RuleNext]_ruleVars \/ PaymentMoves
<1> SUFFICES ASSUME [Next]_vars PROVE [RuleNext]_ruleVars \/ PaymentMoves
  OBVIOUS
<1>1. ASSUME NEW p \in Payments, FlushPayment(p) \/ CommitPayment(p) \/ FailPayment(p)
      PROVE  PaymentMoves
  BY <1>1 DEF FlushPayment, CommitPayment, FailPayment, PaymentMoves
<1>2. ASSUME NEW s \in Resolutions, LoadAlert(s) \/ ResolveAlert(s) \/ ResolveFails(s)
      PROVE  UNCHANGED ruleVars
  BY <1>2 DEF LoadAlert, ResolveAlert, ResolveFails
<1>3. ASSUME NEW q \in Readers, QueryStats(q) \/ ReadPage(q) \/ CountHistory(q)
      PROVE  UNCHANGED ruleVars
  BY <1>3 DEF QueryStats, ReadPage, CountHistory, QueryList
<1>4. CASE UNCHANGED vars
  BY <1>4 DEF vars
<1>5. CASE Quiet
  BY <1>5 DEF Quiet, vars
<1> QED
  BY <1>1, <1>2, <1>3, <1>4, <1>5 DEF Next

LEMMA RulesTyped == TypeInv /\ [Next]_vars => TypeInv'
<1>1. TypeInv /\ PaymentMoves => TypeInv'
  BY DEF PaymentMoves, TypeInv, RuleTypeOK, Bookkeeping, Stages, Stored, Invalid, table, editing
<1> QED
  BY <1>1, TypeStep, RuleSteps

LEMMA RulesTypedAlways == Spec => []TypeInv
<1>1. Init => TypeInv
  BY TypeInit DEF Init
<1> QED
  BY <1>1, RulesTyped, PTL DEF Spec

\* What RuleAdmin promises of the rules holds of the whole back office, while
\* payments go on to be flushed and committed.
THEOREM RulesKeepPromises ==
  Spec => []NamesUnique /\ []EditsSurvive /\ DeactivationSticks /\ RulesTakeEffect
<1>1. Init => NamesUnique /\ Acknowledged /\ Kept
  <2>1. RuleInit => NamesUnique
    BY RuleConstants DEF RuleInit, NamesUnique
  <2>2. RuleInit => Acknowledged
    BY DEF RuleInit, Acknowledged, HasCreated, NoAnswer
  <2>3. RuleInit => Kept
    BY RuleConstants DEF RuleInit, Kept, Changes
  <2> QED
    BY <2>1, <2>2, <2>3 DEF Init
<1>2. TypeInv /\ NamesUnique /\ [Next]_vars => NamesUnique'
  <2>1. NamesUnique /\ PaymentMoves => NamesUnique'
    BY DEF PaymentMoves, NamesUnique, Distinct, table
  <2> QED
    BY <2>1, NamesStep, RuleSteps
<1>3. TypeInv /\ Acknowledged /\ [Next]_vars => Acknowledged'
  <2>1. Acknowledged /\ PaymentMoves => Acknowledged'
    BY DEF PaymentMoves, Acknowledged, HasCreated, Retired, Stored, table, editing
  <2> QED
    BY <2>1, AcknowledgedStep, RuleSteps
<1>4. TypeInv /\ Kept /\ [Next]_vars => Kept'
  <2>1. Kept /\ PaymentMoves => Kept'
    BY DEF PaymentMoves, Kept, Changes, Updated, NameKept, RiskKept, FiresKept, Stored,
           table, editing
  <2> QED
    BY <2>1, KeptStep, RuleSteps
<1>5. TypeInv /\ [Next]_vars =>
        [\A i \in Stored : rules'[i] # NoRule /\ (i \notin active => i \notin active')]_ruleVars
  <2>1. PaymentMoves =>
          \A i \in Stored : rules'[i] # NoRule /\ (i \notin active => i \notin active')
    BY DEF PaymentMoves, Stored, table
  <2> QED
    BY <2>1, StaysRetired, RuleSteps
<1>6. TypeInv /\ Acknowledged /\ [Next]_vars =>
        [\A p \in Payments : stage[p] = "idle" /\ stage'[p] # "idle" =>
           /\ \A i \in RuleIds : Retired(i) => i \notin used'[p]
           /\ \A e \in Edits :
                LET i == target[e] IN
                answer[e].code = 201 /\ ~Retired(i) =>
                  /\ i \in used'[p]
                  /\ rules[i].risk = "critical" /\ p \in rules[i].fires =>
                       verdict'[p].decision = "decline"]_ruleVars
  <2>1. TypeInv /\ PaymentMoves =>
          \A p \in Payments : ~(stage[p] = "idle" /\ stage'[p] # "idle")
    BY DEF PaymentMoves, TypeInv, RuleTypeOK
  <2> QED
    BY <2>1, EffectStep, RuleSteps
<1> QED
  BY <1>1, <1>2, <1>3, <1>4, <1>5, <1>6, KeptMeans, RulesTypedAlways, PTL
  DEF Spec, DeactivationSticks, RulesTakeEffect

------------------------------------------------------------------------------
(* Types.                                                                  *)

\* The conjuncts of TypeOK that Backoffice adds.
OwnTypes ==
  /\ born \in [Payments -> Nat]
  /\ alert \in [Payments -> {"none", "open", "resolved"}]
  /\ signed \in [Payments -> [by : Analysts \cup {NoOne}, notes : Notes \cup {NoOne}]]
  /\ resolving \in [Resolutions -> {"idle", "write", "done"}]
  /\ asks \in [Resolutions -> Resolvings]
  /\ found \in [Resolutions -> [by : Analysts \cup {NoOne}, notes : Notes \cup {NoOne}]]
  /\ reads \in [Readers -> Readings]
  /\ queries \in [Readers -> 0..5]
  /\ tally \in [Readers -> [Counters -> Nat]]
  /\ page \in [Readers -> Nat]
  /\ shown \in [Readers -> SUBSET Payments]
  /\ seen \in [Readers -> SUBSET Payments]
  /\ opening \in [Readers -> [rows : SUBSET Payments, resolved : SUBSET Payments]]

\* The number of any payments is a number.
LEMMA Countable ==
  ASSUME NEW S \in SUBSET Payments
  PROVE  IsFiniteSet(S) /\ Cardinality(S) \in Nat
  BY BackofficeConstants, FS_Subset, FS_CardinalityType

LEMMA Matched ==
  ASSUME NEW q \in Readers
  PROVE  Matching(q) \subseteq Payments
  BY DEF Matching, Open, Posted

\* What a reader's queries leave.
LEMMA ReaderTypes ==
  ASSUME OwnTypes, NEW q \in Readers, QueryStats(q) \/ ReadPage(q) \/ CountHistory(q)
  PROVE  OwnTypes'
<1>1. Matching(q) \subseteq Payments /\ Resolved \subseteq Payments
  BY Matched DEF Resolved
<1>2. [rows |-> Matching(q), resolved |-> Resolved] \in
        [rows : SUBSET Payments, resolved : SUBSET Payments]
  BY <1>1
<1>3. Note(q) \/ UNCHANGED opening =>
        opening' \in [Readers -> [rows : SUBSET Payments, resolved : SUBSET Payments]]
  BY <1>2 DEF Note, OwnTypes
<1>4. CASE QueryStats(q)
  <2> DEFINE c == Counted(queries[q] + 1)
  <2>1. queries[q] \in 0..5 /\ queries[q] < 5
    BY <1>4 DEF QueryStats, OwnTypes
  <2>2. c \in Counters
    BY <2>1 DEF Counted, StatsQueries, Counters
  <2>3. Hits(q, c) \subseteq Payments
    BY <1>1 DEF Hits
  <2>4. Cardinality(Hits(q, c)) \in Nat
    BY <2>3, Countable
  <2>5. tally' = [tally EXCEPT ![q][c] = Cardinality(Hits(q, c))]
    BY <1>4 DEF QueryStats
  <2>6. tally' \in [Readers -> [Counters -> Nat]]
    BY <2>2, <2>4, <2>5 DEF OwnTypes
  <2>7. queries' \in [Readers -> 0..5]
    BY <1>4, <2>1 DEF QueryStats, OwnTypes
  <2> QED
    BY <1>3, <1>4, <2>6, <2>7 DEF QueryStats, OwnTypes, alerting
<1>5. ASSUME NEW what, QueryList(q, what) PROVE queries' \in [Readers -> 0..5]
  <2>1. Len(ListQueries(q)) \in {1, 2}
    BY DEF ListQueries
  <2>2. queries[q] \in 0..5
    BY DEF OwnTypes
  <2>3. (queries[q] + 1) % Len(ListQueries(q)) \in 0..5
    <3>1. \A n \in 1..6 : n % 1 \in 0..5 /\ n % 2 \in 0..5
      OBVIOUS
    <3>2. queries[q] + 1 \in 1..6
      BY <2>2
    <3>3. CASE Len(ListQueries(q)) = 1
      BY <3>1, <3>2, <3>3
    <3>4. CASE Len(ListQueries(q)) = 2
      BY <3>1, <3>2, <3>4
    <3> QED
      BY <2>1, <3>3, <3>4
  <2> QED
    BY <1>5, <2>3 DEF QueryList, OwnTypes
<1>6. CASE ReadPage(q)
  <2>1. OnPage(Matching(q), page[q] + 1) \subseteq Payments
    BY <1>1 DEF OnPage
  <2>2. QueryList(q, "page")
    BY <1>6 DEF ReadPage
  <2>3. shown' \in [Readers -> SUBSET Payments] /\ seen' \in [Readers -> SUBSET Payments]
    BY <1>6, <2>1 DEF ReadPage, OwnTypes
  <2>4. page' \in [Readers -> Nat]
    BY <1>6 DEF ReadPage, OwnTypes
  <2> QED
    BY <1>3, <1>5, <1>6, <2>2, <2>3, <2>4 DEF ReadPage, QueryList, OwnTypes, alerting
<1>7. CASE CountHistory(q)
  <2>1. Cardinality(Matching(q)) \in Nat
    BY <1>1, Countable
  <2>2. tally' \in [Readers -> [Counters -> Nat]]
    BY <1>7, <2>1 DEF CountHistory, OwnTypes, Counters
  <2>3. QueryList(q, "count")
    BY <1>7 DEF CountHistory
  <2> QED
    BY <1>5, <1>7, <2>2, <2>3 DEF CountHistory, QueryList, OwnTypes, alerting
<1> QED
  BY <1>4, <1>6, <1>7

LEMMA OwnTypesStep == OwnTypes /\ [Next]_vars => OwnTypes'
<1> SUFFICES ASSUME OwnTypes, [Next]_vars PROVE OwnTypes'
  OBVIOUS
<1>1. ASSUME NEW p \in Payments, FlushPayment(p) PROVE OwnTypes'
  <2>1. Cardinality({o \in Payments : born[o] > 0}) \in Nat
    BY Countable
  <2> QED
    BY <1>1, <2>1 DEF FlushPayment, OwnTypes, alerting, reading
<1>2. ASSUME NEW p \in Payments, CommitPayment(p) PROVE OwnTypes'
  BY <1>2 DEF CommitPayment, OwnTypes, reading
<1>3. ASSUME NEW p \in Payments, FailPayment(p) PROVE OwnTypes'
  BY <1>3 DEF FailPayment, OwnTypes, alerting, reading
<1>4. ASSUME NEW s \in Resolutions, LoadAlert(s) PROVE OwnTypes'
  BY <1>4 DEF LoadAlert, OwnTypes, Resolvings, reading
<1>5. ASSUME NEW s \in Resolutions, ResolveAlert(s) PROVE OwnTypes'
  <2> DEFINE p == asks[s].alert
  <2>1. p \in Payments /\ asks[s].by \in Analysts /\ asks[s].notes \in Notes
    BY DEF OwnTypes, Resolvings
  <2>2. /\ Merge(signed[p].by, found[s].by, asks[s].by) \in Analysts \cup {NoOne}
        /\ Merge(signed[p].notes, found[s].notes, asks[s].notes) \in Notes \cup {NoOne}
    BY <2>1 DEF OwnTypes, Merge
  <2> QED
    BY <1>5, <2>1, <2>2 DEF ResolveAlert, OwnTypes, reading
<1>6. ASSUME NEW s \in Resolutions, ResolveFails(s) PROVE OwnTypes'
  BY <1>6 DEF ResolveFails, OwnTypes, reading
<1>7. CASE RuleNext /\ UNCHANGED <<born, alerting, reading>>
  BY <1>7 DEF OwnTypes, alerting, reading
<1>8. CASE Quiet \/ UNCHANGED vars
  BY <1>8 DEF Quiet, vars, OwnTypes, alerting, reading
<1> QED
  BY <1>1, <1>2, <1>3, <1>4, <1>5, <1>6, <1>7, <1>8, ReaderTypes DEF Next

LEMMA OwnTypesInit == Init => OwnTypes
<1> SUFFICES ASSUME Init PROVE OwnTypes
  OBVIOUS
<1>1. /\ asks \in [Resolutions -> Resolvings]
      /\ resolving \in [Resolutions -> {"idle", "done"}]
      /\ reads \in [Readers -> Readings]
  BY BackofficeConstants DEF Init
<1> QED
  BY <1>1 DEF Init, OwnTypes, Unsigned, Counters

\* Every variable of the back office keeps its type.
THEOREM TypeCorrect == Spec => []TypeOK
<1>1. TypeInv /\ OwnTypes => TypeOK
  BY DEF TypeInv, OwnTypes, TypeOK
<1> QED
  BY <1>1, OwnTypesInit, OwnTypesStep, RulesTypedAlways, PTL DEF Spec

------------------------------------------------------------------------------
(* The dashboard.                                                          *)

\* The rows a reader of the statistics began with that count under a status.
Old(q, c) == opening[q].rows \cap Hits(q, c)

\* The total is that of the rows there at first.  Each status has since been
\* counted between those of them that have it, and those that have it now.
Figures ==
  \A q \in Readers :
    reads[q].kind = "stats" /\ queries[q] > 0 =>
      /\ opening[q].rows \subseteq Matching(q)
      /\ tally[q]["total"] = Cardinality(opening[q].rows)
      /\ \A n \in 2..4 :
           n <= queries[q] =>
             LET c == StatsQueries[n] IN
             /\ Cardinality(Old(q, c)) <= tally[q][c]
             /\ tally[q][c] <= Cardinality(Hits(q, c))

\* What has been posted stays posted, as it is.
LEMMA PostedStays ==
  ASSUME TypeInv, OwnTypes, [Next]_vars, NEW p \in Posted
  PROVE  p \in Posted' /\ verdict'[p] = verdict[p] /\ born'[p] = born[p]
<1>1. stage'[p] = stage[p] /\ verdict'[p] = verdict[p]
  <2>1. CASE PaymentMoves
    BY <2>1 DEF PaymentMoves, Posted, TypeInv, RuleTypeOK
  <2>2. ASSUME NEW o \in Payments, AnalysePayment(o)
        PROVE  stage'[p] = stage[p] /\ verdict'[p] = verdict[p]
    BY <2>2 DEF AnalysePayment, Posted, TypeInv, RuleTypeOK
  <2>3. ASSUME NEW e \in Edits, EditStep(e) PROVE UNCHANGED paying
    BY <2>3 DEF EditStep, RejectEdit, CheckName, LoadRule, InsertRule, UpdateRule, NameConflict,
                DeactivateRule, RefreshRule, EditFails
  <2> QED
    BY <2>1, <2>2, <2>3, RuleSteps DEF RuleNext, ruleVars, paying
<1>2. born'[p] = born[p]
  <2>1. ASSUME NEW o \in Payments, FlushPayment(o) PROVE born'[p] = born[p]
    BY <2>1 DEF FlushPayment, Posted, OwnTypes
  <2>2. ASSUME NEW o \in Payments, CommitPayment(o) \/ FailPayment(o) PROVE born' = born
    BY <2>2 DEF CommitPayment, FailPayment
  <2>3. ASSUME NEW s \in Resolutions, LoadAlert(s) \/ ResolveAlert(s) \/ ResolveFails(s)
        PROVE  born' = born
    BY <2>3 DEF LoadAlert, ResolveAlert, ResolveFails
  <2>4. ASSUME NEW r \in Readers, QueryStats(r) \/ ReadPage(r) \/ CountHistory(r)
        PROVE  born' = born
    BY <2>4 DEF QueryStats, ReadPage, CountHistory, QueryList
  <2>5. CASE UNCHANGED vars \/ Quiet
    BY <2>5 DEF vars, Quiet
  <2> QED
    BY <2>1, <2>2, <2>3, <2>4, <2>5 DEF Next
<1> QED
  BY <1>1, <1>2 DEF Posted

LEMMA ReadsStay == [Next]_vars => reads' = reads
  BY DEF Next, Quiet, FlushPayment, CommitPayment, FailPayment, LoadAlert, ResolveAlert,
         ResolveFails, QueryStats, ReadPage, CountHistory, QueryList, reading, vars

\* A reader's own figures change by its own queries only.
LEMMA ReaderAlone ==
  ASSUME [Next]_vars, OwnTypes, NEW q \in Readers, reads[q].kind = "stats"
  PROVE  /\ reads' = reads
         /\ QueryStats(q) \/ ( /\ queries'[q] = queries[q]
                              /\ tally'[q] = tally[q]
                              /\ opening'[q] = opening[q] )
<1>1. ASSUME NEW r \in Readers, QueryStats(r), r # q
      PROVE  /\ reads' = reads /\ queries'[q] = queries[q]
             /\ tally'[q] = tally[q] /\ opening'[q] = opening[q]
  BY <1>1 DEF QueryStats, Note, OwnTypes
<1>2. ASSUME NEW r \in Readers, ReadPage(r) \/ CountHistory(r)
      PROVE  /\ reads' = reads /\ queries'[q] = queries[q]
             /\ tally'[q] = tally[q] /\ opening'[q] = opening[q]
  BY <1>2 DEF ReadPage, CountHistory, QueryList, Note, OwnTypes
<1>3. ASSUME NEW p \in Payments, FlushPayment(p) \/ CommitPayment(p) \/ FailPayment(p)
      PROVE  UNCHANGED reading
  BY <1>3 DEF FlushPayment, CommitPayment, FailPayment
<1>4. ASSUME NEW s \in Resolutions, LoadAlert(s) \/ ResolveAlert(s) \/ ResolveFails(s)
      PROVE  UNCHANGED reading
  BY <1>4 DEF LoadAlert, ResolveAlert, ResolveFails
<1>5. (UNCHANGED vars \/ Quiet) => UNCHANGED reading
  BY DEF vars, Quiet
<1>6. QueryStats(q) => reads' = reads
  BY DEF QueryStats
<1>7. CASE UNCHANGED reading
  BY <1>7 DEF reading
<1>8. CASE \E r \in Readers : QueryStats(r)
  BY <1>1, <1>6, <1>8
<1>9. CASE \E r \in Readers : ReadPage(r) \/ CountHistory(r)
  BY <1>2, <1>9
<1>10. UNCHANGED reading \/ \E r \in Readers : QueryStats(r) \/ ReadPage(r) \/ CountHistory(r)
  BY <1>3, <1>4, <1>5 DEF Next
<1> QED
  BY <1>7, <1>8, <1>9, <1>10

\* What a query counts only grows, and of the old rows it counts the same.
LEMMA HitsGrow ==
  ASSUME TypeInv, OwnTypes, [Next]_vars, NEW q \in Readers, reads[q].kind = "stats", NEW c,
         NEW R \in SUBSET Matching(q)
  PROVE  /\ R \subseteq Matching(q)'
         /\ Cardinality(Hits(q, c)) <= Cardinality(Hits(q, c)')
         /\ R \cap Hits(q, c)' = R \cap Hits(q, c)
<1>1. reads' = reads
  BY ReaderAlone
<1>2. \A p \in Matching(q) : p \in Matching(q)' /\ verdict'[p] = verdict[p]
  BY <1>1, PostedStays DEF Matching
<1>3. Hits(q, c) \subseteq Hits(q, c)'
  BY <1>2 DEF Hits
<1>4. Hits(q, c)' \subseteq Payments
  BY <1>1 DEF Hits, Matching, Posted
<1>5. Cardinality(Hits(q, c)) <= Cardinality(Hits(q, c)')
  BY <1>3, <1>4, Countable, FS_Subset
<1> QED
  BY <1>2, <1>5 DEF Hits

\* The counting query of a status itself.
LEMMA CountStep ==
  ASSUME TypeInv, OwnTypes, Figures, [Next]_vars, NEW q \in Readers, QueryStats(q)
  PROVE  /\ queries'[q] = queries[q] + 1 /\ queries[q] \in 0..4
         /\ tally'[q] = [tally[q] EXCEPT ![StatsQueries[queries[q] + 1]] =
                           Cardinality(Hits(q, StatsQueries[queries[q] + 1]))]
         /\ (queries[q] = 0 => opening'[q].rows = Matching(q))
         /\ (queries[q] # 0 => opening'[q] = opening[q])
         /\ \A c : Hits(q, c)' = Hits(q, c)
         /\ Matching(q)' = Matching(q)
<1>1. queries'[q] = queries[q] + 1 /\ queries[q] \in 0..4
  BY DEF QueryStats, OwnTypes
<1>2. tally'[q] = [tally[q] EXCEPT ![StatsQueries[queries[q] + 1]] =
                     Cardinality(Hits(q, StatsQueries[queries[q] + 1]))]
  BY DEF QueryStats, Counted, OwnTypes
<1>3. /\ (queries[q] = 0 => opening'[q].rows = Matching(q))
      /\ (queries[q] # 0 => opening'[q] = opening[q])
  BY DEF QueryStats, Note, OwnTypes
<1>4. /\ \A c : Hits(q, c)' = Hits(q, c)
      /\ Matching(q)' = Matching(q)
  BY DEF QueryStats, Hits, Matching, Posted, Open, ruleVars, paying, alerting
<1> QED
  BY <1>1, <1>2, <1>3, <1>4

LEMMA FiguresStep == TypeInv /\ OwnTypes /\ Figures /\ [Next]_vars => Figures'
<1> SUFFICES ASSUME TypeInv, OwnTypes, Figures, [Next]_vars, NEW q \in Readers,
                    reads'[q].kind = "stats", queries'[q] > 0
             PROVE  /\ opening'[q].rows \subseteq Matching(q)'
                    /\ tally'[q]["total"] = Cardinality(opening'[q].rows)
                    /\ \A n \in 2..4 :
                         n <= queries'[q] =>
                           /\ Cardinality(Old(q, StatsQueries[n])') <= tally'[q][StatsQueries[n]]
                           /\ tally'[q][StatsQueries[n]] <= Cardinality(Hits(q, StatsQueries[n])')
  BY DEF Figures
<1>1. reads[q].kind = "stats"
  BY ReadsStay
<1>2. \A n \in 2..5 : StatsQueries[n] # "total"
  BY DEF StatsQueries
<1>3. \A n \in 2..4, k \in 3..5 : n < k => StatsQueries[n] # StatsQueries[k]
  BY DEF StatsQueries
<1>4. \A n \in 1..5 : StatsQueries[n] \in Counters
  BY DEF StatsQueries, Counters
<1>5. CASE QueryStats(q) /\ queries[q] = 0
  <2>0. /\ queries'[q] = queries[q] + 1
        /\ tally'[q] = [tally[q] EXCEPT ![StatsQueries[queries[q] + 1]] =
                          Cardinality(Hits(q, StatsQueries[queries[q] + 1]))]
        /\ opening'[q].rows = Matching(q)
        /\ Matching(q)' = Matching(q)
    BY <1>5, CountStep
  <2>1. queries'[q] = 1 /\ queries[q] + 1 = 1
    BY <1>5, <2>0
  <2>2. tally'[q]["total"] = Cardinality(Hits(q, "total"))
    <3>1. tally'[q] = [tally[q] EXCEPT !["total"] = Cardinality(Hits(q, "total"))]
      BY <2>0, <2>1 DEF StatsQueries
    <3> QED
      BY <3>1 DEF OwnTypes, Counters
  <2>3. Hits(q, "total") = Matching(q)
    BY DEF Hits
  <2> QED
    BY <2>0, <2>1, <2>2, <2>3
<1>6. CASE QueryStats(q) /\ queries[q] # 0
  <2> DEFINE k == queries[q] + 1
  <2>0. queries'[q] = queries[q] + 1 /\ queries[q] \in 0..4
    BY <1>6, CountStep
  <2>1. k \in 2..5 /\ queries'[q] = k /\ queries[q] > 0
    BY <1>6, <2>0
  <2>2. opening'[q] = opening[q] /\ Matching(q)' = Matching(q)
    BY <1>6, CountStep
  <2>3. \A c : Hits(q, c)' = Hits(q, c) /\ Old(q, c)' = Old(q, c)
    BY <1>6, <2>2, CountStep DEF Old
  <2>4. tally'[q] = [tally[q] EXCEPT ![StatsQueries[k]] = Cardinality(Hits(q, StatsQueries[k]))]
    BY <1>6, CountStep
  <2>5. tally[q] \in [Counters -> Nat]
    BY DEF OwnTypes
  <2>6. tally'[q]["total"] = tally[q]["total"]
    BY <1>2, <2>1, <2>4, <2>5 DEF Counters
  <2>7. ASSUME NEW n \in 2..4, n <= k
        PROVE  /\ Cardinality(Old(q, StatsQueries[n])') <= tally'[q][StatsQueries[n]]
               /\ tally'[q][StatsQueries[n]] <= Cardinality(Hits(q, StatsQueries[n])')
    <3> DEFINE c == StatsQueries[n]
    <3>1. CASE n = k
      <4>1. tally'[q][c] = Cardinality(Hits(q, c))
        BY <1>4, <2>4, <2>5, <3>1
      <4>2. Old(q, c) \subseteq Hits(q, c) /\ Hits(q, c) \subseteq Payments
        BY Matched DEF Old, Hits
      <4>3. Cardinality(Old(q, c)) <= Cardinality(Hits(q, c)) /\ Cardinality(Hits(q, c)) \in Nat
        BY <4>2, Countable, FS_Subset
      <4> QED
        BY <2>3, <4>1, <4>3
    <3>2. CASE n # k
      <4>1. n < k /\ k \in 3..5 /\ n <= queries[q]
        BY <2>0, <2>1, <2>7, <3>2
      <4>2. tally'[q][c] = tally[q][c]
        BY <1>3, <1>4, <2>4, <2>5, <4>1
      <4> QED
        BY <1>1, <2>1, <2>3, <4>1, <4>2 DEF Figures
    <3> QED
      BY <3>1, <3>2
  <2>8. opening[q].rows \subseteq Matching(q) /\ tally[q]["total"] = Cardinality(opening[q].rows)
    BY <1>1, <2>1 DEF Figures
  <2> QED
    BY <2>1, <2>2, <2>6, <2>7, <2>8
<1>7. CASE queries'[q] = queries[q] /\ tally'[q] = tally[q] /\ opening'[q] = opening[q]
  <2>1. queries[q] > 0
    BY <1>7
  <2>2. opening[q].rows \subseteq Matching(q) /\ tally[q]["total"] = Cardinality(opening[q].rows)
    BY <1>1, <2>1 DEF Figures
  <2>3. opening[q].rows \subseteq Matching(q)'
    BY <1>1, <2>2, HitsGrow
  <2>4. ASSUME NEW n \in 2..4, n <= queries[q]
        PROVE  /\ Cardinality(Old(q, StatsQueries[n])') <= tally[q][StatsQueries[n]]
               /\ tally[q][StatsQueries[n]] <= Cardinality(Hits(q, StatsQueries[n])')
    <3> DEFINE c == StatsQueries[n]
    <3>1. /\ Cardinality(Hits(q, c)) <= Cardinality(Hits(q, c)')
          /\ opening[q].rows \cap Hits(q, c)' = opening[q].rows \cap Hits(q, c)
      BY <1>1, <2>2, HitsGrow
    <3>2. Old(q, c)' = Old(q, c)
      BY <1>7, <3>1 DEF Old
    <3>3. Cardinality(Old(q, c)) <= tally[q][c] /\ tally[q][c] <= Cardinality(Hits(q, c))
      BY <1>1, <2>1, <2>4 DEF Figures
    <3>4. tally[q][c] \in Nat
      BY <1>4, <2>4 DEF OwnTypes
    <3>5. Hits(q, c) \subseteq Payments /\ Hits(q, c)' \subseteq Payments
      BY Matched DEF Hits, Matching, Posted, Open
    <3>6. Cardinality(Hits(q, c)) \in Nat /\ Cardinality(Hits(q, c)') \in Nat
      BY <3>5, Countable
    <3> QED
      BY <3>1, <3>2, <3>3, <3>4, <3>6
  <2> QED
    BY <1>7, <2>2, <2>3, <2>4
<1> QED
  BY <1>1, <1>5, <1>6, <1>7, ReaderAlone

\* Disjoint parts of a finite set add up to no more than the set, and to all of
\* it if they cover it.
LEMMA PartsAddUp ==
  ASSUME NEW S \in SUBSET Payments, NEW X \in SUBSET S, NEW Y \in SUBSET S, NEW Z \in SUBSET S,
         X \cap Y = {}, X \cap Z = {}, Y \cap Z = {}
  PROVE  /\ Cardinality(X) + Cardinality(Y) + Cardinality(Z) <= Cardinality(S)
         /\ S = X \cup Y \cup Z =>
              Cardinality(S) = Cardinality(X) + Cardinality(Y) + Cardinality(Z)
<1>1. /\ IsFiniteSet(S) /\ IsFiniteSet(X) /\ IsFiniteSet(Y) /\ IsFiniteSet(Z)
      /\ Cardinality(X) \in Nat /\ Cardinality(Y) \in Nat /\ Cardinality(Z) \in Nat
  BY Countable
<1>2. IsFiniteSet(X \cup Y) /\ Cardinality(X \cup Y) = Cardinality(X) + Cardinality(Y)
  <2>1. Cardinality(X \cap Y) = 0
    BY FS_EmptySet
  <2>2. /\ IsFiniteSet(X \cup Y)
        /\ Cardinality(X \cup Y) = Cardinality(X) + Cardinality(Y) - Cardinality(X \cap Y)
    BY <1>1, FS_Union, Zenon
  <2> QED
    BY <1>1, <2>1, <2>2
<1>3. Cardinality((X \cup Y) \cup Z) = Cardinality(X \cup Y) + Cardinality(Z)
  <2>1. (X \cup Y) \cap Z = {}
    OBVIOUS
  <2>2. Cardinality((X \cup Y) \cap Z) = 0
    BY <2>1, FS_EmptySet
  <2>3. Cardinality(X \cup Y) \in Nat
    BY <1>1, <1>2
  <2>4. Cardinality((X \cup Y) \cup Z) =
          Cardinality(X \cup Y) + Cardinality(Z) - Cardinality((X \cup Y) \cap Z)
    BY <1>1, <1>2, FS_Union, Zenon
  <2> QED
    BY <1>1, <2>2, <2>3, <2>4
<1>4. Cardinality((X \cup Y) \cup Z) <= Cardinality(S)
  <2>1. (X \cup Y) \cup Z \in SUBSET S
    OBVIOUS
  <2> QED
    BY <1>1, <2>1, FS_Subset
<1> QED
  BY <1>1, <1>2, <1>3, <1>4

LEMMA FiguresMean == TypeInv /\ OwnTypes /\ Figures => StatsConsistent
<1> SUFFICES ASSUME TypeInv, OwnTypes, Figures, NEW q \in Readers,
                    reads[q].kind = "stats", queries[q] = 5
             PROVE  LET t == tally[q]
                        parts == t["flagged"] + t["declined"] + t["approved"] IN
                    /\ Cardinality(opening[q].rows) <= t["total"]
                    /\ t["total"] <= parts
                    /\ parts <= Cardinality(Matching(q))
  BY DEF StatsConsistent
<1> DEFINE R == opening[q].rows
           F == Hits(q, "flagged")
           D == Hits(q, "declined")
           A == Hits(q, "approved")
<1>1. R \subseteq Matching(q) /\ tally[q]["total"] = Cardinality(R)
  BY DEF Figures
<1>2. /\ Cardinality(Old(q, "flagged")) <= tally[q]["flagged"]
      /\ tally[q]["flagged"] <= Cardinality(F)
      /\ Cardinality(Old(q, "declined")) <= tally[q]["declined"]
      /\ tally[q]["declined"] <= Cardinality(D)
      /\ Cardinality(Old(q, "approved")) <= tally[q]["approved"]
      /\ tally[q]["approved"] <= Cardinality(A)
  BY DEF Figures, StatsQueries
<1>3. Matching(q) \subseteq Posted /\ Matching(q) \subseteq Payments
  BY DEF Matching, Posted
<1>4. \A p \in Matching(q) : verdict[p].decision \in Decisions
  BY <1>3 DEF TypeInv, RuleTypeOK, Verdicts
<1>5. /\ \A p \in Matching(q) : p \in F <=> verdict[p].decision = "flag"
      /\ \A p \in Matching(q) : p \in D <=> verdict[p].decision = "decline"
      /\ \A p \in Matching(q) : p \in A <=> verdict[p].decision = "approve"
  BY <1>4 DEF Hits, StatusOf, Statuses, Decisions
<1>6. F \subseteq Matching(q) /\ D \subseteq Matching(q) /\ A \subseteq Matching(q)
  BY DEF Hits
<1>7. F \cap D = {} /\ F \cap A = {} /\ D \cap A = {} /\ Matching(q) = F \cup D \cup A
  BY <1>4, <1>5, <1>6 DEF Decisions
<1>8. Cardinality(F) + Cardinality(D) + Cardinality(A) <= Cardinality(Matching(q))
  BY <1>3, <1>6, <1>7, PartsAddUp
<1>9. Cardinality(R) = Cardinality(R \cap F) + Cardinality(R \cap D) + Cardinality(R \cap A)
  <2>1. /\ R \in SUBSET Payments /\ R = (R \cap F) \cup (R \cap D) \cup (R \cap A)
        /\ (R \cap F) \cap (R \cap D) = {} /\ (R \cap F) \cap (R \cap A) = {}
        /\ (R \cap D) \cap (R \cap A) = {}
    BY <1>1, <1>3, <1>7
  <2> QED
    BY <2>1, PartsAddUp
<1>10. \A S \in SUBSET Payments : Cardinality(S) \in Nat
  BY Countable
<1>11. /\ R \in SUBSET Payments /\ F \in SUBSET Payments /\ D \in SUBSET Payments
       /\ A \in SUBSET Payments /\ Old(q, "flagged") = R \cap F
       /\ Old(q, "declined") = R \cap D /\ Old(q, "approved") = R \cap A
  BY <1>1, <1>3, <1>6 DEF Old
<1>12. /\ tally[q]["flagged"] \in Nat /\ tally[q]["declined"] \in Nat
       /\ tally[q]["approved"] \in Nat
  BY DEF OwnTypes, Counters
<1>13. /\ Cardinality(R) \in Nat /\ Cardinality(F) \in Nat /\ Cardinality(D) \in Nat
       /\ Cardinality(A) \in Nat /\ Cardinality(R \cap F) \in Nat
       /\ Cardinality(R \cap D) \in Nat /\ Cardinality(R \cap A) \in Nat
       /\ Cardinality(Matching(q)) \in Nat
  BY <1>3, <1>10, <1>11
<1>14. /\ Cardinality(R \cap F) <= tally[q]["flagged"]
       /\ Cardinality(R \cap D) <= tally[q]["declined"]
       /\ Cardinality(R \cap A) <= tally[q]["approved"]
  BY <1>2, <1>11
<1>15. tally[q]["total"] <= tally[q]["flagged"] + tally[q]["declined"] + tally[q]["approved"]
  BY <1>1, <1>9, <1>12, <1>13, <1>14
<1>16. tally[q]["flagged"] + tally[q]["declined"] + tally[q]["approved"] <=
         Cardinality(Matching(q))
  BY <1>2, <1>8, <1>12, <1>13
<1> QED
  BY <1>1, <1>13, <1>15, <1>16

\* The dashboard's figures fit together, however many payments commit between
\* its queries.
THEOREM FiguresFit == Spec => []StatsConsistent
<1>1. Init => Figures
  BY DEF Init, Figures
<1>2. Spec => []OwnTypes
  BY OwnTypesInit, OwnTypesStep, PTL DEF Spec
<1> QED
  BY <1>1, <1>2, FiguresStep, FiguresMean, RulesTypedAlways, PTL DEF Spec

------------------------------------------------------------------------------
(***************************************************************************)
(* Ranks.  A row's rank among some rows is the number of newer ones, as    *)
(* created_at orders them; a page is the rows of some ranks.               *)
(***************************************************************************)

Newer(b, R, p) == Cardinality({o \in R : b[o] > b[p]})

\* Every row of R has a created_at of its own.
Dates(b, R) ==
  /\ \A p \in R : b[p] \in Nat
  /\ \A p, o \in R : b[p] = b[o] => p = o

LEMMA NewerCounts ==
  ASSUME NEW R \in SUBSET Payments, NEW b, NEW p
  PROVE  /\ IsFiniteSet({o \in R : b[o] > b[p]})
         /\ Newer(b, R, p) \in Nat
         /\ IsFiniteSet(R) /\ Cardinality(R) \in Nat
<1>1. {o \in R : b[o] > b[p]} \in SUBSET Payments  OBVIOUS
<1> QED BY <1>1, Countable DEF Newer

\* The ranks of R are 0 .. |R| - 1, each taken once.
LEMMA Ranks ==
  ASSUME NEW R \in SUBSET Payments, NEW b, Dates(b, R)
  PROVE  /\ \A p \in R : Newer(b, R, p) \in 0..(Cardinality(R) - 1)
         /\ \A p, o \in R : Newer(b, R, p) = Newer(b, R, o) => p = o
         /\ \A i \in 0..(Cardinality(R) - 1) : \E p \in R : Newer(b, R, p) = i
<1> DEFINE Above(p) == {o \in R : b[o] > b[p]}
           n == Cardinality(R)
           rank == [p \in R |-> Newer(b, R, p)]
<1>1. IsFiniteSet(R) /\ n \in Nat  BY NewerCounts
<1>2. \A p \in R : /\ IsFiniteSet(Above(p)) /\ Newer(b, R, p) = Cardinality(Above(p))
                   /\ Newer(b, R, p) \in Nat
  BY NewerCounts DEF Newer
<1>0. \A p \in R : Newer(b, R, p) \in Nat  BY NewerCounts
<1>3. \A p \in R : Newer(b, R, p) < n
  <2> TAKE p \in R
  <2>1. Above(p) \in SUBSET R /\ p \notin Above(p)  BY DEF Dates
  <2>2. Above(p) # R  BY <2>1
  <2> HIDE DEF Above
  <2>3. Cardinality(Above(p)) <= n /\ Cardinality(Above(p)) # n
    BY <1>1, <2>1, <2>2, FS_Subset
  <2> HIDE DEF n
  <2> QED BY <1>1, <1>2, <2>3
<1>4. \A p, o \in R : b[p] < b[o] => Newer(b, R, o) < Newer(b, R, p)
  <2> TAKE p, o \in R
  <2> HAVE b[p] < b[o]
  <2>1. Above(o) \in SUBSET Above(p)  BY DEF Dates
  <2>2. o \in Above(p) /\ o \notin Above(o)  BY DEF Dates
  <2>3. Above(o) # Above(p)  BY <2>2
  <2> HIDE DEF Above
  <2>4. /\ Cardinality(Above(o)) <= Cardinality(Above(p))
        /\ Cardinality(Above(o)) # Cardinality(Above(p))
    BY <1>2, <2>1, <2>3, FS_Subset
  <2> QED BY <1>2, <2>4
<1>5. \A p, o \in R : Newer(b, R, p) = Newer(b, R, o) => p = o
  <2> TAKE p, o \in R
  <2> HAVE Newer(b, R, p) = Newer(b, R, o)
  <2>1. b[p] \in Nat /\ b[o] \in Nat  BY DEF Dates
  <2>2. ~(b[p] < b[o]) /\ ~(b[o] < b[p])
    <3>1. Newer(b, R, p) \in Nat /\ Newer(b, R, o) \in Nat  BY <1>0
    <3> HIDE DEF Above, rank, n
    <3> QED BY <1>4, <3>1
  <2> QED BY <2>1, <2>2 DEF Dates
<1> HIDE DEF n
<1>6. \A p \in R : Newer(b, R, p) \in 0..(n - 1)  BY <1>0, <1>1, <1>3
<1>7. rank \in Injection(R, 0..(n - 1))
  <2>1. rank \in [R -> 0..(n - 1)] /\ \A p, o \in R : rank[p] = rank[o] => p = o
    BY <1>5, <1>6
  <2> HIDE DEF rank
  <2> QED BY <2>1 DEF Injection, IsInjective
<1>8. IsFiniteSet(0..(n - 1)) /\ Cardinality(0..(n - 1)) = n
  <2>1. /\ IsFiniteSet(0..(n - 1))
        /\ Cardinality(0..(n - 1)) = IF 0 > n - 1 THEN 0 ELSE n - 1 - 0 + 1
    BY <1>1, FS_Interval
  <2> QED BY <1>1, <2>1
<1>9. rank \in Surjection(R, 0..(n - 1))
  <2>1. Cardinality(R) = n  BY DEF n
  <2> HIDE DEF rank
  <2> QED BY <1>7, <1>8, <2>1, FS_Injection
<1>10. \A i \in 0..(n - 1) : \E p \in R : rank[p] = i
  <2> HIDE DEF rank
  <2> QED BY <1>9 DEF Surjection
<1> QED BY <1>5, <1>6, <1>10 DEF n

\* As many rows as ranks.
LEMMA RankSlice ==
  ASSUME NEW R \in SUBSET Payments, NEW b, Dates(b, R),
         NEW lo \in Nat, NEW hi \in Int, hi < Cardinality(R), lo <= hi + 1
  PROVE  Cardinality({p \in R : Newer(b, R, p) \in lo..hi}) = hi - lo + 1
<1> DEFINE S == {p \in R : Newer(b, R, p) \in lo..hi}
           rank == [p \in S |-> Newer(b, R, p)]
<1>1. IsFiniteSet(S)  BY Countable
<1>2. \A p, o \in R : Newer(b, R, p) = Newer(b, R, o) => p = o  BY Ranks
<1>3. \A i \in lo..hi : \E p \in S : Newer(b, R, p) = i
  <2> TAKE i \in lo..hi
  <2>1. Cardinality(R) \in Nat  BY NewerCounts
  <2>2. i \in 0..(Cardinality(R) - 1)  BY <2>1
  <2>3. PICK p \in R : Newer(b, R, p) = i  BY <2>2, Ranks
  <2> QED BY <2>3
<1>4. rank \in [S -> lo..hi] /\ \A p, o \in S : rank[p] = rank[o] => p = o
  BY <1>2
<1>5. \A i \in lo..hi : \E p \in S : rank[p] = i  BY <1>3
<1> HIDE DEF S, rank
<1>6. rank \in Injection(S, lo..hi)  BY <1>4 DEF Injection, IsInjective
<1>7. rank \in Surjection(S, lo..hi)  BY <1>4, <1>5 DEF Surjection
<1>8. Cardinality(lo..hi) = Cardinality(S)  BY <1>1, <1>6, <1>7, FS_Surjection
<1>9. Cardinality(lo..hi) = IF lo > hi THEN 0 ELSE hi - lo + 1  BY FS_Interval
<1> QED BY <1>8, <1>9 DEF S

\* A page has PerPage rows unless it is the last one; and it reaches no further
\* than there are rows.
LEMMA PageSize ==
  ASSUME NEW R \in SUBSET Payments, Dates(born, R), NEW n \in Nat, n > 0
  PROVE  LET c == Cardinality(OnPage(R, n)) IN
         /\ c \in 0..PerPage
         /\ c > 0 => Offset(n) + c <= Cardinality(R)
         /\ c < PerPage => Cardinality(R) < n * PerPage
<1> DEFINE lo == Offset(n)
           size == Cardinality(R)
           c == Cardinality(OnPage(R, n))
<1>1. PerPage \in Nat /\ PerPage > 0  BY BackofficeConstants
<1>2. size \in Nat  BY NewerCounts
<1>3. lo \in Nat /\ lo + PerPage = n * PerPage
  <2>1. n - 1 \in Nat  OBVIOUS
  <2>2. (n - 1) * PerPage \in Nat  BY <1>1, <2>1
  <2>3. (n - 1) * PerPage + PerPage = n * PerPage  BY <1>1
  <2> QED BY <2>2, <2>3 DEF Offset
<1>4. OnPage(R, n) = {p \in R : Newer(born, R, p) \in lo..(lo + PerPage - 1)}
  BY DEF OnPage, Newer
<1>5. \A p \in R : Newer(born, R, p) \in 0..(size - 1)  BY Ranks
<1> HIDE DEF lo
<1>6. CASE size <= lo
  <2>1. OnPage(R, n) = {}  BY <1>1, <1>2, <1>3, <1>4, <1>5, <1>6
  <2>2. c = 0  BY <2>1, FS_EmptySet
  <2> HIDE DEF c, size
  <2>3. size < n * PerPage  BY <1>1, <1>2, <1>3, <1>6
  <2> QED BY <1>1, <2>2, <2>3 DEF c, size
<1>7. CASE size >= lo + PerPage
  <2> DEFINE hi == lo + PerPage - 1
  <2>1. hi \in Int /\ hi < Cardinality(R) /\ lo <= hi + 1  BY <1>1, <1>2, <1>3, <1>7
  <2> HIDE DEF hi
  <2>2. Cardinality({p \in R : Newer(born, R, p) \in lo..hi}) = hi - lo + 1
    BY <1>3, <2>1, RankSlice
  <2>3. c = hi - lo + 1  BY <1>4, <2>2 DEF hi
  <2>4. c = PerPage  BY <1>1, <1>3, <2>3 DEF hi
  <2> HIDE DEF c
  <2> QED BY <1>1, <1>2, <1>3, <1>7, <2>4 DEF c, lo
<1>8. CASE size > lo /\ size < lo + PerPage
  <2> DEFINE hi == size - 1
  <2>1. hi \in Int /\ hi < Cardinality(R) /\ lo <= hi + 1  BY <1>2, <1>3, <1>8
  <2>2. OnPage(R, n) = {p \in R : Newer(born, R, p) \in lo..hi}
    BY <1>1, <1>2, <1>3, <1>4, <1>5, <1>8
  <2> HIDE DEF hi
  <2>3. Cardinality({p \in R : Newer(born, R, p) \in lo..hi}) = hi - lo + 1
    BY <1>3, <2>1, RankSlice
  <2>4. c = hi - lo + 1  BY <2>2, <2>3
  <2>5. c = size - lo  BY <1>2, <1>3, <2>4 DEF hi
  <2> HIDE DEF c
  <2> QED BY <1>1, <1>2, <1>3, <1>8, <2>5 DEF c, lo
<1> QED BY <1>1, <1>2, <1>3, <1>6, <1>7, <1>8

Zone(b, R, m) == {p \in R : Newer(b, R, p) < m}

\* Rows that come move the others back: none enters a zone of first ranks.
LEMMA ZoneKept ==
  ASSUME NEW S \in SUBSET Payments, NEW R \in SUBSET S, NEW b, NEW c,
         \A p \in R : c[p] = b[p], NEW m \in Nat
  PROVE  Zone(c, S, m) \cap R \subseteq Zone(b, R, m)
<1> SUFFICES ASSUME NEW p \in R, Newer(c, S, p) < m PROVE Newer(b, R, p) < m
  BY DEF Zone
<1>1. {o \in R : b[o] > b[p]} \in SUBSET {o \in S : c[o] > c[p]}  OBVIOUS
<1>2. /\ IsFiniteSet({o \in S : c[o] > c[p]})
      /\ Newer(c, S, p) \in Nat /\ Newer(b, R, p) \in Nat
  <2>1. R \in SUBSET Payments  OBVIOUS
  <2> QED BY <2>1, NewerCounts
<1>3. Newer(b, R, p) <= Newer(c, S, p)  BY <1>1, <1>2, FS_Subset DEF Newer
<1> QED BY <1>2, <1>3

\* A row that goes lets at most one other into the zone.
LEMMA ZoneLoses ==
  ASSUME NEW R \in SUBSET Payments, NEW b, Dates(b, R), NEW c, \A p \in R : c[p] = b[p],
         NEW x \in R, NEW m \in Nat, NEW K \in SUBSET Payments
  PROVE  Cardinality(K \cap Zone(c, R \ {x}, m)) <= Cardinality(K \cap Zone(b, R, m)) + 1
<1> DEFINE S == R \ {x}
           T == K \cap Zone(c, S, m)
           U == K \cap Zone(b, R, m)
<1>1. T \in SUBSET Payments /\ U \in SUBSET Payments  BY DEF Zone
<1>2. /\ IsFiniteSet(T) /\ IsFiniteSet(U)
      /\ Cardinality(T) \in Nat /\ Cardinality(U) \in Nat
  BY <1>1, Countable
<1>3. \A p \in S : Newer(b, R, p) <= Newer(c, S, p) + 1
  <2> TAKE p \in S
  <2> DEFINE X == {o \in R : b[o] > b[p]}
             Y == {o \in S : c[o] > c[p]}
  <2>1. X \in SUBSET (Y \cup {x})  OBVIOUS
  <2>2. IsFiniteSet(Y) /\ Cardinality(Y) \in Nat /\ Newer(c, S, p) = Cardinality(Y)
    <3>1. S \in SUBSET Payments  OBVIOUS
    <3> QED BY <3>1, NewerCounts DEF Newer
  <2>3. Newer(b, R, p) = Cardinality(X) /\ Newer(b, R, p) \in Nat  BY NewerCounts DEF Newer
  <2> HIDE DEF X, Y
  <2>4. /\ IsFiniteSet(Y \cup {x})
        /\ Cardinality(Y \cup {x}) = IF x \in Y THEN Cardinality(Y) ELSE Cardinality(Y) + 1
    BY <2>2, FS_AddElement
  <2>5. Cardinality(X) <= Cardinality(Y \cup {x})  BY <2>1, <2>4, FS_Subset
  <2> QED BY <2>2, <2>3, <2>4, <2>5
<1>4. \A p \in T : p \in U \/ Newer(b, R, p) = m
  <2> TAKE p \in T
  <2>1. p \in S /\ p \in R /\ p \in K /\ Newer(c, S, p) < m  BY DEF Zone
  <2>2. Newer(b, R, p) \in Nat /\ Newer(c, S, p) \in Nat
    <3>1. S \in SUBSET Payments  OBVIOUS
    <3> QED BY <3>1, NewerCounts
  <2>3. Newer(b, R, p) <= m  BY <1>3, <2>1, <2>2
  <2>4. CASE Newer(b, R, p) < m  BY <2>1, <2>4 DEF Zone
  <2>5. CASE Newer(b, R, p) = m  BY <2>5
  <2> QED BY <2>2, <2>3, <2>4, <2>5
<1>5. \A p \in T : p \in R  BY DEF Zone
<1> HIDE DEF S, T, U
<1>6. CASE T \subseteq U
  <2>1. Cardinality(T) <= Cardinality(U)  BY <1>2, <1>6, FS_Subset
  <2> QED BY <1>2, <2>1 DEF T, U, S
<1>7. CASE \E e \in T : e \notin U
  <2>1. PICK e \in T : e \notin U  BY <1>7
  <2>2. \A p \in T : p \in U \/ p = e  BY <1>4, <1>5, <2>1, Ranks
  <2>3. T \in SUBSET (U \cup {e})  BY <2>2
  <2>4. /\ IsFiniteSet(U \cup {e})
        /\ Cardinality(U \cup {e}) = IF e \in U THEN Cardinality(U) ELSE Cardinality(U) + 1
    BY <1>2, FS_AddElement
  <2>5. Cardinality(T) <= Cardinality(U \cup {e})  BY <2>3, <2>4, FS_Subset
  <2>6. Cardinality(T) <= Cardinality(U) + 1  BY <1>2, <2>1, <2>4, <2>5
  <2> QED BY <2>6 DEF T, U, S
<1> QED BY <1>6, <1>7

------------------------------------------------------------------------------
(***************************************************************************)
(* The ledger under the readers.  The flush gives each payment the next    *)
(* created_at; only posted payments have alerts, and only alerts that      *)
(* exist are resolved.                                                     *)
(***************************************************************************)

Flushed == {p \in Payments : born[p] > 0}

Dated ==
  /\ \A p \in Payments :
       /\ stage[p] \in {"flushed", "posted"} => p \in Flushed
       /\ stage[p] \in {"absent", "idle", "analysed"} => born[p] = 0
       /\ born[p] <= Cardinality(Flushed)
       /\ alert[p] # "none" => stage[p] = "posted"
  /\ Dates(born, Flushed)
  /\ \A s \in Resolutions : resolving[s] = "write" => alert[asks[s].alert] # "none"

LEMMA DatedFlush ==
  ASSUME TypeInv, OwnTypes, Dated, NEW p \in Payments, FlushPayment(p)
  PROVE  Dated'
<1> DEFINE n == Cardinality(Flushed)
<1>1. IsFiniteSet(Flushed) /\ n \in Nat
  <2>1. Flushed \in SUBSET Payments  BY DEF Flushed
  <2> QED BY <2>1, Countable
<1>2. stage \in [Payments -> Stages] /\ born \in [Payments -> Nat]
  BY DEF TypeInv, RuleTypeOK, OwnTypes
<1>3. /\ stage[p] = "analysed" /\ stage' = [stage EXCEPT ![p] = "flushed"]
      /\ born' = [born EXCEPT ![p] = 1 + n]
      /\ UNCHANGED alerting
  BY DEF FlushPayment, Flushed
<1>4. born[p] = 0 /\ alert[p] = "none" /\ p \notin Flushed
  BY <1>3 DEF Dated, Flushed
<1> HIDE DEF n
<1>5. /\ stage'[p] = "flushed" /\ born'[p] = 1 + n /\ born'[p] > 0
      /\ \A o \in Payments : o # p => stage'[o] = stage[o] /\ born'[o] = born[o]
  BY <1>1, <1>2, <1>3
<1>6. Flushed' = Flushed \cup {p}  BY <1>2, <1>4, <1>5 DEF Flushed
<1>7. Cardinality(Flushed') = n + 1
  BY <1>1, <1>4, <1>6, FS_AddElement DEF n
<1>8. \A o \in Payments : born[o] <= n  BY DEF Dated, n
<1>9. Dates(born', Flushed')
  <2>1. \A o \in Flushed : o \in Payments /\ o # p /\ born'[o] = born[o] /\ born[o] <= n
    BY <1>4, <1>5, <1>8 DEF Flushed
  <2>2. \A o \in Flushed' : born'[o] \in Nat
    BY <1>1, <1>2, <1>5, <1>6, <2>1
  <2>3. \A o \in Flushed : born'[o] # born'[p]
    <3> TAKE o \in Flushed
    <3>1. born[o] \in Nat  BY <1>2, <2>1
    <3> QED BY <1>1, <1>5, <2>1, <3>1
  <2>4. \A o, x \in Flushed' : born'[o] = born'[x] => o = x
    BY <1>6, <2>1, <2>3 DEF Dated, Dates
  <2> QED BY <2>2, <2>4 DEF Dates
<1>10. ASSUME NEW o \in Payments
       PROVE  /\ stage'[o] \in {"flushed", "posted"} => o \in Flushed'
              /\ stage'[o] \in {"absent", "idle", "analysed"} => born'[o] = 0
              /\ born'[o] <= Cardinality(Flushed')
              /\ alert'[o] # "none" => stage'[o] = "posted"
  <2>1. CASE o = p
    BY <1>1, <1>3, <1>4, <1>5, <1>6, <1>7, <2>1 DEF alerting
  <2>2. CASE o # p
    <3>1. born'[o] <= n + 1  BY <1>1, <1>2, <1>5, <1>8, <2>2
    <3> QED BY <1>3, <1>5, <1>6, <1>7, <2>2, <3>1 DEF Dated, alerting
  <2> QED BY <2>1, <2>2
<1>11. \A s \in Resolutions : resolving'[s] = "write" => alert'[asks'[s].alert] # "none"
  BY <1>3 DEF Dated, alerting
<1> QED BY <1>9, <1>10, <1>11 DEF Dated

\* What stands still where created_at does.
LEMMA DatedKept ==
  ASSUME Dated, UNCHANGED <<born, asks>>,
         \A p \in Payments :
           /\ stage'[p] \in {"flushed", "posted"} => stage[p] \in {"flushed", "posted"}
           /\ stage'[p] \in {"absent", "idle", "analysed"} =>
                stage[p] \in {"absent", "idle", "analysed"}
           /\ alert'[p] # "none" => stage'[p] = "posted"
           /\ alert[p] # "none" => alert'[p] # "none",
         \A s \in Resolutions :
           resolving'[s] = "write" => resolving[s] = "write" \/ alert[asks[s].alert] # "none",
         \A s \in Resolutions : asks[s].alert \in Payments
  PROVE  Dated'
<1>1. Flushed' = Flushed  BY DEF Flushed
<1>2. \A s \in Resolutions : resolving'[s] = "write" => alert'[asks'[s].alert] # "none"
  BY DEF Dated
<1>3. \A p \in Payments :
        /\ stage'[p] \in {"flushed", "posted"} => p \in Flushed'
        /\ stage'[p] \in {"absent", "idle", "analysed"} => born'[p] = 0
        /\ born'[p] <= Cardinality(Flushed')
        /\ alert'[p] # "none" => stage'[p] = "posted"
  BY <1>1 DEF Dated
<1>4. Dates(born', Flushed')  BY <1>1 DEF Dated
<1> QED BY <1>2, <1>3, <1>4 DEF Dated

LEMMA DatedStep == TypeInv /\ OwnTypes /\ Dated /\ [Next]_vars => Dated'
<1> SUFFICES ASSUME TypeInv, OwnTypes, Dated, [Next]_vars PROVE Dated'  OBVIOUS
<1>1. /\ stage \in [Payments -> Stages] /\ alert \in [Payments -> {"none", "open", "resolved"}]
      /\ resolving \in [Resolutions -> {"idle", "write", "done"}]
      /\ \A s \in Resolutions : asks[s].alert \in Payments
  BY DEF TypeInv, RuleTypeOK, OwnTypes, Resolvings
<1>2. \A p \in Payments : alert[p] # "none" => stage[p] = "posted"  BY DEF Dated
<1>3. CASE RuleNext /\ UNCHANGED <<born, alerting, reading>>
  <2>1. UNCHANGED <<born, asks, alert, resolving>>  BY <1>3 DEF alerting
  <2>2. ASSUME NEW o \in Payments, AnalysePayment(o) PROVE Dated'
    <3>1. stage[o] = "idle" /\ stage' = [stage EXCEPT ![o] = "analysed"]
      BY <2>2 DEF AnalysePayment
    <3>2. stage'[o] = "analysed" /\ \A p \in Payments : p # o => stage'[p] = stage[p]
      BY <1>1, <3>1
    <3> QED BY <1>1, <1>2, <2>1, <3>1, <3>2, DatedKept
  <2>3. ASSUME NEW e \in Edits, EditStep(e) PROVE Dated'
    <3>1. stage' = stage
      BY <2>3 DEF EditStep, RejectEdit, CheckName, LoadRule, InsertRule, UpdateRule,
                  NameConflict, DeactivateRule, RefreshRule, EditFails, paying
    <3> QED BY <1>1, <1>2, <2>1, <3>1, DatedKept
  <2> QED BY <1>3, <2>2, <2>3 DEF RuleNext
<1>4. ASSUME NEW p \in Payments, FlushPayment(p) PROVE Dated'
  BY <1>4, DatedFlush
<1>5. ASSUME NEW p \in Payments, CommitPayment(p) PROVE Dated'
  <2>1. /\ stage[p] = "flushed" /\ stage' = [stage EXCEPT ![p] = "posted"]
        /\ alert' = [alert EXCEPT ![p] = IF AlertNeeded(verdict[p]) THEN "open" ELSE alert[p]]
        /\ UNCHANGED <<born, asks, resolving>>
    BY <1>5 DEF CommitPayment
  <2>2. /\ stage'[p] = "posted"
        /\ \A o \in Payments : o # p => stage'[o] = stage[o] /\ alert'[o] = alert[o]
        /\ alert[p] = "none"
    BY <1>1, <1>2, <2>1
  <2> QED BY <1>1, <1>2, <2>1, <2>2, DatedKept
<1>6. ASSUME NEW p \in Payments, FailPayment(p) PROVE Dated'
  <2>1. /\ stage[p] \in {"analysed", "flushed"} /\ stage' = [stage EXCEPT ![p] = "failed"]
        /\ UNCHANGED <<born, alert, asks, resolving>>
    BY <1>6 DEF FailPayment, alerting
  <2>2. /\ stage'[p] = "failed" /\ alert[p] = "none"
        /\ \A o \in Payments : o # p => stage'[o] = stage[o]
    BY <1>1, <1>2, <2>1
  <2> QED BY <1>1, <1>2, <2>1, <2>2, DatedKept
<1>7. ASSUME NEW s \in Resolutions, LoadAlert(s) PROVE Dated'
  <2>1. /\ UNCHANGED <<born, alert, asks, stage>>
        /\ resolving' =
             [resolving EXCEPT ![s] = IF alert[asks[s].alert] = "none" THEN "done" ELSE "write"]
    BY <1>7 DEF LoadAlert, ruleVars, paying
  <2>2. \A r \in Resolutions :
          resolving'[r] = "write" => resolving[r] = "write" \/ alert[asks[r].alert] # "none"
    BY <1>1, <2>1
  <2> QED BY <1>1, <1>2, <2>1, <2>2, DatedKept
<1>8. ASSUME NEW s \in Resolutions, ResolveAlert(s) PROVE Dated'
  <2>1. /\ UNCHANGED <<born, asks, stage>> /\ resolving[s] = "write"
        /\ resolving' = [resolving EXCEPT ![s] = "done"]
        /\ alert' = [alert EXCEPT ![asks[s].alert] = "resolved"]
    BY <1>8 DEF ResolveAlert, ruleVars, paying
  <2>2. \A r \in Resolutions : resolving'[r] = "write" => resolving[r] = "write"
    BY <1>1, <2>1
  <2>3. alert[asks[s].alert] # "none"  BY <2>1 DEF Dated
  <2>4. \A p \in Payments : alert'[p] # "none" <=> alert[p] # "none"
    BY <1>1, <2>1, <2>3
  <2> QED BY <1>1, <1>2, <2>1, <2>2, <2>4, DatedKept
<1>9. ASSUME NEW s \in Resolutions, ResolveFails(s) PROVE Dated'
  <2>1. /\ UNCHANGED <<born, alert, asks, stage>>
        /\ resolving' = [resolving EXCEPT ![s] = "done"]
    BY <1>9 DEF ResolveFails, ruleVars, paying
  <2>2. \A r \in Resolutions : resolving'[r] = "write" => resolving[r] = "write"
    BY <1>1, <2>1
  <2> QED BY <1>1, <1>2, <2>1, <2>2, DatedKept
<1>10. ASSUME NEW r \in Readers, QueryStats(r) \/ ReadPage(r) \/ CountHistory(r) PROVE Dated'
  <2>1. UNCHANGED <<born, alert, asks, resolving, stage>>
    BY <1>10 DEF QueryStats, ReadPage, CountHistory, QueryList, ruleVars, paying, alerting
  <2> QED BY <1>1, <1>2, <2>1, DatedKept
<1>11. CASE Quiet \/ UNCHANGED vars
  <2>1. UNCHANGED <<born, alert, asks, resolving, stage>>
    BY <1>11 DEF Quiet, vars, ruleVars, paying, alerting
  <2> QED BY <1>1, <1>2, <2>1, DatedKept
<1> QED
  BY <1>3, <1>4, <1>5, <1>6, <1>7, <1>8, <1>9, <1>10, <1>11 DEF Next

LEMMA DatedAlways == Spec => []Dated
<1>1. Init => Dated
  <2> SUFFICES ASSUME Init PROVE Dated  OBVIOUS
  <2>1. /\ born = [p \in Payments |-> 0] /\ alert = [p \in Payments |-> "none"]
        /\ stage \in [Payments -> {"idle", "absent"}]
        /\ resolving \in [Resolutions -> {"idle", "done"}]
    BY BackofficeConstants DEF Init, RuleInit
  <2>2. Flushed = {}  BY <2>1 DEF Flushed
  <2>3. Cardinality(Flushed) = 0  BY <2>2, FS_EmptySet
  <2> QED BY <2>1, <2>2, <2>3 DEF Dated, Dates
<1>2. Spec => []OwnTypes
  BY OwnTypesInit, OwnTypesStep, PTL DEF Spec
<1> QED BY <1>1, <1>2, DatedStep, RulesTypedAlways, PTL DEF Spec

------------------------------------------------------------------------------
(***************************************************************************)
(* The rows of a list while it is read.                                    *)
(***************************************************************************)

Lists == {"alerts", "history"}

\* Rows that were not there yet may come.
RowsCome(q) ==
  /\ Matching(q) \subseteq Matching(q)'
  /\ Matching(q)' \cap Posted \subseteq Matching(q)
  /\ Resolved \subseteq Resolved'

\* Or an alert is resolved.
RowGoes(q) ==
  /\ reads[q].kind = "alerts"
  /\ \E x \in Matching(q) :
       /\ x \notin Resolved
       /\ Matching(q)' = Matching(q) \ {x}
       /\ Resolved' = Resolved \cup {x}

LEMMA RowsChange ==
  ASSUME TypeInv, OwnTypes, Dated, [Next]_vars, NEW q \in Readers, reads[q].kind \in Lists
  PROVE  RowsCome(q) \/ RowGoes(q)
<1>1. reads' = reads  BY ReadsStay
<1>2. stage \in [Payments -> Stages] /\ alert \in [Payments -> {"none", "open", "resolved"}]
  BY DEF TypeInv, RuleTypeOK, OwnTypes
<1>3. Posted \subseteq Posted'  BY PostedStays
<1>4. /\ reads[q].kind = "alerts" => Matching(q) = Open /\ Matching(q)' = Open'
      /\ reads[q].kind = "history" =>
           /\ Matching(q) = Posted \cap reads[q].whose
           /\ Matching(q)' = Posted' \cap reads[q].whose
  BY <1>1 DEF Matching
<1>5. ASSUME Open \subseteq Open', Open' \cap Posted \subseteq Open, Resolved' = Resolved
      PROVE  RowsCome(q)
  BY <1>3, <1>4, <1>5 DEF RowsCome, Lists
<1>6. ASSUME alert' = alert PROVE RowsCome(q)
  <2>1. Open' = Open /\ Resolved' = Resolved  BY <1>6 DEF Open, Resolved
  <2> QED BY <1>5, <2>1
<1>7. ASSUME NEW p \in Payments, CommitPayment(p) PROVE RowsCome(q)
  <2>1. /\ stage[p] = "flushed"
        /\ alert' = [alert EXCEPT ![p] = IF AlertNeeded(verdict[p]) THEN "open" ELSE alert[p]]
    BY <1>7 DEF CommitPayment
  <2>2. alert[p] = "none" /\ p \notin Posted  BY <2>1 DEF Dated, Posted
  <2>3. /\ \A o \in Payments : o # p => alert'[o] = alert[o]
        /\ alert'[p] # "resolved"
    BY <1>2, <2>1, <2>2
  <2>4. Open \subseteq Open'  BY <2>2, <2>3 DEF Open
  <2>5. Open' \cap Posted \subseteq Open  BY <2>2, <2>3 DEF Open
  <2>6. Resolved' = Resolved  BY <2>2, <2>3 DEF Resolved
  <2> QED BY <1>5, <2>4, <2>5, <2>6
<1>8. ASSUME NEW s \in Resolutions, ResolveAlert(s) PROVE RowsCome(q) \/ RowGoes(q)
  <2> DEFINE x == asks[s].alert
  <2>1. /\ x \in Payments /\ alert' = [alert EXCEPT ![x] = "resolved"] /\ resolving[s] = "write"
    BY <1>8 DEF ResolveAlert, OwnTypes, Resolvings
  <2>2. alert[x] # "none"  BY <2>1 DEF Dated
  <2> HIDE DEF x
  <2>3. \A o \in Payments : o # x => alert'[o] = alert[o]  BY <1>2, <2>1
  <2>4. alert'[x] = "resolved"  BY <1>2, <2>1
  <2>5. CASE alert[x] = "resolved"
    <3>1. alert' = alert  BY <1>2, <2>1, <2>5
    <3> QED BY <1>6, <3>1
  <2>6. CASE alert[x] = "open"
    <3>1. /\ x \in Open /\ x \notin Resolved
          /\ Open' = Open \ {x} /\ Resolved' = Resolved \cup {x}
      BY <2>1, <2>3, <2>4, <2>6 DEF Open, Resolved
    <3>2. CASE reads[q].kind = "alerts"
      BY <1>4, <3>1, <3>2 DEF RowGoes
    <3>3. CASE reads[q].kind = "history"
      <4>1. stage' = stage  BY <1>8 DEF ResolveAlert, ruleVars, paying
      <4>2. Posted' = Posted  BY <4>1 DEF Posted
      <4> QED BY <1>4, <3>1, <3>3, <4>2 DEF RowsCome
    <3> QED BY <3>2, <3>3 DEF Lists
  <2> QED BY <1>2, <2>1, <2>2, <2>5, <2>6
<1>9. CASE RuleNext /\ UNCHANGED <<born, alerting, reading>>
  BY <1>6, <1>9 DEF alerting
<1>10. ASSUME NEW p \in Payments, FlushPayment(p) \/ FailPayment(p) PROVE RowsCome(q)
  BY <1>6, <1>10 DEF FlushPayment, FailPayment, alerting
<1>11. ASSUME NEW s \in Resolutions, LoadAlert(s) \/ ResolveFails(s) PROVE RowsCome(q)
  BY <1>6, <1>11 DEF LoadAlert, ResolveFails
<1>12. ASSUME NEW r \in Readers, QueryStats(r) \/ ReadPage(r) \/ CountHistory(r)
       PROVE  RowsCome(q)
  BY <1>6, <1>12 DEF QueryStats, ReadPage, CountHistory, QueryList, alerting
<1>13. CASE Quiet \/ UNCHANGED vars
  BY <1>6, <1>13 DEF Quiet, vars, alerting
<1> QED
  BY <1>7, <1>8, <1>9, <1>10, <1>11, <1>12, <1>13 DEF Next

\* How many rows a reader may have missed so far: one for each alert resolved.
Slack(q) ==
  IF reads[q].kind = "alerts" THEN Cardinality(Resolved \ opening[q].resolved) ELSE 0

\* The rows of the beginning that no page has shown.
Unseen(q) == opening[q].rows \ seen[q]

\* Those among the ranks already read are as few as the slack; once a page came
\* back short, so are all that are still there.
PagedFor(q) ==
  reads[q].kind \in Lists /\ page[q] > 0 =>
    /\ opening[q].rows \subseteq Posted
    /\ opening[q].resolved \subseteq Resolved
    /\ Cardinality(shown[q]) <= PerPage
    /\ Cardinality(Unseen(q) \cap Zone(born, Matching(q), page[q] * PerPage)) <= Slack(q)
    /\ Cardinality(shown[q]) < PerPage => Cardinality(Unseen(q) \cap Matching(q)) <= Slack(q)

\* What a history has shown is there, and is counted after the page is read.
CoveredFor(q) ==
  reads[q].kind = "history" /\ page[q] > 0 /\ shown[q] # {} =>
    /\ Offset(page[q]) + Cardinality(shown[q]) <= Cardinality(Matching(q))
    /\ queries[q] = 0 => Offset(page[q]) + Cardinality(shown[q]) <= tally[q].total

\* Where a reader is in its request.
InTurn(q) ==
  /\ reads[q].kind = "alerts" => queries[q] = 0
  /\ reads[q].kind = "history" => queries[q] \in {0, 1}
  /\ page[q] > 0 => reads[q].kind \in Lists

Paged == \A q \in Readers : InTurn(q) /\ PagedFor(q) /\ CoveredFor(q)

LEMMA MatchingDated ==
  ASSUME Dated, NEW q \in Readers, reads[q].kind \in Lists
  PROVE  /\ Matching(q) \in SUBSET Payments
         /\ Matching(q) \subseteq Posted
         /\ Dates(born, Matching(q))
<1>1. Matching(q) \subseteq Posted
  BY DEF Matching, Lists, Open, Posted, Dated
<1>2. Posted \subseteq Flushed  BY DEF Posted, Dated
<1> QED BY <1>1, <1>2 DEF Dated, Dates, Posted

\* Between the queries of q, rows come and go under it.
LEMMA PagedUnder ==
  ASSUME TypeInv, OwnTypes, Dated, [Next]_vars, NEW q \in Readers, reads[q].kind \in Lists,
         PagedFor(q), CoveredFor(q), reads' = reads,
         page'[q] = page[q], shown'[q] = shown[q], seen'[q] = seen[q],
         opening'[q] = opening[q], queries'[q] = queries[q], tally'[q] = tally[q]
  PROVE  PagedFor(q)' /\ CoveredFor(q)'
<1> SUFFICES ASSUME page[q] > 0 PROVE PagedFor(q)' /\ CoveredFor(q)'
  BY DEF PagedFor, CoveredFor
<1> DEFINE M == Matching(q)
           N == Matching(q)'
           m == page[q] * PerPage
           U == Unseen(q)
<1>1. M \in SUBSET Payments /\ M \subseteq Posted /\ Dates(born, M)  BY MatchingDated
<1>2. N \in SUBSET Payments  BY DEF Matching, Open, Posted
<1>3. m \in Nat
  <2>1. page[q] \in Nat /\ PerPage \in Nat  BY BackofficeConstants DEF OwnTypes
  <2> QED BY <2>1
<1>4. \A p \in M : born'[p] = born[p]  BY <1>1, PostedStays
<1>5. /\ opening[q].rows \subseteq Posted /\ opening[q].resolved \subseteq Resolved
      /\ Cardinality(shown[q]) <= PerPage
      /\ Cardinality(U \cap Zone(born, M, m)) <= Slack(q)
      /\ Cardinality(shown[q]) < PerPage => Cardinality(U \cap M) <= Slack(q)
  BY DEF PagedFor
<1>6. /\ U \in SUBSET Payments /\ U \subseteq Posted
      /\ Unseen(q)' = U
      /\ Resolved \subseteq Payments /\ Resolved' \subseteq Payments
  BY <1>5 DEF Unseen, Posted, Resolved
<1>7. Posted \subseteq Posted'  BY PostedStays
<1> HIDE DEF m, U
<1>8. /\ Cardinality(U \cap Zone(born, M, m)) \in Nat /\ Cardinality(U \cap M) \in Nat
      /\ Cardinality(U \cap Zone(born', N, m)) \in Nat /\ Cardinality(U \cap N) \in Nat
  <2>1. \A X : U \cap X \in SUBSET Payments  BY <1>6
  <2> QED BY <2>1, Countable
<1>9. /\ IsFiniteSet(Resolved \ opening[q].resolved)
      /\ IsFiniteSet(Resolved' \ opening[q].resolved)
      /\ Cardinality(Resolved \ opening[q].resolved) \in Nat
      /\ Cardinality(Resolved' \ opening[q].resolved) \in Nat
  <2>1. /\ Resolved \ opening[q].resolved \in SUBSET Payments
        /\ Resolved' \ opening[q].resolved \in SUBSET Payments
    BY <1>6
  <2> QED BY <2>1, Countable
<1>10. /\ Slack(q) \in Nat /\ Slack(q)' \in Nat
       /\ Slack(q)' = IF reads[q].kind = "alerts"
                        THEN Cardinality(Resolved' \ opening[q].resolved) ELSE 0
  BY <1>9 DEF Slack
<1>11. CASE RowsCome(q)
  <2>1. M \subseteq N /\ N \cap Posted \subseteq M /\ Resolved \subseteq Resolved'
    BY <1>11 DEF RowsCome
  <2>2. Slack(q) <= Slack(q)'
    <3>1. Cardinality(Resolved \ opening[q].resolved) <= Cardinality(Resolved' \ opening[q].resolved)
      <4>1. Resolved \ opening[q].resolved \in SUBSET (Resolved' \ opening[q].resolved)
        BY <2>1
      <4> QED BY <1>9, <4>1, FS_Subset
    <3> QED BY <1>10, <3>1 DEF Slack
  <2>3. U \cap N \subseteq M  BY <1>6, <2>1
  <2>4. Zone(born', N, m) \cap M \subseteq Zone(born, M, m)
    <3>1. M \in SUBSET N  BY <2>1
    <3> HIDE DEF M, N
    <3> QED BY <1>2, <1>3, <1>4, <3>1, ZoneKept
  <2>5. Zone(born', N, m) \subseteq N  BY DEF Zone
  <2> HIDE DEF M, N
  <2>6. U \cap Zone(born', N, m) \in SUBSET (U \cap Zone(born, M, m))
    BY <2>3, <2>4, <2>5
  <2>7. U \cap N \in SUBSET (U \cap M)  BY <2>3
  <2>8. /\ IsFiniteSet(U \cap Zone(born, M, m)) /\ IsFiniteSet(U \cap M)
    <3>1. \A X : U \cap X \in SUBSET Payments  BY <1>6
    <3> QED BY <3>1, Countable
  <2>9. /\ Cardinality(U \cap Zone(born', N, m)) <= Cardinality(U \cap Zone(born, M, m))
        /\ Cardinality(U \cap N) <= Cardinality(U \cap M)
    BY <2>6, <2>7, <2>8, FS_Subset
  <2>10. PagedFor(q)'
    <3>1. Cardinality(U \cap Zone(born', N, m)) <= Slack(q)'
      BY <1>5, <1>8, <1>10, <2>2, <2>9
    <3>2. Cardinality(shown[q]) < PerPage => Cardinality(U \cap N) <= Slack(q)'
      BY <1>5, <1>8, <1>10, <2>2, <2>9
    <3>3. opening[q].rows \subseteq Posted' /\ opening[q].resolved \subseteq Resolved'
      BY <1>5, <1>7, <2>1
    <3> QED BY <1>5, <1>6, <3>1, <3>2, <3>3 DEF PagedFor, N, m
  <2>11. CoveredFor(q)'
    <3>1. Cardinality(M) <= Cardinality(N) /\ Cardinality(M) \in Nat /\ Cardinality(N) \in Nat
      <4>1. M \in SUBSET N  BY <2>1
      <4>2. IsFiniteSet(N) /\ Cardinality(N) \in Nat /\ Cardinality(M) \in Nat
        BY <1>1, <1>2, Countable
      <4> QED BY <4>1, <4>2, FS_Subset
    <3>2. /\ Offset(page[q]) \in Int /\ Cardinality(shown[q]) \in Nat
      <4>1. page[q] \in Nat /\ PerPage \in Nat /\ shown[q] \in SUBSET Payments
        BY BackofficeConstants DEF OwnTypes
      <4> QED BY <4>1, Countable DEF Offset
    <3>3. reads[q].kind = "history" /\ shown[q] # {} =>
            /\ Offset(page[q]) + Cardinality(shown[q]) <= Cardinality(M)
            /\ queries[q] = 0 => Offset(page[q]) + Cardinality(shown[q]) <= tally[q].total
      BY DEF CoveredFor, M
    <3>4. reads[q].kind = "history" /\ shown[q] # {} =>
            Offset(page[q]) + Cardinality(shown[q]) <= Cardinality(N)
      BY <3>1, <3>2, <3>3
    <3>5. Offset(page[q])' = Offset(page[q])  BY DEF Offset
    <3> QED BY <3>3, <3>4, <3>5 DEF CoveredFor, N
  <2> QED BY <2>10, <2>11
<1>12. CASE RowGoes(q)
  <2>1. reads[q].kind = "alerts"  BY <1>12 DEF RowGoes
  <2>2. PICK x \in M : /\ x \notin Resolved /\ N = M \ {x}
                       /\ Resolved' = Resolved \cup {x}
    BY <1>12 DEF RowGoes
  <2> HIDE DEF M, N
  <2>3. Slack(q)' = Slack(q) + 1
    <3> DEFINE D == Resolved \ opening[q].resolved
    <3>1. Resolved' \ opening[q].resolved = D \cup {x} /\ x \notin D
      BY <1>5, <2>2
    <3> HIDE DEF D
    <3>2. Cardinality(D \cup {x}) = Cardinality(D) + 1
      BY <1>9, <3>1, FS_AddElement DEF D
    <3> QED BY <1>10, <2>1, <3>1, <3>2 DEF Slack, D
  <2>4. Cardinality(U \cap Zone(born', N, m)) <= Cardinality(U \cap Zone(born, M, m)) + 1
    BY <1>1, <1>3, <1>4, <1>6, <2>2, ZoneLoses
  <2>5. Cardinality(U \cap N) <= Cardinality(U \cap M)
    <3>1. U \cap N \in SUBSET (U \cap M)  BY <2>2
    <3>2. U \cap M \in SUBSET Payments  BY <1>6
    <3> QED BY <3>1, <3>2, Countable, FS_Subset
  <2>6. Cardinality(U \cap Zone(born', N, m)) <= Slack(q)'
    BY <1>5, <1>8, <1>10, <2>3, <2>4 DEF M
  <2>7. Cardinality(shown[q]) < PerPage => Cardinality(U \cap N) <= Slack(q)'
    BY <1>5, <1>8, <1>10, <2>3, <2>5 DEF M
  <2>8. opening[q].rows \subseteq Posted' /\ opening[q].resolved \subseteq Resolved'
    BY <1>5, <1>7, <2>2
  <2>9. PagedFor(q)'
    BY <1>5, <1>6, <2>6, <2>7, <2>8 DEF PagedFor, N, m
  <2>10. CoveredFor(q)'  BY <2>1 DEF CoveredFor
  <2> QED BY <2>9, <2>10
<1> QED BY <1>11, <1>12, RowsChange

\* Each query of a list in its turn.
LEMMA Turns ==
  ASSUME OwnTypes, NEW q \in Readers, InTurn(q), reads[q].kind \in Lists,
         NEW what, QueryList(q, what)
  PROVE  /\ reads' = reads /\ InTurn(q)'
         /\ UNCHANGED <<ruleVars, born, alerting>>
         /\ what = "page" => /\ queries[q] = 0 /\ MorePages(q)
                             /\ reads[q].kind = "history" => queries'[q] = 1
         /\ what = "count" => reads[q].kind = "history"
<1>1. /\ ListQueries(q)[queries[q] + 1] = what
      /\ queries[q] = 0 => MorePages(q)
      /\ queries' = [queries EXCEPT ![q] = (queries[q] + 1) % Len(ListQueries(q))]
      /\ UNCHANGED <<ruleVars, born, alerting, reads>>
  BY DEF QueryList
<1>2. queries'[q] = (queries[q] + 1) % Len(ListQueries(q))  BY <1>1 DEF OwnTypes
<1>3. CASE reads[q].kind = "alerts"
  <2>1. queries[q] = 0 /\ ListQueries(q) = <<"page">>  BY <1>3 DEF InTurn, ListQueries
  <2>2. what = "page" /\ queries'[q] = 0  BY <1>1, <1>2, <2>1
  <2> QED BY <1>1, <1>3, <2>1, <2>2 DEF InTurn
<1>4. CASE reads[q].kind = "history"
  <2>1. queries[q] \in {0, 1} /\ ListQueries(q) = <<"page", "count">>
    BY <1>4 DEF InTurn, ListQueries
  <2>2. queries[q] = 0 => what = "page" /\ queries'[q] = 1  BY <1>1, <1>2, <2>1
  <2>3. queries[q] = 1 => what = "count" /\ queries'[q] = 0  BY <1>1, <1>2, <2>1
  <2> QED BY <1>1, <1>4, <2>1, <2>2, <2>3 DEF InTurn
<1> QED BY <1>3, <1>4 DEF Lists

\* Another page: its rows close the zone, and a short one ends the list.
LEMMA PagedRead ==
  ASSUME TypeInv, OwnTypes, Dated, NEW q \in Readers, ReadPage(q), InTurn(q), PagedFor(q)
  PROVE  InTurn(q)' /\ PagedFor(q)' /\ CoveredFor(q)'
<1> DEFINE M == Matching(q)
           k == page[q]
           rows == OnPage(M, k + 1)
           old == IF k = 0 THEN M ELSE opening[q].rows
           before == IF k = 0 THEN Resolved ELSE opening[q].resolved
           U == old \ (seen[q] \cup rows)
<1>1. QueryList(q, "page") /\ reads[q].kind \in Lists
  BY DEF ReadPage, QueryList, Lists
<1>2. /\ page' = [page EXCEPT ![q] = k + 1]
      /\ shown' = [shown EXCEPT ![q] = rows]
      /\ seen' = [seen EXCEPT ![q] = seen[q] \cup rows]
      /\ IF k = 0 THEN Note(q) ELSE UNCHANGED opening
  BY DEF ReadPage
<1>3. k \in Nat /\ PerPage \in Nat /\ PerPage > 0
  BY BackofficeConstants DEF OwnTypes
<1>4. /\ page'[q] = k + 1 /\ shown'[q] = rows /\ seen'[q] = seen[q] \cup rows
      /\ opening'[q].rows = old /\ opening'[q].resolved = before
  BY <1>2 DEF OwnTypes, Note
<1>5. /\ reads' = reads /\ InTurn(q)' /\ MorePages(q)
      /\ UNCHANGED <<ruleVars, born, alerting>>
      /\ reads[q].kind = "history" => queries'[q] = 1
  <2> HIDE DEF M, k, rows, old, before, U
  <2> QED BY <1>1, Turns
<1>6. /\ Matching(q)' = M /\ Resolved' = Resolved /\ Posted' = Posted /\ born' = born
  BY <1>5 DEF Matching, Open, Posted, Resolved, ruleVars, paying, alerting
<1>7. M \in SUBSET Payments /\ M \subseteq Posted /\ Dates(born, M)
  BY <1>1, MatchingDated
<1>8. /\ Cardinality(rows) \in 0..PerPage
      /\ Cardinality(rows) > 0 => Offset(k + 1) + Cardinality(rows) <= Cardinality(M)
      /\ Cardinality(rows) < PerPage => Cardinality(M) < (k + 1) * PerPage
  <2>1. k + 1 \in Nat /\ k + 1 > 0  BY <1>3
  <2> HIDE DEF M, k
  <2> QED BY <1>7, <2>1, PageSize
<1>9. rows = {p \in M : Newer(born, M, p) \in (k * PerPage)..(k * PerPage + PerPage - 1)}
  <2>1. Offset(k + 1) = k * PerPage  BY <1>3 DEF Offset
  <2> QED BY <2>1 DEF OnPage, Newer
<1>10. k * PerPage \in Nat /\ (k + 1) * PerPage = k * PerPage + PerPage
  BY <1>3
<1>11. \A p \in M : /\ Newer(born, M, p) \in Nat
                    /\ Newer(born, M, p) < Cardinality(M)
  <2> HIDE DEF M
  <2>1. Cardinality(M) \in Nat  BY <1>7, Countable
  <2> QED BY <1>7, <2>1, Ranks
<1>12. \A p \in M \ rows : Newer(born, M, p) < (k + 1) * PerPage => Newer(born, M, p) < k * PerPage
  BY <1>3, <1>9, <1>10, <1>11
<1>13. /\ old \subseteq Posted /\ old \in SUBSET Payments /\ before \subseteq Resolved
       /\ Unseen(q)' = U
  BY <1>1, <1>3, <1>4, <1>7 DEF PagedFor, Unseen, Posted
<1>14. U \in SUBSET Payments  BY <1>13
<1>15. /\ Slack(q)' = (IF reads[q].kind = "alerts" THEN Cardinality(Resolved \ before) ELSE 0)
       /\ Slack(q)' \in Nat
  <2>1. Resolved \ before \in SUBSET Payments  BY DEF Resolved
  <2>2. Cardinality(Resolved \ before) \in Nat  BY <2>1, Countable
  <2>3. Slack(q)' = (IF reads[q].kind = "alerts" THEN Cardinality(Resolved \ before) ELSE 0)
    BY <1>4, <1>5, <1>6 DEF Slack
  <2> QED BY <2>2, <2>3
<1>16. Cardinality(U \cap Zone(born, M, (k + 1) * PerPage)) <= Slack(q)'
  <2>1. CASE k = 0
    <3>1. U \cap Zone(born, M, (k + 1) * PerPage) = {}
      <4> SUFFICES ASSUME NEW p \in M, p \notin rows, Newer(born, M, p) < (k + 1) * PerPage
                   PROVE  FALSE
        BY DEF Zone
      <4>1. Newer(born, M, p) < k * PerPage /\ Newer(born, M, p) \in Nat  BY <1>11, <1>12
      <4>2. k * PerPage = 0  BY <1>3, <2>1
      <4> QED BY <4>1, <4>2
    <3>2. Cardinality(U \cap Zone(born, M, (k + 1) * PerPage)) = 0
      BY <3>1, FS_EmptySet
    <3> QED BY <1>15, <3>2
  <2>2. CASE k # 0
    <3> DEFINE V == Unseen(q) \cap Zone(born, M, k * PerPage)
               W == U \cap Zone(born, M, (k + 1) * PerPage)
    <3>1. W \in SUBSET V  BY <1>12, <2>2 DEF Unseen, Zone
    <3>2. Cardinality(V) <= Slack(q)  BY <1>1, <1>3, <2>2 DEF PagedFor
    <3>3. Slack(q)' = Slack(q)  BY <1>15, <2>2 DEF Slack
    <3>4. V \in SUBSET Payments  BY <1>7 DEF Zone
    <3> HIDE DEF V, W
    <3>5. /\ IsFiniteSet(V) /\ Cardinality(V) \in Nat /\ Cardinality(W) \in Nat
          /\ Cardinality(W) <= Cardinality(V)
      <4>1. W \in SUBSET Payments  BY <3>1, <3>4
      <4> QED BY <3>1, <3>4, <4>1, Countable, FS_Subset
    <3>6. Cardinality(W) <= Slack(q)'  BY <1>15, <3>2, <3>3, <3>5
    <3> QED BY <3>6 DEF W
  <2> QED BY <2>1, <2>2
<1>17. ASSUME Cardinality(rows) < PerPage
       PROVE  Cardinality(U \cap M) <= Slack(q)'
  <2>1. Cardinality(M) \in Nat /\ (k + 1) * PerPage \in Nat  BY <1>3, <1>7, <1>10, Countable
  <2>2. \A p \in M : Newer(born, M, p) < (k + 1) * PerPage
    <3> TAKE p \in M
    <3>1. Newer(born, M, p) \in Nat /\ Newer(born, M, p) < Cardinality(M)  BY <1>11
    <3>2. Cardinality(M) < (k + 1) * PerPage  BY <1>8, <1>17
    <3> HIDE DEF M, k
    <3> QED BY <2>1, <3>1, <3>2
  <2>3. Zone(born, M, (k + 1) * PerPage) = M  BY <2>2 DEF Zone
  <2> QED BY <1>16, <2>3
<1>18. PagedFor(q)'
  <2>1. Cardinality(rows) <= PerPage  BY <1>3, <1>8
  <2> HIDE DEF M, k, rows, old, before, U
  <2> QED BY <1>4, <1>6, <1>13, <1>16, <1>17, <2>1 DEF PagedFor
<1>19. CoveredFor(q)'
  <2>1. rows \in SUBSET Payments  BY <1>7, <1>9
  <2>2. rows # {} => Cardinality(rows) > 0
    <3>1. Cardinality(rows) \in Nat /\ IsFiniteSet(rows)  BY <2>1, Countable
    <3>2. Cardinality(rows) = 0 => rows = {}  BY <3>1, FS_EmptySet
    <3> HIDE DEF rows
    <3> QED BY <3>1, <3>2
  <2>3. Offset(page[q])' = Offset(k + 1)
    BY <1>4 DEF Offset
  <2> HIDE DEF M, rows
  <2> QED BY <1>4, <1>5, <1>6, <1>8, <2>2, <2>3 DEF CoveredFor
<1> QED BY <1>5, <1>18, <1>19

\* The count that follows it, while more rows come and none goes.
LEMMA PagedCount ==
  ASSUME TypeInv, OwnTypes, Dated, NEW q \in Readers, CountHistory(q),
         InTurn(q), PagedFor(q), CoveredFor(q)
  PROVE  InTurn(q)' /\ PagedFor(q)' /\ CoveredFor(q)'
<1>1. /\ QueryList(q, "count")
      /\ tally' = [tally EXCEPT ![q].total = Cardinality(Matching(q))]
      /\ UNCHANGED <<page, shown, seen, opening>>
  BY DEF CountHistory
<1>2. reads[q].kind \in Lists  BY <1>1 DEF QueryList, Lists
<1>3. /\ reads' = reads /\ InTurn(q)' /\ UNCHANGED <<ruleVars, born, alerting>>
      /\ reads[q].kind = "history"
  BY <1>1, <1>2, Turns
<1>4. Matching(q)' = Matching(q) /\ Resolved' = Resolved /\ Posted' = Posted /\ born' = born
  BY <1>3 DEF Matching, Open, Posted, Resolved, ruleVars, paying, alerting
<1>5. PagedFor(q)'
  BY <1>1, <1>3, <1>4 DEF PagedFor, Unseen, Slack
<1>6. tally'[q].total = Cardinality(Matching(q))
  BY <1>1 DEF OwnTypes, Counters
<1>7. Offset(page[q])' = Offset(page[q])  BY <1>1 DEF Offset
<1>8. CoveredFor(q)'
  BY <1>1, <1>3, <1>4, <1>6, <1>7 DEF CoveredFor
<1> QED BY <1>3, <1>5, <1>8

\* A reader's pages are turned by its own queries only.
LEMMA ListAlone ==
  ASSUME [Next]_vars, OwnTypes, NEW q \in Readers
  PROVE  \/ QueryStats(q) \/ ReadPage(q) \/ CountHistory(q)
         \/ /\ page'[q] = page[q] /\ shown'[q] = shown[q] /\ seen'[q] = seen[q]
            /\ opening'[q] = opening[q] /\ queries'[q] = queries[q] /\ tally'[q] = tally[q]
<1> DEFINE Same == /\ page'[q] = page[q] /\ shown'[q] = shown[q] /\ seen'[q] = seen[q]
                   /\ opening'[q] = opening[q] /\ queries'[q] = queries[q] /\ tally'[q] = tally[q]
<1>1. ASSUME NEW r \in Readers, QueryStats(r), r # q PROVE Same
  BY <1>1 DEF QueryStats, Note, OwnTypes
<1>2. ASSUME NEW r \in Readers, ReadPage(r) \/ CountHistory(r), r # q PROVE Same
  BY <1>2 DEF ReadPage, CountHistory, QueryList, Note, OwnTypes
<1>3. ASSUME UNCHANGED reading PROVE Same
  BY <1>3 DEF reading
<1>4. ASSUME NEW p \in Payments, FlushPayment(p) \/ CommitPayment(p) \/ FailPayment(p)
      PROVE  UNCHANGED reading
  BY <1>4 DEF FlushPayment, CommitPayment, FailPayment
<1>5. ASSUME NEW s \in Resolutions, LoadAlert(s) \/ ResolveAlert(s) \/ ResolveFails(s)
      PROVE  UNCHANGED reading
  BY <1>5 DEF LoadAlert, ResolveAlert, ResolveFails
<1>6. (UNCHANGED vars \/ Quiet) => UNCHANGED reading
  BY DEF vars, Quiet
<1>7. UNCHANGED reading \/ \E r \in Readers : QueryStats(r) \/ ReadPage(r) \/ CountHistory(r)
  BY <1>4, <1>5, <1>6 DEF Next
<1> HIDE DEF Same
<1>8. QueryStats(q) \/ ReadPage(q) \/ CountHistory(q) \/ Same
  <2>1. CASE UNCHANGED reading  BY <1>3, <2>1
  <2>2. ASSUME NEW r \in Readers, QueryStats(r) \/ ReadPage(r) \/ CountHistory(r)
        PROVE  QueryStats(q) \/ ReadPage(q) \/ CountHistory(q) \/ Same
    <3>1. CASE r = q  BY <2>2, <3>1
    <3>2. CASE r # q  BY <1>1, <1>2, <2>2, <3>2
    <3> QED BY <3>1, <3>2
  <2> QED BY <1>7, <2>1, <2>2
<1> QED BY <1>8 DEF Same

LEMMA PagedStep == TypeInv /\ OwnTypes /\ Dated /\ Paged /\ [Next]_vars => Paged'
<1> SUFFICES ASSUME TypeInv, OwnTypes, Dated, Paged, [Next]_vars, NEW q \in Readers
             PROVE  InTurn(q)' /\ PagedFor(q)' /\ CoveredFor(q)'
  BY DEF Paged
<1>1. InTurn(q) /\ PagedFor(q) /\ CoveredFor(q) /\ reads' = reads
  BY ReadsStay DEF Paged
<1>2. CASE ReadPage(q)
  BY <1>1, <1>2, PagedRead
<1>3. CASE CountHistory(q)
  BY <1>1, <1>3, PagedCount
<1>4. CASE QueryStats(q)
  <2>1. reads[q].kind = "stats" /\ page' = page  BY <1>4 DEF QueryStats
  <2> QED BY <1>1, <2>1 DEF InTurn, PagedFor, CoveredFor, Lists
<1>5. CASE /\ page'[q] = page[q] /\ shown'[q] = shown[q] /\ seen'[q] = seen[q]
           /\ opening'[q] = opening[q] /\ queries'[q] = queries[q] /\ tally'[q] = tally[q]
  <2>1. InTurn(q)'  BY <1>1, <1>5 DEF InTurn
  <2>2. CASE reads[q].kind \in Lists
    BY <1>1, <1>5, <2>1, <2>2, PagedUnder
  <2>3. CASE reads[q].kind \notin Lists
    BY <1>1, <2>1, <2>3 DEF PagedFor, CoveredFor, Lists
  <2> QED BY <2>2, <2>3
<1> QED BY <1>2, <1>3, <1>4, <1>5, ListAlone

LEMMA PagedAlways == Spec => []Paged
<1>1. Init => Paged
  <2> SUFFICES ASSUME Init, NEW q \in Readers PROVE InTurn(q) /\ PagedFor(q) /\ CoveredFor(q)
    BY DEF Paged
  <2>1. queries[q] = 0 /\ page[q] = 0  BY DEF Init
  <2> QED BY <2>1 DEF InTurn, PagedFor, CoveredFor
<1>2. Spec => []OwnTypes
  BY OwnTypesInit, OwnTypesStep, PTL DEF Spec
<1> QED BY <1>1, <1>2, PagedStep, DatedAlways, RulesTypedAlways, PTL DEF Spec

\* A client that reads a list to its end misses, of the rows it began with, no
\* transaction of a history and at most one open alert for each resolved since,
\* however many rows come, in whatever order their payments commit.
THEOREM PagesMissLittle == Spec => []PagesMissOnlyResolved
<1>1. OwnTypes /\ Paged => PagesMissOnlyResolved
  <2> SUFFICES ASSUME OwnTypes, Paged, NEW q \in Readers, Finished(q)
               PROVE  Cardinality((opening[q].rows \cap Matching(q)) \ seen[q]) <= Slack(q)
    BY DEF PagesMissOnlyResolved, Slack
  <2>1. page[q] > 0 /\ page[q] \in Nat /\ Cardinality(shown[q]) # PerPage
    BY DEF Finished, MorePages, OwnTypes
  <2>2. reads[q].kind \in Lists /\ PagedFor(q)
    BY <2>1 DEF Paged, InTurn
  <2>3. Cardinality(shown[q]) \in Nat
    BY Countable DEF OwnTypes
  <2>4. PerPage \in Nat
    BY BackofficeConstants
  <2>5. Cardinality(shown[q]) < PerPage
    BY <2>1, <2>2, <2>3, <2>4 DEF PagedFor
  <2>6. Cardinality(Unseen(q) \cap Matching(q)) <= Slack(q)
    BY <2>1, <2>2, <2>5 DEF PagedFor
  <2>7. Unseen(q) \cap Matching(q) = (opening[q].rows \cap Matching(q)) \ seen[q]
    BY DEF Unseen
  <2> QED BY <2>6, <2>7
<1>2. Spec => []OwnTypes
  BY OwnTypesInit, OwnTypesStep, PTL DEF Spec
<1> QED BY <1>1, <1>2, PagedAlways, PTL

\* The total a history comes with covers the page it comes with and those
\* before: it is counted after the page is read, and transactions are never
\* taken away.
THEOREM TotalsCoverPages == Spec => []TotalCoversPage
<1>1. OwnTypes /\ Paged => TotalCoversPage
  <2> SUFFICES ASSUME OwnTypes, Paged, NEW q \in Readers,
                      reads[q].kind = "history", page[q] > 0, queries[q] = 0, shown[q] # {}
               PROVE  tally[q].total >= Offset(page[q]) + Cardinality(shown[q])
    BY DEF TotalCoversPage
  <2>1. Offset(page[q]) + Cardinality(shown[q]) <= tally[q].total
    BY DEF Paged, CoveredFor
  <2>2. tally[q].total \in Nat  BY DEF OwnTypes, Counters
  <2>3. Offset(page[q]) \in Int /\ Cardinality(shown[q]) \in Nat
    <3>1. page[q] \in Nat /\ PerPage \in Nat /\ shown[q] \in SUBSET Payments
      BY BackofficeConstants DEF OwnTypes
    <3> QED BY <3>1, Countable DEF Offset
  <2> QED BY <2>1, <2>2, <2>3
<1>2. Spec => []OwnTypes
  BY OwnTypesInit, OwnTypesStep, PTL DEF Spec
<1> QED BY <1>1, <1>2, PagedAlways, PTL
==============================================================================
