----------------------------- MODULE Backoffice ------------------------------
(***************************************************************************)
(* What staff and customers see of the ledger while it grows: the          *)
(* statistics and the alert queue of /api/v1/admin, and the transaction    *)
(* history of GET /api/v1/transactions.  Payments are analysed under the   *)
(* rules of RuleAdmin, then flushed, which gives them their created_at,    *)
(* and committed, possibly in another order (each debits an account of its *)
(* own; TransactionPipeline has those that wait for one another).  Every   *)
(* query of a reader is a step and sees what is committed by then.         *)
(***************************************************************************)
EXTENDS RuleAdmin, Sequences

CONSTANTS
  Resolutions,   \* requests to resolve an alert
  Analysts, Notes,
  NoOne,         \* the NULL of resolved_by and of analyst_notes
  Readers,       \* dashboards, and clients that read a list page by page
  Scenarios,     \* who does what: tables, edits, payments, resolutions and readers
  PerPage

\* An alert, who resolves it, with which notes.
Resolvings == [alert : Payments, by : Analysts, notes : Notes]

\* What is read; for a history by whom, for the statistics since when.
Readings ==
  [kind : {"none", "stats", "alerts", "history"}, whose : SUBSET Payments, since : Nat]

ASSUME BackofficeConstants ==
  /\ NoOne \notin Analysts \cup Notes
  /\ PerPage \in Nat \ {0}
  /\ IsFiniteSet(Payments)
  /\ \A w \in Scenarios :
       /\ w.asks \in [Resolutions -> Resolvings]
       /\ w.resolving \in [Resolutions -> {"idle", "done"}]
       /\ w.reads \in [Readers -> Readings]

VARIABLES
  born,      \* created_at of each payment's row and alert; 0 before the flush
  alert,     \* none, open or resolved: the committed row of fraud_alerts
  signed,    \* its resolved_by and analyst_notes
  resolving, \* where each request to resolve stands
  asks,      \* what it asks for
  found,     \* the resolved_by and analyst_notes it loaded
  reads,     \* what each reader reads
  queries,   \* how many queries of its request have run
  tally,     \* what the counting ones returned
  page,      \* the page it is at; 0 before the first
  shown,     \* the rows of that page
  seen,      \* the rows of all pages so far
  opening    \* history: what matched, and what was resolved, as the reader began

alerting == <<alert, signed, resolving, asks, found>>
reading == <<reads, queries, tally, page, shown, seen, opening>>
vars == <<ruleVars, born, alerting, reading>>

Unsigned == [by |-> NoOne, notes |-> NoOne]

\* The queries of get_stats that count, in their order.
StatsQueries == <<"total", "flagged", "declined", "approved", "high">>

Counters == {"total", "flagged", "declined", "approved", "high"}

Init ==
  /\ \E w \in Scenarios :
       /\ rules = w.rules /\ edit = w.edit /\ at = w.at /\ stage = w.stage
       /\ asks = w.asks /\ resolving = w.resolving /\ reads = w.reads
  /\ RuleInit
  /\ born = [p \in Payments |-> 0]
  /\ alert = [p \in Payments |-> "none"]
  /\ signed = [p \in Payments |-> Unsigned]
  /\ found = [s \in Resolutions |-> Unsigned]
  /\ queries = [q \in Readers |-> 0]
  /\ tally = [q \in Readers |-> [c \in Counters |-> 0]]
  /\ page = [q \in Readers |-> 0]
  /\ shown = [q \in Readers |-> {}]
  /\ seen = [q \in Readers |-> {}]
  /\ opening = [q \in Readers |-> [rows |-> {}, resolved |-> {}]]

------------------------------------------------------------------------------
(* The payments.                                                           *)

\* created_at comes from a clock of microseconds and is taken to be distinct: the
\* lists' ORDER BY has no tie-breaker, so that two queries could order rows of one
\* stamp differently.
FlushPayment(p) ==
  /\ stage[p] = "analysed"
  /\ stage' = [stage EXCEPT ![p] = "flushed"]
  /\ born' = [born EXCEPT ![p] = 1 + Cardinality({o \in Payments : born[o] > 0})]
  /\ UNCHANGED <<table, editing, used, verdict, alerting, reading>>

CommitPayment(p) ==
  /\ stage[p] = "flushed"
  /\ stage' = [stage EXCEPT ![p] = "posted"]
  /\ alert' = [alert EXCEPT ![p] = IF AlertNeeded(verdict[p]) THEN "open" ELSE @]
  /\ UNCHANGED <<table, editing, used, verdict, born, signed, resolving, asks,
                 found, reading>>

FailPayment(p) ==
  /\ stage[p] \in {"analysed", "flushed"}
  /\ stage' = [stage EXCEPT ![p] = "failed"]
  /\ UNCHANGED <<table, editing, used, verdict, born, alerting, reading>>

------------------------------------------------------------------------------
(* PUT /admin/alerts/{id}/resolve.                                         *)

LoadAlert(s) ==
  LET p == asks[s].alert IN
  /\ resolving[s] = "idle"
  /\ resolving' = [resolving EXCEPT ![s] = IF alert[p] = "none" THEN "done" ELSE "write"]
  /\ found' = [found EXCEPT ![s] = signed[p]]
  /\ UNCHANGED <<ruleVars, born, alert, signed, asks, reading>>

ResolveAlert(s) ==
  LET p == asks[s].alert IN
  /\ resolving[s] = "write"
  /\ resolving' = [resolving EXCEPT ![s] = "done"]
  /\ alert' = [alert EXCEPT ![p] = "resolved"]
  /\ signed' = [signed EXCEPT ![p] =
       [by |-> Merge(@.by, found[s].by, asks[s].by),
        notes |-> Merge(@.notes, found[s].notes, asks[s].notes)]]
  /\ UNCHANGED <<ruleVars, born, asks, found, reading>>

\* The database fails before the commit.
ResolveFails(s) ==
  /\ resolving[s] = "write"
  /\ resolving' = [resolving EXCEPT ![s] = "done"]
  /\ UNCHANGED <<ruleVars, born, alert, signed, asks, found, reading>>

------------------------------------------------------------------------------
(* The readers.                                                            *)

Posted == {p \in Payments : stage[p] = "posted"}
Open == {p \in Payments : alert[p] = "open"}
Resolved == {p \in Payments : alert[p] = "resolved"}

\* The rows the WHERE clauses of q's queries select.
Matching(q) ==
  IF reads[q].kind = "alerts" THEN Open
  ELSE IF reads[q].kind = "history" THEN Posted \cap reads[q].whose
  ELSE {p \in Posted : born[p] >= reads[q].since}

\* A faulty Offset: pages counted from zero.
OffsetFromZero(n) == n * PerPage

Offset(n) == (n - 1) * PerPage

\* ORDER BY created_at DESC OFFSET ... LIMIT ...
OnPage(rows, n) ==
  LET newer(p) == Cardinality({o \in rows : born[o] > born[p]}) IN
  {p \in rows : newer(p) \in Offset(n)..(Offset(n) + PerPage - 1)}

\* Noted as a reader begins, for the properties only.
Note(q) ==
  opening' = [opening EXCEPT ![q] = [rows |-> Matching(q), resolved |-> Resolved]]

\* A faulty Counted: the total last.
CountedTotalLast(n) == IF n = 4 THEN "total" ELSE IF n < 4 THEN StatsQueries[n + 1] ELSE "high"

Counted(n) == StatsQueries[n]

Hits(q, c) ==
  {p \in Matching(q) : \/ c = "total"
                       \/ c \in Statuses /\ StatusOf[verdict[p].decision] = c
                       \/ c = "high" /\ verdict[p].risk \in {"high", "critical"}}

QueryStats(q) ==
  LET c == Counted(queries[q] + 1) IN
  /\ reads[q].kind = "stats" /\ queries[q] < 5
  /\ tally' = [tally EXCEPT ![q][c] = Cardinality(Hits(q, c))]
  /\ queries' = [queries EXCEPT ![q] = @ + 1]
  /\ IF queries[q] = 0 THEN Note(q) ELSE UNCHANGED opening
  /\ UNCHANGED <<ruleVars, born, alerting, reads, page, shown, seen>>

\* A faulty ListQueries: the history counted first.
ListQueriesCountFirst(q) ==
  IF reads[q].kind = "history" THEN <<"count", "page">> ELSE <<"page">>

\* The queries of list_transactions, and the one of list_alerts.
ListQueries(q) == IF reads[q].kind = "history" THEN <<"page", "count">> ELSE <<"page">>

\* The client asks for the next page as long as pages come back full.
MorePages(q) == page[q] = 0 \/ Cardinality(shown[q]) = PerPage

QueryList(q, what) ==
  /\ reads[q].kind \in {"alerts", "history"}
  /\ ListQueries(q)[queries[q] + 1] = what
  /\ queries[q] = 0 => MorePages(q)
  /\ queries' = [queries EXCEPT ![q] = (@ + 1) % Len(ListQueries(q))]
  /\ UNCHANGED <<ruleVars, born, alerting, reads>>

ReadPage(q) ==
  LET rows == OnPage(Matching(q), page[q] + 1) IN
  /\ QueryList(q, "page")
  /\ page' = [page EXCEPT ![q] = @ + 1]
  /\ shown' = [shown EXCEPT ![q] = rows]
  /\ seen' = [seen EXCEPT ![q] = @ \cup rows]
  /\ IF page[q] = 0 THEN Note(q) ELSE UNCHANGED opening
  /\ UNCHANGED tally

CountHistory(q) ==
  /\ QueryList(q, "count")
  /\ tally' = [tally EXCEPT ![q].total = Cardinality(Matching(q))]
  /\ UNCHANGED <<page, shown, seen, opening>>

------------------------------------------------------------------------------
\* No request is under way and none will come.
Quiet ==
  /\ \A e \in Edits : at[e] = "done"
  /\ \A p \in Payments : stage[p] \in {"absent", "posted", "failed"}
  /\ \A s \in Resolutions : resolving[s] = "done"
  /\ \A q \in Readers :
       \/ reads[q].kind = "none"
       \/ reads[q].kind = "stats" /\ queries[q] = 5
       \/ reads[q].kind \in {"alerts", "history"} /\ queries[q] = 0 /\ ~MorePages(q)
  /\ UNCHANGED vars

Next ==
  \/ RuleNext /\ UNCHANGED <<born, alerting, reading>>
  \/ \E p \in Payments : FlushPayment(p) \/ CommitPayment(p) \/ FailPayment(p)
  \/ \E s \in Resolutions : LoadAlert(s) \/ ResolveAlert(s) \/ ResolveFails(s)
  \/ \E q \in Readers : QueryStats(q) \/ ReadPage(q) \/ CountHistory(q)
  \/ Quiet

Spec == Init /\ [][Next]_vars

------------------------------------------------------------------------------
(* Properties.                                                             *)

\* Every variable stays within its type.
TypeOK ==
  /\ RuleTypeOK
  /\ born \in [Payments -> Nat]
  /\ alert \in [Payments -> {"none", "open", "resolved"}]
  /\ signed \in [Payments -> [by : Analysts \cup {NoOne}, notes : Notes \cup {NoOne}]]
  /\ resolving \in [Resolutions -> {"idle", "write", "done"}]
  /\ asks \in [Resolutions -> Resolvings]
  /\ found \in [Resolutions -> [by : Analysts \cup {NoOne}, notes : Notes \cup {NoOne}]]
  /\ reads \in [Readers -> Readings]
  /\ queries \in [Readers -> 0..5]
  /\ tally \in [Readers -> [Counters -> Nat]]
  /\ page \in [Readers -> Nat]
  /\ shown \in [Readers -> SUBSET Payments]
  /\ seen \in [Readers -> SUBSET Payments]
  /\ opening \in [Readers -> [rows : SUBSET Payments, resolved : SUBSET Payments]]

\* The dashboard's figures are taken one after another while the ledger grows,
\* and still fit: the total is not below what was there at first, the statuses
\* add up to at least the total, and to no more than what is there at the end.
StatsConsistent ==
  \A q \in Readers :
    reads[q].kind = "stats" /\ queries[q] = 5 =>
      LET t == tally[q]
          parts == t["flagged"] + t["declined"] + t["approved"] IN
      /\ Cardinality(opening[q].rows) <= t["total"]
      /\ t["total"] <= parts
      /\ parts <= Cardinality(Matching(q))

Finished(q) == page[q] > 0 /\ queries[q] = 0 /\ ~MorePages(q)

\* A client that reads a list to its end, while rows arrive in any order and
\* alerts are resolved, misses at most one open alert for each alert resolved
\* meanwhile, and no transaction of a history: as long as no two rows were stamped
\* in the same microsecond.
PagesMissOnlyResolved ==
  \A q \in Readers :
    Finished(q) =>
      LET missed == (opening[q].rows \cap Matching(q)) \ seen[q] IN
      Cardinality(missed) <=
        IF reads[q].kind = "alerts" THEN Cardinality(Resolved \ opening[q].resolved) ELSE 0

\* The total that comes with a page of the history covers the page and those
\* before it, although it is counted by another query.
TotalCoversPage ==
  \A q \in Readers :
    reads[q].kind = "history" /\ page[q] > 0 /\ queries[q] = 0 /\ shown[q] # {} =>
      tally[q].total >= Offset(page[q]) + Cardinality(shown[q])
==============================================================================
