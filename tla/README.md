# SentinelStream: verification project

TLA+ models of the SentinelStream backend (`src/app`): a FastAPI service that accepts payments,
decides whether they are fraud, writes them to a PostgreSQL ledger and tells merchants and the fraud
team through Celery. TLC checks the models on small instances, TLAPS proves the most important
results for every value of the constants.

The models follow the code, not the documentation. Where the two disagree a run shows the
disagreement (section 6).

## 1. Inventory

| Part | Code | State it keeps | Operations | Correct when |
|---|---|---|---|---|
| Idempotency middleware | `middleware/idempotency.py` | the responses in Redis, by header key, for 24 h | look up, cache a 2xx response | what it replays is what was committed |
| Transaction endpoint and service | `endpoints/transactions.py`, `services/transaction_service.py` | `transactions`, `accounts.balance`, `fraud_alerts`, `idempotency_records` | check the key, load the account, analyse, insert and debit, save the record, commit, publish | a key is processed once; balance, ledger, alerts and records agree; clients are told the truth |
| Session and pool | `db/session.py` | up to 60 connections | check out, commit, roll back on an exception, time out | no request waits for ever; what is rolled back leaves no trace |
| Access control dependencies | `api/dependencies.py` | none (reads `users`) | token to active user to role | disabled users do nothing new |
| Rule engine | `services/rule_engine.py` | built-in rules, `fraud_rules` | evaluate conditions, evaluate rules by priority | the worst rule decides; stored rules cannot get around the built-in ones |
| Fraud score and decision | `ml/fraud_scorer.py`, `analyse_transaction` | the loaded model | normalise, combine with the rules | decision, status, alert and e-mail agree |
| Celery application | `tasks/celery_app.py` | RabbitMQ queue, Redis results | webhook, e-mail, clean-up; retry, acknowledge, requeue | nothing vanishes, nothing is given up early, duplicates have a cause, scheduled work happens |
| Rule and alert administration | `endpoints/admin.py` | `fraud_rules`, `fraud_alerts` | create, update, deactivate, resolve; list, statistics | names are unique; no update undoes another or revives a rule; rules act once acknowledged; figures fit together |
| Registration, login, tokens | `endpoints/auth.py`, `core/security.py` | `users`, `accounts`; tokens with clients | register, login, refresh | one user and one account per e-mail; disabled and idle users are kept out |
| Read-only transaction endpoints | `endpoints/transactions.py`, `get_user_transactions` | none | history by pages, get, balance | a client that reads on misses nothing |
| Training, configuration, deployment | `ml/train_model.py`, `core/config.py`, Docker, nginx, alembic | files | - | - |

How they interact. A POST passes the middleware (Redis), then the endpoint runs as a coroutine whose
awaits are round trips to PostgreSQL through the pool. Requests share the database, Redis, the pool
and the broker and nothing else; at every await another request may run. The session loads an
`Account` once and writes its balance back as an absolute value. After the commit the endpoint
publishes up to two Celery messages, answers, and the middleware caches the answer. Celery workers
run the messages and call merchants and the mail server; Celery beat publishes a clean-up every two
hours. Administrators change `fraud_rules` while analyses fetch them; analysts resolve alerts, and
dashboards and clients read ledger and alerts in several queries while both grow. Every endpoint but
registration, login and refresh goes through the access control dependencies, with one way around them:
the idempotency middleware answers a POST of a payment whose header key is in Redis before any of them
runs.

What is hard: stale reads that are written back; check-then-insert on keys; the commit in the middle
of the request, with five things that can fail behind it; two lifetimes (cache and record) for one
key; retries at three levels (client, broker, worker); locks on account rows and unique keys held
while waiting for one another and for the pool; thresholds that three places must agree on; rules
whose ties the database orders; updates that write the columns they found different; lists and
figures read by several READ COMMITTED queries. `PROJECT.json` lists each of these under `hazards` at its line.

`src/venv` is vendored third-party code and not part of the system. The library behaviour the models
need (row and unique-index locks, Celery's acknowledgement rules) is modelled from how the code uses
it and marked external in the map.

## 2. Modules

| Module | What it is |
|---|---|
| `FraudDecision` | pure operators: score normalisation, combination of rules and score, status, alert and e-mail conditions |
| `RuleEngine` | one analysis: context, conditions, the fetched and sorted rules, the loop of `evaluate`, the verdict |
| `TransactionPipeline` | concurrent POST requests over database, cache, pool and broker; uses `FraudDecision` |
| `IdempotentLedger` | abstract: one immutable row per key, clients are told that row or nothing |
| `TaskQueue` | the Celery application: messages, slots, retries, late acknowledgement, lost processes and connections, calls that hang |
| `RuleAdmin` | edits of stored rules (check or load, write, refresh) racing with one another and with analyses; uses `FraudDecision` |
| `Backoffice` | `RuleAdmin` composed with payments that are flushed and committed, alerts that are resolved, and readers of statistics, alert queue and history |
| `Access` | registration, login, refresh, tokens, the dependencies in front of all other endpoints, and the middleware in front of those |
| `FraudDecisionProofs`, `RuleEngineProofs`, `TransactionPipelineProofs`, `TaskQueueProofs`, `RuleAdminProofs`, `BackofficeProofs`, `AccessProofs` | theorems |
| `Counting` | lemmas about sizes and sums that several of these rest on: sums counted as sets of units, the doubling of 2 ^ n |
| `MCRuleEngine`, `MCTransactionPipeline`, `MCTaskQueue`, `MCBackoffice`, `MCAccess` | the values TLC runs with |

Operators introduced by "A faulty ..." are plausible bugs. Nothing uses them; each is there to be put
in the place of the operator it varies, to confirm that the property concerned notices
(`PROJECT.json`, `mutants`).

### TransactionPipeline

`pc[r]` is the await at which request `r` stands; each action runs from one await to the next, with
every state change in between. `asked[r]` is what the client sent. `seen[r]`, `verdict[r]`,
`draft[r]`, `expires[r]` are the request's local variables and uncommitted rows: READ COMMITTED keeps
them from everybody else until `Commit` writes them at once, and a rollback is nothing more than
leaving. `ledger`, `balance`, `idem`, `alerts` are the committed tables, `cache` is Redis, `webhooks`
and `emails` count published messages.

* Locks are read off the program counters: `HoldsAccount` is the row lock of `UPDATE accounts`,
  `HoldsKey` the uncommitted entry in the unique index. `Debit` and `InsertRow` wait for them.
  SQLAlchemy flushes the UPDATE before the INSERT, hence the order `debit`, `insert`.
* `Debited` writes `seen - amount`, as the code does, whatever the balance has become.
* `BeginInsert` stamps `created_at`: the default is evaluated when the INSERT is put together, before it
  waits for the unique key, so `stamp[r]` may be older than the row's commit.
* `HoldsConnection` counts connections. A session gives its connection back at the commit and checks
  one out again for `db.refresh`, so `PoolTimeout` can strike twice.
* `Fail` is `get_db`'s rollback followed by a 500. `DatabaseError`, `GatewayError`, `CacheError`,
  `BrokerError` and `Crash` are possible at each await at which the code can meet them; `Faults` says
  which kinds a run allows. `Closings` is the last of them: `get_db` commits once more behind the
  endpoint, and if that fails a finished 201 becomes a 500, after both publications.
* Neither `GatewayHit` nor `GuardHit` asks whose key it is (section 6).
* The rules that read shared state, `exceeds_balance` and `velocity_attack`, are in `RuleOutcome`;
  what all other rules found is any member of `OtherRisks`, and the model's raw output any member of
  `RawScores`. The `RuleEngine` module has the detail.
* A client that retries is another request with the same contents. Bodies are identified with the
  row they show, and a cached response with that row: the cached 201 and the fresh one carry the
  same fields.
* `Cleanup` is `cleanup_expired_idempotency_keys` whoever calls it. Beat does not manage to
  (section 6), but the task can be called otherwise, and a repaired beat entry must not break
  anything.

### RuleEngine and FraudDecision

Amounts are integers of hundredths, scores of ten-thousandths (the code rounds to four places), raw
model outputs of 1/25000, the grid that maps exactly onto them. A condition's value carries its
Python type, because `_evaluate_condition` catches the exceptions of ill-typed comparisons and takes
them for False. `Fetches` allows every order of rules of one priority that the database may return;
`ByPriority` is Python's stable sort. String ordering with `<` is left out: no rule of the repository
uses it.

### TaskQueue

A job is one publication; the queue is a bag of messages, each with a stage. Acknowledgement is late,
so a message is in the bag until it is acknowledged or rejected; `WorkerLost` puts it back in the
queue (`task_reject_on_worker_lost`), also when its retry has been published already, which forks the
job. So does `ConnectionLost`: the broker queues again what a broken connection has not acknowledged,
while the task runs on with a message that is now `stale` (its acknowledgement reaches nobody, but its
result and its retry count). `Retry` publishes the next message with its countdown; when the broker
refuses, Celery rejects the old one for good (`RetryUnsent`).

Any call may hang (`FallSilent`): `smtplib.SMTP` has no timeout, httpx's 10 seconds bound each read and
write but not the call, and no task has a time limit. `LogOnly` is the e-mail of a deployment without
SMTP credentials, which is logged and reported sent. `Discard` is Celery's answer to an unknown task
name: reject, and store a failure (`NotRegistered`). `SentAs` and `Registered` are the task names as
written in the code. Time is counted in 30 seconds and advances only while a countdown runs.

When two copies of a job run at once, each stores its result. The Redis backend never replaces a stored
success (it reads before it writes); `Fails` and `Begun` do both in one step, so the instant between
the read and the write is not modelled.

### RuleAdmin and Backoffice

`at[e]` is where an edit stands between its awaits: it has loaded the rule (or checked that the name
is free) and will write, or has committed and will re-read the row for its response. `rules` and
`active` are the table; `loaded[e]` is what the session read.

* `Merge` is SQLAlchemy's unit of work: an UPDATE sets the columns whose new value differs from the
  loaded one, the others keep what is in the row by then. `ResolveAlert` goes by it too.
* A flush and its commit are one step: between them nobody else sees the change, and whoever meets
  its row lock or index entry waits. `NameConflict` is the unique index on the name.
* A rule's condition is the set of payments it fires on. Built-in rules stay silent, so
  `OutcomeUnder` is what stored rules contribute; `RuleEngine` has both and the language.
* `FlushPayment` stamps `created_at`; `CommitPayment` makes row and alert visible, in any order of
  the stamps. Different accounts: `TransactionPipeline` has the payments that wait for one another.
  Stamps are distinct. The code's come from a clock of microseconds, and the lists' ORDER BY
  (`transaction_service.py:333`, `admin.py:132`) has no tie-breaker: two rows of one stamp could change
  places between two pages, which no property here excludes.
* `QueryStats` is one of the five counting queries of `get_stats`, `ReadPage` and `CountHistory`
  the queries of the lists; each sees what is committed by then. A client goes on while pages are
  full. `opening` remembers what a reader began with, for the properties only.

### Access

`at[v]` is the await at which a request stands. A registration's flushed rows stay with the request
(`HoldsEmail`, `HoldsNumber`) until `CommitRegistration` makes user and account visible at once; an
INSERT that meets such an entry in a unique index waits for it. `NumberOf` cuts the account number
out of the user's id, so that two ids may share one. E-mails are compared as the code stores them, in
lower case. A token is its subject and its expiry: neither `get_current_user` nor `refresh_token`
looks at the token's type, so `Enter` and `Renew` take either. `Disable` stands for whoever sets
`is_active` to false in the database; no endpoint does. The operation `pay` is a POST of a payment with
an Idempotency-Key: `Enter` answers it behind the dependencies, `Keep` stores the response, and
`Replay` gives it to whoever sends the key next, with any token or none, until `Forget` (24 hours, or
the loss of Redis). What a payment does is `TransactionPipeline`.

## 3. What TLC checks

Passing runs:

| Run | Question | Bounds |
|---|---|---|
| `rule_engine` | Does the loop find the worst rule, list everything that fires, keep built-in rules binding, and agree with alert and e-mail? | inputs on both sides of every threshold of every built-in rule and score band; five rule tables: none, catch-all and inactive, ties of priority with built-in rules, all operators, malformed rules |
| `pipeline` | Do ledger, records, alerts, notifications and responses agree under all failures? Is the ledger append-only? Does the pipeline implement `IdempotentLedger`? | 2 requests out of any clients (same or different key, no header, foreign account, inactive user), all faults, keys that expire (`Day` = 1, `MaxTime` = 2) |
| `contention` | Can concurrent debits from stale balances overdraw the account or take more than the ledger shows? Can a client that mixes up header and body be told of something uncommitted? By how much is the velocity limit passed? | 3 requests, 2 connections, crashes and Redis failures: debits of 2 under 2 keys from an account of 3; payments of 1 under 3 keys with the limit scaled from 5 to 0, clock across the window |
| `retry` | Is a request sent after its key was processed answered with the original? Does every request end? Is a high-risk transaction e-mailed about unless its request died or was told of a failure? | 3 requests, one key three times or one twice beside another, on 1 account, 2 connections (checkouts wait and time out), crashes, broker failures; no record expires; fairness |
| `task_queue` | Does nothing vanish from the queue, is nothing given up early, has every duplicate a cause, does every webhook end? | a webhook whose process or connection is lost once (2 retries), an e-mail with two such losses (1 retry); a webhook beside an e-mail, 2 slots; two webhooks, one malformed, beside a beat message; a webhook beside an e-mail that is only logged; refusals, late answers, calls that hang, broker failures |
| `backoffice` | Do names stay unique? Can an update undo another or revive a rule? Do rules act once acknowledged? Do figures, pages and totals fit together while the ledger grows? | 3 edits of 3 rule ids (creates of one name, updates of the same and of different columns, a rename, a deactivation) beside a payment; 3 payments and 2 resolutions beside a reader of the alert queue, the history or the statistics; one resolution beside a deactivation; pages of 1 |
| `access` | Can one e-mail get two users, or a user no account? Are disabled and idle users kept out? Does every request end? | 3 requests: registrations of one address in two spellings, with a weak password, with colliding account numbers; login, refresh and the three levels of role; a login with two payments of one key; access life 1, refresh life 2, clock to 4; fairness |

Why these bounds are enough to be interesting: every lost update, race and fork needs two actors on one
resource, and a third to observe or to queue behind them; two keys tell "mine" from "somebody else's"; a
clock of one window plus one tick reaches both sides of an expiry (twice the longer life in `access`, so
that a renewed session ends too); of three edits two race and the third changes what they see; pages of 1
shift with every row; an account of 3 with debits of 2 makes one debit fit and two not; with a limit of 0
and two connections, two overlapping payments may pass and a third must not. Two connections for three
requests make one wait, for its first connection or, after its commit, for its second, while the others
hold the account's row or the key. The theorems of section 5 remove the bounds for the safety properties
that matter most.

Passing temporal runs assume weak fairness of what the server itself owes: `Handle(r)` for each request
(asyncio resumes a coroutine whose await can complete; PostgreSQL grants a lock that is free; a waiting
checkout is served or times out) and, in `TaskQueue`, the work of the workers on each job and the clock
(`restart: unless-stopped`, prefork pool), and, in `Access`, `Serve(v)`, the steps of a registration or
login under way. Clients, failures, crashes, the publication of jobs and the clocks of pipeline and
`Access` have no fairness. A call that hangs is not assumed to return. `CHECK_DEADLOCK FALSE` is set only
for `RuleEngine`, which stops after its verdict; elsewhere the explicit `Finished`, `Idle`, `Quiet` and
`Over` steps say when the system may rest, so TLC's deadlock check finds requests or tasks that wait for
one another.

Symmetry of request names is used in runs without temporal properties other than box-action and
refinement properties that are themselves symmetric.

## 4. Properties

TransactionPipeline: `NotificationsBacked`, `RecordBacksLedger`, `RepliesMatchLedger`,
`RepliesAreCommitted`, `AlertsMatchLedger`, `LedgerAppendOnly`, `NonNegativeBalance`,
`NeverOverdebited`, `VelocityBound`, `KeepsPromise`, `RetryIsReplayed`, `EveryRequestEnds`,
`HighRiskIsEmailed`. `VelocityBound` is what is left of the limit: analyses that overlap do not see one
another's payments, but each that is under way holds a connection, so the limit is passed by no more
than the pool's size (5 by 60, in the code, for each API process). `NotificationsBacked` counts messages published; a message may
still reach its peer twice, for the causes `SeenAsReported` lists. `RetryIsReplayed` and `KeepsPromise` are
about keys, not owners. `NonNegativeBalance` deserves a remark: it holds although the
debits race, because each writes its own stale balance less an amount that fits it. The code loses
money, but never drives the account below zero; a change to an in-database subtraction, without a
check, would turn that round (the mutant `DebitedInPlace`). `HighRiskIsEmailed` is what is left of
"triggered when a transaction is flagged HIGH or CRITICAL": nothing records that an e-mail is owed,
so it is owed only while the request lives, and whoever gets a 500 may be the one whose e-mail was
never queued.

RuleEngine: `WorstRuleWins`, `TriggeredIsComplete`, `SystemRulesBind`, `BlockedIsAlerted`;
proved only, as it follows the loop too closely to need a run: `RiskNeverDrops`.

TaskQueue: `NothingLost`, `AttemptsExhausted`, `GivenUpLate`, `SeenAsReported`, `WebhooksSettle`.
`GivenUpLate` is what a merchant can rely on: an outage shorter than all countdowns together loses
nothing, even when processes die, connections break and jobs fork. Both it and `AttemptsExhausted` are
about jobs whose calls can be made: an unknown task or a URL that cannot be parsed fails at once.
`WebhooksSettle` says that hanging calls stop nobody else while a slot is left.

RuleAdmin: `NamesUnique`, `EditsSurvive`, `DeactivationSticks`, `RulesTakeEffect`. `EditsSurvive` is as
much as the code gives: a column that an acknowledged update changed holds what some update meant it
to hold. The rule as a whole may be a mixture that no administrator asked for, and a PUT that is
answered 200 may have left another's value in a column in which it found nothing to change.

Backoffice: `StatsConsistent`, `PagesMissOnlyResolved`, `TotalCoversPage`. The second bounds what
OFFSET paging loses: every alert resolved between two pages can push one open alert past the reader,
and nothing else can; a history loses nothing, since rows only join it.

Access: `OneUserPerEmail`, `UserHasAccount`, `LockedOut`, `SessionsEnd`, `VisitsEnd`. `SessionsEnd` is
about the refresh life, not the access life: a refresh token opens every endpoint. It and `LockedOut` except
replays of a payment, which ask for no token at all.

## 5. What TLAPS proves

Assumptions: only the named `ASSUME`s of the modules (types of the constants; finite rule tables).
Requests, keys, users, accounts, connections and all limits are arbitrary, and every fault is allowed.

`FraudDecisionProofs`: the normalised score stays in range and falls as the raw output rises; the
combination is well typed; an approval means no critical or high rule and a score below 0.65; decision,
alert and e-mail agree.

`RuleEngineProofs`: `TypeCorrect`, `FindsWorstRule`, `AlertsAreConsistent`,
`SystemRulesCannotBeBypassed`, `RiskOnlyRises`. First the stable sort is shown to be a permutation
(`RankInjective`, `RankSurjective`, `SortKeepsRules`: places are injective into 1..n, hence onto), so
the loop runs over exactly the rules in force. The loop invariant says what the running maximum means
for the rules passed so far; `WorstRuleWins` alone is not inductive, since it speaks of the end only.
`SystemRulesBind` then follows because an approval means that no critical rule fired, and the
built-in ones are among those in force.
`FlagsNameWhatFired`: whatever the tables, the set of names in `triggered_rules`, which is what
`rule_flags` stores, is that of the rules that fired. `FlagsAreCompleteAndOrdered` adds "once, and most
urgent first" under `NamesApart`: the rules in force have distinct names. The table's unique
column gives that among stored rules; nothing in the code keeps an administrator from creating one
with a built-in name, and with two rules of one name "once" and "in the order of priority" cannot be
read off the names any more. `Traced` says that the flags so far are the names, in order, of the rules
that fired so far. The run's tables all satisfy `NamesApart`.

`TransactionPipelineProofs`: the inductive invariant `IInv` is the conjunction of

* `TypeOK`;
* `Solvent`: balances are not negative, and an approved request's `seen` covers its amount;
* `VerdictsAgree`: alert and e-mail conditions of each pending verdict agree with its decision;
* `OneWriter`: at most one request per key is between its INSERT and its last publication;
* `Drafts`: what such a request holds is its own row, absent from the ledger before the commit, in it
  after;
* `Books`: records and alerts against the ledger, and every row under its own key;
* `Notices`: a request that has yet to publish finds nothing published for its key;
* `Honest` and `Addressed`: replies and cached responses are committed rows, and for clients whose
  header repeats the key, rows of that key.

None of the safety properties is inductive by itself: that a commit never overwrites a row, for
example, needs that nobody else committed since the unique index let the INSERT through, which is
`OneWriter` with `Drafts`. One lemma per action shows that it preserves `IInv`. From it follow
`TypeCorrect`, `BalancesStayNonNegative`, `RecordsAreBacked`, `NotificationsAreBacked`,
`AlertsFollowLedger`, `RepliesAreTrue`, `LedgerIsAppendOnly`, `RepliesFollowLedger` and the
refinement `PipelineKeepsPromise` (the commit is the abstract `Record`, the step that hands out a 201
is `Tell`, everything else stutters). The last two assume `HeadersAgree`, which no step changes.

These results need arguments of their own:

* `NoAccountOverdebited` (`NeverOverdebited`, no condition). With `Left(a)` for what the ledger leaves of
  the opening balance, `Covered` says that each balance, and each `seen` that will be written back, is at
  least `Left` of its account. It is inductive because the ledger only grows and a commit adds to `Spent`
  exactly what the `Debit` of that request took from its `seen`. So a lost update is always in the
  customer's favour. `FiniteLedger` and the unit counts of `Counting` carry the sum.
* `PoolIsRespected`: no more requests hold a connection than the pool has.
* `VelocityIsBounded` (`VelocityBound`, no condition). Call pending the requests of a user that are
  approved and not yet committed. `Paced` says of every hour: the user's committed payments in it, and
  the pending ones that are stamped in it or may still be, are together at most `VelocityLimit +
  PoolSize`. An analysis adds to the pending ones only if the committed ones are within the limit, and
  all pending ones hold connections, so that `PoolIsRespected` bounds them; a commit turns one into the
  other.
* `RetriesAreReplayed` (`RetryIsReplayed`, with its nested boxes) assumes `HeadersAgree` and
  `Undisturbed`: no failure of database or Redis, no record that expires within the behaviour, which is
  what the `retry` run assumes. That the request finds a connection when it asks is a condition of the
  property itself. `Replayed` follows a retry from the gateway to the guard; crashes and broker failures
  are allowed. Each condition names something that does answer a retry otherwise: a 500 of a failing
  query, a pool timeout, a 500 once the record has expired.
* `EmailsAreOwed` is the safety half of `HighRiskIsEmailed`, for every fault: while the e-mail about a
  committed row of high risk is neither queued nor excused by a lost process or a 500, the request that
  committed it stands between its commit and its publication (`Owed`; with `Refusals`: a 500 is final).
  `EmailsComeIfRequestsEnd` concludes `HighRiskIsEmailed` from `[]EveryRequestEnds`, so what fairness has
  to give, and the `retry` run has to check, is that requests end.

`TaskQueueProofs`: `TypeCorrect`, `JobsAreNotLost`, `NoEarlyGivingUp`, `OutageTolerated`,
`PeersSeeWhatIsReported`. The
invariant `QInv` adds to the properties

* `InQueue`: a job without a result has a message that is not stale and not settled yet, or one was
  rejected. `NothingLost` is not inductive without it, since a settled message may be acknowledged and
  leave. `Fresh`: only a message in a worker's hands is stale;
* `Counted` and `Spaced`: a message with n retries has n refusals of its job, and n countdowns since
  its publication, behind it, whichever chain of a forked job it belongs to; a message in a worker's
  hands was due;
* `Sent`: what has a message was published.

The actions on a message are of a few kinds, with a lemma each: the message changes its stage
(`StageStep`), it leaves (`RemovalStep`), it is retried (`RetryStep`), or its connection breaks
(`CopyStep`). `SeenAsReported` is about a number of messages: `Owed` says that the calls a job's peer has
received, and one more for each copy of an open message of the job (one from which a call may still
come), and one more for a reported failure, are at most 1 plus its late answers, lost processes and lost
connections. A loss is what forks a job, and pays for the fork. `Reached` adds that a message answered,
or a success reported, has reached the peer unless it could only be logged. That the countdowns add up to
the closed form `Waited` is `CountdownsAddUp`; the doubling of 2 ^ n it needs is proved in `Counting` by
counting subsets, as the provers know nothing of exponents.

`RuleAdminProofs`: `RuleTypeCorrect`, `NamesStayUnique`, `DeactivationsStick`, `RulesDoTakeEffect`,
`EditsDoSurvive`. The type invariant needs `Bookkeeping` (what the place of an edit says of its
target, its loaded row and its answer). `RulesTakeEffect` rests on `Acknowledged`: an acknowledged
deactivation has happened, and a created rule is active unless one was acknowledged, which holds
because only a create activates and nothing is acknowledged before its commit. `EditsSurvive` speaks of
acknowledged updates; `Kept` says the same from the commit on, and a step that writes a column has the
edit that did so as its witness.

`BackofficeProofs`: `RulesKeepPromises` carries these results over to the composed system, whose other
steps leave the rules alone or move a payment on (`PaymentMoves`); `TypeCorrect`; and `FiguresFit`, that
`StatsConsistent` holds for any number of payments and dashboards. Its invariant `Figures` bounds each
count taken so far: from below by the rows of that status the reader began with, from above by those
there are now. Rows never leave and a status never changes, so both bounds survive every step, and the
three statuses partition the rows. It assumes finitely many payments.

`PagesMissLittle` (`PagesMissOnlyResolved`) and `TotalsCoverPages` (`TotalCoversPage`) are about ranks: a
row's rank is the number of newer rows, and a page is the rows of `PerPage` ranks. `Ranks` shows that the
ranks of n rows with distinct `created_at` are exactly 0 to n - 1 (an injection between finite
sets of one size is onto), `Dated` that the flush does give distinct ones. Then

* a row that appears, wherever its `created_at` puts it, only raises ranks: none of the others enters
  the ranks already read (`ZoneKept`);
* an alert that is resolved lowers the ranks behind it by one, so that at most one row slips into them
  (`ZoneLoses`).

`Paged` counts: of the rows a reader began with, those not shown and within the ranks already read are
no more than the alerts resolved since (none, for a history); and once a page came back short, which
means that there are no more ranks than were read (`PageSize`), that goes for all that still
match. For the total it says that what was shown is there, since transactions never leave, when it is
counted.

`AccessProofs`: `TypeCorrect`, `EmailsStayUnique`, `UsersHaveAccounts`, `SessionsDoEnd`, `DisabledStayOut`.
`Drawn` says that ids of registrations under way are fresh and distinct, `AccountsMatch` that users and
accounts are the same ids; `Unique` adds to the uniqueness of stored e-mails and numbers that of the
entries registrations hold, against one another and against what is stored. `Lifetimes` bounds a
token's expiry by its subject's last renewal. `LockedOut` says that something holds for ever after a
moment: its proof carries a state predicate (`Apart`) from that moment on. Both `LockedOut` and `SessionsEnd`
leave out replays, which the code gives to anybody.

Induction. The library's induction theorems take an operator as a parameter, which the provers cannot
instantiate. What the proofs need of sums and cardinalities they get by other means: a sum is counted as
a set of units (`Counting`), and the recursive function behind `MapThenSumSet` has one solution because two
would differ on a smallest set (`SumsUnique`, by well-foundedness); ranks by injections; powers by subsets.

Only model-checked: liveness, since fairness is out of the prover's reach. That is `EveryRequestEnds`,
`WebhooksSettle` and `VisitsEnd`. Every other property of a passing run is stated by a theorem,
`RepliesMatchLedger`, `KeepsPromise`, `RetryIsReplayed`, `HighRiskIsEmailed` and `TriggeredIsComplete` under
the conditions named above.

## 6. Disagreements found

| Run | The code | What is said of it |
|---|---|---|
| `lost_update` | `account.balance - amount` is written from the balance loaded at the start, without a lock: two overlapping approved payments deduct one | `transaction_service.py:260` "Deducts balance if approved." |
| `duplicate_refused` | of two simultaneous submissions of one key the second fails on the unique index and gets a 500 | `test_transactions.py:52` the same key twice returns the cached response |
| `foreign_replay` | neither the middleware nor the endpoint's guard compares the owner of a key, and the middleware answers before authentication: whoever sends the key of another user's payment gets that transaction | `transactions.py:227` "Users can only view their own transactions."; `README.md:383` "JWT authentication on all endpoints" |
| `score_bands` | flagged from 0.65, declined from 0.85 | `README.md:265`, `:267` flagged from 0.50, declined from 0.80 |
| `cleanup_never` | beat sends a task name under which nothing is registered: each message ends as a failure, `NotRegistered` | `celery_app.py:203` runs every 2 hours via Celery Beat |

Seen while modelling, without a run of their own: concurrent requests count the same history and all pass
the velocity rule (`README.md:273` ">5 transactions in 1 hour"; `VelocityBound` is what is left); a
disabled user, or anybody without a token, is served the cached response of a payment (`README.md:383`;
the exception in `LockedOut`); a replay is answered 201, where `idempotency.py:33` says 200; an alert
that could only be logged is reported as "sent" (`celery_app.py:183`; the exception in `SeenAsReported`);
calls that hang in all four slots stop every job (`celery_app.py:93`, `:177`; the exception in
`WebhooksSettle`); an alert e-mail the broker refuses after the commit is never sent
(`celery_app.py:136`; `HighRiskIsEmailed` says what is left); of two concurrent registrations of one
e-mail the second is answered 500, not the 409 of `test_auth.py:35` (the same for two rules of one name,
`NameConflict`); when two analysts resolve one alert, `resolved_by` and `analyst_notes` can end up from
different analysts; refresh tokens are accepted as access tokens and the other way round; the countdowns
of a webhook add up to 930 seconds, about 16 minutes, where `celery_app.py:84` speaks of about 30; the
README counts 14 built-in rules, the code has 5; `webhook_deliveries` is never written; a flagged
transaction with a score of 0.65 to 0.80 has a FraudAlert although its risk is medium (`models.py:200`).

## 7. Not modelled

Rate limiting: slowapi's. The isolation forest, its training and loading: numerical; the models leave
its output arbitrary. Balance, transaction by id and list of rules: a single SELECT each; of the
statistics, the sum of amounts and the average of scores. Health, start-up, configuration,
deployment. Wording, logging, the e-mail's HTML and HTTP headers. Merchants: a payment's `webhook`
flag stands for a merchant with a URL. Hashes and signatures: a stored password is the password, a
token cannot be forged. Isolation levels other than PostgreSQL's default.

`TransactionPipeline` and `TaskQueue` are not composed. What passes between them is one message per
publication: the one guarantees that it is published once and after the commit
(`NotificationsBacked`), the other starts from its publication and promises what becomes of it, and
neither reads the other's state.

## 8. Plan

Order: what moves money first, then what surrounds it.

1. Done: `FraudDecision`, `RuleEngine`, `TransactionPipeline`, `IdempotentLedger`, `TaskQueue`,
   `RuleAdmin`, `Backoffice`, `Access`, and their proofs.
2. Proofs: an abstract specification of the task queue (a job is open, then done or given up, and its peer
   sees it at most once per cause) that `TaskQueue` implements, beside the invariants.
3. Two dashboards or clients that share an account, once an endpoint keeps state between their
   requests; today readers do not disturb one another.
