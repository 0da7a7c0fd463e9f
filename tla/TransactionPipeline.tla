------------------------- MODULE TransactionPipeline -------------------------
(***************************************************************************)
(* POST /api/v1/transactions: concurrent requests, each a sequence of      *)
(* awaits, over a PostgreSQL database (READ COMMITTED), a Redis cache, a   *)
(* connection pool and a Celery broker.                                    *)
(*                                                                         *)
(* pc[r] is the await request r stands at:                                 *)
(*   gateway  IdempotencyMiddleware reads Redis                            *)
(*   auth     get_current_user, whose query checks a connection out        *)
(*   guard    check_idempotency                                            *)
(*   account  get_account and the ownership check                          *)
(*   analyse  merchant, history, rules and ML score                        *)
(*   debit    flush: UPDATE accounts, behind the account's row lock        *)
(*   insert   flush: INSERT transactions, fraud_alerts; behind the key     *)
(*   record   save_idempotency_record                                      *)
(*   commit   db.commit(), which gives the connection back                 *)
(*   refresh  db.refresh(), which checks a connection out again            *)
(*   notify   deliver_webhook.delay                                        *)
(*   email    send_fraud_alert_email.delay                                 *)
(*   cache    the middleware's redis.setex                                 *)
(*   done     the client has its response       lost   it never will       *)
(*                                                                         *)
(* The writes of an open database transaction are kept with the request    *)
(* and become visible to the others when it commits; rolling back is       *)
(* forgetting them.  A client that retries is another request.             *)
(***************************************************************************)
EXTENDS FraudDecision, FiniteSets, FiniteSetsExt

CONSTANTS
  Requests, Keys, Users, Accounts,
  NoKey,           \* a request without the Idempotency-Key header
  NoRow,           \* the absence of a ledger row
  ActiveUsers,     \* the users with is_active
  Owner,           \* accounts.user_id
  ActiveAccounts,  \* the accounts with is_active
  InitialBalance,
  Payloads,        \* what a request can carry
  Workloads,       \* which request carries what: functions from Requests to Payloads
  RawScores,       \* outputs of the isolation forest
  OtherRisks,      \* the worst risk among the rules not modelled here
  VelocityLimit,   \* the threshold of velocity_attack: 5 in the code
  Hour, Day,       \* the window of the velocity count, the life of a key
  MaxTime,         \* bound: the clock stops there
  PoolSize,        \* pool_size + max_overflow: 60 in the code
  Faults           \* the kinds of failure that may happen

Rows ==
  [key : Keys, user : Users, account : Accounts, amount : Nat,
   status : Statuses, risk : RiskLevels, at : Nat]

Replies ==
  [code : {201}, row : Rows] \cup [code : {0, 401, 404, 500}, row : {NoRow}]

ASSUME ConstantsAssumption ==
  /\ NoKey \notin Keys
  /\ NoRow \notin Rows
  /\ ActiveUsers \subseteq Users
  /\ Owner \in [Accounts -> Users]
  /\ ActiveAccounts \subseteq Accounts
  /\ InitialBalance \in [Accounts -> Nat]
  /\ Payloads \subseteq [key : Keys, hdr : Keys \cup {NoKey}, user : Users,
                         account : Accounts, amount : Nat \ {0}, webhook : BOOLEAN]
  /\ Workloads \subseteq [Requests -> Payloads]
  /\ RawScores \subseteq Int
  /\ OtherRisks \subseteq RiskLevels
  /\ VelocityLimit \in Nat
  /\ Hour \in Nat /\ Day \in Nat \ {0} /\ MaxTime \in Nat
  /\ PoolSize \in Nat
  /\ Faults \subseteq {"crash", "db", "redis", "broker"}

VARIABLES
  pc,        \* where each request stands
  asked,     \* what it carries
  seen,      \* the balance it loaded with the account
  verdict,   \* its FraudAnalysisResult, from Analyse on
  stamp,     \* the created_at its INSERT carries
  draft,     \* the row it has inserted and not committed
  expires,   \* the expires_at of the record it has inserted and not committed
  reply,     \* its response so far
  ledger,    \* transactions, by idempotency_key
  balance,   \* accounts.balance
  idem,      \* idempotency_records: expires_at, 0 for no record
  alerts,    \* the keys whose transaction has a row in fraud_alerts
  cache,     \* Redis: the response kept under each header key, and its expiry
  webhooks,  \* deliver_webhook messages published for each key's transaction
  emails,    \* e-mail messages published for it
  now        \* the clock, in units in which Hour and Day are given

locals == <<asked, seen, verdict, stamp, draft, expires>>
database == <<ledger, balance, idem, alerts>>
queues == <<webhooks, emails>>
vars == <<pc, locals, reply, database, cache, queues, now>>

NoReply == [code |-> 0, row |-> NoRow]
Created(row) == [code |-> 201, row |-> row]
Refused(code) == [code |-> code, row |-> NoRow]

NoEntry == [body |-> NoReply, until |-> 0]

Init ==
  /\ pc = [r \in Requests |-> "idle"]
  /\ asked \in Workloads
  /\ seen = [r \in Requests |-> 0]
  /\ verdict = [r \in Requests |-> Verdict("low", "approve", 0)]
  /\ stamp = [r \in Requests |-> 0]
  /\ draft = [r \in Requests |-> NoRow]
  /\ expires = [r \in Requests |-> 0]
  /\ reply = [r \in Requests |-> NoReply]
  /\ ledger = [k \in Keys |-> NoRow]
  /\ balance = InitialBalance
  /\ idem = [k \in Keys |-> 0]
  /\ alerts = {}
  /\ cache = [k \in Keys |-> NoEntry]
  /\ webhooks = [k \in Keys |-> 0]
  /\ emails = [k \in Keys |-> 0]
  /\ now = 0

------------------------------------------------------------------------------
(* Who holds what, read off the program counters.                          *)

InTransaction == {"guard", "account", "analyse", "debit", "insert", "record", "commit"}

HoldsConnection(r) == pc[r] \in InTransaction \cup {"notify", "email"}

ConnectionFree == Cardinality({r \in Requests : HoldsConnection(r)}) < PoolSize

\* The row lock an approved request takes with its UPDATE and keeps to the end.
HoldsAccount(r, a) ==
  /\ pc[r] \in {"insert", "record", "commit"}
  /\ verdict[r].decision = "approve"
  /\ asked[r].account = a

\* Faulty variants of HoldsKey: the key is taken with the record only; a crash
\* leaves it locked.
HoldsKeyLate(r, k) == pc[r] = "commit" /\ asked[r].key = k
HoldsKeyForever(r, k) == pc[r] \in {"record", "commit", "lost"} /\ asked[r].key = k

\* An uncommitted row in the unique index on idempotency_key: a second INSERT
\* of the key waits for its outcome.
HoldsKey(r, k) == pc[r] \in {"record", "commit"} /\ asked[r].key = k

Active(r) == pc[r] \notin {"idle", "done", "lost"}

Goto(r, where) == pc' = [pc EXCEPT ![r] = where]

\* A faulty Respond: errors are cached as well.
RespondAndCacheAll(r, response) ==
  /\ reply' = [reply EXCEPT ![r] = response]
  /\ Goto(r, IF asked[r].hdr # NoKey THEN "cache" ELSE "done")

\* The endpoint's response goes back through the middleware, which caches the
\* successful ones that came with the header.
Respond(r, response) ==
  /\ reply' = [reply EXCEPT ![r] = response]
  /\ Goto(r, IF response.code = 201 /\ asked[r].hdr # NoKey THEN "cache" ELSE "done")

\* An exception: get_db rolls back what is not committed, the client gets a 500.
Fail(r) ==
  /\ Respond(r, Refused(500))
  /\ UNCHANGED <<locals, database, cache, queues, now>>

------------------------------------------------------------------------------
(* The middleware on the way in, and authentication.                       *)

Submit(r) ==
  /\ pc[r] = "idle"
  /\ Goto(r, IF asked[r].hdr = NoKey THEN "auth" ELSE "gateway")
  /\ UNCHANGED <<locals, reply, database, cache, queues, now>>

Cached(r) == cache[asked[r].hdr].until > now

GatewayHit(r) ==
  /\ pc[r] = "gateway"
  /\ Cached(r)
  /\ reply' = [reply EXCEPT ![r] = cache[asked[r].hdr].body]
  /\ Goto(r, "done")
  /\ UNCHANGED <<locals, database, cache, queues, now>>

GatewayMiss(r) ==
  /\ pc[r] = "gateway"
  /\ ~Cached(r)
  /\ Goto(r, "auth")
  /\ UNCHANGED <<locals, reply, database, cache, queues, now>>

\* redis.get raises; nothing of the endpoint has run.
GatewayError(r) ==
  /\ "redis" \in Faults
  /\ pc[r] = "gateway"
  /\ Fail(r)

Authenticate(r) ==
  /\ pc[r] = "auth"
  /\ ConnectionFree
  /\ asked[r].user \in ActiveUsers
  /\ Goto(r, "guard")
  /\ UNCHANGED <<locals, reply, database, cache, queues, now>>

Unauthorized(r) ==
  /\ pc[r] = "auth"
  /\ ConnectionFree
  /\ asked[r].user \notin ActiveUsers
  /\ Respond(r, Refused(401))
  /\ UNCHANGED <<locals, database, cache, queues, now>>

\* pool_timeout: a checkout gives up, the first one or the one after the commit.
PoolTimeout(r) ==
  /\ pc[r] \in {"auth", "refresh"}
  /\ ~ConnectionFree
  /\ Fail(r)

------------------------------------------------------------------------------
(* The endpoint, up to its commit.                                         *)

\* A live record, and the transaction it stands for.
AlreadyProcessed(k) == idem[k] > now /\ ledger[k] # NoRow

GuardHit(r) ==
  /\ pc[r] = "guard"
  /\ AlreadyProcessed(asked[r].key)
  /\ Respond(r, Created(ledger[asked[r].key]))
  /\ UNCHANGED <<locals, database, cache, queues, now>>

GuardMiss(r) ==
  /\ pc[r] = "guard"
  /\ ~AlreadyProcessed(asked[r].key)
  /\ Goto(r, "account")
  /\ UNCHANGED <<locals, reply, database, cache, queues, now>>

OwnsAccount(r) ==
  /\ asked[r].account \in ActiveAccounts
  /\ Owner[asked[r].account] = asked[r].user

\* The session keeps the loaded Account: later queries do not refresh it.
ReadAccount(r) ==
  /\ pc[r] = "account"
  /\ OwnsAccount(r)
  /\ seen' = [seen EXCEPT ![r] = balance[asked[r].account]]
  /\ Goto(r, "analyse")
  /\ UNCHANGED <<asked, verdict, stamp, draft, expires, reply, database, cache, queues, now>>

AccountNotFound(r) ==
  /\ pc[r] = "account"
  /\ ~OwnsAccount(r)
  /\ Respond(r, Refused(404))
  /\ UNCHANGED <<locals, database, cache, queues, now>>

\* A faulty LastHour: the window's first instant is excluded.
LastHourStrictly(u) ==
  Cardinality({k \in Keys : /\ ledger[k] # NoRow
                            /\ ledger[k].user = u
                            /\ ledger[k].status = "approved"
                            /\ ledger[k].at > now - Hour})

\* The transactions_last_hour of get_user_transaction_stats: committed rows,
\* approved ones only (nothing is ever PENDING).
LastHour(u) ==
  Cardinality({k \in Keys : /\ ledger[k] # NoRow
                            /\ ledger[k].user = u
                            /\ ledger[k].status = "approved"
                            /\ ledger[k].at >= now - Hour})

\* The rule engine's outcome: exceeds_balance and velocity_attack, which read
\* the shared state, and the worst risk `other' of every other rule.
RuleOutcome(r, other) ==
  LET critical == \/ asked[r].amount > seen[r]
                  \/ LastHour(asked[r].user) > VelocityLimit
                  \/ other = "critical"
  IN  [maxRisk |-> IF critical THEN "critical" ELSE other,
       shouldDecline |-> critical,
       fired |-> critical \/ other # "low"]

\* The default of created_at is taken when the INSERT is put together, before it
\* waits for anybody.
BeginInsert(r) == stamp' = [stamp EXCEPT ![r] = now] /\ Goto(r, "insert")

Analyse(r) ==
  /\ pc[r] = "analyse"
  /\ \E other \in OtherRisks, raw \in RawScores :
       LET result == Combine(RuleOutcome(r, other), Normalise(raw))
       IN  /\ verdict' = [verdict EXCEPT ![r] = result]
           /\ IF result.decision = "approve"
                THEN Goto(r, "debit") /\ UNCHANGED stamp
                ELSE BeginInsert(r)
  /\ UNCHANGED <<asked, seen, draft, expires, reply, database, cache, queues, now>>

\* A faulty Debit: the deduction is committed at once.
DebitAtOnce(r) ==
  /\ pc[r] = "debit"
  /\ balance' = [balance EXCEPT ![asked[r].account] = seen[r] - asked[r].amount]
  /\ BeginInsert(r)
  /\ UNCHANGED <<asked, seen, verdict, draft, expires, reply, ledger, idem, alerts,
                 cache, queues, now>>

Debit(r) ==
  /\ pc[r] = "debit"
  /\ \A q \in Requests : ~HoldsAccount(q, asked[r].account)
  /\ BeginInsert(r)
  /\ UNCHANGED <<asked, seen, verdict, draft, expires, reply, database, cache, queues, now>>

\* A faulty NewRow: the decision is stored without going through status_map.
NewRowUnmapped(r) ==
  [key |-> asked[r].key, user |-> asked[r].user, account |-> asked[r].account,
   amount |-> asked[r].amount, status |-> verdict[r].decision,
   risk |-> verdict[r].risk, at |-> stamp[r]]

NewRow(r) ==
  [key |-> asked[r].key, user |-> asked[r].user, account |-> asked[r].account,
   amount |-> asked[r].amount, status |-> StatusOf[verdict[r].decision],
   risk |-> verdict[r].risk, at |-> stamp[r]]

KeyUnlocked(r) == \A q \in Requests : ~HoldsKey(q, asked[r].key)

\* A faulty KeyTaken: no unique index on transactions.idempotency_key.
NeverTaken(r) == FALSE

KeyTaken(r) == ledger[asked[r].key] # NoRow

InsertRow(r) ==
  /\ pc[r] = "insert"
  /\ KeyUnlocked(r)
  /\ ~KeyTaken(r)
  /\ draft' = [draft EXCEPT ![r] = NewRow(r)]
  /\ Goto(r, "record")
  /\ UNCHANGED <<asked, seen, verdict, stamp, expires, reply, database, cache, queues, now>>

\* A faulty UniqueViolation: the error is caught and the duplicate answered from
\* its own data.
UniqueViolationAnswered(r) ==
  /\ pc[r] = "insert"
  /\ KeyUnlocked(r)
  /\ KeyTaken(r)
  /\ Respond(r, Created(NewRow(r)))
  /\ UNCHANGED <<locals, database, cache, queues, now>>

\* IntegrityError on transactions.idempotency_key: nothing catches it.
UniqueViolation(r) ==
  /\ pc[r] = "insert"
  /\ KeyUnlocked(r)
  /\ KeyTaken(r)
  /\ Fail(r)

\* idempotency_records.key is unique as well.
SaveRecord(r) ==
  /\ pc[r] = "record"
  /\ IF idem[asked[r].key] # 0
       THEN Fail(r)
       ELSE /\ expires' = [expires EXCEPT ![r] = now + Day]
            /\ Goto(r, "commit")
            /\ UNCHANGED <<asked, seen, verdict, stamp, draft, reply, database, cache,
                           queues, now>>

\* A faulty Debited: the database subtracts from the current balance.
DebitedInPlace(r) ==
  IF verdict[r].decision = "approve"
    THEN [balance EXCEPT ![asked[r].account] = @ - asked[r].amount]
    ELSE balance

\* The UPDATE of an approved transaction writes the absolute value seen - amount,
\* whatever the balance has become.
Debited(r) ==
  IF verdict[r].decision = "approve"
    THEN [balance EXCEPT ![asked[r].account] = seen[r] - asked[r].amount]
    ELSE balance

\* A faulty Commit: flush() where commit() is needed.
CommitForgotten(r) ==
  /\ pc[r] = "commit"
  /\ Goto(r, "refresh")
  /\ UNCHANGED <<locals, reply, database, cache, queues, now>>

Commit(r) ==
  LET k == asked[r].key IN
  /\ pc[r] = "commit"
  /\ ledger' = [ledger EXCEPT ![k] = draft[r]]
  /\ idem' = [idem EXCEPT ![k] = expires[r]]
  /\ balance' = Debited(r)
  /\ alerts' = IF AlertNeeded(verdict[r]) THEN alerts \cup {k} ELSE alerts
  /\ Goto(r, "refresh")
  /\ UNCHANGED <<locals, reply, cache, queues, now>>

------------------------------------------------------------------------------
(* After the commit.                                                       *)

Refresh(r) ==
  /\ pc[r] = "refresh"
  /\ ConnectionFree
  /\ Goto(r, "notify")
  /\ UNCHANGED <<locals, reply, database, cache, queues, now>>

Notify(r) ==
  /\ pc[r] = "notify"
  /\ webhooks' = IF asked[r].webhook
                   THEN [webhooks EXCEPT ![asked[r].key] = @ + 1] ELSE webhooks
  /\ Goto(r, "email")
  /\ UNCHANGED <<locals, reply, database, cache, emails, now>>

\* What becomes of the endpoint's 201: get_db's own commit behind it may fail.
Closings(r) == {Created(draft[r])} \cup (IF "db" \in Faults THEN {Refused(500)} ELSE {})

Email(r) ==
  /\ pc[r] = "email"
  /\ emails' = IF EmailNeeded(verdict[r])
                 THEN [emails EXCEPT ![asked[r].key] = @ + 1] ELSE emails
  /\ \E response \in Closings(r) : Respond(r, response)
  /\ UNCHANGED <<locals, database, cache, webhooks, now>>

\* A faulty BrokerError: a publication that failed late is repeated.
BrokerErrorRetried(r) ==
  /\ "broker" \in Faults
  /\ pc[r] = "notify" /\ asked[r].webhook
  /\ webhooks' = [webhooks EXCEPT ![asked[r].key] = @ + 1]
  /\ UNCHANGED <<pc, locals, reply, database, cache, emails, now>>

\* `.delay' raises when the broker cannot be reached.
BrokerError(r) ==
  /\ "broker" \in Faults
  /\ \/ pc[r] = "notify" /\ asked[r].webhook
     \/ pc[r] = "email" /\ EmailNeeded(verdict[r])
  /\ Fail(r)

\* A query fails, in the transaction or in the refresh behind it.
DatabaseError(r) ==
  /\ "db" \in Faults
  /\ pc[r] \in InTransaction \cup {"auth", "refresh"}
  /\ Fail(r)

\* setex with a lifetime of 24 hours, from now and whatever the record says.
CacheResponse(r) ==
  /\ pc[r] = "cache"
  /\ cache' = [cache EXCEPT ![asked[r].hdr] = [body |-> reply[r], until |-> now + Day]]
  /\ Goto(r, "done")
  /\ UNCHANGED <<locals, reply, database, queues, now>>

\* redis.setex raises: only JSONDecodeError is caught.
CacheError(r) ==
  /\ "redis" \in Faults
  /\ pc[r] = "cache"
  /\ Fail(r)

------------------------------------------------------------------------------
(* The environment.                                                        *)

\* The process that handles the request dies, or the client stops waiting.
Crash(r) ==
  /\ "crash" \in Faults
  /\ Active(r)
  /\ Goto(r, "lost")
  /\ UNCHANGED <<locals, reply, database, cache, queues, now>>

Tick ==
  /\ now < MaxTime
  /\ now' = now + 1
  /\ UNCHANGED <<pc, locals, reply, database, cache, queues>>

\* A faulty Cleanup: the comparison turned round.
CleanupOfLive ==
  /\ \E k \in Keys : idem[k] > now
  /\ idem' = [k \in Keys |-> IF idem[k] > now THEN 0 ELSE idem[k]]
  /\ UNCHANGED <<pc, locals, reply, ledger, balance, alerts, cache, queues, now>>

\* cleanup_expired_idempotency_keys: DELETE ... WHERE expires_at < now.
Cleanup ==
  /\ \E k \in Keys : idem[k] # 0 /\ idem[k] < now
  /\ idem' = [k \in Keys |-> IF idem[k] < now THEN 0 ELSE idem[k]]
  /\ UNCHANGED <<pc, locals, reply, ledger, balance, alerts, cache, queues, now>>

\* Redis restarts empty.
CacheLoss ==
  /\ "redis" \in Faults
  /\ cache' = [k \in Keys |-> NoEntry]
  /\ UNCHANGED <<pc, locals, reply, database, queues, now>>

------------------------------------------------------------------------------
\* What one request does once it has been sent, failures of its surroundings
\* apart: the steps the server owes it.
Handle(r) ==
  \/ GatewayHit(r) \/ GatewayMiss(r)
  \/ Authenticate(r) \/ Unauthorized(r) \/ PoolTimeout(r)
  \/ GuardHit(r) \/ GuardMiss(r)
  \/ ReadAccount(r) \/ AccountNotFound(r)
  \/ Analyse(r) \/ Debit(r)
  \/ InsertRow(r) \/ UniqueViolation(r)
  \/ SaveRecord(r) \/ Commit(r)
  \/ Refresh(r) \/ Notify(r) \/ Email(r)
  \/ CacheResponse(r)

Disturb(r) ==
  GatewayError(r) \/ BrokerError(r) \/ DatabaseError(r) \/ CacheError(r) \/ Crash(r)

\* Every request has ended: nothing is owed to anyone.
Finished == (\A r \in Requests : pc[r] \in {"done", "lost"}) /\ UNCHANGED vars

Next ==
  \/ \E r \in Requests : Submit(r) \/ Handle(r) \/ Disturb(r)
  \/ Tick \/ Cleanup \/ CacheLoss
  \/ Finished

Spec == Init /\ [][Next]_vars

\* The event loop resumes every coroutine whose await can complete.
FairSpec == Spec /\ \A r \in Requests : WF_vars(Handle(r))

------------------------------------------------------------------------------
(* Properties.                                                             *)

PCs == {"idle", "gateway", "refresh", "notify", "email", "cache", "auth",
        "done", "lost"} \cup InTransaction

\* Every variable stays within its type.
TypeOK ==
  /\ pc \in [Requests -> PCs]
  /\ asked \in Workloads
  /\ seen \in [Requests -> Int]
  /\ verdict \in [Requests -> Verdicts]
  /\ stamp \in [Requests -> Nat]
  /\ draft \in [Requests -> Rows \cup {NoRow}]
  /\ expires \in [Requests -> Nat]
  /\ reply \in [Requests -> Replies]
  /\ ledger \in [Keys -> Rows \cup {NoRow}]
  /\ balance \in [Accounts -> Int]
  /\ idem \in [Keys -> Nat]
  /\ alerts \subseteq Keys
  /\ cache \in [Keys -> [body : Replies, until : Nat]]
  /\ webhooks \in [Keys -> Nat]
  /\ emails \in [Keys -> Nat]
  /\ now \in Nat

Recorded(k) == ledger[k] # NoRow

Approved(k) == Recorded(k) /\ ledger[k].status = "approved"

\* What the ledger says was taken from account a.
Spent(a) ==
  MapThenSumSet(LAMBDA k : ledger[k].amount,
                {k \in Keys : Approved(k) /\ ledger[k].account = a})

\* No balance is driven below zero, although every debit is computed from a
\* balance that may be out of date when it is written.
NonNegativeBalance == \A a \in Accounts : balance[a] >= 0

\* No account loses more than its approved transactions add up to: stale
\* balances, retries, rollbacks and crashes never charge a customer twice.
NeverOverdebited ==
  \A a \in Accounts : balance[a] >= InitialBalance[a] - Spent(a)

\* An idempotency record never outlives or precedes its transaction, and a
\* request that has inserted its row finds the record's unique key free: the
\* INSERT of the record cannot be what fails.
RecordBacksLedger ==
  /\ \A k \in Keys : idem[k] # 0 => Recorded(k)
  /\ \A r \in Requests : pc[r] = "record" => idem[asked[r].key] = 0

\* The clients the documentation asks for: the header, if any, repeats the key.
HeadersAgree == \A r \in Requests : asked[r].hdr \in {asked[r].key, NoKey}

\* A 201, and a response kept in Redis, is the committed row of the key it
\* answers for: nobody is told of a transaction that was rolled back, or of one
\* with another key.  (For clients whose header and body keys agree.  Whose key it
\* is, nothing asks: see OwnTransactionsOnly.)
RepliesMatchLedger ==
  /\ \A r \in Requests :
       reply[r].code = 201 => reply[r].row = ledger[asked[r].key]
  /\ \A k \in Keys : cache[k] # NoEntry => cache[k].body = Created(ledger[k])

\* Whatever the header says, what a client is told of is a committed row.
RepliesAreCommitted ==
  \A r \in Requests : reply[r].code = 201 =>
    reply[r].row # NoRow /\ reply[r].row = ledger[reply[r].row.key]

\* For each transaction at most one webhook and one e-mail message is published,
\* after its commit, the e-mail only for a high risk with an alert: what the
\* workers make of a message is TaskQueue.
NotificationsBacked ==
  \A k \in Keys :
    /\ webhooks[k] + emails[k] > 0 => Recorded(k)
    /\ webhooks[k] <= 1
    /\ emails[k] <= 1
    /\ emails[k] > 0 => ledger[k].risk \in {"high", "critical"} /\ k \in alerts

\* The analysts' queue and the ledger agree: exactly the transactions that were
\* not approved have an alert, whatever failed around their commit.
AlertsMatchLedger ==
  \A k \in Keys :
    k \in alerts <=> Recorded(k) /\ ledger[k].status \in {"flagged", "declined"}

\* The ledger is append-only: a row, once committed, is never changed, replaced
\* or removed.
LedgerAppendOnly ==
  [][\A k \in Keys : Recorded(k) => ledger'[k] = ledger[k]]_vars

\* The balances and the ledger agree: every approved transaction was deducted.
BalanceMatchesLedger ==
  \A a \in Accounts : balance[a] = InitialBalance[a] - Spent(a)

\* Analyses that overlap do not see one another's payments, so that the velocity
\* limit may be passed, but by no more than the pool lets overlap: within one hour
\* no user has more than VelocityLimit + PoolSize approved transactions.
VelocityBound ==
  \A u \in Users : \A t \in 0..now :
    Cardinality({k \in Keys : /\ Approved(k)
                              /\ ledger[k].user = u
                              /\ ledger[k].at \in t..(t + Hour)}) <= VelocityLimit + PoolSize

\* Of several requests with one payload, none is refused once one was accepted.
DuplicateGetsOriginal ==
  \A q, r \in Requests :
    /\ pc[q] = "done" /\ pc[r] = "done" /\ asked[q] = asked[r]
    /\ reply[q].code = 201
    => reply[r] = reply[q]

\* Users are told of transactions of their own only.
OwnTransactionsOnly ==
  \A r \in Requests : reply[r].code = 201 => reply[r].row.user = asked[r].user

\* A request sent after its key was processed, and before the key expires, is
\* never answered with anything but the original transaction, as long as it finds
\* a connection when it asks for its first: it never asks for a second.
RetryIsReplayed ==
  \A r \in Requests :
    [](pc[r] = "auth" => ConnectionFree) =>
    [](pc[r] = "idle" /\ AlreadyProcessed(asked[r].key) /\ asked[r].user \in ActiveUsers
       => [](pc[r] = "done" => reply[r] = Created(ledger[asked[r].key])))

\* Every request that is sent ends: with a response, or with its process.
EveryRequestEnds ==
  \A r \in Requests : Active(r) ~> pc[r] \in {"done", "lost"}

\* Every committed transaction of high or critical risk leads to an e-mail, or
\* the client that made it was told of a failure (a 500) or of nothing at all.
HighRiskIsEmailed ==
  \A k \in Keys :
    Recorded(k) /\ ledger[k].risk \in {"high", "critical"} ~>
      \/ emails[k] > 0
      \/ \E r \in Requests : /\ asked[r].key = k /\ draft[r] # NoRow
                            /\ (pc[r] = "lost" \/ reply[r].code = 500)

\* The pipeline keeps the promise of IdempotentLedger.  (For clients whose
\* header and body keys agree.)
Promise ==
  INSTANCE IdempotentLedger WITH
    asks <- [r \in Requests |-> asked[r].key],
    book <- ledger,
    told <- [r \in Requests |->
              IF pc[r] = "done" /\ reply[r].code = 201 THEN reply[r].row ELSE NoRow]

KeepsPromise == Promise!Spec
==============================================================================
