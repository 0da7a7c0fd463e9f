---------------------- MODULE TransactionPipelineProofs ----------------------
(***************************************************************************)
(* What holds of the pipeline for any number of requests, keys, accounts   *)
(* and connections, with every kind of failure allowed.                    *)
(*                                                                         *)
(* The argument rests on IInv.  A request that has inserted its row is the *)
(* only writer of its key until it leaves (OneWriter), the ledger has no   *)
(* row for the key before its commit and its own row after it (Drafts);    *)
(* hence a commit never meets an older row, the record, the alert and the  *)
(* notifications of a key have a single author (Books, Notices), and what  *)
(* is answered or cached is a committed row (Honest).                      *)
(*                                                                         *)
(* Five arguments of their own follow: retries (Replayed), money           *)
(* (Covered), the pool (Pooled), velocity, which rests on the pool         *)
(* (Paced), and the e-mails that are owed (Owed).                          *)
(***************************************************************************)
EXTENDS TransactionPipeline, FraudDecisionProofs, Counting

Settling == {"record", "commit"}             \* row inserted, not committed
Settled == {"refresh", "notify", "email"}    \* committed, not answered

\* No balance is negative, and the one a request read covers the amount it is
\* about to deduct, however old the value is.
Solvent ==
  /\ NonNegativeBalance
  /\ \A r \in Requests :
       /\ pc[r] \in {"debit", "insert", "record", "commit"}
       /\ verdict[r].decision = "approve"
       => asked[r].amount <= seen[r]

\* Decision, alert and e-mail of a verdict agree.
VerdictsAgree ==
  \A r \in Requests : pc[r] \in {"debit", "insert"} \cup Settling \cup Settled =>
    /\ AlertNeeded(verdict[r]) <=> verdict[r].decision # "approve"
    /\ EmailNeeded(verdict[r]) => AlertNeeded(verdict[r])

OneWriter ==
  \A q, r \in Requests :
    /\ pc[q] \in Settling \cup Settled
    /\ pc[r] \in Settling \cup Settled
    /\ asked[q].key = asked[r].key
    => q = r

Drafts ==
  \A r \in Requests :
    /\ pc[r] \in Settling \cup Settled =>
         /\ draft[r] \in Rows
         /\ draft[r].key = asked[r].key
         /\ draft[r].status = StatusOf[verdict[r].decision]
         /\ draft[r].risk = verdict[r].risk
    /\ pc[r] \in Settling => ledger[asked[r].key] = NoRow
    /\ pc[r] \in Settled => ledger[asked[r].key] = draft[r]

Books ==
  \A k \in Keys :
    /\ idem[k] # 0 => Recorded(k)
    /\ Recorded(k) => ledger[k].key = k
    /\ k \in alerts <=> Recorded(k) /\ ledger[k].status \in {"flagged", "declined"}

Notices ==
  /\ NotificationsBacked
  /\ \A r \in Requests :
       /\ pc[r] \in {"refresh", "notify"} => webhooks[asked[r].key] = 0
       /\ pc[r] \in Settled => emails[asked[r].key] = 0

\* A response that says a transaction was created, truly, and to whom it may.
IsCreated(response) == response.code = 201

IsHonest(response) ==
  response.code = 201 =>
    response.row \in Rows /\ ledger[response.row.key] = response.row

IsAddressed(response, k) == response.code = 201 => response.row.key = k

Honest ==
  /\ \A r \in Requests :
       /\ IsHonest(reply[r])
       /\ pc[r] \in {"gateway", "cache"} => asked[r].hdr # NoKey
       /\ pc[r] = "cache" => reply[r].code = 201
  /\ \A k \in Keys : cache[k] # NoEntry => cache[k].body.code = 201 /\ IsHonest(cache[k].body)

Addressed ==
  HeadersAgree =>
    /\ \A r \in Requests : IsAddressed(reply[r], asked[r].key)
    /\ \A k \in Keys : cache[k] # NoEntry => IsAddressed(cache[k].body, k)

IInv ==
  TypeOK /\ Solvent /\ VerdictsAgree /\ OneWriter /\ Drafts /\ Books
         /\ Notices /\ Honest /\ Addressed

------------------------------------------------------------------------------

LEMMA PayloadType ==
  ASSUME TypeOK, NEW r \in Requests
  PROVE  /\ asked[r].key \in Keys /\ asked[r].hdr \in Keys \cup {NoKey}
         /\ asked[r].user \in Users /\ asked[r].account \in Accounts
         /\ asked[r].amount \in Nat /\ asked[r].webhook \in BOOLEAN
BY ConstantsAssumption DEF TypeOK

LEMMA RowTyped ==
  ASSUME NEW row \in Rows
  PROVE  row # NoRow /\ row.key \in Keys
BY ConstantsAssumption DEF Rows

LEMMA InitInv == Init => IInv
<1> SUFFICES ASSUME Init PROVE IInv  OBVIOUS
<1> USE DEF Init
<1>1. TypeOK
  <2>1. Verdict("low", "approve", 0) \in Verdicts
    BY DEF Verdict, Verdicts, RiskLevels, Decisions, Scores
  <2>2. NoReply \in Replies  BY DEF NoReply, Replies
  <2>3. NoEntry \in [body : Replies, until : Nat]  BY <2>2 DEF NoEntry
  <2> QED BY <2>1, <2>2, <2>3, ConstantsAssumption DEF TypeOK, PCs
<1>2. Solvent
  BY ConstantsAssumption DEF Solvent, NonNegativeBalance
<1>3. VerdictsAgree /\ OneWriter /\ Drafts
  BY DEF VerdictsAgree, OneWriter, Drafts, Settling, Settled
<1>4. Books  BY DEF Books, Recorded
<1>5. Notices  BY DEF Notices, NotificationsBacked, Recorded, Settled
<1>6. Honest  BY DEF Honest, IsHonest, NoReply, NoEntry
<1>7. Addressed  BY DEF Addressed, IsAddressed, NoReply, NoEntry
<1> QED BY <1>1, <1>2, <1>3, <1>4, <1>5, <1>6, <1>7 DEF IInv

\* A request moves to a place where it has written nothing, with or without a
\* response: every failure, every early return and the steps before the analysis.
LEMMA StepAside ==
  ASSUME IInv, NEW r \in Requests,
         NEW w \in {"gateway", "auth", "guard", "account", "analyse",
                    "cache", "done", "lost"},
         pc' = [pc EXCEPT ![r] = w],
         UNCHANGED <<locals, database, cache, queues, now>>,
         NEW response \in Replies, reply' = [reply EXCEPT ![r] = response],
         IsHonest(response),
         HeadersAgree => IsAddressed(response, asked[r].key),
         w \in {"gateway", "cache"} => asked[r].hdr # NoKey,
         w = "cache" => IsCreated(response)
  PROVE  IInv'
<1> USE DEF IInv
<1>0. UNCHANGED <<asked, seen, verdict, stamp, draft, expires, ledger, balance, idem,
                  alerts, cache, webhooks, emails, now>>
  BY DEF locals, database, queues
<1>1. TypeOK'
  <2>1. pc' \in [Requests -> PCs]  BY DEF TypeOK, PCs, InTransaction
  <2>2. reply' \in [Requests -> Replies]  BY DEF TypeOK
  <2> QED BY <1>0, <2>1, <2>2 DEF TypeOK
<1>2. pc \in [Requests -> PCs] /\ reply \in [Requests -> Replies]  BY DEF TypeOK
<1>3. Solvent'  BY <1>0, <1>2 DEF Solvent, NonNegativeBalance
<1>4. VerdictsAgree'  BY <1>0, <1>2 DEF VerdictsAgree, Settling, Settled
<1>5. OneWriter'  BY <1>0, <1>2 DEF OneWriter, Settling, Settled
<1>6. Drafts'  BY <1>0, <1>2 DEF Drafts, Settling, Settled
<1>7. Books'  BY <1>0 DEF Books, Recorded
<1>8. Notices'
  BY <1>0, <1>2 DEF Notices, NotificationsBacked, Recorded, Settled
<1>9. Honest'
  BY <1>0, <1>2 DEF Honest, IsHonest, IsCreated
<1>10. Addressed'
  BY <1>0, <1>2 DEF Addressed, IsAddressed, HeadersAgree
<1> QED BY <1>1, <1>3, <1>4, <1>5, <1>6, <1>7, <1>8, <1>9, <1>10

LEMMA MoveStep ==
  ASSUME IInv, NEW r \in Requests,
         NEW w \in {"gateway", "auth", "guard", "account", "lost"},
         Goto(r, w),
         w = "gateway" => asked[r].hdr # NoKey,
         UNCHANGED <<locals, reply, database, cache, queues, now>>
  PROVE  IInv'
<1>1. pc' = [pc EXCEPT ![r] = w]  BY DEF Goto
<1>2. reply[r] \in Replies /\ reply' = [reply EXCEPT ![r] = reply[r]]
  BY DEF IInv, TypeOK
<1>3. IsHonest(reply[r])  BY DEF IInv, Honest
<1>4. HeadersAgree => IsAddressed(reply[r], asked[r].key)
  BY DEF IInv, Addressed
<1> QED BY <1>1, <1>2, <1>3, <1>4, StepAside

LEMMA RefuseStep ==
  ASSUME IInv, NEW r \in Requests, NEW code \in {401, 404, 500},
         Respond(r, Refused(code)),
         UNCHANGED <<locals, database, cache, queues, now>>
  PROVE  IInv'
<1> DEFINE response == Refused(code)
<1>0. response \in Replies  BY DEF Refused, Replies
<1>1. response.code # 201  BY DEF Refused
<1>2. pc' = [pc EXCEPT ![r] = "done"]
  BY <1>1 DEF Respond, Goto
<1>3. reply' = [reply EXCEPT ![r] = response]  BY DEF Respond
<1>4. IsHonest(response)  BY <1>1 DEF IsHonest
<1>5. HeadersAgree => IsAddressed(response, asked[r].key)
  BY <1>1 DEF IsAddressed
<1> HIDE DEF response
<1> QED BY <1>0, <1>2, <1>3, <1>4, <1>5, StepAside

LEMMA FailStep == ASSUME IInv, NEW r \in Requests, Fail(r) PROVE IInv'
<1>1. Respond(r, Refused(500))  BY DEF Fail
<1>2. UNCHANGED <<locals, database, cache, queues, now>>  BY DEF Fail
<1> QED BY <1>1, <1>2, RefuseStep

\* A response from Redis.
LEMMA GatewayHitStep ==
  ASSUME IInv, NEW r \in Requests, GatewayHit(r)  PROVE IInv'
<1> DEFINE h == asked[r].hdr  response == cache[h].body
<1>1. h \in Keys
  BY PayloadType DEF IInv, Honest, GatewayHit
<1>2. cache[h] # NoEntry /\ response \in Replies
  BY <1>1 DEF IInv, TypeOK, GatewayHit, Cached, NoEntry
<1>3. IsHonest(response)  BY <1>1, <1>2 DEF IInv, Honest
<1>4. HeadersAgree => IsAddressed(response, asked[r].key)
  <2> SUFFICES ASSUME HeadersAgree PROVE IsAddressed(response, asked[r].key)
    OBVIOUS
  <2>1. h = asked[r].key  BY <1>1, ConstantsAssumption DEF HeadersAgree
  <2> QED BY <1>1, <1>2, <2>1 DEF IInv, Addressed
<1>5. /\ pc' = [pc EXCEPT ![r] = "done"]
      /\ reply' = [reply EXCEPT ![r] = response]
      /\ UNCHANGED <<locals, database, cache, queues, now>>
  BY DEF GatewayHit, Goto
<1> HIDE DEF response
<1> QED BY <1>2, <1>3, <1>4, <1>5, StepAside

\* A response made of the row found under the key.
LEMMA GuardHitStep ==
  ASSUME IInv, NEW r \in Requests, GuardHit(r)  PROVE IInv'
<1> DEFINE row == ledger[asked[r].key]  response == Created(row)
<1>1. row \in Rows /\ row.key = asked[r].key
  BY PayloadType DEF IInv, TypeOK, Books, Recorded, GuardHit, AlreadyProcessed
<1>2. response \in Replies  BY <1>1 DEF Created, Replies
<1>3. IsCreated(response)  BY DEF Created, IsCreated
<1>4. reply' = [reply EXCEPT ![r] = response]  BY DEF GuardHit, Respond
<1>5. UNCHANGED <<locals, database, cache, queues, now>>  BY DEF GuardHit
<1>6. IsHonest(response)  BY <1>1 DEF IsHonest, Created
<1>7. HeadersAgree => IsAddressed(response, asked[r].key)
  BY <1>1 DEF IsAddressed, Created
<1>8. CASE asked[r].hdr = NoKey
  <2>1. pc' = [pc EXCEPT ![r] = "done"]  BY <1>8 DEF GuardHit, Respond, Goto
  <2> HIDE DEF response
  <2> QED BY <1>2, <1>4, <1>5, <1>6, <1>7, <2>1, StepAside
<1>9. CASE asked[r].hdr # NoKey
  <2>1. pc' = [pc EXCEPT ![r] = "cache"]
    BY <1>9 DEF GuardHit, Respond, Goto, Created
  <2> HIDE DEF response
  <2> QED BY <1>2, <1>3, <1>4, <1>5, <1>6, <1>7, <1>9, <2>1, StepAside
<1> QED BY <1>8, <1>9

\* The steps that write nothing.
LEMMA MovingSteps ==
  ASSUME IInv, NEW r \in Requests,
         \/ Submit(r) \/ GatewayMiss(r) \/ Authenticate(r) \/ GuardMiss(r) \/ Crash(r)
  PROVE  IInv'
<1>1. CASE Submit(r)
  <2>1. CASE asked[r].hdr = NoKey
    <3>1. Goto(r, "auth")  BY <1>1, <2>1 DEF Submit
    <3> QED BY <1>1, <3>1, MoveStep DEF Submit
  <2>2. CASE asked[r].hdr # NoKey
    <3>1. Goto(r, "gateway")  BY <1>1, <2>2 DEF Submit
    <3> QED BY <1>1, <2>2, <3>1, MoveStep DEF Submit
  <2> QED BY <2>1, <2>2
<1>2. CASE GatewayMiss(r)  BY <1>2, MoveStep DEF GatewayMiss
<1>3. CASE Authenticate(r)  BY <1>3, MoveStep DEF Authenticate
<1>4. CASE GuardMiss(r)  BY <1>4, MoveStep DEF GuardMiss
<1>5. CASE Crash(r)  BY <1>5, MoveStep DEF Crash
<1> QED BY <1>1, <1>2, <1>3, <1>4, <1>5

\* Refusals, expected and unexpected.
LEMMA FailingSteps ==
  ASSUME IInv, NEW r \in Requests,
         \/ GatewayError(r) \/ Unauthorized(r) \/ PoolTimeout(r)
         \/ AccountNotFound(r) \/ UniqueViolation(r) \/ BrokerError(r)
         \/ DatabaseError(r) \/ CacheError(r)
  PROVE  IInv'
<1>1. CASE Unauthorized(r)  BY <1>1, RefuseStep DEF Unauthorized
<1>2. CASE AccountNotFound(r)  BY <1>2, RefuseStep DEF AccountNotFound
<1>3. CASE Fail(r)  BY <1>3, FailStep
<1> QED
  BY <1>1, <1>2, <1>3
     DEF GatewayError, PoolTimeout, UniqueViolation, BrokerError, DatabaseError, CacheError

LEMMA ReadAccountStep ==
  ASSUME IInv, NEW r \in Requests, ReadAccount(r)  PROVE IInv'
<1> USE DEF IInv, ReadAccount, Goto
<1>0. UNCHANGED <<asked, verdict, stamp, draft, expires, reply, ledger, balance, idem,
                  alerts, cache, webhooks, emails, now>>
  BY DEF database, queues
<1>1. /\ pc \in [Requests -> PCs]
      /\ pc' = [pc EXCEPT ![r] = "analyse"]
      /\ seen \in [Requests -> Int]
      /\ seen' = [seen EXCEPT ![r] = balance[asked[r].account]]
  BY DEF TypeOK
<1>2. balance[asked[r].account] \in Int  BY PayloadType DEF TypeOK
<1>3. TypeOK'
  <2>1. pc' \in [Requests -> PCs] /\ seen' \in [Requests -> Int]
    BY <1>1, <1>2 DEF PCs, InTransaction
  <2> QED BY <1>0, <2>1 DEF TypeOK
<1>4. Solvent'  BY <1>0, <1>1 DEF Solvent, NonNegativeBalance
<1>5. VerdictsAgree'  BY <1>0, <1>1 DEF VerdictsAgree, Settling, Settled
<1>6. OneWriter'  BY <1>0, <1>1 DEF OneWriter, Settling, Settled
<1>7. Drafts'  BY <1>0, <1>1 DEF Drafts, Settling, Settled
<1>8. Books'  BY <1>0 DEF Books, Recorded
<1>9. Notices'  BY <1>0, <1>1 DEF Notices, NotificationsBacked, Recorded, Settled
<1>10. Honest'  BY <1>0, <1>1 DEF Honest, IsHonest
<1>11. Addressed'  BY <1>0 DEF Addressed, IsAddressed, HeadersAgree
<1> QED BY <1>3, <1>4, <1>5, <1>6, <1>7, <1>8, <1>9, <1>10, <1>11

\* An approval means that the balance read covers the amount.
LEMMA AnalyseStep ==
  ASSUME IInv, NEW r \in Requests, Analyse(r)  PROVE IInv'
<1> USE DEF IInv, Goto
<1>0. UNCHANGED <<asked, seen, draft, expires, reply, ledger, balance, idem,
                  alerts, cache, webhooks, emails, now>>
  BY DEF Analyse, database, queues
<1>1. PICK other \in OtherRisks, raw \in RawScores :
        LET result == Combine(RuleOutcome(r, other), Normalise(raw))
        IN  /\ verdict' = [verdict EXCEPT ![r] = result]
            /\ pc' = [pc EXCEPT ![r] =
                        IF result.decision = "approve" THEN "debit" ELSE "insert"]
            /\ stamp' = stamp \/ stamp' = [stamp EXCEPT ![r] = now]
  BY DEF Analyse, BeginInsert
<1> DEFINE outcome == RuleOutcome(r, other)  score == Normalise(raw)
           result == Combine(outcome, score)
           next == IF result.decision = "approve" THEN "debit" ELSE "insert"
<1>2. outcome \in RuleOutcomes
  BY ConstantsAssumption, Zenon DEF RuleOutcome, RuleOutcomes, RiskLevels
<1>3. score \in Scores
  BY ConstantsAssumption, NormaliseType
<1>4. result \in Verdicts  BY <1>2, <1>3, CombineType
<1>5. /\ AlertNeeded(result) <=> result.decision # "approve"
      /\ EmailNeeded(result) => AlertNeeded(result)
  BY <1>2, <1>3, AlertsAgree
<1>6. result.decision = "approve" => asked[r].amount <= seen[r]
  <2>1. result.decision = "approve" => ~outcome.shouldDecline
    BY <1>2, <1>3, ApprovalMeans
  <2>2. asked[r].amount > seen[r] => outcome.shouldDecline
    BY DEF RuleOutcome
  <2>3. asked[r].amount \in Nat /\ seen[r] \in Int
    BY PayloadType DEF TypeOK
  <2> HIDE DEF result, outcome
  <2> QED BY <2>1, <2>2, <2>3
<1>7. pc[r] = "analyse" /\ pc \in [Requests -> PCs] /\ verdict \in [Requests -> Verdicts]
  BY DEF TypeOK, Analyse
<1>8. pc' = [pc EXCEPT ![r] = next] /\ verdict' = [verdict EXCEPT ![r] = result]
  BY <1>1
<1>9. next \in {"debit", "insert"}  OBVIOUS
<1> HIDE DEF next, result, outcome, score
<1>10. TypeOK'
  <2>1. pc' \in [Requests -> PCs] /\ verdict' \in [Requests -> Verdicts]
    BY <1>4, <1>7, <1>8, <1>9 DEF PCs, InTransaction
  <2>2. stamp' \in [Requests -> Nat]  BY <1>1 DEF TypeOK
  <2> QED BY <1>0, <2>1, <2>2 DEF TypeOK
<1>11. Solvent'  BY <1>0, <1>6, <1>7, <1>8 DEF Solvent, NonNegativeBalance
<1>12. VerdictsAgree'
  BY <1>0, <1>5, <1>7, <1>8 DEF VerdictsAgree, Settling, Settled
<1>13. OneWriter'  BY <1>0, <1>7, <1>8, <1>9 DEF OneWriter, Settling, Settled
<1>14. Drafts'  BY <1>0, <1>7, <1>8, <1>9 DEF Drafts, Settling, Settled
<1>15. Books'  BY <1>0 DEF Books, Recorded
<1>16. Notices'
  BY <1>0, <1>7, <1>8, <1>9 DEF Notices, NotificationsBacked, Recorded, Settled
<1>17. Honest'  BY <1>0, <1>7, <1>8, <1>9 DEF Honest, IsHonest
<1>18. Addressed'  BY <1>0 DEF Addressed, IsAddressed, HeadersAgree
<1> QED BY <1>10, <1>11, <1>12, <1>13, <1>14, <1>15, <1>16, <1>17, <1>18

\* The steps that wait for a lock or a connection and then only go on.
LEMMA WaitingSteps ==
  ASSUME IInv, NEW r \in Requests, Debit(r) \/ Refresh(r)  PROVE IInv'
<1> USE DEF IInv
<1>0. UNCHANGED <<asked, seen, verdict, draft, expires, reply, ledger, balance,
                  idem, alerts, cache, webhooks, emails, now>>
  BY DEF Debit, Refresh, locals, database, queues
<1>1. /\ pc \in [Requests -> PCs]
      /\ \/ pc[r] = "debit" /\ pc' = [pc EXCEPT ![r] = "insert"]
         \/ pc[r] = "refresh" /\ pc' = [pc EXCEPT ![r] = "notify"]
  BY DEF TypeOK, Debit, BeginInsert, Refresh, Goto
<1>2. TypeOK'
  <2>1. pc' \in [Requests -> PCs]  BY <1>1 DEF PCs, InTransaction
  <2>2. stamp' \in [Requests -> Nat]
    BY DEF TypeOK, Debit, BeginInsert, Refresh, locals
  <2> QED BY <1>0, <2>1, <2>2 DEF TypeOK
<1>3. Solvent'  BY <1>0, <1>1 DEF Solvent, NonNegativeBalance
<1>4. VerdictsAgree'  BY <1>0, <1>1 DEF VerdictsAgree, Settling, Settled
<1>5. OneWriter'  BY <1>0, <1>1 DEF OneWriter, Settling, Settled
<1>6. Drafts'  BY <1>0, <1>1 DEF Drafts, Settling, Settled
<1>7. Books'  BY <1>0 DEF Books, Recorded
<1>8. Notices'  BY <1>0, <1>1 DEF Notices, NotificationsBacked, Recorded, Settled
<1>9. Honest'  BY <1>0, <1>1 DEF Honest, IsHonest
<1>10. Addressed'  BY <1>0 DEF Addressed, IsAddressed, HeadersAgree
<1> QED BY <1>2, <1>3, <1>4, <1>5, <1>6, <1>7, <1>8, <1>9, <1>10

\* The unique index leaves the key to one request.
LEMMA InsertRowStep ==
  ASSUME IInv, NEW r \in Requests, InsertRow(r)  PROVE IInv'
<1> USE DEF IInv
<1> DEFINE row == NewRow(r)
<1>0. UNCHANGED <<asked, seen, verdict, stamp, expires, reply, ledger, balance,
                  idem, alerts, cache, webhooks, emails, now>>
  BY DEF InsertRow, database, queues
<1>1. /\ pc[r] = "insert" /\ pc \in [Requests -> PCs]
      /\ pc' = [pc EXCEPT ![r] = "record"]
      /\ draft \in [Requests -> Rows \cup {NoRow}]
      /\ draft' = [draft EXCEPT ![r] = row]
      /\ ledger[asked[r].key] = NoRow
  BY DEF TypeOK, InsertRow, KeyTaken, Goto
<1>2. /\ row \in Rows
      /\ row.key = asked[r].key
      /\ row.status = StatusOf[verdict[r].decision]
      /\ row.risk = verdict[r].risk
  <2>1. verdict[r] \in Verdicts /\ stamp[r] \in Nat  BY DEF TypeOK
  <2>2. StatusOf[verdict[r].decision] \in Statuses /\ verdict[r].risk \in RiskLevels
    BY <2>1 DEF Verdicts, StatusOf, Statuses, Decisions
  <2> QED BY <2>1, <2>2, PayloadType DEF NewRow, Rows
<1> HIDE DEF row
<1>3. \A q \in Requests : pc[q] \in Settling \cup Settled => asked[q].key # asked[r].key
  <2> SUFFICES ASSUME NEW q \in Requests, pc[q] \in Settling \cup Settled,
                      asked[q].key = asked[r].key
               PROVE  FALSE
    OBVIOUS
  <2>1. CASE pc[q] \in Settling
    BY <2>1 DEF InsertRow, KeyUnlocked, HoldsKey, Settling
  <2>2. CASE pc[q] \in Settled
    <3>1. ledger[asked[q].key] = draft[q] /\ draft[q] \in Rows
      BY <2>2 DEF Drafts
    <3> QED BY <1>1, <3>1, RowTyped
  <2> QED BY <2>1, <2>2
<1>4. TypeOK'
  <2>1. pc' \in [Requests -> PCs] /\ draft' \in [Requests -> Rows \cup {NoRow}]
    BY <1>1, <1>2 DEF PCs, InTransaction
  <2> QED BY <1>0, <2>1 DEF TypeOK
<1>5. Solvent'  BY <1>0, <1>1 DEF Solvent, NonNegativeBalance
<1>6. VerdictsAgree'  BY <1>0, <1>1 DEF VerdictsAgree, Settling, Settled
<1>7. OneWriter'  BY <1>0, <1>1, <1>3 DEF OneWriter, Settling, Settled
<1>8. Drafts'  BY <1>0, <1>1, <1>2 DEF Drafts, Settling, Settled
<1>9. Books'  BY <1>0 DEF Books, Recorded
<1>10. Notices'  BY <1>0, <1>1 DEF Notices, NotificationsBacked, Recorded, Settled
<1>11. Honest'  BY <1>0, <1>1 DEF Honest, IsHonest
<1>12. Addressed'  BY <1>0 DEF Addressed, IsAddressed, HeadersAgree
<1> QED BY <1>4, <1>5, <1>6, <1>7, <1>8, <1>9, <1>10, <1>11, <1>12

LEMMA SaveRecordStep ==
  ASSUME IInv, NEW r \in Requests, SaveRecord(r)  PROVE IInv'
<1>1. CASE idem[asked[r].key] # 0
  <2>1. Fail(r)  BY <1>1 DEF SaveRecord
  <2> QED BY <2>1, FailStep
<1>2. CASE idem[asked[r].key] = 0
  <2> USE DEF IInv
  <2>0. UNCHANGED <<asked, seen, verdict, stamp, draft, reply, ledger, balance,
                    idem, alerts, cache, webhooks, emails, now>>
    BY <1>2 DEF SaveRecord, database, queues
  <2>1. /\ pc[r] = "record" /\ pc \in [Requests -> PCs]
        /\ pc' = [pc EXCEPT ![r] = "commit"]
    BY <1>2 DEF TypeOK, SaveRecord, Goto
  <2>2. TypeOK'
    <3>1. now + Day \in Nat /\ expires \in [Requests -> Nat]
      BY ConstantsAssumption DEF TypeOK
    <3>2. expires' \in [Requests -> Nat]  BY <1>2, <3>1 DEF SaveRecord
    <3>3. pc' \in [Requests -> PCs]  BY <2>1 DEF PCs, InTransaction
    <3> QED BY <2>0, <3>2, <3>3 DEF TypeOK
  <2>3. Solvent'  BY <2>0, <2>1 DEF Solvent, NonNegativeBalance
  <2>4. VerdictsAgree'  BY <2>0, <2>1 DEF VerdictsAgree, Settling, Settled
  <2>5. OneWriter'  BY <2>0, <2>1 DEF OneWriter, Settling, Settled
  <2>6. Drafts'  BY <2>0, <2>1 DEF Drafts, Settling, Settled
  <2>7. Books'  BY <2>0 DEF Books, Recorded
  <2>8. Notices'  BY <2>0, <2>1 DEF Notices, NotificationsBacked, Recorded, Settled
  <2>9. Honest'  BY <2>0, <2>1 DEF Honest, IsHonest
  <2>10. Addressed'  BY <2>0 DEF Addressed, IsAddressed, HeadersAgree
  <2> QED BY <2>2, <2>3, <2>4, <2>5, <2>6, <2>7, <2>8, <2>9, <2>10
<1> QED BY <1>1, <1>2

\* The commit writes under a key that has no row: what other requests and the
\* cache know of the ledger stays true.
LEMMA CommitStep ==
  ASSUME IInv, NEW r \in Requests, Commit(r)  PROVE IInv'
<1> USE DEF IInv
<1> DEFINE k == asked[r].key  a == asked[r].account  row == draft[r]
<1>0. UNCHANGED <<asked, seen, verdict, stamp, draft, expires, reply, cache, webhooks, emails, now>>
  BY DEF Commit, locals, queues
<1>1. /\ k \in Keys /\ a \in Accounts /\ asked[r].amount \in Nat
      /\ seen[r] \in Int /\ expires[r] \in Nat /\ verdict[r] \in Verdicts
  BY PayloadType DEF TypeOK
<1>2. /\ pc[r] = "commit" /\ pc \in [Requests -> PCs]
      /\ pc' = [pc EXCEPT ![r] = "refresh"]
  BY DEF TypeOK, Commit, Goto
<1>3. /\ row \in Rows /\ row.key = k /\ row.status = StatusOf[verdict[r].decision]
      /\ row.risk = verdict[r].risk /\ ledger[k] = NoRow
  BY <1>2 DEF Drafts, Settling
<1>4. /\ ledger \in [Keys -> Rows \cup {NoRow}]
      /\ ledger' = [ledger EXCEPT ![k] = row]
  BY DEF TypeOK, Commit
<1>5. /\ idem \in [Keys -> Nat]
      /\ idem' = [idem EXCEPT ![k] = expires[r]]
  BY DEF TypeOK, Commit
<1>6. alerts' = IF AlertNeeded(verdict[r]) THEN alerts \cup {k} ELSE alerts
  BY DEF Commit
<1>7. balance' \in [Accounts -> Int] /\ NonNegativeBalance'
  <2>1. balance \in [Accounts -> Int] /\ NonNegativeBalance
    BY DEF TypeOK, Solvent
  <2>2. CASE verdict[r].decision = "approve"
    <3> DEFINE rest == seen[r] - asked[r].amount
    <3>1. rest \in Int /\ rest >= 0
      <4>1. asked[r].amount <= seen[r]  BY <1>2, <2>2 DEF Solvent
      <4> QED BY <1>1, <4>1
    <3>2. balance' = [balance EXCEPT ![a] = rest]  BY <2>2 DEF Commit, Debited
    <3> HIDE DEF rest
    <3>3. balance' \in [Accounts -> Int]  BY <2>1, <3>1, <3>2
    <3>4. \A b \in Accounts : balance'[b] = rest \/ balance'[b] = balance[b]
      BY <2>1, <3>2
    <3> QED BY <2>1, <3>1, <3>3, <3>4 DEF NonNegativeBalance
  <2>3. CASE verdict[r].decision # "approve"
    BY <2>1, <2>3 DEF Commit, Debited, NonNegativeBalance
  <2> QED BY <2>2, <2>3
<1>8. row # NoRow  BY <1>3, RowTyped
<1> HIDE DEF k, a, row
<1>9. \A q \in Requests : q # r /\ pc[q] \in Settling \cup Settled => asked[q].key # k
  BY <1>2 DEF OneWriter, Settling, k
<1>10. \A response : IsHonest(response) => IsHonest(response)'
  <2> SUFFICES ASSUME NEW response, IsHonest(response), response.code = 201
               PROVE  response.row \in Rows /\ ledger'[response.row.key] = response.row
    BY DEF IsHonest
  <2>1. response.row \in Rows /\ ledger[response.row.key] = response.row
    BY DEF IsHonest
  <2>2. response.row.key \in Keys /\ response.row # NoRow  BY <2>1, RowTyped
  <2>3. response.row.key # k  BY <1>3, <2>1, <2>2
  <2> QED BY <1>4, <2>1, <2>2, <2>3
<1>11. webhooks \in [Keys -> Nat] /\ emails \in [Keys -> Nat] /\ webhooks[k] = 0 /\ emails[k] = 0
  <2>1. webhooks \in [Keys -> Nat] /\ emails \in [Keys -> Nat]  BY DEF TypeOK
  <2>2. ~(webhooks[k] + emails[k] > 0)
    BY <1>1, <1>3 DEF Notices, NotificationsBacked, Recorded, k
  <2> QED BY <1>1, <2>1, <2>2 DEF k
<1>12. TypeOK'
  <2>1. pc' \in [Requests -> PCs]  BY <1>2 DEF PCs, InTransaction
  <2>2. ledger' \in [Keys -> Rows \cup {NoRow}]  BY <1>3, <1>4
  <2>3. idem' \in [Keys -> Nat]  BY <1>1, <1>5
  <2>4. alerts' \subseteq Keys  BY <1>1, <1>6 DEF TypeOK, k
  <2> QED BY <1>0, <1>7, <2>1, <2>2, <2>3, <2>4 DEF TypeOK
<1>13. Solvent'
  <2>1. \A q \in Requests :
          pc'[q] \in {"debit", "insert", "record", "commit"} => pc'[q] = pc[q]
    BY <1>2
  <2> QED BY <1>0, <1>7, <2>1 DEF Solvent
<1>14. VerdictsAgree'  BY <1>0, <1>2 DEF VerdictsAgree, Settling, Settled
<1>15. OneWriter'  BY <1>0, <1>2 DEF OneWriter, Settling, Settled
<1>16. Drafts'
  <2> SUFFICES ASSUME NEW q \in Requests
               PROVE  /\ pc'[q] \in Settling \cup Settled =>
                           /\ draft[q] \in Rows
                           /\ draft[q].key = asked[q].key
                           /\ draft[q].status = StatusOf[verdict[q].decision]
                           /\ draft[q].risk = verdict[q].risk
                      /\ pc'[q] \in Settling => ledger'[asked[q].key] = NoRow
                      /\ pc'[q] \in Settled => ledger'[asked[q].key] = draft[q]
    BY <1>0 DEF Drafts
  <2>1. CASE q = r
    BY <1>1, <1>2, <1>3, <1>4, <2>1 DEF Drafts, Settling, Settled, k, row
  <2>2. CASE q # r
    <3>1. pc'[q] = pc[q]  BY <1>2, <2>2
    <3>2. pc[q] \in Settling \cup Settled => ledger'[asked[q].key] = ledger[asked[q].key]
      BY <1>4, <1>9, <2>2, PayloadType
    <3> QED BY <3>1, <3>2 DEF Drafts
  <2> QED BY <2>1, <2>2
<1>17. Books'
  <2> SUFFICES ASSUME NEW key \in Keys
               PROVE  /\ idem'[key] # 0 => ledger'[key] # NoRow
                      /\ ledger'[key] # NoRow => ledger'[key].key = key
                      /\ key \in alerts' <=> /\ ledger'[key] # NoRow
                                             /\ ledger'[key].status \in {"flagged", "declined"}
    BY DEF Books, Recorded
  <2>1. CASE key = k
    <3>1. ledger'[key] = row  BY <1>4, <2>1
    <3>2. k \notin alerts  BY <1>1, <1>3 DEF Books, Recorded, k
    <3>3. row.status \in {"flagged", "declined"} <=> AlertNeeded(verdict[r])
      <4>1. AlertNeeded(verdict[r]) <=> verdict[r].decision # "approve"
        BY <1>2 DEF VerdictsAgree, Settling
      <4>2. StatusOf[verdict[r].decision] \in {"flagged", "declined"}
              <=> verdict[r].decision # "approve"
        BY <1>1 DEF Verdicts, Decisions, StatusOf
      <4> QED BY <1>3, <4>1, <4>2
    <3> QED BY <1>3, <1>6, <1>8, <2>1, <3>1, <3>2, <3>3
  <2>2. CASE key # k
    <3>1. ledger'[key] = ledger[key] /\ idem'[key] = idem[key]
      BY <1>4, <1>5, <2>2
    <3>2. key \in alerts' <=> key \in alerts  BY <1>6, <2>2
    <3> QED BY <3>1, <3>2 DEF Books, Recorded
  <2> QED BY <2>1, <2>2
<1>18. Notices'
  <2>1. NotificationsBacked'
    <3> SUFFICES ASSUME NEW key \in Keys
                 PROVE  /\ webhooks[key] + emails[key] > 0 => ledger'[key] # NoRow
                        /\ webhooks[key] <= 1
                        /\ emails[key] <= 1
                        /\ emails[key] > 0 => ledger'[key].risk \in {"high", "critical"}
                                               /\ key \in alerts'
      BY <1>0 DEF NotificationsBacked, Recorded
    <3>1. CASE key = k  BY <1>11, <3>1
    <3>2. CASE key # k
      <4>1. ledger'[key] = ledger[key]  BY <1>4, <3>2
      <4>2. key \in alerts => key \in alerts'  BY <1>6
      <4> QED BY <4>1, <4>2 DEF Notices, NotificationsBacked, Recorded
    <3> QED BY <3>1, <3>2
  <2>2. ASSUME NEW q \in Requests
        PROVE  /\ pc'[q] \in {"refresh", "notify"} => webhooks[asked[q].key] = 0
               /\ pc'[q] \in Settled => emails[asked[q].key] = 0
    <3>1. CASE q = r  BY <1>11, <3>1 DEF k
    <3>2. CASE q # r  BY <1>2, <3>2 DEF Notices
    <3> QED BY <3>1, <3>2
  <2> QED BY <1>0, <2>1, <2>2 DEF Notices
<1>19. Honest'
  <2>1. \A q \in Requests : /\ pc'[q] \in {"gateway", "cache"} => asked[q].hdr # NoKey
                            /\ pc'[q] = "cache" => reply[q].code = 201
    BY <1>2 DEF Honest
  <2>2. \A q \in Requests : IsHonest(reply[q])'
    BY <1>0, <1>10 DEF Honest, IsHonest
  <2>3. \A key \in Keys : cache[key] # NoEntry =>
          cache[key].body.code = 201 /\ IsHonest(cache[key].body)'
    BY <1>0, <1>10 DEF Honest, IsHonest
  <2> QED BY <1>0, <2>1, <2>2, <2>3 DEF Honest
<1>20. Addressed'  BY <1>0 DEF Addressed, IsAddressed, HeadersAgree
<1> QED BY <1>12, <1>13, <1>14, <1>15, <1>16, <1>17, <1>18, <1>19, <1>20

LEMMA NotifyStep ==
  ASSUME IInv, NEW r \in Requests, Notify(r)  PROVE IInv'
<1> USE DEF IInv
<1> DEFINE k == asked[r].key
<1>0. UNCHANGED <<asked, seen, verdict, stamp, draft, expires, reply, ledger, balance,
                  idem, alerts, cache, emails, now>>
  BY DEF Notify, locals, database
<1>1. /\ pc[r] = "notify" /\ pc \in [Requests -> PCs]
      /\ pc' = [pc EXCEPT ![r] = "email"]
  BY DEF TypeOK, Notify, Goto
<1>2. /\ webhooks \in [Keys -> Nat] /\ emails \in [Keys -> Nat] /\ k \in Keys
      /\ webhooks[k] = 0
  BY <1>1, PayloadType DEF TypeOK, Notices
<1>3. webhooks' = webhooks \/ webhooks' = [webhooks EXCEPT ![k] = 1]
  BY <1>2 DEF Notify
<1>4. Recorded(k)
  <2>1. ledger[k] = draft[r] /\ draft[r] \in Rows  BY <1>1 DEF Drafts, Settled
  <2> QED BY <2>1, RowTyped DEF Recorded
<1>5. \A q \in Requests : q # r /\ pc[q] \in Settling \cup Settled => asked[q].key # k
  BY <1>1 DEF OneWriter, Settled
<1> HIDE DEF k
<1>6. TypeOK'
  <2>1. pc' \in [Requests -> PCs]  BY <1>1 DEF PCs, InTransaction
  <2>2. webhooks' \in [Keys -> Nat]  BY <1>2, <1>3
  <2> QED BY <1>0, <2>1, <2>2 DEF TypeOK
<1>7. Solvent'  BY <1>0, <1>1 DEF Solvent, NonNegativeBalance
<1>8. VerdictsAgree'  BY <1>0, <1>1 DEF VerdictsAgree, Settling, Settled
<1>9. OneWriter'  BY <1>0, <1>1 DEF OneWriter, Settling, Settled
<1>10. Drafts'  BY <1>0, <1>1 DEF Drafts, Settling, Settled
<1>11. Books'  BY <1>0 DEF Books, Recorded
<1>12. Notices'
  <2>1. NotificationsBacked'
    <3> SUFFICES ASSUME NEW key \in Keys
                 PROVE  /\ webhooks'[key] + emails[key] > 0 => Recorded(key)
                        /\ webhooks'[key] <= 1
                        /\ emails[key] <= 1
                        /\ emails[key] > 0 => ledger[key].risk \in {"high", "critical"}
                                               /\ key \in alerts
      BY <1>0 DEF NotificationsBacked, Recorded
    <3>1. webhooks[key] + emails[key] > 0 => Recorded(key)
      BY DEF Notices, NotificationsBacked
    <3>2. /\ webhooks[key] <= 1 /\ emails[key] <= 1
          /\ emails[key] > 0 => ledger[key].risk \in {"high", "critical"} /\ key \in alerts
      BY DEF Notices, NotificationsBacked
    <3>3. CASE key = k
      <4>1. webhooks'[key] \in {0, 1}  BY <1>2, <1>3, <3>3
      <4> QED BY <1>4, <3>2, <3>3, <4>1
    <3>4. CASE key # k
      <4>1. webhooks'[key] = webhooks[key]  BY <1>2, <1>3, <3>4
      <4> QED BY <3>1, <3>2, <4>1
    <3> QED BY <3>3, <3>4
  <2>2. ASSUME NEW q \in Requests
        PROVE  /\ pc'[q] \in {"refresh", "notify"} => webhooks'[asked[q].key] = 0
               /\ pc'[q] \in Settled => emails[asked[q].key] = 0
    <3>1. CASE q = r  BY <1>1, <3>1 DEF Notices, Settled
    <3>2. CASE q # r
      <4>1. pc'[q] = pc[q]  BY <1>1, <3>2
      <4>2. pc[q] \in {"refresh", "notify"} => webhooks'[asked[q].key] = webhooks[asked[q].key]
        BY <1>2, <1>3, <1>5, <3>2, PayloadType DEF Settled
      <4> QED BY <4>1, <4>2 DEF Notices
    <3> QED BY <3>1, <3>2
  <2> QED BY <1>0, <2>1, <2>2 DEF Notices
<1>13. Honest'  BY <1>0, <1>1 DEF Honest, IsHonest
<1>14. Addressed'  BY <1>0 DEF Addressed, IsAddressed, HeadersAgree
<1> QED BY <1>6, <1>7, <1>8, <1>9, <1>10, <1>11, <1>12, <1>13, <1>14

\* The e-mail, if any, is of an alerted transaction, and the response is its row or
\* a failure.
LEMMA EmailStep ==
  ASSUME IInv, NEW r \in Requests, Email(r)  PROVE IInv'
<1> USE DEF IInv
<1> DEFINE k == asked[r].key  row == draft[r]
<1>0. UNCHANGED <<asked, seen, verdict, stamp, draft, expires, ledger, balance,
                  idem, alerts, cache, webhooks, now>>
  BY DEF Email, locals, database
<1>19. PICK response \in {Created(row), Refused(500)} : Respond(r, response)
  BY DEF Email, Closings
<1> DEFINE w == IF response.code = 201 /\ asked[r].hdr # NoKey THEN "cache" ELSE "done"
<1>1. /\ pc[r] = "email" /\ pc \in [Requests -> PCs]
      /\ pc' = [pc EXCEPT ![r] = w]
      /\ reply \in [Requests -> Replies]
      /\ reply' = [reply EXCEPT ![r] = response]
  BY <1>19 DEF TypeOK, Email, Respond, Goto
<1>2. /\ webhooks \in [Keys -> Nat] /\ emails \in [Keys -> Nat] /\ k \in Keys
      /\ emails[k] = 0
  BY <1>1, PayloadType DEF TypeOK, Notices, Settled
<1>3. \/ emails' = emails
      \/ EmailNeeded(verdict[r]) /\ emails' = [emails EXCEPT ![k] = 1]
  BY <1>2 DEF Email
<1>4. /\ row \in Rows /\ row.key = k /\ row.status = StatusOf[verdict[r].decision]
      /\ row.risk = verdict[r].risk /\ ledger[k] = row
  BY <1>1 DEF Drafts, Settled
<1>5. Recorded(k)  BY <1>4, RowTyped DEF Recorded
<1>6. EmailNeeded(verdict[r]) => k \in alerts /\ row.risk \in {"high", "critical"}
  <2> SUFFICES ASSUME EmailNeeded(verdict[r])
               PROVE  k \in alerts /\ row.risk \in {"high", "critical"}
    OBVIOUS
  <2>1. verdict[r].decision # "approve" /\ verdict[r] \in Verdicts
    BY <1>1 DEF VerdictsAgree, Settled, TypeOK
  <2>2. row.status \in {"flagged", "declined"}
    BY <1>4, <2>1 DEF StatusOf, Verdicts, Decisions
  <2>3. k \in alerts  BY <1>2, <1>4, <1>5, <2>2 DEF Books
  <2> QED BY <1>4, <2>3 DEF EmailNeeded
<1>7. \A q \in Requests : q # r /\ pc[q] \in Settling \cup Settled => asked[q].key # k
  BY <1>1 DEF OneWriter, Settled
<1>8. response \in Replies /\ (response.code = 201 => response.row = row)
  BY <1>4 DEF Created, Refused, Replies
<1>9. w \in {"cache", "done"} /\ (w = "cache" => asked[r].hdr # NoKey /\ response.code = 201)
  OBVIOUS
<1> HIDE DEF k, row, w
<1>10. TypeOK'
  <2>1. pc' \in [Requests -> PCs]  BY <1>1, <1>9 DEF PCs, InTransaction
  <2>2. reply' \in [Requests -> Replies]  BY <1>1, <1>8
  <2>3. emails' \in [Keys -> Nat]  BY <1>2, <1>3
  <2> QED BY <1>0, <2>1, <2>2, <2>3 DEF TypeOK
<1>11. Solvent'  BY <1>0, <1>1, <1>9 DEF Solvent, NonNegativeBalance
<1>12. VerdictsAgree'  BY <1>0, <1>1, <1>9 DEF VerdictsAgree, Settling, Settled
<1>13. OneWriter'  BY <1>0, <1>1, <1>9 DEF OneWriter, Settling, Settled
<1>14. Drafts'  BY <1>0, <1>1, <1>9 DEF Drafts, Settling, Settled
<1>15. Books'  BY <1>0 DEF Books, Recorded
<1>16. Notices'
  <2>1. NotificationsBacked'
    <3> SUFFICES ASSUME NEW key \in Keys
                 PROVE  /\ webhooks[key] + emails'[key] > 0 => Recorded(key)
                        /\ webhooks[key] <= 1
                        /\ emails'[key] <= 1
                        /\ emails'[key] > 0 => ledger[key].risk \in {"high", "critical"}
                                               /\ key \in alerts
      BY <1>0 DEF NotificationsBacked, Recorded
    <3>1. webhooks[key] + emails[key] > 0 => Recorded(key)
      BY DEF Notices, NotificationsBacked
    <3>2. /\ webhooks[key] <= 1 /\ emails[key] <= 1
          /\ emails[key] > 0 => ledger[key].risk \in {"high", "critical"} /\ key \in alerts
      BY DEF Notices, NotificationsBacked
    <3>3. CASE emails'[key] = emails[key]  BY <3>1, <3>2, <3>3
    <3>4. CASE emails'[key] # emails[key]
      <4>1. key = k /\ EmailNeeded(verdict[r]) /\ emails'[key] = 1
        BY <1>2, <1>3, <3>4
      <4> QED BY <1>4, <1>5, <1>6, <3>2, <4>1
    <3> QED BY <3>3, <3>4
  <2>2. ASSUME NEW q \in Requests
        PROVE  /\ pc'[q] \in {"refresh", "notify"} => webhooks[asked[q].key] = 0
               /\ pc'[q] \in Settled => emails'[asked[q].key] = 0
    <3>1. CASE q = r  BY <1>1, <1>9, <3>1 DEF Settled
    <3>2. CASE q # r
      <4>1. pc'[q] = pc[q]  BY <1>1, <3>2
      <4>2. pc[q] \in Settled => emails'[asked[q].key] = emails[asked[q].key]
        BY <1>2, <1>3, <1>7, <3>2, PayloadType
      <4> QED BY <4>1, <4>2 DEF Notices
    <3> QED BY <3>1, <3>2
  <2> QED BY <1>0, <2>1, <2>2 DEF Notices
<1>17. Honest'
  <2>1. IsHonest(response)  BY <1>4, <1>8 DEF IsHonest
  <2>2. \A q \in Requests : IsHonest(reply'[q])
    BY <1>1, <2>1 DEF Honest
  <2>3. \A q \in Requests : /\ pc'[q] \in {"gateway", "cache"} => asked[q].hdr # NoKey
                            /\ pc'[q] = "cache" => reply'[q].code = 201
    BY <1>1, <1>8, <1>9 DEF Honest
  <2> QED BY <1>0, <2>2, <2>3 DEF Honest, IsHonest
<1>18. Addressed'
  <2>1. IsAddressed(response, k)  BY <1>4, <1>8 DEF IsAddressed
  <2> QED BY <1>0, <1>1, <2>1 DEF Addressed, IsAddressed, HeadersAgree, k
<1> QED BY <1>10, <1>11, <1>12, <1>13, <1>14, <1>15, <1>16, <1>17, <1>18

\* What the middleware keeps is what it is about to send.
LEMMA CacheResponseStep ==
  ASSUME IInv, NEW r \in Requests, CacheResponse(r)  PROVE IInv'
<1> USE DEF IInv
<1> DEFINE h == asked[r].hdr  entry == [body |-> reply[r], until |-> now + Day]
<1>0. UNCHANGED <<asked, seen, verdict, stamp, draft, expires, reply, ledger, balance,
                  idem, alerts, webhooks, emails, now>>
  BY DEF CacheResponse, locals, database, queues
<1>1. /\ pc[r] = "cache" /\ pc \in [Requests -> PCs]
      /\ pc' = [pc EXCEPT ![r] = "done"]
      /\ cache \in [Keys -> [body : Replies, until : Nat]]
      /\ cache' = [cache EXCEPT ![h] = entry]
  BY DEF TypeOK, CacheResponse, Goto
<1>2. h \in Keys  BY <1>1, PayloadType DEF Honest
<1>3. entry \in [body : Replies, until : Nat] /\ entry.body = reply[r]
  <2>1. reply[r] \in Replies /\ now + Day \in Nat
    BY ConstantsAssumption DEF TypeOK
  <2> QED BY <2>1
<1>4. reply[r].code = 201 /\ IsHonest(reply[r])  BY <1>1 DEF Honest
<1> HIDE DEF entry
<1>5. TypeOK'
  <2>1. pc' \in [Requests -> PCs]  BY <1>1 DEF PCs, InTransaction
  <2>2. cache' \in [Keys -> [body : Replies, until : Nat]]  BY <1>1, <1>3
  <2> QED BY <1>0, <2>1, <2>2 DEF TypeOK
<1>6. Solvent'  BY <1>0, <1>1 DEF Solvent, NonNegativeBalance
<1>7. VerdictsAgree'  BY <1>0, <1>1 DEF VerdictsAgree, Settling, Settled
<1>8. OneWriter'  BY <1>0, <1>1 DEF OneWriter, Settling, Settled
<1>9. Drafts'  BY <1>0, <1>1 DEF Drafts, Settling, Settled
<1>10. Books'  BY <1>0 DEF Books, Recorded
<1>11. Notices'  BY <1>0, <1>1 DEF Notices, NotificationsBacked, Recorded, Settled
<1>12. Honest'
  <2>1. \A q \in Requests : /\ IsHonest(reply[q])
                            /\ pc'[q] \in {"gateway", "cache"} => asked[q].hdr # NoKey
                            /\ pc'[q] = "cache" => reply[q].code = 201
    BY <1>1 DEF Honest
  <2>2. \A k \in Keys : cache'[k] # NoEntry =>
          cache'[k].body.code = 201 /\ IsHonest(cache'[k].body)
    BY <1>1, <1>3, <1>4 DEF Honest
  <2> QED BY <1>0, <2>1, <2>2 DEF Honest, IsHonest
<1>13. Addressed'
  <2> SUFFICES ASSUME HeadersAgree
               PROVE  /\ \A q \in Requests : IsAddressed(reply[q], asked[q].key)
                      /\ \A k \in Keys : cache'[k] # NoEntry => IsAddressed(cache'[k].body, k)
    BY <1>0 DEF Addressed, IsAddressed, HeadersAgree
  <2>1. h = asked[r].key  BY <1>2, ConstantsAssumption DEF HeadersAgree
  <2>2. IsAddressed(reply[r], h)  BY <2>1 DEF Addressed
  <2> QED BY <1>1, <1>3, <2>2 DEF Addressed
<1> QED BY <1>5, <1>6, <1>7, <1>8, <1>9, <1>10, <1>11, <1>12, <1>13

LEMMA EnvironmentSteps ==
  ASSUME IInv, Tick \/ Cleanup \/ CacheLoss  PROVE IInv'
<1> USE DEF IInv
<1>0. UNCHANGED <<pc, asked, seen, verdict, stamp, draft, expires, reply, ledger, balance,
                  alerts, webhooks, emails>>
  BY DEF Tick, Cleanup, CacheLoss, locals, database, queues
<1>1. /\ idem' \in [Keys -> Nat]
      /\ \A k \in Keys : idem'[k] # 0 => idem[k] # 0
  <2>1. idem \in [Keys -> Nat] /\ now \in Nat  BY DEF TypeOK
  <2>2. idem' = idem \/ idem' = [k \in Keys |-> IF idem[k] < now THEN 0 ELSE idem[k]]
    BY DEF Tick, Cleanup, CacheLoss, database
  <2> QED BY <2>1, <2>2
<1>2. cache' = cache \/ cache' = [k \in Keys |-> NoEntry]
  BY DEF Tick, Cleanup, CacheLoss
<1>3. TypeOK'
  <2>1. now' \in Nat  BY DEF TypeOK, Tick, Cleanup, CacheLoss
  <2>2. cache' \in [Keys -> [body : Replies, until : Nat]]
    BY <1>2 DEF TypeOK, NoEntry, NoReply, Replies
  <2> QED BY <1>0, <1>1, <2>1, <2>2 DEF TypeOK
<1>4. Solvent'  BY <1>0 DEF Solvent, NonNegativeBalance
<1>5. VerdictsAgree'  BY <1>0 DEF VerdictsAgree
<1>6. OneWriter'  BY <1>0 DEF OneWriter
<1>7. Drafts'  BY <1>0 DEF Drafts
<1>8. Books'  BY <1>0, <1>1 DEF Books, Recorded
<1>9. Notices'  BY <1>0 DEF Notices, NotificationsBacked, Recorded
<1>10. Honest'  BY <1>0, <1>2 DEF Honest, IsHonest
<1>11. Addressed'  BY <1>0, <1>2 DEF Addressed, IsAddressed, HeadersAgree
<1> QED BY <1>3, <1>4, <1>5, <1>6, <1>7, <1>8, <1>9, <1>10, <1>11

LEMMA StutteringStep == ASSUME IInv, UNCHANGED vars  PROVE IInv'
<1>0. UNCHANGED <<pc, asked, seen, verdict, stamp, draft, expires, reply, ledger, balance,
                  idem, alerts, cache, webhooks, emails, now>>
  BY DEF vars, locals, database, queues
<1> QED
  BY <1>0 DEF IInv, TypeOK, Solvent, NonNegativeBalance, VerdictsAgree, OneWriter,
              Drafts, Books, Recorded, Notices, NotificationsBacked, Honest,
              IsHonest, Addressed, IsAddressed, HeadersAgree

LEMMA NextInv == IInv /\ [Next]_vars => IInv'
<1> SUFFICES ASSUME IInv, [Next]_vars PROVE IInv'  OBVIOUS
<1>1. ASSUME NEW r \in Requests, Submit(r) PROVE IInv'  BY <1>1, MovingSteps
<1>2. ASSUME NEW r \in Requests, Handle(r) PROVE IInv'
  <2>1. CASE GatewayHit(r)  BY <2>1, GatewayHitStep
  <2>2. CASE GatewayMiss(r) \/ Authenticate(r) \/ GuardMiss(r)  BY <2>2, MovingSteps
  <2>3. CASE Unauthorized(r) \/ PoolTimeout(r) \/ AccountNotFound(r) \/ UniqueViolation(r)
    BY <2>3, FailingSteps
  <2>4. CASE GuardHit(r)  BY <2>4, GuardHitStep
  <2>5. CASE ReadAccount(r)  BY <2>5, ReadAccountStep
  <2>6. CASE Analyse(r)  BY <2>6, AnalyseStep
  <2>7. CASE Debit(r) \/ Refresh(r)  BY <2>7, WaitingSteps
  <2>8. CASE InsertRow(r)  BY <2>8, InsertRowStep
  <2>9. CASE SaveRecord(r)  BY <2>9, SaveRecordStep
  <2>10. CASE Commit(r)  BY <2>10, CommitStep
  <2>11. CASE Notify(r)  BY <2>11, NotifyStep
  <2>12. CASE Email(r)  BY <2>12, EmailStep
  <2>13. CASE CacheResponse(r)  BY <2>13, CacheResponseStep
  <2> QED
    BY <1>2, <2>1, <2>2, <2>3, <2>4, <2>5, <2>6, <2>7, <2>8, <2>9, <2>10, <2>11,
       <2>12, <2>13 DEF Handle
<1>3. ASSUME NEW r \in Requests, Disturb(r) PROVE IInv'
  <2>1. CASE Crash(r)  BY <2>1, MovingSteps
  <2>2. CASE GatewayError(r) \/ BrokerError(r) \/ DatabaseError(r) \/ CacheError(r)
    BY <2>2, FailingSteps
  <2> QED BY <1>3, <2>1, <2>2 DEF Disturb
<1>4. CASE Tick \/ Cleanup \/ CacheLoss  BY <1>4, EnvironmentSteps
<1>5. CASE Finished \/ UNCHANGED vars
  <2>1. UNCHANGED vars  BY <1>5 DEF Finished
  <2> QED BY <2>1, StutteringStep
<1> QED BY <1>1, <1>2, <1>3, <1>4, <1>5 DEF Next

LEMMA Inductive == Spec => []IInv
BY InitInv, NextInv, PTL DEF Spec

\* Every other step leaves the ledger, the balances and the alerts alone.
LEMMA OnlyCommitWrites ==
  ASSUME Next, ~\E r \in Requests : Commit(r)
  PROVE  UNCHANGED <<ledger, balance, alerts>>
<1> USE DEF database
<1>1. ASSUME NEW r \in Requests, Submit(r)  PROVE UNCHANGED <<ledger, balance, alerts>>
  BY <1>1 DEF Submit
<1>2. ASSUME NEW r \in Requests, Handle(r)  PROVE UNCHANGED <<ledger, balance, alerts>>
  <2>1. CASE GatewayHit(r) \/ GatewayMiss(r) \/ Authenticate(r) \/ Unauthorized(r)
    BY <2>1 DEF GatewayHit, GatewayMiss, Authenticate, Unauthorized
  <2>2. CASE GuardHit(r) \/ GuardMiss(r) \/ ReadAccount(r) \/ AccountNotFound(r)
    BY <2>2 DEF GuardHit, GuardMiss, ReadAccount, AccountNotFound
  <2>3. CASE Analyse(r) \/ Debit(r) \/ InsertRow(r) \/ SaveRecord(r)
    BY <2>3 DEF Analyse, Debit, InsertRow, SaveRecord, Fail
  <2>4. CASE PoolTimeout(r) \/ UniqueViolation(r)
    BY <2>4 DEF PoolTimeout, UniqueViolation, Fail
  <2>5. CASE Refresh(r) \/ Notify(r) \/ Email(r) \/ CacheResponse(r)
    BY <2>5 DEF Refresh, Notify, Email, CacheResponse
  <2> QED BY <1>2, <2>1, <2>2, <2>3, <2>4, <2>5 DEF Handle
<1>3. ASSUME NEW r \in Requests, Disturb(r)  PROVE UNCHANGED <<ledger, balance, alerts>>
  BY <1>3 DEF Disturb, GatewayError, BrokerError, DatabaseError, CacheError, Crash, Fail
<1>4. CASE Tick \/ Cleanup \/ CacheLoss  BY <1>4 DEF Tick, Cleanup, CacheLoss
<1>5. CASE Finished  BY <1>5 DEF Finished, vars
<1> QED BY <1>1, <1>2, <1>3, <1>4, <1>5 DEF Next

------------------------------------------------------------------------------
(* The theorems.                                                           *)

\* Every variable of the pipeline keeps its type.
THEOREM TypeCorrect == Spec => []TypeOK
<1>1. IInv => TypeOK  BY DEF IInv
<1> QED BY <1>1, Inductive, PTL

\* However many requests debit an account concurrently from balances they read
\* earlier, no balance falls below zero.
THEOREM BalancesStayNonNegative == Spec => []NonNegativeBalance
<1>1. IInv => NonNegativeBalance  BY DEF IInv, Solvent
<1> QED BY <1>1, Inductive, PTL

\* An idempotency record stands for a committed transaction, and inserting one
\* never collides with the unique key of idempotency_records.
THEOREM RecordsAreBacked == Spec => []RecordBacksLedger
<1>1. IInv => RecordBacksLedger
  <2> SUFFICES ASSUME IInv PROVE RecordBacksLedger  OBVIOUS
  <2>1. \A k \in Keys : idem[k] # 0 => Recorded(k)  BY DEF IInv, Books
  <2>2. ASSUME NEW r \in Requests, pc[r] = "record"  PROVE idem[asked[r].key] = 0
    <3>1. asked[r].key \in Keys  BY PayloadType DEF IInv
    <3>2. ~Recorded(asked[r].key)  BY <2>2 DEF IInv, Drafts, Settling, Recorded
    <3> QED BY <2>1, <3>1, <3>2
  <2> QED BY <2>1, <2>2 DEF RecordBacksLedger
<1> QED BY <1>1, Inductive, PTL

\* At most one webhook and one e-mail message is published for a transaction, only
\* after its commit, the e-mail only for an alerted transaction of high risk.  (What
\* a merchant or the fraud team receives of it is TaskQueueProofs.)
THEOREM NotificationsAreBacked == Spec => []NotificationsBacked
<1>1. IInv => NotificationsBacked  BY DEF IInv, Notices
<1> QED BY <1>1, Inductive, PTL

\* The fraud alerts are those of the transactions that were not approved.
THEOREM AlertsFollowLedger == Spec => []AlertsMatchLedger
<1>1. IInv => AlertsMatchLedger  BY DEF IInv, Books, AlertsMatchLedger
<1> QED BY <1>1, Inductive, PTL

\* No client is told of a transaction that was not committed.
THEOREM RepliesAreTrue == Spec => []RepliesAreCommitted
<1>1. IInv => RepliesAreCommitted
  <2> SUFFICES ASSUME IInv, NEW r \in Requests, reply[r].code = 201
               PROVE  reply[r].row # NoRow /\ reply[r].row = ledger[reply[r].row.key]
    BY DEF RepliesAreCommitted
  <2>1. reply[r].row \in Rows /\ ledger[reply[r].row.key] = reply[r].row
    BY DEF IInv, Honest, IsHonest
  <2> QED BY <2>1, RowTyped
<1> QED BY <1>1, Inductive, PTL

\* A row stays: a commit writes under another key.
LEMMA LedgerKept ==
  ASSUME IInv, [Next]_vars, NEW k \in Keys, Recorded(k)
  PROVE  ledger'[k] = ledger[k]
<1>1. CASE \E r \in Requests : Commit(r)
  <2>1. PICK r \in Requests : Commit(r)  BY <1>1
  <2>2. ledger[asked[r].key] = NoRow  BY <2>1 DEF Commit, IInv, Drafts, Settling
  <2>3. k # asked[r].key  BY <2>2 DEF Recorded
  <2> QED BY <2>1, <2>3 DEF Commit, IInv, TypeOK
<1>2. CASE Next /\ ~\E r \in Requests : Commit(r)
  BY <1>2, OnlyCommitWrites
<1>3. CASE UNCHANGED vars  BY <1>3 DEF vars, database
<1> QED BY <1>1, <1>2, <1>3

\* A committed row is never changed, replaced or removed.
THEOREM LedgerIsAppendOnly == Spec => LedgerAppendOnly
<1>1. IInv /\ [Next]_vars => [\A k \in Keys : Recorded(k) => ledger'[k] = ledger[k]]_vars
  BY LedgerKept
<1> QED BY <1>1, Inductive, PTL DEF Spec, LedgerAppendOnly

------------------------------------------------------------------------------
(* What the clients whose header repeats the body's key can rely on.       *)

\* A step moves one request that has no response yet, or none.
Moves(r) ==
  /\ pc[r] # "done"
  /\ \A q \in Requests \ {r} : pc'[q] = pc[q] /\ reply'[q] = reply[q]

\* Whoever acts moves itself only, and has no response yet.
LEMMA Acting ==
  ASSUME IInv, NEW r \in Requests, Submit(r) \/ Handle(r) \/ Disturb(r)
  PROVE  UNCHANGED asked /\ Moves(r)
<1> USE DEF Goto, Respond, Moves, locals
<1>0. pc \in [Requests -> PCs] /\ reply \in [Requests -> Replies]  BY DEF IInv, TypeOK
<1>1. CASE Submit(r)
  BY <1>0, <1>1 DEF Submit
<1>2. CASE Handle(r)
  <2>1. CASE GatewayHit(r)  BY <1>0, <2>1 DEF GatewayHit
  <2>2. CASE GatewayMiss(r) \/ Authenticate(r) \/ GuardMiss(r)
    BY <1>0, <2>2 DEF GatewayMiss, Authenticate, GuardMiss
  <2>3. CASE Unauthorized(r) \/ GuardHit(r) \/ AccountNotFound(r)
    BY <1>0, <2>3 DEF Unauthorized, GuardHit, AccountNotFound
  <2>4. CASE PoolTimeout(r) \/ UniqueViolation(r)
    BY <1>0, <2>4 DEF PoolTimeout, UniqueViolation, Fail
  <2>5. CASE ReadAccount(r) \/ Debit(r) \/ InsertRow(r)
    BY <1>0, <2>5 DEF ReadAccount, Debit, BeginInsert, InsertRow
  <2>6. CASE Analyse(r)
    <3>1. UNCHANGED <<asked, reply>> /\ pc[r] = "analyse"  BY <2>6 DEF Analyse
    <3>2. \E w : pc' = [pc EXCEPT ![r] = w]  BY <2>6 DEF Analyse, BeginInsert
    <3> QED BY <1>0, <3>1, <3>2
  <2>7. CASE SaveRecord(r)  BY <1>0, <2>7 DEF SaveRecord, Fail
  <2>8. CASE Commit(r) \/ Refresh(r) \/ Notify(r) \/ CacheResponse(r)
    BY <1>0, <2>8 DEF Commit, Refresh, Notify, CacheResponse
  <2>9. CASE Email(r)  BY <1>0, <2>9 DEF Email
  <2> QED BY <1>2, <2>1, <2>2, <2>3, <2>4, <2>5, <2>6, <2>7, <2>8, <2>9 DEF Handle
<1>3. CASE Disturb(r)
  <2>1. CASE Crash(r)  BY <1>0, <2>1 DEF Crash, Active
  <2>2. CASE GatewayError(r) \/ BrokerError(r) \/ DatabaseError(r) \/ CacheError(r)
    <3>1. pc[r] # "done"
      BY <2>2 DEF GatewayError, BrokerError, DatabaseError, CacheError, InTransaction
    <3>2. Fail(r)  BY <2>2 DEF GatewayError, BrokerError, DatabaseError, CacheError
    <3> QED BY <1>0, <3>1, <3>2 DEF Fail
  <2> QED BY <1>3, <2>1, <2>2 DEF Disturb
<1> QED BY <1>1, <1>2, <1>3

LEMMA OneMoves ==
  ASSUME IInv, Next
  PROVE  /\ UNCHANGED asked
         /\ UNCHANGED <<pc, reply>> \/ \E r \in Requests : Moves(r)
<1>1. CASE \E r \in Requests : Submit(r) \/ Handle(r) \/ Disturb(r)
  BY <1>1, Acting
<1>2. CASE Tick \/ Cleanup \/ CacheLoss  BY <1>2 DEF Tick, Cleanup, CacheLoss, locals
<1>3. CASE Finished  BY <1>3 DEF Finished, vars, locals
<1> QED BY <1>1, <1>2, <1>3 DEF Next

LEMMA HeadersStay == IInv /\ HeadersAgree /\ [Next]_vars => HeadersAgree'
<1> SUFFICES ASSUME IInv, HeadersAgree, [Next]_vars PROVE HeadersAgree'  OBVIOUS
<1>1. UNCHANGED asked
  <2>1. CASE Next  BY <2>1, OneMoves
  <2>2. CASE UNCHANGED vars  BY <2>2 DEF vars, locals
  <2> QED BY <2>1, <2>2
<1> QED BY <1>1 DEF HeadersAgree

LEMMA Truthful == IInv /\ HeadersAgree => RepliesMatchLedger
<1> SUFFICES ASSUME IInv, HeadersAgree PROVE RepliesMatchLedger  OBVIOUS
<1>1. ASSUME NEW r \in Requests, reply[r].code = 201
      PROVE  reply[r].row = ledger[asked[r].key]
  BY <1>1 DEF IInv, Honest, IsHonest, Addressed, IsAddressed
<1>2. ASSUME NEW k \in Keys, cache[k] # NoEntry
      PROVE  cache[k].body = Created(ledger[k])
  <2> DEFINE body == cache[k].body
  <2>1. body.code = 201 /\ body.row = ledger[k]
    BY <1>2 DEF IInv, Honest, IsHonest, Addressed, IsAddressed
  <2>2. body \in Replies  BY DEF IInv, TypeOK
  <2>3. body = [code |-> 201, row |-> body.row]
    BY <2>1, <2>2 DEF Replies
  <2> QED BY <2>1, <2>3 DEF Created
<1> QED BY <1>1, <1>2 DEF RepliesMatchLedger

\* If every client repeats its key in the header, what it is told, now or from
\* Redis, is the committed row of that key, whoever the row's user is.
THEOREM RepliesFollowLedger == Spec /\ HeadersAgree => []RepliesMatchLedger
<1>1. IInv /\ HeadersAgree /\ [Next]_vars => HeadersAgree'  BY HeadersStay
<1>2. IInv /\ HeadersAgree => RepliesMatchLedger  BY Truthful
<1> QED BY <1>1, <1>2, Inductive, PTL DEF Spec

LEMMA PromiseInit == Init => Promise!Init
BY PayloadType, InitInv DEF Init, IInv, Promise!Init

LEMMA PromiseStep ==
  ASSUME IInv, RepliesMatchLedger', [Next]_vars
  PROVE  [Promise!Next]_(Promise!vars)
<1> DEFINE asks == [r \in Requests |-> asked[r].key]
           told == [r \in Requests |->
                     IF pc[r] = "done" /\ reply[r].code = 201 THEN reply[r].row ELSE NoRow]
<1>1. CASE UNCHANGED vars
  BY <1>1 DEF vars, locals, database, Promise!vars
<1>2. CASE Next
  <2>0. UNCHANGED asked  BY <1>2, OneMoves
  <2>1. UNCHANGED asks  BY <2>0
  <2>2. CASE \E r \in Requests : Commit(r)
    <3>1. PICK r \in Requests : Commit(r)  BY <2>2
    <3>2. UNCHANGED told
      <4>1. pc[r] = "commit" /\ pc' = [pc EXCEPT ![r] = "refresh"] /\ reply' = reply
        BY <3>1 DEF Commit, Goto
      <4>2. pc \in [Requests -> PCs]  BY DEF IInv, TypeOK
      <4>3. \A q \in Requests : (pc'[q] = "done") <=> (pc[q] = "done")
        BY <4>1, <4>2
      <4> QED BY <4>1, <4>3
    <3>3. /\ asked[r].key \in Keys /\ ledger \in [Keys -> Rows \cup {NoRow}]
          /\ draft[r] \in Rows /\ ledger[asked[r].key] = NoRow
          /\ ledger' = [ledger EXCEPT ![asked[r].key] = draft[r]]
      BY <3>1, PayloadType DEF Commit, IInv, TypeOK, Drafts, Settling
    <3>4. Promise!Record(asked[r].key)
      BY <2>1, <3>2, <3>3 DEF Promise!Record
    <3> QED BY <3>3, <3>4 DEF Promise!Next
  <2>3. CASE ~\E r \in Requests : Commit(r)
    <3>1. UNCHANGED ledger  BY <1>2, <2>3, OnlyCommitWrites
    <3>2. CASE UNCHANGED <<pc, reply>>
      BY <2>1, <3>1, <3>2 DEF Promise!vars
    <3>3. CASE \E r \in Requests : Moves(r)
      <4>1. PICK r \in Requests : Moves(r)  BY <3>3
      <4>2. told[r] = NoRow  BY <4>1 DEF Moves
      <4>3. \A q \in Requests \ {r} : told'[q] = told[q]  BY <4>1 DEF Moves
      <4>4. told'[r] \in {NoRow, ledger[asked[r].key]}
        BY <2>0, <3>1 DEF RepliesMatchLedger
      <4>5. CASE told'[r] = NoRow
        <5>1. UNCHANGED told  BY <4>2, <4>3, <4>5
        <5> QED BY <2>1, <3>1, <5>1 DEF Promise!vars
      <4>6. CASE told'[r] # NoRow
        <5>1. told'[r] = ledger[asks[r]]  BY <4>4, <4>6
        <5>2. told' = [told EXCEPT ![r] = ledger[asks[r]]]
          <6>1. told' = [q \in Requests |-> told'[q]]  OBVIOUS
          <6>2. [told EXCEPT ![r] = ledger[asks[r]]]
                  = [q \in Requests |-> IF q = r THEN ledger[asks[r]] ELSE told[q]]
            OBVIOUS
          <6> HIDE DEF told, asks
          <6> QED BY <4>3, <5>1, <6>1, <6>2
        <5>3. Promise!Tell(r)
          BY <2>1, <3>1, <4>2, <4>6, <5>1, <5>2 DEF Promise!Tell
        <5> QED BY <5>3 DEF Promise!Next
      <4> QED BY <4>5, <4>6
    <3> QED BY <1>2, <3>2, <3>3, OneMoves
  <2> QED BY <2>2, <2>3
<1> QED BY <1>1, <1>2

\* For such clients the pipeline, with its database, cache, pool, queue and all
\* their failures, implements the idempotent ledger.
THEOREM PipelineKeepsPromise == Spec /\ HeadersAgree => KeepsPromise
<1>1. IInv /\ RepliesMatchLedger' /\ [Next]_vars => [Promise!Next]_(Promise!vars)
  BY PromiseStep
<1> QED
  BY <1>1, RepliesFollowLedger, PromiseInit, Inductive, PTL DEF Spec, KeepsPromise, Promise!Spec

------------------------------------------------------------------------------
(***************************************************************************)
(* Retries.  While records live, neither Redis nor the database fails and  *)
(* the pool has a connection when it is asked for one, a request whose key *)
(* was processed before it was sent goes from the gateway to the guard at  *)
(* most, and is answered there.                                            *)
(***************************************************************************)

Undisturbed ==
  /\ "db" \notin Faults /\ "redis" \notin Faults
  /\ MaxTime < Day

\* A connection is free when the request asks for its first.
Connected(r) == pc[r] = "auth" => ConnectionFree

\* Every record outlives the behaviour, and is there as long as its row.
Lasting ==
  /\ now <= MaxTime
  /\ \A r \in Requests : pc[r] = "commit" => expires[r] >= Day
  /\ \A k \in Keys : Recorded(k) => idem[k] >= Day

\* A retry is on its way, or has its answer.
Replayed(r) ==
  /\ asked[r].user \in ActiveUsers
  /\ Recorded(asked[r].key)
  /\ pc[r] \in {"idle", "gateway", "auth", "guard", "cache", "done", "lost"}
  /\ pc[r] \in {"cache", "done"} => reply[r] = Created(ledger[asked[r].key])

\* Only a commit writes a record, with the expiry its request chose; no cleanup
\* finds one that has expired.
LEMMA LastingStep ==
  ASSUME Undisturbed, IInv, Lasting, [Next]_vars  PROVE Lasting'
<1> USE DEF IInv
<1>0. /\ pc \in [Requests -> PCs] /\ expires \in [Requests -> Nat]
      /\ idem \in [Keys -> Nat] /\ now \in Nat
      /\ Day \in Nat /\ MaxTime \in Nat /\ MaxTime < Day
      /\ \A r \in Requests : asked[r].key \in Keys
  BY ConstantsAssumption, PayloadType DEF TypeOK, Undisturbed
<1>1. ASSUME NEW r \in Requests, SaveRecord(r), pc'[r] = "commit"  PROVE Lasting'
  <2>1. /\ UNCHANGED <<ledger, idem, now>>
        /\ pc' = [pc EXCEPT ![r] = "commit"]
        /\ expires' = [expires EXCEPT ![r] = now + Day]
    BY <1>0, <1>1 DEF SaveRecord, Fail, Respond, Refused, Goto, database
  <2>2. \A q \in Requests : pc'[q] = "commit" => expires'[q] >= Day
    BY <1>0, <2>1 DEF Lasting
  <2> QED BY <2>1, <2>2 DEF Lasting, Recorded
<1>2. ASSUME NEW r \in Requests, Commit(r)  PROVE Lasting'
  <2>1. /\ UNCHANGED <<expires, now>> /\ pc[r] = "commit"
        /\ pc' = [pc EXCEPT ![r] = "refresh"]
        /\ ledger' = [ledger EXCEPT ![asked[r].key] = draft[r]]
        /\ idem' = [idem EXCEPT ![asked[r].key] = expires[r]]
    BY <1>2 DEF Commit, Goto, locals
  <2>2. ledger \in [Keys -> Rows \cup {NoRow}]  BY DEF TypeOK
  <2>3. expires[r] >= Day  BY <2>1 DEF Lasting
  <2>4. \A q \in Requests : pc'[q] = "commit" => pc[q] = "commit"
    BY <1>0, <2>1
  <2>5. ASSUME NEW k \in Keys, Recorded(k)'  PROVE idem'[k] >= Day
    <3>1. CASE k = asked[r].key  BY <1>0, <2>1, <2>3, <3>1
    <3>2. CASE k # asked[r].key
      BY <1>0, <2>1, <2>2, <2>5, <3>2 DEF Lasting, Recorded
    <3> QED BY <3>1, <3>2
  <2> QED BY <2>1, <2>4, <2>5 DEF Lasting
<1>3. CASE Tick
  BY <1>0, <1>3 DEF Tick, Lasting, Recorded, locals, database
<1>4. CASE Cleanup
  <2>1. PICK k \in Keys : idem[k] # 0 /\ idem[k] < now  BY <1>4 DEF Cleanup
  <2>2. Recorded(k)  BY <2>1 DEF Books
  <2> QED BY <1>0, <2>1, <2>2 DEF Lasting
<1>5. ASSUME NEW w, NEW r \in Requests, pc' = [pc EXCEPT ![r] = w], w # "commit",
             UNCHANGED <<expires, ledger, idem, now>>
      PROVE  Lasting'
  BY <1>0, <1>5 DEF Lasting, Recorded
<1>6. ASSUME NEW r \in Requests, NEW response, Respond(r, response),
             UNCHANGED <<expires, ledger, idem, now>>
      PROVE  Lasting'
  <2>1. PICK w \in {"cache", "done"} : pc' = [pc EXCEPT ![r] = w]
    BY <1>6 DEF Respond, Goto
  <2> QED BY <1>5, <1>6, <2>1
<1>7. CASE UNCHANGED <<pc, expires, ledger, idem, now>>
  BY <1>7 DEF Lasting, Recorded
<1>8. ASSUME NEW r \in Requests, Submit(r) \/ Handle(r) \/ Disturb(r),
             ~Commit(r), ~(SaveRecord(r) /\ pc'[r] = "commit")
      PROVE  Lasting'
  <2> USE DEF Goto, locals, database
  <2>1. ASSUME Fail(r)  PROVE Lasting'
    <3>1. UNCHANGED <<expires, ledger, idem, now>>  BY <2>1 DEF Fail
    <3> QED BY <1>6, <2>1, <3>1 DEF Fail
  <2>2. CASE Submit(r)
    <3>1. PICK w \in {"auth", "gateway"} : pc' = [pc EXCEPT ![r] = w]
      BY <2>2 DEF Submit
    <3> QED BY <1>5, <2>2, <3>1 DEF Submit
  <2>3. CASE GatewayHit(r) \/ GatewayMiss(r) \/ Authenticate(r) \/ GuardMiss(r)
               \/ ReadAccount(r)
    BY <1>5, <2>3 DEF GatewayHit, GatewayMiss, Authenticate, GuardMiss, ReadAccount
  <2>4. CASE Unauthorized(r) \/ GuardHit(r) \/ AccountNotFound(r) \/ Email(r)
    BY <1>6, <2>4 DEF Unauthorized, GuardHit, AccountNotFound, Email, Closings
  <2>5. CASE PoolTimeout(r) \/ UniqueViolation(r)
    BY <2>1, <2>5 DEF PoolTimeout, UniqueViolation
  <2>6. CASE Analyse(r)
    <3>1. UNCHANGED <<expires, ledger, idem, now>>  BY <2>6 DEF Analyse
    <3>2. PICK w \in {"debit", "insert"} : pc' = [pc EXCEPT ![r] = w]
      BY <2>6 DEF Analyse, BeginInsert
    <3> QED BY <1>5, <3>1, <3>2
  <2>7. CASE Debit(r) \/ InsertRow(r)
    BY <1>5, <2>7 DEF Debit, BeginInsert, InsertRow
  <2>8. CASE SaveRecord(r)
    <3>1. Fail(r)  BY <1>0, <1>8, <2>8 DEF SaveRecord
    <3> QED BY <2>1, <3>1
  <2>9. CASE Refresh(r) \/ Notify(r) \/ CacheResponse(r) \/ Crash(r)
    BY <1>5, <2>9 DEF Refresh, Notify, CacheResponse, Crash
  <2>10. CASE GatewayError(r) \/ BrokerError(r) \/ DatabaseError(r) \/ CacheError(r)
    BY <2>1, <2>10 DEF GatewayError, BrokerError, DatabaseError, CacheError
  <2> QED BY <1>8, <2>2, <2>3, <2>4, <2>5, <2>6, <2>7, <2>8, <2>9, <2>10
          DEF Handle, Disturb
<1>9. CASE CacheLoss \/ Finished \/ UNCHANGED vars
  BY <1>7, <1>9 DEF CacheLoss, Finished, vars, locals, database
<1> QED BY <1>1, <1>2, <1>3, <1>4, <1>8, <1>9 DEF Next

\* A retry may wait, pass the gateway, hit the cache or the guard, cache its
\* response, or crash: every other step is out of its reach or excluded.
LEMMA ReplayedStep ==
  ASSUME Undisturbed, IInv, HeadersAgree, Lasting, NEW r \in Requests,
         Connected(r), Replayed(r), [Next]_vars
  PROVE  Replayed(r)'
<1> DEFINE k == asked[r].key
           places == {"idle", "gateway", "auth", "guard", "cache", "done", "lost"}
<1>0. /\ pc \in [Requests -> PCs] /\ reply \in [Requests -> Replies]
      /\ k \in Keys /\ now \in Nat /\ idem \in [Keys -> Nat]
      /\ Day \in Nat /\ MaxTime \in Nat /\ MaxTime < Day
  BY ConstantsAssumption, PayloadType DEF IInv, TypeOK, Undisturbed
<1>1. asked' = asked /\ ledger'[k] = ledger[k]
  <2>1. asked' = asked
    <3>1. CASE Next  BY <3>1, OneMoves
    <3>2. CASE UNCHANGED vars  BY <3>2 DEF vars, locals
    <3> QED BY <3>1, <3>2
  <2>2. ledger'[k] = ledger[k]  BY <1>0, LedgerKept DEF Replayed
  <2> QED BY <2>1, <2>2
<1>2. SUFFICES ASSUME ~(pc'[r] = pc[r] /\ reply'[r] = reply[r])
               PROVE  /\ pc'[r] \in places
                      /\ pc'[r] \in {"cache", "done"} => reply'[r] = Created(ledger[k])
  BY <1>1 DEF Replayed, Recorded
<1>3. Submit(r) \/ Handle(r) \/ Disturb(r)
  <2>1. CASE \E q \in Requests : Submit(q) \/ Handle(q) \/ Disturb(q)
    BY <1>2, <2>1, Acting DEF Moves
  <2>2. CASE Tick \/ Cleanup \/ CacheLoss
    BY <1>2, <2>2 DEF Tick, Cleanup, CacheLoss
  <2>3. CASE Finished \/ UNCHANGED vars
    BY <1>2, <2>3 DEF Finished, vars
  <2> QED BY <2>1, <2>2, <2>3 DEF Next
<1>4. AlreadyProcessed(k)
  BY <1>0 DEF Replayed, Lasting, AlreadyProcessed, Recorded
<1>5. pc[r] = "auth" => ConnectionFree  BY DEF Connected
<1>6. CASE Submit(r)  BY <1>0, <1>6 DEF Submit, Goto
<1>7. CASE GatewayHit(r)
  <2> DEFINE h == asked[r].hdr
  <2>1. h \in Keys /\ h = k
    BY <1>7, PayloadType DEF IInv, Honest, GatewayHit, HeadersAgree
  <2>2. cache[h] # NoEntry
    BY <1>0, <1>7 DEF GatewayHit, Cached, NoEntry
  <2>3. cache[h].body = Created(ledger[h])
    BY <2>1, <2>2, Truthful DEF RepliesMatchLedger
  <2>4. pc'[r] = "done" /\ reply'[r] = cache[h].body
    BY <1>0, <1>7 DEF GatewayHit, Goto
  <2> QED BY <2>1, <2>3, <2>4
<1>8. CASE GatewayMiss(r)  BY <1>0, <1>8 DEF GatewayMiss, Goto
<1>9. CASE Authenticate(r)  BY <1>0, <1>9 DEF Authenticate, Goto
<1>10. CASE GuardHit(r)  BY <1>0, <1>10 DEF GuardHit, Respond, Goto
<1>11. CASE CacheResponse(r)
  BY <1>0, <1>11 DEF CacheResponse, Goto, Replayed
<1>12. CASE Crash(r)  BY <1>0, <1>12 DEF Crash, Goto
<1>13. ~Unauthorized(r) /\ ~PoolTimeout(r)
  BY <1>5 DEF Unauthorized, PoolTimeout, Replayed
<1>14. ~GuardMiss(r)  BY <1>4 DEF GuardMiss
<1>15. ~(ReadAccount(r) \/ AccountNotFound(r) \/ Analyse(r) \/ Debit(r)
          \/ InsertRow(r) \/ UniqueViolation(r) \/ SaveRecord(r) \/ Commit(r)
          \/ Refresh(r) \/ Notify(r) \/ Email(r))
  BY DEF Replayed, ReadAccount, AccountNotFound, Analyse, Debit, InsertRow,
         UniqueViolation, SaveRecord, Commit, Refresh, Notify, Email
<1>16. ~(GatewayError(r) \/ BrokerError(r) \/ DatabaseError(r) \/ CacheError(r))
  BY DEF Undisturbed, Replayed, GatewayError, BrokerError, DatabaseError, CacheError
<1> QED
  BY <1>3, <1>6, <1>7, <1>8, <1>9, <1>10, <1>11, <1>12, <1>13, <1>14, <1>15, <1>16
     DEF Handle, Disturb

Retried(r) ==
  pc[r] = "idle" /\ AlreadyProcessed(asked[r].key) /\ asked[r].user \in ActiveUsers

Answered(r) == pc[r] = "done" => reply[r] = Created(ledger[asked[r].key])

\* For clients whose header repeats the body's key, while records live and neither
\* Redis nor the database fails, a request sent after its key was processed, that
\* finds a connection free when it asks for one, gets the original transaction or,
\* if its process dies, no response at all: whatever the others do, and whatever
\* the pool denies them.
THEOREM RetriesAreReplayed ==
  ASSUME Undisturbed
  PROVE  Spec /\ HeadersAgree => RetryIsReplayed
<1>1. Init => Lasting
  BY ConstantsAssumption DEF Init, Lasting, Recorded
<1>2. IInv /\ Lasting /\ [Next]_vars => Lasting'  BY LastingStep
<1>3. IInv /\ HeadersAgree /\ [Next]_vars => HeadersAgree'  BY HeadersStay
<1>4. ASSUME NEW r \in Requests
      PROVE  Spec /\ HeadersAgree => ([]Connected(r) => [](Retried(r) => []Answered(r)))
  <2>1. Retried(r) => Replayed(r)
    BY DEF Retried, Replayed, AlreadyProcessed, Recorded
  <2>2. IInv /\ HeadersAgree /\ Lasting /\ Connected(r) /\ Replayed(r) /\ [Next]_vars
          => Replayed(r)'
    BY ReplayedStep
  <2>3. Replayed(r) => Answered(r)  BY DEF Replayed, Answered
  <2> QED BY <1>1, <1>2, <1>3, <2>1, <2>2, <2>3, Inductive, PTL DEF Spec
<1> QED BY <1>4 DEF RetryIsReplayed, Connected, Retried, Answered

------------------------------------------------------------------------------
(***************************************************************************)
(* Balances, however many payments debit an account from old values.       *)
(*                                                                         *)
(* Between the read of its account and its commit a request holds a        *)
(* balance that may be out of date.  It is never below what the ledger     *)
(* left of the opening balance (Covered): the ledger only grows.           *)
(***************************************************************************)

\* Account read, and not committed yet.
Window == {"analyse", "debit", "insert", "record", "commit"}

FiniteLedger == IsFiniteSet({k \in Keys : Recorded(k)})

\* The row a request has inserted is its own payment.
Drawn ==
  \A r \in Requests : pc[r] \in Settling =>
    /\ draft[r].user = asked[r].user
    /\ draft[r].account = asked[r].account
    /\ draft[r].amount = asked[r].amount

\* What the ledger leaves of the opening balance.
Left(a) == InitialBalance[a] - Spent(a)

Covered ==
  /\ \A a \in Accounts : balance[a] >= Left(a)
  /\ \A r \in Requests : pc[r] \in Window => seen[r] >= Left(asked[r].account)

MoneyInv == FiniteLedger /\ Drawn /\ Covered

------------------------------------------------------------------------------
(* The sum of a ledger's amounts.                                          *)

Amounts(book, S) == [k \in S |-> book[k].amount]

\* MapThenSumSet as the model folds it, over the rows of a ledger.
AmountsSum(book, S) == MapThenSumSet(LAMBDA k : book[k].amount, S)

\* The fold of the model counts units.
LEMMA SumOfAmounts ==
  ASSUME NEW book, NEW S, IsFiniteSet(S), \A k \in S : book[k].amount \in Nat
  PROVE  AmountsSum(book, S) = Cardinality(Units(Amounts(book, S), S))
<1> DEFINE f == Amounts(book, S)
           Solves(it) == it = [s \in SUBSET S |->
                                IF s = {} THEN 0
                                ELSE LET x == CHOOSE x \in s : TRUE
                                     IN  book[x].amount + it[s \ {x}]]
           it == CHOOSE it : Solves(it)
           count == [s \in SUBSET S |-> Cardinality(Units(f, s))]
<1>1. \A k \in S : f[k] = book[k].amount  BY DEF Amounts
<1>2. \A sum : Sums(f, S, sum) <=> Solves(sum)
  <2> TAKE sum
  <2>1. ASSUME NEW s \in SUBSET S
        PROVE  (IF s = {} THEN 0
                ELSE LET x == CHOOSE x \in s : TRUE IN f[x] + sum[s \ {x}])
             = (IF s = {} THEN 0
                ELSE LET x == CHOOSE x \in s : TRUE IN book[x].amount + sum[s \ {x}])
    <3>1. s # {} => (CHOOSE x \in s : TRUE) \in S  OBVIOUS
    <3> HIDE DEF f
    <3> QED BY <1>1, <3>1
  <2> HIDE DEF f
  <2> QED BY <2>1 DEF Sums
<1>3. AmountsSum(book, S) = it[S]
  BY DEF AmountsSum, MapThenSumSet, MapThenFoldSet
<1>4. Sums(f, S, count)
  <2> HIDE DEF f
  <2> QED BY <1>1, SumsUnits
<1> HIDE DEF f, Solves
<1>5. Solves(it)  BY <1>2, <1>4
<1> HIDE DEF it
<1>6. it[S] = count[S]
  <2> HIDE DEF count
  <2> QED BY <1>2, <1>4, <1>5, SumsUnique
<1> QED BY <1>3, <1>6 DEF f

\* The ledger new has the rows of old in S, and one at x.
Extends(old, new, S, x) ==
  /\ \A k \in S : new[k] = old[k] /\ old[k].amount \in Nat
  /\ x \notin S /\ new[x].amount \in Nat

\* A row more is an amount more.
LEMMA SumOfMore ==
  ASSUME NEW S, IsFiniteSet(S), NEW x, NEW old, NEW new, Extends(old, new, S, x)
  PROVE  /\ AmountsSum(old, S) \in Nat
         /\ AmountsSum(new, S) = AmountsSum(old, S)
         /\ AmountsSum(new, S \cup {x}) = AmountsSum(old, S) + new[x].amount
<1> DEFINE T == S \cup {x}
           f == Amounts(old, S)
           g == Amounts(new, T)
<1> USE DEF Extends
<1>1. IsFiniteSet(T)  BY FS_AddElement
<1>2. /\ \A k \in S : f[k] = old[k].amount /\ g[k] = old[k].amount
      /\ g[x] = new[x].amount
      /\ \A k \in T : new[k].amount \in Nat
  BY DEF Amounts
<1>3. AmountsSum(old, S) = Cardinality(Units(f, S))
  BY SumOfAmounts
<1>4. AmountsSum(new, T) = Cardinality(Units(g, T))
  <2> HIDE DEF T
  <2> QED BY <1>1, <1>2, SumOfAmounts
<1>5. Amounts(new, S) = f  BY DEF Amounts
<1>6. AmountsSum(new, S) = Cardinality(Units(f, S))
  <2>1. \A k \in S : new[k].amount \in Nat  OBVIOUS
  <2>2. AmountsSum(new, S) = Cardinality(Units(Amounts(new, S), S))
    BY <2>1, SumOfAmounts
  <2> QED BY <2>2, <1>5
<1> HIDE DEF f, g
<1>7. Cardinality(Units(f, S)) \in Nat  BY <1>2, UnitsFinite
<1>8. Units(g, S) = Units(f, S)  BY <1>2, UnitsSame
<1>9. Cardinality(Units(g, S \cup {x})) = Cardinality(Units(g, S)) + g[x]
  BY <1>2, UnitsAdded
<1> QED BY <1>2, <1>3, <1>4, <1>6, <1>7, <1>8, <1>9

------------------------------------------------------------------------------
(* The steps that matter to balances.                                      *)

\* Nothing is read, decided or written; a request may wait, advance to its
\* next place in the window, or leave it.
Elsewhere ==
  /\ UNCHANGED <<asked, seen, verdict, draft, ledger, balance>>
  /\ now' \in Nat /\ now' >= now
  /\ \A r \in Requests :
       /\ pc'[r] \in {"analyse", "debit"} => pc[r] = pc'[r]
       /\ pc'[r] = "insert" => \/ pc[r] = "insert" /\ stamp'[r] = stamp[r]
                               \/ pc[r] = "debit" /\ stamp'[r] = now
       /\ pc'[r] \in Settling => pc[r] \in Settling

\* An exception is such a step, and so are every response and the moves below.
LEMMA FailElsewhere ==
  ASSUME TypeOK, NEW r \in Requests, Fail(r)
  PROVE  Elsewhere
<1>1. pc' = [pc EXCEPT ![r] = "done"]
  BY DEF Fail, Respond, Refused, Goto
<1>2. UNCHANGED <<asked, seen, verdict, stamp, draft, ledger, balance, now>>
  BY DEF Fail, locals, database
<1>3. \A q \in Requests : pc'[q] = pc[q] \/ pc'[q] = "done"
  BY <1>1 DEF TypeOK
<1> QED BY <1>2, <1>3 DEF Elsewhere, Settling, TypeOK

LEMMA RespondElsewhere ==
  ASSUME TypeOK, NEW r \in Requests, NEW response, Respond(r, response),
         UNCHANGED <<asked, seen, verdict, stamp, draft, ledger, balance, now>>
  PROVE  Elsewhere
<1>1. \E w \in {"cache", "done"} : pc' = [pc EXCEPT ![r] = w]
  BY DEF Respond, Goto
<1>2. \A q \in Requests : pc'[q] = pc[q] \/ pc'[q] \in {"cache", "done"}
  BY <1>1 DEF TypeOK
<1> QED BY <1>2 DEF Elsewhere, Settling, TypeOK

LEMMA GoElsewhere ==
  ASSUME TypeOK, NEW r \in Requests,
         NEW w \in PCs, Goto(r, w),
         w \in Window => w = "commit" /\ pc[r] = "record",
         UNCHANGED <<asked, seen, verdict, stamp, draft, ledger, balance, now>>
  PROVE  Elsewhere
<1>1. \A q \in Requests : pc'[q] = pc[q] \/ (q = r /\ pc'[q] = w)
  BY DEF Goto, TypeOK
<1> QED BY <1>1 DEF Elsewhere, Settling, Window, TypeOK

\* Four actions concern money; every other step is such a step.
LEMMA MoneySteps ==
  ASSUME TypeOK, [Next]_vars
  PROVE  \/ Elsewhere
         \/ \E r \in Requests :
              ReadAccount(r) \/ Analyse(r) \/ InsertRow(r) \/ Commit(r)
<1> USE DEF locals, database
<1>1. ASSUME NEW r \in Requests, Submit(r)  PROVE Elsewhere
  <2>1. \E w \in {"auth", "gateway"} : Goto(r, w)  BY <1>1 DEF Submit
  <2> QED BY <1>1, <2>1, GoElsewhere DEF Submit, Window, PCs, InTransaction
<1>2. ASSUME NEW r \in Requests, Handle(r),
             ~(ReadAccount(r) \/ Analyse(r) \/ InsertRow(r) \/ Commit(r))
      PROVE  Elsewhere
  <2>1. CASE GatewayHit(r)
    BY <2>1, GoElsewhere DEF GatewayHit, Window, PCs
  <2>2. CASE GatewayMiss(r)
    BY <2>2, GoElsewhere DEF GatewayMiss, Window, PCs
  <2>3. CASE Authenticate(r)
    BY <2>3, GoElsewhere DEF Authenticate, Window, PCs, InTransaction
  <2>4. CASE GuardMiss(r)
    BY <2>4, GoElsewhere DEF GuardMiss, Window, PCs, InTransaction
  <2>5. CASE Unauthorized(r)  BY <2>5, RespondElsewhere DEF Unauthorized
  <2>6. CASE GuardHit(r)  BY <2>6, RespondElsewhere DEF GuardHit
  <2>7. CASE AccountNotFound(r)  BY <2>7, RespondElsewhere DEF AccountNotFound
  <2>8. CASE PoolTimeout(r) \/ UniqueViolation(r)
    BY <2>8, FailElsewhere DEF PoolTimeout, UniqueViolation
  <2>9. CASE Debit(r)
    <3>1. /\ pc[r] = "debit" /\ pc' = [pc EXCEPT ![r] = "insert"]
          /\ stamp' = [stamp EXCEPT ![r] = now]
          /\ UNCHANGED <<asked, seen, verdict, draft, ledger, balance, now>>
      BY <2>9 DEF Debit, BeginInsert, Goto
    <3> QED BY <3>1 DEF Elsewhere, Settling, TypeOK
  <2>10. CASE SaveRecord(r)
    <3>1. CASE Fail(r)  BY <3>1, FailElsewhere
    <3>2. CASE ~Fail(r)
      <4>1. /\ Goto(r, "commit") /\ pc[r] = "record"
            /\ UNCHANGED <<asked, seen, verdict, stamp, draft, ledger, balance, now>>
        BY <2>10, <3>2 DEF SaveRecord
      <4>2. "commit" \in PCs  BY DEF PCs, InTransaction
      <4> QED BY <4>1, <4>2, GoElsewhere
    <3> QED BY <3>1, <3>2
  <2>11. CASE Refresh(r)
    BY <2>11, GoElsewhere DEF Refresh, Window, PCs
  <2>12. CASE Notify(r)
    BY <2>12, GoElsewhere DEF Notify, Window, PCs
  <2>13. CASE Email(r)
    <3>1. PICK response : Respond(r, response)  BY <2>13 DEF Email
    <3> QED BY <2>13, <3>1, RespondElsewhere DEF Email
  <2>14. CASE CacheResponse(r)
    BY <2>14, GoElsewhere DEF CacheResponse, Window, PCs
  <2> QED
    BY <1>2, <2>1, <2>2, <2>3, <2>4, <2>5, <2>6, <2>7, <2>8, <2>9, <2>10, <2>11,
       <2>12, <2>13, <2>14 DEF Handle
<1>3. ASSUME NEW r \in Requests, Disturb(r)  PROVE Elsewhere
  <2>1. CASE Crash(r)  BY <2>1, GoElsewhere DEF Crash, Window, PCs
  <2>2. CASE ~Crash(r)
    BY <1>3, <2>2, FailElsewhere
       DEF Disturb, GatewayError, BrokerError, DatabaseError, CacheError
  <2> QED BY <2>1, <2>2
<1>4. CASE Tick \/ Cleanup \/ CacheLoss
  BY <1>4 DEF Tick, Cleanup, CacheLoss, Elsewhere, TypeOK
<1>5. CASE Finished \/ UNCHANGED vars
  BY <1>5 DEF Finished, vars, Elsewhere, TypeOK
<1> QED BY <1>1, <1>2, <1>3, <1>4, <1>5 DEF Next

\* What a commit adds to the ledger: the committing request's own payment.
LEMMA Committed ==
  ASSUME IInv, Drawn, NEW r \in Requests, Commit(r)
  PROVE  LET k == asked[r].key
             row == draft[r]
         IN  /\ k \in Keys /\ row \in Rows /\ row # NoRow
             /\ ledger \in [Keys -> Rows \cup {NoRow}]
             /\ ledger[k] = NoRow
             /\ ledger' = [ledger EXCEPT ![k] = row]
             /\ row.user = asked[r].user /\ row.account = asked[r].account
             /\ row.amount = asked[r].amount
             /\ row.status = "approved" <=> verdict[r].decision = "approve"
             /\ UNCHANGED <<asked, seen, verdict, draft, now>>
             /\ pc[r] = "commit" /\ pc' = [pc EXCEPT ![r] = "refresh"]
<1>1. pc[r] = "commit" /\ pc' = [pc EXCEPT ![r] = "refresh"]
  BY DEF Commit, Goto
<1>2. /\ draft[r] \in Rows /\ draft[r].status = StatusOf[verdict[r].decision]
      /\ ledger[asked[r].key] = NoRow
  BY <1>1 DEF IInv, Drafts, Settling
<1>3. verdict[r] \in Verdicts /\ ledger \in [Keys -> Rows \cup {NoRow}]
  BY DEF IInv, TypeOK
<1>4. draft[r].status = "approved" <=> verdict[r].decision = "approve"
  BY <1>2, <1>3 DEF Verdicts, Decisions, StatusOf
<1>5. asked[r].key \in Keys  BY PayloadType DEF IInv
<1>6. /\ draft[r].user = asked[r].user /\ draft[r].account = asked[r].account
      /\ draft[r].amount = asked[r].amount
  BY <1>1 DEF Drawn, Settling
<1>7. ledger' = [ledger EXCEPT ![asked[r].key] = draft[r]]  BY DEF Commit
<1>8. UNCHANGED <<asked, seen, verdict, draft, now>>  BY DEF Commit, locals
<1> QED BY <1>1, <1>2, <1>3, <1>4, <1>5, <1>6, <1>7, <1>8, RowTyped

\* The approved rows of account a in a ledger, and what they add up to.
ApprovedIn(book, a) ==
  {k \in Keys : book[k] # NoRow /\ book[k].status = "approved" /\ book[k].account = a}

SpentIn(book, a) == AmountsSum(book, ApprovedIn(book, a))

\* What the model calls spent is the sum over the ledger, before a step and after.
LEMMA SpentIsSpentIn ==
  ASSUME NEW a \in Accounts
  PROVE  Spent(a) = SpentIn(ledger, a) /\ Spent(a)' = SpentIn(ledger', a)
<1>1. Spent(a) = SpentIn(ledger, a)
  BY DEF Spent, Approved, Recorded, SpentIn, ApprovedIn, AmountsSum
<1>2. Spent(a)' = SpentIn(ledger', a)
  BY DEF Spent, Approved, Recorded, SpentIn, ApprovedIn, AmountsSum, MapThenSumSet, MapThenFoldSet
<1> QED BY <1>1, <1>2

\* One row more adds its amount to its account, if it is approved.
LEMMA SpentInMore ==
  ASSUME NEW book \in [Keys -> Rows \cup {NoRow}],
         IsFiniteSet({k \in Keys : book[k] # NoRow}),
         NEW x \in Keys, book[x] = NoRow, NEW row \in Rows,
         NEW a \in Accounts
  PROVE  /\ SpentIn(book, a) \in Nat
         /\ SpentIn([book EXCEPT ![x] = row], a)
              = IF row.status = "approved" /\ row.account = a
                  THEN SpentIn(book, a) + row.amount ELSE SpentIn(book, a)
<1> DEFINE new == [book EXCEPT ![x] = row]
           S == ApprovedIn(book, a)
           T == ApprovedIn(new, a)
<1>1. row # NoRow /\ row.amount \in Nat  BY RowTyped DEF Rows
<1>2. IsFiniteSet(S)
  <2>1. S \in SUBSET {k \in Keys : book[k] # NoRow}  BY DEF ApprovedIn
  <2> QED BY <2>1, FS_Subset
<1>3. x \notin S  BY DEF ApprovedIn
<1>4. new[x] = row /\ \A k \in Keys : k # x => new[k] = book[k]  OBVIOUS
<1>5. \A k \in S : k \in Keys /\ new[k] = book[k] /\ book[k].amount \in Nat
  BY <1>3, <1>4 DEF ApprovedIn, Rows
<1> HIDE DEF new
<1>6. T = IF row.status = "approved" /\ row.account = a THEN S \cup {x} ELSE S
  BY <1>1, <1>4 DEF ApprovedIn
<1> HIDE DEF S, T
<1>7. /\ AmountsSum(book, S) \in Nat
      /\ AmountsSum(new, S)
           = AmountsSum(book, S)
      /\ AmountsSum(new, S \cup {x})
           = AmountsSum(book, S) + new[x].amount
  <2>1. Extends(book, new, S, x)  BY <1>1, <1>3, <1>4, <1>5 DEF Extends
  <2> QED BY <1>2, <2>1, SumOfMore
<1>8. SpentIn(book, a) = AmountsSum(book, S)
  BY DEF SpentIn, S
<1>9. SpentIn(new, a) = AmountsSum(new, T)
  BY DEF SpentIn, T
<1>10. CASE row.status = "approved" /\ row.account = a
  <2>1. T = S \cup {x}  BY <1>6, <1>10
  <2>2. SpentIn(new, a) = AmountsSum(new, S \cup {x})
    BY <1>9, <2>1
  <2> QED BY <1>4, <1>7, <1>8, <1>10, <2>2 DEF new
<1>11. CASE ~(row.status = "approved" /\ row.account = a)
  <2>1. T = S  BY <1>6, <1>11
  <2>2. SpentIn(new, a) = AmountsSum(new, S)
    BY <1>9, <2>1
  <2> QED BY <1>7, <1>8, <1>11, <2>2 DEF new
<1> QED BY <1>10, <1>11

\* An approved commit adds its amount to what is spent from its account;
\* nothing else adds anything.
LEMMA SpentGrows ==
  ASSUME IInv, FiniteLedger, Drawn, NEW r \in Requests, Commit(r), NEW a \in Accounts
  PROVE  /\ Spent(a) \in Nat
         /\ Spent(a)' = IF verdict[r].decision = "approve" /\ asked[r].account = a
                          THEN Spent(a) + asked[r].amount ELSE Spent(a)
<1>1. /\ asked[r].key \in Keys /\ draft[r] \in Rows
      /\ ledger \in [Keys -> Rows \cup {NoRow}] /\ ledger[asked[r].key] = NoRow
      /\ ledger' = [ledger EXCEPT ![asked[r].key] = draft[r]]
      /\ draft[r].account = asked[r].account /\ draft[r].amount = asked[r].amount
      /\ draft[r].status = "approved" <=> verdict[r].decision = "approve"
  BY Committed
<1>2. IsFiniteSet({k \in Keys : ledger[k] # NoRow})  BY DEF FiniteLedger, Recorded
<1>3. /\ SpentIn(ledger, a) \in Nat
      /\ SpentIn(ledger', a)
           = IF draft[r].status = "approved" /\ draft[r].account = a
               THEN SpentIn(ledger, a) + draft[r].amount ELSE SpentIn(ledger, a)
  BY <1>1, <1>2, SpentInMore
<1> QED BY <1>1, <1>3, SpentIsSpentIn

\* Without a commit nothing is spent.
LEMMA SpentStays ==
  ASSUME UNCHANGED ledger, NEW a \in Accounts
  PROVE  Spent(a)' = Spent(a)
BY SpentIsSpentIn

------------------------------------------------------------------------------
(* Every step keeps the money.                                             *)

\* At the start nothing is taken from any account.
LEMMA NothingSpent ==
  ASSUME Init, NEW a \in Accounts
  PROVE  Left(a) = InitialBalance[a]
<1>1. ApprovedIn(ledger, a) = {}  BY DEF Init, ApprovedIn
<1>2. IsFiniteSet({})  BY FS_EmptySet
<1>3. AmountsSum(ledger, {}) = Cardinality(Units(Amounts(ledger, {}), {}))
  BY <1>2, SumOfAmounts
<1>4. Spent(a) = 0  BY <1>1, <1>3, UnitsOfNothing, SpentIsSpentIn DEF SpentIn
<1> QED BY <1>4, ConstantsAssumption DEF Left

\* The invariant holds at the start,
LEMMA StartMoney == Init => MoneyInv
<1> SUFFICES ASSUME Init PROVE MoneyInv  OBVIOUS
<1>1. \A k \in Keys : ~Recorded(k)  BY DEF Init, Recorded
<1>2. FiniteLedger
  <2>1. {k \in Keys : Recorded(k)} = {}  BY <1>1
  <2> QED BY <2>1, FS_EmptySet DEF FiniteLedger
<1>3. Covered
  BY NothingSpent, ConstantsAssumption DEF Init, Covered, Window
<1>4. Drawn  BY DEF Init, Drawn, Settling
<1> QED BY <1>2, <1>3, <1>4 DEF MoneyInv

\* Only a commit changes the ledger.
LEMMA LedgerStill ==
  ASSUME UNCHANGED ledger
  PROVE  /\ FiniteLedger' <=> FiniteLedger
         /\ \A a \in Accounts : Left(a)' = Left(a)
<1>1. FiniteLedger' <=> FiniteLedger  BY DEF FiniteLedger, Recorded
<1>2. \A a \in Accounts : Left(a)' = Left(a)  BY SpentStays DEF Left
<1> QED BY <1>1, <1>2

\* A commit adds one row.
LEMMA LedgerFinite ==
  ASSUME IInv, MoneyInv, NEW r \in Requests, Commit(r)
  PROVE  FiniteLedger'
<1> DEFINE S == {k \in Keys : Recorded(k)}
<1>1. /\ asked[r].key \in Keys /\ draft[r] # NoRow
      /\ ledger \in [Keys -> Rows \cup {NoRow}]
      /\ ledger' = [ledger EXCEPT ![asked[r].key] = draft[r]]
  BY Committed DEF MoneyInv
<1>2. {k \in Keys : Recorded(k)'} = S \cup {asked[r].key}  BY <1>1 DEF Recorded
<1>3. IsFiniteSet(S)  BY DEF MoneyInv, FiniteLedger
<1> HIDE DEF S
<1>4. IsFiniteSet(S \cup {asked[r].key})  BY <1>3, FS_AddElement
<1> QED BY <1>2, <1>4 DEF FiniteLedger

\* A commit takes from the account what the ledger then says was taken.
LEMMA CommitLeft ==
  ASSUME IInv, MoneyInv, NEW r \in Requests, Commit(r), NEW a \in Accounts
  PROVE  LET taken == verdict[r].decision = "approve" /\ asked[r].account = a
         IN  /\ Left(a) \in Int /\ balance[a] \in Int /\ asked[r].amount \in Nat
             /\ seen[r] \in Int
             /\ Left(a)' = IF taken THEN Left(a) - asked[r].amount ELSE Left(a)
             /\ balance'[a] = IF taken THEN seen[r] - asked[r].amount ELSE balance[a]
<1>1. /\ Spent(a) \in Nat
      /\ Spent(a)' = IF verdict[r].decision = "approve" /\ asked[r].account = a
                       THEN Spent(a) + asked[r].amount ELSE Spent(a)
  BY SpentGrows DEF MoneyInv
<1>2. /\ balance \in [Accounts -> Int] /\ seen[r] \in Int
      /\ asked[r].amount \in Nat /\ asked[r].account \in Accounts
      /\ InitialBalance[a] \in Nat
  BY PayloadType, ConstantsAssumption DEF IInv, TypeOK
<1>3. balance' = IF verdict[r].decision = "approve"
                   THEN [balance EXCEPT ![asked[r].account] = seen[r] - asked[r].amount]
                   ELSE balance
  BY DEF Commit, Debited
<1>4. Left(a)' = InitialBalance[a] - Spent(a)'  BY DEF Left
<1> QED BY <1>1, <1>2, <1>3, <1>4 DEF Left

\* and every step keeps it: a request that reads a balance reads a covered one, and
\* a commit lowers its balance by no more than it lowers what the ledger left.
LEMMA MoneyStep ==
  ASSUME IInv, MoneyInv, [Next]_vars  PROVE MoneyInv'
<1> USE DEF IInv, MoneyInv
<1>0. TypeOK /\ Covered /\ Drawn /\ FiniteLedger  OBVIOUS
<1>1. CASE Elsewhere
  <2>1. UNCHANGED <<asked, seen, verdict, draft, ledger, balance>>
    BY <1>1 DEF Elsewhere
  <2>2. \A r \in Requests : /\ pc'[r] \in Settling => pc[r] \in Settling
                            /\ pc'[r] \in Window => pc[r] \in Window
    BY <1>1 DEF Elsewhere, Window, Settling
  <2>3. \A r \in Requests : asked[r].account \in Accounts  BY PayloadType
  <2>4. Covered'  BY <2>1, <2>2, <2>3, LedgerStill DEF Covered
  <2>5. Drawn'  BY <2>1, <2>2 DEF Drawn
  <2> QED BY <2>1, <2>4, <2>5, LedgerStill
<1>2. ASSUME NEW r \in Requests, ReadAccount(r)  PROVE MoneyInv'
  <2>1. /\ UNCHANGED <<asked, verdict, draft, ledger, balance>>
        /\ seen' = [seen EXCEPT ![r] = balance[asked[r].account]]
        /\ pc' = [pc EXCEPT ![r] = "analyse"]
    BY <1>2 DEF ReadAccount, Goto, database
  <2>2. /\ pc \in [Requests -> PCs] /\ seen \in [Requests -> Int]
        /\ \A q \in Requests : asked[q].account \in Accounts
    BY PayloadType DEF TypeOK
  <2>3. Covered'
    <3>1. \A a \in Accounts : balance'[a] >= Left(a)'
      BY <2>1, LedgerStill DEF Covered
    <3>2. ASSUME NEW q \in Requests, pc'[q] \in Window
          PROVE  seen'[q] >= Left(asked[q].account)
      <4>1. CASE q = r  BY <2>1, <2>2, <4>1 DEF Covered
      <4>2. CASE q # r  BY <2>1, <2>2, <3>2, <4>2 DEF Covered
      <4> QED BY <4>1, <4>2
    <3> QED BY <2>1, <2>2, <3>1, <3>2, LedgerStill DEF Covered
  <2>4. Drawn'  BY <2>1, <2>2 DEF Drawn, Settling
  <2> QED BY <2>1, <2>3, <2>4, LedgerStill
<1>3. ASSUME NEW r \in Requests, Analyse(r) \/ InsertRow(r)  PROVE MoneyInv'
  <2>1. UNCHANGED <<asked, seen, ledger, balance>>
    BY <1>3 DEF Analyse, InsertRow, database
  <2>2. PICK w \in {"debit", "insert", "record"} :
          /\ pc' = [pc EXCEPT ![r] = w]
          /\ w = "record" => draft' = [draft EXCEPT ![r] = NewRow(r)]
          /\ w # "record" => draft' = draft
    <3>1. CASE Analyse(r)  BY <3>1 DEF Analyse, BeginInsert, Goto
    <3>2. CASE InsertRow(r)  BY <3>2 DEF InsertRow, Goto
    <3> QED BY <1>3, <3>1, <3>2
  <2>3. pc[r] \in Window  BY <1>3 DEF Analyse, InsertRow, Window
  <2>4. /\ pc \in [Requests -> PCs] /\ draft \in [Requests -> Rows \cup {NoRow}]
        /\ \A q \in Requests : asked[q].account \in Accounts
    BY PayloadType DEF TypeOK
  <2>5. Covered'
    <3>1. \A q \in Requests : pc'[q] \in Window => pc[q] \in Window
      BY <2>2, <2>3, <2>4
    <3> QED BY <2>1, <2>4, <3>1, LedgerStill DEF Covered
  <2>6. Drawn'
    <3> SUFFICES ASSUME NEW q \in Requests, pc'[q] \in Settling
                 PROVE  /\ draft'[q].user = asked[q].user
                        /\ draft'[q].account = asked[q].account
                        /\ draft'[q].amount = asked[q].amount
      BY <2>1 DEF Drawn
    <3>1. CASE q = r /\ w = "record"
      <4>1. draft'[q] = NewRow(q)  BY <2>2, <2>4, <3>1
      <4> QED BY <4>1 DEF NewRow
    <3>2. CASE ~(q = r /\ w = "record")
      BY <2>2, <2>4, <3>2 DEF Drawn, Settling
    <3> QED BY <3>1, <3>2
  <2> QED BY <2>1, <2>5, <2>6, LedgerStill
<1>4. ASSUME NEW r \in Requests, Commit(r)  PROVE MoneyInv'
  <2>1. /\ UNCHANGED <<asked, seen, verdict, draft>>
        /\ pc[r] = "commit" /\ pc' = [pc EXCEPT ![r] = "refresh"]
    BY <1>4, Committed
  <2>2. /\ pc \in [Requests -> PCs] /\ seen \in [Requests -> Int]
        /\ \A q \in Requests : asked[q].account \in Accounts
    BY PayloadType DEF TypeOK
  <2>3. \A q \in Requests : /\ pc'[q] \in Settling => pc[q] \in Settling
                            /\ pc'[q] \in Window => pc[q] \in Window
    BY <2>1, <2>2 DEF Window, Settling
  <2>4. Covered'
    <3>1. seen[r] >= Left(asked[r].account)  BY <2>1 DEF Covered, Window
    <3>2. ASSUME NEW a \in Accounts
          PROVE  balance'[a] >= Left(a)' /\ Left(a) >= Left(a)'
                   /\ Left(a) \in Int /\ Left(a)' \in Int
      BY <1>4, <3>1, CommitLeft DEF Covered
    <3>3. ASSUME NEW q \in Requests, pc'[q] \in Window
          PROVE  seen[q] >= Left(asked[q].account)'
      <4>1. seen[q] >= Left(asked[q].account)  BY <2>3, <3>3 DEF Covered
      <4>2. LET a == asked[q].account
            IN  Left(a) >= Left(a)' /\ Left(a) \in Int /\ Left(a)' \in Int
        BY <2>1, <2>2, <3>2
      <4> QED BY <2>1, <2>2, <4>1, <4>2
    <3> QED BY <2>1, <3>2, <3>3 DEF Covered
  <2>5. Drawn'  BY <2>1, <2>3 DEF Drawn
  <2> QED BY <1>4, <2>4, <2>5, LedgerFinite
<1> QED BY <1>0, <1>1, <1>2, <1>3, <1>4, MoneySteps

\* Both invariants hold in every behaviour.
LEMMA MoneyAlways == Spec => [](IInv /\ MoneyInv)
<1>1. Init => IInv /\ MoneyInv  BY InitInv, StartMoney
<1>2. IInv /\ MoneyInv /\ [Next]_vars => (IInv /\ MoneyInv)'
  BY NextInv, MoneyStep
<1> QED BY <1>1, <1>2, PTL DEF Spec

\* However many requests debit an account from balances they read earlier, and
\* whatever fails or is retried, it never loses more than its approved
\* transactions add up to.
THEOREM NoAccountOverdebited == Spec => []NeverOverdebited
<1>1. IInv /\ MoneyInv => NeverOverdebited
  BY DEF MoneyInv, Covered, NeverOverdebited, Left
<1> QED BY <1>1, MoneyAlways, PTL

------------------------------------------------------------------------------
(* The connection pool.                                                    *)

Holders == {r \in Requests : HoldsConnection(r)}

Pooled == IsFiniteSet(Holders) /\ Cardinality(Holders) <= PoolSize

\* Only Authenticate and Refresh take a connection, and only a free one.
LEMMA PooledStep ==
  ASSUME TypeOK, Pooled, [Next]_vars  PROVE Pooled'
<1> DEFINE Has == InTransaction \cup {"notify", "email"}
<1>1. ASSUME NEW r \in Requests, NEW w, pc' = [pc EXCEPT ![r] = w],
             w \in Has => pc[r] \in Has \/ ConnectionFree
      PROVE  Pooled'
  <2>1. Holders' \subseteq Holders \cup {r}
    BY <1>1 DEF Holders, HoldsConnection, TypeOK
  <2>2. CASE r \in Holders \/ r \notin Holders'
    <3>1. Holders' \in SUBSET Holders  BY <2>1, <2>2
    <3>2. IsFiniteSet(Holders') /\ Cardinality(Holders') <= Cardinality(Holders)
      BY <3>1, FS_Subset DEF Pooled
    <3>3. Cardinality(Holders') \in Nat /\ Cardinality(Holders) \in Nat
      BY <3>2, FS_CardinalityType DEF Pooled
    <3> QED BY <3>2, <3>3, ConstantsAssumption DEF Pooled
  <2>3. CASE r \notin Holders /\ r \in Holders'
    <3>1. ConnectionFree
      BY <1>1, <2>3 DEF Holders, HoldsConnection, TypeOK
    <3>2. Cardinality(Holders) < PoolSize  BY <3>1 DEF ConnectionFree, Holders
    <3>3. Holders' = Holders \cup {r}
      BY <1>1, <2>3 DEF Holders, HoldsConnection, TypeOK
    <3>4. /\ IsFiniteSet(Holders \cup {r}) /\ Cardinality(Holders) \in Nat
          /\ Cardinality(Holders \cup {r}) = Cardinality(Holders) + 1
      BY <2>3, FS_AddElement, FS_CardinalityType DEF Pooled
    <3> QED BY <3>2, <3>3, <3>4, ConstantsAssumption DEF Pooled
  <2> QED BY <2>2, <2>3
<1>2. CASE pc' = pc
  <2>1. Holders' = Holders  BY <1>2 DEF Holders, HoldsConnection
  <2> QED BY <2>1 DEF Pooled
<1>3. ASSUME NEW r \in Requests, NEW response, Respond(r, response)  PROVE Pooled'
  <2>1. PICK w \in {"cache", "done"} : pc' = [pc EXCEPT ![r] = w]
    BY <1>3 DEF Respond, Goto
  <2> QED BY <1>1, <2>1 DEF InTransaction
<1>4. ASSUME NEW r \in Requests, Submit(r) \/ Handle(r) \/ Disturb(r)  PROVE Pooled'
  <2>1. \/ \E response : Respond(r, response)
        \/ \E w : /\ pc' = [pc EXCEPT ![r] = w]
                  /\ w \in Has => pc[r] \in Has \/ ConnectionFree
    <3>1. CASE Submit(r)
      <4>1. PICK w \in {"auth", "gateway"} : pc' = [pc EXCEPT ![r] = w]
        BY <3>1 DEF Submit, Goto
      <4> QED BY <4>1 DEF InTransaction
    <3>2. CASE Disturb(r)
      BY <3>2 DEF Disturb, GatewayError, BrokerError, DatabaseError, CacheError,
                  Crash, Fail, Goto, InTransaction
    <3>3. CASE GatewayHit(r) \/ GatewayMiss(r) \/ Authenticate(r) \/ Unauthorized(r)
                 \/ PoolTimeout(r) \/ GuardHit(r) \/ GuardMiss(r)
      BY <3>3 DEF GatewayHit, GatewayMiss, Authenticate, Unauthorized, PoolTimeout,
                  GuardHit, GuardMiss, Fail, Goto, InTransaction
    <3>4. CASE ReadAccount(r) \/ AccountNotFound(r) \/ Analyse(r) \/ Debit(r)
                 \/ InsertRow(r) \/ UniqueViolation(r) \/ SaveRecord(r)
      BY <3>4 DEF ReadAccount, AccountNotFound, Analyse, Debit, BeginInsert, InsertRow,
                  UniqueViolation, SaveRecord, Fail, Goto, InTransaction
    <3>5. CASE Commit(r) \/ Refresh(r) \/ Notify(r) \/ Email(r) \/ CacheResponse(r)
      BY <3>5 DEF Commit, Refresh, Notify, Email, CacheResponse, Goto, InTransaction
    <3> QED BY <1>4, <3>1, <3>2, <3>3, <3>4, <3>5 DEF Handle
  <2> HIDE DEF Has
  <2> QED BY <1>1, <1>3, <2>1
<1>5. CASE Tick \/ Cleanup \/ CacheLoss \/ Finished \/ UNCHANGED vars
  BY <1>2, <1>5 DEF Tick, Cleanup, CacheLoss, Finished, vars
<1> QED BY <1>4, <1>5 DEF Next

\* The requests that hold a connection are never more than the pool has.
THEOREM PoolIsRespected == Spec => []Pooled
<1>1. Init => Pooled
  <2> SUFFICES ASSUME Init PROVE Pooled  OBVIOUS
  <2>1. Holders = {}
    BY DEF Init, Holders, HoldsConnection, InTransaction
  <2> QED BY <2>1, FS_EmptySet, ConstantsAssumption DEF Pooled
<1>2. TypeOK /\ Pooled /\ [Next]_vars => Pooled'  BY PooledStep
<1> QED BY <1>1, <1>2, TypeCorrect, PTL DEF Spec

------------------------------------------------------------------------------
(***************************************************************************)
(* Velocity.  An analysis counts the committed payments of the hour before *)
(* it, and misses those that are pending: approved and not committed.      *)
(* Every pending request holds a connection.  So the approved payments of  *)
(* an hour and those pending that may still fall into it are together no   *)
(* more than the limit and the pool (Paced): an approval finds no more     *)
(* than the limit committed, and no more than the pool pending with it; a  *)
(* commit turns a pending payment into a committed one.                    *)
(***************************************************************************)

\* The approved payments of user u made since instant t.
Since(u, t) == {k \in Keys : Approved(k) /\ ledger[k].user = u /\ ledger[k].at >= t}

\* Those of the hour from t on.
Within(u, t) ==
  {k \in Keys : Approved(k) /\ ledger[k].user = u /\ ledger[k].at \in t..(t + Hour)}

\* The requests of user u that were approved, are not committed, and bear an instant
\* of that hour or may still get one.
Pending(u, t) ==
  {r \in Requests :
     /\ asked[r].user = u /\ verdict[r].decision = "approve"
     /\ \/ pc[r] = "debit" /\ now <= t + Hour
        \/ pc[r] = "insert" /\ stamp[r] \in t..(t + Hour)
        \/ pc[r] \in Settling /\ draft[r].at \in t..(t + Hour)}

Together(u, t) == Cardinality(Within(u, t)) + Cardinality(Pending(u, t))

Paced == \A u \in Users : \A t \in Int : Together(u, t) <= VelocityLimit + PoolSize

\* These sets are finite, pending requests hold connections, and the model's
\* LastHour counts one of the sets.
LEMMA VelocitySets ==
  ASSUME FiniteLedger, Pooled, NEW u, NEW t \in Int
  PROVE  /\ IsFiniteSet(Since(u, t)) /\ Cardinality(Since(u, t)) \in Nat
         /\ IsFiniteSet(Within(u, t)) /\ Cardinality(Within(u, t)) \in Nat
         /\ IsFiniteSet(Pending(u, t)) /\ Cardinality(Pending(u, t)) \in Nat
         /\ Cardinality(Pending(u, t)) <= PoolSize
         /\ LastHour(u) = Cardinality(Since(u, now - Hour))
<1>1. /\ Since(u, t) \in SUBSET {k \in Keys : Recorded(k)}
      /\ Within(u, t) \in SUBSET {k \in Keys : Recorded(k)}
  BY DEF Since, Within, Approved
<1>2. IsFiniteSet(Since(u, t)) /\ IsFiniteSet(Within(u, t))
  BY <1>1, FS_Subset DEF FiniteLedger
<1>3. LastHour(u) = Cardinality(Since(u, now - Hour))
  <2>1. Since(u, now - Hour)
          = {k \in Keys : /\ ledger[k] # NoRow
                          /\ ledger[k].user = u
                          /\ ledger[k].status = "approved"
                          /\ ledger[k].at >= now - Hour}
    BY DEF Since, Approved, Recorded
  <2> QED BY <2>1 DEF LastHour
<1>4. Pending(u, t) \in SUBSET Holders
  BY DEF Pending, Holders, HoldsConnection, InTransaction, Settling
<1>5. /\ IsFiniteSet(Pending(u, t))
      /\ Cardinality(Pending(u, t)) <= Cardinality(Holders)
  BY <1>4, FS_Subset DEF Pooled
<1>6. Cardinality(Pending(u, t)) \in Nat /\ Cardinality(Holders) \in Nat
  BY <1>5, FS_CardinalityType DEF Pooled
<1>7. Cardinality(Pending(u, t)) <= PoolSize
  BY <1>5, <1>6, ConstantsAssumption DEF Pooled
<1> QED BY <1>2, <1>3, <1>5, <1>6, <1>7, FS_CardinalityType

\* While nothing is committed and nothing gets pending, there is nothing to show.
LEMMA PacedShrinks ==
  ASSUME FiniteLedger, Pooled, Paced, NEW u \in Users, NEW t \in Int,
         UNCHANGED ledger, Pending(u, t)' \in SUBSET Pending(u, t)
  PROVE  Together(u, t)' <= VelocityLimit + PoolSize
<1> DEFINE old == Pending(u, t)  new == Pending(u, t)'
<1>1. Within(u, t)' = Within(u, t)
  BY DEF Within, Approved, Recorded
<1>2. IsFiniteSet(old) /\ Cardinality(old) \in Nat /\ Cardinality(Within(u, t)) \in Nat
  BY VelocitySets
<1>3. new \in SUBSET old  OBVIOUS
<1>4. Together(u, t) = Cardinality(Within(u, t)) + Cardinality(old)
  BY DEF Together
<1>5. Together(u, t)' = Cardinality(Within(u, t)') + Cardinality(new)
  BY DEF Together
<1>6. Together(u, t) <= VelocityLimit + PoolSize  BY DEF Paced
<1> HIDE DEF old, new
<1>7. IsFiniteSet(new) /\ Cardinality(new) <= Cardinality(old)
  BY <1>2, <1>3, FS_Subset
<1>8. Cardinality(new) \in Nat  BY <1>7, FS_CardinalityType
<1> QED BY <1>1, <1>2, <1>4, <1>5, <1>6, <1>7, <1>8, ConstantsAssumption

\* At the start no payment is approved, and none pending.
LEMMA StartPaced == Init => Paced
<1> SUFFICES ASSUME Init, NEW u \in Users, NEW t \in Int
             PROVE  Together(u, t) <= VelocityLimit + PoolSize
  BY DEF Paced
<1>1. Within(u, t) = {}  BY DEF Init, Within, Approved, Recorded
<1>2. Pending(u, t) = {}  BY DEF Init, Pending, Settling
<1>3. Cardinality({}) = 0  BY FS_EmptySet
<1> QED BY <1>1, <1>2, <1>3, ConstantsAssumption DEF Together

\* An approval: few committed payments, and no more pending ones than connections.
LEMMA PacedAnalyse ==
  ASSUME IInv, FiniteLedger, Pooled, Pooled', Paced, NEW r \in Requests, Analyse(r)
  PROVE  Paced'
<1> USE DEF IInv
<1>1. UNCHANGED <<asked, draft, ledger, now>> /\ pc[r] = "analyse"
  BY DEF Analyse, database
<1>2. PICK other \in OtherRisks, raw \in RawScores :
        LET result == Combine(RuleOutcome(r, other), Normalise(raw))
        IN  /\ verdict' = [verdict EXCEPT ![r] = result]
            /\ result.decision = "approve" =>
                 pc' = [pc EXCEPT ![r] = "debit"] /\ stamp' = stamp
            /\ result.decision # "approve" =>
                 /\ pc' = [pc EXCEPT ![r] = "insert"]
                 /\ stamp' = [stamp EXCEPT ![r] = now]
  BY DEF Analyse, BeginInsert, Goto
<1> DEFINE outcome == RuleOutcome(r, other)  score == Normalise(raw)
           result == Combine(outcome, score)
<1>3. outcome \in RuleOutcomes
  BY ConstantsAssumption, Zenon DEF RuleOutcome, RuleOutcomes, RiskLevels
<1>4. score \in Scores  BY ConstantsAssumption, NormaliseType
<1>5. result.decision = "approve" => ~outcome.shouldDecline
  BY <1>3, <1>4, ApprovalMeans
<1>6. LastHour(asked[r].user) > VelocityLimit => outcome.shouldDecline
  BY DEF RuleOutcome
<1>7. now \in Nat /\ now - Hour \in Int  BY ConstantsAssumption DEF TypeOK
<1>8. result.decision = "approve"
        => Cardinality(Since(asked[r].user, now - Hour)) <= VelocityLimit
  <2>1. LET n == Cardinality(Since(asked[r].user, now - Hour))
        IN  n \in Nat /\ LastHour(asked[r].user) = n
    BY <1>7, VelocitySets
  <2> HIDE DEF result, outcome
  <2> QED BY <1>5, <1>6, <2>1, ConstantsAssumption
<1>9. /\ pc \in [Requests -> PCs] /\ verdict \in [Requests -> Verdicts]
      /\ stamp \in [Requests -> Nat]
  BY DEF TypeOK
<1>10. /\ verdict' = [verdict EXCEPT ![r] = result]
       /\ result.decision = "approve" => pc' = [pc EXCEPT ![r] = "debit"] /\ stamp' = stamp
       /\ result.decision # "approve" => /\ pc' = [pc EXCEPT ![r] = "insert"]
                                         /\ stamp' = [stamp EXCEPT ![r] = now]
  BY <1>2
<1> HIDE DEF result, outcome
<1> SUFFICES ASSUME NEW u \in Users, NEW t \in Int
             PROVE  Together(u, t)' <= VelocityLimit + PoolSize
  BY DEF Paced
<1>11. ASSUME NEW q \in Requests, q # r
       PROVE  pc'[q] = pc[q] /\ verdict'[q] = verdict[q] /\ stamp'[q] = stamp[q]
  BY <1>9, <1>10, <1>11
<1>12. CASE result.decision = "approve" /\ asked[r].user = u /\ now <= t + Hour
  <2>1. Cardinality(Since(u, now - Hour)) <= VelocityLimit  BY <1>8, <1>12
  <2>2. ASSUME NEW k \in Within(u, t)  PROVE k \in Since(u, now - Hour)
    <3>1. k \in Keys /\ ledger[k] \in Rows
      BY DEF Within, Approved, Recorded, TypeOK
    <3>2. ledger[k].at \in Nat  BY <3>1 DEF Rows
    <3>3. ledger[k].at >= now - Hour
      BY <1>7, <1>12, <3>2, ConstantsAssumption DEF Within
    <3> QED BY <3>1, <3>3 DEF Within, Since
  <2>3. Within(u, t) \in SUBSET Since(u, now - Hour)  BY <2>2
  <2>4. /\ IsFiniteSet(Since(u, now - Hour)) /\ Cardinality(Since(u, now - Hour)) \in Nat
        /\ Cardinality(Within(u, t)) \in Nat
    BY <1>7, VelocitySets
  <2>5. Cardinality(Within(u, t)) <= Cardinality(Since(u, now - Hour))
    BY <2>3, <2>4, FS_Subset
  <2>6. Within(u, t)' = Within(u, t)  BY <1>1 DEF Within, Approved, Recorded
  <2>7. Cardinality(Pending(u, t)') \in Nat /\ Cardinality(Pending(u, t)') <= PoolSize
    <3>1. Pending(u, t)' \in SUBSET Holders'
      BY DEF Pending, Holders, HoldsConnection, InTransaction, Settling
    <3>2. IsFiniteSet(Holders') /\ Cardinality(Holders') <= PoolSize  BY DEF Pooled
    <3>3. /\ IsFiniteSet(Pending(u, t)')
          /\ Cardinality(Pending(u, t)') <= Cardinality(Holders')
      BY <3>1, <3>2, FS_Subset
    <3>4. Cardinality(Pending(u, t)') \in Nat /\ Cardinality(Holders') \in Nat
      BY <3>2, <3>3, FS_CardinalityType
    <3> QED BY <3>2, <3>3, <3>4, ConstantsAssumption
  <2>8. Together(u, t)' = Cardinality(Within(u, t)') + Cardinality(Pending(u, t)')
    BY DEF Together
  <2> QED BY <2>1, <2>4, <2>5, <2>6, <2>7, <2>8, ConstantsAssumption
<1>13. CASE ~(result.decision = "approve" /\ asked[r].user = u /\ now <= t + Hour)
  <2>1. ASSUME NEW q \in Requests, q \in Pending(u, t)'  PROVE q \in Pending(u, t)
    <3>1. CASE q = r
      BY <1>1, <1>9, <1>10, <1>13, <2>1, <3>1 DEF Pending, Settling
    <3>2. CASE q # r
      BY <1>1, <1>11, <2>1, <3>2 DEF Pending
    <3> QED BY <3>1, <3>2
  <2>2. Pending(u, t)' \in SUBSET Pending(u, t)  BY <2>1 DEF Pending
  <2> QED BY <1>1, <2>2, PacedShrinks
<1> QED BY <1>12, <1>13

\* A commit turns a pending payment into a committed one.
LEMMA PacedCommit ==
  ASSUME IInv, MoneyInv, Pooled, Paced, NEW r \in Requests, Commit(r)
  PROVE  Paced'
<1> USE DEF IInv
<1> DEFINE k == asked[r].key  row == draft[r]
<1>1. /\ UNCHANGED <<asked, seen, verdict, draft, now>>
      /\ pc[r] = "commit" /\ pc' = [pc EXCEPT ![r] = "refresh"]
      /\ k \in Keys /\ row \in Rows /\ row # NoRow
      /\ ledger \in [Keys -> Rows \cup {NoRow}] /\ ledger[k] = NoRow
      /\ ledger' = [ledger EXCEPT ![k] = row]
      /\ row.user = asked[r].user
      /\ row.status = "approved" <=> verdict[r].decision = "approve"
  BY Committed DEF MoneyInv
<1>2. pc \in [Requests -> PCs] /\ UNCHANGED stamp
  BY DEF TypeOK, Commit, locals
<1>3. FiniteLedger  BY DEF MoneyInv
<1> SUFFICES ASSUME NEW u \in Users, NEW t \in Int
             PROVE  Together(u, t)' <= VelocityLimit + PoolSize
  BY DEF Paced
<1> DEFINE counts == row.status = "approved" /\ row.user = u /\ row.at \in t..(t + Hour)
<1>4. ledger'[k] = row /\ \A x \in Keys : x # k => ledger'[x] = ledger[x]
  BY <1>1
<1>5. /\ IsFiniteSet(Within(u, t)) /\ Cardinality(Within(u, t)) \in Nat
      /\ IsFiniteSet(Pending(u, t)) /\ Cardinality(Pending(u, t)) \in Nat
  BY <1>3, VelocitySets
<1>6. Pending(u, t)' = Pending(u, t) \ {r}
  BY <1>1, <1>2 DEF Pending, Settling
<1>7. counts => r \in Pending(u, t)
  BY <1>1 DEF Pending, Settling
<1>8. /\ k \notin Within(u, t)
      /\ Within(u, t)' = IF counts THEN Within(u, t) \cup {k} ELSE Within(u, t)
  <2> HIDE DEF k, row
  <2> QED BY <1>1, <1>4 DEF Within, Approved, Recorded
<1>9. Together(u, t) <= VelocityLimit + PoolSize  BY DEF Paced
<1>10. /\ Together(u, t) = Cardinality(Within(u, t)) + Cardinality(Pending(u, t))
       /\ Together(u, t)' = Cardinality(Within(u, t)') + Cardinality(Pending(u, t)')
  BY DEF Together
<1> HIDE DEF counts, k, row
<1>11. CASE counts
  <2>1. Cardinality(Within(u, t) \cup {k}) = Cardinality(Within(u, t)) + 1
    BY <1>5, <1>8, FS_AddElement
  <2>2. Cardinality(Pending(u, t) \ {r}) = Cardinality(Pending(u, t)) - 1
    BY <1>5, <1>7, <1>11, FS_RemoveElement
  <2> QED BY <1>5, <1>6, <1>8, <1>9, <1>10, <1>11, <2>1, <2>2, ConstantsAssumption
<1>12. CASE ~counts
  <2>1. Pending(u, t) \ {r} \in SUBSET Pending(u, t)  OBVIOUS
  <2>2. /\ IsFiniteSet(Pending(u, t) \ {r})
        /\ Cardinality(Pending(u, t) \ {r}) <= Cardinality(Pending(u, t))
    BY <1>5, <2>1, FS_Subset
  <2>3. Cardinality(Pending(u, t) \ {r}) \in Nat  BY <2>2, FS_CardinalityType
  <2> QED BY <1>5, <1>6, <1>8, <1>9, <1>10, <1>12, <2>2, <2>3, ConstantsAssumption
<1> QED BY <1>11, <1>12

\* A row bears the instant its INSERT was put together, and nothing else gets
\* pending or is committed.
LEMMA PacedStep ==
  ASSUME IInv, MoneyInv, Pooled, Pooled', Paced, [Next]_vars  PROVE Paced'
<1>1. CASE Elsewhere
  <2> SUFFICES ASSUME NEW u \in Users, NEW t \in Int
               PROVE  Together(u, t)' <= VelocityLimit + PoolSize
    BY DEF Paced
  <2>1. UNCHANGED <<asked, verdict, draft, ledger>> /\ now' >= now /\ now' \in Nat /\ now \in Nat
    BY <1>1 DEF Elsewhere, IInv, TypeOK
  <2>2. ASSUME NEW q \in Requests, q \in Pending(u, t)'  PROVE q \in Pending(u, t)
    <3>1. CASE pc'[q] = "debit"
      <4>1. pc[q] = "debit"  BY <1>1, <3>1 DEF Elsewhere
      <4>2. now <= t + Hour
        BY <2>1, <2>2, <3>1, ConstantsAssumption DEF Pending, Settling
      <4> QED BY <2>1, <2>2, <4>1, <4>2 DEF Pending
    <3>2. CASE pc'[q] = "insert"
      <4>1. stamp'[q] \in t..(t + Hour)  BY <2>2, <3>2 DEF Pending, Settling
      <4>2. \/ pc[q] = "insert" /\ stamp'[q] = stamp[q]
            \/ pc[q] = "debit" /\ stamp'[q] = now
        BY <1>1, <3>2 DEF Elsewhere
      <4>3. CASE pc[q] = "insert" /\ stamp'[q] = stamp[q]
        BY <2>1, <2>2, <4>1, <4>3 DEF Pending
      <4>4. CASE pc[q] = "debit" /\ stamp'[q] = now
        <5>1. now <= t + Hour  BY <4>1, <4>4
        <5> QED BY <2>1, <2>2, <4>4, <5>1 DEF Pending
      <4> QED BY <4>2, <4>3, <4>4
    <3>3. CASE pc'[q] \in Settling
      <4>1. pc[q] \in Settling  BY <1>1, <3>3 DEF Elsewhere
      <4>2. draft[q].at \in t..(t + Hour)
        BY <2>1, <2>2, <3>3 DEF Pending, Settling
      <4> QED BY <2>1, <2>2, <4>1, <4>2 DEF Pending
    <3> QED BY <2>2, <3>1, <3>2, <3>3 DEF Pending
  <2>3. Pending(u, t)' \in SUBSET Pending(u, t)  BY <2>2 DEF Pending
  <2> QED BY <2>1, <2>3, PacedShrinks DEF MoneyInv
<1>2. ASSUME NEW r \in Requests, ReadAccount(r) \/ InsertRow(r)  PROVE Paced'
  <2> SUFFICES ASSUME NEW u \in Users, NEW t \in Int
               PROVE  Together(u, t)' <= VelocityLimit + PoolSize
    BY DEF Paced
  <2>1. UNCHANGED <<asked, verdict, stamp, ledger, now>>
    BY <1>2 DEF ReadAccount, InsertRow, database
  <2>2. pc \in [Requests -> PCs] /\ draft \in [Requests -> Rows \cup {NoRow}]
    BY DEF IInv, TypeOK
  <2>3. \/ pc' = [pc EXCEPT ![r] = "analyse"] /\ draft' = draft
        \/ /\ pc[r] = "insert" /\ pc' = [pc EXCEPT ![r] = "record"]
           /\ draft' = [draft EXCEPT ![r] = NewRow(r)]
    BY <1>2 DEF ReadAccount, InsertRow, Goto
  <2>4. NewRow(r).at = stamp[r]  BY DEF NewRow
  <2>5. ASSUME NEW q \in Requests, q \in Pending(u, t)'  PROVE q \in Pending(u, t)
    <3>1. CASE q = r  BY <2>1, <2>2, <2>3, <2>4, <2>5, <3>1 DEF Pending, Settling
    <3>2. CASE q # r  BY <2>1, <2>2, <2>3, <2>5, <3>2 DEF Pending, Settling
    <3> QED BY <3>1, <3>2
  <2>6. Pending(u, t)' \in SUBSET Pending(u, t)  BY <2>5 DEF Pending
  <2> QED BY <2>1, <2>6, PacedShrinks DEF MoneyInv
<1>3. ASSUME NEW r \in Requests, Analyse(r)  PROVE Paced'
  BY <1>3, PacedAnalyse DEF MoneyInv
<1>4. ASSUME NEW r \in Requests, Commit(r)  PROVE Paced'  BY <1>4, PacedCommit
<1>5. TypeOK  BY DEF IInv
<1> QED BY <1>1, <1>2, <1>3, <1>4, <1>5, MoneySteps

\* However many requests of a user are analysed beside one another, and whatever
\* fails, no hour holds more of the user's approved payments than the velocity
\* limit and the connections of the pool together.
THEOREM VelocityIsBounded == Spec => []VelocityBound
<1>1. Init => Paced  BY StartPaced
<1>2. IInv /\ MoneyInv /\ Pooled /\ Pooled' /\ Paced /\ [Next]_vars => Paced'
  BY PacedStep
<1>3. MoneyInv /\ Pooled /\ Paced => VelocityBound
  <2> SUFFICES ASSUME MoneyInv, Pooled, Paced, NEW u \in Users, NEW t \in 0..now
               PROVE  Cardinality(Within(u, t)) <= VelocityLimit + PoolSize
    BY DEF VelocityBound, Within
  <2>1. t \in Int  OBVIOUS
  <2>2. Cardinality(Within(u, t)) \in Nat /\ Cardinality(Pending(u, t)) \in Nat
    BY <2>1, VelocitySets DEF MoneyInv
  <2>3. Together(u, t) <= VelocityLimit + PoolSize  BY <2>1 DEF Paced
  <2> QED BY <2>2, <2>3, ConstantsAssumption DEF Together
<1> QED BY <1>1, <1>2, <1>3, MoneyAlways, PoolIsRespected, PTL DEF Spec

------------------------------------------------------------------------------
(***************************************************************************)
(* E-mails.  Nothing records that one is owed: it is owed by the request   *)
(* that committed the row, between its commit and its publication.  So     *)
(* HighRiskIsEmailed is as good as the promise that requests end.          *)
(***************************************************************************)

HighRow(k) == Recorded(k) /\ ledger[k].risk \in {"high", "critical"}

Authored(r, k) == asked[r].key = k /\ draft[r] # NoRow

Owing(r, k) == Authored(r, k) /\ pc[r] \in Settled

Excused(r, k) ==
  /\ Authored(r, k)
  /\ (pc[r] = "lost" \/ reply[r].code = 500)

Mailed(k) ==
  \/ emails[k] > 0
  \/ \E r \in Requests : Excused(r, k)

Owed == \A k \in Keys : HighRow(k) => Mailed(k) \/ \E r \in Requests : Owing(r, k)

\* Who has been told of a failure has its response.
Refusals == \A r \in Requests : reply[r].code = 500 => pc[r] = "done"

LEMMA RefusalsStep == IInv /\ Refusals /\ [Next]_vars => Refusals'
<1> SUFFICES ASSUME IInv, Refusals, [Next]_vars PROVE Refusals'  OBVIOUS
<1> USE DEF Goto, Respond
<1>0. pc \in [Requests -> PCs] /\ reply \in [Requests -> Replies]  BY DEF IInv, TypeOK
<1>1. ASSUME UNCHANGED <<pc, reply>> PROVE Refusals'  BY <1>1 DEF Refusals
<1>2. ASSUME NEW r \in Requests, Submit(r) \/ Handle(r) \/ Disturb(r) PROVE Refusals'
  <2>1. \A q \in Requests \ {r} : pc'[q] = pc[q] /\ reply'[q] = reply[q]
    BY <1>2, Acting DEF Moves
  <2>2. pc[r] # "done"  BY <1>2, Acting DEF Moves
  <2>3. reply[r].code # 500  BY <2>2 DEF Refusals
  <2>4. SUFFICES reply'[r] = reply[r] \/ reply'[r].code # 500 \/ pc'[r] = "done"
    BY <2>1, <2>3 DEF Refusals
  <2>5. Fail(r) => pc'[r] = "done"  BY <1>0 DEF Fail, Refused
  <2>6. CASE Submit(r)  BY <2>6 DEF Submit
  <2>7. CASE Disturb(r)
    BY <1>0, <2>5, <2>7 DEF Disturb, GatewayError, BrokerError, DatabaseError, CacheError, Crash
  <2>8. CASE Handle(r)
    <3>1. CASE GatewayHit(r) \/ CacheResponse(r)
      BY <1>0, <3>1 DEF GatewayHit, CacheResponse
    <3>2. CASE GatewayMiss(r) \/ Authenticate(r) \/ GuardMiss(r) \/ ReadAccount(r) \/ Analyse(r)
                 \/ Debit(r) \/ InsertRow(r) \/ Commit(r) \/ Refresh(r) \/ Notify(r)
      BY <3>2 DEF GatewayMiss, Authenticate, GuardMiss, ReadAccount, Analyse, Debit, InsertRow,
                  Commit, Refresh, Notify
    <3>3. CASE Unauthorized(r) \/ AccountNotFound(r)
      BY <1>0, <3>3 DEF Unauthorized, AccountNotFound, Refused
    <3>4. CASE GuardHit(r)
      BY <1>0, <3>4 DEF GuardHit, Created
    <3>6. CASE Email(r)
      <4>1. PICK response \in Closings(r) : Respond(r, response)
        BY <3>6 DEF Email
      <4>2. response = Created(draft[r]) \/ response = Refused(500)  BY DEF Closings
      <4> QED BY <1>0, <4>1, <4>2 DEF Created, Refused
    <3>5. CASE PoolTimeout(r) \/ UniqueViolation(r) \/ SaveRecord(r)
      BY <2>5, <3>5 DEF PoolTimeout, UniqueViolation, SaveRecord
    <3> QED BY <2>8, <3>1, <3>2, <3>3, <3>4, <3>5, <3>6 DEF Handle
  <2> QED BY <1>2, <2>6, <2>7, <2>8
<1>3. CASE Tick \/ Cleanup \/ CacheLoss  BY <1>1, <1>3 DEF Tick, Cleanup, CacheLoss
<1>4. CASE Finished \/ UNCHANGED vars  BY <1>1, <1>4 DEF Finished, vars
<1> QED BY <1>2, <1>3, <1>4 DEF Next

\* E-mails are not taken back, nor is the row a request has inserted.
LEMMA MailGrows ==
  ASSUME IInv, [Next]_vars
  PROVE  /\ UNCHANGED asked
         /\ \A k \in Keys : emails'[k] >= emails[k]
         /\ \A r \in Requests : draft[r] # NoRow => draft'[r] # NoRow
<1> USE DEF Goto, Respond, Fail, locals, queues
<1>0. /\ emails \in [Keys -> Nat] /\ draft \in [Requests -> Rows \cup {NoRow}]
      /\ \A r \in Requests : asked[r].key \in Keys
  BY PayloadType DEF IInv, TypeOK
<1>1. ASSUME UNCHANGED <<asked, draft, emails>>
      PROVE  /\ UNCHANGED asked
             /\ \A k \in Keys : emails'[k] >= emails[k]
             /\ \A r \in Requests : draft[r] # NoRow => draft'[r] # NoRow
  BY <1>0, <1>1
<1>2. ASSUME NEW r \in Requests, InsertRow(r)
      PROVE  /\ UNCHANGED <<asked, emails>>
             /\ \A q \in Requests : draft[q] # NoRow => draft'[q] # NoRow
  <2>1. /\ draft' = [draft EXCEPT ![r] = NewRow(r)] /\ UNCHANGED <<asked, emails>>
        /\ pc' = [pc EXCEPT ![r] = "record"]
    BY <1>2 DEF InsertRow
  <2>2. IInv'  BY <1>2, InsertRowStep
  <2>3. pc'[r] = "record"  BY <2>1 DEF IInv, TypeOK
  <2>4. draft'[r] \in Rows  BY <2>2, <2>3 DEF IInv, Drafts, Settling
  <2> QED BY <1>0, <2>1, <2>4, RowTyped
<1>3. ASSUME NEW r \in Requests, Email(r)
      PROVE  UNCHANGED <<asked, draft>> /\ \A k \in Keys : emails'[k] >= emails[k]
  <2>1. /\ UNCHANGED <<asked, draft>>
        /\ emails' = emails \/ emails' = [emails EXCEPT ![asked[r].key] = @ + 1]
    BY <1>3 DEF Email
  <2> QED BY <1>0, <2>1
<1>4. ASSUME NEW r \in Requests, Submit(r) \/ Handle(r) \/ Disturb(r), ~InsertRow(r), ~Email(r)
      PROVE  UNCHANGED <<asked, draft, emails>>
  <2>1. CASE Submit(r)  BY <2>1 DEF Submit
  <2>2. CASE Disturb(r)
    BY <2>2 DEF Disturb, GatewayError, BrokerError, DatabaseError, CacheError, Crash
  <2>3. CASE Handle(r)
    <3>1. CASE GatewayHit(r) \/ GatewayMiss(r) \/ Authenticate(r) \/ Unauthorized(r)
      BY <3>1 DEF GatewayHit, GatewayMiss, Authenticate, Unauthorized
    <3>2. CASE GuardHit(r) \/ GuardMiss(r) \/ ReadAccount(r) \/ AccountNotFound(r)
      BY <3>2 DEF GuardHit, GuardMiss, ReadAccount, AccountNotFound
    <3>3. CASE PoolTimeout(r) \/ UniqueViolation(r) \/ SaveRecord(r)
      BY <3>3 DEF PoolTimeout, UniqueViolation, SaveRecord
    <3>4. CASE Analyse(r) \/ Debit(r) \/ Commit(r)
      BY <3>4 DEF Analyse, Debit, Commit
    <3>5. CASE Refresh(r) \/ Notify(r) \/ CacheResponse(r)
      BY <3>5 DEF Refresh, Notify, CacheResponse
    <3> QED BY <1>4, <2>3, <3>1, <3>2, <3>3, <3>4, <3>5 DEF Handle
  <2> QED BY <1>4, <2>1, <2>2, <2>3
<1>5. CASE Tick \/ Cleanup \/ CacheLoss  BY <1>1, <1>5 DEF Tick, Cleanup, CacheLoss
<1>6. CASE Finished \/ UNCHANGED vars  BY <1>1, <1>6 DEF Finished, vars
<1>7. ASSUME NEW r \in Requests, Submit(r) \/ Handle(r) \/ Disturb(r)
      PROVE  /\ UNCHANGED asked
             /\ \A k \in Keys : emails'[k] >= emails[k]
             /\ \A q \in Requests : draft[q] # NoRow => draft'[q] # NoRow
  <2>1. CASE InsertRow(r)  BY <1>0, <1>2, <2>1
  <2>2. CASE Email(r)  BY <1>3, <2>2
  <2>3. CASE ~InsertRow(r) /\ ~Email(r)  BY <1>1, <1>4, <1>7, <2>3
  <2> QED BY <2>1, <2>2, <2>3
<1> QED BY <1>5, <1>6, <1>7 DEF Next

\* What has been mailed, or has its excuse, keeps it.
LEMMA MailedStays ==
  ASSUME IInv, Refusals, [Next]_vars, NEW k \in Keys, Mailed(k)
  PROVE  Mailed(k)'
<1>0. pc \in [Requests -> PCs] /\ reply \in [Requests -> Replies]
      /\ emails \in [Keys -> Nat] /\ emails'[k] >= emails[k]
  BY MailGrows DEF IInv, TypeOK
<1>1. CASE emails[k] > 0
  <2>1. emails'[k] > 0
    <3>1. IInv'  BY NextInv
    <3>2. emails'[k] \in Nat  BY <3>1 DEF IInv, TypeOK
    <3> QED BY <1>0, <1>1, <3>2
  <2> QED BY <2>1 DEF Mailed
<1>2. ASSUME NEW r \in Requests, Excused(r, k) PROVE Excused(r, k)'
  <2>1. pc[r] \in {"done", "lost"}  BY <1>2 DEF Excused, Refusals
  <2>2. Authored(r, k)'  BY <1>2, MailGrows DEF Excused, Authored
  <2>3. pc'[r] = pc[r] /\ reply'[r] = reply[r]
    <3>1. ASSUME NEW q \in Requests, Submit(q) \/ Handle(q) \/ Disturb(q)
          PROVE  pc'[r] = pc[r] /\ reply'[r] = reply[r]
      <4>1. pc[q] \notin {"done", "lost"}
        BY <3>1 DEF Submit, Handle, Disturb, GatewayHit, GatewayMiss, Authenticate, Unauthorized,
           PoolTimeout, GuardHit, GuardMiss, ReadAccount, AccountNotFound, Analyse, Debit,
           InsertRow, UniqueViolation, SaveRecord, Commit, Refresh, Notify, Email, CacheResponse,
           GatewayError, BrokerError, DatabaseError, CacheError, Crash, Active, InTransaction
      <4>2. r \in Requests \ {q}  BY <2>1, <4>1
      <4> QED BY <3>1, <4>2, Acting DEF Moves
    <3>2. CASE Tick \/ Cleanup \/ CacheLoss  BY <3>2 DEF Tick, Cleanup, CacheLoss
    <3>3. CASE Finished \/ UNCHANGED vars  BY <3>3 DEF Finished, vars
    <3> QED BY <3>1, <3>2, <3>3 DEF Next
  <2> QED BY <1>2, <2>2, <2>3 DEF Excused
<1> QED BY <1>1, <1>2 DEF Mailed

\* Who owes an e-mail about a row of high risk goes on to owe it, publishes it,
\* or ends with an excuse.
LEMMA OwingStep ==
  ASSUME IInv, [Next]_vars, NEW k \in Keys, HighRow(k), NEW r \in Requests, Owing(r, k)
  PROVE  Owing(r, k)' \/ Mailed(k)'
<1> USE DEF Goto, Respond
<1>0. /\ pc \in [Requests -> PCs] /\ reply \in [Requests -> Replies] /\ emails \in [Keys -> Nat]
      /\ asked[r].key = k /\ pc[r] \in Settled
  BY DEF IInv, TypeOK, Owing, Authored
<1>1. Authored(r, k)'  BY MailGrows DEF Owing, Authored
<1>2. EmailNeeded(verdict[r])
  <2>1. ledger[k] = draft[r] /\ draft[r].risk = verdict[r].risk
    BY <1>0 DEF IInv, Drafts
  <2> QED BY <2>1 DEF HighRow, EmailNeeded
<1>3. ASSUME pc'[r] \in Settled PROVE Owing(r, k)'
  BY <1>1, <1>3 DEF Owing
<1>4. ASSUME pc'[r] = "lost" \/ reply'[r].code = 500 PROVE Mailed(k)'
  BY <1>1, <1>4 DEF Excused, Mailed
<1>5. CASE Submit(r) \/ Handle(r) \/ Disturb(r)
  <2>1. CASE Refresh(r) \/ Notify(r)
    BY <1>0, <1>3, <2>1 DEF Refresh, Notify, Settled
  <2>2. CASE Email(r)
    <3>1. emails' = [emails EXCEPT ![k] = emails[k] + 1]
      BY <1>0, <1>2, <2>2 DEF Email
    <3>2. emails'[k] > 0  BY <1>0, <3>1
    <3> QED BY <3>2 DEF Mailed
  <2>3. CASE Crash(r)
    BY <1>0, <1>4, <2>3 DEF Crash
  <2>4. CASE Fail(r)
    <3>1. reply'[r].code = 500  BY <1>0, <2>4 DEF Fail, Refused
    <3> QED BY <1>4, <3>1
  <2>5. PoolTimeout(r) \/ BrokerError(r) \/ DatabaseError(r) => Fail(r)
    BY DEF PoolTimeout, BrokerError, DatabaseError
  <2>6. ~(\/ Submit(r) \/ GatewayHit(r) \/ GatewayMiss(r) \/ Authenticate(r) \/ Unauthorized(r)
          \/ GuardHit(r) \/ GuardMiss(r) \/ ReadAccount(r) \/ AccountNotFound(r) \/ Analyse(r)
          \/ Debit(r) \/ InsertRow(r) \/ UniqueViolation(r) \/ SaveRecord(r) \/ Commit(r)
          \/ CacheResponse(r) \/ GatewayError(r) \/ CacheError(r))
    BY <1>0 DEF Settled, Submit, GatewayHit, GatewayMiss, Authenticate, Unauthorized, GuardHit,
       GuardMiss, ReadAccount, AccountNotFound, Analyse, Debit, InsertRow, UniqueViolation,
       SaveRecord, Commit, CacheResponse, GatewayError, CacheError
  <2> QED BY <1>5, <2>1, <2>2, <2>3, <2>4, <2>5, <2>6 DEF Handle, Disturb
<1>6. ASSUME pc'[r] = pc[r] PROVE Owing(r, k)'  BY <1>0, <1>3, <1>6
<1>7. ASSUME NEW q \in Requests, q # r, Submit(q) \/ Handle(q) \/ Disturb(q)
      PROVE  Owing(r, k)'
  <2>1. pc'[r] = pc[r]  BY <1>7, Acting DEF Moves
  <2> QED BY <1>6, <2>1
<1>8. CASE Tick \/ Cleanup \/ CacheLoss  BY <1>6, <1>8 DEF Tick, Cleanup, CacheLoss
<1>9. CASE Finished \/ UNCHANGED vars  BY <1>6, <1>9 DEF Finished, vars
<1> QED BY <1>5, <1>7, <1>8, <1>9 DEF Next

LEMMA HighStays ==
  ASSUME IInv, [Next]_vars, NEW k \in Keys, HighRow(k)
  PROVE  HighRow(k)'
BY LedgerKept DEF HighRow, Recorded

\* A row that is committed has an author, who is not done with it.
LEMMA OwedStep == IInv /\ Refusals /\ Owed /\ [Next]_vars => Owed'
<1> SUFFICES ASSUME IInv, Refusals, Owed, [Next]_vars, NEW k \in Keys, HighRow(k)'
             PROVE  Mailed(k)' \/ \E r \in Requests : Owing(r, k)'
  BY DEF Owed
<1>1. CASE HighRow(k)
  BY <1>1, MailedStays, OwingStep DEF Owed
<1>2. CASE ~HighRow(k)
  <2>1. ledger'[k] # ledger[k] \/ ~Recorded(k)
    BY <1>2 DEF HighRow, Recorded
  <2>2. ledger' # ledger  BY <1>2 DEF HighRow, Recorded
  <2>3. PICK r \in Requests : Commit(r)
    <3>1. CASE UNCHANGED vars  BY <2>2, <3>1 DEF vars, database
    <3>2. CASE Next  BY <2>2, <3>2, OnlyCommitWrites
    <3> QED BY <3>1, <3>2
  <2>4. /\ pc[r] = "commit" /\ pc' = [pc EXCEPT ![r] = "refresh"]
        /\ ledger' = [ledger EXCEPT ![asked[r].key] = draft[r]]
        /\ UNCHANGED <<asked, draft>>
    BY <2>3 DEF Commit, Goto, locals
  <2>5. k = asked[r].key
    <3>1. ledger \in [Keys -> Rows \cup {NoRow}]  BY DEF IInv, TypeOK
    <3> QED BY <1>2, <2>4, <3>1 DEF HighRow, Recorded
  <2>6. draft[r] # NoRow  BY <2>4, RowTyped DEF IInv, Drafts, Settling
  <2>7. pc'[r] = "refresh"  BY <2>4 DEF IInv, TypeOK
  <2>8. Owing(r, k)'  BY <2>4, <2>5, <2>6, <2>7 DEF Owing, Authored, Settled
  <2> QED BY <2>8
<1> QED BY <1>1, <1>2

\* While an e-mail about a committed row of high or critical risk is neither
\* queued nor excused by a failure, the request that committed the row is still
\* on its way to queue it.
THEOREM EmailsAreOwed == Spec => []Owed
<1>1. Init => Owed /\ Refusals
  BY DEF Init, Owed, HighRow, Recorded, Refusals, NoReply
<1> QED BY <1>1, OwedStep, RefusalsStep, Inductive, PTL DEF Spec

Ends(r) == Active(r) ~> pc[r] \in {"done", "lost"}

\* So it is queued, or excused, if that request ends.
LEMMA OwingEnds ==
  ASSUME NEW k \in Keys, NEW r \in Requests
  PROVE  []IInv /\ [][Next]_vars /\ Ends(r) /\ HighRow(k) /\ Owing(r, k) => <>Mailed(k)
<1>1. IInv /\ HighRow(k) /\ Owing(r, k) /\ [Next]_vars
        => HighRow(k)' /\ (Owing(r, k)' \/ Mailed(k)')
  BY HighStays, OwingStep
<1>2. Owing(r, k) => Active(r) /\ ~(pc[r] \in {"done", "lost"})
  BY DEF Owing, Settled, Active
<1> QED BY <1>1, <1>2, PTL DEF Ends

LEMMA SomeoneEnds ==
  ASSUME NEW k \in Keys
  PROVE  []IInv /\ [][Next]_vars /\ EveryRequestEnds
           /\ HighRow(k) /\ (\E r \in Requests : Owing(r, k)) => <>Mailed(k)
<1>1. \A r \in Requests :
        []IInv /\ [][Next]_vars /\ Ends(r) /\ HighRow(k) /\ Owing(r, k) => <>Mailed(k)
  BY OwingEnds
<1>2. EveryRequestEnds => \A r \in Requests : Ends(r)
  BY DEF EveryRequestEnds, Ends
<1> QED BY <1>1, <1>2

\* If it is true, and stays true, that every request that is sent ends, then
\* every transaction of high or critical risk leads to an e-mail, or its client
\* was told of a failure or of nothing at all.  (~> speaks of all moments to come:
\* what EveryRequestEnds says once it says for ever.)
THEOREM EmailsComeIfRequestsEnd == Spec /\ []EveryRequestEnds => HighRiskIsEmailed
<1> SUFFICES ASSUME NEW k \in Keys
             PROVE  Spec /\ []EveryRequestEnds =>
                      (Recorded(k) /\ ledger[k].risk \in {"high", "critical"} ~>
                         \/ emails[k] > 0
                         \/ \E r \in Requests : /\ asked[r].key = k /\ draft[r] # NoRow
                                               /\ (pc[r] = "lost" \/ reply[r].code = 500))
  BY DEF HighRiskIsEmailed
<1>1. Owed => (HighRow(k) => Mailed(k) \/ \E r \in Requests : Owing(r, k))
  BY DEF Owed
<1>2. []IInv /\ [][Next]_vars /\ EveryRequestEnds
         /\ HighRow(k) /\ (\E r \in Requests : Owing(r, k)) => <>Mailed(k)
  BY SomeoneEnds
<1>3. Recorded(k) /\ ledger[k].risk \in {"high", "critical"} => HighRow(k)
  BY DEF HighRow
<1>4. Mailed(k) =>
        \/ emails[k] > 0
        \/ \E r \in Requests : /\ asked[r].key = k /\ draft[r] # NoRow
                              /\ (pc[r] = "lost" \/ reply[r].code = 500)
  BY DEF Mailed, Excused, Authored
<1> QED BY <1>1, <1>2, <1>3, <1>4, EmailsAreOwed, Inductive, PTL DEF Spec
==============================================================================
