------------------------------- MODULE Access --------------------------------
(***************************************************************************)
(* Who may come in: registration, login, refresh, the dependencies that    *)
(* authenticate and authorise every other request, and the idempotency     *)
(* middleware, which answers a payment in front of them.                   *)
(*                                                                         *)
(* at[v] is where visit v stands: idle; insert, account, commit, refresh   *)
(* (the awaits of register behind its check of the e-mail); login (the     *)
(* UPDATE of last_login_at); done.  What a registration has flushed and    *)
(* not committed is kept with the visit: its row locks the unique indexes  *)
(* on e-mail and account number until it commits or rolls back.  Tokens    *)
(* are a subject and an expiry; the clock ticks in units that divide both  *)
(* lifetimes.  Nothing in the code sets is_active of a user to FALSE:      *)
(* Disable is the database administrator.  What a payment does behind its  *)
(* dependencies is TransactionPipeline; here it is answered 201, and the   *)
(* middleware keeps the response for whoever sends the same key.           *)
(***************************************************************************)
EXTENDS Naturals, FiniteSets

CONSTANTS
  Visits,          \* HTTP requests
  Visitings,       \* which visit asks for what
  Ids,             \* users.id
  Emails,
  Lower,           \* str.lower on Emails
  Passwords,
  StrongPasswords, \* those the validator of UserRegisterRequest lets pass
  NumberOf,        \* account_number: the first 16 of an id's 32 digits
  Founders,        \* the users there are to start with
  NoUser,          \* the absence of a row
  NoOne,           \* the absence of a user id
  AccessLife, RefreshLife,
  MaxTime          \* bound: the clock stops there

Roles == {"admin", "analyst", "viewer"}

\* The endpoints behind the dependencies, named for the weakest role they ask for;
\* "pay" is POST /transactions with an Idempotency-Key.
Endpoints == {"admin", "analyst", "viewer", "pay"}

UserRows == [email : Emails, password : Passwords, role : Roles]

Requests ==
  [op : {"register", "login", "renew"} \cup Endpoints, email : Emails, password : Passwords]

ASSUME AccessConstants ==
  /\ NoUser \notin UserRows
  /\ NoOne \notin Ids
  /\ Visitings \subseteq [Visits -> Requests]
  /\ Lower \in [Emails -> Emails]
  /\ \A m \in Emails : Lower[Lower[m]] = Lower[m]
  /\ StrongPasswords \subseteq Passwords
  /\ Founders \in [Ids -> UserRows \cup {NoUser}]
  /\ \A i, j \in Ids :
       Founders[i] # NoUser /\ Founders[j] # NoUser =>
         /\ Lower[Founders[i].email] = Founders[i].email
         /\ Founders[i].email = Founders[j].email \/ NumberOf[i] = NumberOf[j] => i = j
  /\ AccessLife \in Nat /\ RefreshLife \in Nat /\ AccessLife <= RefreshLife
  /\ MaxTime \in Nat

VARIABLES
  users,     \* users, by id
  enabled,   \* the ids with is_active
  accounts,  \* the users with a row in accounts
  cached,    \* the users with a payment whose response Redis keeps
  at, visit, \* where each visit stands and what it asks for
  who,       \* the id a registration draws, or the user a login found
  answer,    \* the response: a status code, whom it serves, X-Idempotency-Replayed
  issued,    \* the tokens given out
  renewed,   \* history: when a user last logged in or refreshed
  now        \* the clock

stored == <<users, enabled, accounts, cached>>
visiting == <<at, visit, who, answer>>
tokens == <<issued, renewed>>
vars == <<stored, visiting, tokens, now>>

Exists(i) == users[i] # NoUser

Init ==
  /\ users = Founders
  /\ enabled = {i \in Ids : Exists(i)}
  /\ accounts = enabled
  /\ cached = {}
  /\ at = [v \in Visits |-> "idle"]
  /\ visit \in Visitings
  /\ who = [v \in Visits |-> NoOne]
  /\ answer = [v \in Visits |-> [code |-> 0, serves |-> NoOne, replayed |-> FALSE]]
  /\ issued = {}
  /\ renewed = [i \in Ids |-> 0]
  /\ now = 0

Answer(v, code, i) ==
  /\ at' = [at EXCEPT ![v] = "done"]
  /\ answer' = [answer EXCEPT ![v] = [code |-> code, serves |-> i, replayed |-> FALSE]]
  /\ UNCHANGED <<visit, who>>

Advance(v, where) == at' = [at EXCEPT ![v] = where] /\ UNCHANGED <<visit, answer>>

------------------------------------------------------------------------------
(* POST /auth/register.                                                    *)

\* A faulty Email: as the client wrote it.
EmailAsWritten(v) == visit[v].email

Email(v) == Lower[visit[v].email]

EmailUsed(m) == \E i \in Ids : Exists(i) /\ users[i].email = m

RejectWeak(v) ==
  /\ at[v] = "idle" /\ visit[v].op = "register"
  /\ visit[v].password \notin StrongPasswords
  /\ Answer(v, 422, NoOne)
  /\ UNCHANGED <<stored, tokens, now>>

CheckEmail(v) ==
  /\ at[v] = "idle" /\ visit[v].op = "register"
  /\ visit[v].password \in StrongPasswords
  /\ \/ EmailUsed(Email(v)) /\ Answer(v, 409, NoOne)
     \/ /\ ~EmailUsed(Email(v))
        /\ Advance(v, "insert")
        /\ \E i \in Ids : /\ ~Exists(i) /\ \A w \in Visits : who[w] # i
                          /\ who' = [who EXCEPT ![v] = i]
  /\ UNCHANGED <<stored, tokens, now>>

\* A faulty HoldsEmail: what fails does not roll back.
HoldsEmailForever(w, m) ==
  /\ visit[w].op = "register" /\ Email(w) = m
  /\ at[w] \in {"account", "commit"} \/ answer[w].code = 500

\* Rows that are inserted and not committed: another INSERT waits for them.
HoldsEmail(w, m) ==
  /\ visit[w].op = "register" /\ Email(w) = m
  /\ at[w] \in {"account", "commit"}

HoldsNumber(w, n) == at[w] = "commit" /\ NumberOf[who[w]] = n

NumberUsed(n) == \E i \in accounts : NumberOf[i] = n

\* A faulty InsertUser: no unique index.
InsertUserUnchecked(v) ==
  /\ at[v] = "insert"
  /\ Advance(v, "account")
  /\ UNCHANGED <<who, stored, tokens, now>>

InsertUser(v) ==
  /\ at[v] = "insert"
  /\ \A w \in Visits : ~HoldsEmail(w, Email(v))
  /\ IF EmailUsed(Email(v))
       THEN Answer(v, 500, NoOne)
       ELSE Advance(v, "account") /\ UNCHANGED who
  /\ UNCHANGED <<stored, tokens, now>>

InsertAccount(v) ==
  /\ at[v] = "account"
  /\ \A w \in Visits : ~HoldsNumber(w, NumberOf[who[v]])
  /\ IF NumberUsed(NumberOf[who[v]])
       THEN Answer(v, 500, NoOne)
       ELSE Advance(v, "commit") /\ UNCHANGED who
  /\ UNCHANGED <<stored, tokens, now>>

NewUser(v) == [email |-> Email(v), password |-> visit[v].password, role |-> "viewer"]

\* A faulty CommitRegistration: the user alone is committed.
CommitUserOnly(v) ==
  /\ at[v] = "commit"
  /\ users' = [users EXCEPT ![who[v]] = NewUser(v)]
  /\ enabled' = enabled \cup {who[v]}
  /\ Advance(v, "refresh")
  /\ UNCHANGED <<accounts, cached, who, tokens, now>>

CommitRegistration(v) ==
  /\ at[v] = "commit"
  /\ users' = [users EXCEPT ![who[v]] = NewUser(v)]
  /\ enabled' = enabled \cup {who[v]}
  /\ accounts' = accounts \cup {who[v]}
  /\ Advance(v, "refresh")
  /\ UNCHANGED <<cached, who, tokens, now>>

RefreshUser(v) ==
  /\ at[v] = "refresh"
  /\ Answer(v, 201, who[v])
  /\ UNCHANGED <<stored, tokens, now>>

\* The database fails: what is not committed is rolled back.
VisitFails(v) ==
  /\ at[v] \in {"insert", "account", "commit", "refresh", "login"}
  /\ Answer(v, 500, NoOne)
  /\ UNCHANGED <<stored, tokens, now>>

------------------------------------------------------------------------------
(* Tokens.                                                                 *)

Token(i, life) == [sub |-> i, exp |-> now + life]

\* What login and refresh answer with.
Issue(v, i) ==
  /\ Answer(v, 200, i)
  /\ issued' = issued \cup {Token(i, AccessLife), Token(i, RefreshLife)}
  /\ renewed' = [renewed EXCEPT ![i] = now]

\* A faulty Expired: the expiry is not looked at.
ExpiredNever(t) == FALSE

\* jwt.decode raises once exp lies in the past; in the second it names it does not.
Expired(t) == t.exp < now

\* What get_current_user and refresh_token find behind a token.
Authentic(t) == ~Expired(t) /\ t.sub \in enabled

\* The user behind an e-mail, if active, with the right password.
Knows(v, i) ==
  i \in enabled /\ users[i].email = Email(v) /\ users[i].password = visit[v].password

Login(v) ==
  /\ at[v] = "idle" /\ visit[v].op = "login"
  /\ \/ /\ ~\E i \in Ids : Knows(v, i)
        /\ Answer(v, 401, NoOne)
     \/ \E i \in Ids : /\ Knows(v, i)
                       /\ Advance(v, "login")
                       /\ who' = [who EXCEPT ![v] = i]
  /\ UNCHANGED <<stored, tokens, now>>

\* A faulty CommitLogin: the UPDATE writes the whole row back, is_active included.
CommitLoginWholeRow(v) ==
  /\ at[v] = "login"
  /\ Issue(v, who[v])
  /\ enabled' = enabled \cup {who[v]}
  /\ UNCHANGED <<users, accounts, cached, now>>

\* The UPDATE sets last_login_at, which nothing reads, and no other column.
CommitLogin(v) ==
  /\ at[v] = "login"
  /\ Issue(v, who[v])
  /\ UNCHANGED <<stored, now>>

\* POST /auth/refresh with a token of either kind.
Renew(v) ==
  /\ at[v] = "idle" /\ visit[v].op = "renew"
  /\ \E t \in issued :
       IF Authentic(t) THEN Issue(v, t.sub) ELSE Answer(v, 401, NoOne) /\ UNCHANGED tokens
  /\ UNCHANGED <<stored, now>>

\* require_admin, require_analyst_or_above, get_current_active_user.
Allowed(role, endpoint) ==
  \/ endpoint \in {"viewer", "pay"}
  \/ endpoint = "analyst" /\ role \in {"admin", "analyst"}
  \/ endpoint = "admin" /\ role = "admin"

\* What the middleware does with the response that user i is given: it keeps a
\* payment's, unless Redis fails.
Keep(v, i) == cached' = cached \/ (visit[v].op = "pay" /\ cached' = cached \cup {i})

Enter(v) ==
  /\ at[v] = "idle" /\ visit[v].op \in Endpoints
  /\ \E t \in issued :
       \/ ~Authentic(t) /\ Answer(v, 401, NoOne) /\ UNCHANGED cached
       \/ /\ Authentic(t) /\ ~Allowed(users[t.sub].role, visit[v].op)
          /\ Answer(v, 403, NoOne) /\ UNCHANGED cached
       \/ /\ Authentic(t) /\ Allowed(users[t.sub].role, visit[v].op)
          /\ Answer(v, IF visit[v].op = "pay" THEN 201 ELSE 200, t.sub)
          /\ Keep(v, t.sub)
  /\ UNCHANGED <<users, enabled, accounts, tokens, now>>

\* The middleware finds the key of the header in Redis: it answers with what it
\* finds, and looks at neither token nor user.
Replay(v) ==
  /\ at[v] = "idle" /\ visit[v].op = "pay"
  /\ at' = [at EXCEPT ![v] = "done"]
  /\ \E i \in cached :
       answer' = [answer EXCEPT ![v] = [code |-> 201, serves |-> i, replayed |-> TRUE]]
  /\ UNCHANGED <<visit, who, stored, tokens, now>>

\* HTTPBearer's answer to a request without a token; for /refresh it is a 422.
NoToken(v) ==
  /\ at[v] = "idle" /\ visit[v].op \in Endpoints \cup {"renew"}
  /\ Answer(v, IF visit[v].op = "renew" THEN 422 ELSE 403, NoOne)
  /\ UNCHANGED <<stored, tokens, now>>

------------------------------------------------------------------------------
Disable(i) ==
  /\ i \in enabled
  /\ enabled' = enabled \ {i}
  /\ UNCHANGED <<users, accounts, cached, visiting, tokens, now>>

\* A cached response expires, or Redis loses it.
Forget(i) ==
  /\ i \in cached
  /\ cached' = cached \ {i}
  /\ UNCHANGED <<users, enabled, accounts, visiting, tokens, now>>

Tick ==
  /\ now < MaxTime
  /\ now' = now + 1
  /\ UNCHANGED <<stored, visiting, tokens>>

\* What the server owes a visit it has begun.
Register(v) ==
  InsertUser(v) \/ InsertAccount(v) \/ CommitRegistration(v) \/ RefreshUser(v)

Serve(v) == Register(v) \/ CommitLogin(v)

Arrive(v) ==
  \/ RejectWeak(v) \/ CheckEmail(v) \/ Login(v)
  \/ Renew(v) \/ Enter(v) \/ NoToken(v) \/ Replay(v)

Over == (\A v \in Visits : at[v] = "done") /\ UNCHANGED vars

Next ==
  \/ \E v \in Visits : Arrive(v) \/ Serve(v) \/ VisitFails(v)
  \/ \E i \in Ids : Disable(i) \/ Forget(i)
  \/ Tick \/ Over

Spec == Init /\ [][Next]_vars

\* The event loop resumes every coroutine whose await can complete.
FairSpec == Spec /\ \A v \in Visits : WF_vars(Serve(v))

------------------------------------------------------------------------------
(* Properties.                                                             *)

Places == {"idle", "insert", "account", "commit", "refresh", "login", "done"}

Tokens == [sub : Ids, exp : Nat]

Answers ==
  [code : {0, 200, 201, 401, 403, 409, 422, 500}, serves : Ids \cup {NoOne}, replayed : BOOLEAN]

\* Every variable stays within its type: addresses are stored in lower case,
\* only users are enabled, get tokens and have responses kept.
TypeOK ==
  /\ users \in [Ids -> UserRows \cup {NoUser}]
  /\ \A i \in Ids : Exists(i) => Lower[users[i].email] = users[i].email
  /\ enabled \subseteq {i \in Ids : Exists(i)}
  /\ accounts \subseteq Ids
  /\ cached \subseteq {i \in Ids : Exists(i)}
  /\ at \in [Visits -> Places]
  /\ visit \in [Visits -> Requests]
  /\ who \in [Visits -> Ids \cup {NoOne}]
  /\ answer \in [Visits -> Answers]
  /\ issued \subseteq Tokens
  /\ \A t \in issued : Exists(t.sub)
  /\ renewed \in [Ids -> Nat]
  /\ now \in Nat

\* Concurrent registrations, in whatever case the address is written, never
\* leave two users of one e-mail: login finds at most one.
OneUserPerEmail ==
  \A i, j \in Ids :
    Exists(i) /\ Exists(j) /\ Lower[users[i].email] = Lower[users[j].email] => i = j

\* Users and accounts come together or not at all, whatever failed in between,
\* no two accounts share a number, and who is told 201 has both.
UserHasAccount ==
  /\ \A i \in Ids : Exists(i) <=> i \in accounts
  /\ \A i, j \in accounts : NumberOf[i] = NumberOf[j] => i = j
  /\ \A v \in Visits : answer[v].code = 201 => answer[v].serves \in accounts

\* A user disabled before a visit begins is not served by it, with an old token or
\* a password, whatever logins of his are still under way; only the response to an
\* earlier payment of his may be replayed, which the middleware does for anybody
\* who sends its key.
LockedOut ==
  \A v \in Visits, i \in Ids :
    [](at[v] = "idle" /\ Exists(i) /\ i \notin enabled =>
         [](answer[v].serves = i => answer[v].replayed))

\* An idle session ends: who has neither logged in nor refreshed for the life of
\* a refresh token is no longer served by his tokens, replays of a payment apart.
SessionsEnd ==
  [][\A v \in Visits :
       at[v] = "idle" /\ answer'[v].serves # NoOne /\ ~answer'[v].replayed =>
         now <= renewed[answer'[v].serves] + RefreshLife]_vars

\* Every visit that has begun is answered: registrations that wait for one
\* another's e-mail and account number never wait for ever.
VisitsEnd == \A v \in Visits : at[v] \notin {"idle", "done"} ~> at[v] = "done"
==============================================================================
