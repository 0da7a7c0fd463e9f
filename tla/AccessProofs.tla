---------------------------- MODULE AccessProofs -----------------------------
(***************************************************************************)
(* Proofs about Access, for every number of visits, users and addresses    *)
(* and for every pair of lifetimes.  Inv says what a registration under    *)
(* way holds: an id of its own, and, from its INSERTs on, an e-mail and an *)
(* account number that no user has and no other registration holds.        *)
(***************************************************************************)
EXTENDS Access, TLAPS

Registering == {"insert", "account", "commit"}

\* Where a visit stands decides what its id is.
Drawn ==
  \A v \in Visits :
    /\ answer[v].code # 0 => at[v] = "done"
    /\ answer[v].serves # NoOne \/ answer[v].replayed => at[v] = "done"
    /\ at[v] \in Registering =>
         /\ visit[v].op = "register"
         /\ who[v] \in Ids /\ ~Exists(who[v])
         /\ \A w \in Visits : w # v => who[w] # who[v]
    /\ at[v] = "refresh" => who[v] \in Ids /\ Exists(who[v])
    /\ at[v] = "login" => who[v] \in Ids /\ Exists(who[v])
    /\ answer[v].code = 201 => answer[v].serves \in Ids /\ Exists(answer[v].serves)

EmailsHeld ==
  \A v \in Visits : at[v] \in {"account", "commit"} =>
    /\ ~EmailUsed(Email(v))
    /\ \A w \in Visits : w # v /\ at[w] \in {"account", "commit"} => Email(w) # Email(v)

NumbersHeld ==
  \A v \in Visits : at[v] = "commit" =>
    /\ ~NumberUsed(NumberOf[who[v]])
    /\ \A w \in Visits : w # v /\ at[w] = "commit" => NumberOf[who[w]] # NumberOf[who[v]]

AccountsMatch ==
  /\ \A i \in Ids : Exists(i) <=> i \in accounts
  /\ \A i, j \in accounts : NumberOf[i] = NumberOf[j] => i = j

Lifetimes ==
  /\ \A i \in Ids : renewed[i] <= now
  /\ \A t \in issued : t.exp <= renewed[t.sub] + RefreshLife

TypeInv == TypeOK /\ Drawn

LEMMA TypeInit == Init => TypeInv
  BY AccessConstants
  DEF Init, TypeInv, TypeOK, Drawn, Exists, Places, Tokens, Answers, Registering, UserRows

LEMMA TypeStep == TypeInv /\ [Next]_vars => TypeInv'
<1> SUFFICES ASSUME TypeInv, [Next]_vars PROVE TypeInv'
  OBVIOUS
<1> USE AccessConstants DEF TypeInv
<1> USE DEF Exists, Places, Answers, Registering
<1>1. ASSUME NEW v \in Visits, RejectWeak(v) PROVE TypeInv'
  BY <1>1 DEF RejectWeak, Answer, TypeOK, Drawn, stored, tokens
<1>2. ASSUME NEW v \in Visits, CheckEmail(v) PROVE TypeInv'
  <2>1. CASE Answer(v, 409, NoOne)
    BY <1>2, <2>1 DEF CheckEmail, Answer, TypeOK, Drawn, stored, tokens
  <2>2. CASE /\ Advance(v, "insert")
             /\ \E i \in Ids : /\ ~Exists(i) /\ \A w \in Visits : who[w] # i
                               /\ who' = [who EXCEPT ![v] = i]
    BY <1>2, <2>2 DEF CheckEmail, Advance, TypeOK, Drawn, stored, tokens
  <2> QED
    BY <1>2, <2>1, <2>2 DEF CheckEmail
<1>3. ASSUME NEW v \in Visits, InsertUser(v) PROVE TypeInv'
  <2>1. CASE Answer(v, 500, NoOne)
    BY <1>3, <2>1 DEF InsertUser, Answer, TypeOK, Drawn, stored, tokens
  <2>2. CASE Advance(v, "account") /\ UNCHANGED who
    BY <1>3, <2>2 DEF InsertUser, Advance, TypeOK, Drawn, stored, tokens
  <2> QED
    BY <1>3, <2>1, <2>2 DEF InsertUser
<1>4. ASSUME NEW v \in Visits, InsertAccount(v) PROVE TypeInv'
  <2>1. CASE Answer(v, 500, NoOne)
    BY <1>4, <2>1 DEF InsertAccount, Answer, TypeOK, Drawn, stored, tokens
  <2>2. CASE Advance(v, "commit") /\ UNCHANGED who
    BY <1>4, <2>2 DEF InsertAccount, Advance, TypeOK, Drawn, stored, tokens
  <2> QED
    BY <1>4, <2>1, <2>2 DEF InsertAccount
<1>5. ASSUME NEW v \in Visits, CommitRegistration(v) PROVE TypeInv'
  <2>1. NewUser(v) \in UserRows /\ Lower[NewUser(v).email] = NewUser(v).email
    BY DEF NewUser, Email, UserRows, TypeOK, Requests, Roles
  <2> QED
    BY <1>5, <2>1 DEF CommitRegistration, Advance, TypeOK, Drawn, tokens
<1>6. ASSUME NEW v \in Visits, RefreshUser(v) PROVE TypeInv'
  BY <1>6 DEF RefreshUser, Answer, TypeOK, Drawn, stored, tokens
<1>7. ASSUME NEW v \in Visits, VisitFails(v) PROVE TypeInv'
  BY <1>7 DEF VisitFails, Answer, TypeOK, Drawn, stored, tokens
<1>8. ASSUME NEW v \in Visits, Login(v) PROVE TypeInv'
  <2>1. CASE Answer(v, 401, NoOne)
    BY <1>8, <2>1 DEF Login, Answer, TypeOK, Drawn, stored, tokens
  <2>2. CASE \E i \in Ids : /\ Knows(v, i) /\ Advance(v, "login")
                            /\ who' = [who EXCEPT ![v] = i]
    BY <1>8, <2>2 DEF Login, Knows, Advance, TypeOK, Drawn, stored, tokens
  <2> QED
    BY <1>8, <2>1, <2>2 DEF Login
<1>9. ASSUME NEW v \in Visits, NEW i \in Ids, Exists(i), Issue(v, i), UNCHANGED <<stored, now>>,
             at[v] \in {"idle", "login"}
      PROVE  TypeInv'
  <2>1. Token(i, AccessLife) \in Tokens /\ Token(i, RefreshLife) \in Tokens
    BY DEF Token, Tokens, TypeOK
  <2> QED
    BY <1>9, <2>1 DEF Issue, Token, Answer, TypeOK, Drawn, stored
<1>10. ASSUME NEW v \in Visits, CommitLogin(v) PROVE TypeInv'
  BY <1>9, <1>10 DEF CommitLogin, Drawn
<1>11. ASSUME NEW v \in Visits, Renew(v) PROVE TypeInv'
  <2>1. PICK t \in issued :
          IF Authentic(t) THEN Issue(v, t.sub) ELSE Answer(v, 401, NoOne) /\ UNCHANGED tokens
    BY <1>11 DEF Renew
  <2>2. CASE Authentic(t)
    <3>1. t.sub \in Ids /\ Exists(t.sub)
      BY DEF TypeOK, Tokens
    <3> QED
      BY <1>9, <1>11, <2>1, <2>2, <3>1 DEF Renew
  <2>3. CASE ~Authentic(t)
    <3>1. at[v] = "idle" /\ Answer(v, 401, NoOne) /\ UNCHANGED <<stored, tokens, now>>
      BY <1>11, <2>1, <2>3 DEF Renew
    <3> QED
      BY <3>1 DEF Answer, TypeOK, Drawn, stored, tokens
  <2> QED
    BY <2>2, <2>3
<1>12. ASSUME NEW v \in Visits, NoToken(v) PROVE TypeInv'
  <2>1. PICK code \in {403, 422} : Answer(v, code, NoOne)
    BY <1>12 DEF NoToken
  <2> QED
    BY <1>12, <2>1 DEF NoToken, Answer, TypeOK, Drawn, stored, tokens
<1>13. ASSUME NEW v \in Visits, Enter(v) PROVE TypeInv'
  <2>1. at[v] = "idle" /\ UNCHANGED <<users, enabled, accounts, tokens, now>>
    BY <1>13 DEF Enter
  <2>2. PICK t \in issued :
          \/ ~Authentic(t) /\ Answer(v, 401, NoOne) /\ UNCHANGED cached
          \/ /\ Authentic(t) /\ ~Allowed(users[t.sub].role, visit[v].op)
             /\ Answer(v, 403, NoOne) /\ UNCHANGED cached
          \/ /\ Authentic(t) /\ Allowed(users[t.sub].role, visit[v].op)
             /\ Answer(v, IF visit[v].op = "pay" THEN 201 ELSE 200, t.sub)
             /\ Keep(v, t.sub)
    BY <1>13 DEF Enter
  <2>3. t.sub \in Ids /\ Exists(t.sub)
    BY DEF TypeOK, Tokens
  <2>4. CASE \E code \in {401, 403} : Answer(v, code, NoOne) /\ UNCHANGED cached
    BY <2>1, <2>4 DEF Answer, TypeOK, Drawn, tokens
  <2>5. CASE /\ \E code \in {200, 201} : Answer(v, code, t.sub)
             /\ Keep(v, t.sub)
    BY <2>1, <2>3, <2>5 DEF Answer, Keep, TypeOK, Drawn, tokens
  <2> QED
    BY <2>2, <2>4, <2>5
<1>14. ASSUME NEW v \in Visits, Replay(v) PROVE TypeInv'
  BY <1>14 DEF Replay, TypeOK, Drawn, stored, tokens
<1>15. ASSUME NEW i \in Ids, Disable(i) \/ Forget(i) PROVE TypeInv'
  BY <1>15 DEF Disable, Forget, TypeOK, Drawn, visiting, tokens
<1>16. CASE Tick
  BY <1>16 DEF Tick, TypeOK, Drawn, stored, visiting, tokens
<1>17. CASE UNCHANGED vars
  BY <1>17 DEF TypeOK, Drawn, vars, stored, visiting, tokens
<1> QED
  BY <1>1, <1>2, <1>3, <1>4, <1>5, <1>6, <1>7, <1>8, <1>10, <1>11, <1>12, <1>13, <1>14, <1>15,
     <1>16, <1>17
  DEF Next, Arrive, Serve, Register, Over

LEMMA TypesHold == Spec => []TypeInv
  BY TypeInit, TypeStep, PTL DEF Spec

\* Every variable keeps its type; addresses are stored in lower case, and only
\* users are enabled, get tokens and have responses kept.
THEOREM TypeCorrect == Spec => []TypeOK
<1>1. TypeInv => TypeOK
  BY DEF TypeInv
<1> QED
  BY <1>1, TypesHold, PTL

------------------------------------------------------------------------------
(* Registrations.                                                          *)

Unique == EmailsHeld /\ NumbersHeld /\ AccountsMatch /\ OneUserPerEmail

LEMMA UniqueInit == Init => Unique
  BY AccessConstants
  DEF Init, Unique, EmailsHeld, NumbersHeld, AccountsMatch, OneUserPerEmail, Exists

LEMMA UniqueStep == TypeInv /\ Unique /\ [Next]_vars => Unique'
<1> SUFFICES ASSUME TypeInv, Unique, [Next]_vars PROVE Unique'
  OBVIOUS
<1> USE AccessConstants DEF TypeInv, Unique
<1>1. ASSUME NEW v \in Visits, InsertUser(v) PROVE Unique'
  <2>1. CASE Answer(v, 500, NoOne)
    BY <1>1, <2>1 DEF InsertUser, Answer, TypeOK, EmailsHeld, NumbersHeld, AccountsMatch,
       OneUserPerEmail, Exists, EmailUsed, NumberUsed, Email, stored
  <2>2. CASE /\ ~EmailUsed(Email(v)) /\ Advance(v, "account") /\ UNCHANGED who
    <3>1. \A w \in Visits : at[w] \in {"account", "commit"} => Email(w) # Email(v)
      BY <1>1 DEF InsertUser, HoldsEmail, Drawn, Registering
    <3>2. EmailsHeld'
      BY <1>1, <2>2, <3>1 DEF InsertUser, Advance, TypeOK, EmailsHeld, Exists, EmailUsed, Email, stored
    <3> QED
      BY <1>1, <2>2, <3>2 DEF InsertUser, Advance, TypeOK, NumbersHeld, AccountsMatch,
         OneUserPerEmail, Exists, NumberUsed, stored
  <2> QED
    BY <1>1, <2>1, <2>2 DEF InsertUser
<1>2. ASSUME NEW v \in Visits, InsertAccount(v) PROVE Unique'
  <2>1. CASE Answer(v, 500, NoOne)
    BY <1>2, <2>1 DEF InsertAccount, Answer, TypeOK, EmailsHeld, NumbersHeld, AccountsMatch,
       OneUserPerEmail, Exists, EmailUsed, NumberUsed, Email, stored
  <2>2. CASE ~NumberUsed(NumberOf[who[v]]) /\ Advance(v, "commit") /\ UNCHANGED who
    <3>1. \A w \in Visits : at[w] = "commit" => NumberOf[who[w]] # NumberOf[who[v]]
      BY <1>2 DEF InsertAccount, HoldsNumber
    <3>2. NumbersHeld'
      BY <1>2, <2>2, <3>1 DEF InsertAccount, Advance, TypeOK, NumbersHeld, NumberUsed, stored
    <3>3. EmailsHeld'
      BY <1>2, <2>2 DEF InsertAccount, Advance, TypeOK, EmailsHeld, Exists, EmailUsed, Email, stored
    <3> QED
      BY <1>2, <2>2, <3>2, <3>3 DEF InsertAccount, Advance, AccountsMatch, OneUserPerEmail, Exists, stored
  <2> QED
    BY <1>2, <2>1, <2>2 DEF InsertAccount
<1>3. ASSUME NEW v \in Visits, CommitRegistration(v) PROVE Unique'
  <2>1. /\ at[v] = "commit" /\ who[v] \in Ids /\ ~Exists(who[v])
        /\ at' = [at EXCEPT ![v] = "refresh"] /\ visit' = visit /\ who' = who
        /\ users' = [users EXCEPT ![who[v]] = NewUser(v)]
        /\ accounts' = accounts \cup {who[v]}
    BY <1>3 DEF CommitRegistration, Advance, Drawn, Registering
  <2>2. NewUser(v) # NoUser /\ NewUser(v).email = Email(v) /\ Lower[Email(v)] = Email(v)
    BY DEF NewUser, Email, UserRows, TypeOK, Requests, Roles
  <2>3. EmailsHeld'
    <3>1. \A m : EmailUsed(m)' => EmailUsed(m) \/ m = Email(v)
      BY <2>1, <2>2 DEF EmailUsed, Exists, TypeOK
    <3> QED
      BY <2>1, <3>1 DEF EmailsHeld, Email, TypeOK
  <2>4. NumbersHeld'
    BY <2>1 DEF NumbersHeld, NumberUsed, TypeOK
  <2>5. AccountsMatch'
    BY <2>1, <2>2 DEF AccountsMatch, NumbersHeld, NumberUsed, Exists, TypeOK
  <2>6. OneUserPerEmail'
    <3>1. \A i \in Ids : Exists(i) => Lower[users[i].email] # Email(v)
      BY <2>1 DEF EmailsHeld, EmailUsed, TypeOK
    <3> QED
      BY <2>1, <2>2, <3>1 DEF OneUserPerEmail, Exists, TypeOK
  <2> QED
    BY <2>3, <2>4, <2>5, <2>6
<1>4. ASSUME UNCHANGED <<users, accounts, visit>>,
             \A w \in Visits : at'[w] \in {"account", "commit"} => at'[w] = at[w] /\ who'[w] = who[w]
      PROVE  Unique'
  BY <1>4 DEF EmailsHeld, NumbersHeld, AccountsMatch, OneUserPerEmail, Exists, EmailUsed,
     NumberUsed, Email
<1>5. ASSUME NEW v \in Visits, CheckEmail(v) \/ Login(v) PROVE Unique'
  BY <1>4, <1>5 DEF CheckEmail, Login, Answer, Advance, TypeOK, stored
<1>6. ASSUME NEW v \in Visits, Renew(v) \/ CommitLogin(v) PROVE Unique'
  BY <1>4, <1>6 DEF Renew, CommitLogin, Issue, Answer, TypeOK, stored
<1>7. ASSUME NEW v \in Visits,
             \/ RejectWeak(v) \/ Enter(v) \/ NoToken(v) \/ Replay(v)
             \/ RefreshUser(v) \/ VisitFails(v)
      PROVE  Unique'
  BY <1>4, <1>7
  DEF RejectWeak, Enter, NoToken, Replay, RefreshUser, VisitFails, Answer, TypeOK, stored
<1>8. CASE Tick \/ UNCHANGED vars \/ \E i \in Ids : Disable(i) \/ Forget(i)
  BY <1>4, <1>8 DEF Tick, Disable, Forget, vars, stored, visiting
<1> QED
  BY <1>1, <1>2, <1>3, <1>5, <1>6, <1>7, <1>8 DEF Next, Arrive, Serve, Register, Over

LEMMA UniqueHolds == Spec => []Unique
  BY UniqueInit, UniqueStep, TypesHold, PTL DEF Spec

\* However registrations interleave, and in whatever case an address is
\* written, no two users share an e-mail.
THEOREM EmailsStayUnique == Spec => []OneUserPerEmail
<1>1. Unique => OneUserPerEmail
  BY DEF Unique
<1> QED
  BY <1>1, UniqueHolds, PTL

\* Users and accounts come together, account numbers are unique, and who was
\* told 201 has both.
THEOREM UsersHaveAccounts == Spec => []UserHasAccount
<1>1. TypeInv /\ Unique => UserHasAccount
  BY DEF TypeInv, Unique, Drawn, AccountsMatch, UserHasAccount
<1> QED
  BY <1>1, TypesHold, UniqueHolds, PTL

------------------------------------------------------------------------------
(* Sessions.                                                               *)

LEMMA LifetimesStep == TypeInv /\ Lifetimes /\ [Next]_vars => Lifetimes'
<1> SUFFICES ASSUME TypeInv, Lifetimes, [Next]_vars PROVE Lifetimes'
  OBVIOUS
<1> USE AccessConstants DEF TypeInv, TypeOK, Tokens
<1>1. ASSUME UNCHANGED tokens, now' = now \/ now' = now + 1 PROVE Lifetimes'
  BY <1>1 DEF Lifetimes, tokens
<1>2. ASSUME NEW v \in Visits, NEW i \in Ids, Issue(v, i), now' = now PROVE Lifetimes'
  BY <1>2 DEF Issue, Token, Lifetimes
<1>3. ASSUME NEW v \in Visits, Renew(v) PROVE Lifetimes'
  BY <1>1, <1>2, <1>3 DEF Renew
<1>4. ASSUME NEW v \in Visits, CommitLogin(v) PROVE Lifetimes'
  BY <1>2, <1>4 DEF CommitLogin, Drawn
<1> QED
  BY <1>1, <1>3, <1>4
  DEF Next, Arrive, Serve, Register, Over, RejectWeak, CheckEmail, Login, Enter, NoToken, InsertUser,
      InsertAccount, CommitRegistration, RefreshUser, VisitFails, Replay, Disable, Forget, Tick, vars

\* A visit that a token lets in is not later than that token's expiry.
LEMMA ServedByToken ==
  ASSUME TypeInv, Lifetimes, [Next]_vars, NEW v \in Visits,
         at[v] = "idle", answer'[v].serves # NoOne, ~answer'[v].replayed
  PROVE  now <= renewed[answer'[v].serves] + RefreshLife
<1> USE AccessConstants DEF TypeInv, TypeOK, Tokens
<1>1. ASSUME NEW t \in issued, Authentic(t) PROVE now <= renewed[t.sub] + RefreshLife
  BY <1>1 DEF Authentic, Expired, Lifetimes
<1>2. answer[v].serves = NoOne
  BY DEF Drawn
<1>3. ASSUME NEW w \in Visits, Renew(w) \/ Enter(w)
      PROVE  \E t \in issued : Authentic(t) /\ answer'[v].serves = t.sub
  BY <1>2, <1>3 DEF Renew, Enter, Issue, Answer
<1>4. \E w \in Visits : Renew(w) \/ Enter(w)
  <2>1. ASSUME NEW w \in Visits, RejectWeak(w) \/ NoToken(w) PROVE FALSE
    BY <1>2, <2>1 DEF RejectWeak, NoToken, Answer
  <2>6. ASSUME NEW w \in Visits, CheckEmail(w) PROVE FALSE
    BY <1>2, <2>6 DEF CheckEmail, Answer, Advance
  <2>2. ASSUME NEW w \in Visits, Login(w) PROVE FALSE
    <3>1. at[w] = "idle" /\ (Answer(w, 401, NoOne) \/ Advance(w, "login"))
      BY <2>2 DEF Login
    <3>2. CASE Answer(w, 401, NoOne)
      BY <1>2, <3>2 DEF Answer
    <3>3. CASE Advance(w, "login")
      BY <1>2, <3>3 DEF Advance
    <3> QED
      BY <3>1, <3>2, <3>3
  <2>3. ASSUME NEW w \in Visits, Register(w) \/ VisitFails(w) PROVE FALSE
    BY <1>2, <2>3 DEF Register, InsertUser, InsertAccount, CommitRegistration, RefreshUser,
                      VisitFails, Answer, Advance
  <2>7. ASSUME NEW w \in Visits, Replay(w) PROVE FALSE
    BY <1>2, <2>7 DEF Replay
  <2>4. ASSUME NEW w \in Visits, CommitLogin(w) PROVE FALSE
    BY <1>2, <2>4 DEF CommitLogin, Issue, Answer
  <2>5. CASE Tick \/ UNCHANGED vars \/ \E i \in Ids : Disable(i) \/ Forget(i)
    BY <1>2, <2>5 DEF Tick, Disable, Forget, vars, visiting
  <2> QED
    BY <2>1, <2>2, <2>3, <2>4, <2>5, <2>6, <2>7 DEF Next, Arrive, Serve, Over
<1> QED
  BY <1>1, <1>3, <1>4

\* Whatever the two lifetimes, the tokens of an idle session let nobody in once the
\* longer one is over.
THEOREM SessionsDoEnd == Spec => SessionsEnd
<1>1. Init => Lifetimes
  BY AccessConstants DEF Init, Lifetimes
<1>2. Spec => []Lifetimes
  BY <1>1, LifetimesStep, TypesHold, PTL DEF Spec
<1>3. TypeInv /\ Lifetimes /\ [Next]_vars =>
        [\A v \in Visits :
           at[v] = "idle" /\ answer'[v].serves # NoOne /\ ~answer'[v].replayed =>
             now <= renewed[answer'[v].serves] + RefreshLife]_vars
  BY ServedByToken
<1> QED
  BY <1>2, <1>3, TypesHold, PTL DEF Spec, SessionsEnd

------------------------------------------------------------------------------
(* Disabled users.                                                         *)

\* Visit v has nothing to do with user i, who is disabled for good, but for a
\* replay of an earlier answer.
Apart(v, i) ==
  /\ Exists(i) /\ i \notin enabled
  /\ answer[v].serves = i => answer[v].replayed
  /\ at[v] \in Registering \cup {"refresh", "login"} => who[v] # i

LEMMA ApartStep ==
  ASSUME NEW v \in Visits, NEW i \in Ids, TypeInv, Apart(v, i), [Next]_vars
  PROVE  Apart(v, i)'
<1> USE AccessConstants DEF TypeInv, TypeOK, Apart, Registering
<1>1. ASSUME NEW w \in Visits, RejectWeak(w) \/ NoToken(w) \/ VisitFails(w) PROVE Apart(v, i)'
  BY <1>1 DEF RejectWeak, NoToken, VisitFails, Answer, stored, Exists
<1>2. ASSUME NEW w \in Visits, CheckEmail(w) PROVE Apart(v, i)'
  BY <1>2 DEF CheckEmail, Answer, Advance, stored, Exists
<1>3. ASSUME NEW w \in Visits, Login(w) PROVE Apart(v, i)'
  BY <1>3 DEF Login, Knows, Answer, Advance, stored, Exists
<1>4. ASSUME NEW w \in Visits, InsertUser(w) \/ InsertAccount(w) PROVE Apart(v, i)'
  <2>1. at[w] \in Registering /\ UNCHANGED <<stored, tokens, now>>
    BY <1>4 DEF InsertUser, InsertAccount
  <2>2. CASE Answer(w, 500, NoOne)
    BY <2>1, <2>2 DEF Answer, stored, Exists
  <2>3. CASE UNCHANGED who /\ (Advance(w, "account") \/ Advance(w, "commit"))
    BY <2>1, <2>3 DEF Advance, stored, Exists
  <2> QED
    BY <1>4, <2>2, <2>3 DEF InsertUser, InsertAccount
<1>5. ASSUME NEW w \in Visits, CommitRegistration(w) PROVE Apart(v, i)'
  <2>1. /\ at[w] = "commit" /\ who[w] \in Ids /\ who[w] # i /\ NewUser(w) # NoUser
        /\ users' = [users EXCEPT ![who[w]] = NewUser(w)]
        /\ enabled' = enabled \cup {who[w]}
        /\ at' = [at EXCEPT ![w] = "refresh"] /\ UNCHANGED <<who, answer>>
    BY <1>5 DEF CommitRegistration, Advance, Drawn, Exists, NewUser, Email, UserRows, Requests, Roles
  <2> QED
    BY <2>1 DEF Exists
<1>6. ASSUME NEW w \in Visits, RefreshUser(w) PROVE Apart(v, i)'
  BY <1>6 DEF RefreshUser, Answer, stored, Exists
<1>7. ASSUME NEW w \in Visits, CommitLogin(w) PROVE Apart(v, i)'
  BY <1>7 DEF CommitLogin, Issue, Answer, stored, Exists
<1>8. ASSUME NEW w \in Visits, Renew(w) PROVE Apart(v, i)'
  <2>1. PICK t \in issued :
          IF Authentic(t) THEN Issue(w, t.sub) ELSE Answer(w, 401, NoOne) /\ UNCHANGED tokens
    BY <1>8 DEF Renew
  <2>2. PICK j \in Ids \cup {NoOne}, code \in {200, 401} : Answer(w, code, j) /\ j # i
    BY <2>1 DEF Authentic, Issue
  <2> QED
    BY <1>8, <2>2 DEF Renew, Answer, stored, Exists
<1>9. ASSUME NEW w \in Visits, Enter(w) PROVE Apart(v, i)'
  <2>1. PICK j \in Ids \cup {NoOne}, code \in {200, 201, 401, 403} : Answer(w, code, j) /\ j # i
    BY <1>9 DEF Enter, Authentic
  <2> QED
    BY <1>9, <2>1 DEF Enter, Answer, stored, Exists
<1>10. CASE Tick \/ UNCHANGED vars \/ \E j \in Ids : Disable(j) \/ Forget(j)
  BY <1>10 DEF Tick, Disable, Forget, vars, stored, visiting, Exists
<1>11. ASSUME NEW w \in Visits, Replay(w) PROVE Apart(v, i)'
  BY <1>11 DEF Replay, stored, Exists
<1> QED
  BY <1>1, <1>2, <1>3, <1>4, <1>5, <1>6, <1>7, <1>8, <1>9, <1>10,
     <1>11
  DEF Next, Arrive, Serve, Register, Over

\* Whoever was disabled before a visit begins is not served by it, whatever tokens
\* and half-done logins there are; only the middleware may replay an earlier answer.
THEOREM DisabledStayOut == Spec => LockedOut
<1> SUFFICES ASSUME NEW v \in Visits, NEW i \in Ids
             PROVE  Spec => [](at[v] = "idle" /\ Exists(i) /\ i \notin enabled
                               => [](answer[v].serves = i => answer[v].replayed))
  BY DEF LockedOut
<1>1. TypeInv /\ at[v] = "idle" /\ Exists(i) /\ i \notin enabled => Apart(v, i)
  BY AccessConstants DEF TypeInv, Drawn, Apart, Registering
<1>2. Apart(v, i) => (answer[v].serves = i => answer[v].replayed)
  BY DEF Apart
<1>3. TypeInv /\ Apart(v, i) /\ [Next]_vars => Apart(v, i)'
  BY ApartStep
<1> QED
  BY <1>1, <1>2, <1>3, TypesHold, PTL DEF Spec
==============================================================================
