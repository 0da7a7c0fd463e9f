--------------------------- MODULE TaskQueueProofs ---------------------------
(***************************************************************************)
(* What holds of the task queue for any jobs, limits, slots and losses.    *)
(*                                                                         *)
(* NothingLost is not inductive: the message that still stands for a job   *)
(* may be one that waits for its acknowledgement only.  InQueue says that  *)
(* it is not: whoever settles a message has first stored a result, or      *)
(* published the next message, in the same step.  Fresh is needed besides: *)
(* a task that starts takes the job's result back, so the message it       *)
(* starts from must be one that the broker holds.                          *)
(*                                                                         *)
(* What peers see is a count over the bag: every message from which a call *)
(* may still come, copies counted, is one call owed (Owed).  Only a late   *)
(* answer, a lost process and a lost connection let a call be made twice.  *)
(***************************************************************************)
EXTENDS TaskQueue, Counting, TLAPS

\* A job without a result has a message that is neither settled nor stale.
InQueue ==
  \A j \in Jobs :
    status[j] = "pending" =>
      \/ j \in rejected
      \/ \E m \in BagToSet(messages) : m.job = j /\ ~m.stale /\ m.stage # "settled"

\* Only a message in a worker's hands can be stale.
Fresh == \A m \in BagToSet(messages) : m.stage = "queued" => ~m.stale

\* A message knows how often its job was refused before it, and a caught error
\* is one refusal more.
Counted ==
  \A m \in BagToSet(messages) :
    /\ refusals[m.job] >= m.retries
    /\ m.stage = "refused" => refusals[m.job] > m.retries

\* The due date of a message respects the countdowns before it, and only a
\* message that was due is in a worker's hands.
Spaced ==
  \A m \in BagToSet(messages) :
    /\ m.due >= since[m.job] + Waited(Kind[m.job], m.retries)
    /\ InHand(m) => m.due <= clock

Sent == \A m \in BagToSet(messages) : status[m.job] \notin {"never", "unsent"}

QInv ==
  /\ TypeOK /\ InQueue /\ Fresh /\ Counted /\ Spaced /\ Sent
  /\ AttemptsExhausted /\ GivenUpLate

MessageType == [job : Jobs, retries : Nat, due : Nat, stage : Stages, stale : BOOLEAN]

------------------------------------------------------------------------------
(* Countdowns.                                                             *)

\* Each countdown adds its delay to what was waited before.
LEMMA CountdownsAddUp ==
  ASSUME NEW kind
  PROVE  /\ Waited(kind, 0) = 0
         /\ \A n \in Nat : /\ Waited(kind, n) \in Int
                          /\ Countdown(kind, n) \in Nat
                          /\ Waited(kind, n + 1) = Waited(kind, n) + Countdown(kind, n)
BY Doubling DEF Waited, Countdown

------------------------------------------------------------------------------
(* Bags.                                                                   *)

LEMMA AddedToBag ==
  ASSUME NEW B, IsABag(B), NEW x
  PROVE  /\ IsABag(BagAdd(B, x))
         /\ BagToSet(BagAdd(B, x)) = BagToSet(B) \cup {x}
BY DEF IsABag, BagAdd, BagToSet

LEMMA RemovedFromBag ==
  ASSUME NEW B, IsABag(B), NEW x
  PROVE  /\ IsABag(BagRemove(B, x))
         /\ BagToSet(BagRemove(B, x)) \subseteq BagToSet(B)
         /\ \A y \in BagToSet(B) : y # x => y \in BagToSet(BagRemove(B, x))
BY DEF IsABag, BagRemove, BagToSet

\* A message that moves to another stage leaves the others where they are.
LEMMA MovedMessage ==
  ASSUME TypeOK, NEW m \in BagToSet(messages), NEW stage \in Stages,
         Moves(m, stage)
  PROVE  LET moved == [m EXCEPT !.stage = stage]
         IN  /\ IsABag(messages')
             /\ BagToSet(messages') \subseteq BagToSet(messages) \cup {moved}
             /\ BagToSet(messages') \subseteq MessageType
             /\ moved \in BagToSet(messages')
             /\ \A y \in BagToSet(messages) : y # m => y \in BagToSet(messages')
             /\ moved.job = m.job /\ moved.retries = m.retries /\ moved.stage = stage
             /\ moved.stale = m.stale
<1> DEFINE moved == [m EXCEPT !.stage = stage]
           rest == BagRemove(messages, m)
<1>1. m \in MessageType /\ IsABag(messages) /\ BagToSet(messages) \subseteq MessageType
  BY DEF TypeOK, MessageType
<1>2. /\ moved \in MessageType
      /\ moved.job = m.job /\ moved.retries = m.retries /\ moved.stage = stage
      /\ moved.stale = m.stale
  BY <1>1 DEF MessageType
<1>3. messages' = BagAdd(rest, moved)
  BY DEF Moves
<1>4. /\ IsABag(rest)
      /\ BagToSet(rest) \subseteq BagToSet(messages)
      /\ \A y \in BagToSet(messages) : y # m => y \in BagToSet(rest)
  BY <1>1, RemovedFromBag
<1> HIDE DEF moved, rest
<1>5. /\ IsABag(messages')
      /\ BagToSet(messages') = BagToSet(rest) \cup {moved}
  BY <1>3, <1>4, AddedToBag
<1>6. /\ BagToSet(messages') \subseteq BagToSet(messages) \cup {moved}
      /\ BagToSet(messages') \subseteq MessageType
      /\ moved \in BagToSet(messages')
      /\ \A y \in BagToSet(messages) : y # m => y \in BagToSet(messages')
  BY <1>1, <1>2, <1>4, <1>5
<1> QED BY <1>2, <1>5, <1>6 DEF moved

\* A retry settles its message and adds the next one.
LEMMA RetriedMessage ==
  ASSUME TypeOK, NEW m \in BagToSet(messages), Retry(m)
  PROVE  \E old, next \in MessageType :
           /\ IsABag(messages')
           /\ BagToSet(messages') \subseteq BagToSet(messages) \cup {old, next}
           /\ next \in BagToSet(messages')
           /\ \A y \in BagToSet(messages) : y # m => y \in BagToSet(messages')
           /\ old.job = m.job /\ old.retries = m.retries /\ old.due = m.due
           /\ old.stage = "settled"
           /\ next.job = m.job /\ next.retries = m.retries + 1
           /\ next.due = clock + Countdown(Kind[m.job], m.retries)
           /\ next.stage = "queued" /\ ~next.stale
<1> DEFINE old == [m EXCEPT !.stage = "settled"]
           delay == Countdown(Kind[m.job], m.retries)
           next == Message(m.job, m.retries + 1, clock + delay)
           rest == BagRemove(messages, m)
<1>1. m \in MessageType /\ IsABag(messages) /\ clock \in Nat
  BY DEF TypeOK, MessageType
<1>2. old \in MessageType /\ old.job = m.job /\ old.retries = m.retries
      /\ old.due = m.due /\ old.stage = "settled"
  BY <1>1 DEF MessageType, Stages
<1>3. delay \in Nat
  <2>1. m.retries \in Nat  BY <1>1 DEF MessageType
  <2> QED BY <2>1, CountdownsAddUp
<1> HIDE DEF delay
<1>4. next \in MessageType /\ next.job = m.job /\ next.retries = m.retries + 1
      /\ next.due = clock + delay /\ next.stage = "queued" /\ ~next.stale
  BY <1>1, <1>3 DEF MessageType, Message, Stages
<1>5. messages' = BagAdd(BagAdd(rest, old), next)
  BY DEF Retry, delay
<1>6. /\ IsABag(rest)
      /\ BagToSet(rest) \subseteq BagToSet(messages)
      /\ \A y \in BagToSet(messages) : y # m => y \in BagToSet(rest)
  BY <1>1, RemovedFromBag
<1> HIDE DEF old, next, rest
<1>7. /\ IsABag(BagAdd(rest, old))
      /\ BagToSet(BagAdd(rest, old)) = BagToSet(rest) \cup {old}
  BY <1>6, AddedToBag
<1>8. /\ IsABag(messages')
      /\ BagToSet(messages') = BagToSet(rest) \cup {old, next}
  <2>1. /\ IsABag(BagAdd(BagAdd(rest, old), next))
        /\ BagToSet(BagAdd(BagAdd(rest, old), next)) = BagToSet(BagAdd(rest, old)) \cup {next}
    BY <1>7, AddedToBag
  <2> QED BY <2>1, <1>5, <1>7
<1>9. /\ BagToSet(messages') \subseteq BagToSet(messages) \cup {old, next}
      /\ next \in BagToSet(messages')
      /\ \A y \in BagToSet(messages) : y # m => y \in BagToSet(messages')
  BY <1>6, <1>8
<1> QED BY <1>2, <1>4, <1>8, <1>9 DEF delay

\* A lost connection leaves a stale message in the worker's hands and puts a
\* copy of it back into the queue.
LEMMA CopiedMessage ==
  ASSUME TypeOK, NEW m \in BagToSet(messages), ConnectionLost(m)
  PROVE  \E old, copy \in MessageType :
           /\ IsABag(messages')
           /\ BagToSet(messages') \subseteq BagToSet(messages) \cup {old, copy}
           /\ copy \in BagToSet(messages')
           /\ \A y \in BagToSet(messages) : y # m => y \in BagToSet(messages')
           /\ old.job = m.job /\ old.retries = m.retries /\ old.due = m.due
           /\ old.stage = m.stage
           /\ copy.job = m.job /\ copy.retries = m.retries /\ copy.due = m.due
           /\ copy.stage = "queued" /\ ~copy.stale
<1> DEFINE old == [m EXCEPT !.stale = TRUE]
           copy == [m EXCEPT !.stage = "queued"]
           rest == BagRemove(messages, m)
<1>1. m \in MessageType /\ IsABag(messages)
  BY DEF TypeOK, MessageType
<1>2. old \in MessageType /\ old.job = m.job /\ old.retries = m.retries
      /\ old.due = m.due /\ old.stage = m.stage
  BY <1>1 DEF MessageType
<1>3. ~m.stale /\ messages' = BagAdd(BagAdd(rest, old), copy)
  BY DEF ConnectionLost
<1>4. copy \in MessageType /\ copy.job = m.job /\ copy.retries = m.retries
      /\ copy.due = m.due /\ copy.stage = "queued" /\ ~copy.stale
  BY <1>1, <1>3 DEF MessageType, Stages
<1>5. /\ IsABag(rest)
      /\ BagToSet(rest) \subseteq BagToSet(messages)
      /\ \A y \in BagToSet(messages) : y # m => y \in BagToSet(rest)
  BY <1>1, RemovedFromBag
<1> HIDE DEF old, copy, rest
<1>6. /\ IsABag(BagAdd(rest, old))
      /\ BagToSet(BagAdd(rest, old)) = BagToSet(rest) \cup {old}
  BY <1>5, AddedToBag
<1>7. /\ IsABag(messages')
      /\ BagToSet(messages') = BagToSet(rest) \cup {old, copy}
  <2>1. /\ IsABag(BagAdd(BagAdd(rest, old), copy))
        /\ BagToSet(BagAdd(BagAdd(rest, old), copy)) = BagToSet(BagAdd(rest, old)) \cup {copy}
    BY <1>6, AddedToBag
  <2> QED BY <2>1, <1>3, <1>6
<1>8. /\ BagToSet(messages') \subseteq BagToSet(messages) \cup {old, copy}
      /\ copy \in BagToSet(messages')
      /\ \A y \in BagToSet(messages) : y # m => y \in BagToSet(messages')
  BY <1>5, <1>7
<1> QED BY <1>2, <1>4, <1>7, <1>8

\* So does one that leaves.
LEMMA RemovedMessage ==
  ASSUME TypeOK, NEW m \in BagToSet(messages), messages' = BagRemove(messages, m)
  PROVE  /\ IsABag(messages')
         /\ BagToSet(messages') \subseteq BagToSet(messages)
         /\ \A y \in BagToSet(messages) : y # m => y \in BagToSet(messages')
BY RemovedFromBag DEF TypeOK

------------------------------------------------------------------------------
(* The steps.                                                              *)

LEMMA MessageTyped ==
  ASSUME TypeOK, NEW m \in BagToSet(messages)
  PROVE  /\ m \in MessageType
         /\ m.job \in Jobs /\ m.retries \in Nat /\ m.due \in Nat /\ m.stage \in Stages
         /\ m.stale \in BOOLEAN
         /\ Kind[m.job] \in Kinds /\ Limit[Kind[m.job]] \in Nat
         /\ since[m.job] \in Nat /\ refusals[m.job] \in Nat /\ clock \in Nat
         /\ Waited(Kind[m.job], m.retries) \in Int
<1>1. m \in MessageType  BY DEF TypeOK, MessageType
<1>2. m.job \in Jobs /\ m.retries \in Nat /\ m.due \in Nat /\ m.stage \in Stages
      /\ m.stale \in BOOLEAN
  BY <1>1 DEF MessageType
<1>3. Waited(Kind[m.job], m.retries) \in Int  BY <1>2, CountdownsAddUp
<1> QED BY <1>1, <1>2, <1>3, TaskQueueAssumption DEF TypeOK

LEMMA InitInv == Init => QInv
<1> SUFFICES ASSUME Init PROVE QInv  OBVIOUS
<1>1. IsABag(messages) /\ BagToSet(messages) = {}
  BY DEF Init, EmptyBag, SetToBag, IsABag, BagToSet
<1>2. PICK jobs \in Schedules :
        status = [j \in Jobs |-> IF j \in jobs THEN "unsent" ELSE "never"]
  BY DEF Init
<1>3. /\ status \in [Jobs -> {"never", "unsent", "pending", "success", "failure"}]
      /\ \A j \in Jobs : status[j] # "pending" /\ status[j] # "failure"
  BY <1>2
<1>4. TypeOK  BY <1>1, <1>3 DEF Init, TypeOK
<1>5. InQueue /\ AttemptsExhausted /\ GivenUpLate
  BY <1>3 DEF InQueue, AttemptsExhausted, GivenUpLate, Callable
<1>6. Fresh /\ Counted /\ Spaced /\ Sent  BY <1>1 DEF Fresh, Counted, Spaced, Sent
<1> QED BY <1>4, <1>5, <1>6 DEF QInv

\* A message moves to another stage, with or without a new status, a refusal or a
\* loss to note: all that happens between taking a message and settling it.
Statuses == {"never", "unsent", "pending", "success", "failure"}

StageChange(m, stage) ==
  /\ stage \in Stages
  /\ Moves(m, stage)
  /\ stage # "queued" => m.due <= clock
  /\ stage = "queued" => ~m.stale
  /\ since' = since /\ cut' = cut /\ rejected' = rejected /\ clock' = clock
  /\ received' \in [Jobs -> Nat] /\ late' \in [Jobs -> Nat] /\ lost' \in [Jobs -> Nat]
  /\ refusals' \in [Jobs -> Nat] /\ status' \in [Jobs -> Statuses]
  /\ \A j \in Jobs : refusals'[j] >= refusals[j]
  /\ stage = "refused" => refusals'[m.job] > m.retries
  /\ \A j \in Jobs : j # m.job => status'[j] = status[j]
  /\ status'[m.job] \in {status[m.job], "pending", "success", "failure"}
  /\ stage = "settled" => status'[m.job] # "pending"
  /\ status'[m.job] = "pending" => status[m.job] = "pending" \/ ~m.stale
  /\ m.job \in Callable /\ status'[m.job] = "failure" /\ status[m.job] # "failure"
       => m.stage = "refused" /\ m.retries = Limit[Kind[m.job]]

LEMMA StageStep ==
  ASSUME QInv, NEW m \in BagToSet(messages), NEW stage, StageChange(m, stage)
  PROVE  QInv'
<1> DEFINE moved == [m EXCEPT !.stage = stage]
<1>0. /\ stage \in Stages /\ Moves(m, stage)
      /\ stage # "queued" => m.due <= clock
      /\ stage = "queued" => ~m.stale
      /\ UNCHANGED <<since, cut, rejected, clock>>
      /\ received' \in [Jobs -> Nat] /\ late' \in [Jobs -> Nat] /\ lost' \in [Jobs -> Nat]
      /\ refusals' \in [Jobs -> Nat] /\ status' \in [Jobs -> Statuses]
      /\ \A j \in Jobs : refusals'[j] >= refusals[j]
      /\ stage = "refused" => refusals'[m.job] > m.retries
      /\ stage = "settled" => status'[m.job] # "pending"
      /\ status'[m.job] = "pending" => status[m.job] = "pending" \/ ~m.stale
      /\ \A j \in Jobs : status'[j] = status[j]
                         \/ (j = m.job /\ status'[j] \in {"pending", "success", "failure"})
  <2>1. ASSUME NEW j \in Jobs
        PROVE  \/ status'[j] = status[j]
               \/ j = m.job /\ status'[j] \in {"pending", "success", "failure"}
    <3>1. CASE j = m.job  BY <3>1 DEF StageChange
    <3>2. CASE j # m.job  BY <3>2 DEF StageChange
    <3> QED BY <3>1, <3>2
  <2>2. /\ stage \in Stages /\ Moves(m, stage)
        /\ stage # "queued" => m.due <= clock
        /\ stage = "queued" => ~m.stale
        /\ UNCHANGED <<since, cut, rejected, clock>>
    BY DEF StageChange
  <2>3. /\ received' \in [Jobs -> Nat] /\ late' \in [Jobs -> Nat] /\ lost' \in [Jobs -> Nat]
        /\ refusals' \in [Jobs -> Nat] /\ status' \in [Jobs -> Statuses]
        /\ \A j \in Jobs : refusals'[j] >= refusals[j]
        /\ stage = "refused" => refusals'[m.job] > m.retries
        /\ stage = "settled" => status'[m.job] # "pending"
        /\ status'[m.job] = "pending" => status[m.job] = "pending" \/ ~m.stale
    BY DEF StageChange
  <2> QED BY <2>1, <2>2, <2>3
<1>1. TypeOK /\ InQueue /\ Fresh /\ Counted /\ Spaced /\ Sent /\ AttemptsExhausted
      /\ GivenUpLate
  BY DEF QInv
<1>2. /\ IsABag(messages')
      /\ BagToSet(messages') \subseteq BagToSet(messages) \cup {moved}
      /\ BagToSet(messages') \subseteq MessageType
      /\ moved \in BagToSet(messages')
      /\ \A y \in BagToSet(messages) : y # m => y \in BagToSet(messages')
      /\ moved.job = m.job /\ moved.retries = m.retries /\ moved.stage = stage
      /\ moved.stale = m.stale
  BY <1>0, <1>1, MovedMessage
<1>3. /\ m \in MessageType
      /\ m.job \in Jobs /\ m.retries \in Nat /\ m.due \in Nat
      /\ Limit[Kind[m.job]] \in Nat /\ since[m.job] \in Nat /\ clock \in Nat
      /\ Waited(Kind[m.job], m.retries) \in Int
  BY <1>1, MessageTyped
<1>4. moved.due = m.due  BY <1>3 DEF MessageType
<1> HIDE DEF moved
<1>5. TypeOK'
  BY <1>0, <1>1, <1>2 DEF TypeOK, MessageType, Statuses
<1>6. InQueue'
  <2> SUFFICES ASSUME NEW j \in Jobs, status'[j] = "pending", j \notin rejected
               PROVE  \E y \in BagToSet(messages') :
                        y.job = j /\ ~y.stale /\ y.stage # "settled"
    BY <1>0 DEF InQueue
  <2>1. CASE status[j] = "pending"
    <3>1. PICK y \in BagToSet(messages) : y.job = j /\ ~y.stale /\ y.stage # "settled"
      BY <2>1, <1>1 DEF InQueue
    <3>2. CASE y = m
      <4>1. stage # "settled"  BY <1>0, <3>1, <3>2
      <4> QED BY <4>1, <3>1, <3>2, <1>2
    <3>3. CASE y # m  BY <3>1, <3>3, <1>2
    <3> QED BY <3>2, <3>3
  <2>2. CASE status[j] # "pending"
    <3>1. j = m.job /\ ~m.stale /\ stage # "settled"  BY <1>0, <2>2
    <3> QED BY <3>1, <1>2
  <2> QED BY <2>1, <2>2
<1>12. Fresh'  BY <1>0, <1>1, <1>2 DEF Fresh
<1>7. Counted'
  <2> SUFFICES ASSUME NEW y \in BagToSet(messages')
               PROVE  /\ refusals'[y.job] >= y.retries
                      /\ y.stage = "refused" => refusals'[y.job] > y.retries
    BY DEF Counted
  <2>1. CASE y \in BagToSet(messages)
    <3>1. y.job \in Jobs /\ y.retries \in Nat /\ refusals[y.job] \in Nat
      BY <2>1, <1>1, MessageTyped
    <3>2. refusals'[y.job] >= refusals[y.job] /\ refusals'[y.job] \in Nat  BY <1>0, <3>1
    <3>3. /\ refusals[y.job] >= y.retries
          /\ y.stage = "refused" => refusals[y.job] > y.retries
      BY <2>1, <1>1 DEF Counted
    <3> QED BY <3>1, <3>2, <3>3
  <2>2. CASE y = moved
    <3>1. refusals[m.job] >= m.retries /\ refusals[m.job] \in Nat
      BY <1>1, MessageTyped DEF Counted
    <3>2. refusals'[m.job] >= refusals[m.job] /\ refusals'[m.job] \in Nat  BY <1>0, <1>3
    <3> QED BY <3>1, <3>2, <2>2, <1>0, <1>2, <1>3
  <2> QED BY <2>1, <2>2, <1>2
<1>8. Spaced'
  <2>1. \A y \in BagToSet(messages') :
          /\ y.due >= since[y.job] + Waited(Kind[y.job], y.retries)
          /\ InHand(y) => y.due <= clock
    <3> TAKE y \in BagToSet(messages')
    <3>1. CASE y \in BagToSet(messages)  BY <3>1, <1>1 DEF Spaced
    <3>2. CASE y = moved
      <4>1. m.due >= since[m.job] + Waited(Kind[m.job], m.retries)
        BY <1>1 DEF Spaced
      <4> QED BY <4>1, <3>2, <1>0, <1>2, <1>4 DEF InHand
    <3> QED BY <3>1, <3>2, <1>2
  <2> QED BY <2>1, <1>0 DEF Spaced, InHand
<1>9. Sent'
  <2> SUFFICES ASSUME NEW y \in BagToSet(messages')
               PROVE  status'[y.job] \notin {"never", "unsent"}
    BY DEF Sent
  <2>1. \E z \in BagToSet(messages) : z.job = y.job  BY <1>2
  <2>2. status[y.job] \notin {"never", "unsent"}  BY <2>1, <1>1 DEF Sent
  <2>3. y.job \in Jobs  BY <2>1, <1>1, MessageTyped
  <2> QED BY <2>2, <2>3, <1>0
<1>10. ASSUME NEW j \in Callable, status'[j] = "failure"
       PROVE  /\ refusals'[j] > Limit[Kind[j]]
              /\ clock >= since[j] + Waited(Kind[j], Limit[Kind[j]])
  <2>0. j \in Jobs  BY DEF Callable
  <2>1. /\ refusals'[j] >= refusals[j] /\ refusals'[j] \in Nat /\ refusals[j] \in Nat
        /\ Limit[Kind[j]] \in Nat
    BY <1>0, <1>1, <2>0, TaskQueueAssumption DEF TypeOK
  <2>2. CASE status[j] = "failure"
    BY <2>1, <2>2, <1>1 DEF AttemptsExhausted, GivenUpLate
  <2>3. CASE status[j] # "failure"
    <3>1. j = m.job  BY <1>0, <1>10, <2>0, <2>3
    <3>2. m.stage = "refused" /\ m.retries = Limit[Kind[j]]
      BY <3>1, <2>3, <1>10 DEF StageChange
    <3>3. refusals[j] > m.retries  BY <3>1, <3>2, <1>1 DEF Counted
    <3>4. m.due <= clock /\ m.due >= since[j] + Waited(Kind[j], m.retries)
      BY <3>1, <3>2, <1>1 DEF Spaced, InHand
    <3> QED BY <2>1, <3>1, <3>2, <3>3, <3>4, <1>3
  <2> QED BY <2>2, <2>3
<1>11. AttemptsExhausted' /\ GivenUpLate'
  BY <1>0, <1>10 DEF AttemptsExhausted, GivenUpLate
<1> QED BY <1>5, <1>6, <1>7, <1>8, <1>9, <1>11, <1>12 DEF QInv

\* A message leaves the queue: it was settled, or stale, or it is rejected; and if
\* that is the job's end, no task is known for it.
LEMMA RemovalStep ==
  ASSUME QInv, NEW m \in BagToSet(messages), messages' = BagRemove(messages, m),
         rejected' = rejected \/ rejected' = rejected \cup {m.job},
         m.stage = "settled" \/ m.stale \/ m.job \in rejected',
         status' = status \/ (status' = Fails(m.job) /\ m.job \notin Callable),
         lost' \in [Jobs -> Nat],
         UNCHANGED <<since, received, late, refusals, cut, clock>>
  PROVE  QInv'
<1>1. TypeOK /\ InQueue /\ Fresh /\ Counted /\ Spaced /\ Sent /\ AttemptsExhausted
      /\ GivenUpLate
  BY DEF QInv
<1>2. /\ IsABag(messages')
      /\ BagToSet(messages') \subseteq BagToSet(messages)
      /\ \A y \in BagToSet(messages) : y # m => y \in BagToSet(messages')
  BY <1>1, RemovedMessage
<1>3. m.job \in Jobs  BY <1>1, MessageTyped
<1>4. /\ status' \in [Jobs -> Statuses]
      /\ \A j \in Jobs :
           \/ status'[j] = status[j]
           \/ j = m.job /\ j \notin Callable /\ status'[j] \in {"success", "failure"}
  <2>1. status \in [Jobs -> Statuses]  BY <1>1 DEF TypeOK, Statuses
  <2> QED BY <2>1, <1>3 DEF Fails, Statuses
<1>5. TypeOK'  BY <1>1, <1>2, <1>3, <1>4 DEF TypeOK, Statuses
<1>6. InQueue'
  <2> SUFFICES ASSUME NEW j \in Jobs, status'[j] = "pending", j \notin rejected'
               PROVE  \E y \in BagToSet(messages') :
                        y.job = j /\ ~y.stale /\ y.stage # "settled"
    BY DEF InQueue
  <2>1. status[j] = "pending" /\ j \notin rejected  BY <1>4
  <2>2. PICK y \in BagToSet(messages) : y.job = j /\ ~y.stale /\ y.stage # "settled"
    BY <2>1, <1>1 DEF InQueue
  <2>3. y # m  BY <2>2
  <2> QED BY <2>2, <2>3, <1>2
<1>7. Fresh' /\ Counted'  BY <1>1, <1>2 DEF Fresh, Counted
<1>8. Sent'
  <2> SUFFICES ASSUME NEW y \in BagToSet(messages')
               PROVE  status'[y.job] \notin {"never", "unsent"}
    BY DEF Sent
  <2>1. y.job \in Jobs /\ status[y.job] \notin {"never", "unsent"}
    BY <1>1, <1>2, MessageTyped DEF Sent
  <2> QED BY <2>1, <1>4
<1>9. Spaced'  BY <1>1, <1>2 DEF Spaced, InHand
<1>10. AttemptsExhausted' /\ GivenUpLate'
  <2>1. \A j \in Callable : j \in Jobs /\ status'[j] = status[j]  BY <1>4 DEF Callable
  <2> QED BY <2>1, <1>1 DEF AttemptsExhausted, GivenUpLate
<1> QED BY <1>5, <1>6, <1>7, <1>8, <1>9, <1>10 DEF QInv

\* A retry: the refusals its message counts are one more, and its due date adds
\* the countdown to a clock that has reached the previous one.
LEMMA RetryStep ==
  ASSUME QInv, NEW m \in BagToSet(messages), Retry(m)
  PROVE  QInv'
<1>1. TypeOK /\ InQueue /\ Fresh /\ Counted /\ Spaced /\ Sent /\ AttemptsExhausted
      /\ GivenUpLate
  BY DEF QInv
<1>2. /\ m.stage = "refused" /\ status' = Begun(m.job)
      /\ UNCHANGED <<since, received, late, refusals, lost, cut, rejected, clock>>
  BY DEF Retry, counters
<1>3. PICK old, next \in MessageType :
        /\ IsABag(messages')
        /\ BagToSet(messages') \subseteq BagToSet(messages) \cup {old, next}
        /\ next \in BagToSet(messages')
        /\ \A y \in BagToSet(messages) : y # m => y \in BagToSet(messages')
        /\ old.job = m.job /\ old.retries = m.retries /\ old.due = m.due
        /\ old.stage = "settled"
        /\ next.job = m.job /\ next.retries = m.retries + 1
        /\ next.due = clock + Countdown(Kind[m.job], m.retries)
        /\ next.stage = "queued" /\ ~next.stale
  BY <1>1, RetriedMessage
<1>4. /\ m.job \in Jobs /\ m.retries \in Nat /\ m.due \in Nat
      /\ since[m.job] \in Nat /\ refusals[m.job] \in Nat /\ clock \in Nat
      /\ Waited(Kind[m.job], m.retries) \in Int
  BY <1>1, MessageTyped
<1>5. /\ refusals[m.job] > m.retries
      /\ m.due >= since[m.job] + Waited(Kind[m.job], m.retries) /\ m.due <= clock
  BY <1>1, <1>2 DEF Counted, Spaced, InHand
<1>12. /\ status' \in [Jobs -> Statuses]
       /\ status'[m.job] \in {"pending", "success"}
       /\ \A j \in Jobs : j # m.job => status'[j] = status[j]
  <2>1. status \in [Jobs -> Statuses]  BY <1>1 DEF TypeOK, Statuses
  <2> QED BY <2>1, <1>2, <1>4 DEF Begun, Statuses
<1>6. TypeOK'
  BY <1>1, <1>2, <1>3, <1>12 DEF TypeOK, MessageType, Statuses
<1>7. InQueue'
  <2> SUFFICES ASSUME NEW j \in Jobs, status'[j] = "pending", j \notin rejected
               PROVE  \E y \in BagToSet(messages') :
                        y.job = j /\ ~y.stale /\ y.stage # "settled"
    BY <1>2 DEF InQueue
  <2>1. CASE j = m.job  BY <2>1, <1>3
  <2>2. CASE j # m.job
    <3>1. status[j] = "pending"  BY <2>2, <1>12
    <3>2. PICK y \in BagToSet(messages) : y.job = j /\ ~y.stale /\ y.stage # "settled"
      BY <3>1, <1>1 DEF InQueue
    <3> QED BY <3>2, <2>2, <1>3
  <2> QED BY <2>1, <2>2
<1>13. Fresh'
  <2>1. old.stage # "queued"  BY <1>3
  <2> QED BY <2>1, <1>1, <1>3 DEF Fresh
<1>8. Counted'
  <2>1. refusals[old.job] >= old.retries /\ old.stage # "refused"
    BY <1>3, <1>4, <1>5
  <2>2. refusals[next.job] >= next.retries /\ next.stage # "refused"
    BY <1>3, <1>4, <1>5
  <2> QED BY <1>1, <1>2, <1>3, <2>1, <2>2 DEF Counted
<1>9. Spaced'
  <2>1. /\ old.due >= since[old.job] + Waited(Kind[old.job], old.retries)
        /\ old.due <= clock
    BY <1>3, <1>5
  <2>2. /\ next.due >= since[next.job] + Waited(Kind[next.job], next.retries)
        /\ next.stage = "queued"
    <3>1. /\ Waited(Kind[m.job], m.retries + 1)
               = Waited(Kind[m.job], m.retries) + Countdown(Kind[m.job], m.retries)
          /\ Countdown(Kind[m.job], m.retries) \in Nat
      BY <1>4, CountdownsAddUp
    <3>2. clock + Countdown(Kind[m.job], m.retries)
            >= since[m.job] + Waited(Kind[m.job], m.retries + 1)
      BY <3>1, <1>4, <1>5
    <3> QED BY <3>2, <1>3
  <2> QED BY <1>1, <1>2, <1>3, <2>1, <2>2 DEF Spaced, InHand
<1>10. Sent'
  <2> SUFFICES ASSUME NEW y \in BagToSet(messages')
               PROVE  status'[y.job] \notin {"never", "unsent"}
    BY DEF Sent
  <2>1. CASE y.job = m.job  BY <2>1, <1>12
  <2>2. CASE y.job # m.job
    <3>1. y \in BagToSet(messages)  BY <2>2, <1>3
    <3>2. y.job \in Jobs /\ status[y.job] \notin {"never", "unsent"}
      BY <3>1, <1>1, MessageTyped DEF Sent
    <3> QED BY <3>2, <2>2, <1>12
  <2> QED BY <2>1, <2>2
<1>11. AttemptsExhausted' /\ GivenUpLate'
  <2>1. \A j \in Callable : status'[j] = "failure" => j \in Jobs /\ status[j] = "failure"
    BY <1>12 DEF Callable
  <2> QED BY <2>1, <1>1, <1>2 DEF AttemptsExhausted, GivenUpLate
<1> QED BY <1>6, <1>7, <1>8, <1>9, <1>10, <1>11, <1>13 DEF QInv

\* A lost connection: the copy is due as the message was, and the broker holds it.
LEMMA CopyStep ==
  ASSUME QInv, NEW m \in BagToSet(messages), ConnectionLost(m)
  PROVE  QInv'
<1>1. TypeOK /\ InQueue /\ Fresh /\ Counted /\ Spaced /\ Sent /\ AttemptsExhausted
      /\ GivenUpLate
  BY DEF QInv
<1>2. /\ InHand(m) /\ cut' = [cut EXCEPT ![m.job] = @ + 1]
      /\ UNCHANGED <<status, since, received, late, refusals, lost, rejected, clock>>
  BY DEF ConnectionLost, MayLose
<1>3. PICK old, copy \in MessageType :
        /\ IsABag(messages')
        /\ BagToSet(messages') \subseteq BagToSet(messages) \cup {old, copy}
        /\ copy \in BagToSet(messages')
        /\ \A y \in BagToSet(messages) : y # m => y \in BagToSet(messages')
        /\ old.job = m.job /\ old.retries = m.retries /\ old.due = m.due
        /\ old.stage = m.stage
        /\ copy.job = m.job /\ copy.retries = m.retries /\ copy.due = m.due
        /\ copy.stage = "queued" /\ ~copy.stale
  BY <1>1, CopiedMessage
<1>4. cut' \in [Jobs -> Nat]  BY <1>1, <1>2 DEF TypeOK
<1>5. TypeOK'  BY <1>1, <1>2, <1>3, <1>4 DEF TypeOK, MessageType
<1>6. InQueue'
  <2> SUFFICES ASSUME NEW j \in Jobs, status[j] = "pending", j \notin rejected
               PROVE  \E y \in BagToSet(messages') :
                        y.job = j /\ ~y.stale /\ y.stage # "settled"
    BY <1>2 DEF InQueue
  <2>1. PICK y \in BagToSet(messages) : y.job = j /\ ~y.stale /\ y.stage # "settled"
    BY <1>1 DEF InQueue
  <2>2. CASE y = m  BY <2>1, <2>2, <1>3
  <2>3. CASE y # m  BY <2>1, <2>3, <1>3
  <2> QED BY <2>2, <2>3
<1>7. Fresh'
  <2>1. old.stage # "queued"  BY <1>2, <1>3 DEF InHand
  <2> QED BY <2>1, <1>1, <1>3 DEF Fresh
<1>8. Counted'
  <2>1. \A y \in BagToSet(messages') : \E z \in BagToSet(messages) :
          y.job = z.job /\ y.retries = z.retries /\ (y.stage = "refused" => z.stage = "refused")
    BY <1>3
  <2> QED BY <2>1, <1>1, <1>2 DEF Counted
<1>9. Spaced'
  <2>1. \A y \in BagToSet(messages') : \E z \in BagToSet(messages) :
          y.job = z.job /\ y.retries = z.retries /\ y.due = z.due /\ (InHand(y) => InHand(z))
    BY <1>3 DEF InHand
  <2>2. \A y \in BagToSet(messages') :
          /\ y.due >= since[y.job] + Waited(Kind[y.job], y.retries)
          /\ InHand(y) => y.due <= clock
    <3> TAKE y \in BagToSet(messages')
    <3>1. PICK z \in BagToSet(messages) :
            y.job = z.job /\ y.retries = z.retries /\ y.due = z.due /\ (InHand(y) => InHand(z))
      BY <2>1
    <3> QED BY <3>1, <1>1 DEF Spaced
  <2> QED BY <2>2, <1>2 DEF Spaced, InHand
<1>10. Sent'  BY <1>1, <1>2, <1>3 DEF Sent
<1>11. AttemptsExhausted' /\ GivenUpLate'
  BY <1>1, <1>2 DEF AttemptsExhausted, GivenUpLate
<1> QED BY <1>5, <1>6, <1>7, <1>8, <1>9, <1>10, <1>11 DEF QInv

\* Publication: no message of the job is there yet, and its own counts nothing.
LEMMA PublishStep ==
  ASSUME QInv, NEW j \in Jobs, Publish(j)
  PROVE  QInv'
<1> DEFINE first == Message(j, 0, clock)
<1>1. TypeOK /\ InQueue /\ Fresh /\ Counted /\ Spaced /\ Sent /\ AttemptsExhausted
      /\ GivenUpLate
  BY DEF QInv
<1>2. /\ status[j] = "unsent" /\ status' = [status EXCEPT ![j] = "pending"]
      /\ since' = [since EXCEPT ![j] = clock]
      /\ UNCHANGED <<received, late, refusals, lost, cut, rejected, clock>>
      /\ messages' = BagAdd(messages, first)
  BY DEF Publish
<1>3. /\ first \in MessageType /\ clock \in Nat
      /\ first.job = j /\ first.retries = 0 /\ first.due = clock
      /\ first.stage = "queued" /\ ~first.stale
  BY <1>1 DEF TypeOK, MessageType, Message, Stages
<1> HIDE DEF first
<1>4. IsABag(messages') /\ BagToSet(messages') = BagToSet(messages) \cup {first}
  BY <1>1, <1>2, AddedToBag DEF TypeOK
<1>5. /\ \A y \in BagToSet(messages) : y.job \in Jobs /\ y.job # j
      /\ refusals[j] \in Nat
  <2>1. \A y \in BagToSet(messages) : status[y.job] # "unsent"  BY <1>1 DEF Sent
  <2> QED BY <2>1, <1>1, <1>2, MessageTyped DEF TypeOK
<1>6. TypeOK'
  BY <1>1, <1>2, <1>3, <1>4 DEF TypeOK, MessageType
<1>7. InQueue'
  <2> SUFFICES ASSUME NEW k \in Jobs, status'[k] = "pending", k \notin rejected
               PROVE  \E y \in BagToSet(messages') :
                        y.job = k /\ ~y.stale /\ y.stage # "settled"
    BY <1>2 DEF InQueue
  <2>1. CASE k = j  BY <2>1, <1>3, <1>4
  <2>2. CASE k # j
    <3>1. status[k] = "pending"  BY <2>2, <1>1, <1>2 DEF TypeOK
    <3> QED BY <3>1, <1>1, <1>4 DEF InQueue
  <2> QED BY <2>1, <2>2
<1>12. Fresh'  BY <1>1, <1>3, <1>4 DEF Fresh
<1>8. Counted'  BY <1>1, <1>2, <1>3, <1>4, <1>5 DEF Counted
<1>9. Spaced'
  <2>1. Waited(Kind[j], 0) = 0  BY CountdownsAddUp
  <2>2. since'[j] = clock /\ \A y \in BagToSet(messages) : since'[y.job] = since[y.job]
    BY <1>1, <1>2, <1>5 DEF TypeOK
  <2>3. first.due >= since'[first.job] + Waited(Kind[first.job], first.retries)
    BY <2>1, <2>2, <1>3
  <2> QED BY <2>2, <2>3, <1>1, <1>2, <1>3, <1>4 DEF Spaced, InHand
<1>10. Sent'
  <2>1. status'[j] = "pending" /\ \A y \in BagToSet(messages) : status'[y.job] = status[y.job]
    BY <1>1, <1>2, <1>5 DEF TypeOK
  <2> QED BY <2>1, <1>1, <1>3, <1>4 DEF Sent
<1>11. AttemptsExhausted' /\ GivenUpLate'
  <2>1. \A k \in Jobs : status'[k] = "failure" =>
          k # j /\ status[k] = "failure" /\ since'[k] = since[k]
    BY <1>1, <1>2 DEF TypeOK
  <2> QED BY <2>1, <1>1, <1>2 DEF AttemptsExhausted, GivenUpLate, Callable
<1> QED BY <1>6, <1>7, <1>8, <1>9, <1>10, <1>11, <1>12 DEF QInv

LEMMA TickStep == ASSUME QInv, Tick PROVE QInv'
<1>1. TypeOK /\ InQueue /\ Fresh /\ Counted /\ Spaced /\ Sent /\ AttemptsExhausted
      /\ GivenUpLate
  BY DEF QInv
<1>2. clock \in Nat /\ clock' = clock + 1 /\ UNCHANGED <<messages, status, counters>>
  BY <1>1 DEF Tick, TypeOK
<1>3. TypeOK'  BY <1>1, <1>2 DEF TypeOK, counters
<1>4. InQueue' /\ Fresh' /\ Counted' /\ Sent'
  BY <1>1, <1>2 DEF InQueue, Fresh, Counted, Sent, counters
<1>5. Spaced'
  <2>1. \A y \in BagToSet(messages) : InHand(y) => y.due <= clock'
    <3> SUFFICES ASSUME NEW y \in BagToSet(messages), InHand(y) PROVE y.due <= clock'
      OBVIOUS
    <3>1. y.due \in Nat /\ y.due <= clock  BY <1>1, MessageTyped DEF Spaced
    <3> QED BY <3>1, <1>2
  <2> QED BY <2>1, <1>1, <1>2 DEF Spaced, InHand, counters
<1>6. AttemptsExhausted'  BY <1>1, <1>2 DEF AttemptsExhausted, counters
<1>7. GivenUpLate'
  <2> SUFFICES ASSUME NEW j \in Callable, status[j] = "failure"
               PROVE  clock' >= since[j] + Waited(Kind[j], Limit[Kind[j]])
    BY <1>2 DEF GivenUpLate, counters
  <2>1. clock >= since[j] + Waited(Kind[j], Limit[Kind[j]])  BY <1>1 DEF GivenUpLate
  <2>2. since[j] \in Nat /\ Waited(Kind[j], Limit[Kind[j]]) \in Int
    BY <1>1, TaskQueueAssumption, CountdownsAddUp DEF TypeOK, Callable
  <2> QED BY <2>1, <2>2, <1>2
<1> QED BY <1>3, <1>4, <1>5, <1>6, <1>7 DEF QInv

\* All that one message does.
LEMMA WorkStep ==
  ASSUME QInv, NEW m \in BagToSet(messages), Work(m) \/ Loss(m)
  PROVE  QInv'
<1>1. /\ status \in [Jobs -> Statuses]
      /\ received \in [Jobs -> Nat] /\ late \in [Jobs -> Nat]
      /\ refusals \in [Jobs -> Nat] /\ lost \in [Jobs -> Nat]
      /\ m.job \in Jobs /\ m.retries \in Nat /\ refusals[m.job] \in Nat
      /\ m.stale \in BOOLEAN
  BY MessageTyped DEF QInv, TypeOK, Statuses
<1>2. \A j \in Jobs : refusals[j] >= refusals[j]  BY <1>1
<1>3. /\ InHand(m) => m.due <= clock
      /\ refusals[m.job] >= m.retries
      /\ status[m.job] \notin {"never", "unsent"}
      /\ m.stage = "queued" => ~m.stale
  BY DEF QInv, Spaced, Counted, Sent, Fresh
<1>4. /\ Fails(m.job) \in [Jobs -> Statuses]
      /\ Fails(m.job)[m.job] \in {"success", "failure"}
      /\ \A j \in Jobs : j # m.job => Fails(m.job)[j] = status[j]
  BY <1>1 DEF Fails, Statuses
<1>5. CASE Take(m)
  <2>1. /\ Begun(m.job) \in [Jobs -> Statuses]
        /\ Begun(m.job)[m.job] \in {"pending", "success"}
        /\ \A j \in Jobs : j # m.job => Begun(m.job)[j] = status[j]
    BY <1>1 DEF Begun, Statuses
  <2>2. StageChange(m, "running")
    BY <2>1, <1>1, <1>2, <1>3, <1>5 DEF Take, StageChange, Stages, counters
  <2> QED BY <2>2, StageStep
<1>6. CASE Discard(m)
  <2>1. /\ messages' = BagRemove(messages, m) /\ rejected' = rejected \cup {m.job}
        /\ status' = Fails(m.job) /\ m.job \notin Callable
        /\ lost' \in [Jobs -> Nat]
        /\ UNCHANGED <<since, received, late, refusals, cut, clock>>
    BY <1>1, <1>6 DEF Discard, Callable
  <2>2. m.job \in rejected'  BY <2>1
  <2> QED BY <2>1, <2>2, RemovalStep
<1>7. CASE Accept(m)
  <2>1. received' \in [Jobs -> Nat]  BY <1>1, <1>7 DEF Accept
  <2>2. StageChange(m, "answered")
    BY <2>1, <1>1, <1>2, <1>3, <1>7 DEF Accept, Calls, StageChange, Stages, InHand
  <2> QED BY <2>2, StageStep
<1>8. CASE Refuse(m)
  <2>1. /\ refusals' \in [Jobs -> Nat] /\ refusals'[m.job] > m.retries
        /\ \A j \in Jobs : refusals'[j] >= refusals[j]
    BY <1>1, <1>3, <1>8 DEF Refuse
  <2>2. StageChange(m, "refused")
    BY <2>1, <1>1, <1>3, <1>8 DEF Refuse, Calls, StageChange, Stages, InHand
  <2> QED BY <2>2, StageStep
<1>9. CASE AcceptLate(m)
  <2>1. /\ refusals' \in [Jobs -> Nat] /\ refusals'[m.job] > m.retries
        /\ \A j \in Jobs : refusals'[j] >= refusals[j]
    BY <1>1, <1>3, <1>9 DEF AcceptLate
  <2>2. received' \in [Jobs -> Nat] /\ late' \in [Jobs -> Nat]
    BY <1>1, <1>9 DEF AcceptLate
  <2>3. StageChange(m, "refused")
    BY <2>1, <2>2, <1>1, <1>3, <1>9 DEF AcceptLate, Calls, StageChange, Stages, InHand
  <2> QED BY <2>3, StageStep
<1>10. CASE FallSilent(m)
  <2>1. StageChange(m, "hung")
    BY <1>1, <1>2, <1>3, <1>10 DEF FallSilent, Calls, StageChange, Stages, InHand, counters
  <2> QED BY <2>1, StageStep
<1>11. CASE Unparsable(m)
  <2>1. StageChange(m, "settled")
    BY <1>1, <1>2, <1>3, <1>4, <1>11
    DEF Unparsable, Callable, StageChange, Stages, InHand, counters
  <2> QED BY <2>1, StageStep
<1>12. CASE Retry(m)  BY <1>12, RetryStep
<1>13. CASE RetryUnsent(m)
  <2>1. /\ messages' = BagRemove(messages, m)
        /\ rejected' = IF m.stale THEN rejected ELSE rejected \cup {m.job}
        /\ UNCHANGED <<status, since, received, late, refusals, lost, cut, clock>>
    BY <1>13 DEF RetryUnsent
  <2>2. /\ rejected' = rejected \/ rejected' = rejected \cup {m.job}
        /\ m.stale \/ m.job \in rejected'
    BY <2>1
  <2>3. lost' \in [Jobs -> Nat]  BY <2>1, <1>1
  <2> QED BY <2>1, <2>2, <2>3, RemovalStep
<1>14. CASE GiveUp(m)
  <2>1. StageChange(m, "settled")
    BY <1>1, <1>2, <1>3, <1>4, <1>14 DEF GiveUp, StageChange, Stages, InHand, counters
  <2> QED BY <2>1, StageStep
<1>15. CASE Succeed(m)
  <2>1. /\ status' \in [Jobs -> Statuses] /\ status'[m.job] = "success"
        /\ \A j \in Jobs : j # m.job => status'[j] = status[j]
    BY <1>1, <1>15 DEF Succeed, Statuses
  <2>2. StageChange(m, "settled")
    BY <2>1, <1>1, <1>2, <1>3, <1>15 DEF Succeed, StageChange, Stages, InHand, counters
  <2> QED BY <2>2, StageStep
<1>16. CASE Acknowledge(m)
  <2>1. /\ messages' = BagRemove(messages, m) /\ m.stage = "settled"
        /\ rejected' = rejected
        /\ UNCHANGED <<status, since, received, late, refusals, lost, cut, clock>>
    BY <1>16 DEF Acknowledge, counters
  <2>2. lost' \in [Jobs -> Nat]  BY <2>1, <1>1
  <2> QED BY <2>1, <2>2, RemovalStep
<1>17. CASE WorkerLost(m)
  <2>1. lost' \in [Jobs -> Nat]  BY <1>1, <1>17 DEF WorkerLost
  <2>2. StageChange(m, "queued")
    BY <2>1, <1>1, <1>2, <1>17 DEF WorkerLost, StageChange, Stages
  <2> QED BY <2>2, StageStep
<1>18. CASE LogOnly(m)
  <2>1. StageChange(m, "answered")
    BY <1>1, <1>2, <1>3, <1>18 DEF LogOnly, StageChange, Stages, InHand, counters
  <2> QED BY <2>1, StageStep
<1>19. CASE StaleLost(m)
  <2>1. /\ messages' = BagRemove(messages, m) /\ m.stale /\ rejected' = rejected
        /\ lost' \in [Jobs -> Nat]
        /\ UNCHANGED <<status, since, received, late, refusals, cut, clock>>
    BY <1>1, <1>19 DEF StaleLost
  <2> QED BY <2>1, RemovalStep
<1>20. CASE ConnectionLost(m)  BY <1>20, CopyStep
<1> QED
  BY <1>5, <1>6, <1>7, <1>8, <1>9, <1>10, <1>11, <1>12, <1>13, <1>14, <1>15, <1>16, <1>17,
     <1>18, <1>19, <1>20
  DEF Work, Answer, Loss

LEMMA NextInv == QInv /\ [Next]_vars => QInv'
<1> SUFFICES ASSUME QInv, [Next]_vars PROVE QInv'  OBVIOUS
<1>1. CASE \E j \in Jobs : Publish(j)  BY <1>1, PublishStep
<1>2. CASE \E m \in BagToSet(messages) : Work(m) \/ Loss(m)  BY <1>2, WorkStep
<1>3. CASE Tick  BY <1>3, TickStep
<1>4. CASE Idle \/ UNCHANGED vars
  BY <1>4 DEF Idle, vars, counters, QInv, TypeOK, InQueue, Fresh, Counted, Spaced, Sent,
              AttemptsExhausted, GivenUpLate, InHand
<1> QED BY <1>1, <1>2, <1>3, <1>4 DEF Next

LEMMA Invariant == Spec => []QInv
BY InitInv, NextInv, PTL DEF Spec

------------------------------------------------------------------------------
(***************************************************************************)
(* What peers see.  A message from which another call may come is open.    *)
(* A job is owed one call until its first message is published, and every  *)
(* open message is one more; only a late answer, a lost process or a lost  *)
(* connection lets a call be repeated (Owed).                              *)
(***************************************************************************)

Open == {"queued", "running", "hung", "refused"}

IsOpen(m, j) == m.job = j /\ m.stage \in Open

OpenIn(B, j) == {m \in DOMAIN B : IsOpen(m, j)}

\* How many messages of bag B, copies counted, are open messages of job j.
Pending(B, j) == Cardinality(Units(B, OpenIn(B, j)))

Copies(B, m) == IF m \in DOMAIN B THEN B[m] ELSE 0

One(condition) == IF condition THEN 1 ELSE 0

FiniteQueue == IsABag(messages) /\ IsFiniteSet(DOMAIN messages)

Owed ==
  \A j \in Jobs :
    received[j] + Pending(messages, j) + One(status[j] \in {"unsent", "failure"})
      <= 1 + late[j] + lost[j] + cut[j]

\* A task that has returned has reached its peer, or had none to reach.
Reached ==
  /\ \A m \in BagToSet(messages) :
       m.stage = "answered" => received[m.job] > 0 \/ m.job \in Logged
  /\ \A j \in Jobs : status[j] = "success" => received[j] > 0 \/ j \in Logged

SeenInv == FiniteQueue /\ Owed /\ Reached

\* The copies of one open message, and the rest.
LEMMA PendingSplit ==
  ASSUME NEW B, IsABag(B), IsFiniteSet(DOMAIN B), NEW j, NEW m
  PROVE  /\ Pending(B, j) \in Nat /\ Copies(B, m) \in Nat
         /\ Cardinality(Units(B, OpenIn(B, j) \ {m})) \in Nat
         /\ Pending(B, j) = Cardinality(Units(B, OpenIn(B, j) \ {m}))
                              + (IF IsOpen(m, j) THEN Copies(B, m) ELSE 0)
<1> DEFINE S == OpenIn(B, j)  T == S \ {m}
<1>1. \A y \in DOMAIN B : B[y] \in Nat  BY DEF IsABag
<1>2. S \in SUBSET DOMAIN B /\ T \in SUBSET DOMAIN B  BY DEF OpenIn
<1>3. IsFiniteSet(S) /\ IsFiniteSet(T)  BY <1>2, SubsetFinite
<1>4. Copies(B, m) \in Nat  BY <1>1 DEF Copies
<1>5. /\ \A y \in S : B[y] \in Nat
      /\ \A y \in T : B[y] \in Nat
  BY <1>1, <1>2
<1>6. m \in S <=> IsOpen(m, j) /\ m \in DOMAIN B  BY DEF OpenIn
<1>7. S = IF m \in S THEN T \cup {m} ELSE T  OBVIOUS
<1>8. m \notin T  OBVIOUS
<1>9. Pending(B, j) = Cardinality(Units(B, S))  BY DEF Pending
<1> HIDE DEF S, T
<1>10. Cardinality(Units(B, S)) \in Nat /\ Cardinality(Units(B, T)) \in Nat
  BY <1>3, <1>5, UnitsFinite
<1>11. CASE m \in S
  <2>1. Cardinality(Units(B, T \cup {m})) = Cardinality(Units(B, T)) + B[m]
    BY <1>3, <1>5, <1>8, <1>11, UnitsAdded
  <2> QED BY <1>4, <1>6, <1>7, <1>9, <1>10, <1>11, <2>1 DEF Copies, S, T
<1>12. CASE m \notin S
  <2>1. (IF IsOpen(m, j) THEN Copies(B, m) ELSE 0) = 0
    BY <1>6, <1>12 DEF Copies
  <2>2. S = T  BY <1>12 DEF S, T
  <2>3. Pending(B, j) = Cardinality(Units(B, T))  BY <1>9, <2>2
  <2> QED BY <1>4, <1>10, <2>1, <2>3 DEF T, S
<1> QED BY <1>11, <1>12

\* Bags that differ in the copies of one message only.
LEMMA PendingChange ==
  ASSUME NEW B, IsABag(B), IsFiniteSet(DOMAIN B),
         NEW C, IsABag(C), IsFiniteSet(DOMAIN C), NEW m, NEW j,
         \A y : y # m => /\ y \in DOMAIN B <=> y \in DOMAIN C
                         /\ y \in DOMAIN B => B[y] = C[y]
  PROVE  /\ Pending(B, j) \in Nat /\ Pending(C, j) \in Nat
         /\ Copies(B, m) \in Nat /\ Copies(C, m) \in Nat
         /\ Pending(C, j) - Pending(B, j)
              = IF IsOpen(m, j) THEN Copies(C, m) - Copies(B, m) ELSE 0
<1> DEFINE T == OpenIn(B, j) \ {m}
<1>1. OpenIn(C, j) \ {m} = T  BY DEF OpenIn
<1>2. \A y \in T : C[y] = B[y]  BY DEF OpenIn
<1> HIDE DEF T
<1>3. Units(C, T) = Units(B, T)  BY <1>2, UnitsSame
<1>4. /\ Pending(B, j) \in Nat /\ Copies(B, m) \in Nat
      /\ Cardinality(Units(B, T)) \in Nat
      /\ Pending(B, j) = Cardinality(Units(B, T))
                           + (IF IsOpen(m, j) THEN Copies(B, m) ELSE 0)
  BY PendingSplit DEF T
<1>5. /\ Pending(C, j) \in Nat /\ Copies(C, m) \in Nat
      /\ Pending(C, j) = Cardinality(Units(C, T))
                           + (IF IsOpen(m, j) THEN Copies(C, m) ELSE 0)
  BY <1>1, PendingSplit
<1> QED BY <1>3, <1>4, <1>5

\* A message that enters the queue is one call more for its job, if it is open.
LEMMA PendingAdded ==
  ASSUME NEW B, IsABag(B), IsFiniteSet(DOMAIN B), NEW m
  PROVE  LET C == BagAdd(B, m)
         IN  /\ IsABag(C) /\ IsFiniteSet(DOMAIN C)
             /\ \A j : /\ Pending(B, j) \in Nat /\ Pending(C, j) \in Nat
                       /\ Pending(C, j) = Pending(B, j) + One(IsOpen(m, j))
<1> DEFINE C == BagAdd(B, m)
<1>1. IsABag(C)  BY AddedToBag
<1>2. DOMAIN C = DOMAIN B \cup {m}  BY DEF BagAdd
<1>3. \A y : y # m => /\ y \in DOMAIN B <=> y \in DOMAIN C
                      /\ y \in DOMAIN B => B[y] = C[y]
  BY DEF BagAdd
<1>4. Copies(C, m) = Copies(B, m) + 1
  <2>1. m \notin DOMAIN B => C[m] = 0 + 1  BY DEF BagAdd
  <2>2. m \in DOMAIN B => C[m] = B[m] + 1  BY DEF BagAdd
  <2> HIDE DEF C
  <2> QED BY <1>2, <2>1, <2>2 DEF Copies
<1> HIDE DEF C
<1>5. IsFiniteSet(DOMAIN C)  BY <1>2, AddedFinite
<1>6. ASSUME NEW j
      PROVE  /\ Pending(B, j) \in Nat /\ Pending(C, j) \in Nat
             /\ Pending(C, j) = Pending(B, j) + One(IsOpen(m, j))
  <2>1. /\ Pending(B, j) \in Nat /\ Pending(C, j) \in Nat
        /\ Copies(B, m) \in Nat /\ Copies(C, m) \in Nat
        /\ Pending(C, j) - Pending(B, j)
             = IF IsOpen(m, j) THEN Copies(C, m) - Copies(B, m) ELSE 0
    BY <1>1, <1>3, <1>5, PendingChange
  <2> QED BY <1>4, <2>1 DEF One
<1> QED BY <1>1, <1>5, <1>6 DEF C

\* ... and one call less when it leaves.
LEMMA PendingRemoved ==
  ASSUME NEW B, IsABag(B), IsFiniteSet(DOMAIN B), NEW m \in DOMAIN B
  PROVE  LET C == BagRemove(B, m)
         IN  /\ IsABag(C) /\ IsFiniteSet(DOMAIN C)
             /\ \A j : /\ Pending(B, j) \in Nat /\ Pending(C, j) \in Nat
                       /\ Pending(C, j) = Pending(B, j) - One(IsOpen(m, j))
<1> DEFINE C == BagRemove(B, m)
<1>1. IsABag(C)  BY RemovedFromBag
<1>2. DOMAIN C \in SUBSET DOMAIN B  BY DEF BagRemove
<1>3. \A y : y # m => /\ y \in DOMAIN B <=> y \in DOMAIN C
                      /\ y \in DOMAIN B => B[y] = C[y]
  BY DEF BagRemove
<1>4. Copies(C, m) = Copies(B, m) - 1
  <2>1. B[m] \in Nat /\ B[m] > 0  BY DEF IsABag
  <2>2. CASE B[m] = 1
    <3>1. m \notin DOMAIN C  BY <2>2 DEF BagRemove
    <3> HIDE DEF C
    <3> QED BY <2>2, <3>1 DEF Copies
  <2>3. CASE B[m] # 1
    <3>1. m \in DOMAIN C /\ C[m] = B[m] - 1  BY <2>3 DEF BagRemove
    <3> HIDE DEF C
    <3> QED BY <3>1 DEF Copies
  <2> QED BY <2>2, <2>3
<1> HIDE DEF C
<1>5. IsFiniteSet(DOMAIN C)  BY <1>2, SubsetFinite
<1>6. ASSUME NEW j
      PROVE  /\ Pending(B, j) \in Nat /\ Pending(C, j) \in Nat
             /\ Pending(C, j) = Pending(B, j) - One(IsOpen(m, j))
  <2>1. /\ Pending(B, j) \in Nat /\ Pending(C, j) \in Nat
        /\ Copies(B, m) \in Nat /\ Copies(C, m) \in Nat
        /\ Pending(C, j) - Pending(B, j)
             = IF IsOpen(m, j) THEN Copies(C, m) - Copies(B, m) ELSE 0
    BY <1>1, <1>3, <1>5, PendingChange
  <2> QED BY <1>4, <2>1 DEF One
<1> QED BY <1>1, <1>5, <1>6 DEF C

\* A message that moves on stops being open in one stage, and is open in the
\* next if that one is.
LEMMA MovedPending ==
  ASSUME TypeOK, FiniteQueue, NEW m \in BagToSet(messages), NEW stage \in Stages,
         Moves(m, stage)
  PROVE  /\ FiniteQueue'
         /\ \A j : /\ Pending(messages, j) \in Nat /\ Pending(messages', j) \in Nat
                   /\ Pending(messages', j)
                        = Pending(messages, j) - One(IsOpen(m, j))
                            + One(j = m.job /\ stage \in Open)
<1> DEFINE moved == [m EXCEPT !.stage = stage]
           rest == BagRemove(messages, m)
<1>1. IsABag(messages) /\ IsFiniteSet(DOMAIN messages) /\ m \in DOMAIN messages
  BY DEF FiniteQueue, BagToSet
<1>2. m \in MessageType  BY DEF TypeOK, MessageType
<1>3. moved.job = m.job /\ moved.stage = stage  BY <1>2 DEF MessageType
<1>4. messages' = BagAdd(rest, moved)  BY DEF Moves
<1>5. /\ IsABag(rest) /\ IsFiniteSet(DOMAIN rest)
      /\ \A j : /\ Pending(messages, j) \in Nat /\ Pending(rest, j) \in Nat
                /\ Pending(rest, j) = Pending(messages, j) - One(IsOpen(m, j))
  BY <1>1, PendingRemoved
<1> HIDE DEF moved, rest
<1>6. /\ IsABag(messages') /\ IsFiniteSet(DOMAIN messages')
      /\ \A j : /\ Pending(rest, j) \in Nat /\ Pending(messages', j) \in Nat
                /\ Pending(messages', j) = Pending(rest, j) + One(IsOpen(moved, j))
  BY <1>4, <1>5, PendingAdded
<1>7. FiniteQueue'  BY <1>6 DEF FiniteQueue
<1>8. \A j : One(IsOpen(moved, j)) = One(j = m.job /\ stage \in Open)
  BY <1>3 DEF IsOpen
<1> QED BY <1>5, <1>6, <1>7, <1>8

\* So a step of one message is sound if it repays what it takes from its job.
LEMMA MovedSeen ==
  ASSUME TypeOK, TypeOK', SeenInv, NEW m \in BagToSet(messages), NEW stage \in Stages,
         Moves(m, stage),
         \A j \in Jobs \ {m.job} :
           /\ received'[j] = received[j] /\ late'[j] = late[j]
           /\ lost'[j] = lost[j] /\ cut'[j] = cut[j] /\ status'[j] = status[j],
         received'[m.job] >= received[m.job],
         received'[m.job] + One(stage \in Open) + One(status'[m.job] \in {"unsent", "failure"})
           + late[m.job] + lost[m.job] + cut[m.job]
           <= received[m.job] + One(m.stage \in Open)
                + One(status[m.job] \in {"unsent", "failure"}) + late'[m.job]
                + lost'[m.job] + cut'[m.job],
         stage = "answered" \/ status'[m.job] = "success"
           => received'[m.job] > 0 \/ m.job \in Logged
  PROVE  SeenInv'
<1>1. m \in MessageType  BY DEF TypeOK, MessageType
<1>2. m.job \in Jobs  BY <1>1 DEF MessageType
<1>3. /\ FiniteQueue'
      /\ \A j : /\ Pending(messages, j) \in Nat /\ Pending(messages', j) \in Nat
                /\ Pending(messages', j)
                     = Pending(messages, j) - One(IsOpen(m, j))
                         + One(j = m.job /\ stage \in Open)
  BY MovedPending DEF SeenInv
<1>4. \A j \in Jobs : /\ received[j] \in Nat /\ received'[j] \in Nat
                      /\ late[j] \in Nat /\ late'[j] \in Nat
                      /\ lost[j] \in Nat /\ lost'[j] \in Nat
                      /\ cut[j] \in Nat /\ cut'[j] \in Nat
  BY DEF TypeOK
<1>5. \A c : One(c) \in {0, 1}  BY DEF One
<1>6. Owed'
  <2>1. ASSUME NEW j \in Jobs
        PROVE  received'[j] + Pending(messages', j) + One(status'[j] \in {"unsent", "failure"})
                 <= 1 + late'[j] + lost'[j] + cut'[j]
    <3>1. received[j] + Pending(messages, j) + One(status[j] \in {"unsent", "failure"})
            <= 1 + late[j] + lost[j] + cut[j]
      BY DEF SeenInv, Owed
    <3>2. CASE j = m.job
      <4>1. One(IsOpen(m, j)) = One(m.stage \in Open)  BY <3>2 DEF IsOpen
      <4>2. One(j = m.job /\ stage \in Open) = One(stage \in Open)  BY <3>2
      <4>3. /\ One(m.stage \in Open) \in {0, 1} /\ One(stage \in Open) \in {0, 1}
            /\ One(status[j] \in {"unsent", "failure"}) \in {0, 1}
            /\ One(status'[j] \in {"unsent", "failure"}) \in {0, 1}
        BY <1>5
      <4>4. /\ Pending(messages, j) \in Nat /\ Pending(messages', j) \in Nat
            /\ Pending(messages', j)
                 = Pending(messages, j) - One(m.stage \in Open) + One(stage \in Open)
        BY <1>3, <4>1, <4>2
      <4> QED BY <1>4, <3>1, <3>2, <4>3, <4>4
    <3>3. CASE j # m.job
      <4>1. One(IsOpen(m, j)) = 0 /\ One(j = m.job /\ stage \in Open) = 0
        BY <3>3 DEF IsOpen, One
      <4>2. /\ Pending(messages, j) \in Nat /\ Pending(messages', j) = Pending(messages, j)
        BY <1>3, <4>1
      <4> QED BY <3>1, <3>3, <4>2
    <3> QED BY <3>2, <3>3
  <2> QED BY <2>1 DEF Owed
<1>7. \A j \in Jobs : received'[j] >= received[j]  BY <1>4
<1>8. Reached'
  <2>1. ASSUME NEW y \in BagToSet(messages'), y.stage = "answered"
        PROVE  received'[y.job] > 0 \/ y.job \in Logged
    <3> DEFINE moved == [m EXCEPT !.stage = stage]
    <3>1. /\ BagToSet(messages') \subseteq BagToSet(messages) \cup {moved}
          /\ moved.job = m.job /\ moved.stage = stage
      BY MovedMessage
    <3>2. CASE y = moved  BY <2>1, <3>1, <3>2
    <3>3. CASE y \in BagToSet(messages)
      <4>1. y.job \in Jobs  BY <3>3 DEF TypeOK
      <4>2. received[y.job] > 0 \/ y.job \in Logged  BY <2>1, <3>3 DEF SeenInv, Reached
      <4> QED BY <1>4, <1>7, <4>1, <4>2
    <3> QED BY <3>1, <3>2, <3>3
  <2>2. ASSUME NEW j \in Jobs, status'[j] = "success"
        PROVE  received'[j] > 0 \/ j \in Logged
    <3>1. CASE j = m.job  BY <2>2, <3>1
    <3>2. CASE j # m.job  BY <2>2, <3>2 DEF SeenInv, Reached
    <3> QED BY <3>1, <3>2
  <2> QED BY <2>1, <2>2 DEF Reached
<1> QED BY <1>3, <1>6, <1>8 DEF SeenInv

\* So is a step that calls no peer, if no job is owed more than it is granted, and
\* no message is answered that was not.
LEMMA QueueSeen ==
  ASSUME TypeOK, TypeOK', SeenInv, FiniteQueue',
         \A j \in Jobs :
           /\ Pending(messages, j) \in Nat /\ Pending(messages', j) \in Nat
           /\ Pending(messages', j) + One(status'[j] \in {"unsent", "failure"})
                + lost[j] + cut[j]
                <= Pending(messages, j) + One(status[j] \in {"unsent", "failure"})
                     + lost'[j] + cut'[j]
           /\ status'[j] = "success" => status[j] = "success",
         \A y \in BagToSet(messages') : y.stage = "answered" =>
           \E z \in BagToSet(messages) : z.stage = "answered" /\ z.job = y.job,
         UNCHANGED <<received, late>>
  PROVE  SeenInv'
<1>1. \A j \in Jobs : /\ received[j] \in Nat /\ late[j] \in Nat
                      /\ lost[j] \in Nat /\ lost'[j] \in Nat
                      /\ cut[j] \in Nat /\ cut'[j] \in Nat
  BY DEF TypeOK
<1>2. Owed'
  <2>1. ASSUME NEW j \in Jobs
        PROVE  received[j] + Pending(messages', j) + One(status'[j] \in {"unsent", "failure"})
                 <= 1 + late[j] + lost'[j] + cut'[j]
    <3>1. received[j] + Pending(messages, j) + One(status[j] \in {"unsent", "failure"})
            <= 1 + late[j] + lost[j] + cut[j]
      BY DEF SeenInv, Owed
    <3>2. /\ One(status[j] \in {"unsent", "failure"}) \in {0, 1}
          /\ One(status'[j] \in {"unsent", "failure"}) \in {0, 1}
      BY DEF One
    <3>3. /\ Pending(messages, j) \in Nat /\ Pending(messages', j) \in Nat
          /\ Pending(messages', j) + One(status'[j] \in {"unsent", "failure"})
               + lost[j] + cut[j]
               <= Pending(messages, j) + One(status[j] \in {"unsent", "failure"})
                    + lost'[j] + cut'[j]
      OBVIOUS
    <3> QED BY <1>1, <3>1, <3>2, <3>3
  <2> QED BY <2>1 DEF Owed
<1>3. Reached'  BY DEF SeenInv, Reached
<1> QED BY <1>2, <1>3 DEF SeenInv

\* An acknowledgement, a rejection, a discarded message, or a stale one whose
\* process dies: what is failed with it pays with the call the message was open for.
LEMMA RemovalSeen ==
  ASSUME TypeOK, TypeOK', SeenInv, NEW m \in BagToSet(messages),
         messages' = BagRemove(messages, m),
         status' = status \/ (status' = Fails(m.job) /\ m.stage \in Open),
         lost' = lost \/ lost' = [lost EXCEPT ![m.job] = @ + 1],
         UNCHANGED <<received, late, cut>>
  PROVE  SeenInv'
<1>1. IsABag(messages) /\ IsFiniteSet(DOMAIN messages) /\ m \in DOMAIN messages
  BY DEF SeenInv, FiniteQueue, BagToSet
<1>2. /\ FiniteQueue'
      /\ \A j : /\ Pending(messages, j) \in Nat /\ Pending(messages', j) \in Nat
                /\ Pending(messages', j) = Pending(messages, j) - One(IsOpen(m, j))
  BY <1>1, PendingRemoved DEF FiniteQueue
<1>3. m.job \in Jobs  BY DEF TypeOK
<1>4. ASSUME NEW j \in Jobs
      PROVE  /\ Pending(messages, j) \in Nat /\ Pending(messages', j) \in Nat
             /\ Pending(messages', j) + One(status'[j] \in {"unsent", "failure"})
                  + lost[j] + cut[j]
                  <= Pending(messages, j) + One(status[j] \in {"unsent", "failure"})
                       + lost'[j] + cut'[j]
             /\ status'[j] = "success" => status[j] = "success"
  <2>1. /\ lost[j] \in Nat /\ lost'[j] \in Nat /\ lost'[j] >= lost[j]
        /\ cut[j] \in Nat /\ cut'[j] = cut[j]
    BY DEF TypeOK
  <2>2. /\ status'[j] = status[j] \/ (j = m.job /\ m.stage \in Open)
        /\ status'[j] = "success" => status[j] = "success"
    <3>1. status \in [Jobs -> Statuses]  BY DEF TypeOK, Statuses
    <3> QED BY <3>1, <1>3 DEF Fails
  <2>3. /\ One(IsOpen(m, j)) \in {0, 1}
        /\ One(status[j] \in {"unsent", "failure"}) \in {0, 1}
        /\ One(status'[j] \in {"unsent", "failure"}) \in {0, 1}
    BY DEF One
  <2>4. CASE status'[j] = status[j]  BY <1>2, <2>1, <2>2, <2>3, <2>4
  <2>5. CASE j = m.job /\ m.stage \in Open
    <3>1. One(IsOpen(m, j)) = 1  BY <2>5 DEF One, IsOpen
    <3> QED BY <1>2, <2>1, <2>2, <2>3, <3>1
  <2> QED BY <2>2, <2>4, <2>5
<1>5. BagToSet(messages') \subseteq BagToSet(messages)  BY <1>1, RemovedFromBag
<1>6. \A y \in BagToSet(messages') : y.stage = "answered" =>
        \E z \in BagToSet(messages) : z.stage = "answered" /\ z.job = y.job
  BY <1>5
<1> QED BY <1>2, <1>4, <1>6, QueueSeen

\* A message is taken out, and two of its job are put in for it.
LEMMA PairPending ==
  ASSUME TypeOK, SeenInv, NEW m \in BagToSet(messages), NEW old, NEW new,
         messages' = BagAdd(BagAdd(BagRemove(messages, m), old), new)
  PROVE  /\ FiniteQueue'
         /\ BagToSet(messages') \subseteq BagToSet(messages) \cup {old, new}
         /\ \A j : /\ Pending(messages, j) \in Nat /\ Pending(messages', j) \in Nat
                   /\ Pending(messages', j)
                        = Pending(messages, j) - One(IsOpen(m, j))
                            + One(IsOpen(old, j)) + One(IsOpen(new, j))
<1> DEFINE rest == BagRemove(messages, m)
           both == BagAdd(rest, old)
<1>1. IsABag(messages) /\ IsFiniteSet(DOMAIN messages) /\ m \in DOMAIN messages
  BY DEF SeenInv, FiniteQueue, BagToSet
<1>2. messages' = BagAdd(both, new)  OBVIOUS
<1>3. /\ IsABag(rest) /\ IsFiniteSet(DOMAIN rest)
      /\ \A j : /\ Pending(messages, j) \in Nat /\ Pending(rest, j) \in Nat
                /\ Pending(rest, j) = Pending(messages, j) - One(IsOpen(m, j))
  BY <1>1, PendingRemoved
<1>4. BagToSet(rest) \subseteq BagToSet(messages)  BY <1>1, RemovedFromBag
<1> HIDE DEF rest
<1>5. /\ IsABag(both) /\ IsFiniteSet(DOMAIN both)
      /\ \A j : /\ Pending(both, j) \in Nat
                /\ Pending(both, j) = Pending(rest, j) + One(IsOpen(old, j))
  BY <1>3, PendingAdded
<1>6. BagToSet(both) = BagToSet(rest) \cup {old}  BY <1>3, AddedToBag
<1> HIDE DEF both
<1>7. /\ IsABag(messages') /\ IsFiniteSet(DOMAIN messages')
      /\ \A j : /\ Pending(messages', j) \in Nat
                /\ Pending(messages', j) = Pending(both, j) + One(IsOpen(new, j))
  BY <1>2, <1>5, PendingAdded
<1>8. BagToSet(messages') = BagToSet(both) \cup {new}  BY <1>2, <1>5, AddedToBag
<1>9. \A j : /\ One(IsOpen(m, j)) \in {0, 1} /\ One(IsOpen(old, j)) \in {0, 1}
             /\ One(IsOpen(new, j)) \in {0, 1}
  BY DEF One
<1>10. \A j : Pending(messages', j) = Pending(messages, j) - One(IsOpen(m, j))
                                         + One(IsOpen(old, j)) + One(IsOpen(new, j))
  <2> TAKE j
  <2>1. /\ Pending(messages, j) \in Nat /\ Pending(rest, j) \in Nat /\ Pending(both, j) \in Nat
        /\ Pending(rest, j) = Pending(messages, j) - One(IsOpen(m, j))
        /\ Pending(both, j) = Pending(rest, j) + One(IsOpen(old, j))
        /\ Pending(messages', j) = Pending(both, j) + One(IsOpen(new, j))
    BY <1>3, <1>5, <1>7
  <2> QED BY <2>1, <1>9
<1> QED BY <1>3, <1>4, <1>6, <1>7, <1>8, <1>10 DEF FiniteQueue

\* A retry opens one message for the one it settles.
LEMMA RetrySeen ==
  ASSUME TypeOK, TypeOK', SeenInv, NEW m \in BagToSet(messages), Retry(m)
  PROVE  SeenInv'
<1> DEFINE old == [m EXCEPT !.stage = "settled"]
           next == Message(m.job, m.retries + 1, clock + Countdown(Kind[m.job], m.retries))
<1>1. m \in MessageType /\ m.job \in Jobs  BY DEF TypeOK, MessageType
<1>2. /\ old.stage = "settled"
      /\ next.job = m.job /\ next.stage = "queued" /\ m.stage = "refused"
  BY <1>1 DEF MessageType, Message, Retry
<1>3. /\ messages' = BagAdd(BagAdd(BagRemove(messages, m), old), next)
      /\ status' = Begun(m.job) /\ UNCHANGED <<received, late, lost, cut>>
  BY DEF Retry, counters
<1> HIDE DEF old, next
<1>4. /\ FiniteQueue'
      /\ BagToSet(messages') \subseteq BagToSet(messages) \cup {old, next}
      /\ \A j : /\ Pending(messages, j) \in Nat /\ Pending(messages', j) \in Nat
                /\ Pending(messages', j)
                     = Pending(messages, j) - One(IsOpen(m, j))
                         + One(IsOpen(old, j)) + One(IsOpen(next, j))
  BY <1>3, PairPending
<1>5. \A j : One(IsOpen(old, j)) = 0 /\ One(IsOpen(next, j)) = One(IsOpen(m, j))
             /\ One(IsOpen(m, j)) \in {0, 1}
  BY <1>2 DEF IsOpen, Open, One
<1>6. ASSUME NEW j \in Jobs
      PROVE  /\ Pending(messages, j) \in Nat /\ Pending(messages', j) \in Nat
             /\ Pending(messages', j) + One(status'[j] \in {"unsent", "failure"})
                  + lost[j] + cut[j]
                  <= Pending(messages, j) + One(status[j] \in {"unsent", "failure"})
                       + lost'[j] + cut'[j]
             /\ status'[j] = "success" => status[j] = "success"
  <2>1. Pending(messages', j) = Pending(messages, j) /\ Pending(messages, j) \in Nat
    BY <1>4, <1>5
  <2>2. /\ lost[j] \in Nat /\ lost'[j] = lost[j]
        /\ cut[j] \in Nat /\ cut'[j] = cut[j]
    BY <1>3 DEF TypeOK
  <2>3. status'[j] = status[j] \/ status'[j] = "pending"
    <3>1. status \in [Jobs -> Statuses]  BY DEF TypeOK, Statuses
    <3> QED BY <3>1, <1>1, <1>3 DEF Begun
  <2>4. /\ One(status[j] \in {"unsent", "failure"}) \in {0, 1}
        /\ One(status'[j] \in {"unsent", "failure"}) <= One(status[j] \in {"unsent", "failure"})
        /\ One(status'[j] \in {"unsent", "failure"}) \in {0, 1}
    BY <2>3 DEF One
  <2> QED BY <2>1, <2>2, <2>3, <2>4
<1>7. \A y \in BagToSet(messages') : y.stage = "answered" =>
        \E z \in BagToSet(messages) : z.stage = "answered" /\ z.job = y.job
  BY <1>2, <1>4
<1>8. UNCHANGED <<received, late>>  BY <1>3
<1> QED BY <1>4, <1>6, <1>7, <1>8, QueueSeen

\* A lost connection opens one message more, and is counted.
LEMMA CopySeen ==
  ASSUME TypeOK, TypeOK', SeenInv, NEW m \in BagToSet(messages), ConnectionLost(m)
  PROVE  SeenInv'
<1> DEFINE old == [m EXCEPT !.stale = TRUE]
           copy == [m EXCEPT !.stage = "queued"]
<1>1. m \in MessageType /\ m.job \in Jobs  BY DEF TypeOK, MessageType
<1>2. /\ old.stage = m.stage /\ old.job = m.job
      /\ copy.job = m.job /\ copy.stage = "queued"
  BY <1>1 DEF MessageType
<1>3. /\ messages' = BagAdd(BagAdd(BagRemove(messages, m), old), copy)
      /\ cut' = [cut EXCEPT ![m.job] = @ + 1]
      /\ UNCHANGED <<status, received, late, lost>>
  BY DEF ConnectionLost
<1> HIDE DEF old, copy
<1>4. /\ FiniteQueue'
      /\ BagToSet(messages') \subseteq BagToSet(messages) \cup {old, copy}
      /\ \A j : /\ Pending(messages, j) \in Nat /\ Pending(messages', j) \in Nat
                /\ Pending(messages', j)
                     = Pending(messages, j) - One(IsOpen(m, j))
                         + One(IsOpen(old, j)) + One(IsOpen(copy, j))
  BY <1>3, PairPending
<1>5. \A j : /\ One(IsOpen(old, j)) = One(IsOpen(m, j))
             /\ One(IsOpen(copy, j)) = One(j = m.job)
             /\ One(IsOpen(m, j)) \in {0, 1} /\ One(j = m.job) \in {0, 1}
  BY <1>2 DEF IsOpen, Open, One
<1>6. ASSUME NEW j \in Jobs
      PROVE  /\ Pending(messages, j) \in Nat /\ Pending(messages', j) \in Nat
             /\ Pending(messages', j) + One(status'[j] \in {"unsent", "failure"})
                  + lost[j] + cut[j]
                  <= Pending(messages, j) + One(status[j] \in {"unsent", "failure"})
                       + lost'[j] + cut'[j]
             /\ status'[j] = "success" => status[j] = "success"
  <2>1. /\ Pending(messages', j) = Pending(messages, j) + One(j = m.job)
        /\ Pending(messages, j) \in Nat /\ Pending(messages', j) \in Nat
    BY <1>4, <1>5
  <2>2. /\ lost[j] \in Nat /\ lost'[j] = lost[j] /\ status'[j] = status[j]
        /\ cut[j] \in Nat /\ cut'[j] \in Nat
    BY <1>3 DEF TypeOK
  <2>3. cut'[j] = cut[j] + One(j = m.job)
    <3>1. cut \in [Jobs -> Nat]  BY DEF TypeOK
    <3>2. CASE j = m.job  BY <1>1, <1>3, <3>1, <3>2 DEF One
    <3>3. CASE j # m.job
      <4>1. cut'[j] = cut[j] /\ One(j = m.job) = 0  BY <1>1, <1>3, <3>1, <3>3 DEF One
      <4> QED BY <2>2, <4>1
    <3> QED BY <3>2, <3>3
  <2>4. One(status[j] \in {"unsent", "failure"}) \in {0, 1} /\ One(j = m.job) \in {0, 1}
    BY DEF One
  <2> QED BY <2>1, <2>2, <2>3, <2>4
<1>7. \A y \in BagToSet(messages') : y.stage = "answered" =>
        \E z \in BagToSet(messages) : z.stage = "answered" /\ z.job = y.job
  BY <1>2, <1>4
<1>8. UNCHANGED <<received, late>>  BY <1>3
<1> QED BY <1>4, <1>6, <1>7, <1>8, QueueSeen

\* A job pays for its first message with the call it was owed.
LEMMA PublishSeen ==
  ASSUME TypeOK, TypeOK', SeenInv, NEW job \in Jobs, Publish(job)
  PROVE  SeenInv'
<1> DEFINE first == Message(job, 0, clock)
<1>1. IsABag(messages) /\ IsFiniteSet(DOMAIN messages)
  BY DEF SeenInv, FiniteQueue
<1>2. messages' = BagAdd(messages, first)  BY DEF Publish
<1>3. first.job = job /\ first.stage = "queued"  BY DEF Message
<1> HIDE DEF first
<1>4. /\ FiniteQueue'
      /\ \A j : /\ Pending(messages, j) \in Nat /\ Pending(messages', j) \in Nat
                /\ Pending(messages', j) = Pending(messages, j) + One(IsOpen(first, j))
  BY <1>1, <1>2, PendingAdded DEF FiniteQueue
<1>5. /\ status[job] = "unsent" /\ status' = [status EXCEPT ![job] = "pending"]
      /\ UNCHANGED <<received, late, lost, cut>>
  BY DEF Publish
<1>6. ASSUME NEW j \in Jobs
      PROVE  /\ Pending(messages, j) \in Nat /\ Pending(messages', j) \in Nat
             /\ Pending(messages', j) + One(status'[j] \in {"unsent", "failure"})
                  + lost[j] + cut[j]
                  <= Pending(messages, j) + One(status[j] \in {"unsent", "failure"})
                       + lost'[j] + cut'[j]
             /\ status'[j] = "success" => status[j] = "success"
  <2>1. /\ lost[j] \in Nat /\ lost'[j] = lost[j]
        /\ cut[j] \in Nat /\ cut'[j] = cut[j]
    BY <1>5 DEF TypeOK
  <2>2. status \in [Jobs -> Statuses]  BY DEF TypeOK, Statuses
  <2>3. CASE j = job
    <3>1. status'[j] = "pending" /\ status[j] = "unsent"  BY <1>5, <2>2, <2>3
    <3>2. /\ One(status[j] \in {"unsent", "failure"}) = 1
          /\ One(status'[j] \in {"unsent", "failure"}) = 0
      BY <3>1 DEF One
    <3>3. One(IsOpen(first, j)) \in {0, 1}  BY DEF One
    <3> QED BY <1>4, <2>1, <3>1, <3>2, <3>3
  <2>4. CASE j # job
    <3>1. One(IsOpen(first, j)) = 0  BY <1>3, <2>4 DEF One, IsOpen
    <3>2. status'[j] = status[j]  BY <1>5, <2>2, <2>4
    <3>3. One(status[j] \in {"unsent", "failure"}) \in {0, 1}  BY DEF One
    <3>4. Pending(messages', j) = Pending(messages, j) /\ Pending(messages, j) \in Nat
      BY <1>4, <3>1
    <3> QED BY <2>1, <3>2, <3>3, <3>4
  <2> QED BY <2>3, <2>4
<1>7. \A y \in BagToSet(messages') : y.stage = "answered" =>
        \E z \in BagToSet(messages) : z.stage = "answered" /\ z.job = y.job
  <2>1. BagToSet(messages') = BagToSet(messages) \cup {first}  BY <1>1, <1>2, AddedToBag
  <2> QED BY <1>3, <2>1
<1>8. UNCHANGED <<received, late>>  BY <1>5
<1> QED BY <1>4, <1>6, <1>7, <1>8, QueueSeen

\* Every step of a message, action by action.
LEMMA WorkSeen ==
  ASSUME QInv, QInv', SeenInv, NEW m \in BagToSet(messages), Work(m) \/ Loss(m)
  PROVE  SeenInv'
<1> USE DEF QInv
<1>1. /\ m.job \in Jobs
      /\ \A j \in Jobs : /\ received[j] \in Nat /\ received'[j] \in Nat
                         /\ late[j] \in Nat /\ lost[j] \in Nat /\ cut[j] \in Nat
      /\ received \in [Jobs -> Nat] /\ late \in [Jobs -> Nat] /\ lost \in [Jobs -> Nat]
      /\ status \in [Jobs -> {"never", "unsent", "pending", "success", "failure"}]
  BY MessageTyped DEF TypeOK
<1>2. /\ status[m.job] = "success" => received[m.job] > 0 \/ m.job \in Logged
      /\ m.stage = "answered" => received[m.job] > 0 \/ m.job \in Logged
  BY <1>1 DEF SeenInv, Reached
<1>3. \A c : One(c) \in {0, 1} /\ (c => One(c) = 1) /\ (~c => One(c) = 0)
  BY DEF One
<1>4. /\ {"queued", "running", "hung", "refused"} \subseteq Stages
      /\ "answered" \in Stages /\ "settled" \in Stages
  BY DEF Stages
<1>5. /\ \A s \in {"queued", "running", "hung", "refused"} : One(s \in Open) = 1
      /\ \A s \in {"answered", "settled"} : One(s \in Open) = 0
  BY DEF One, Open
<1>6. ASSUME NEW stage \in {"queued", "running", "hung", "refused", "answered", "settled"},
             Moves(m, stage),
             One(m.stage \in Open) >= One(stage \in Open),
             UNCHANGED <<status, received, late, lost, cut>>,
             stage # "answered"
      PROVE  SeenInv'
  <2>1. received[m.job] >= received[m.job]  BY <1>1
  <2>2. /\ One(m.stage \in Open) \in {0, 1} /\ One(stage \in Open) \in {0, 1}
        /\ One(status[m.job] \in {"unsent", "failure"}) \in {0, 1}
    BY <1>3
  <2>3. received[m.job] + One(stage \in Open) + One(status[m.job] \in {"unsent", "failure"})
          + late[m.job] + lost[m.job] + cut[m.job]
          <= received[m.job] + One(m.stage \in Open)
               + One(status[m.job] \in {"unsent", "failure"}) + late[m.job]
               + lost[m.job] + cut[m.job]
    BY <1>1, <1>6, <2>2
  <2> QED BY <1>2, <1>4, <1>6, <2>1, <2>3, MovedSeen
<1>7. CASE Take(m)
  <2>1. /\ m.stage = "queued" /\ Moves(m, "running") /\ status' = Begun(m.job)
        /\ UNCHANGED <<received, late, lost, cut>>
    BY <1>7 DEF Take, counters
  <2>2. /\ status'[m.job] = status[m.job] \/ status'[m.job] = "pending"
        /\ \A j \in Jobs \ {m.job} : status'[j] = status[j]
    BY <1>1, <2>1 DEF Begun
  <2>3. One(m.stage \in Open) = 1 /\ One("running" \in Open) = 1  BY <1>5, <2>1
  <2>4. /\ One(status[m.job] \in {"unsent", "failure"}) \in {0, 1}
        /\ One(status'[m.job] \in {"unsent", "failure"}) \in {0, 1}
        /\ One(status'[m.job] \in {"unsent", "failure"})
             <= One(status[m.job] \in {"unsent", "failure"})
    BY <2>2 DEF One
  <2>5. received'[m.job] + One("running" \in Open)
          + One(status'[m.job] \in {"unsent", "failure"})
          + late[m.job] + lost[m.job] + cut[m.job]
          <= received[m.job] + One(m.stage \in Open)
               + One(status[m.job] \in {"unsent", "failure"}) + late'[m.job] + lost'[m.job]
               + cut'[m.job]
    BY <1>1, <2>1, <2>3, <2>4
  <2>6. /\ received'[m.job] >= received[m.job]
        /\ status'[m.job] = "success" => received'[m.job] > 0 \/ m.job \in Logged
    BY <1>1, <1>2, <2>1, <2>2
  <2> QED BY <1>4, <2>1, <2>2, <2>5, <2>6, MovedSeen
<1>8. CASE Discard(m)
  <2>1. /\ m.stage \in Open /\ messages' = BagRemove(messages, m)
        /\ status' = Fails(m.job) /\ lost' = lost
        /\ UNCHANGED <<received, late, cut>>
    BY <1>8 DEF Discard, Open
  <2> QED BY <2>1, RemovalSeen
<1>9. CASE Accept(m)
  <2>1. /\ m.stage = "running" /\ Moves(m, "answered")
        /\ received' = [received EXCEPT ![m.job] = received[m.job] + 1]
        /\ UNCHANGED <<status, late, lost, cut>>
    BY <1>9 DEF Accept, Calls
  <2>2. /\ received'[m.job] = received[m.job] + 1
        /\ \A j \in Jobs \ {m.job} : received'[j] = received[j]
    BY <1>1, <2>1
  <2>3. One(m.stage \in Open) = 1 /\ One("answered" \in Open) = 0  BY <1>5, <2>1
  <2>4. One(status[m.job] \in {"unsent", "failure"}) \in {0, 1}  BY <1>3
  <2>5. received'[m.job] + One("answered" \in Open)
          + One(status'[m.job] \in {"unsent", "failure"})
          + late[m.job] + lost[m.job] + cut[m.job]
          <= received[m.job] + One(m.stage \in Open)
               + One(status[m.job] \in {"unsent", "failure"}) + late'[m.job]
               + lost'[m.job] + cut'[m.job]
    BY <1>1, <2>1, <2>2, <2>3, <2>4
  <2>6. received'[m.job] >= received[m.job] /\ received'[m.job] > 0  BY <1>1, <2>2
  <2> QED BY <1>4, <2>1, <2>2, <2>5, <2>6, MovedSeen
<1>10. CASE Refuse(m)
  <2>1. One(m.stage \in Open) >= One("refused" \in Open)  BY <1>5, <1>10 DEF Refuse, Calls
  <2> QED BY <1>6, <1>10, <2>1 DEF Refuse, Calls
<1>11. CASE AcceptLate(m)
  <2>1. /\ m.stage = "running" /\ Moves(m, "refused")
        /\ received' = [received EXCEPT ![m.job] = received[m.job] + 1]
        /\ late' = [late EXCEPT ![m.job] = late[m.job] + 1]
        /\ UNCHANGED <<status, lost, cut>>
    BY <1>11 DEF AcceptLate, Calls
  <2>2. /\ received'[m.job] = received[m.job] + 1 /\ late'[m.job] = late[m.job] + 1
        /\ \A j \in Jobs \ {m.job} : received'[j] = received[j] /\ late'[j] = late[j]
    BY <1>1, <2>1
  <2>3. One(m.stage \in Open) = 1 /\ One("refused" \in Open) = 1  BY <1>5, <2>1
  <2>4. One(status[m.job] \in {"unsent", "failure"}) \in {0, 1}  BY <1>3
  <2>5. received'[m.job] + One("refused" \in Open)
          + One(status'[m.job] \in {"unsent", "failure"})
          + late[m.job] + lost[m.job] + cut[m.job]
          <= received[m.job] + One(m.stage \in Open)
               + One(status[m.job] \in {"unsent", "failure"}) + late'[m.job]
               + lost'[m.job] + cut'[m.job]
    BY <1>1, <2>1, <2>2, <2>3, <2>4
  <2>6. received'[m.job] >= received[m.job] /\ received'[m.job] > 0  BY <1>1, <2>2
  <2> QED BY <1>4, <2>1, <2>2, <2>5, <2>6, MovedSeen
<1>12. CASE FallSilent(m)
  <2>1. One(m.stage \in Open) >= One("hung" \in Open)  BY <1>5, <1>12 DEF FallSilent, Calls
  <2> QED BY <1>6, <1>12, <2>1 DEF FallSilent, counters
<1>13. CASE Retry(m)  BY <1>13, RetrySeen
<1>14. CASE RetryUnsent(m) \/ Acknowledge(m)
  <2>1. /\ messages' = BagRemove(messages, m) /\ status' = status /\ lost' = lost
        /\ UNCHANGED <<received, late, cut>>
    BY <1>14 DEF RetryUnsent, Acknowledge, counters
  <2> QED BY <2>1, RemovalSeen
<1>15. CASE Unparsable(m) \/ GiveUp(m)
  <2>1. /\ m.stage \in {"running", "refused"} /\ Moves(m, "settled")
        /\ status' = Fails(m.job)
        /\ UNCHANGED <<received, late, lost, cut>>
    BY <1>15 DEF Unparsable, GiveUp, counters
  <2>2. /\ status'[m.job] = "success" => status[m.job] = "success"
        /\ \A j \in Jobs \ {m.job} : status'[j] = status[j]
    BY <1>1, <2>1 DEF Fails
  <2>3. One(m.stage \in Open) = 1 /\ One("settled" \in Open) = 0  BY <1>5, <2>1
  <2>4. /\ One(status[m.job] \in {"unsent", "failure"}) \in {0, 1}
        /\ One(status'[m.job] \in {"unsent", "failure"}) \in {0, 1}
    BY <1>3
  <2>5. received'[m.job] + One("settled" \in Open)
          + One(status'[m.job] \in {"unsent", "failure"})
          + late[m.job] + lost[m.job] + cut[m.job]
          <= received[m.job] + One(m.stage \in Open)
               + One(status[m.job] \in {"unsent", "failure"}) + late'[m.job]
               + lost'[m.job] + cut'[m.job]
    BY <1>1, <2>1, <2>3, <2>4
  <2>6. /\ received'[m.job] >= received[m.job]
        /\ status'[m.job] = "success" => received'[m.job] > 0 \/ m.job \in Logged
    BY <1>1, <1>2, <2>1, <2>2
  <2> QED BY <1>4, <2>1, <2>2, <2>5, <2>6, MovedSeen
<1>16. CASE Succeed(m)
  <2>1. /\ m.stage = "answered" /\ Moves(m, "settled")
        /\ status' = [status EXCEPT ![m.job] = "success"]
        /\ UNCHANGED <<received, late, lost, cut>>
    BY <1>16 DEF Succeed, counters
  <2>2. /\ status'[m.job] = "success"
        /\ \A j \in Jobs \ {m.job} : status'[j] = status[j]
    BY <1>1, <2>1
  <2>3. One(m.stage \in Open) = 0 /\ One("settled" \in Open) = 0  BY <1>5, <2>1
  <2>4. /\ One(status[m.job] \in {"unsent", "failure"}) \in {0, 1}
        /\ One(status'[m.job] \in {"unsent", "failure"}) = 0
    BY <1>3, <2>2 DEF One
  <2>5. received'[m.job] + One("settled" \in Open)
          + One(status'[m.job] \in {"unsent", "failure"})
          + late[m.job] + lost[m.job] + cut[m.job]
          <= received[m.job] + One(m.stage \in Open)
               + One(status[m.job] \in {"unsent", "failure"}) + late'[m.job]
               + lost'[m.job] + cut'[m.job]
    BY <1>1, <2>1, <2>3, <2>4
  <2>6. /\ received'[m.job] >= received[m.job]
        /\ received'[m.job] > 0 \/ m.job \in Logged
    BY <1>1, <1>2, <2>1
  <2> QED BY <1>4, <2>1, <2>2, <2>5, <2>6, MovedSeen
<1>17. CASE LogOnly(m)
  <2>1. /\ m.stage = "running" /\ m.job \in Logged /\ Moves(m, "answered")
        /\ UNCHANGED <<status, received, late, lost, cut>>
    BY <1>17 DEF LogOnly, counters
  <2>2. One(m.stage \in Open) = 1 /\ One("answered" \in Open) = 0  BY <1>5, <2>1
  <2>3. One(status[m.job] \in {"unsent", "failure"}) \in {0, 1}  BY <1>3
  <2>4. received'[m.job] + One("answered" \in Open)
          + One(status'[m.job] \in {"unsent", "failure"})
          + late[m.job] + lost[m.job] + cut[m.job]
          <= received[m.job] + One(m.stage \in Open)
               + One(status[m.job] \in {"unsent", "failure"}) + late'[m.job] + lost'[m.job]
               + cut'[m.job]
    BY <1>1, <2>1, <2>2, <2>3
  <2>5. received'[m.job] >= received[m.job]  BY <1>1, <2>1
  <2> QED BY <1>4, <2>1, <2>4, <2>5, MovedSeen
<1>19. CASE StaleLost(m)
  <2>1. /\ messages' = BagRemove(messages, m) /\ status' = status
        /\ lost' = [lost EXCEPT ![m.job] = @ + 1]
        /\ UNCHANGED <<received, late, cut>>
    BY <1>19 DEF StaleLost
  <2> QED BY <2>1, RemovalSeen
<1>20. CASE ConnectionLost(m)  BY <1>20, CopySeen
<1>18. CASE WorkerLost(m)
  <2>1. /\ Moves(m, "queued")
        /\ lost' = [lost EXCEPT ![m.job] = lost[m.job] + 1]
        /\ UNCHANGED <<status, received, late, cut>>
    BY <1>18 DEF WorkerLost
  <2>2. /\ lost'[m.job] = lost[m.job] + 1
        /\ \A j \in Jobs \ {m.job} : lost'[j] = lost[j]
    BY <1>1, <2>1
  <2>3. One(m.stage \in Open) \in {0, 1} /\ One("queued" \in Open) = 1  BY <1>3, <1>5
  <2>4. One(status[m.job] \in {"unsent", "failure"}) \in {0, 1}  BY <1>3
  <2>5. received'[m.job] + One("queued" \in Open)
          + One(status'[m.job] \in {"unsent", "failure"})
          + late[m.job] + lost[m.job] + cut[m.job]
          <= received[m.job] + One(m.stage \in Open)
               + One(status[m.job] \in {"unsent", "failure"}) + late'[m.job]
               + lost'[m.job] + cut'[m.job]
    BY <1>1, <2>1, <2>2, <2>3, <2>4
  <2>6. received'[m.job] >= received[m.job]  BY <1>1, <2>1
  <2> QED BY <1>2, <1>4, <2>1, <2>2, <2>5, <2>6, MovedSeen
<1> QED
  BY <1>7, <1>8, <1>9, <1>10, <1>11, <1>12, <1>13, <1>14, <1>15, <1>16, <1>17, <1>18,
     <1>19, <1>20
  DEF Work, Answer, Loss

LEMMA SeenInit == Init => SeenInv
<1> SUFFICES ASSUME Init PROVE SeenInv  OBVIOUS
<1>1. IsABag(messages) /\ DOMAIN messages = {}
  BY DEF Init, EmptyBag, SetToBag, IsABag
<1>2. FiniteQueue  BY <1>1, NothingFinite DEF FiniteQueue
<1>3. ASSUME NEW j \in Jobs
      PROVE  received[j] + Pending(messages, j) + One(status[j] \in {"unsent", "failure"})
               <= 1 + late[j] + lost[j] + cut[j]
  <2>1. OpenIn(messages, j) = {}  BY <1>1 DEF OpenIn
  <2>2. Pending(messages, j) = 0  BY <2>1, UnitsOfNothing DEF Pending
  <2>3. received[j] = 0 /\ late[j] = 0 /\ lost[j] = 0 /\ cut[j] = 0  BY DEF Init
  <2>4. One(status[j] \in {"unsent", "failure"}) \in {0, 1}  BY DEF One
  <2> QED BY <2>2, <2>3, <2>4
<1>4. Reached  BY <1>1 DEF Init, Reached, BagToSet
<1> QED BY <1>2, <1>3, <1>4 DEF SeenInv, Owed

LEMMA SeenNext == QInv /\ QInv' /\ SeenInv /\ [Next]_vars => SeenInv'
<1> SUFFICES ASSUME QInv, QInv', SeenInv, [Next]_vars PROVE SeenInv'  OBVIOUS
<1>1. CASE \E j \in Jobs : Publish(j)  BY <1>1, PublishSeen DEF QInv
<1>2. CASE \E m \in BagToSet(messages) : Work(m) \/ Loss(m)  BY <1>2, WorkSeen
<1>3. CASE Tick \/ Idle \/ UNCHANGED vars
  BY <1>3 DEF Tick, Idle, vars, counters, SeenInv, FiniteQueue, Owed, Reached
<1> QED BY <1>1, <1>2, <1>3 DEF Next

------------------------------------------------------------------------------
(* Theorems.                                                               *)

\* For any jobs, limits, slots and faults, a job only ever has one of the
\* states that the result backend knows, and every message a stage of its own.
THEOREM TypeCorrect == Spec => []TypeOK
BY Invariant, PTL DEF QInv

\* Late acknowledgement and task_reject_on_worker_lost do what they are set
\* for: however often workers die and connections break, the broker holds a message
\* of every job without a result, or one of its messages was rejected.
THEOREM JobsAreNotLost == Spec => []NothingLost
<1>1. QInv => NothingLost  BY DEF QInv, InQueue, NothingLost
<1> QED BY <1>1, Invariant, PTL

\* deliver_webhook and send_fraud_alert_email, once a worker knows the task and can
\* parse the URL, report a failure only after one attempt more than max_retries has
\* failed, whatever is redelivered.
THEOREM NoEarlyGivingUp == Spec => []AttemptsExhausted
BY Invariant, PTL DEF QInv

\* ... and only after the sum of their countdowns: for the exponential backoff
\* of a webhook, the first delay times 2 ^ max_retries - 1.
THEOREM OutageTolerated == Spec => []GivenUpLate
BY Invariant, PTL DEF QInv

\* A peer acts on a job once, and once more for each late answer, each lost process
\* and each lost connection; what the backend reports of a job is what its peer
\* knows of it, an e-mail that could only be logged excepted.
THEOREM PeersSeeWhatIsReported == Spec => []SeenAsReported
<1>1. QInv /\ SeenInv => SeenAsReported
  <2> SUFFICES ASSUME QInv, SeenInv, NEW j \in Jobs
               PROVE  /\ received[j] <= 1 + late[j] + lost[j] + cut[j]
                      /\ status[j] = "success" => received[j] > 0 \/ j \in Logged
                      /\ status[j] = "failure" => received[j] <= late[j] + lost[j] + cut[j]
    BY DEF SeenAsReported
  <2>1. received[j] \in Nat /\ late[j] \in Nat /\ lost[j] \in Nat /\ cut[j] \in Nat
    BY DEF QInv, TypeOK
  <2>2. Pending(messages, j) \in Nat
    BY PendingSplit DEF SeenInv, FiniteQueue
  <2>3. received[j] + Pending(messages, j) + One(status[j] \in {"unsent", "failure"})
          <= 1 + late[j] + lost[j] + cut[j]
    BY DEF SeenInv, Owed
  <2>4. /\ One(status[j] \in {"unsent", "failure"}) \in {0, 1}
        /\ status[j] = "failure" => One(status[j] \in {"unsent", "failure"}) = 1
    BY DEF One
  <2>5. status[j] = "success" => received[j] > 0 \/ j \in Logged  BY DEF SeenInv, Reached
  <2> QED BY <2>1, <2>2, <2>3, <2>4, <2>5
<1> QED BY <1>1, SeenInit, SeenNext, Invariant, PTL DEF Spec
==============================================================================
