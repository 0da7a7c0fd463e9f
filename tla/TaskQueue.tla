------------------------------ MODULE TaskQueue ------------------------------
(***************************************************************************)
(* The Celery application of app/tasks/celery_app.py: jobs published to    *)
(* RabbitMQ, workers that take, run, retry and acknowledge them, and the   *)
(* peer (a merchant, the mail server) at the other end.                    *)
(*                                                                         *)
(* A job is one publication: a `.delay' of the pipeline, or one tick of    *)
(* the beat schedule.  The queue is a bag of messages.  A message keeps,   *)
(* besides its job, the retries made before it, the instant its countdown  *)
(* ends, and its stage:                                                    *)
(*   queued    with the broker, or held by a worker for its countdown      *)
(*   running   a slot of a worker has it, and is to call the peer          *)
(*   hung      ... which neither ends the call nor lets it time out        *)
(*   refused   the task has caught an error of the call                    *)
(*   answered  the task has returned                                       *)
(*   settled   all is stored, only the acknowledgement is missing          *)
(* Acknowledgements are late: a message stays in the queue all the while,  *)
(* and is queued again when the process that runs it dies or its worker's  *)
(* connection to the broker breaks.  The task of a broken connection runs  *)
(* on: its message is stale, and the broker has another one.               *)
(***************************************************************************)
EXTENDS Integers, FiniteSets, Bags, BagsExt

CONSTANTS
  Jobs,
  Schedules,    \* which jobs may be published: sets of jobs
  Kind,         \* what each job is: "webhook", "email" or "cleanup"
  Limit,        \* max_retries of each kind: 5, 3 and none in the code
  Malformed,    \* the webhooks whose URL httpx cannot parse
  Logged,       \* the e-mails of a deployment without SMTP credentials
  Concurrency,  \* slots of all workers: 4 in the deployment
  MaxLost,      \* bound: processes and connections lost with a message of each job in hand
  Faults        \* how peers and the broker may fail

Kinds == {"webhook", "email", "cleanup"}

ASSUME TaskQueueAssumption ==
  /\ Schedules \subseteq SUBSET Jobs
  /\ Kind \in [Jobs -> Kinds]
  /\ Limit \in [Kinds -> Nat]
  /\ Malformed \subseteq {j \in Jobs : Kind[j] = "webhook"}
  /\ Logged \subseteq {j \in Jobs : Kind[j] = "email"}
  /\ Concurrency \in Nat \ {0}
  /\ MaxLost \in [Jobs -> Nat]
  /\ Faults \subseteq {"refusal", "late", "silence", "broker"}

VARIABLES
  messages,   \* the queue
  status,     \* the result backend's word on each job
  since,      \* when it was published
  received,   \* how often its peer has acted on it
  late,       \* ... though the worker saw an error
  refusals,   \* attempts the worker saw fail
  lost,       \* processes that died with a message of it in hand
  cut,        \* connections that broke with a message of it in hand
  rejected,   \* the jobs with a message rejected without requeueing
  clock       \* in units of 30 seconds

counters == <<since, received, late, refusals, lost, cut, rejected>>
vars == <<messages, status, counters, clock>>

Stages == {"queued", "running", "hung", "refused", "answered", "settled"}

Message(j, n, due) ==
  [job |-> j, retries |-> n, due |-> due, stage |-> "queued", stale |-> FALSE]

Init ==
  /\ messages = EmptyBag
  /\ \E jobs \in Schedules :
       status = [j \in Jobs |-> IF j \in jobs THEN "unsent" ELSE "never"]
  /\ since = [j \in Jobs |-> 0]
  /\ received = [j \in Jobs |-> 0]
  /\ late = [j \in Jobs |-> 0]
  /\ refusals = [j \in Jobs |-> 0]
  /\ lost = [j \in Jobs |-> 0]
  /\ cut = [j \in Jobs |-> 0]
  /\ rejected = {}
  /\ clock = 0

------------------------------------------------------------------------------
\* The task name a message carries.  `.delay' sends the registered name; the
\* beat entry names the function with its module.
SentAs ==
  [webhook |-> "app.tasks.deliver_webhook",
   email   |-> "app.tasks.send_fraud_alert_email",
   cleanup |-> "app.tasks.celery_app.cleanup_expired_idempotency_keys"]

Registered ==
  {"app.tasks.deliver_webhook",
   "app.tasks.send_fraud_alert_email",
   "app.tasks.cleanup_expired_idempotency_keys"}

Known(j) == SentAs[Kind[j]] \in Registered

\* The delay before retry n + 1: 30 seconds, doubled each time, for a webhook;
\* 60 seconds for an e-mail.
Countdown(kind, n) == IF kind = "webhook" THEN 2 ^ n ELSE 2

InHand(m) == m.stage # "queued"

Occurrences(kept) == BagCardinality([m \in kept |-> messages[m]])

\* A faulty SlotFree: one slot of the workers is never used.
SlotToSpare == Occurrences({m \in BagToSet(messages) : InHand(m)}) < Concurrency - 1

SlotFree == Occurrences({m \in BagToSet(messages) : InHand(m)}) < Concurrency

Hanging == Occurrences({m \in BagToSet(messages) : m.stage = "hung"})

\* The result backend keeps a success whatever comes later.
Fails(j) == [status EXCEPT ![j] = IF @ = "success" THEN @ ELSE "failure"]

\* STARTED and RETRY are stored too: the job has no result (any longer).
Begun(j) == [status EXCEPT ![j] = IF @ = "success" THEN @ ELSE "pending"]

\* Message m moves on to another stage.
Moves(m, stage) == messages' = BagAdd(BagRemove(messages, m), [m EXCEPT !.stage = stage])

Publish(j) ==
  /\ status[j] = "unsent"
  /\ messages' = BagAdd(messages, Message(j, 0, clock))
  /\ status' = [status EXCEPT ![j] = "pending"]
  /\ since' = [since EXCEPT ![j] = clock]
  /\ UNCHANGED <<received, late, refusals, lost, cut, rejected, clock>>

Take(m) ==
  /\ m.stage = "queued" /\ m.due <= clock
  /\ Known(m.job)
  /\ SlotFree
  /\ status' = Begun(m.job)
  /\ Moves(m, "running")
  /\ UNCHANGED <<counters, clock>>

\* A worker rejects, for good, what is no registered task, and stores the
\* failure.
Discard(m) ==
  /\ m.stage = "queued"
  /\ ~Known(m.job)
  /\ messages' = BagRemove(messages, m)
  /\ status' = Fails(m.job)
  /\ rejected' = rejected \cup {m.job}
  /\ UNCHANGED <<since, received, late, refusals, lost, cut, clock>>

------------------------------------------------------------------------------
(* The call, as the task sees it.                                          *)

\* Message m is about to reach its peer.
Calls(m) == m.stage = "running" /\ m.job \notin Malformed \cup Logged

Accept(m) ==
  /\ Calls(m)
  /\ received' = [received EXCEPT ![m.job] = @ + 1]
  /\ Moves(m, "answered")
  /\ UNCHANGED <<status, since, late, refusals, lost, cut, rejected, clock>>

Refuse(m) ==
  /\ "refusal" \in Faults
  /\ Calls(m)
  /\ refusals' = [refusals EXCEPT ![m.job] = @ + 1]
  /\ Moves(m, "refused")
  /\ UNCHANGED <<status, since, received, late, lost, cut, rejected, clock>>

\* The peer acts, but its answer comes after the timeout of 10 seconds or is
\* an error (of the mail server's QUIT, for an e-mail).
AcceptLate(m) ==
  /\ "late" \in Faults
  /\ Calls(m)
  /\ received' = [received EXCEPT ![m.job] = @ + 1]
  /\ late' = [late EXCEPT ![m.job] = @ + 1]
  /\ refusals' = [refusals EXCEPT ![m.job] = @ + 1]
  /\ Moves(m, "refused")
  /\ UNCHANGED <<status, since, lost, cut, rejected, clock>>

\* smtplib is given no timeout, httpx one for each read and write but not for the
\* whole call, and no task has a time limit: a mail server that falls silent, or
\* a merchant whose answer never ends, keeps the slot.
FallSilent(m) ==
  /\ "silence" \in Faults
  /\ Calls(m)
  /\ Moves(m, "hung")
  /\ UNCHANGED <<status, counters, clock>>

\* Without SMTP_USER and SMTP_PASSWORD, the task writes a line to the log and
\* returns that the alert is sent.
LogOnly(m) ==
  /\ m.stage = "running" /\ m.job \in Logged
  /\ Moves(m, "answered")
  /\ UNCHANGED <<status, counters, clock>>

\* httpx.InvalidURL is no HTTPError: the task fails without a retry.
Unparsable(m) ==
  /\ m.stage = "running" /\ m.job \in Malformed
  /\ status' = Fails(m.job)
  /\ Moves(m, "settled")
  /\ UNCHANGED <<counters, clock>>

------------------------------------------------------------------------------
(* self.retry, and the end of the task.                                    *)

\* A faulty Retry: the message that is retried is queued again as well.
RetryRequeued(m) ==
  /\ m.stage = "refused" /\ m.retries < Limit[Kind[m.job]]
  /\ messages' =
       BagAdd(BagAdd(BagRemove(messages, m), [m EXCEPT !.stage = "queued"]),
              Message(m.job, m.retries + 1,
                      clock + Countdown(Kind[m.job], m.retries)))
  /\ status' = Begun(m.job)
  /\ UNCHANGED <<counters, clock>>

\* Another: the delay of the first retry for all of them.
RetryUndelayed(m) ==
  /\ m.stage = "refused" /\ m.retries < Limit[Kind[m.job]]
  /\ messages' =
       BagAdd(BagAdd(BagRemove(messages, m), [m EXCEPT !.stage = "settled"]),
              Message(m.job, m.retries + 1, clock + Countdown(Kind[m.job], 0)))
  /\ status' = Begun(m.job)
  /\ UNCHANGED <<counters, clock>>

\* self.retry publishes the next message; this one is then acknowledged.
Retry(m) ==
  /\ m.stage = "refused" /\ m.retries < Limit[Kind[m.job]]
  /\ messages' =
       BagAdd(BagAdd(BagRemove(messages, m), [m EXCEPT !.stage = "settled"]),
              Message(m.job, m.retries + 1,
                      clock + Countdown(Kind[m.job], m.retries)))
  /\ status' = Begun(m.job)
  /\ UNCHANGED <<counters, clock>>

\* The broker does not take the new message: the old one is rejected, unless it
\* is stale and the broker has it again.
RetryUnsent(m) ==
  /\ "broker" \in Faults
  /\ m.stage = "refused" /\ m.retries < Limit[Kind[m.job]]
  /\ messages' = BagRemove(messages, m)
  /\ rejected' = IF m.stale THEN rejected ELSE rejected \cup {m.job}
  /\ UNCHANGED <<status, since, received, late, refusals, lost, cut, clock>>

\* A faulty GiveUp: one retry early.
GiveUpEarly(m) ==
  /\ m.stage = "refused" /\ m.retries + 1 >= Limit[Kind[m.job]]
  /\ status' = Fails(m.job)
  /\ Moves(m, "settled")
  /\ UNCHANGED <<counters, clock>>

\* self.retry raises the error itself once the retries are used up.
GiveUp(m) ==
  /\ m.stage = "refused" /\ m.retries = Limit[Kind[m.job]]
  /\ status' = Fails(m.job)
  /\ Moves(m, "settled")
  /\ UNCHANGED <<counters, clock>>

\* A faulty Succeed: what the task returned is kept for its state.
SucceedAsDelivered(m) ==
  /\ m.stage = "answered"
  /\ status' = [status EXCEPT ![m.job] = "delivered"]
  /\ Moves(m, "settled")
  /\ UNCHANGED <<counters, clock>>

Succeed(m) ==
  /\ m.stage = "answered"
  /\ status' = [status EXCEPT ![m.job] = "success"]
  /\ Moves(m, "settled")
  /\ UNCHANGED <<counters, clock>>

\* On a broken connection the acknowledgement reaches nobody.
Acknowledge(m) ==
  /\ m.stage = "settled"
  /\ messages' = BagRemove(messages, m)
  /\ UNCHANGED <<status, counters, clock>>

\* Bounded: message m is in a worker's hands and its job may still lose one.
MayLose(m) == InHand(m) /\ lost[m.job] + cut[m.job] < MaxLost[m.job]

\* A faulty WorkerLost: without task_reject_on_worker_lost.
WorkerLostAcknowledged(m) ==
  /\ MayLose(m) /\ ~m.stale
  /\ lost' = [lost EXCEPT ![m.job] = @ + 1]
  /\ messages' = BagRemove(messages, m)
  /\ UNCHANGED <<status, since, received, late, refusals, cut, rejected, clock>>

WorkerLost(m) ==
  /\ MayLose(m) /\ ~m.stale
  /\ lost' = [lost EXCEPT ![m.job] = @ + 1]
  /\ Moves(m, "queued")
  /\ UNCHANGED <<status, since, received, late, refusals, cut, rejected, clock>>

\* The process that dies ran a stale message: the broker has the other one.
StaleLost(m) ==
  /\ MayLose(m) /\ m.stale
  /\ lost' = [lost EXCEPT ![m.job] = @ + 1]
  /\ messages' = BagRemove(messages, m)
  /\ UNCHANGED <<status, since, received, late, refusals, cut, rejected, clock>>

\* The broker queues again what a broken connection has not acknowledged, while
\* the task runs on.
ConnectionLost(m) ==
  /\ MayLose(m) /\ ~m.stale
  /\ cut' = [cut EXCEPT ![m.job] = @ + 1]
  /\ messages' = BagAdd(BagAdd(BagRemove(messages, m), [m EXCEPT !.stale = TRUE]),
                       [m EXCEPT !.stage = "queued"])
  /\ UNCHANGED <<status, since, received, late, refusals, lost, rejected, clock>>

\* Time is of consequence only while a countdown runs.
Tick ==
  /\ \E m \in BagToSet(messages) : m.stage = "queued" /\ m.due > clock
  /\ clock' = clock + 1
  /\ UNCHANGED <<messages, status, counters>>

------------------------------------------------------------------------------
\* Calls end by themselves or by a timeout, or else they hang.
Answer(m) ==
  \/ Accept(m) \/ Refuse(m) \/ AcceptLate(m) \/ FallSilent(m)
  \/ LogOnly(m) \/ Unparsable(m)

Work(m) ==
  \/ Take(m) \/ Discard(m) \/ Answer(m)
  \/ Retry(m) \/ RetryUnsent(m) \/ GiveUp(m) \/ Succeed(m) \/ Acknowledge(m)

Loss(m) == WorkerLost(m) \/ StaleLost(m) \/ ConnectionLost(m)

\* Nothing is left but calls that hang, and what waits for their slots.
Idle ==
  /\ \A j \in Jobs : status[j] # "unsent"
  /\ \A m \in BagToSet(messages) :
       \/ m.stage = "hung"
       \/ m.stage = "queued" /\ Hanging >= Concurrency
  /\ UNCHANGED vars

Next ==
  \/ \E j \in Jobs : Publish(j)
  \/ \E m \in BagToSet(messages) : Work(m) \/ Loss(m)
  \/ Tick
  \/ Idle

Spec == Init /\ [][Next]_vars

\* Workers restart when they die and work as long as there is something to do.
FairSpec ==
  /\ Spec
  /\ WF_vars(Tick)
  /\ \A j \in Jobs : WF_vars(\E m \in BagToSet(messages) : m.job = j /\ Work(m))

------------------------------------------------------------------------------
(* Properties.                                                             *)

\* Every variable stays within its type.
TypeOK ==
  /\ IsABag(messages)
  /\ BagToSet(messages) \subseteq
       [job : Jobs, retries : Nat, due : Nat, stage : Stages, stale : BOOLEAN]
  /\ status \in [Jobs -> {"never", "unsent", "pending", "success", "failure"}]
  /\ since \in [Jobs -> Nat]
  /\ received \in [Jobs -> Nat]
  /\ late \in [Jobs -> Nat]
  /\ refusals \in [Jobs -> Nat]
  /\ lost \in [Jobs -> Nat]
  /\ cut \in [Jobs -> Nat]
  /\ rejected \subseteq Jobs
  /\ clock \in Nat

\* No process that dies and no connection that breaks takes a job with it: what
\* has no result is in the queue, by a message that the broker holds for it or in
\* the hands of a worker, unless a message of it was rejected.
NothingLost ==
  \A j \in Jobs :
    status[j] = "pending" =>
      j \in rejected \/ \E m \in BagToSet(messages) : m.job = j /\ ~m.stale

\* What the first n countdowns add up to: 1 + 2 + 4 + ..., or 2 + 2 + ...
Waited(kind, n) == IF kind = "webhook" THEN 2 ^ n - 1 ELSE 2 * n

\* The jobs whose calls can be made.
Callable == {j \in Jobs \ Malformed : Known(j)}

\* A job with a task and a well-formed URL fails only after all its attempts have
\* failed, whatever crashes and redeliveries come in between.
AttemptsExhausted ==
  \A j \in Callable : status[j] = "failure" => refusals[j] > Limit[Kind[j]]

\* ... and not before all its countdowns are over: an outage of the peer that is
\* shorter than their sum loses nothing.
GivenUpLate ==
  \A j \in Callable :
    status[j] = "failure" => clock >= since[j] + Waited(Kind[j], Limit[Kind[j]])

\* A peer sees a job more than once only for a late answer, a lost process or a
\* lost connection; a job reported failed was seen only so, and one reported done
\* was seen, unless it is an e-mail and there are no credentials to send it with.
SeenAsReported ==
  \A j \in Jobs :
    /\ received[j] <= 1 + late[j] + lost[j] + cut[j]
    /\ status[j] = "success" => received[j] > 0 \/ j \in Logged
    /\ status[j] = "failure" => received[j] <= late[j] + lost[j] + cut[j]

\* A call that hangs stops no other job as long as fewer calls hang than there are
\* slots: every webhook ends in a success or a failure, unless a message of it
\* was rejected, a call of its own hangs, or calls hang in every slot.
WebhooksSettle ==
  \A j \in Jobs : Kind[j] = "webhook" =>
    (status[j] = "pending" ~>
       \/ status[j] \in {"success", "failure"}
       \/ j \in rejected
       \/ \E m \in BagToSet(messages) : m.job = j /\ m.stage = "hung"
       \/ Hanging >= Concurrency)

\* The scheduled deletion of expired idempotency records is carried out.
ScheduledCleanupRuns ==
  \A j \in Jobs : Kind[j] = "cleanup" =>
    (status[j] = "pending" ~> status[j] = "success")
==============================================================================
