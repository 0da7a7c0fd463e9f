----------------------------- MODULE MCTaskQueue -----------------------------
(* Small instances of the task queue: webhooks, an e-mail, and one tick of  *)
(* the beat schedule.                                                       *)
EXTENDS TaskQueue, TLC

CONSTANTS w1, w2, w3, e1, e2, e3, c1

\* A webhook by itself, through a loss, and an e-mail, through two; a webhook that
\* competes with an e-mail for the slots; two webhooks, a malformed one among them,
\* and the beat; a deployment that cannot send e-mail.
MCSchedules == {{w1}, {e3}, {w2, e1}, {w2, w3, c1}, {w2, e2}}

MCKind ==
  [j \in Jobs |-> CASE j \in {w1, w2, w3} -> "webhook" [] j \in {e1, e2, e3} -> "email" [] OTHER -> "cleanup"]

\* Processes die and connections break with one webhook and one e-mail in hand.
MCMaxLost == [j \in Jobs |-> CASE j = w1 -> 1 [] j = e3 -> 2 [] OTHER -> 0]

MCLimit == [webhook |-> 2, email |-> 1, cleanup |-> 0]
==============================================================================
