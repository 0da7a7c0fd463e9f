-------------------------- MODULE IdempotentLedger ---------------------------
(***************************************************************************)
(* What POST /transactions promises its clients, with no database, cache,  *)
(* queue or failure in sight: for every idempotency key at most one row is *)
(* ever recorded, a recorded row never changes, and whoever is told that a *)
(* transaction was created is told the row recorded for the key it sent.   *)
(* A request may also never be told anything (an error, a crash).          *)
(***************************************************************************)
CONSTANTS
  Requests,   \* the HTTP requests
  Keys,       \* the idempotency keys
  Rows,       \* what a ledger row can hold
  NoRow       \* the absence of a row

VARIABLES
  asks,   \* the key each request carries
  book,   \* the row recorded under each key
  told    \* the row each request was told of

vars == <<asks, book, told>>

Init ==
  /\ asks \in [Requests -> Keys]
  /\ book = [k \in Keys |-> NoRow]
  /\ told = [r \in Requests |-> NoRow]

Record(k) ==
  /\ book[k] = NoRow
  /\ book'[k] \in Rows
  /\ book' = [book EXCEPT ![k] = book'[k]]
  /\ UNCHANGED <<asks, told>>

Tell(r) ==
  /\ told[r] = NoRow
  /\ book[asks[r]] # NoRow
  /\ told' = [told EXCEPT ![r] = book[asks[r]]]
  /\ UNCHANGED <<asks, book>>

Next ==
  \/ \E k \in Keys : Record(k)
  \/ \E r \in Requests : Tell(r)

Spec == Init /\ [][Next]_vars
==============================================================================
