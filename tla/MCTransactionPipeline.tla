------------------------ MODULE MCTransactionPipeline ------------------------
(* Small instances of the pipeline: who sends what, and what may fail.      *)
EXTENDS TransactionPipeline, Functions, TLC

CONSTANTS r1, r2, r3, k1, k2, u1, u2, a1

MCOwner == (a1 :> u1)
MCBalance == (a1 :> 3)

\* Scores 0 and 0.85: below and beyond every threshold of the combination.
MCRawScores == {3750, -4750}
MCInnocent == {3750}

Payment(k, h, u, n, w) ==
  [key |-> k, hdr |-> h, user |-> u, account |-> a1, amount |-> n, webhook |-> w]

\* Payments of 2 out of 3: each fits the opening balance, two do not.
Customer == {Payment(k, k, u1, 2, TRUE) : k \in Keys}

\* Payments of 1, three of which fit: only their number can be too high.  They
\* come without the header, so that only the database guards them.
Small == {Payment(k, NoKey, u1, 1, FALSE) : k \in Keys}

\* Clients as the documentation asks: the header repeats the body's key, or is
\* left out.  u2 does not own the account; a user outside ActiveUsers may try.
Agreeing ==
  Customer \cup {Payment(k1, NoKey, u1, 1, FALSE)}
           \cup {Payment(k1, k1, u, 1, FALSE) : u \in Users \ {u1}}

\* A client that sends one header with the bodies of several payments.
Disagreeing == {Payment(k, k1, u1, 2, TRUE) : k \in Keys}

MCPayloads == Agreeing \cup Disagreeing \cup Small

Interchangeable == Permutations(Requests)

AgreeingWorkloads == [Requests -> Agreeing]
CustomerWorkloads == [Requests -> Customer]

\* Customers, or one that sends one header with all payments, of two keys; or a
\* small payment under a key of its own from each.
ContendingWorkloads ==
  [Requests -> {p \in Customer : p.key \in {k1, k2}}]
    \cup [Requests -> {p \in Disagreeing : p.key \in {k1, k2}}]
    \cup {w \in [Requests -> Small] : IsInjective(w)}

\* One key three times, or one key twice beside another.
RetryWorkloads ==
  {w \in [{r1, r2, r3} -> Customer] : w[r1].key = k1 /\ w[r2].key = k1}
==============================================================================
