------------------------- MODULE MCPaymentAttempts -------------------------
EXTENDS PaymentAttempts, TLC

CONSTANTS a1, a2, t1, t2, sched, manual, webhook

MCSource == [r \in Reconcilers |->
               CASE r = sched -> "SCHEDULED" [] r = manual -> "MANUAL" [] r = webhook -> "WEBHOOK"]
\* Attempts and transaction numbers are interchangeable.
Symmetry == Permutations(Attempts) \cup Permutations(Txns)
=============================================================================
