--------------------------- MODULE PaymentRefunds ---------------------------
(***************************************************************************)
(* Refunds of one confirmed VNPAY payment (payment-refunds.service.ts and  *)
(* recoverAbandonedRefunds).  Refunds of different payments touch no       *)
(* common row.  The request leaves the process between two transactions:   *)
(* the call may time out, the process may die, and VNPay may carry the     *)
(* request out all the same, now or later.                                 *)
(***************************************************************************)
EXTENDS Integers, FiniteSets, Sums

CONSTANTS Refunds,          \* the refund rows that may be created
          Paid,             \* the amount of the payment attempt
          Amounts,          \* amounts staff may ask back
          MaxResolved         \* bound: incidents closed by staff

ASSUME RefundConstants ==
  /\ IsFiniteSet(Refunds)
  /\ Paid \in Nat \ {0}
  /\ Amounts \subseteq Nat \ {0}
  /\ MaxResolved \in Nat

VARIABLES paymentStatus,  \* of the invoice
          refund,     \* the PaymentRefund rows
          call,       \* the provider call of each submission
          bank,       \* what VNPay did with the requests it received
          refundIncident,   \* incident rows of each refund, by deduplication key
          resolved

refundVars == <<paymentStatus, refund, call, bank, refundIncident, resolved>>

RefundStatus == {"PENDING", "PROCESSING", "SUCCEEDED", "FAILED", "REJECTED",
                 "REQUIRES_REVIEW"}
Reviewable == {"refund-provider", "refund-state", "refund-interrupted",
               "refund-invoice-state"}
\* lock: reconciliationLockedAt is null, recent or older than LOCK_TIMEOUT_MS.
Refund == [status : RefundStatus \cup {"NONE"}, amount : Amounts \cup {0},
           lock : {"free", "held", "stale"}]
NoRefund == [status |-> "NONE", amount |-> 0, lock |-> "free"]
\* sent, done, refused: requests waiting, carried out and turned down.
Bank == [sent : Nat, done : Nat, refused : Nat]

RefundInit ==
  /\ paymentStatus = "PAID"
  /\ refund = [r \in Refunds |-> NoRefund]
  /\ call = [r \in Refunds |-> "none"]
  /\ bank = [r \in Refunds |-> [sent |-> 0, done |-> 0, refused |-> 0]]
  /\ refundIncident = [r \in Refunds |-> [k \in Reviewable |-> "NONE"]]
  /\ resolved = 0

SumOf(rows, statuses) ==
  Total([r \in Refunds |-> rows[r].amount], {r \in Refunds : rows[r].status \in statuses})

\* Mutant: a refund in doubt is thought not to have happened.
CertainRefundStatuses == {"PENDING", "PROCESSING", "SUCCEEDED"}
RESERVED_REFUND_STATUSES == {"PENDING", "PROCESSING", "SUCCEEDED", "REQUIRES_REVIEW"}
OpenRefundIncident(r, k) == [refundIncident EXCEPT ![r][k] = "OPEN"]

\* createRefund, up to the commit of the row.
CreateRefund(r, amount) ==
  /\ refund[r].status = "NONE"
  /\ paymentStatus \in {"PAID", "PARTIALLY_REFUNDED"}
  /\ amount <= Paid - SumOf(refund, RESERVED_REFUND_STATUSES)
  /\ refund' = [refund EXCEPT ![r] =
       [status |-> "PENDING", amount |-> amount, lock |-> "free"]]
  /\ UNCHANGED <<paymentStatus, call, bank, refundIncident, resolved>>


\* submitRefund, up to the request: by createRefund, by a replay of its key
\* or by the scheduler's recoverPendingRefunds; the claim lets one through.
SubmitRefund(r) ==
  /\ refund[r].status = "PENDING"
  /\ refund' = [refund EXCEPT ![r].status = "PROCESSING", ![r].lock = "held"]
  /\ call' = [call EXCEPT ![r] = "sending"]
  /\ bank' = [bank EXCEPT ![r].sent = @ + 1]
  /\ UNCHANGED <<paymentStatus, refundIncident, resolved>>

\* VNPay carries a request out, or turns it down, whenever it gets to it.
BankDecides(r) ==
  /\ bank[r].sent > 0
  /\ \/ bank' = [bank EXCEPT ![r].sent = @ - 1, ![r].done = @ + 1]
     \/ bank' = [bank EXCEPT ![r].sent = @ - 1, ![r].refused = @ + 1]
  /\ UNCHANGED <<paymentStatus, refund, call, refundIncident, resolved>>

\* refundOutcome and refundResponseMismatch of a truthful answer: a definite
\* outcome only after the decision, an indefinite one at any time.
Outcomes(r) ==
  {"REQUIRES_REVIEW"}
    \cup (IF bank[r].done > 0 THEN {"SUCCEEDED"} ELSE {})
    \cup (IF bank[r].refused > 0 THEN {"FAILED", "REJECTED"} ELSE {})

TargetStatus(sum) == IF sum >= Paid THEN "REFUNDED" ELSE "PARTIALLY_REFUNDED"

\* applyProviderResponse and completeSuccessfulRefund.  The row is written
\* whatever its status has become since the claim.
ApplyProviderResponse(r) ==
  /\ call[r] = "sending"
  /\ call' = [call EXCEPT ![r] = "done"]
  /\ \E outcome \in Outcomes(r) :
       LET rows == [refund EXCEPT ![r].status = outcome, ![r].lock = "free"]
           refundable == paymentStatus \in {"PAID", "PARTIALLY_REFUNDED"}
       IN
       /\ refund' = rows
       /\ paymentStatus' = IF outcome = "SUCCEEDED" /\ refundable
                     THEN TargetStatus(SumOf(rows, {"SUCCEEDED"})) ELSE paymentStatus
       /\ refundIncident' =
            CASE outcome = "REQUIRES_REVIEW" -> OpenRefundIncident(r, "refund-state")
              [] outcome = "SUCCEEDED" /\ ~refundable ->
                   OpenRefundIncident(r, "refund-invoice-state")
              [] outcome # "REQUIRES_REVIEW" /\ ~(outcome = "SUCCEEDED" /\ ~refundable)
                   -> refundIncident
  /\ UNCHANGED <<bank, resolved>>

\* Mutant: a request that threw is written off.
WriteOff(r) ==
  /\ call[r] = "sending"
  /\ call' = [call EXCEPT ![r] = "done"]
  /\ refund' = [refund EXCEPT ![r].status = "FAILED", ![r].lock = "free"]
  /\ refundIncident' = OpenRefundIncident(r, "refund-provider")
  /\ UNCHANGED <<paymentStatus, bank, resolved>>
\* markProviderUncertain: the call threw.
MarkProviderUncertain(r) ==
  /\ call[r] = "sending"
  /\ call' = [call EXCEPT ![r] = "done"]
  /\ refund' = [refund EXCEPT ![r].status = "REQUIRES_REVIEW", ![r].lock = "free"]
  /\ refundIncident' = OpenRefundIncident(r, "refund-provider")
  /\ UNCHANGED <<paymentStatus, bank, resolved>>

\* The process dies, or the transaction that applies the answer fails (it is
\* returned unawaited, so the catch block does not see it).
CallLost(r) ==
  /\ call[r] = "sending"
  /\ call' = [call EXCEPT ![r] = "done"]
  /\ UNCHANGED <<paymentStatus, refund, bank, refundIncident, resolved>>

RefundLockTimesOut(r) ==
  /\ refund[r].lock = "held"
  /\ refund' = [refund EXCEPT ![r].lock = "stale"]
  /\ UNCHANGED <<paymentStatus, call, bank, refundIncident, resolved>>

\* Mutant: the interrupted request is parked without telling anyone.
ParkAbandonedRefunds(r) ==
  /\ refund[r].status = "PROCESSING" /\ refund[r].lock = "stale"
  /\ refund' = [refund EXCEPT ![r].status = "REQUIRES_REVIEW", ![r].lock = "free"]
  /\ UNCHANGED <<paymentStatus, call, bank, refundIncident, resolved>>
\* Mutant: only a request whose answer was received is recovered.
RecoverAnswered(r) ==
  /\ refund[r].status = "PROCESSING" /\ refund[r].lock = "stale"
  /\ bank[r].sent = 0
  /\ refund' = [refund EXCEPT ![r].status = "REQUIRES_REVIEW", ![r].lock = "free"]
  /\ refundIncident' = OpenRefundIncident(r, "refund-interrupted")
  /\ UNCHANGED <<paymentStatus, call, bank, resolved>>
RecoverAbandonedRefunds(r) ==
  /\ refund[r].status = "PROCESSING" /\ refund[r].lock = "stale"
  /\ refund' = [refund EXCEPT ![r].status = "REQUIRES_REVIEW", ![r].lock = "free"]
  /\ refundIncident' = OpenRefundIncident(r, "refund-interrupted")
  /\ UNCHANGED <<paymentStatus, call, bank, resolved>>

\* resolveIncident, for an incident of a refund.
ResolveRefundIncident(r, k) ==
  /\ refundIncident[r][k] = "OPEN"
  /\ resolved < MaxResolved
  /\ resolved' = resolved + 1
  /\ \E s \in {"RESOLVED", "IGNORED"} :
       /\ s = "RESOLVED" => refund[r].status # "REQUIRES_REVIEW"
       /\ refundIncident' = [refundIncident EXCEPT ![r][k] = s]
  /\ UNCHANGED <<paymentStatus, refund, call, bank>>

RefundNext ==
  \E r \in Refunds :
    \/ \E amount \in Amounts : CreateRefund(r, amount)
    \/ SubmitRefund(r) \/ BankDecides(r)
    \/ ApplyProviderResponse(r) \/ MarkProviderUncertain(r) \/ CallLost(r)
    \/ RefundLockTimesOut(r) \/ RecoverAbandonedRefunds(r)
    \/ \E k \in Reviewable : ResolveRefundIncident(r, k)

RefundSpec == RefundInit /\ [][RefundNext]_refundVars

\* The scheduler resumes pending refunds and recovers abandoned ones in
\* every cycle, and locks age.  Nothing is assumed of VNPay or of the call.
RefundFairness ==
  \A r \in Refunds : /\ WF_refundVars(SubmitRefund(r))
                     /\ WF_refundVars(RefundLockTimesOut(r))
                     /\ WF_refundVars(RecoverAbandonedRefunds(r))
RefundFairSpec == RefundSpec /\ RefundFairness

-----------------------------------------------------------------------------
(* Properties.                                                             *)

\* The rows hold values of their columns, and only a refund whose request is
\* out is locked: whoever ends the request also releases the row.
RefundTypeOK ==
  /\ paymentStatus \in {"PAID", "PARTIALLY_REFUNDED", "REFUNDED"}
  /\ refund \in [Refunds -> Refund]
  /\ \A r \in Refunds : refund[r].lock = "free" <=> refund[r].status # "PROCESSING"
  /\ call \in [Refunds -> {"none", "sending", "done"}]
  /\ bank \in [Refunds -> Bank]
  /\ refundIncident \in [Refunds -> [Reviewable -> {"NONE", "OPEN", "RESOLVED", "IGNORED"}]]
  /\ resolved \in 0 .. MaxResolved

\* VNPay never gives back more than it took, whatever it does with requests
\* that timed out: the amount of a refund in doubt stays reserved, and a
\* request goes out once.
RefundWithinCapture ==
  Total([r \in Refunds |-> refund[r].amount * (bank[r].sent + bank[r].done)], Refunds) <= Paid

\* The invoice says how much of it was given back, so the incident for an
\* invoice that could not be updated is never needed.
InvoiceMatchesRefunds ==
  LET sum == SumOf(refund, {"SUCCEEDED"}) IN
  /\ paymentStatus = (IF sum = 0 THEN "PAID" ELSE
                IF sum < Paid THEN "PARTIALLY_REFUNDED" ELSE "REFUNDED")
  /\ \A r \in Refunds : refundIncident[r]["refund-invoice-state"] = "NONE"

\* The books agree with the bank: a refund is final only as VNPay settled it,
\* and the invoice counts what was given back.
BooksMatchBank ==
  /\ RefundTypeOK
  /\ InvoiceMatchesRefunds
  /\ \A r \in Refunds :
       /\ refund[r].status = "SUCCEEDED" => bank[r].done = 1
       /\ refund[r].status \in {"FAILED", "REJECTED"} => bank[r].done + bank[r].sent = 0

\* A refund in doubt is on the incident list, open or expressly ignored.
DoubtIsVisible ==
  \A r \in Refunds : refund[r].status = "REQUIRES_REVIEW" =>
    \E k \in Reviewable : refundIncident[r][k] \in {"OPEN", "IGNORED"}

\* Every refund is settled or handed to a person, whatever becomes of its
\* call.
RefundSettles ==
  \A r \in Refunds : refund[r].status = "PENDING" ~>
    refund[r].status \in {"SUCCEEDED", "FAILED", "REJECTED", "REQUIRES_REVIEW"}
=============================================================================
