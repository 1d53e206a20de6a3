--------------------------- MODULE PaymentAttempts ---------------------------
(***************************************************************************)
(* Online payment of invoices (payments.service.ts,                        *)
(* payment-reconciliation.service.ts and the payment half of               *)
(* invoices.service.ts).  An attempt hands the customer a link at VNPAY,   *)
(* MOMO or PAYOS.  What the provider then did is learnt from its           *)
(* notifications, which may be lost, repeated and reordered, and from      *)
(* queries, whose answers may be applied long after they were given.       *)
(* Every database transaction is serializable, hence one step.             *)
(*                                                                         *)
(* Abstractions.  PAID stands for PAID, PARTIALLY_REFUNDED and REFUNDED,   *)
(* which every test in these services treats alike.  A clock is replaced   *)
(* by what is compared with it: expiry, due time and age of the lock.      *)
(* A refusal (no open shift, no stock, inactive employee) is a step not    *)
(* taken.  reconciliationAttempts saturates at MAX_QUERY_ATTEMPTS, the     *)
(* only value it is compared with.                                         *)
(***************************************************************************)
EXTENDS Naturals, FiniteSets

CONSTANTS Invoices, Attempts,
          Reconcilers,          \* executions of claimAttempt + queryProvider
          Source,               \* what starts each of them
          Txns, NoTxn,          \* transaction numbers of one attempt
          NoInvoice, NoAttempt,
          Providers,            \* the configured payment providers
          MAX_QUERY_ATTEMPTS,
          LateCapture,          \* may a payment reported failed still be captured?
          MaxNotices,           \* bound: distinct notifications per attempt
          MaxFaults,            \* bound: crashes, database errors, lost marks
          MaxClosed             \* bound: incidents closed by staff

PaymentProvider == {"VNPAY", "MOMO", "PAYOS"}

ASSUME PaymentConstants ==
  /\ Source \in [Reconcilers -> {"SCHEDULED", "MANUAL", "WEBHOOK"}]
  /\ Providers \subseteq PaymentProvider
  /\ MAX_QUERY_ATTEMPTS \in Nat \ {0}
  /\ LateCapture \in BOOLEAN
  /\ MaxNotices \in Nat /\ MaxFaults \in Nat /\ MaxClosed \in Nat
  /\ NoTxn \notin Txns
  /\ NoInvoice \notin Invoices
  /\ NoAttempt \notin Attempts

VARIABLES invoice,    \* payment status and method of each invoice
          attempt,    \* the PaymentAttempt rows
          incident,   \* the incident rows, keyed by type and attempt
          captured,   \* money the provider really took: transaction numbers
          declined,   \* attempts whose failure the provider has reported
          sent,       \* notifications the provider has sent
          recorded,   \* PaymentWebhookEvent rows, unique by payloadHash
          notified,   \* PAYOS_PAYMENT_NOTIFIED events in the outbox
          worker,     \* reconciliations in flight
          faults, closed

world == <<captured, declined, sent>>
vars == <<invoice, attempt, incident, captured, declined, sent, recorded,
          notified, worker, faults, closed>>

AttemptStatus == {"PENDING", "SUCCEEDED", "FAILED", "EXPIRED", "REQUIRES_REVIEW"}
Unresolved == {"PENDING", "EXPIRED", "REQUIRES_REVIEW"}
IncidentType == {"STALE_ATTEMPT", "PAYMENT_STATE_CONFLICT",
                 "PROVIDER_PAYMENT_MISMATCH", "PROVIDER_UNAVAILABLE"}
IncidentStatus == {"NONE", "OPEN", "RESOLVED", "IGNORED"}

Invoice == [status : {"UNPAID", "PAID", "VOIDED"},
            method : {"NONE", "CASH", "TRANSFER"}]
\* due: nextReconcileAt is null, the expiry, a later time or reached.
\* lock: reconciliationLockedAt is null, recent, or older than LOCK_TIMEOUT_MS.
PaymentAttempt ==
  [status : AttemptStatus \cup {"NONE"}, provider : PaymentProvider \cup {"NONE"},
   invoice : Invoices \cup {NoInvoice}, txn : Txns \cup {NoTxn},
   url : BOOLEAN, past : BOOLEAN, due : {"none", "expiry", "later", "now"},
   lock : {"free", "held", "stale"}, queries : 0 .. MAX_QUERY_ATTEMPTS]
NoRow == [status |-> "NONE", provider |-> "NONE", invoice |-> NoInvoice,
          txn |-> NoTxn, url |-> FALSE, past |-> FALSE, due |-> "none",
          lock |-> "free", queries |-> 0]

\* A notification: its outcome, whether it matches the attempt, its number.
Notice == [outcome : {"success", "failure", "unclear"}, matches : BOOLEAN,
           txn : Txns \cup {NoTxn}]
\* What a query brings back; an exception counts as unavailable.
Answer == [kind : {"paid", "failed", "pending", "mismatch", "unavailable"},
           txn : Txns \cup {NoTxn}]
NoAnswer == [kind |-> "unavailable", txn |-> NoTxn]
Worker == [pc : {"idle", "asking", "answered"},
           attempt : Attempts \cup {NoAttempt}, answer : Answer]
IdleWorker == [pc |-> "idle", attempt |-> NoAttempt, answer |-> NoAnswer]

Init ==
  /\ invoice = [i \in Invoices |-> [status |-> "UNPAID", method |-> "NONE"]]
  /\ attempt = [a \in Attempts |-> NoRow]
  /\ incident = [a \in Attempts |-> [t \in IncidentType |-> "NONE"]]
  /\ captured = [a \in Attempts |-> {}]
  /\ declined = [a \in Attempts |-> FALSE]
  /\ sent = [a \in Attempts |-> {}]
  /\ recorded = [a \in Attempts |-> {}]
  /\ notified = [a \in Attempts |-> FALSE]
  /\ worker = [r \in Reconcilers |-> IdleWorker]
  /\ faults = 0
  /\ closed = 0

Exists(a) == attempt[a].status # "NONE"
InvoiceOf(a) == invoice[attempt[a].invoice]
assertInvoiceIsUnpaid(i) == invoice[i].status = "UNPAID"

-----------------------------------------------------------------------------
(* The counter.                                                            *)

HasUnresolved(i) ==
  \E a \in Attempts : attempt[a].invoice = i /\ attempt[a].status \in Unresolved

\* createAttempt, up to the commit of the row.
CreateAttempt(a, i, p) ==
  /\ ~Exists(a)
  /\ assertInvoiceIsUnpaid(i)
  /\ ~HasUnresolved(i)
  /\ attempt' = [attempt EXCEPT ![a] =
       [NoRow EXCEPT !.status = "PENDING", !.provider = p, !.invoice = i,
                     !.due = "expiry"]]
  /\ UNCHANGED <<invoice, incident, world, recorded, notified, worker, faults, closed>>

\* presentAttempt, for the first call and for every replay of its key: the
\* link is kept, and handed out, only if the attempt can still be paid.
PresentAttempt(a) ==
  /\ attempt[a].status = "PENDING" /\ ~attempt[a].past /\ ~attempt[a].url
  /\ assertInvoiceIsUnpaid(attempt[a].invoice)
  /\ attempt' = [attempt EXCEPT ![a].url = TRUE]
  /\ UNCHANGED <<invoice, incident, world, recorded, notified, worker, faults, closed>>

\* resolveExistingAttempt: a replay that finds its attempt out of time.
ResolveExistingAttempt(a) ==
  /\ attempt[a].status = "PENDING" /\ attempt[a].past
  /\ attempt' = [attempt EXCEPT ![a].status = "EXPIRED", ![a].due = "now"]
  /\ UNCHANGED <<invoice, incident, world, recorded, notified, worker, faults, closed>>

\* updatePayment: the cashier takes cash for the invoice.
UpdatePayment(i) ==
  /\ assertInvoiceIsUnpaid(i)
  /\ ~HasUnresolved(i)
  /\ invoice' = [invoice EXCEPT ![i] = [status |-> "PAID", method |-> "CASH"]]
  /\ UNCHANGED <<attempt, incident, world, recorded, notified, worker, faults, closed>>

VoidInvoice(i) ==
  /\ assertInvoiceIsUnpaid(i)
  /\ ~HasUnresolved(i)
  /\ invoice' = [invoice EXCEPT ![i].status = "VOIDED"]
  /\ UNCHANGED <<attempt, incident, world, recorded, notified, worker, faults, closed>>

\* Mutant: the payment state is not consulted.
CanAlwaysResolve(a) == Exists(a)
\* resolveIncident: RESOLVE waits for the payment state, IGNORE does not.
CanResolve(a) == attempt[a].status # "REQUIRES_REVIEW"
ResolveIncident(a, t) ==
  /\ incident[a][t] = "OPEN"
  /\ closed < MaxClosed
  /\ closed' = closed + 1
  /\ \E s \in {"RESOLVED", "IGNORED"} :
       /\ s = "RESOLVED" => CanResolve(a)
       /\ incident' = [incident EXCEPT ![a][t] = s]
  /\ UNCHANGED <<invoice, attempt, world, recorded, notified, worker, faults>>

-----------------------------------------------------------------------------
(* The provider.                                                           *)

\* The customer pays.  A payOS link is one capture; the other providers may
\* take the money of one reference twice.
Capture(a) ==
  /\ attempt[a].url
  /\ declined[a] => LateCapture
  /\ attempt[a].provider = "PAYOS" => captured[a] = {}
  /\ \E t \in Txns \ captured[a] : captured' = [captured EXCEPT ![a] = @ \cup {t}]
  /\ UNCHANGED <<invoice, attempt, incident, declined, sent, recorded, notified,
                 worker, faults, closed>>

\* A provider reports success only of money it took, failure only while it
\* has taken none.
Truthful(a, outcome, txn) ==
  /\ outcome = "success" => captured[a] # {} /\ txn \in captured[a] \cup {NoTxn}
  /\ outcome # "success" => txn = NoTxn
  /\ outcome = "failure" => captured[a] = {}

Notify(a) ==
  /\ Exists(a)
  /\ Cardinality(sent[a]) < MaxNotices
  /\ \E n \in Notice \ sent[a] :
       /\ Truthful(a, n.outcome, n.txn)
       /\ sent' = [sent EXCEPT ![a] = @ \cup {n}]
       /\ declined' = [declined EXCEPT ![a] = @ \/ n.outcome = "failure"]
  /\ UNCHANGED <<invoice, attempt, incident, captured, recorded, notified, worker,
                 faults, closed>>

-----------------------------------------------------------------------------
(* Notifications.  A handler records the payload first, and a payload that *)
(* was recorded before changes nothing; then it decides.                   *)

CompleteOnlinePayment(i) ==
  [invoice EXCEPT ![i] = [status |-> "PAID", method |-> "TRANSFER"]]

\* markPaymentReview and markForReview: a confirmed attempt keeps its status.
Parked(row) ==
  IF row.status = "SUCCEEDED"
  THEN [row EXCEPT !.due = "none", !.lock = "free"]
  ELSE [row EXCEPT !.status = "REQUIRES_REVIEW", !.due = "none", !.lock = "free"]
MarkPaymentReview(row, txn) ==
  [Parked(row) EXCEPT !.txn = IF row.status = "SUCCEEDED" THEN @ ELSE txn]
Closed(row, status, txn) ==
  [row EXCEPT !.status = status, !.txn = txn, !.due = "none", !.lock = "free"]
OpenIncident(a, t) == [incident EXCEPT ![a][t] = "OPEN"]

\* Mutant: a confirmed attempt answers every later success "already done".
AlreadyDoneVerdict(a, success, txn) ==
  IF attempt[a].status \in {"SUCCEEDED", "REQUIRES_REVIEW"} THEN "ignore"
  ELSE IF ~assertInvoiceIsUnpaid(attempt[a].invoice)
  THEN IF success THEN "conflict" ELSE "ignore"
  ELSE IF success THEN "confirm" ELSE "fail"
\* Mutant: the invoice is not read again before it is paid.
InvoiceUnreadVerdict(a, success, txn) ==
  IF attempt[a].status = "SUCCEEDED"
  THEN IF success /\ txn # attempt[a].txn THEN "conflict" ELSE "ignore"
  ELSE IF attempt[a].status = "REQUIRES_REVIEW" THEN "ignore"
  ELSE IF success THEN "confirm" ELSE "fail"
\* The tests both IPN handlers make of the state, in their order.
StateVerdict(a, success, txn) ==
  IF attempt[a].status = "SUCCEEDED"
  THEN IF success /\ txn # attempt[a].txn THEN "conflict" ELSE "ignore"
  ELSE IF attempt[a].status = "REQUIRES_REVIEW" THEN "ignore"
  ELSE IF ~assertInvoiceIsUnpaid(attempt[a].invoice)
  THEN IF success THEN "conflict" ELSE "ignore"
  ELSE IF success THEN "confirm" ELSE "fail"

\* handleVnpayIpn: a foreign amount first, then the state, then what is
\* missing for a definitive outcome.
VnpayVerdict(a, n) ==
  LET success == n.outcome = "success"
      verdict == StateVerdict(a, success, n.txn)
  IN  IF ~n.matches THEN IF success THEN "mismatch" ELSE "ignore"
      ELSE IF \/ verdict = "confirm" /\ n.txn = NoTxn
              \/ verdict = "fail" /\ n.outcome = "unclear"
      THEN "mismatch"
      ELSE verdict

\* handleMomoIpn: a mismatch is reviewed whatever the outcome, and an
\* outcome that is not final is left for a later one.
MomoVerdict(a, n) ==
  LET success == n.outcome = "success"
  IN  IF ~n.matches \/ (success /\ n.txn = NoTxn) THEN "mismatch"
      ELSE IF n.outcome = "unclear" THEN "ignore"
      ELSE StateVerdict(a, success, n.txn)

\* handlePayosWebhook: a paid link is never believed, it is queried.
PayosVerdict(a, n) ==
  IF n.outcome # "success" THEN "ignore" ELSE IF n.matches THEN "query" ELSE "mismatch"

\* The other attempts on the invoice that still wait are superseded; MoMo's
\* handler leaves their lock alone.
Confirm(a, txn) ==
  [b \in Attempts |->
    IF b = a THEN Closed(attempt[a], "SUCCEEDED", txn)
    ELSE IF attempt[b].invoice = attempt[a].invoice /\ attempt[b].status = "PENDING"
         THEN [Closed(attempt[b], "FAILED", attempt[b].txn) EXCEPT
                 !.lock = IF attempt[a].provider = "MOMO" THEN attempt[b].lock ELSE @]
         ELSE attempt[b]]

Decide(a, n, verdict) ==
  /\ attempt' =
       CASE verdict \in {"mismatch", "conflict"} ->
              [attempt EXCEPT ![a] = MarkPaymentReview(@,
                 IF @.provider = "PAYOS" THEN NoTxn ELSE n.txn)]
         [] verdict = "fail" ->
              [attempt EXCEPT ![a] = Closed(@, "FAILED",
                 IF @.provider = "VNPAY" THEN n.txn ELSE @.txn)]
         [] verdict = "confirm" -> Confirm(a, n.txn)
         [] verdict = "query" ->
              IF attempt[a].status \in {"PENDING", "EXPIRED"}
              THEN [attempt EXCEPT ![a].due = "now"] ELSE attempt
         [] verdict = "ignore" -> attempt
  /\ incident' =
       CASE verdict = "mismatch" -> OpenIncident(a, "PROVIDER_PAYMENT_MISMATCH")
         [] verdict = "conflict" -> OpenIncident(a, "PAYMENT_STATE_CONFLICT")
         [] verdict \notin {"mismatch", "conflict"} -> incident
  /\ invoice' = IF verdict = "confirm"
                THEN CompleteOnlinePayment(attempt[a].invoice) ELSE invoice
  /\ notified' = [notified EXCEPT ![a] = @ \/ verdict = "query"]

HandleNotice(a, n, provider, verdict) ==
  /\ attempt[a].provider = provider
  /\ n \notin recorded[a]
  /\ recorded' = [recorded EXCEPT ![a] = @ \cup {n}]
  /\ Decide(a, n, verdict)
  /\ UNCHANGED <<world, worker, faults, closed>>

HandleVnpayIpn(a, n)      == HandleNotice(a, n, "VNPAY", VnpayVerdict(a, n))
HandleMomoIpn(a, n)       == HandleNotice(a, n, "MOMO", MomoVerdict(a, n))
HandlePayosWebhook(a, n)  == HandleNotice(a, n, "PAYOS", PayosVerdict(a, n))

-----------------------------------------------------------------------------
(* Reconciliation: claim the row, ask the provider, apply the answer.      *)

\* Mutant: the lock of a dead process is never taken over.
ClaimFree(r, a) ==
  /\ worker[r].pc = "idle"
  /\ attempt[a].lock = "free"
  /\ attempt' = [attempt EXCEPT ![a].lock = "held"]
  /\ worker' = [worker EXCEPT ![r] = [IdleWorker EXCEPT !.pc = "asking", !.attempt = a]]
  /\ UNCHANGED <<invoice, incident, world, recorded, notified, faults, closed>>
\* claimAttempt; the scheduler only takes rows that are due.
ClaimAttempt(r, a) ==
  /\ worker[r].pc = "idle"
  /\ attempt[a].lock # "held"
  /\ attempt' = [attempt EXCEPT ![a].lock = "held"]
  /\ worker' = [worker EXCEPT ![r] = [IdleWorker EXCEPT !.pc = "asking", !.attempt = a]]
  /\ UNCHANGED <<invoice, incident, world, recorded, notified, faults, closed>>

\* Mutant: expired attempts are thought to be settled.
ReconcilePending(r, a) ==
  /\ Source[r] = "SCHEDULED"
  /\ attempt[a].status = "PENDING" /\ attempt[a].due = "now"
  /\ ClaimAttempt(r, a)
ReconcileDue(r, a) ==
  /\ Source[r] = "SCHEDULED"
  /\ attempt[a].status \in {"PENDING", "EXPIRED"} /\ attempt[a].due = "now"
  /\ ClaimAttempt(r, a)

ReconcileAttempt(r, a) ==
  /\ Source[r] = "MANUAL"
  /\ Exists(a)
  /\ ClaimAttempt(r, a)

\* The PAYOS_PAYMENT_NOTIFIED listener.  It throws while the row is claimed,
\* and the outbox then delivers the event again.
OnPayosNotified(r, a) ==
  /\ Source[r] = "WEBHOOK"
  /\ notified[a] /\ attempt[a].status # "REQUIRES_REVIEW"
  /\ ClaimAttempt(r, a)

OnPayosNotifiedInReview(a) ==
  /\ notified[a] /\ attempt[a].status = "REQUIRES_REVIEW"
  /\ notified' = [notified EXCEPT ![a] = FALSE]
  /\ UNCHANGED <<invoice, attempt, incident, world, recorded, worker, faults, closed>>

\* queryProvider up to the answer.  The provider is as truthful here.
QueryProvider(r) ==
  /\ worker[r].pc = "asking"
  /\ LET a == worker[r].attempt IN
     \E ans \in Answer :
       /\ Truthful(a, CASE ans.kind = "paid" -> "success"
                        [] ans.kind = "failed" -> "failure"
                        [] ans.kind \notin {"paid", "failed"} -> "unclear", ans.txn)
       /\ worker' = [worker EXCEPT ![r].pc = "answered", ![r].answer = ans]
       /\ declined' = [declined EXCEPT ![a] = @ \/ ans.kind = "failed"]
  /\ UNCHANGED <<invoice, attempt, incident, captured, sent, recorded, notified,
                 faults, closed>>

Counted(row) ==
  [row EXCEPT !.queries = IF @ < MAX_QUERY_ATTEMPTS THEN @ + 1 ELSE @]

\* confirmProviderPayment, and queryMomo's test of a known number.
PaidVerdict(row, i, txn) ==
  IF \/ txn = NoTxn
     \/ row.status = "SUCCEEDED" /\ row.txn # txn
     \/ row.provider = "MOMO" /\ row.txn \notin {NoTxn, txn}
  THEN "mismatch"
  ELSE IF row.status = "SUCCEEDED"
  THEN IF invoice[i].status = "PAID" THEN "verified" ELSE "conflict"
  ELSE IF assertInvoiceIsUnpaid(i) THEN "confirm" ELSE "conflict"

\* Mutant: the provider's failure is believed whatever was booked.
BelievedVerdict(row, i) == IF row.status = "NONE" THEN "mismatch" ELSE "fail"
\* confirmProviderFailure: money already booked is never unbooked.
FailedVerdict(row, i) ==
  IF row.status = "SUCCEEDED" \/ ~assertInvoiceIsUnpaid(i) THEN "mismatch" ELSE "fail"

\* rescheduleOrReview: a backoff, until the queries are used up.
RetryVerdict(row) ==
  IF row.status = "SUCCEEDED" THEN "unverified"
  ELSE IF row.queries + 1 >= MAX_QUERY_ATTEMPTS THEN "stuck" ELSE "retry"

AnswerVerdict(row, ans) ==
  CASE ans.kind = "paid"     -> PaidVerdict(row, row.invoice, ans.txn)
    [] ans.kind = "failed"   -> FailedVerdict(row, row.invoice)
    [] ans.kind = "mismatch" -> "mismatch"
    [] ans.kind \in {"pending", "unavailable"} -> RetryVerdict(row)

\* autoResolveIncidents
AutoResolved(a) ==
  [incident EXCEPT ![a] = [t \in IncidentType |->
     IF @[t] = "OPEN" /\ t \in {"STALE_ATTEMPT", "PROVIDER_UNAVAILABLE"}
     THEN "RESOLVED" ELSE @[t]]]

\* The transaction that applies an answer to the row as it now is.
ApplyAnswer(r) ==
  LET a == worker[r].attempt
      row == attempt[a]
      ans == worker[r].answer
      verdict == AnswerVerdict(row, ans)
      retryIncident == IF ans.kind = "pending" THEN "STALE_ATTEMPT"
                                               ELSE "PROVIDER_UNAVAILABLE"
  IN
  /\ worker[r].pc = "answered"
  /\ attempt' = [attempt EXCEPT ![a] = Counted(
       CASE verdict \in {"mismatch", "conflict", "stuck"} -> Parked(row)
         [] verdict = "fail"    -> Closed(row, "FAILED", NoTxn)
         [] verdict = "confirm" -> Closed(row, "SUCCEEDED", ans.txn)
         [] verdict = "retry"   -> [row EXCEPT !.due = "later", !.lock = "free"]
         [] verdict \in {"verified", "unverified"} ->
              [row EXCEPT !.due = "none", !.lock = "free"])]
  /\ incident' =
       CASE verdict = "mismatch" -> OpenIncident(a, "PROVIDER_PAYMENT_MISMATCH")
         [] verdict = "conflict" -> OpenIncident(a, "PAYMENT_STATE_CONFLICT")
         [] verdict \in {"stuck", "unverified"} -> OpenIncident(a, retryIncident)
         [] verdict \in {"confirm", "verified"} -> AutoResolved(a)
         [] verdict \in {"fail", "retry"} -> incident
  /\ invoice' = IF verdict = "confirm" THEN CompleteOnlinePayment(row.invoice)
                                       ELSE invoice
  /\ worker' = [worker EXCEPT ![r] = IdleWorker]
  /\ notified' = [notified EXCEPT ![a] =
                    @ /\ ~(Source[r] = "WEBHOOK" /\ ans.kind # "unavailable")]
  /\ UNCHANGED <<world, recorded, faults, closed>>

Fault == faults < MaxFaults /\ faults' = faults + 1

\* The transaction fails: releaseAttempt frees the row, whoever holds it.
ApplyAnswerFails(r) ==
  /\ Fault
  /\ worker[r].pc = "answered"
  /\ worker[r].answer.kind = "unavailable" => attempt[worker[r].attempt].provider = "VNPAY"
  /\ attempt' = [attempt EXCEPT ![worker[r].attempt].lock = "free"]
  /\ worker' = [worker EXCEPT ![r] = IdleWorker]
  /\ UNCHANGED <<invoice, incident, world, recorded, notified, closed>>

\* The process dies, or cannot even record that the query failed: the row
\* stays locked.
Crash(r) ==
  /\ Fault
  /\ worker[r].pc # "idle"
  /\ worker' = [worker EXCEPT ![r] = IdleWorker]
  /\ UNCHANGED <<invoice, attempt, incident, world, recorded, notified, closed>>

\* The outbox delivers again an event whose listener had finished.
Redeliver(a) ==
  /\ Fault
  /\ \E n \in recorded[a] : PayosVerdict(a, n) = "query"
  /\ attempt[a].provider = "PAYOS" /\ ~notified[a]
  /\ notified' = [notified EXCEPT ![a] = TRUE]
  /\ UNCHANGED <<invoice, attempt, incident, world, recorded, worker, closed>>

-----------------------------------------------------------------------------
(* Time, where a later test can tell that it has passed.                   *)

Expire(a) ==
  /\ attempt[a].status = "PENDING" /\ ~attempt[a].past
  /\ attempt' = [attempt EXCEPT ![a].past = TRUE,
                                ![a].due = IF @ = "expiry" THEN "now" ELSE @]
  /\ UNCHANGED <<invoice, incident, world, recorded, notified, worker, faults, closed>>

BecomeDue(a) ==
  /\ attempt[a].status \in {"PENDING", "EXPIRED"}
  /\ attempt[a].due = "later"
  /\ attempt' = [attempt EXCEPT ![a].due = "now"]
  /\ UNCHANGED <<invoice, incident, world, recorded, notified, worker, faults, closed>>

LockTimesOut(a) ==
  /\ attempt[a].lock = "held"
  /\ attempt' = [attempt EXCEPT ![a].lock = "stale"]
  /\ UNCHANGED <<invoice, incident, world, recorded, notified, worker, faults, closed>>

-----------------------------------------------------------------------------
Next ==
  \/ \E a \in Attempts, i \in Invoices, p \in Providers : CreateAttempt(a, i, p)
  \/ \E i \in Invoices : UpdatePayment(i) \/ VoidInvoice(i)
  \/ \E a \in Attempts :
       \/ PresentAttempt(a) \/ ResolveExistingAttempt(a)
       \/ Capture(a) \/ Notify(a)
       \/ OnPayosNotifiedInReview(a) \/ Redeliver(a)
       \/ Expire(a) \/ BecomeDue(a) \/ LockTimesOut(a)
       \/ \E t \in IncidentType : ResolveIncident(a, t)
       \/ \E n \in sent[a] :
            HandleVnpayIpn(a, n) \/ HandleMomoIpn(a, n) \/ HandlePayosWebhook(a, n)
  \/ \E r \in Reconcilers :
       \/ \E a \in Attempts : \/ ReconcileDue(r, a)
                              \/ ReconcileAttempt(r, a)
                              \/ OnPayosNotified(r, a)
       \/ QueryProvider(r) \/ ApplyAnswer(r) \/ ApplyAnswerFails(r) \/ Crash(r)

Spec == Init /\ [][Next]_vars

\* The scheduler runs every five minutes in every process, its queries time
\* out, and clocks move: what they enable is eventually done.  Nothing is
\* assumed of the customer, the staff or the provider's notifications.
Fairness ==
  /\ \A a \in Attempts :
       /\ WF_vars(Expire(a)) /\ WF_vars(BecomeDue(a)) /\ WF_vars(LockTimesOut(a))
       /\ WF_vars(\E r \in Reconcilers : ReconcileDue(r, a))
  /\ \A r \in Reconcilers : WF_vars(QueryProvider(r)) /\ WF_vars(ApplyAnswer(r))
FairSpec == Spec /\ Fairness

-----------------------------------------------------------------------------
(* Properties.                                                             *)

\* The rows hold values of their columns, including what the check
\* constraint PaymentAttempt_state_check says of transaction numbers.
TypeOK ==
  /\ invoice \in [Invoices -> Invoice]
  /\ attempt \in [Attempts -> PaymentAttempt]
  /\ \A a \in Attempts :
       /\ attempt[a].status \in {"PENDING", "EXPIRED"} => attempt[a].txn = NoTxn
       /\ attempt[a].status = "SUCCEEDED" => attempt[a].txn # NoTxn
       /\ Exists(a) <=> attempt[a].invoice \in Invoices
  /\ incident \in [Attempts -> [IncidentType -> IncidentStatus]]
  /\ captured \in [Attempts -> SUBSET Txns]
  /\ declined \in [Attempts -> BOOLEAN]
  /\ sent \in [Attempts -> SUBSET Notice]
  /\ recorded \in [Attempts -> SUBSET Notice]
  /\ notified \in [Attempts -> BOOLEAN]
  /\ worker \in [Reconcilers -> Worker]
  /\ faults \in 0 .. MaxFaults
  /\ closed \in 0 .. MaxClosed

\* A confirmed attempt is money the provider really took, and an invoice is
\* settled by transfer exactly when one attempt on it is confirmed: no
\* notification or late answer pays an invoice twice, or one that was paid
\* in cash or voided meanwhile.
TransferMatchesCapture ==
  /\ TypeOK
  /\ \A a \in Attempts : attempt[a].status = "SUCCEEDED" =>
       /\ attempt[a].txn \in captured[a]
       /\ InvoiceOf(a) = [status |-> "PAID", method |-> "TRANSFER"]
       /\ \A b \in Attempts \ {a} : attempt[b].status = "SUCCEEDED" =>
            attempt[b].invoice # attempt[a].invoice
  /\ \A i \in Invoices : invoice[i].method = "TRANSFER" =>
       \E a \in Attempts : attempt[a].invoice = i /\ attempt[a].status = "SUCCEEDED"

\* An attempt that waits for a person is on the incident list, open or
\* expressly ignored: it blocks its invoice, so nothing may hide it.
ReviewIsVisible ==
  \A a \in Attempts : attempt[a].status = "REQUIRES_REVIEW" =>
    \E t \in IncidentType : incident[a][t] \in {"OPEN", "IGNORED"}

\* A success that VNPay or MoMo reported is on the invoice under its own
\* transaction number, or there is an incident about the attempt.
ReportedCaptureAccounted ==
  \A a \in Attempts : \A n \in recorded[a] :
    n.outcome = "success" /\ attempt[a].provider # "PAYOS" =>
      \/ attempt[a].status = "SUCCEEDED" /\ attempt[a].txn = n.txn
      \/ \E t \in IncidentType : incident[a][t] # "NONE"

\* Settlement is final: whatever arrives later, a confirmed attempt keeps its
\* status and number, and a settled invoice keeps how it was settled.
SettlementFinal ==
  [][/\ \A a \in Attempts : attempt[a].status = "SUCCEEDED" =>
          attempt'[a].status = "SUCCEEDED" /\ attempt'[a].txn = attempt[a].txn
     /\ \A i \in Invoices : invoice[i].status # "UNPAID" => invoice'[i] = invoice[i]]_vars

\* Every attempt is decided or handed to a person, even if no notification
\* ever arrives and reconcilers crash.
AttemptSettles ==
  \A a \in Attempts :
    Exists(a) ~> attempt[a].status \in {"SUCCEEDED", "FAILED", "REQUIRES_REVIEW"}

\* Money taken is noticed without any notification, provided the provider
\* does not take it after reporting failure.
CaptureNoticed ==
  \A a \in Attempts :
    captured[a] # {} ~> \/ attempt[a].status = "SUCCEEDED"
                       \/ \E t \in IncidentType : incident[a][t] # "NONE"
=============================================================================
