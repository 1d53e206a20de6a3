---------------------------- MODULE PaymentProofs ----------------------------
(***************************************************************************)
(* Proofs about online payments, for any number of invoices, attempts and  *)
(* reconcilers, and about the refunds of a payment (at the end).           *)
(*                                                                         *)
(* What the runs check is not inductive.  That a confirmation is backed by *)
(* money holds because notifications under way and answers not yet applied *)
(* were true when they were given and captures are never undone (Honest,   *)
(* Working), and because every handler works on a row that exists (Known). *)
(***************************************************************************)
EXTENDS PaymentAttempts, PaymentRefunds, SumTheorems

\* A row has a provider exactly if it exists; only existing rows are notified.
Known ==
  \A a \in Attempts : /\ attempt[a].provider # "NONE" <=> Exists(a)
                      /\ notified[a] => Exists(a)

\* A success that was reported is money that was taken.
Honest ==
  \A a \in Attempts : \A n \in sent[a] :
    n.outcome = "success" => n.txn \in captured[a] \cup {NoTxn}

\* A reconciliation is about an existing attempt, and its answer is honest.
Working ==
  \A r \in Reconcilers : worker[r].pc # "idle" =>
    /\ worker[r].attempt \in Attempts
    /\ Exists(worker[r].attempt)
    /\ worker[r].pc = "answered" /\ worker[r].answer.kind = "paid" =>
         worker[r].answer.txn \in captured[worker[r].attempt] \cup {NoTxn}

\* The parts of TransferMatchesCapture.
Confirmed ==
  \A a \in Attempts : attempt[a].status = "SUCCEEDED" =>
    /\ attempt[a].txn \in captured[a]
    /\ InvoiceOf(a) = [status |-> "PAID", method |-> "TRANSFER"]
    /\ \A b \in Attempts \ {a} : attempt[b].status = "SUCCEEDED" =>
         attempt[b].invoice # attempt[a].invoice
Transferred ==
  \A i \in Invoices : invoice[i].method = "TRANSFER" =>
    \E a \in Attempts : attempt[a].invoice = i /\ attempt[a].status = "SUCCEEDED"

Inv ==
  /\ TypeOK
  /\ Known
  /\ Honest
  /\ Working
  /\ Confirmed
  /\ Transferred
  /\ ReviewIsVisible
  /\ ReportedCaptureAccounted

\* A step that unsettles nothing: the body of SettlementFinal.
Final ==
  /\ \A a \in Attempts : attempt[a].status = "SUCCEEDED" =>
       attempt'[a].status = "SUCCEEDED" /\ attempt'[a].txn = attempt[a].txn
  /\ \A i \in Invoices : invoice[i].status # "UNPAID" => invoice'[i] = invoice[i]

\* What the columns of one row say of each other.
RowOK(row) ==
  /\ row \in PaymentAttempt
  /\ row.status \in {"PENDING", "EXPIRED"} => row.txn = NoTxn
  /\ row.status = "SUCCEEDED" => row.txn # NoTxn
  /\ row.status # "NONE" <=> row.invoice \in Invoices
  /\ row.provider # "NONE" <=> row.status # "NONE"

\* The row is about the same payment as before, and as confirmed as before.
Kept(old, new) ==
  /\ new.invoice = old.invoice
  /\ new.provider = old.provider
  /\ new.status = "NONE" <=> old.status = "NONE"
  /\ new.status = "SUCCEEDED" <=> old.status = "SUCCEEDED"
  /\ old.status = "SUCCEEDED" => new.txn = old.txn

\* The success n is on the row, or somebody was told of the attempt.
Accounted(n, row, incidents) ==
  n.outcome = "success" /\ row.provider # "PAYOS" =>
    \/ row.status = "SUCCEEDED" /\ row.txn = n.txn
    \/ \E t \in IncidentType : incidents[t] # "NONE"

\* Reconcilers go on, stop, or begin with an attempt that exists.
WorkersStep ==
  /\ worker' \in [Reconcilers -> Worker]
  /\ \A r \in Reconcilers :
       \/ worker'[r] = worker[r]
       \/ worker'[r].pc = "idle"
       \/ /\ worker'[r].pc = "asking"
          /\ worker'[r].attempt \in Attempts /\ Exists(worker'[r].attempt)

\* Events are about existing attempts.
NotifiedStep ==
  /\ notified' \in [Attempts -> BOOLEAN]
  /\ \A a \in Attempts : notified'[a] => notified[a] \/ Exists(a)

\* Incidents change for a only and do not disappear.
IncidentStep(a) ==
  /\ incident' \in [Attempts -> [IncidentType -> IncidentStatus]]
  /\ \A b \in Attempts \ {a} : incident'[b] = incident[b]
  /\ \A t \in IncidentType : incident[a][t] # "NONE" => incident'[a][t] # "NONE"

\* Notifications are recorded for a only, and what is new is accounted for.
RecordedStep(a) ==
  /\ recorded' \in [Attempts -> SUBSET Notice]
  /\ \A b \in Attempts \ {a} : recorded'[b] = recorded[b]
  /\ \A n \in recorded'[a] : n \in recorded[a] \/ Accounted(n, attempt'[a], incident'[a])

CountersStep == faults' \in 0 .. MaxFaults /\ closed' \in 0 .. MaxClosed

-----------------------------------------------------------------------------
\* The rows of a state that satisfies Inv.
LEMMA RowsOK == ASSUME Inv, NEW a \in Attempts PROVE RowOK(attempt[a])
BY DEF Inv, TypeOK, Known, Exists, RowOK

\* Rows that are right have their types.
LEMMA TypesKept ==
  ASSUME Inv, attempt' \in [Attempts -> PaymentAttempt],
         \A a \in Attempts : RowOK(attempt'[a]),
         invoice' \in [Invoices -> Invoice],
         incident' \in [Attempts -> [IncidentType -> IncidentStatus]],
         recorded' \in [Attempts -> SUBSET Notice],
         notified' \in [Attempts -> BOOLEAN],
         worker' \in [Reconcilers -> Worker],
         CountersStep, UNCHANGED world
  PROVE  TypeOK'
<1>1. \A a \in Attempts :
        /\ attempt'[a].status \in {"PENDING", "EXPIRED"} => attempt'[a].txn = NoTxn
        /\ attempt'[a].status = "SUCCEEDED" => attempt'[a].txn # NoTxn
        /\ attempt'[a].status # "NONE" <=> attempt'[a].invoice \in Invoices
  BY DEF RowOK
<1>2. /\ captured' \in [Attempts -> SUBSET Txns]
      /\ declined' \in [Attempts -> BOOLEAN]
      /\ sent' \in [Attempts -> SUBSET Notice]
  BY DEF Inv, TypeOK, world
<1>. QED
  BY <1>1, <1>2 DEF TypeOK, Exists, CountersStep

\* Every step on a row that keeps what was settled.
LEMMA RowChange ==
  ASSUME Inv, NEW a \in Attempts, NEW row, RowOK(row), Kept(attempt[a], row),
         attempt' = [attempt EXCEPT ![a] = row],
         row.status = "REQUIRES_REVIEW" =>
           \E t \in IncidentType : incident'[a][t] \in {"OPEN", "IGNORED"},
         IncidentStep(a), RecordedStep(a), NotifiedStep, WorkersStep, CountersStep,
         UNCHANGED <<invoice, world>>
  PROVE  Inv' /\ Final
<1>1. /\ attempt' \in [Attempts -> PaymentAttempt] /\ attempt'[a] = row
      /\ \A b \in Attempts \ {a} : attempt'[b] = attempt[b]
  BY DEF Inv, TypeOK, RowOK
<1>2. \A b \in Attempts : Kept(attempt[b], attempt'[b]) /\ RowOK(attempt'[b])
  BY <1>1, RowsOK DEF Kept
<1>3. UNCHANGED <<captured, sent, invoice>>
  BY DEF world
<1>4. TypeOK'
  BY <1>1, <1>2, TypesKept DEF Inv, TypeOK, IncidentStep, RecordedStep, NotifiedStep, WorkersStep
<1>5. Known'
  <2> SUFFICES ASSUME NEW b \in Attempts
               PROVE  /\ attempt'[b].provider # "NONE" <=> attempt'[b].status # "NONE"
                      /\ notified'[b] => attempt'[b].status # "NONE"
    BY DEF Known, Exists
  <2>1. Kept(attempt[b], attempt'[b]) /\ RowOK(attempt'[b])
    BY <1>2
  <2>2. notified'[b] => attempt[b].status # "NONE"
    BY DEF NotifiedStep, Inv, Known, Exists
  <2>. QED BY <2>1, <2>2 DEF Kept, RowOK
<1>6. Honest'
  BY <1>3 DEF Inv, Honest
<1>7. Working'
  <2> SUFFICES ASSUME NEW r \in Reconcilers, worker'[r].pc # "idle"
               PROVE  /\ worker'[r].attempt \in Attempts
                      /\ attempt'[worker'[r].attempt].status # "NONE"
                      /\ worker'[r].pc = "answered" /\ worker'[r].answer.kind = "paid" =>
                           worker'[r].answer.txn \in captured[worker'[r].attempt] \cup {NoTxn}
    BY <1>3 DEF Working, Exists
  <2>1. worker'[r].attempt \in Attempts /\ attempt[worker'[r].attempt].status # "NONE"
    BY DEF WorkersStep, Inv, Working, Exists
  <2>2. attempt'[worker'[r].attempt].status # "NONE"
    BY <1>2, <2>1 DEF Kept
  <2>3. worker'[r].pc = "answered" => worker'[r] = worker[r]
    BY DEF WorkersStep
  <2>. QED
    BY <2>1, <2>2, <2>3 DEF Inv, Working
<1>8. Confirmed'
  BY <1>2, <1>3 DEF Inv, Confirmed, InvoiceOf, Kept
<1>9. Transferred'
  BY <1>2, <1>3 DEF Inv, Transferred, Kept
<1>10. ReviewIsVisible'
  <2> SUFFICES ASSUME NEW b \in Attempts, attempt'[b].status = "REQUIRES_REVIEW"
               PROVE  \E t \in IncidentType : incident'[b][t] \in {"OPEN", "IGNORED"}
    BY DEF ReviewIsVisible
  <2>1. CASE b = a
    BY <1>1, <2>1
  <2>2. CASE b # a
    BY <1>1, <2>2 DEF Inv, ReviewIsVisible, IncidentStep
  <2>. QED BY <2>1, <2>2
<1>11. ReportedCaptureAccounted'
  <2> SUFFICES ASSUME NEW b \in Attempts, NEW n \in recorded'[b]
               PROVE  Accounted(n, attempt'[b], incident'[b])
    BY DEF ReportedCaptureAccounted, Accounted
  <2>1. n \in recorded[b] => Accounted(n, attempt[b], incident[b])
    BY DEF Inv, ReportedCaptureAccounted, Accounted
  <2>2. \A t \in IncidentType : incident[b][t] # "NONE" => incident'[b][t] # "NONE"
    BY DEF IncidentStep
  <2>3. n \in recorded[b] => Accounted(n, attempt'[b], incident'[b])
    BY <1>2, <2>1, <2>2 DEF Accounted, Kept
  <2>4. n \in recorded[b] \/ Accounted(n, attempt'[b], incident'[b])
    BY DEF RecordedStep
  <2>. QED BY <2>3, <2>4
<1>12. Final
  BY <1>2, <1>3 DEF Final, Kept
<1>. QED
  BY <1>4, <1>5, <1>6, <1>7, <1>8, <1>9, <1>10, <1>11, <1>12 DEF Inv

\* Every step that confirms an attempt on an invoice found unpaid, with money
\* that was taken.
LEMMA ConfirmChange ==
  ASSUME Inv, NEW a \in Attempts, Exists(a), attempt[a].status # "SUCCEEDED",
         assertInvoiceIsUnpaid(attempt[a].invoice),
         attempt' \in [Attempts -> PaymentAttempt],
         \A b \in Attempts : RowOK(attempt'[b]),
         attempt'[a].status = "SUCCEEDED", attempt'[a].txn \in captured[a],
         attempt'[a].invoice = attempt[a].invoice,
         \A b \in Attempts \ {a} :
           attempt'[b] = attempt[b] \/ (Kept(attempt[b], attempt'[b])
                                        /\ attempt'[b].status # "REQUIRES_REVIEW"),
         attempt'[a].provider = attempt[a].provider,
         invoice' = CompleteOnlinePayment(attempt[a].invoice),
         IncidentStep(a), RecordedStep(a), NotifiedStep, WorkersStep, CountersStep,
         UNCHANGED world
  PROVE  Inv' /\ Final
<1> DEFINE i == attempt[a].invoice
<1>1. i \in Invoices /\ attempt[a].status # "NONE"
  BY RowsOK DEF RowOK, Exists
<1>2. /\ invoice' \in [Invoices -> Invoice]
      /\ invoice'[i] = [status |-> "PAID", method |-> "TRANSFER"]
      /\ \A j \in Invoices \ {i} : invoice'[j] = invoice[j]
  BY <1>1 DEF Inv, TypeOK, Invoice, CompleteOnlinePayment
<1>3. UNCHANGED <<captured, sent>>
  BY DEF world
<1>4. \A b \in Attempts \ {a} : Kept(attempt[b], attempt'[b])
  BY DEF Kept
<1>5. \A b \in Attempts : attempt[b].status = "SUCCEEDED" => attempt[b].invoice # i
  BY DEF Inv, Confirmed, InvoiceOf, assertInvoiceIsUnpaid
<1>6. TypeOK'
  BY <1>2, TypesKept DEF IncidentStep, RecordedStep, NotifiedStep, WorkersStep
<1>7. \A b \in Attempts : attempt'[b].status = "NONE" <=> attempt[b].status = "NONE"
  BY <1>1, <1>4 DEF Kept
<1>8. Known'
  <2> SUFFICES ASSUME NEW b \in Attempts
               PROVE  /\ attempt'[b].provider # "NONE" <=> attempt'[b].status # "NONE"
                      /\ notified'[b] => attempt'[b].status # "NONE"
    BY DEF Known, Exists
  <2>1. RowOK(attempt'[b])
    OBVIOUS
  <2>2. notified'[b] => attempt[b].status # "NONE"
    BY DEF NotifiedStep, Inv, Known, Exists
  <2>. QED BY <1>7, <2>1, <2>2 DEF RowOK
<1>9. Honest'
  BY <1>3 DEF Inv, Honest
<1>10. Working'
  <2> SUFFICES ASSUME NEW r \in Reconcilers, worker'[r].pc # "idle"
               PROVE  /\ worker'[r].attempt \in Attempts
                      /\ attempt'[worker'[r].attempt].status # "NONE"
                      /\ worker'[r].pc = "answered" /\ worker'[r].answer.kind = "paid" =>
                           worker'[r].answer.txn \in captured[worker'[r].attempt] \cup {NoTxn}
    BY <1>3 DEF Working, Exists
  <2>1. worker'[r].attempt \in Attempts /\ attempt[worker'[r].attempt].status # "NONE"
    BY DEF WorkersStep, Inv, Working, Exists
  <2>2. worker'[r].pc = "answered" => worker'[r] = worker[r]
    BY DEF WorkersStep
  <2>. QED
    BY <1>7, <2>1, <2>2 DEF Inv, Working
<1>11. Confirmed'
  <2> SUFFICES ASSUME NEW b \in Attempts, attempt'[b].status = "SUCCEEDED"
               PROVE  /\ attempt'[b].txn \in captured[b]
                      /\ invoice'[attempt'[b].invoice] = [status |-> "PAID", method |-> "TRANSFER"]
                      /\ \A c \in Attempts \ {b} : attempt'[c].status = "SUCCEEDED" =>
                           attempt'[c].invoice # attempt'[b].invoice
    BY <1>3 DEF Confirmed, InvoiceOf
  <2>1. \A c \in Attempts \ {a} : attempt'[c].status = "SUCCEEDED" =>
          /\ attempt[c].status = "SUCCEEDED" /\ attempt'[c].invoice = attempt[c].invoice
          /\ attempt'[c].txn = attempt[c].txn /\ attempt'[c].invoice # i
    BY <1>4, <1>5 DEF Kept
  <2>2. CASE b = a
    BY <1>2, <2>1, <2>2
  <2>3. CASE b # a
    <3>1. /\ attempt[b].txn \in captured[b]
          /\ invoice[attempt[b].invoice] = [status |-> "PAID", method |-> "TRANSFER"]
          /\ attempt[b].invoice \in Invoices
      BY <2>1, <2>3, RowsOK DEF Inv, Confirmed, InvoiceOf, RowOK
    <3>2. \A c \in Attempts \ {b} : attempt'[c].status = "SUCCEEDED" =>
                           attempt'[c].invoice # attempt'[b].invoice
      BY <2>1, <2>3 DEF Inv, Confirmed
    <3>. QED
      BY <1>2, <2>1, <2>3, <3>1, <3>2
  <2>. QED BY <2>2, <2>3
<1>12. Transferred'
  <2> SUFFICES ASSUME NEW j \in Invoices, invoice'[j].method = "TRANSFER"
               PROVE  \E b \in Attempts : attempt'[b].invoice = j /\ attempt'[b].status = "SUCCEEDED"
    BY DEF Transferred
  <2>1. CASE j = i
    BY <2>1
  <2>2. CASE j # i
    <3>1. PICK b \in Attempts : attempt[b].invoice = j /\ attempt[b].status = "SUCCEEDED"
      BY <1>2, <2>2 DEF Inv, Transferred
    <3>. QED
      BY <1>4, <2>2, <3>1 DEF Kept
  <2>. QED BY <2>1, <2>2
<1>13. ReviewIsVisible'
  <2> SUFFICES ASSUME NEW b \in Attempts, attempt'[b].status = "REQUIRES_REVIEW"
               PROVE  \E t \in IncidentType : incident'[b][t] \in {"OPEN", "IGNORED"}
    BY DEF ReviewIsVisible
  <2>. QED
    BY DEF Inv, ReviewIsVisible, IncidentStep
<1>14. ReportedCaptureAccounted'
  <2> SUFFICES ASSUME NEW b \in Attempts, NEW n \in recorded'[b]
               PROVE  Accounted(n, attempt'[b], incident'[b])
    BY DEF ReportedCaptureAccounted, Accounted
  <2>1. n \in recorded[b] => Accounted(n, attempt[b], incident[b])
    BY DEF Inv, ReportedCaptureAccounted, Accounted
  <2>2. \A t \in IncidentType : incident[b][t] # "NONE" => incident'[b][t] # "NONE"
    BY DEF IncidentStep
  <2>3. n \in recorded[b] => Accounted(n, attempt'[b], incident'[b])
    BY <1>4, <2>1, <2>2 DEF Accounted, Kept
  <2>4. n \in recorded[b] \/ Accounted(n, attempt'[b], incident'[b])
    BY DEF RecordedStep
  <2>. QED BY <2>3, <2>4
<1>15. Final
  <2>1. \A b \in Attempts : attempt[b].status = "SUCCEEDED" =>
          attempt'[b].status = "SUCCEEDED" /\ attempt'[b].txn = attempt[b].txn
    BY <1>4 DEF Kept
  <2>2. \A j \in Invoices : invoice[j].status # "UNPAID" => invoice'[j] = invoice[j]
    BY <1>2 DEF assertInvoiceIsUnpaid
  <2>. QED BY <2>1, <2>2 DEF Final
<1>. QED
  BY <1>6, <1>8, <1>9, <1>10, <1>11, <1>12, <1>13, <1>14, <1>15 DEF Inv

-----------------------------------------------------------------------------
(* What the operators on rows do.                                          *)

\* Kept is transitive.
LEMMA KeptTwice ==
  ASSUME NEW r1, NEW r2, NEW r3, Kept(r1, r2), Kept(r2, r3)
  PROVE  Kept(r1, r3)
BY DEF Kept

\* The time of the next query leaves the rest of a row alone.
LEMMA DueRow ==
  ASSUME NEW row, RowOK(row), NEW d \in {"none", "expiry", "later", "now"}
  PROVE  LET new == [row EXCEPT !.due = d]
         IN  RowOK(new) /\ Kept(row, new) /\ new.status = row.status
BY DEF RowOK, Kept, PaymentAttempt

\* So does its lock,
LEMMA LockRow ==
  ASSUME NEW row, RowOK(row), NEW l \in {"free", "held", "stale"}
  PROVE  LET new == [row EXCEPT !.lock = l]
         IN  RowOK(new) /\ Kept(row, new) /\ new.status = row.status
BY DEF RowOK, Kept, PaymentAttempt

\* both together,
LEMMA ReleasedRow ==
  ASSUME NEW row, RowOK(row), NEW d \in {"none", "expiry", "later", "now"},
         NEW l \in {"free", "held", "stale"}
  PROVE  LET new == [row EXCEPT !.due = d, !.lock = l]
         IN  RowOK(new) /\ Kept(row, new) /\ new.status = row.status
BY DEF RowOK, Kept, PaymentAttempt

\* its link,
LEMMA LinkRow ==
  ASSUME NEW row, RowOK(row), NEW u \in BOOLEAN
  PROVE  LET new == [row EXCEPT !.url = u]
         IN  RowOK(new) /\ Kept(row, new) /\ new.status = row.status
BY DEF RowOK, Kept, PaymentAttempt

\* and its expiry.
LEMMA ExpiredRow ==
  ASSUME NEW row, RowOK(row), NEW d \in {"none", "expiry", "later", "now"}
  PROVE  LET new == [row EXCEPT !.past = TRUE, !.due = d]
         IN  RowOK(new) /\ Kept(row, new) /\ new.status = row.status
BY DEF RowOK, Kept, PaymentAttempt

\* Parked: only a confirmed row stays as it is.
LEMMA ParkedRow ==
  ASSUME NEW row, RowOK(row), row.status # "NONE"
  PROVE  RowOK(Parked(row)) /\ Kept(row, Parked(row)) /\ Parked(row).txn = row.txn
BY DEF RowOK, Kept, PaymentAttempt, Parked, AttemptStatus

\* A number may be noted on a row that is under review.
LEMMA NumberedRow ==
  ASSUME NEW row, RowOK(row), NEW txn \in Txns \cup {NoTxn},
         row.status = "REQUIRES_REVIEW" \/ txn = row.txn
  PROVE  RowOK([row EXCEPT !.txn = txn]) /\ Kept(row, [row EXCEPT !.txn = txn])
BY DEF RowOK, Kept, PaymentAttempt

\* MarkPaymentReview also notes the number that was reported.
LEMMA ReviewedRow ==
  ASSUME NEW row, RowOK(row), row.status # "NONE", NEW txn \in Txns \cup {NoTxn}
  PROVE  RowOK(MarkPaymentReview(row, txn)) /\ Kept(row, MarkPaymentReview(row, txn))
<1> DEFINE p == Parked(row)
           n == IF row.status = "SUCCEEDED" THEN p.txn ELSE txn
<1>1. RowOK(p) /\ Kept(row, p)
  BY ParkedRow
<1>2. MarkPaymentReview(row, txn) = [p EXCEPT !.txn = n]
  BY DEF MarkPaymentReview
<1>3. row.status # "SUCCEEDED" => p.status = "REQUIRES_REVIEW"
  BY DEF Parked, RowOK, PaymentAttempt
<1>4. n \in Txns \cup {NoTxn} /\ (p.status = "REQUIRES_REVIEW" \/ n = p.txn)
  <2>1. p.txn \in Txns \cup {NoTxn}
    BY <1>1 DEF RowOK, PaymentAttempt
  <2> HIDE DEF p
  <2>. QED BY <1>3, <2>1
<1> HIDE DEF p, n
<1>5. RowOK([p EXCEPT !.txn = n]) /\ Kept(p, [p EXCEPT !.txn = n])
  BY <1>1, <1>4, NumberedRow
<1>. QED
  BY <1>1, <1>2, <1>5, KeptTwice

\* Closed, for a row that was not confirmed.
LEMMA FailedRow ==
  ASSUME NEW row, RowOK(row), row.status \notin {"NONE", "SUCCEEDED"},
         NEW txn \in Txns \cup {NoTxn}
  PROVE  /\ RowOK(Closed(row, "FAILED", txn))
         /\ Kept(row, Closed(row, "FAILED", txn))
         /\ Closed(row, "FAILED", txn).status = "FAILED"
BY DEF RowOK, Kept, PaymentAttempt, Closed, AttemptStatus

\* Closed, for a row that is confirmed now.
LEMMA SucceededRow ==
  ASSUME NEW row, RowOK(row), row.status # "NONE", NEW txn \in Txns, txn # NoTxn
  PROVE  LET new == Closed(row, "SUCCEEDED", txn)
         IN  /\ RowOK(new) /\ new.status = "SUCCEEDED" /\ new.txn = txn
             /\ new.invoice = row.invoice /\ new.provider = row.provider
BY DEF RowOK, PaymentAttempt, Closed, AttemptStatus

\* Counting a query changes nothing else.
LEMMA CountedRow ==
  ASSUME NEW row, RowOK(row)
  PROVE  /\ RowOK(Counted(row)) /\ Kept(row, Counted(row))
         /\ Counted(row).status = row.status /\ Counted(row).txn = row.txn
<1> DEFINE q == IF row.queries < MAX_QUERY_ATTEMPTS THEN row.queries + 1 ELSE row.queries
<1>1. row \in PaymentAttempt
  BY DEF RowOK
<1>2. row.queries \in 0 .. MAX_QUERY_ATTEMPTS
  BY <1>1 DEF PaymentAttempt
<1>3. q \in 0 .. MAX_QUERY_ATTEMPTS
  BY <1>2, PaymentConstants
<1>4. Counted(row) = [row EXCEPT !.queries = q]
  BY DEF Counted
<1> HIDE DEF q
<1>. QED
  BY <1>1, <1>3, <1>4 DEF RowOK, Kept, PaymentAttempt

\* Putting an incident on the list.
LEMMA Opened ==
  ASSUME Inv, NEW a \in Attempts, NEW t \in IncidentType, incident' = OpenIncident(a, t)
  PROVE  IncidentStep(a) /\ incident'[a][t] = "OPEN"
BY DEF Inv, TypeOK, OpenIncident, IncidentStep, IncidentStatus

\* Nothing recorded, no event, no reconciler, no counter touched.
LEMMA Others ==
  ASSUME Inv, NEW a \in Attempts
  PROVE  /\ UNCHANGED recorded => RecordedStep(a)
         /\ UNCHANGED notified => NotifiedStep
         /\ UNCHANGED worker => WorkersStep
         /\ UNCHANGED <<faults, closed>> => CountersStep
         /\ UNCHANGED incident => IncidentStep(a)
BY DEF Inv, TypeOK, RecordedStep, NotifiedStep, WorkersStep, CountersStep, IncidentStep

-----------------------------------------------------------------------------
(* The steps.                                                              *)

\* The first state.
LEMMA InitInv == Init => Inv
<1> SUFFICES ASSUME Init PROVE Inv
  OBVIOUS
<1>0. NoRow \in PaymentAttempt /\ NoRow.status = "NONE" /\ NoRow.invoice = NoInvoice
      /\ NoRow.provider = "NONE"
  BY PaymentConstants DEF NoRow, PaymentAttempt
<1>1. IdleWorker \in Worker /\ IdleWorker.pc = "idle"
  BY DEF IdleWorker, Worker, NoAnswer, Answer
<1>2. TypeOK
  BY <1>0, <1>1, PaymentConstants
  DEF Init, TypeOK, Exists, Invoice, IncidentType, IncidentStatus
<1>3. Known /\ Confirmed /\ ReviewIsVisible /\ ReportedCaptureAccounted
  BY <1>0 DEF Init, Known, Confirmed, ReviewIsVisible, ReportedCaptureAccounted, Exists
<1>4. Honest /\ Working /\ Transferred
  BY <1>1 DEF Init, Honest, Working, Transferred
<1>. QED
  BY <1>2, <1>3, <1>4 DEF Inv

\* createAttempt: a new row has nothing behind it.
LEMMA CreateInv ==
  ASSUME Inv, NEW a \in Attempts, NEW i \in Invoices, NEW p \in Providers,
         CreateAttempt(a, i, p)
  PROVE  Inv' /\ Final
<1> DEFINE row == [NoRow EXCEPT !.status = "PENDING", !.provider = p, !.invoice = i,
                                !.due = "expiry"]
<1>1. /\ RowOK(row) /\ row.status = "PENDING" /\ row.invoice = i /\ row.provider = p
      /\ p # "NONE"
  <2>1. NoRow \in PaymentAttempt /\ NoRow.txn = NoTxn
    BY PaymentConstants DEF NoRow, PaymentAttempt
  <2>2. p \in PaymentProvider /\ p # "NONE"
    BY PaymentConstants DEF PaymentProvider
  <2>3. /\ row \in PaymentAttempt /\ row.status = "PENDING" /\ row.invoice = i
        /\ row.provider = p /\ row.txn = NoTxn
    BY <2>1, <2>2 DEF PaymentAttempt, AttemptStatus
  <2> HIDE DEF row
  <2>. QED BY <2>2, <2>3 DEF RowOK
<1> HIDE DEF row
<1>2. /\ attempt' = [attempt EXCEPT ![a] = row]
      /\ attempt[a].status = "NONE"
      /\ UNCHANGED <<invoice, incident, world, recorded, notified, worker, faults, closed>>
  BY DEF CreateAttempt, row, Exists
<1>3. /\ attempt' \in [Attempts -> PaymentAttempt] /\ attempt'[a] = row
      /\ \A b \in Attempts \ {a} : attempt'[b] = attempt[b]
  BY <1>1, <1>2 DEF Inv, TypeOK, RowOK
<1>4. \A b \in Attempts : RowOK(attempt'[b])
  BY <1>1, <1>3, RowsOK
<1>5. UNCHANGED <<captured, sent>>
  BY <1>2 DEF world
<1>6. TypeOK'
  BY <1>2, <1>3, <1>4, TypesKept DEF Inv, TypeOK, CountersStep
<1>7. Known'
  BY <1>1, <1>2, <1>3 DEF Inv, Known, Exists
<1>8. Honest' /\ Working'
  <2>1. Honest'
    BY <1>5 DEF Inv, Honest
  <2>2. Working'
    BY <1>1, <1>2, <1>3, <1>5 DEF Inv, Working, Exists
  <2>. QED BY <2>1, <2>2
<1>9. Confirmed' /\ Transferred'
  BY <1>1, <1>2, <1>3, <1>5 DEF Inv, Confirmed, Transferred, InvoiceOf
<1>10. ReviewIsVisible'
  BY <1>1, <1>2, <1>3 DEF Inv, ReviewIsVisible
<1>11. ReportedCaptureAccounted'
  <2> SUFFICES ASSUME NEW b \in Attempts, NEW n \in recorded[b]
               PROVE  Accounted(n, attempt'[b], incident[b])
    BY <1>2 DEF ReportedCaptureAccounted, Accounted
  <2>1. Accounted(n, attempt[b], incident[b])
    BY DEF Inv, ReportedCaptureAccounted, Accounted
  <2>2. attempt[a].provider = "NONE"
    BY <1>2 DEF Inv, Known, Exists
  <2>. QED
    BY <1>2, <1>3, <2>1, <2>2 DEF Accounted
<1>12. Final
  BY <1>2, <1>3 DEF Final
<1>. QED
  BY <1>6, <1>7, <1>8, <1>9, <1>10, <1>11, <1>12 DEF Inv

\* updatePayment and voidInvoice settle an invoice that nobody has paid.
LEMMA CounterInv ==
  ASSUME Inv, NEW i \in Invoices, UpdatePayment(i) \/ VoidInvoice(i)
  PROVE  Inv' /\ Final
<1>1. /\ invoice[i].status = "UNPAID"
      /\ UNCHANGED <<attempt, incident, world, recorded, notified, worker, faults, closed>>
  BY DEF UpdatePayment, VoidInvoice, assertInvoiceIsUnpaid
<1>2. UNCHANGED <<captured, declined, sent>>
  BY <1>1 DEF world
<1>3. \A a \in Attempts : attempt[a].status = "SUCCEEDED" => attempt[a].invoice # i
  BY <1>1 DEF Inv, Confirmed, InvoiceOf
<1>4. invoice[i].method # "TRANSFER"
  BY <1>3 DEF Inv, Transferred
<1>5. /\ invoice' \in [Invoices -> Invoice]
      /\ invoice'[i].method # "TRANSFER"
      /\ \A j \in Invoices \ {i} : invoice'[j] = invoice[j]
  <2>1. CASE UpdatePayment(i)
    BY <2>1 DEF Inv, TypeOK, Invoice, UpdatePayment
  <2>2. CASE VoidInvoice(i)
    <3> DEFINE v == [invoice[i] EXCEPT !.status = "VOIDED"]
    <3>1. invoice' = [invoice EXCEPT ![i] = v] /\ invoice \in [Invoices -> Invoice]
          /\ invoice[i] \in Invoice
      BY <2>2 DEF VoidInvoice, Inv, TypeOK
    <3>2. v \in Invoice /\ v.method = invoice[i].method
      BY <3>1 DEF Invoice
    <3>. QED BY <1>4, <3>1, <3>2
  <2>. QED BY <2>1, <2>2
<1>6. TypeOK'
  BY <1>1, <1>2, <1>5 DEF Inv, TypeOK, Exists
<1>7. Known' /\ Honest' /\ Working'
  BY <1>1, <1>2 DEF Inv, Known, Honest, Working, Exists
<1>8. Confirmed'
  <2> SUFFICES ASSUME NEW b \in Attempts, attempt[b].status = "SUCCEEDED"
               PROVE  invoice'[attempt[b].invoice] = invoice[attempt[b].invoice]
    BY <1>1, <1>2 DEF Inv, Confirmed, InvoiceOf
  <2>. QED
    BY <1>3, <1>5, RowsOK DEF RowOK
<1>9. Transferred'
  BY <1>1, <1>5 DEF Inv, Transferred
<1>10. ReviewIsVisible' /\ ReportedCaptureAccounted'
  BY <1>1 DEF Inv, ReviewIsVisible, ReportedCaptureAccounted
<1>11. Final
  BY <1>1, <1>5 DEF Final
<1>. QED
  BY <1>6, <1>7, <1>8, <1>9, <1>10, <1>11 DEF Inv

\* presentAttempt, resolveExistingAttempt and the passing of time.
LEMMA TimeInv ==
  ASSUME Inv, NEW a \in Attempts,
         \/ PresentAttempt(a) \/ ResolveExistingAttempt(a)
         \/ Expire(a) \/ BecomeDue(a) \/ LockTimesOut(a)
  PROVE  Inv' /\ Final
<1>1. UNCHANGED <<invoice, incident, world, recorded, notified, worker, faults, closed>>
  BY DEF PresentAttempt, ResolveExistingAttempt, Expire, BecomeDue, LockTimesOut
<1>2. /\ IncidentStep(a) /\ RecordedStep(a) /\ NotifiedStep /\ WorkersStep /\ CountersStep
      /\ UNCHANGED <<invoice, world>>
  BY <1>1, Others
<1>3. RowOK(attempt[a]) /\ attempt \in [Attempts -> PaymentAttempt]
  BY RowsOK DEF Inv, TypeOK
<1>4. \E row : /\ RowOK(row) /\ Kept(attempt[a], row)
               /\ attempt' = [attempt EXCEPT ![a] = row]
               /\ row.status = "REQUIRES_REVIEW" => attempt[a].status = "REQUIRES_REVIEW"
  <2>1. CASE PresentAttempt(a)
    <3>1. attempt' = [attempt EXCEPT ![a] = [attempt[a] EXCEPT !.url = TRUE]]
      BY <1>3, <2>1 DEF PresentAttempt
    <3>. QED BY <1>3, <3>1, LinkRow
  <2>2. CASE ResolveExistingAttempt(a)
    <3> DEFINE row == [attempt[a] EXCEPT !.status = "EXPIRED", !.due = "now"]
    <3>1. attempt' = [attempt EXCEPT ![a] = row] /\ attempt[a].status = "PENDING"
      BY <1>3, <2>2 DEF ResolveExistingAttempt
    <3>2. RowOK(row) /\ Kept(attempt[a], row) /\ row.status = "EXPIRED"
      BY <1>3, <3>1 DEF RowOK, Kept, PaymentAttempt, AttemptStatus
    <3>. QED BY <3>1, <3>2
  <2>3. CASE Expire(a)
    <3> DEFINE d == IF attempt[a].due = "expiry" THEN "now" ELSE attempt[a].due
    <3>1. attempt' = [attempt EXCEPT ![a] = [attempt[a] EXCEPT !.past = TRUE, !.due = d]]
      BY <1>3, <2>3 DEF Expire
    <3>2. d \in {"none", "expiry", "later", "now"}
      BY <1>3 DEF RowOK, PaymentAttempt
    <3> HIDE DEF d
    <3>. QED BY <1>3, <3>1, <3>2, ExpiredRow
  <2>4. CASE BecomeDue(a)
    <3>1. attempt' = [attempt EXCEPT ![a] = [attempt[a] EXCEPT !.due = "now"]]
      BY <1>3, <2>4 DEF BecomeDue
    <3>. QED BY <1>3, <3>1, DueRow
  <2>5. CASE LockTimesOut(a)
    <3>1. attempt' = [attempt EXCEPT ![a] = [attempt[a] EXCEPT !.lock = "stale"]]
      BY <1>3, <2>5 DEF LockTimesOut
    <3>. QED BY <1>3, <3>1, LockRow
  <2>. QED BY <2>1, <2>2, <2>3, <2>4, <2>5
<1>5. PICK row : /\ RowOK(row) /\ Kept(attempt[a], row)
                 /\ attempt' = [attempt EXCEPT ![a] = row]
                 /\ row.status = "REQUIRES_REVIEW" => attempt[a].status = "REQUIRES_REVIEW"
  BY <1>4
<1>6. row.status = "REQUIRES_REVIEW" =>
        \E t \in IncidentType : incident'[a][t] \in {"OPEN", "IGNORED"}
  BY <1>1, <1>5 DEF Inv, ReviewIsVisible
<1>. QED
  BY <1>2, <1>5, <1>6, RowChange

\* Steps that leave the row of a as it is.
LEMMA SameRow ==
  ASSUME Inv, NEW a \in Attempts, UNCHANGED attempt,
         attempt[a].status = "REQUIRES_REVIEW" =>
           \E t \in IncidentType : incident'[a][t] \in {"OPEN", "IGNORED"},
         IncidentStep(a), RecordedStep(a), NotifiedStep, WorkersStep, CountersStep,
         UNCHANGED <<invoice, world>>
  PROVE  Inv' /\ Final
<1>1. attempt' = [attempt EXCEPT ![a] = attempt[a]]
  BY DEF Inv, TypeOK
<1>2. RowOK(attempt[a]) /\ Kept(attempt[a], attempt[a])
  BY RowsOK DEF Kept
<1>. QED
  BY <1>1, <1>2, RowChange

\* Events of the outbox: handled, or delivered again.
LEMMA EventInv ==
  ASSUME Inv, NEW a \in Attempts, OnPayosNotifiedInReview(a) \/ Redeliver(a)
  PROVE  Inv' /\ Final
<1>1. UNCHANGED <<invoice, attempt, incident, world, recorded, worker, closed>>
  BY DEF OnPayosNotifiedInReview, Redeliver
<1>2. CountersStep
  BY <1>1, PaymentConstants DEF Inv, TypeOK, CountersStep, OnPayosNotifiedInReview, Redeliver, Fault
<1>3. NotifiedStep
  BY DEF Inv, TypeOK, Known, Exists, NotifiedStep, OnPayosNotifiedInReview, Redeliver
<1>4. IncidentStep(a) /\ RecordedStep(a) /\ WorkersStep
  BY <1>1, Others
<1>5. attempt[a].status = "REQUIRES_REVIEW" =>
        \E t \in IncidentType : incident'[a][t] \in {"OPEN", "IGNORED"}
  BY <1>1 DEF Inv, ReviewIsVisible
<1>. QED
  BY <1>1, <1>2, <1>3, <1>4, <1>5, SameRow

\* resolveIncident: not as resolved while the attempt waits for a person.
LEMMA ResolveInv ==
  ASSUME Inv, NEW a \in Attempts, NEW t \in IncidentType, ResolveIncident(a, t)
  PROVE  Inv' /\ Final
<1>1. UNCHANGED <<invoice, attempt, world, recorded, notified, worker, faults>>
  BY DEF ResolveIncident
<1>2. CountersStep
  BY <1>1, PaymentConstants DEF Inv, TypeOK, CountersStep, ResolveIncident
<1>3. PICK s \in {"RESOLVED", "IGNORED"} :
        /\ s = "RESOLVED" => attempt[a].status # "REQUIRES_REVIEW"
        /\ incident' = [incident EXCEPT ![a][t] = s]
  BY DEF ResolveIncident, CanResolve
<1>4. IncidentStep(a) /\ incident'[a][t] = s
  BY <1>3 DEF Inv, TypeOK, IncidentStep, IncidentStatus
<1>5. attempt[a].status = "REQUIRES_REVIEW" =>
        \E u \in IncidentType : incident'[a][u] \in {"OPEN", "IGNORED"}
  BY <1>3, <1>4
<1>6. NotifiedStep /\ RecordedStep(a) /\ WorkersStep
  BY <1>1, Others
<1>. QED
  BY <1>1, <1>2, <1>4, <1>5, <1>6, SameRow

\* The provider takes money: what was confirmed stays backed.
LEMMA CaptureInv ==
  ASSUME Inv, NEW a \in Attempts, Capture(a)
  PROVE  Inv' /\ Final
<1>1. UNCHANGED <<invoice, attempt, incident, declined, sent, recorded, notified, worker,
                  faults, closed>>
  BY DEF Capture
<1>2. /\ captured' \in [Attempts -> SUBSET Txns]
      /\ \A b \in Attempts : captured[b] \subseteq captured'[b]
  BY DEF Capture, Inv, TypeOK
<1>3. TypeOK'
  BY <1>1, <1>2 DEF Inv, TypeOK, Exists
<1>4. Known' /\ Transferred' /\ ReviewIsVisible' /\ ReportedCaptureAccounted'
  BY <1>1 DEF Inv, Known, Exists, Transferred, ReviewIsVisible, ReportedCaptureAccounted
<1>5. Honest' /\ Working' /\ Confirmed'
  BY <1>1, <1>2 DEF Inv, Honest, Working, Exists, Confirmed, InvoiceOf
<1>6. Final
  BY <1>1 DEF Final
<1>. QED
  BY <1>3, <1>4, <1>5, <1>6 DEF Inv

\* The provider reports what is true at that moment.
LEMMA NotifyInv ==
  ASSUME Inv, NEW a \in Attempts, Notify(a)
  PROVE  Inv' /\ Final
<1>1. UNCHANGED <<invoice, attempt, incident, captured, recorded, notified, worker, faults,
                  closed>>
  BY DEF Notify
<1>2. PICK n \in Notice : /\ Truthful(a, n.outcome, n.txn)
                          /\ sent' = [sent EXCEPT ![a] = @ \cup {n}]
                          /\ declined' = [declined EXCEPT ![a] = @ \/ n.outcome = "failure"]
  BY DEF Notify
<1>3. sent' \in [Attempts -> SUBSET Notice] /\ declined' \in [Attempts -> BOOLEAN]
  BY <1>2 DEF Inv, TypeOK
<1>4. TypeOK'
  BY <1>1, <1>3 DEF Inv, TypeOK, Exists
<1>5. Known' /\ Transferred' /\ ReviewIsVisible' /\ ReportedCaptureAccounted'
  BY <1>1 DEF Inv, Known, Exists, Transferred, ReviewIsVisible, ReportedCaptureAccounted
<1>6. Working' /\ Confirmed'
  BY <1>1 DEF Inv, Working, Exists, Confirmed, InvoiceOf
<1>7. Honest'
  BY <1>1, <1>2 DEF Inv, TypeOK, Honest, Truthful
<1>8. Final
  BY <1>1 DEF Final
<1>. QED
  BY <1>4, <1>5, <1>6, <1>7, <1>8 DEF Inv

\* queryProvider: so are its answers.
LEMMA QueryInv ==
  ASSUME Inv, NEW r \in Reconcilers, QueryProvider(r)
  PROVE  Inv' /\ Final
<1> DEFINE a == worker[r].attempt
<1>1. UNCHANGED <<invoice, attempt, incident, captured, sent, recorded, notified, faults,
                  closed>>
  BY DEF QueryProvider
<1>2. worker[r].pc = "asking" /\ a \in Attempts /\ Exists(a)
  BY DEF QueryProvider, Inv, Working
<1>3. PICK ans \in Answer :
        /\ Truthful(a, CASE ans.kind = "paid" -> "success"
                         [] ans.kind = "failed" -> "failure"
                         [] ans.kind \notin {"paid", "failed"} -> "unclear", ans.txn)
        /\ worker' = [worker EXCEPT ![r].pc = "answered", ![r].answer = ans]
        /\ declined' = [declined EXCEPT ![a] = @ \/ ans.kind = "failed"]
  BY DEF QueryProvider
<1>4. ans.kind = "paid" => ans.txn \in captured[a] \cup {NoTxn}
  BY <1>3 DEF Truthful
<1> DEFINE w == [worker[r] EXCEPT !.pc = "answered", !.answer = ans]
<1>5. worker \in [Reconcilers -> Worker] /\ worker[r] \in Worker
  BY DEF Inv, TypeOK
<1>6. worker' = [worker EXCEPT ![r] = w]
  BY <1>3, <1>5
<1>7. w \in Worker /\ w.attempt = a /\ w.answer = ans /\ w.pc = "answered"
  BY <1>5 DEF Worker
<1> HIDE DEF w
<1>8. worker' \in [Reconcilers -> Worker] /\ declined' \in [Attempts -> BOOLEAN]
  <2>1. worker' \in [Reconcilers -> Worker]
    BY <1>5, <1>6, <1>7
  <2>2. declined' \in [Attempts -> BOOLEAN]
    BY <1>3 DEF Inv, TypeOK
  <2>. QED BY <2>1, <2>2
<1>9. TypeOK'
  BY <1>1, <1>8 DEF Inv, TypeOK, Exists
<1>10. Known' /\ Transferred' /\ ReviewIsVisible' /\ ReportedCaptureAccounted'
  BY <1>1 DEF Inv, Known, Exists, Transferred, ReviewIsVisible, ReportedCaptureAccounted
<1>11. Honest' /\ Confirmed'
  BY <1>1 DEF Inv, Honest, Confirmed, InvoiceOf
<1>12. Working'
  <2> SUFFICES ASSUME NEW q \in Reconcilers, worker'[q].pc # "idle"
               PROVE  /\ worker'[q].attempt \in Attempts
                      /\ attempt[worker'[q].attempt].status # "NONE"
                      /\ worker'[q].pc = "answered" /\ worker'[q].answer.kind = "paid" =>
                           worker'[q].answer.txn \in captured[worker'[q].attempt] \cup {NoTxn}
    BY <1>1 DEF Working, Exists
  <2>1. CASE q = r
    <3>1. worker'[q] = w
      BY <1>5, <1>6, <2>1
    <3>. QED
      BY <1>2, <1>4, <1>7, <3>1 DEF Exists
  <2>2. CASE q # r
    BY <1>5, <1>6, <2>2 DEF Inv, Working, Exists
  <2>. QED BY <2>1, <2>2
<1>13. Final
  BY <1>1 DEF Final
<1>. QED
  BY <1>9, <1>10, <1>11, <1>12, <1>13 DEF Inv

\* claimAttempt, for whichever reason.
LEMMA ClaimInv ==
  ASSUME Inv, NEW r \in Reconcilers, NEW a \in Attempts,
         ReconcileDue(r, a) \/ ReconcileAttempt(r, a) \/ OnPayosNotified(r, a)
  PROVE  Inv' /\ Final
<1>1. ClaimAttempt(r, a) /\ Exists(a)
  BY DEF ReconcileDue, ReconcileAttempt, OnPayosNotified, Exists, Inv, Known
<1>2. UNCHANGED <<invoice, incident, world, recorded, notified, faults, closed>>
  BY <1>1 DEF ClaimAttempt
<1> DEFINE row == [attempt[a] EXCEPT !.lock = "held"]
           w == [IdleWorker EXCEPT !.pc = "asking", !.attempt = a]
<1>3. attempt' = [attempt EXCEPT ![a] = row]
  BY <1>1 DEF ClaimAttempt, Inv, TypeOK
<1>4. RowOK(row) /\ Kept(attempt[a], row) /\ row.status = attempt[a].status
  BY RowsOK, LockRow
<1>5. w \in Worker /\ w.pc = "asking" /\ w.attempt = a
  BY DEF IdleWorker, Worker, NoAnswer, Answer
<1>6. worker' = [worker EXCEPT ![r] = w] /\ worker \in [Reconcilers -> Worker]
  BY <1>1 DEF ClaimAttempt, Inv, TypeOK
<1> HIDE DEF row, w
<1>7. WorkersStep
  BY <1>1, <1>5, <1>6 DEF WorkersStep
<1>8. IncidentStep(a) /\ RecordedStep(a) /\ NotifiedStep /\ CountersStep
  BY <1>2, Others
<1>9. row.status = "REQUIRES_REVIEW" =>
        \E t \in IncidentType : incident'[a][t] \in {"OPEN", "IGNORED"}
  BY <1>2, <1>4 DEF Inv, ReviewIsVisible
<1>. QED
  BY <1>2, <1>3, <1>4, <1>7, <1>8, <1>9, RowChange

\* A reconciler that stops.
LEMMA StopsWorking ==
  ASSUME Inv, NEW r \in Reconcilers, worker' = [worker EXCEPT ![r] = IdleWorker]
  PROVE  WorkersStep
<1>1. IdleWorker \in Worker /\ IdleWorker.pc = "idle"
  BY DEF IdleWorker, Worker, NoAnswer, Answer
<1>. QED
  BY <1>1 DEF WorkersStep, Inv, TypeOK

\* A reconciliation that dies, or whose transaction fails.
LEMMA FaultInv ==
  ASSUME Inv, NEW r \in Reconcilers, Crash(r) \/ ApplyAnswerFails(r)
  PROVE  Inv' /\ Final
<1> DEFINE a == worker[r].attempt
<1>1. a \in Attempts /\ worker' = [worker EXCEPT ![r] = IdleWorker]
  BY DEF Crash, ApplyAnswerFails, Inv, Working
<1>2. UNCHANGED <<invoice, incident, world, recorded, notified, closed>>
  BY DEF Crash, ApplyAnswerFails
<1>3. CountersStep
  BY <1>2, PaymentConstants DEF Inv, TypeOK, CountersStep, Crash, ApplyAnswerFails, Fault
<1>4. IncidentStep(a) /\ RecordedStep(a) /\ NotifiedStep /\ WorkersStep
  BY <1>1, <1>2, Others, StopsWorking
<1>5. attempt[a].status = "REQUIRES_REVIEW" =>
        \E t \in IncidentType : incident'[a][t] \in {"OPEN", "IGNORED"}
  BY <1>1, <1>2 DEF Inv, ReviewIsVisible
<1>6. CASE Crash(r)
  <2>1. UNCHANGED attempt
    BY <1>6 DEF Crash
  <2>. QED
    BY <1>1, <1>2, <1>3, <1>4, <1>5, <2>1, SameRow
<1>7. CASE ApplyAnswerFails(r)
  <2> DEFINE row == [attempt[a] EXCEPT !.lock = "free"]
  <2>1. attempt' = [attempt EXCEPT ![a] = row]
    BY <1>1, <1>7 DEF ApplyAnswerFails, Inv, TypeOK
  <2>2. RowOK(row) /\ Kept(attempt[a], row) /\ row.status = attempt[a].status
    BY <1>1, RowsOK, LockRow
  <2> HIDE DEF row
  <2>. QED
    BY <1>1, <1>2, <1>3, <1>4, <1>5, <2>1, <2>2, RowChange
<1>. QED BY <1>6, <1>7

\* What a handler may conclude, whichever provider it is for.
Sound(a, n, verdict) ==
  /\ verdict \in {"mismatch", "conflict", "fail", "confirm", "query", "ignore"}
  /\ verdict = "fail" => attempt[a].status # "SUCCEEDED" /\ n.outcome # "success"
  /\ verdict = "confirm" =>
       /\ attempt[a].status # "SUCCEEDED" /\ assertInvoiceIsUnpaid(attempt[a].invoice)
       /\ n.outcome = "success" /\ n.txn # NoTxn
  /\ verdict = "query" => attempt[a].provider = "PAYOS"
  /\ verdict = "ignore" => Accounted(n, attempt[a], incident[a])

\* handleVnpayIpn, handleMomoIpn and handlePayosWebhook reach sound verdicts:
\* what they ignore is known already or was never money.
LEMMA VerdictsSound ==
  ASSUME Inv, NEW a \in Attempts, NEW n \in Notice
  PROVE  /\ Sound(a, n, VnpayVerdict(a, n))
         /\ Sound(a, n, MomoVerdict(a, n))
         /\ attempt[a].provider = "PAYOS" => Sound(a, n, PayosVerdict(a, n))
<1>1. attempt[a].status = "REQUIRES_REVIEW" =>
        \E t \in IncidentType : incident[a][t] # "NONE"
  BY DEF Inv, ReviewIsVisible
<1>2. n.outcome \in {"success", "failure", "unclear"} /\ n.matches \in BOOLEAN
  BY DEF Notice
<1>3. ASSUME NEW success \in BOOLEAN, success <=> n.outcome = "success"
      PROVE  LET v == StateVerdict(a, success, n.txn)
             IN  /\ v \in {"conflict", "fail", "confirm", "ignore"}
                 /\ v = "fail" => attempt[a].status # "SUCCEEDED" /\ n.outcome # "success"
                 /\ v = "confirm" => /\ attempt[a].status # "SUCCEEDED"
                                     /\ assertInvoiceIsUnpaid(attempt[a].invoice)
                                     /\ n.outcome = "success"
                 /\ v = "ignore" => Accounted(n, attempt[a], incident[a])
  BY <1>1, <1>3 DEF StateVerdict, Accounted
<1>4. Sound(a, n, VnpayVerdict(a, n))
  <2> DEFINE v == StateVerdict(a, n.outcome = "success", n.txn)
  <2>1. /\ v \in {"conflict", "fail", "confirm", "ignore"}
        /\ v = "fail" => attempt[a].status # "SUCCEEDED" /\ n.outcome # "success"
        /\ v = "confirm" => /\ attempt[a].status # "SUCCEEDED"
                            /\ assertInvoiceIsUnpaid(attempt[a].invoice)
                            /\ n.outcome = "success"
        /\ v = "ignore" => Accounted(n, attempt[a], incident[a])
    BY <1>3
  <2>2. VnpayVerdict(a, n) =
          IF ~n.matches THEN IF n.outcome = "success" THEN "mismatch" ELSE "ignore"
          ELSE IF \/ v = "confirm" /\ n.txn = NoTxn
                  \/ v = "fail" /\ n.outcome = "unclear"
          THEN "mismatch"
          ELSE v
    BY DEF VnpayVerdict
  <2> HIDE DEF v
  <2>. QED BY <2>1, <2>2 DEF Sound, Accounted
<1>5. Sound(a, n, MomoVerdict(a, n))
  <2> DEFINE v == StateVerdict(a, n.outcome = "success", n.txn)
  <2>1. /\ v \in {"conflict", "fail", "confirm", "ignore"}
        /\ v = "fail" => attempt[a].status # "SUCCEEDED" /\ n.outcome # "success"
        /\ v = "confirm" => /\ attempt[a].status # "SUCCEEDED"
                            /\ assertInvoiceIsUnpaid(attempt[a].invoice)
                            /\ n.outcome = "success"
        /\ v = "ignore" => Accounted(n, attempt[a], incident[a])
    BY <1>3
  <2>2. MomoVerdict(a, n) =
          IF ~n.matches \/ (n.outcome = "success" /\ n.txn = NoTxn) THEN "mismatch"
          ELSE IF n.outcome = "unclear" THEN "ignore" ELSE v
    BY DEF MomoVerdict
  <2> HIDE DEF v
  <2>. QED BY <2>1, <2>2 DEF Sound, Accounted
<1>6. ASSUME attempt[a].provider = "PAYOS" PROVE Sound(a, n, PayosVerdict(a, n))
  BY <1>6 DEF Sound, Accounted, PayosVerdict
<1>. QED
  BY <1>4, <1>5, <1>6

\* A payload is recorded and decided upon in one transaction.
LEMMA DecideInv ==
  ASSUME Inv, NEW a \in Attempts, NEW n \in sent[a], NEW verdict, Sound(a, n, verdict),
         NEW provider \in {"VNPAY", "MOMO", "PAYOS"}, HandleNotice(a, n, provider, verdict)
  PROVE  Inv' /\ Final
<1>1. /\ attempt[a].provider = provider /\ recorded' = [recorded EXCEPT ![a] = @ \cup {n}]
      /\ Decide(a, n, verdict) /\ UNCHANGED <<world, worker, faults, closed>>
  BY DEF HandleNotice
<1>2. /\ n \in Notice /\ n.txn \in Txns \cup {NoTxn}
      /\ attempt[a].status # "NONE" /\ RowOK(attempt[a])
  <2>1. n \in Notice
    BY DEF Inv, TypeOK
  <2>. QED
    BY <1>1, <2>1, RowsOK DEF Notice, Inv, Known, Exists
<1>3. WorkersStep /\ CountersStep
  BY <1>1, Others
<1>4. /\ notified' = [notified EXCEPT ![a] = @ \/ verdict = "query"] /\ NotifiedStep
  BY <1>1, <1>2 DEF Decide, NotifiedStep, Inv, TypeOK, Exists
<1>5. /\ recorded' \in [Attempts -> SUBSET Notice]
      /\ \A b \in Attempts \ {a} : recorded'[b] = recorded[b]
      /\ \A m \in recorded'[a] : m \in recorded[a] \/ m = n
  BY <1>1, <1>2 DEF Inv, TypeOK
<1>6. ASSUME Accounted(n, attempt'[a], incident'[a]) PROVE RecordedStep(a)
  BY <1>5, <1>6 DEF RecordedStep
<1>7. attempt[a].status = "REQUIRES_REVIEW" =>
        \E t \in IncidentType : incident[a][t] \in {"OPEN", "IGNORED"}
  BY DEF Inv, ReviewIsVisible
<1>8. CASE verdict \in {"mismatch", "conflict"}
  <2> DEFINE txn == IF attempt[a].provider = "PAYOS" THEN NoTxn ELSE n.txn
             row == MarkPaymentReview(attempt[a], txn)
  <2>1. attempt' = [attempt EXCEPT ![a] = row]
    BY <1>1, <1>8 DEF Decide, Inv, TypeOK
  <2>2. txn \in Txns \cup {NoTxn}
    BY <1>2
  <2>3. RowOK(row) /\ Kept(attempt[a], row)
    <3> HIDE DEF txn
    <3>. QED BY <1>2, <2>2, ReviewedRow
  <2>4. PICK t \in IncidentType : incident' = OpenIncident(a, t)
    BY <1>1, <1>8 DEF Decide, IncidentType
  <2>5. IncidentStep(a) /\ incident'[a][t] = "OPEN"
    BY <2>4, Opened
  <2>6. UNCHANGED invoice
    BY <1>1, <1>8 DEF Decide
  <2>7. RecordedStep(a)
    BY <1>6, <2>5 DEF Accounted
  <2> HIDE DEF row
  <2>. QED
    BY <1>1, <1>3, <1>4, <2>1, <2>3, <2>5, <2>6, <2>7, RowChange
<1>9. CASE verdict = "fail"
  <2> DEFINE txn == IF attempt[a].provider = "VNPAY" THEN n.txn ELSE attempt[a].txn
             row == Closed(attempt[a], "FAILED", txn)
  <2>1. attempt' = [attempt EXCEPT ![a] = row] /\ UNCHANGED <<incident, invoice>>
    BY <1>1, <1>9 DEF Decide, Inv, TypeOK
  <2>2. txn \in Txns \cup {NoTxn}
    BY <1>2 DEF RowOK, PaymentAttempt
  <2>3. attempt[a].status \notin {"NONE", "SUCCEEDED"} /\ n.outcome # "success"
    BY <1>2, <1>9 DEF Sound
  <2>4. RowOK(row) /\ Kept(attempt[a], row) /\ row.status = "FAILED"
    <3> HIDE DEF txn
    <3>. QED BY <1>2, <2>2, <2>3, FailedRow
  <2>5. IncidentStep(a) /\ RecordedStep(a)
    BY <1>6, <2>1, <2>3, Others DEF Accounted
  <2> HIDE DEF row
  <2>. QED
    BY <1>1, <1>3, <1>4, <2>1, <2>4, <2>5, RowChange
<1>10. CASE verdict = "query"
  <2> DEFINE row == IF attempt[a].status \in {"PENDING", "EXPIRED"}
                    THEN [attempt[a] EXCEPT !.due = "now"] ELSE attempt[a]
  <2>1. attempt' = [attempt EXCEPT ![a] = row] /\ UNCHANGED <<incident, invoice>>
    BY <1>1, <1>10 DEF Decide, Inv, TypeOK
  <2>2. RowOK(row) /\ Kept(attempt[a], row) /\ row.status = attempt[a].status
    BY <1>2, DueRow DEF Kept
  <2>3. row.provider = "PAYOS"
    BY <1>10, <2>2 DEF Sound, Kept
  <2> HIDE DEF row
  <2>4. attempt'[a] = row
    BY <2>1 DEF Inv, TypeOK
  <2>5. IncidentStep(a) /\ RecordedStep(a)
    BY <1>6, <2>1, <2>3, <2>4, Others DEF Accounted
  <2>. QED
    BY <1>1, <1>3, <1>4, <1>7, <2>1, <2>2, <2>5, RowChange
<1>11. CASE verdict = "ignore"
  <2>1. UNCHANGED <<attempt, incident, invoice>>
    BY <1>1, <1>11 DEF Decide
  <2>2. IncidentStep(a) /\ RecordedStep(a)
    BY <1>6, <1>11, <2>1, Others DEF Sound
  <2>. QED
    BY <1>1, <1>3, <1>4, <1>7, <2>1, <2>2, SameRow
<1>12. CASE verdict = "confirm"
  <2>1. /\ attempt' = Confirm(a, n.txn) /\ UNCHANGED incident
        /\ invoice' = CompleteOnlinePayment(attempt[a].invoice)
    BY <1>1, <1>12 DEF Decide
  <2>2. /\ attempt[a].status # "SUCCEEDED" /\ assertInvoiceIsUnpaid(attempt[a].invoice)
        /\ n.txn \in captured[a] /\ n.txn \in Txns /\ n.txn # NoTxn
    BY <1>2, <1>12 DEF Sound, Inv, Honest
  <2>3. attempt'[a] = Closed(attempt[a], "SUCCEEDED", n.txn)
    BY <2>1 DEF Confirm
  <2>4. /\ RowOK(attempt'[a]) /\ attempt'[a].status = "SUCCEEDED" /\ attempt'[a].txn = n.txn
        /\ attempt'[a].invoice = attempt[a].invoice
        /\ attempt'[a].provider = attempt[a].provider
    BY <1>2, <2>2, <2>3, SucceededRow
  <2>5. ASSUME NEW b \in Attempts \ {a}
        PROVE  /\ RowOK(attempt'[b])
               /\ attempt'[b] = attempt[b] \/ (Kept(attempt[b], attempt'[b])
                                                /\ attempt'[b].status # "REQUIRES_REVIEW")
    <3> DEFINE l == IF attempt[a].provider = "MOMO" THEN attempt[b].lock ELSE "free"
               row == Closed(attempt[b], "FAILED", attempt[b].txn)
    <3>1. RowOK(attempt[b]) /\ attempt[b] \in PaymentAttempt
      BY RowsOK DEF RowOK
    <3>2. CASE attempt[b].invoice = attempt[a].invoice /\ attempt[b].status = "PENDING"
      <4>1. attempt'[b] = [row EXCEPT !.lock = IF attempt[a].provider = "MOMO"
                                               THEN attempt[b].lock ELSE @]
        BY <2>1, <3>2 DEF Confirm
      <4>2. row.lock = "free"
        BY <3>1 DEF Closed, PaymentAttempt
      <4>3. attempt[b].txn \in Txns \cup {NoTxn} /\ l \in {"free", "held", "stale"}
        BY <3>1 DEF PaymentAttempt
      <4>4. RowOK(row) /\ Kept(attempt[b], row) /\ row.status = "FAILED"
        BY <3>1, <3>2, <4>3, FailedRow
      <4> HIDE DEF row
      <4>5. attempt'[b] = [row EXCEPT !.lock = l]
        BY <4>1, <4>2
      <4> HIDE DEF l
      <4>6. /\ RowOK([row EXCEPT !.lock = l]) /\ Kept(row, [row EXCEPT !.lock = l])
            /\ [row EXCEPT !.lock = l].status = row.status
        BY <4>3, <4>4, LockRow
      <4>7. Kept(attempt[b], [row EXCEPT !.lock = l])
        BY <4>4, <4>6, KeptTwice
      <4>. QED
        BY <4>4, <4>5, <4>6, <4>7
    <3>3. CASE ~(attempt[b].invoice = attempt[a].invoice /\ attempt[b].status = "PENDING")
      BY <2>1, <3>1, <3>3 DEF Confirm
    <3>. QED BY <3>2, <3>3
  <2>6. attempt' \in [Attempts -> PaymentAttempt] /\ \A b \in Attempts : RowOK(attempt'[b])
    <3>1. \A b \in Attempts : RowOK(attempt'[b])
      BY <2>4, <2>5
    <3>2. attempt' = [b \in Attempts |-> attempt'[b]]
      BY <2>1 DEF Confirm
    <3>. QED BY <3>1, <3>2 DEF RowOK
  <2>7. IncidentStep(a) /\ RecordedStep(a)
    BY <1>6, <2>1, <2>4, Others DEF Accounted
  <2>8. Exists(a)
    BY <1>2 DEF Exists
  <2>. QED
    BY <1>1, <1>3, <1>4, <2>1, <2>2, <2>4, <2>5, <2>6, <2>7, <2>8, ConfirmChange
<1>. QED
  BY <1>8, <1>9, <1>10, <1>11, <1>12 DEF Sound

\* The three handlers.
LEMMA NoticeInv ==
  ASSUME Inv, NEW a \in Attempts, NEW n \in sent[a],
         HandleVnpayIpn(a, n) \/ HandleMomoIpn(a, n) \/ HandlePayosWebhook(a, n)
  PROVE  Inv' /\ Final
<1>1. n \in Notice
  BY DEF Inv, TypeOK
<1>2. CASE HandleVnpayIpn(a, n)
  BY <1>1, <1>2, VerdictsSound, DecideInv DEF HandleVnpayIpn
<1>3. CASE HandleMomoIpn(a, n)
  BY <1>1, <1>3, VerdictsSound, DecideInv DEF HandleMomoIpn
<1>4. CASE HandlePayosWebhook(a, n)
  <2>1. attempt[a].provider = "PAYOS"
    BY <1>4 DEF HandlePayosWebhook, HandleNotice
  <2>. QED
    BY <1>1, <1>4, <2>1, VerdictsSound, DecideInv DEF HandlePayosWebhook
<1>. QED BY <1>2, <1>3, <1>4

\* What an answer may lead to: money is booked only on an invoice that is
\* unpaid when the answer is applied, and only money that was taken.
LEMMA AnswerSound ==
  ASSUME Inv, NEW r \in Reconcilers, worker[r].pc = "answered"
  PROVE  LET a == worker[r].attempt
             row == attempt[a]
             ans == worker[r].answer
             v == AnswerVerdict(row, ans)
         IN  /\ v \in {"mismatch", "conflict", "stuck", "fail", "confirm", "retry", "verified",
                       "unverified"}
             /\ v = "fail" => row.status # "SUCCEEDED"
             /\ v = "confirm" =>
                  /\ row.status # "SUCCEEDED" /\ assertInvoiceIsUnpaid(row.invoice)
                  /\ ans.txn \in captured[a] /\ ans.txn # NoTxn
             /\ v \in {"verified", "unverified"} => row.status = "SUCCEEDED"
<1> DEFINE a == worker[r].attempt
           ans == worker[r].answer
<1>1. ans.kind \in {"paid", "failed", "pending", "mismatch", "unavailable"}
  <2>1. worker[r] \in Worker
    BY DEF Inv, TypeOK
  <2>. QED BY <2>1 DEF Worker, Answer
<1>2. ans.kind = "paid" => ans.txn \in captured[a] \cup {NoTxn}
  BY DEF Inv, Working
<1> HIDE DEF a, ans
<1>3. CASE ans.kind = "paid"
  <2>1. AnswerVerdict(attempt[a], ans) = PaidVerdict(attempt[a], attempt[a].invoice, ans.txn)
    BY <1>3 DEF AnswerVerdict
  <2>. QED
    BY <1>2, <1>3, <2>1 DEF PaidVerdict, a, ans
<1>4. CASE ans.kind = "failed"
  <2>1. AnswerVerdict(attempt[a], ans) = FailedVerdict(attempt[a], attempt[a].invoice)
    BY <1>4 DEF AnswerVerdict
  <2>. QED
    BY <2>1 DEF FailedVerdict, a, ans
<1>5. CASE ans.kind = "mismatch"
  <2>1. AnswerVerdict(attempt[a], ans) = "mismatch"
    BY <1>5 DEF AnswerVerdict
  <2>. QED
    BY <2>1 DEF a, ans
<1>6. CASE ans.kind \in {"pending", "unavailable"}
  <2>1. AnswerVerdict(attempt[a], ans) = RetryVerdict(attempt[a])
    BY <1>6 DEF AnswerVerdict
  <2>. QED
    BY <2>1 DEF RetryVerdict, a, ans
<1>. QED
  BY <1>1, <1>3, <1>4, <1>5, <1>6

\* The transaction that applies an answer.
LEMMA AnswerInv ==
  ASSUME Inv, NEW r \in Reconcilers, ApplyAnswer(r)
  PROVE  Inv' /\ Final
<1> DEFINE a == worker[r].attempt
           row == attempt[a]
           ans == worker[r].answer
           v == AnswerVerdict(row, ans)
           new == CASE v \in {"mismatch", "conflict", "stuck"} -> Parked(row)
                    [] v = "fail"    -> Closed(row, "FAILED", NoTxn)
                    [] v = "confirm" -> Closed(row, "SUCCEEDED", ans.txn)
                    [] v = "retry"   -> [row EXCEPT !.due = "later", !.lock = "free"]
                    [] v \in {"verified", "unverified"} ->
                         [row EXCEPT !.due = "none", !.lock = "free"]
<1>1. worker[r].pc = "answered" /\ a \in Attempts /\ row.status # "NONE" /\ Exists(a)
  BY DEF ApplyAnswer, Inv, Working, Exists
<1>2. /\ v \in {"mismatch", "conflict", "stuck", "fail", "confirm", "retry", "verified",
                "unverified"}
      /\ v = "fail" => row.status # "SUCCEEDED"
      /\ v = "confirm" =>
           /\ row.status # "SUCCEEDED" /\ assertInvoiceIsUnpaid(row.invoice)
           /\ ans.txn \in captured[a] /\ ans.txn # NoTxn
      /\ v \in {"verified", "unverified"} => row.status = "SUCCEEDED"
  BY <1>1, AnswerSound
<1>3. attempt' = [attempt EXCEPT ![a] = Counted(new)]
  BY DEF ApplyAnswer
<1>4. invoice' = IF v = "confirm" THEN CompleteOnlinePayment(row.invoice) ELSE invoice
  BY DEF ApplyAnswer
<1>5. /\ v \in {"mismatch", "conflict", "stuck", "unverified"} =>
           \E t \in IncidentType : incident' = OpenIncident(a, t)
      /\ v \in {"confirm", "verified"} => incident' = AutoResolved(a)
      /\ v \in {"fail", "retry"} => incident' = incident
  <2>1. CASE v = "mismatch"
    BY <2>1 DEF ApplyAnswer, IncidentType
  <2>2. CASE v = "conflict"
    BY <2>2 DEF ApplyAnswer, IncidentType
  <2>3. CASE v \in {"stuck", "unverified"}
    BY <2>3 DEF ApplyAnswer, IncidentType
  <2>4. CASE v \in {"confirm", "verified"}
    BY <2>4 DEF ApplyAnswer
  <2>5. CASE v \in {"fail", "retry"}
    BY <2>5 DEF ApplyAnswer
  <2>. QED
    BY <1>2, <2>1, <2>2, <2>3, <2>4, <2>5
<1>6. /\ worker' = [worker EXCEPT ![r] = IdleWorker]
      /\ notified' = [notified EXCEPT ![a] =
                        @ /\ ~(Source[r] = "WEBHOOK" /\ ans.kind # "unavailable")]
      /\ UNCHANGED <<world, recorded, faults, closed>>
  BY DEF ApplyAnswer
<1>7. WorkersStep /\ CountersStep /\ RecordedStep(a)
  BY <1>1, <1>6, StopsWorking, Others
<1>8. NotifiedStep
  BY <1>1, <1>6 DEF NotifiedStep, Inv, TypeOK
<1>9. IncidentStep(a)
  <2>1. CASE v \in {"mismatch", "conflict", "stuck", "unverified"}
    BY <1>1, <1>5, <2>1, Opened
  <2>2. CASE v \in {"confirm", "verified"}
    <3>1. incident' = AutoResolved(a)
      BY <1>5, <2>2
    <3>. QED
      BY <1>1, <3>1 DEF AutoResolved, IncidentStep, Inv, TypeOK, IncidentStatus
  <2>3. CASE v \in {"fail", "retry"}
    BY <1>1, <1>5, <2>3, Others
  <2>. QED
    BY <1>2, <2>1, <2>2, <2>3
<1>10. RowOK(row) /\ row.status # "NONE"
  BY <1>1, RowsOK
<1>11. CASE v # "confirm"
  <2>1. /\ RowOK(new) /\ Kept(row, new)
        /\ v \in {"mismatch", "conflict", "stuck"} \/ new.status # "REQUIRES_REVIEW"
                                                  \/ (v = "retry" /\ new.status = row.status)
    <3>1. CASE v \in {"mismatch", "conflict", "stuck"}
      <4>1. new = Parked(row)
        BY <3>1
      <4> HIDE DEF new, v, row
      <4>. QED BY <1>10, <3>1, <4>1, ParkedRow
    <3>2. CASE v = "fail"
      <4>1. new = Closed(row, "FAILED", NoTxn) /\ row.status # "SUCCEEDED"
        BY <1>2, <3>2
      <4> HIDE DEF new, v, row
      <4>. QED BY <1>10, <4>1, FailedRow
    <3>3. CASE v = "retry"
      <4>1. new = [row EXCEPT !.due = "later", !.lock = "free"]
        BY <3>3
      <4> HIDE DEF new, v, row
      <4>. QED BY <1>10, <3>3, <4>1, ReleasedRow
    <3>4. CASE v \in {"verified", "unverified"}
      <4>1. new = [row EXCEPT !.due = "none", !.lock = "free"] /\ row.status = "SUCCEEDED"
        BY <1>2, <3>4
      <4> HIDE DEF new, v, row
      <4>. QED BY <1>10, <4>1, ReleasedRow
    <3>. QED
      BY <1>2, <1>11, <3>1, <3>2, <3>3, <3>4
  <2>2. RowOK(Counted(new)) /\ Kept(new, Counted(new)) /\ Counted(new).status = new.status
    <3> HIDE DEF new
    <3>. QED BY <2>1, CountedRow
  <2>3. Kept(row, Counted(new))
    <3> HIDE DEF new, row
    <3>. QED BY <2>1, <2>2, KeptTwice
  <2>4. Counted(new).status = "REQUIRES_REVIEW" =>
          \E t \in IncidentType : incident'[a][t] \in {"OPEN", "IGNORED"}
    <3>1. CASE v \in {"mismatch", "conflict", "stuck"}
      BY <1>1, <1>5, <3>1, Opened
    <3>2. CASE v = "retry" /\ new.status = row.status
      <4>1. incident' = incident
        BY <1>5, <3>2
      <4>. QED
        BY <1>1, <2>2, <3>2, <4>1 DEF Inv, ReviewIsVisible
    <3> HIDE DEF new, v
    <3>. QED
      BY <2>1, <2>2, <3>1, <3>2
  <2>5. UNCHANGED invoice
    BY <1>4, <1>11
  <2> HIDE DEF new, v
  <2>. QED
    BY <1>1, <1>3, <1>6, <1>7, <1>8, <1>9, <2>2, <2>3, <2>4, <2>5, RowChange
<1>12. CASE v = "confirm"
  <2>1. new = Closed(row, "SUCCEEDED", ans.txn)
    BY <1>12
  <2>2. ans.txn \in Txns /\ ans.txn # NoTxn
    BY <1>1, <1>2, <1>12 DEF Inv, TypeOK
  <2>3. /\ RowOK(new) /\ new.status = "SUCCEEDED" /\ new.txn = ans.txn
        /\ new.invoice = row.invoice /\ new.provider = row.provider
    <3> HIDE DEF new, row, ans, v
    <3>. QED BY <1>10, <2>1, <2>2, SucceededRow
  <2>4. /\ RowOK(Counted(new)) /\ Counted(new).status = "SUCCEEDED"
        /\ Counted(new).txn = ans.txn
        /\ Counted(new).invoice = row.invoice /\ Counted(new).provider = row.provider
    <3> HIDE DEF new, row, ans, v
    <3>1. /\ RowOK(Counted(new)) /\ Kept(new, Counted(new))
          /\ Counted(new).status = new.status /\ Counted(new).txn = new.txn
      BY <2>3, CountedRow
    <3>. QED BY <2>3, <3>1 DEF Kept
  <2> HIDE DEF new, v
  <2>5. /\ attempt' \in [Attempts -> PaymentAttempt] /\ attempt'[a] = Counted(new)
        /\ \A b \in Attempts \ {a} : attempt'[b] = attempt[b]
    BY <1>1, <1>3, <2>4 DEF Inv, TypeOK, RowOK
  <2>6. \A b \in Attempts : RowOK(attempt'[b])
    BY <2>4, <2>5, RowsOK
  <2>7. /\ row.status # "SUCCEEDED" /\ assertInvoiceIsUnpaid(row.invoice)
        /\ ans.txn \in captured[a] /\ invoice' = CompleteOnlinePayment(row.invoice)
    BY <1>2, <1>4, <1>12
  <2>. QED
    BY <1>1, <1>6, <1>7, <1>8, <1>9, <2>4, <2>5, <2>6, <2>7, ConfirmChange
<1>. QED BY <1>11, <1>12

\* Inv is inductive, and no step unsettles anything.
LEMMA NextInv ==
  ASSUME Inv, [Next]_vars
  PROVE  Inv' /\ Final
<1>1. CASE UNCHANGED vars
  BY <1>1 DEF vars, Inv, TypeOK, Known, Honest, Working, Confirmed, Transferred,
              ReviewIsVisible, ReportedCaptureAccounted, Exists, InvoiceOf, Final
<1>2. CASE Next
  BY <1>2, CreateInv, CounterInv, TimeInv, EventInv, ResolveInv, CaptureInv, NotifyInv,
     NoticeInv, ClaimInv, QueryInv, AnswerInv, FaultInv DEF Next
<1>. QED
  BY <1>1, <1>2

-----------------------------------------------------------------------------
\* The invariant, for every number of attempts and reconcilers.
THEOREM InvHolds == Spec => []Inv
<1>1. Inv /\ [Next]_vars => Inv'
  BY NextInv
<1>. QED
  BY <1>1, InitInv, PTL DEF Spec

\* confirmProviderPayment and the IPN handlers: an invoice is settled by
\* transfer exactly when one attempt on it is confirmed, with money that the
\* provider took.
THEOREM TransfersMatchCaptures == Spec => []TransferMatchesCapture
<1>1. Inv => TransferMatchesCapture
  BY DEF Inv, Confirmed, Transferred, TransferMatchesCapture
<1>. QED
  BY <1>1, InvHolds, PTL

\* handleVnpayIpn and handleMomoIpn drop no success: it is on the invoice
\* under its number, or there is an incident.
THEOREM CapturesAccounted == Spec => []ReportedCaptureAccounted
<1>1. Inv => ReportedCaptureAccounted
  BY DEF Inv
<1>. QED
  BY <1>1, InvHolds, PTL

\* markPaymentReview, markForReview and resolveIncident: an attempt that waits
\* for a person is on the list of incidents.
THEOREM ReviewsVisible == Spec => []ReviewIsVisible
<1>1. Inv => ReviewIsVisible
  BY DEF Inv
<1>. QED
  BY <1>1, InvHolds, PTL

\* Neither a late answer nor a repeated notification nor the counter changes
\* what was settled.
THEOREM SettlementsFinal == Spec => SettlementFinal
<1>1. Inv /\ [Next]_vars => [Final]_vars
  BY NextInv
<1>2. Spec => [][Final]_vars
  BY <1>1, InvHolds, PTL DEF Spec
<1>. QED
  BY <1>2, PTL DEF SettlementFinal, Final

-----------------------------------------------------------------------------
(* Refunds, for any number of them and any amounts.                        *)
(*                                                                         *)
(* RefundWithinCapture is not inductive: that VNPay gives back no more     *)
(* than it took holds because createRefund counts every refund that may    *)
(* still be carried out.  RefundInv says so (the reserved amounts stay     *)
(* within the payment), follows each request through the bank (it is there *)
(* at most once, and a final status is the one it was given there), and    *)
(* knows that a call still under way belongs to a refund nobody settled.   *)

\* The row of r, the call for it and the request at the bank.
RowInv(r) ==
  /\ refund[r].status \in {"NONE", "PENDING"} <=> call[r] = "none"
  /\ refund[r].status = "NONE" <=> refund[r].amount = 0
  /\ bank[r].sent + bank[r].done + bank[r].refused = IF call[r] = "none" THEN 0 ELSE 1
  /\ call[r] = "sending" => refund[r].status \in {"PROCESSING", "REQUIRES_REVIEW"}
  /\ refund[r].status = "SUCCEEDED" => bank[r].done = 1
  /\ refund[r].status \in {"FAILED", "REJECTED"} => bank[r].refused = 1

RefundInv ==
  /\ RefundTypeOK
  /\ \A r \in Refunds : RowInv(r)
  /\ SumOf(refund, RESERVED_REFUND_STATUSES) <= Paid
  /\ InvoiceMatchesRefunds
  /\ DoubtIsVisible

\* What the row counts for in a sum over the given statuses.
Counts(row, statuses) == IF row.status \in statuses THEN row.amount ELSE 0

\* Rows with whole amounts.
Amounted(rows) == \A r \in Refunds : rows[r].amount \in Nat

-----------------------------------------------------------------------------
\* A sum over the rows of some statuses is one over all rows.
LEMMA SumOfAll ==
  ASSUME NEW rows, Amounted(rows), NEW st
  PROVE  /\ SumOf(rows, st) = Total([r \in Refunds |-> Counts(rows[r], st)], Refunds)
         /\ SumOf(rows, st) \in Nat
<1> DEFINE f == [r \in Refunds |-> rows[r].amount]
           g == [r \in Refunds |-> Counts(rows[r], st)]
           T == {r \in Refunds : rows[r].status \in st}
<1>1. /\ \A x \in T : f[x] \in Int /\ g[x] = f[x]
      /\ \A x \in Refunds \ T : g[x] = 0
      /\ \A x \in Refunds : g[x] \in Nat
  BY DEF Counts, Amounted
<1>2. IsFiniteSet(Refunds) /\ T \in SUBSET Refunds
  BY RefundConstants
<1>3. SumOf(rows, st) = Total(f, T)
  BY DEF SumOf
<1> HIDE DEF f, g, T
<1>4. Total(g, Refunds) = Total(f, T)
  BY <1>1, <1>2, TotalMask
<1>5. Total(g, Refunds) \in Nat
  BY <1>1, <1>2, TotalNat
<1>. QED
  BY <1>3, <1>4, <1>5 DEF g

\* When one row changes, the sum changes by what that row counts for.
LEMMA SumOfChange ==
  ASSUME NEW rows, NEW new, Amounted(rows), Amounted(new), NEW st, NEW y \in Refunds,
         \A r \in Refunds \ {y} : new[r] = rows[r]
  PROVE  SumOf(new, st) = SumOf(rows, st) - Counts(rows[y], st) + Counts(new[y], st)
<1> DEFINE f == [r \in Refunds |-> Counts(rows[r], st)]
           g == [r \in Refunds |-> Counts(new[r], st)]
<1>1. /\ \A x \in Refunds : f[x] \in Int /\ g[x] \in Int
      /\ \A x \in Refunds \ {y} : f[x] = g[x]
  BY DEF Counts, Amounted
<1>2. SumOf(rows, st) = Total(f, Refunds) /\ SumOf(new, st) = Total(g, Refunds)
  BY SumOfAll
<1>3. f[y] = Counts(rows[y], st) /\ g[y] = Counts(new[y], st)
  OBVIOUS
<1> HIDE DEF f, g
<1>4. Total(g, Refunds) = Total(f, Refunds) - f[y] + g[y]
  BY <1>1, RefundConstants, TotalChange
<1>. QED
  BY <1>2, <1>3, <1>4

\* Rows that count in one sum and not in another tell the sums apart.
LEMMA SumOfSubset ==
  ASSUME NEW rows, Amounted(rows), NEW st, NEW more, st \subseteq more,
         NEW y \in Refunds, rows[y].status \in more \ st
  PROVE  SumOf(rows, st) + rows[y].amount <= SumOf(rows, more)
<1> DEFINE f == [r \in Refunds |-> Counts(rows[r], st)]
           g == [r \in Refunds |-> Counts(rows[r], more)]
           h == [g EXCEPT ![y] = 0]
<1>1. \A x \in Refunds : f[x] \in Int /\ g[x] \in Int /\ h[x] \in Int /\ f[x] <= h[x]
  BY DEF Counts, Amounted
<1>2. SumOf(rows, st) = Total(f, Refunds) /\ SumOf(rows, more) = Total(g, Refunds)
  BY SumOfAll
<1>3. g[y] = rows[y].amount /\ h[y] = 0 /\ \A x \in Refunds \ {y} : g[x] = h[x]
  BY DEF Counts
<1>4. rows[y].amount \in Int /\ SumOf(rows, st) \in Int /\ SumOf(rows, more) \in Int
  <2>1. rows[y].amount \in Nat
    BY DEF Amounted
  <2>2. SumOf(rows, st) \in Nat /\ SumOf(rows, more) \in Nat
    BY SumOfAll
  <2>. QED BY <2>1, <2>2
<1> HIDE DEF f, g, h
<1>5. Total(h, Refunds) = Total(g, Refunds) - g[y] + h[y]
  BY <1>1, <1>3, RefundConstants, TotalChange
<1>6. Total(f, Refunds) <= Total(h, Refunds)
  BY <1>1, RefundConstants, TotalAtMost
<1>. QED
  BY <1>2, <1>3, <1>4, <1>5, <1>6

\* The rows of a state that has its types can be summed up.
LEMMA RowsAmounted ==
  ASSUME NEW rows \in [Refunds -> Refund]
  PROVE  Amounted(rows)
<1>1. \A r \in Refunds : rows[r] \in Refund
  OBVIOUS
<1>2. \A r \in Refunds : rows[r].amount \in Amounts \cup {0}
  BY <1>1 DEF Refund
<1>3. Amounts \cup {0} \subseteq Nat
  BY RefundConstants
<1>. QED
  BY <1>2, <1>3 DEF Amounted

\* Steps that touch no refund row change no sum; the invoice stays right.
LEMMA SameRows ==
  ASSUME RefundInv, UNCHANGED <<paymentStatus, refund>>,
         \A r \in Refunds : refundIncident'[r]["refund-invoice-state"]
                              = refundIncident[r]["refund-invoice-state"]
  PROVE  /\ (SumOf(refund, RESERVED_REFUND_STATUSES) <= Paid)'
         /\ InvoiceMatchesRefunds'
BY DEF RefundInv, InvoiceMatchesRefunds, SumOf, RESERVED_REFUND_STATUSES

\* A row that keeps its amount, and counts as little as before among the
\* refunds that succeeded, changes no books.
LEMMA SameBooks ==
  ASSUME RefundInv, RefundTypeOK', NEW y \in Refunds,
         \A r \in Refunds \ {y} : refund'[r] = refund[r],
         refund'[y].amount = refund[y].amount,
         refund[y].status \in RESERVED_REFUND_STATUSES \ {"SUCCEEDED"},
         refund'[y].status # "SUCCEEDED",
         UNCHANGED paymentStatus,
         \A r \in Refunds : refundIncident'[r]["refund-invoice-state"]
                              = refundIncident[r]["refund-invoice-state"]
  PROVE  /\ (SumOf(refund, RESERVED_REFUND_STATUSES) <= Paid)'
         /\ InvoiceMatchesRefunds'
<1>1. Amounted(refund) /\ Amounted(refund')
  BY RowsAmounted DEF RefundInv, RefundTypeOK
<1> DEFINE R == RESERVED_REFUND_STATUSES
           S == {"SUCCEEDED"}
           a == refund[y].amount
<1>2. a \in Nat
  BY <1>1 DEF Amounted
<1>3. SumOf(refund', R) = SumOf(refund, R) - Counts(refund[y], R) + Counts(refund'[y], R)
  BY <1>1, SumOfChange
<1>4. SumOf(refund', S) = SumOf(refund, S) - Counts(refund[y], S) + Counts(refund'[y], S)
  BY <1>1, SumOfChange
<1>5. /\ Counts(refund[y], R) = a /\ Counts(refund'[y], R) \in {0, a}
      /\ Counts(refund[y], S) = 0 /\ Counts(refund'[y], S) = 0
  BY DEF Counts
<1>6. SumOf(refund, R) \in Nat /\ SumOf(refund, S) \in Nat
  BY <1>1, SumOfAll
<1>7. SumOf(refund, R) <= Paid /\ Paid \in Nat
  BY RefundConstants DEF RefundInv
<1>8. SumOf(refund', R) <= Paid
  <2> HIDE DEF a, R, S
  <2>. QED BY <1>2, <1>3, <1>5, <1>6, <1>7
<1>9. SumOf(refund', S) = SumOf(refund, S)
  <2> HIDE DEF a, R, S
  <2>. QED BY <1>2, <1>4, <1>5, <1>6
<1>. QED
  BY <1>8, <1>9 DEF RefundInv, InvoiceMatchesRefunds, SumOf, RESERVED_REFUND_STATUSES

-----------------------------------------------------------------------------
\* Before the first refund.
LEMMA RefundInitInv == RefundInit => RefundInv
<1> SUFFICES ASSUME RefundInit PROVE RefundInv
  OBVIOUS
<1>1. RefundTypeOK
  BY RefundConstants
  DEF RefundInit, RefundTypeOK, NoRefund, Refund, Bank, RefundStatus, Reviewable
<1>2. \A r \in Refunds : RowInv(r)
  BY DEF RefundInit, RowInv, NoRefund
<1>3. ASSUME NEW st, "NONE" \notin st
      PROVE  SumOf(refund, st) = 0
  <2>1. {r \in Refunds : refund[r].status \in st} = {}
    BY <1>3 DEF RefundInit, NoRefund
  <2>. QED
    BY <2>1, TotalEmpty DEF SumOf
<1>4. /\ SumOf(refund, RESERVED_REFUND_STATUSES) = 0
      /\ SumOf(refund, {"SUCCEEDED"}) = 0
  BY <1>3 DEF RESERVED_REFUND_STATUSES
<1>5. SumOf(refund, RESERVED_REFUND_STATUSES) <= Paid
  BY <1>4, RefundConstants
<1>6. InvoiceMatchesRefunds
  BY <1>4 DEF InvoiceMatchesRefunds, RefundInit, Reviewable
<1>7. DoubtIsVisible
  BY DEF RefundInit, DoubtIsVisible, NoRefund
<1>. QED
  BY <1>1, <1>2, <1>5, <1>6, <1>7 DEF RefundInv

\* createRefund reserves no more than is left.
LEMMA RefundCreateInv ==
  ASSUME RefundInv, NEW r \in Refunds, NEW amount \in Amounts, CreateRefund(r, amount)
  PROVE  RefundInv'
<1> DEFINE R == RESERVED_REFUND_STATUSES
           S == {"SUCCEEDED"}
           row == [status |-> "PENDING", amount |-> amount, lock |-> "free"]
<1>0. row \in Refund
  BY DEF Refund, RefundStatus
<1>1. RefundTypeOK'
  BY <1>0 DEF RefundInv, RefundTypeOK, CreateRefund
<1>2. refund' = [refund EXCEPT ![r] = row] /\ refund \in [Refunds -> Refund]
  BY DEF RefundInv, RefundTypeOK, CreateRefund
<1>3. amount \in Nat /\ amount # 0 /\ Paid \in Nat
  BY RefundConstants
<1>4. \A q \in Refunds : RowInv(q)'
  BY <1>2, <1>3 DEF RefundInv, CreateRefund, RowInv
<1>5. Amounted(refund) /\ Amounted(refund')
  BY <1>1, RowsAmounted DEF RefundInv, RefundTypeOK
<1>6. /\ SumOf(refund', R) = SumOf(refund, R) - Counts(refund[r], R) + Counts(refund'[r], R)
      /\ SumOf(refund', S) = SumOf(refund, S) - Counts(refund[r], S) + Counts(refund'[r], S)
  <2>1. \A q \in Refunds \ {r} : refund'[q] = refund[q]
    BY <1>2
  <2> HIDE DEF R, S
  <2>. QED BY <1>5, <2>1, SumOfChange
<1>7. /\ Counts(refund[r], R) = 0 /\ Counts(refund'[r], R) = amount
      /\ Counts(refund[r], S) = 0 /\ Counts(refund'[r], S) = 0
  BY <1>2 DEF Counts, CreateRefund, RESERVED_REFUND_STATUSES
<1>8. SumOf(refund, R) \in Nat /\ SumOf(refund, S) \in Nat
  BY <1>5, SumOfAll
<1>9. amount <= Paid - SumOf(refund, R)
  BY DEF CreateRefund
<1>10. SumOf(refund', R) <= Paid /\ SumOf(refund', S) = SumOf(refund, S)
  <2> HIDE DEF R, S
  <2>. QED BY <1>3, <1>6, <1>7, <1>8, <1>9
<1>11. InvoiceMatchesRefunds'
  BY <1>10 DEF RefundInv, InvoiceMatchesRefunds, CreateRefund, SumOf
<1>12. DoubtIsVisible'
  BY <1>2 DEF RefundInv, DoubtIsVisible, CreateRefund
<1>. QED
  BY <1>1, <1>4, <1>10, <1>11, <1>12 DEF RefundInv, SumOf, RESERVED_REFUND_STATUSES

\* submitRefund: the claim lets one request out.
LEMMA SubmitInv ==
  ASSUME RefundInv, NEW r \in Refunds, SubmitRefund(r)
  PROVE  RefundInv'
<1> DEFINE row == [refund[r] EXCEPT !.status = "PROCESSING", !.lock = "held"]
           at == [bank[r] EXCEPT !.sent = @ + 1]
<1>1. /\ refund \in [Refunds -> Refund] /\ refund' = [refund EXCEPT ![r] = row]
      /\ bank \in [Refunds -> Bank] /\ bank' = [bank EXCEPT ![r] = at]
      /\ refund[r] \in Refund /\ bank[r] \in Bank
  BY DEF RefundInv, RefundTypeOK, SubmitRefund
<1>2. row \in Refund /\ row.status = "PROCESSING" /\ row.amount = refund[r].amount
      /\ row.lock = "held"
  BY <1>1 DEF Refund, RefundStatus
<1>3. at \in Bank /\ at.sent = bank[r].sent + 1 /\ at.done = bank[r].done
      /\ at.refused = bank[r].refused
  BY <1>1 DEF Bank
<1> HIDE DEF row, at
<1>4. RefundTypeOK'
  <2>1. refund' \in [Refunds -> Refund] /\ bank' \in [Refunds -> Bank]
    BY <1>1, <1>2, <1>3
  <2>2. \A q \in Refunds : (refund[q].lock = "free" <=> refund[q].status # "PROCESSING")'
    BY <1>1, <1>2 DEF RefundInv, RefundTypeOK
  <2>3. call' \in [Refunds -> {"none", "sending", "done"}]
    BY DEF RefundInv, RefundTypeOK, SubmitRefund
  <2>. QED
    BY <2>1, <2>2, <2>3 DEF RefundInv, RefundTypeOK, SubmitRefund
<1>5. ASSUME NEW q \in Refunds PROVE RowInv(q)'
  <2>1. CASE q # r
    BY <1>1, <2>1 DEF RefundInv, RowInv, SubmitRefund
  <2>2. CASE q = r
    <3>1. RowInv(r) /\ refund[r].status = "PENDING" /\ call'[r] = "sending"
      BY DEF RefundInv, RefundTypeOK, SubmitRefund
    <3>2. refund'[r] = row /\ bank'[r] = at
      BY <1>1
    <3>3. bank[r].sent \in Nat /\ bank[r].done \in Nat /\ bank[r].refused \in Nat
      BY <1>1 DEF Bank
    <3>. QED
      BY <1>2, <1>3, <2>2, <3>1, <3>2, <3>3 DEF RowInv
  <2>. QED BY <2>1, <2>2
<1>6. /\ (SumOf(refund, RESERVED_REFUND_STATUSES) <= Paid)'
      /\ InvoiceMatchesRefunds'
  BY <1>1, <1>2, <1>4, SameBooks DEF SubmitRefund, RESERVED_REFUND_STATUSES
<1>7. DoubtIsVisible'
  BY <1>1, <1>2 DEF RefundInv, DoubtIsVisible, SubmitRefund
<1>. QED
  BY <1>4, <1>5, <1>6, <1>7 DEF RefundInv

\* VNPay settles a request it holds.
LEMMA BankInv ==
  ASSUME RefundInv, NEW r \in Refunds, BankDecides(r)
  PROVE  RefundInv'
<1>1. bank \in [Refunds -> Bank] /\ bank[r] \in Bank /\ bank[r].sent > 0
  BY DEF RefundInv, RefundTypeOK, BankDecides
<1>2. bank[r].sent \in Nat /\ bank[r].done \in Nat /\ bank[r].refused \in Nat
  BY <1>1 DEF Bank
<1>3. PICK at \in Bank :
        /\ bank' = [bank EXCEPT ![r] = at]
        /\ at.sent = bank[r].sent - 1
        /\ \/ at.done = bank[r].done + 1 /\ at.refused = bank[r].refused
           \/ at.done = bank[r].done /\ at.refused = bank[r].refused + 1
  <2>0. bank[r].sent - 1 \in Nat
    BY <1>1, <1>2
  <2>1. CASE bank' = [bank EXCEPT ![r].sent = @ - 1, ![r].done = @ + 1]
    <3> DEFINE n == bank[r].sent - 1
               m == bank[r].done + 1
               at == [bank[r] EXCEPT !.sent = n, !.done = m]
    <3>1. bank' = [bank EXCEPT ![r] = at]
      BY <1>1, <2>1
    <3>2. n \in Nat /\ m \in Nat
      BY <1>2, <2>0
    <3> HIDE DEF n, m
    <3>3. at \in Bank /\ at.sent = n /\ at.done = m /\ at.refused = bank[r].refused
      BY <1>1, <3>2 DEF Bank
    <3>. QED BY <3>1, <3>3 DEF n, m
  <2>2. CASE bank' = [bank EXCEPT ![r].sent = @ - 1, ![r].refused = @ + 1]
    <3> DEFINE n == bank[r].sent - 1
               m == bank[r].refused + 1
               at == [bank[r] EXCEPT !.sent = n, !.refused = m]
    <3>1. bank' = [bank EXCEPT ![r] = at]
      BY <1>1, <2>2
    <3>2. n \in Nat /\ m \in Nat
      BY <1>2, <2>0
    <3> HIDE DEF n, m
    <3>3. at \in Bank /\ at.sent = n /\ at.done = bank[r].done /\ at.refused = m
      BY <1>1, <3>2 DEF Bank
    <3>. QED BY <3>1, <3>3 DEF n, m
  <2>. QED BY <2>1, <2>2 DEF BankDecides
<1>4. RefundTypeOK'
  BY <1>1, <1>3 DEF RefundInv, RefundTypeOK, BankDecides
<1>5. ASSUME NEW q \in Refunds PROVE RowInv(q)'
  <2>1. CASE q # r
    BY <1>1, <1>3, <2>1 DEF RefundInv, RowInv, BankDecides
  <2>2. CASE q = r
    <3>1. bank'[r] = at /\ RowInv(r) /\ call'[r] = call[r] /\ refund'[r] = refund[r]
      BY <1>1, <1>3 DEF RefundInv, BankDecides
    <3>. QED
      BY <1>1, <1>2, <1>3, <2>2, <3>1 DEF RowInv
  <2>. QED BY <2>1, <2>2
<1>6. /\ (SumOf(refund, RESERVED_REFUND_STATUSES) <= Paid)'
      /\ InvoiceMatchesRefunds'
  BY SameRows DEF BankDecides
<1>7. DoubtIsVisible'
  BY DEF RefundInv, DoubtIsVisible, BankDecides
<1>. QED
  BY <1>4, <1>5, <1>6, <1>7 DEF RefundInv

\* The row with a new status and its lock released.
Ended(row, s) == [row EXCEPT !.status = s, !.lock = "free"]

\* What ending a request leaves in the row.
LEMMA EndedRow ==
  ASSUME NEW row \in Refund, NEW s \in RefundStatus
  PROVE  /\ Ended(row, s) \in Refund
         /\ Ended(row, s).status = s
         /\ Ended(row, s).lock = "free"
         /\ Ended(row, s).amount = row.amount
BY DEF Refund, Ended

\* Whoever ends a request keeps the types and the rows right: the status is
\* final only if the bank settled the request that way.
LEMMA EndsRow ==
  ASSUME RefundInv, NEW r \in Refunds, NEW s \in RefundStatus \ {"PENDING", "PROCESSING"},
         refund[r].status \in {"PROCESSING", "REQUIRES_REVIEW"},
         s = "SUCCEEDED" => bank[r].done > 0,
         s \in {"FAILED", "REJECTED"} => bank[r].refused > 0,
         refund' = [refund EXCEPT ![r] = Ended(refund[r], s)],
         \/ call' = [call EXCEPT ![r] = "done"]
         \/ call' = call /\ s = "REQUIRES_REVIEW",
         paymentStatus' \in {"PAID", "PARTIALLY_REFUNDED", "REFUNDED"},
         refundIncident' \in [Refunds -> [Reviewable -> {"NONE", "OPEN", "RESOLVED", "IGNORED"}]],
         UNCHANGED <<bank, resolved>>
  PROVE  /\ RefundTypeOK'
         /\ \A q \in Refunds : RowInv(q)'
         /\ refund'[r].status = s
         /\ refund'[r].amount = refund[r].amount
         /\ \A q \in Refunds \ {r} : refund'[q] = refund[q]
<1>1. refund \in [Refunds -> Refund] /\ refund[r] \in Refund
  BY DEF RefundInv, RefundTypeOK
<1>2. /\ Ended(refund[r], s) \in Refund
      /\ Ended(refund[r], s).status = s
      /\ Ended(refund[r], s).lock = "free"
      /\ Ended(refund[r], s).amount = refund[r].amount
  BY <1>1, EndedRow
<1>3. /\ refund'[r] = Ended(refund[r], s)
      /\ \A q \in Refunds \ {r} : refund'[q] = refund[q]
      /\ refund' \in [Refunds -> Refund]
  BY <1>1, <1>2
<1>4. call' \in [Refunds -> {"none", "sending", "done"}]
  BY DEF RefundInv, RefundTypeOK
<1>5. RefundTypeOK'
  <2>1. \A q \in Refunds : (refund[q].lock = "free" <=> refund[q].status # "PROCESSING")'
    BY <1>2, <1>3 DEF RefundInv, RefundTypeOK
  <2>. QED
    BY <1>3, <1>4, <2>1 DEF RefundInv, RefundTypeOK
<1>6. ASSUME NEW q \in Refunds PROVE RowInv(q)'
  <2>1. CASE q # r
    <3>1. RowInv(q) /\ refund'[q] = refund[q] /\ bank'[q] = bank[q] /\ call'[q] = call[q]
      BY <1>3, <2>1 DEF RefundInv, RefundTypeOK
    <3>. QED BY <3>1 DEF RowInv
  <2>2. CASE q = r
    <3>1. RowInv(r) /\ bank'[r] = bank[r] /\ call[r] # "none"
      BY DEF RefundInv, RowInv
    <3>2. bank[r] \in Bank
      BY DEF RefundInv, RefundTypeOK
    <3>3. bank[r].sent \in Nat /\ bank[r].done \in Nat /\ bank[r].refused \in Nat
      BY <3>2 DEF Bank
    <3>4. bank[r].sent + bank[r].done + bank[r].refused = 1
      BY <3>1 DEF RowInv
    <3>5. s = "SUCCEEDED" => bank[r].done = 1
      BY <3>3, <3>4
    <3>6. s \in {"FAILED", "REJECTED"} => bank[r].refused = 1
      <4>1. ASSUME NEW x \in Nat, NEW y \in Nat, NEW z \in Nat, x + y + z = 1, z > 0
            PROVE  z = 1
        BY ONLY <4>1
      <4>2. bank[r].refused > 0 => bank[r].refused = 1
        BY <3>3, <3>4, <4>1
      <4>. QED BY <4>2
    <3>7. call'[r] # "none" /\ (call'[r] = "sending" => s = "REQUIRES_REVIEW")
      BY <3>1 DEF RefundInv, RefundTypeOK
    <3>8. refund'[r].status = s /\ refund'[r].amount = refund[r].amount
      BY <1>2, <1>3
    <3>. QED
      BY <2>2, <3>1, <3>4, <3>5, <3>6, <3>7, <3>8 DEF RowInv, RefundStatus
  <2>. QED BY <2>1, <2>2
<1>. QED
  BY <1>2, <1>3, <1>5, <1>6

\* Putting an incident on the list.
LEMMA RefundOpened ==
  ASSUME RefundInv, NEW r \in Refunds, NEW k \in Reviewable, k # "refund-invoice-state"
  PROVE  /\ OpenRefundIncident(r, k) \in
              [Refunds -> [Reviewable -> {"NONE", "OPEN", "RESOLVED", "IGNORED"}]]
         /\ OpenRefundIncident(r, k)[r][k] = "OPEN"
         /\ \A q \in Refunds \ {r} : OpenRefundIncident(r, k)[q] = refundIncident[q]
         /\ \A q \in Refunds : OpenRefundIncident(r, k)[q]["refund-invoice-state"]
                                 = refundIncident[q]["refund-invoice-state"]
BY DEF RefundInv, RefundTypeOK, OpenRefundIncident, Reviewable

\* A request put in doubt, with its incident.
LEMMA PutInDoubt ==
  ASSUME RefundInv, NEW r \in Refunds, NEW k \in Reviewable, k # "refund-invoice-state",
         refund[r].status \in {"PROCESSING", "REQUIRES_REVIEW"},
         refund' = [refund EXCEPT ![r] = Ended(refund[r], "REQUIRES_REVIEW")],
         call' = [call EXCEPT ![r] = "done"] \/ call' = call,
         refundIncident' = OpenRefundIncident(r, k),
         UNCHANGED <<paymentStatus, bank, resolved>>
  PROVE  RefundInv'
<1>1. /\ refundIncident' \in [Refunds -> [Reviewable -> {"NONE", "OPEN", "RESOLVED", "IGNORED"}]]
      /\ refundIncident'[r][k] = "OPEN"
      /\ \A q \in Refunds \ {r} : refundIncident'[q] = refundIncident[q]
      /\ \A q \in Refunds : refundIncident'[q]["refund-invoice-state"]
                              = refundIncident[q]["refund-invoice-state"]
  BY RefundOpened
<1>2. paymentStatus' \in {"PAID", "PARTIALLY_REFUNDED", "REFUNDED"}
  BY DEF RefundInv, RefundTypeOK
<1>3. /\ RefundTypeOK'
      /\ \A q \in Refunds : RowInv(q)'
      /\ refund'[r].status = "REQUIRES_REVIEW"
      /\ refund'[r].amount = refund[r].amount
      /\ \A q \in Refunds \ {r} : refund'[q] = refund[q]
  BY <1>1, <1>2, EndsRow DEF RefundStatus
<1>4. /\ (SumOf(refund, RESERVED_REFUND_STATUSES) <= Paid)'
      /\ InvoiceMatchesRefunds'
  BY <1>1, <1>3, SameBooks DEF RESERVED_REFUND_STATUSES
<1>5. DoubtIsVisible'
  BY <1>1, <1>3 DEF RefundInv, DoubtIsVisible
<1>. QED
  BY <1>3, <1>4, <1>5 DEF RefundInv

\* Ending a request, written as the actions write it.
LEMMA EndedForm ==
  ASSUME RefundInv, NEW r \in Refunds, NEW s
  PROVE  [refund EXCEPT ![r].status = s, ![r].lock = "free"]
           = [refund EXCEPT ![r] = Ended(refund[r], s)]
BY DEF RefundInv, RefundTypeOK, Ended

\* markProviderUncertain.
LEMMA UncertainInv ==
  ASSUME RefundInv, NEW r \in Refunds, MarkProviderUncertain(r)
  PROVE  RefundInv'
<1>1. refund' = [refund EXCEPT ![r] = Ended(refund[r], "REQUIRES_REVIEW")]
  BY EndedForm DEF MarkProviderUncertain
<1>2. refund[r].status \in {"PROCESSING", "REQUIRES_REVIEW"}
  BY DEF RefundInv, RowInv, MarkProviderUncertain
<1>. QED
  BY <1>1, <1>2, PutInDoubt DEF MarkProviderUncertain, Reviewable

\* recoverAbandonedRefunds.
LEMMA RecoverInv ==
  ASSUME RefundInv, NEW r \in Refunds, RecoverAbandonedRefunds(r)
  PROVE  RefundInv'
<1>1. refund' = [refund EXCEPT ![r] = Ended(refund[r], "REQUIRES_REVIEW")]
  BY EndedForm DEF RecoverAbandonedRefunds
<1>. QED
  BY <1>1, PutInDoubt DEF RecoverAbandonedRefunds, Reviewable

\* The process is gone, or the answer could not be applied: the row stays.
LEMMA LostInv ==
  ASSUME RefundInv, NEW r \in Refunds, CallLost(r)
  PROVE  RefundInv'
<1>1. RefundTypeOK'
  BY DEF RefundInv, RefundTypeOK, CallLost
<1>2. \A q \in Refunds : RowInv(q)'
  BY DEF RefundInv, RefundTypeOK, RowInv, CallLost
<1>3. /\ (SumOf(refund, RESERVED_REFUND_STATUSES) <= Paid)'
      /\ InvoiceMatchesRefunds'
  BY SameRows DEF CallLost
<1>4. DoubtIsVisible'
  BY DEF RefundInv, DoubtIsVisible, CallLost
<1>. QED
  BY <1>1, <1>2, <1>3, <1>4 DEF RefundInv

\* The lock of a request grows old.
LEMMA TimesOutInv ==
  ASSUME RefundInv, NEW r \in Refunds, RefundLockTimesOut(r)
  PROVE  RefundInv'
<1> DEFINE row == [refund[r] EXCEPT !.lock = "stale"]
<1>1. refund \in [Refunds -> Refund] /\ refund[r] \in Refund
  BY DEF RefundInv, RefundTypeOK
<1>2. refund' = [refund EXCEPT ![r] = row]
  BY <1>1 DEF RefundLockTimesOut
<1>3. /\ row \in Refund /\ row.status = refund[r].status /\ row.amount = refund[r].amount
      /\ row.lock = "stale"
  BY <1>1 DEF Refund
<1>4. refund[r].status = "PROCESSING"
  BY DEF RefundInv, RefundTypeOK, RefundLockTimesOut
<1> HIDE DEF row
<1>5. /\ refund' \in [Refunds -> Refund] /\ refund'[r] = row
      /\ \A q \in Refunds \ {r} : refund'[q] = refund[q]
  BY <1>1, <1>2, <1>3
<1>6. RefundTypeOK'
  BY <1>3, <1>4, <1>5 DEF RefundInv, RefundTypeOK, RefundLockTimesOut
<1>7. ASSUME NEW q \in Refunds PROVE RowInv(q)'
  <2>1. refund'[q].status = refund[q].status /\ refund'[q].amount = refund[q].amount
    BY <1>3, <1>5
  <2>. QED
    BY <2>1 DEF RefundInv, RowInv, RefundLockTimesOut
<1>8. /\ (SumOf(refund, RESERVED_REFUND_STATUSES) <= Paid)'
      /\ InvoiceMatchesRefunds'
  BY <1>3, <1>4, <1>5, <1>6, SameBooks DEF RefundLockTimesOut, RESERVED_REFUND_STATUSES
<1>9. DoubtIsVisible'
  BY <1>3, <1>4, <1>5 DEF RefundInv, DoubtIsVisible, RefundLockTimesOut
<1>. QED
  BY <1>6, <1>7, <1>8, <1>9 DEF RefundInv

\* Staff close an incident: not as resolved while the refund is in doubt.
LEMMA RefundResolveInv ==
  ASSUME RefundInv, NEW r \in Refunds, NEW k \in Reviewable, ResolveRefundIncident(r, k)
  PROVE  RefundInv'
<1>1. PICK s \in {"RESOLVED", "IGNORED"} :
        /\ s = "RESOLVED" => refund[r].status # "REQUIRES_REVIEW"
        /\ refundIncident' = [refundIncident EXCEPT ![r][k] = s]
  BY DEF ResolveRefundIncident
<1>2. resolved' \in 0 .. MaxResolved
  BY RefundConstants DEF RefundInv, RefundTypeOK, ResolveRefundIncident
<1>3. refundIncident' \in [Refunds -> [Reviewable -> {"NONE", "OPEN", "RESOLVED", "IGNORED"}]]
  BY <1>1 DEF RefundInv, RefundTypeOK
<1>4. RefundTypeOK'
  BY <1>2, <1>3 DEF RefundInv, RefundTypeOK, ResolveRefundIncident
<1>5. \A q \in Refunds : RowInv(q)'
  BY DEF RefundInv, RowInv, ResolveRefundIncident
<1>6. k # "refund-invoice-state"
  BY DEF RefundInv, InvoiceMatchesRefunds, ResolveRefundIncident
<1>7. \A q \in Refunds : refundIncident'[q]["refund-invoice-state"]
                            = refundIncident[q]["refund-invoice-state"]
  BY <1>1, <1>6 DEF RefundInv, RefundTypeOK, Reviewable
<1>8. /\ (SumOf(refund, RESERVED_REFUND_STATUSES) <= Paid)'
      /\ InvoiceMatchesRefunds'
  BY <1>7, SameRows DEF ResolveRefundIncident
<1>9. DoubtIsVisible'
  <2> SUFFICES ASSUME NEW q \in Refunds, refund'[q].status = "REQUIRES_REVIEW"
               PROVE  \E j \in Reviewable : refundIncident'[q][j] \in {"OPEN", "IGNORED"}
    BY DEF DoubtIsVisible
  <2>1. PICK j \in Reviewable : refundIncident[q][j] \in {"OPEN", "IGNORED"}
    BY DEF RefundInv, DoubtIsVisible, ResolveRefundIncident
  <2>2. refundIncident'[q][j] \in {"OPEN", "IGNORED"}
    BY <1>1, <2>1 DEF RefundInv, RefundTypeOK, ResolveRefundIncident
  <2>. QED BY <2>2
<1>. QED
  BY <1>4, <1>5, <1>8, <1>9 DEF RefundInv

\* The answer that a request was carried out: the amount was reserved, so the
\* invoice can still take it.
LEMMA SucceededInv ==
  ASSUME RefundInv, NEW r \in Refunds, call[r] = "sending", bank[r].done > 0,
         refund' = [refund EXCEPT ![r] = Ended(refund[r], "SUCCEEDED")],
         call' = [call EXCEPT ![r] = "done"],
         LET refundable == paymentStatus \in {"PAID", "PARTIALLY_REFUNDED"} IN
           /\ paymentStatus' = IF refundable THEN TargetStatus(SumOf(refund', {"SUCCEEDED"}))
                         ELSE paymentStatus
           /\ refundable => refundIncident' = refundIncident,
         UNCHANGED <<bank, resolved>>
  PROVE  RefundInv'
<1> DEFINE R == RESERVED_REFUND_STATUSES
           S == {"SUCCEEDED"}
           a == refund[r].amount
<1>1. refund \in [Refunds -> Refund] /\ refund[r] \in Refund /\ Amounted(refund)
  BY RowsAmounted DEF RefundInv, RefundTypeOK
<1>2. refund[r].status \in R \ S /\ refund[r].status \in {"PROCESSING", "REQUIRES_REVIEW"}
  BY DEF RefundInv, RowInv, RESERVED_REFUND_STATUSES
<1>3. a \in Nat /\ a # 0 /\ Paid \in Nat
  BY <1>1, <1>2, RefundConstants DEF Amounted, RefundInv, RowInv
<1>4. SumOf(refund, S) + a <= SumOf(refund, R)
  BY <1>1, <1>2, SumOfSubset DEF RESERVED_REFUND_STATUSES
<1>5. SumOf(refund, S) \in Nat /\ SumOf(refund, R) \in Nat
  BY <1>1, SumOfAll
<1>6. SumOf(refund, R) <= Paid
  BY DEF RefundInv
<1>7. SumOf(refund, S) + a <= Paid /\ SumOf(refund, S) < Paid
  <2> HIDE DEF R, S, a
  <2>. QED BY <1>3, <1>4, <1>5, <1>6
<1>8. paymentStatus \in {"PAID", "PARTIALLY_REFUNDED"}
  BY <1>7 DEF RefundInv, InvoiceMatchesRefunds
<1>9. paymentStatus' = TargetStatus(SumOf(refund', S)) /\ refundIncident' = refundIncident
  BY <1>8
<1>10. paymentStatus' \in {"PAID", "PARTIALLY_REFUNDED", "REFUNDED"}
  BY <1>9 DEF TargetStatus
<1>11. /\ RefundTypeOK'
       /\ \A q \in Refunds : RowInv(q)'
       /\ refund'[r].status = "SUCCEEDED"
       /\ refund'[r].amount = a
       /\ \A q \in Refunds \ {r} : refund'[q] = refund[q]
  <2>1. refundIncident' \in [Refunds -> [Reviewable -> {"NONE", "OPEN", "RESOLVED", "IGNORED"}]]
    BY <1>9 DEF RefundInv, RefundTypeOK
  <2>. QED
    BY <1>2, <1>10, <2>1, EndsRow DEF RefundStatus
<1>12. Amounted(refund')
  BY <1>11, RowsAmounted DEF RefundTypeOK
<1>13. /\ SumOf(refund', R) = SumOf(refund, R) - Counts(refund[r], R) + Counts(refund'[r], R)
       /\ SumOf(refund', S) = SumOf(refund, S) - Counts(refund[r], S) + Counts(refund'[r], S)
  <2>1. \A q \in Refunds \ {r} : refund'[q] = refund[q]
    BY <1>11
  <2>2. ASSUME NEW st
        PROVE  SumOf(refund', st) = SumOf(refund, st) - Counts(refund[r], st)
                                                      + Counts(refund'[r], st)
    BY ONLY <1>1, <1>12, <2>1, SumOfChange, r \in Refunds
  <2> HIDE DEF R, S, a
  <2>. QED BY <2>2
<1>14. /\ Counts(refund[r], R) = a /\ Counts(refund'[r], R) = a
       /\ Counts(refund[r], S) = 0 /\ Counts(refund'[r], S) = a
  BY <1>2, <1>11 DEF Counts, RESERVED_REFUND_STATUSES
<1>15. SumOf(refund', R) = SumOf(refund, R) /\ SumOf(refund', S) = SumOf(refund, S) + a
  <2> HIDE DEF R, S, a
  <2>. QED BY <1>3, <1>5, <1>13, <1>14
<1>16. InvoiceMatchesRefunds'
  <2> DEFINE sum == SumOf(refund', S)
  <2>1. sum \in Nat /\ sum # 0 /\ sum <= Paid
    <3> HIDE DEF R, S, a
    <3>. QED BY <1>3, <1>5, <1>7, <1>15
  <2>2. paymentStatus' = IF sum < Paid THEN "PARTIALLY_REFUNDED" ELSE "REFUNDED"
    <3> HIDE DEF sum
    <3>1. paymentStatus' = TargetStatus(sum)
      BY <1>9 DEF sum
    <3>. QED BY <1>3, <2>1, <3>1 DEF TargetStatus
  <2>3. \A q \in Refunds : refundIncident'[q]["refund-invoice-state"] = "NONE"
    BY <1>9 DEF RefundInv, InvoiceMatchesRefunds
  <2>4. sum = SumOf(refund, {"SUCCEEDED"})'
    BY DEF SumOf
  <2> HIDE DEF sum
  <2>. QED BY <2>1, <2>2, <2>3, <2>4 DEF InvoiceMatchesRefunds
<1>17. (SumOf(refund, RESERVED_REFUND_STATUSES) <= Paid)'
  BY <1>6, <1>15 DEF SumOf, RESERVED_REFUND_STATUSES
<1>18. DoubtIsVisible'
  BY <1>9, <1>11 DEF RefundInv, DoubtIsVisible
<1>. QED
  BY <1>11, <1>16, <1>17, <1>18 DEF RefundInv

\* applyProviderResponse, by what the answer says.
LEMMA ResponseInv ==
  ASSUME RefundInv, NEW r \in Refunds, ApplyProviderResponse(r)
  PROVE  RefundInv'
<1>1. PICK outcome \in Outcomes(r) :
        LET rows == [refund EXCEPT ![r].status = outcome, ![r].lock = "free"]
            refundable == paymentStatus \in {"PAID", "PARTIALLY_REFUNDED"}
        IN
        /\ refund' = rows
        /\ paymentStatus' = IF outcome = "SUCCEEDED" /\ refundable
                      THEN TargetStatus(SumOf(rows, {"SUCCEEDED"})) ELSE paymentStatus
        /\ refundIncident' =
             CASE outcome = "REQUIRES_REVIEW" -> OpenRefundIncident(r, "refund-state")
               [] outcome = "SUCCEEDED" /\ ~refundable ->
                    OpenRefundIncident(r, "refund-invoice-state")
               [] outcome # "REQUIRES_REVIEW" /\ ~(outcome = "SUCCEEDED" /\ ~refundable)
                    -> refundIncident
  BY DEF ApplyProviderResponse
<1>2. refund' = [refund EXCEPT ![r] = Ended(refund[r], outcome)]
  BY <1>1, EndedForm
<1>3. /\ call[r] = "sending" /\ call' = [call EXCEPT ![r] = "done"]
      /\ UNCHANGED <<bank, resolved>>
      /\ refund[r].status \in {"PROCESSING", "REQUIRES_REVIEW"}
  BY DEF ApplyProviderResponse, RefundInv, RowInv
<1>4. CASE outcome = "REQUIRES_REVIEW"
  <2>1. paymentStatus' = paymentStatus /\ refundIncident' = OpenRefundIncident(r, "refund-state")
    BY <1>1, <1>4
  <2>. QED
    BY <1>2, <1>3, <1>4, <2>1, PutInDoubt DEF Reviewable
<1>5. CASE outcome = "SUCCEEDED"
  <2>1. bank[r].done > 0
    BY <1>1, <1>5 DEF Outcomes
  <2>2. LET refundable == paymentStatus \in {"PAID", "PARTIALLY_REFUNDED"} IN
           /\ paymentStatus' = IF refundable THEN TargetStatus(SumOf(refund', {"SUCCEEDED"}))
                         ELSE paymentStatus
           /\ refundable => refundIncident' = refundIncident
    BY <1>1, <1>5
  <2>. QED
    BY <1>2, <1>3, <1>5, <2>1, <2>2, SucceededInv
<1>6. CASE outcome \in {"FAILED", "REJECTED"}
  <2>1. bank[r].refused > 0
    BY <1>1, <1>6 DEF Outcomes
  <2>2. paymentStatus' = paymentStatus /\ refundIncident' = refundIncident
    BY <1>1, <1>6
  <2>3. /\ RefundTypeOK'
        /\ \A q \in Refunds : RowInv(q)'
        /\ refund'[r].status = outcome
        /\ refund'[r].amount = refund[r].amount
        /\ \A q \in Refunds \ {r} : refund'[q] = refund[q]
    <3>1. /\ refundIncident' \in [Refunds -> [Reviewable -> {"NONE", "OPEN", "RESOLVED", "IGNORED"}]]
          /\ paymentStatus' \in {"PAID", "PARTIALLY_REFUNDED", "REFUNDED"}
      BY <2>2 DEF RefundInv, RefundTypeOK
    <3>. QED
      BY <1>2, <1>3, <1>6, <2>1, <3>1, EndsRow DEF RefundStatus
  <2>4. /\ (SumOf(refund, RESERVED_REFUND_STATUSES) <= Paid)'
        /\ InvoiceMatchesRefunds'
    BY <1>3, <1>6, <2>2, <2>3, SameBooks DEF RESERVED_REFUND_STATUSES
  <2>5. DoubtIsVisible'
    BY <1>6, <2>2, <2>3 DEF RefundInv, DoubtIsVisible
  <2>. QED
    BY <2>3, <2>4, <2>5 DEF RefundInv
<1>. QED
  BY <1>1, <1>4, <1>5, <1>6 DEF Outcomes

\* Inv is inductive.
LEMMA RefundNextInv == RefundInv /\ [RefundNext]_refundVars => RefundInv'
<1> SUFFICES ASSUME RefundInv, [RefundNext]_refundVars PROVE RefundInv'
  OBVIOUS
<1>1. CASE UNCHANGED refundVars
  BY <1>1 DEF refundVars, RefundInv, RefundTypeOK, RowInv, SumOf, InvoiceMatchesRefunds, DoubtIsVisible,
             RESERVED_REFUND_STATUSES
<1>2. CASE RefundNext
  BY <1>2, RefundCreateInv, SubmitInv, BankInv, ResponseInv, UncertainInv, LostInv, TimesOutInv,
     RecoverInv, RefundResolveInv DEF RefundNext
<1>. QED
  BY <1>1, <1>2

\* What the bank holds or has carried out is among what is reserved.
LEMMA WithinCapture == RefundInv => RefundWithinCapture
<1> SUFFICES ASSUME RefundInv PROVE RefundWithinCapture
  OBVIOUS
<1> DEFINE f == [r \in Refunds |-> refund[r].amount * (bank[r].sent + bank[r].done)]
           g == [r \in Refunds |-> Counts(refund[r], RESERVED_REFUND_STATUSES)]
<1>1. Amounted(refund)
  BY RowsAmounted DEF RefundInv, RefundTypeOK
<1>2. ASSUME NEW r \in Refunds
      PROVE  f[r] \in Int /\ g[r] \in Int /\ f[r] <= g[r]
  <2> DEFINE a == refund[r].amount
             n == bank[r].sent + bank[r].done
  <2>1. a \in Nat /\ bank[r] \in Bank /\ refund[r] \in Refund /\ RowInv(r)
    BY <1>1 DEF Amounted, RefundInv, RefundTypeOK
  <2>2. bank[r].sent \in Nat /\ bank[r].done \in Nat /\ bank[r].refused \in Nat
    BY <2>1 DEF Bank
  <2>3. n \in {0, 1}
    BY <2>1, <2>2 DEF RowInv
  <2>4. n = 1 => bank[r].refused = 0 /\ call[r] # "none"
    BY <2>1, <2>2 DEF RowInv
  <2>5. n = 1 => refund[r].status \in RESERVED_REFUND_STATUSES
    BY <2>1, <2>4 DEF RowInv, Refund, RefundStatus, RESERVED_REFUND_STATUSES
  <2>6. f[r] = a * n /\ g[r] = Counts(refund[r], RESERVED_REFUND_STATUSES)
    OBVIOUS
  <2>7. n = 1 => g[r] = a
    BY <2>5 DEF Counts
  <2>8. g[r] \in Nat
    BY <2>1 DEF Counts
  <2>9. f[r] = 0 \/ (n = 1 /\ f[r] = a)
    <3> HIDE DEF a, n, f
    <3>. QED BY <2>1, <2>3, <2>6
  <2> HIDE DEF a, n, f, g
  <2>. QED BY <2>1, <2>7, <2>8, <2>9
<1>3. Total(g, Refunds) = SumOf(refund, RESERVED_REFUND_STATUSES)
  BY <1>1, SumOfAll
<1>4. Total(f, Refunds) <= Total(g, Refunds)
  <2> HIDE DEF f, g
  <2>. QED BY <1>2, TotalAtMost, RefundConstants
<1>5. Total(g, Refunds) <= Paid
  BY <1>3 DEF RefundInv
<1>6. Total(f, Refunds) \in Int /\ Total(g, Refunds) \in Int /\ Paid \in Int
  <2> HIDE DEF f, g
  <2>. QED BY <1>2, TotalType, RefundConstants
<1>7. Total(f, Refunds) <= Paid
  <2> HIDE DEF f, g
  <2>. QED BY <1>4, <1>5, <1>6
<1>. QED
  BY <1>7 DEF RefundWithinCapture

-----------------------------------------------------------------------------
\* createRefund, submitRefund and whatever VNPay does with requests that got
\* lost: what is given back never exceeds what was taken, for any number of
\* refunds of any amounts.
THEOREM RefundsWithinCapture == RefundSpec => []RefundWithinCapture
<1>1. RefundSpec => []RefundInv
  BY RefundInitInv, RefundNextInv, PTL DEF RefundSpec
<1>. QED
  BY <1>1, WithinCapture, PTL

\* applyProviderResponse and completeSuccessfulRefund leave the rows and the
\* invoice as VNPay settled the requests.
THEOREM BooksMatch == RefundSpec => []BooksMatchBank
<1>1. RefundSpec => []RefundInv
  BY RefundInitInv, RefundNextInv, PTL DEF RefundSpec
<1>2. RefundInv => BooksMatchBank
  <2> SUFFICES ASSUME RefundInv, NEW r \in Refunds
               PROVE  /\ refund[r].status = "SUCCEEDED" => bank[r].done = 1
                      /\ refund[r].status \in {"FAILED", "REJECTED"} =>
                           bank[r].done + bank[r].sent = 0
    BY DEF RefundInv, BooksMatchBank
  <2>1. bank[r] \in Bank /\ RowInv(r)
    BY DEF RefundInv, RefundTypeOK
  <2>2. bank[r].sent \in Nat /\ bank[r].done \in Nat /\ bank[r].refused \in Nat
    BY <2>1 DEF Bank
  <2>3. bank[r].refused = 1 => bank[r].done + bank[r].sent = 0
    BY <2>1, <2>2 DEF RowInv
  <2>. QED
    BY <2>1, <2>3 DEF RowInv
<1>. QED
  BY <1>1, <1>2, PTL

\* Whoever puts a refund in doubt opens an incident in the same transaction,
\* and resolveIncident does not close it as resolved before the doubt ends.
THEOREM DoubtVisible == RefundSpec => []DoubtIsVisible
<1>1. RefundSpec => []RefundInv
  BY RefundInitInv, RefundNextInv, PTL DEF RefundSpec
<1>. QED
  BY <1>1, PTL DEF RefundInv
=============================================================================
