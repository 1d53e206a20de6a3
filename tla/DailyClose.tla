----------------------------- MODULE DailyClose -----------------------------
(***************************************************************************)
(* The close of a business day (daily-sales-close.service.ts): the figures *)
(* of the day (profitability.query.ts) are kept for ever, and refunds made *)
(* later are told apart from them.  Sales of one takeaway line each go on  *)
(* being paid, confirmed, refunded and made again around midnight.         *)
(*                                                                         *)
(* A day is its number.  One shift stands for all.  The insert of an       *)
(* unpaid invoice or of a write-off and its commit are two steps: its      *)
(* createdAt is that of the insert, and the close, which only reads these  *)
(* rows, misses one that is not committed.  An invoice paid at once reads  *)
(* the open shift, which the close reads too, so that serializability      *)
(* leaves no such gap.  Refusals for want of cash and by sessions still    *)
(* active are left out, and so are lines cancelled before they are billed, *)
(* whose write-offs go as those of a replacement.                          *)
(***************************************************************************)
EXTENDS Integers, FiniteSets, Sums

CONSTANTS Sales, Price,
          MaxDate,   \* bound: days
          None

VARIABLES date,    \* the business day it is
          register, \* the day the open shift was opened, 0 without one
          sale,    \* the Invoice rows, each with its line and its payment
          closing  \* the DailySalesClose rows

vars == <<date, register, sale, closing>>

Days == 1..MaxDate
Paid == {"PAID", "PARTIALLY_REFUNDED", "REFUNDED"}
Uncertain == {"PENDING", "REQUIRES_REVIEW"}
\* cup: the line; again: its replacement; wasted: the days the ingredients of
\* the one and of the other were written off; stamped: the day of a write-off
\* that is not committed; asked: the amount of a refund under way; refunds:
\* count and sum of those that succeeded; here: the attempt is of the open
\* shift.  Ghosts: straddled, committed after the close of its day; redone,
\* the days that were closed when the line was made again or was thrown away;
\* late, those of them whose write-off was committed after their close.
NoSale == [status |-> "NONE", day |-> 0, online |-> FALSE, cup |-> "PENDING",
           again |-> "NONE", wasted |-> [cup |-> 0, again |-> 0], stamped |-> 0, attempt |-> "NONE", here |-> FALSE,
           incident |-> FALSE, asked |-> 0, refunds |-> [count |-> 0, amount |-> 0],
           straddled |-> FALSE, redone |-> {}, late |-> {}]

Init ==
  /\ date = 1 /\ register = 0
  /\ sale = [i \in Sales |-> NoSale]
  /\ closing = [d \in Days |-> None]

Is(i, statuses) == sale[i].status \in statuses
Set(i, row) == sale' = [sale EXCEPT ![i] = row]
Closed == {d \in Days : closing[d] # None}
Unresolved(i) == sale[i].attempt \in Uncertain

-----------------------------------------------------------------------------
(* Around the close: time, shifts, invoices, payments                      *)

NextDay ==
  /\ date < MaxDate
  /\ date' = date + 1
  /\ UNCHANGED <<register, sale, closing>>

OpenShift ==
  /\ register = 0
  /\ register' = date
  /\ UNCHANGED <<date, sale, closing>>
CloseShift ==
  /\ register # 0 /\ \A i \in Sales : sale[i].here => ~Unresolved(i)
  /\ register' = 0
  /\ sale' = [i \in Sales |-> [sale[i] EXCEPT !.here = FALSE]]
  /\ UNCHANGED <<date, closing>>

\* createInvoiceInTransaction: paid at once it needs an open shift.
InsertInvoice(i) ==
  /\ Is(i, {"NONE"})
  /\ Set(i, [sale[i] EXCEPT !.status = "INSERTED", !.day = date])
  /\ UNCHANGED <<date, register, closing>>
CommitInvoice(i) ==
  /\ Is(i, {"INSERTED"})
  /\ Set(i, [sale[i] EXCEPT !.status = "UNPAID", !.straddled = @ \/ sale[i].day \in Closed])
  /\ UNCHANGED <<date, register, closing>>
CreatePaidInvoice(i) ==
  /\ Is(i, {"NONE"}) /\ register # 0
  /\ Set(i, [sale[i] EXCEPT !.status = "PAID", !.day = date])
  /\ UNCHANGED <<date, register, closing>>

UpdatePayment(i) ==
  /\ Is(i, {"UNPAID"}) /\ ~Unresolved(i) /\ register # 0
  /\ Set(i, [sale[i] EXCEPT !.status = "PAID"])
  /\ UNCHANGED <<date, register, closing>>
\* The line leaves the invoice.
VoidInvoice(i) ==
  /\ Is(i, {"UNPAID"}) /\ ~Unresolved(i)
  /\ Set(i, [sale[i] EXCEPT !.status = "VOIDED", !.cup = "NONE"])
  /\ UNCHANGED <<date, register, closing>>

StartPayment(i) ==
  /\ Is(i, {"UNPAID"}) /\ ~Unresolved(i) /\ register # 0
  /\ Set(i, [sale[i] EXCEPT !.attempt = "PENDING", !.here = TRUE])
  /\ UNCHANGED <<date, register, closing>>
\* A notification or the answer to a query; a success that finds the invoice
\* settled otherwise is a conflict for a person to look at.
PaymentSucceeds(i) ==
  /\ sale[i].attempt \in Uncertain \cup {"FAILED"}
  /\ Set(i, IF Is(i, {"UNPAID"})
            THEN [sale[i] EXCEPT !.status = "PAID", !.online = TRUE,
                                 !.attempt = "SUCCEEDED", !.incident = FALSE]
            ELSE [sale[i] EXCEPT !.attempt = "REQUIRES_REVIEW", !.incident = TRUE])
  /\ UNCHANGED <<date, register, closing>>
PaymentFails(i) ==
  /\ Unresolved(i)
  /\ Set(i, [sale[i] EXCEPT !.attempt = "FAILED", !.incident = FALSE])
  /\ UNCHANGED <<date, register, closing>>
PaymentInDoubt(i) ==
  /\ sale[i].attempt = "PENDING"
  /\ Set(i, [sale[i] EXCEPT !.attempt = "REQUIRES_REVIEW", !.incident = TRUE])
  /\ UNCHANGED <<date, register, closing>>
\* A person closes the incident, of the payment or of the refund.
IgnoreIncident(i) ==
  /\ sale[i].incident
  /\ Set(i, [sale[i] EXCEPT !.incident = FALSE])
  /\ UNCHANGED <<date, register, closing>>

-----------------------------------------------------------------------------
(* The line, refunds and remakes                                           *)

Prepare(i, from, to) ==
  /\ Is(i, {"UNPAID"} \cup Paid) /\ sale[i].cup = from
  /\ Set(i, [sale[i] EXCEPT !.cup = to])
  /\ UNCHANGED <<date, register, closing>>

Refunded(row, amount) ==
  LET sum == row.refunds.amount + amount IN
  [row EXCEPT !.refunds = [count |-> @.count + 1, amount |-> sum], !.asked = 0,
              !.incident = FALSE,
              !.status = IF sum < Price THEN "PARTIALLY_REFUNDED" ELSE "REFUNDED"]
Refundable(i, amount) ==
  /\ Is(i, {"PAID", "PARTIALLY_REFUNDED"})
  /\ sale[i].refunds.amount + amount <= Price
RefundCash(i, amount) ==
  /\ Refundable(i, amount) /\ ~sale[i].online /\ sale[i].cup = "SERVED" /\ register # 0
  /\ Set(i, Refunded(sale[i], amount))
  /\ UNCHANGED <<date, register, closing>>
RequestRefund(i, amount) ==
  /\ Refundable(i, amount) /\ sale[i].online /\ sale[i].asked = 0
  /\ Set(i, [sale[i] EXCEPT !.asked = amount])
  /\ UNCHANGED <<date, register, closing>>
RefundSucceeds(i) ==
  /\ sale[i].asked > 0
  /\ Set(i, Refunded(sale[i], sale[i].asked))
  /\ UNCHANGED <<date, register, closing>>
RefundFails(i) ==
  /\ sale[i].asked > 0
  /\ Set(i, [sale[i] EXCEPT !.asked = 0, !.incident = FALSE])
  /\ UNCHANGED <<date, register, closing>>
RefundInDoubt(i) ==
  /\ sale[i].asked > 0 /\ ~sale[i].incident
  /\ Set(i, [sale[i] EXCEPT !.incident = TRUE])
  /\ UNCHANGED <<date, register, closing>>

\* remakeItem writes the ingredients off, ...
RemakeItem(i) ==
  /\ Is(i, {"PAID"}) /\ sale[i].cup = "SERVED" /\ sale[i].again = "NONE"
  /\ sale[i].stamped = 0
  /\ Set(i, [sale[i] EXCEPT !.stamped = date])
  /\ UNCHANGED <<date, register, closing>>
CookReplacement(i) ==
  /\ sale[i].again = "PENDING"
  /\ Set(i, [sale[i] EXCEPT !.again = "COOKING", !.redone = @ \cup Closed])
  /\ UNCHANGED <<date, register, closing>>
\* ... and so does cancelItem, of a replacement that is being made.
CancelReplacement(i) ==
  /\ sale[i].again = "PENDING"
  /\ Set(i, [sale[i] EXCEPT !.again = "CANCELLED", !.redone = @ \cup Closed])
  /\ UNCHANGED <<date, register, closing>>
DiscardReplacement(i) ==
  /\ sale[i].again = "COOKING" /\ sale[i].stamped = 0
  /\ Set(i, [sale[i] EXCEPT !.stamped = date])
  /\ UNCHANGED <<date, register, closing>>
WrittenOff(row) ==
  LET done == [row EXCEPT !.stamped = 0, !.redone = @ \cup Closed,
                          !.late = @ \cup ({row.stamped} \cap Closed)]
  IN IF row.again = "NONE"
     THEN [done EXCEPT !.again = "PENDING", !.wasted.cup = row.stamped]
     ELSE [done EXCEPT !.again = "CANCELLED", !.wasted.again = row.stamped]
CommitWriteOff(i) ==
  /\ sale[i].stamped # 0
  /\ Set(i, WrittenOff(sale[i]))
  /\ UNCHANGED <<date, register, closing>>
AbortWriteOff(i) ==
  /\ sale[i].stamped # 0
  /\ Set(i, [sale[i] EXCEPT !.stamped = 0])
  /\ UNCHANGED <<date, register, closing>>

-----------------------------------------------------------------------------
(* The close                                                               *)

\* queryProfitability, as of now: a line costs 1 once it is cooked, unless it
\* was made again and is waste.
Cohort(d) == {i \in Sales : Is(i, Paid) /\ sale[i].day = d}
Cooked(i) == sale[i].cup \in {"COOKING", "SERVED"} /\ sale[i].again = "NONE"
RefundCounts == [i \in Sales |-> sale[i].refunds.count]
RefundAmounts == [i \in Sales |-> sale[i].refunds.amount]
Profitability(d) ==
  LET refunds == Total(RefundAmounts, Cohort(d)) IN
  [grossSales |-> Price * Cardinality(Cohort(d)),
   refundCount |-> Total(RefundCounts, Cohort(d)),
   refundAmount |-> refunds,
   netReceipts |-> Price * Cardinality(Cohort(d)) - refunds,
   ingredientCost |-> Cardinality({i \in Cohort(d) : Cooked(i)})
                      + Cardinality({i \in Cohort(d) : sale[i].again = "COOKING"}),
   wasteCost |-> Cardinality({i \in Sales : sale[i].wasted.cup = d})
                 + Cardinality({i \in Sales : sale[i].wasted.again = d})]

\* The six counts of pending work.
OpenShifts(d) == register # 0 /\ register <= d
UnpaidInvoices(d) == \E i \in Sales : Is(i, {"UNPAID"}) /\ sale[i].day = d
UnfinishedItems(d) == \E i \in Cohort(d) : sale[i].cup \in {"PENDING", "COOKING"}
OfDay(d) == {i \in Sales : ~Is(i, {"NONE", "INSERTED"}) /\ sale[i].day = d}
UncertainPayments(d) == \E i \in OfDay(d) : Unresolved(i)
UncertainRefunds(d) == \E i \in OfDay(d) : sale[i].asked > 0
OpenIncidents(d) == \E i \in OfDay(d) : sale[i].incident
\* Mutant: bills left unpaid do not hold the close up.
BlockedByWork(d) ==
  \/ OpenShifts(d) \/ UnfinishedItems(d) \/ UncertainPayments(d)
  \/ UncertainRefunds(d) \/ OpenIncidents(d)
Blocked(d) ==
  \/ OpenShifts(d) \/ UnpaidInvoices(d) \/ UnfinishedItems(d)
  \/ UncertainPayments(d) \/ UncertainRefunds(d) \/ OpenIncidents(d)

\* A second close returns the first.
CloseDay(d) ==
  /\ d < date /\ closing[d] = None
  /\ ~Blocked(d)
  /\ closing' = [closing EXCEPT ![d] = Profitability(d)]
  /\ UNCHANGED <<date, register, sale>>

\* withRefundDelta, of every close that is read.
RefundDelta(d) ==
  LET all == {i \in Sales : sale[i].day = d} IN
  [count |-> Total(RefundCounts, all) - closing[d].refundCount,
   amount |-> Total(RefundAmounts, all) - closing[d].refundAmount]

Next ==
  \/ NextDay \/ OpenShift \/ CloseShift
  \/ \E d \in Days : CloseDay(d)
  \/ \E i \in Sales :
       \/ InsertInvoice(i) \/ CommitInvoice(i) \/ CreatePaidInvoice(i)
       \/ UpdatePayment(i) \/ VoidInvoice(i) \/ StartPayment(i)
       \/ PaymentSucceeds(i) \/ PaymentFails(i) \/ PaymentInDoubt(i) \/ IgnoreIncident(i)
       \/ Prepare(i, "PENDING", "COOKING") \/ Prepare(i, "COOKING", "SERVED")
       \/ \E amount \in 1..Price : RefundCash(i, amount) \/ RequestRefund(i, amount)
       \/ RefundSucceeds(i) \/ RefundFails(i) \/ RefundInDoubt(i)
       \/ RemakeItem(i) \/ CookReplacement(i) \/ CancelReplacement(i)
       \/ DiscardReplacement(i) \/ CommitWriteOff(i) \/ AbortWriteOff(i)

Spec == Init /\ [][Next]_vars

-----------------------------------------------------------------------------
\* The figures of a closed day stand: whatever is confirmed, refunded or made
\* again later, its sales are those that were kept, what was received differs
\* from them by the refund delta that is shown and nothing else, its cost
\* changes by remakes alone, and its waste only grows, by write-offs alone that
\* were stamped before midnight and committed after the close.  Excepted are
\* days with an invoice whose insert was not committed when the day was closed.
\* (close, withRefundDelta, queryProfitability.)
ClosedDayStands ==
  \A d \in Closed :
    LET kept == closing[d]  current == Profitability(d) IN
    (\A i \in Sales : sale[i].day = d => ~sale[i].straddled) =>
      /\ current.grossSales = kept.grossSales
      /\ current.netReceipts = kept.netReceipts - RefundDelta(d).amount
      /\ current.refundCount = kept.refundCount + RefundDelta(d).count
      /\ RefundDelta(d).amount >= 0
      /\ current.wasteCost >= kept.wasteCost
      /\ (\A i \in Sales : d \notin sale[i].late) => current.wasteCost = kept.wasteCost
      /\ (\A i \in Cohort(d) : d \notin sale[i].redone) =>
           current.ingredientCost = kept.ingredientCost
=============================================================================
