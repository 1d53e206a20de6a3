------------------------------ MODULE CashDesk ------------------------------
(***************************************************************************)
(* Money on its way from the customer to the bank: cashier shifts and      *)
(* their drawer (cashier-shifts.service.ts, cashier-shift-ledger), cash    *)
(* and online payment of invoices, cash refunds, expense requests, funds,  *)
(* handovers of closed shifts, and bank statements reconciled with them.   *)
(*                                                                         *)
(* Every operation but the import of a statement is one serializable       *)
(* transaction, and one action.  Amounts are small integers.  Employees    *)
(* are active, keys are fresh (replays are the idempotency component's),   *)
(* closing notes are given, and an invoice may be paid or refunded without *)
(* regard to its order (Orders).  Close does not refuse for sessions that  *)
(* are still active: the model allows more than the code.                  *)
(***************************************************************************)
EXTENDS Integers, FiniteSets, Sums

CONSTANTS Employees, Funds, Shifts, Invoices, Requests, Handovers, Entries,
          References,       \* bank references (each with its evidence)
          FundTypes,        \* among "CASH", "BANK", "OTHER"
          Amounts,          \* what a request may ask for
          MaxCash,          \* bound: money received from outside
          MaxCount,         \* bound: the count reported at closing
          NoEmployee, NoFund, NoShift, NoHandover, NoReference

ASSUME CashDeskConstants ==
    /\ IsFiniteSet(Funds) /\ IsFiniteSet(Invoices) /\ IsFiniteSet(Handovers)
    /\ IsFiniteSet(Shifts)
    /\ FundTypes \subseteq {"CASH", "BANK", "OTHER"}
    /\ Amounts \subseteq Nat \ {0}
    /\ MaxCash \in Nat /\ MaxCount \in Nat
    /\ NoEmployee \notin Employees /\ NoFund \notin Funds
    /\ NoShift \notin Shifts /\ NoHandover \notin Handovers
    /\ NoReference \notin References

VARIABLES fund,       \* Fund rows
          shift,      \* CashierShift rows; manual: its income less its expense
          invoice,    \* Invoice rows, and the shifts of their payment attempts
          refunded,   \* CashRefund rows, summed by invoice and paying shift
          request,    \* CashExpenseRequest rows
          handover,   \* CashHandover rows
          entry,      \* BankStatementEntry rows
          checked,    \* funds an import in progress has found to be BANK
          doubtful,   \* entries whose settlement failed, not yet marked
          received    \* history: money in from outside less money out

vars == <<fund, shift, invoice, refunded, request, handover, entry, checked,
          doubtful, received>>

desk == <<shift, invoice, refunded, request>>
bank == <<entry, checked, doubtful>>

Fund == [type : {"NONE", "DELETED"} \cup FundTypes, balance : Nat]
CashierShift == [status : {"NONE", "OPEN", "CLOSED"},
                 employee : Employees \cup {NoEmployee},
                 fund : Funds \cup {NoFund},
                 expected : Nat, manual : Int, reported : Nat, actual : Int]
PaidStatus == {"PAID", "PARTIALLY_REFUNDED", "REFUNDED"}
Invoice == [status : {"NONE", "UNPAID", "VOIDED"} \cup PaidStatus,
            method : {"CASH", "CARD", "TRANSFER"}, total : {0} \cup Amounts,
            shift : Shifts \cup {NoShift},
            unresolved : SUBSET Shifts, failed : SUBSET Shifts]
\* DECLINED: REJECTED by somebody else or CANCELLED by the requester.
RequestStatus == {"NONE", "PENDING", "APPROVED", "DECLINED"}
CashExpenseRequest == [status : RequestStatus,
                       shift : Shifts \cup {NoShift},
                       amount : {0} \cup Amounts]
CashHandover == [status : RequestStatus,
                 settlement : {"NOT_REQUIRED", "PENDING", "SETTLED"},
                 shift : Shifts \cup {NoShift},
                 destination : Funds \cup {NoFund}, retained : Nat,
                 reference : References \cup {NoReference}]
Open == {"UNMATCHED", "MISMATCH"}
BankStatementEntry == [status : {"NONE", "MATCHED", "IGNORED"} \cup Open,
                       fund : Funds \cup {NoFund}, amount : {0} \cup Amounts,
                       reference : References \cup {NoReference},
                       handover : Handovers \cup {NoHandover}]

\* No fund is overdrawn, and every row has its type.
TypeOK ==
    /\ fund \in [Funds -> Fund]
    /\ shift \in [Shifts -> CashierShift]
    /\ invoice \in [Invoices -> Invoice]
    /\ refunded \in [Invoices -> [Shifts -> Nat]]
    /\ request \in [Requests -> CashExpenseRequest]
    /\ handover \in [Handovers -> CashHandover]
    /\ entry \in [Entries -> BankStatementEntry]
    /\ checked \subseteq Funds
    /\ doubtful \subseteq Entries
    /\ received \in Int

Init ==
    /\ fund = [f \in Funds |-> [type |-> "NONE", balance |-> 0]]
    /\ shift = [s \in Shifts |->
                  [status |-> "NONE", employee |-> NoEmployee, fund |-> NoFund,
                   expected |-> 0, manual |-> 0, reported |-> 0, actual |-> 0]]
    /\ invoice = [i \in Invoices |->
                    [status |-> "NONE", method |-> "CASH", total |-> 0,
                     shift |-> NoShift, unresolved |-> {}, failed |-> {}]]
    /\ refunded = [i \in Invoices |-> [s \in Shifts |-> 0]]
    /\ request = [q \in Requests |->
                    [status |-> "NONE", shift |-> NoShift, amount |-> 0]]
    /\ handover = [h \in Handovers |->
                     [status |-> "NONE", settlement |-> "NOT_REQUIRED",
                      shift |-> NoShift, destination |-> NoFund,
                      retained |-> 0, reference |-> NoReference]]
    /\ entry = [x \in Entries |->
                  [status |-> "NONE", fund |-> NoFund, amount |-> 0,
                   reference |-> NoReference, handover |-> NoHandover]]
    /\ checked = {}
    /\ doubtful = {}
    /\ received = 0

-----------------------------------------------------------------------------
(* Reading the rows *)

Active(f) == fund[f].type \in FundTypes
ShiftsOpenOn(fs) == {s \in Shifts : shift[s].status = "OPEN" /\ shift[s].fund \in fs}

\* requireOpenShift: s is its employee's open shift, on an active CASH fund.
requireOpenShift(s) ==
    /\ shift[s].status = "OPEN"
    /\ fund[shift[s].fund].type = "CASH"

\* What a handover took from its closed shift.
Source(h) == shift[handover[h].shift].fund
Requester(h) == shift[handover[h].shift].employee
Counted(h) == shift[handover[h].shift].reported
Expected(h) == shift[handover[h].shift].actual
Transfer(h) == Counted(h) - handover[h].retained

PendingFrom(f) == {h \in Handovers : handover[h].status = "PENDING" /\ Source(h) = f}
AwaitingSettlement(h) ==
    handover[h].status = "APPROVED" /\ handover[h].settlement = "PENDING"

\* The handovers that forbid a change of the type, or the removal, of f.
HandoversUsing(f) ==
    {h \in Handovers : /\ \/ handover[h].status = "PENDING"
                          \/ handover[h].settlement = "PENDING"
                       /\ f \in {Source(h), handover[h].destination}}

PaidOn(s) == {i \in Invoices : invoice[i].shift = s /\ invoice[i].status \in PaidStatus}

\* actualEndingCash of calculateReconciliation.
calculateReconciliation(s) ==
    shift[s].expected
      + Total([i \in Invoices |-> invoice[i].total],
              {i \in PaidOn(s) : invoice[i].method = "CASH"})
      + shift[s].manual
      - Total([i \in Invoices |-> refunded[i][s]], Invoices)

RefundedAmount(i) == Total(refunded[i], Shifts)

Receive(f, amount) ==
    /\ received + amount <= MaxCash
    /\ fund' = [fund EXCEPT ![f].balance = @ + amount]
    /\ received' = received + amount

\* Every debit is conditional on the balance.
PayOut(f, amount) ==
    /\ Active(f)
    /\ fund[f].balance >= amount
    /\ fund' = [fund EXCEPT ![f].balance = @ - amount]
    /\ received' = received - amount

-----------------------------------------------------------------------------
(* Cashier shifts *)

\* open(); the indexes allow one open shift per employee and per fund.
OpenShift(s, e, f) ==
    /\ shift[s].status = "NONE"
    /\ fund[f].type = "CASH"
    /\ PendingFrom(f) = {}
    /\ ShiftsOpenOn({f}) = {}
    /\ \A t \in Shifts : ~(shift[t].status = "OPEN" /\ shift[t].employee = e)
    /\ shift' = [shift EXCEPT ![s].status = "OPEN", ![s].employee = e,
                              ![s].fund = f, ![s].expected = fund[f].balance]
    /\ UNCHANGED <<fund, invoice, refunded, request, handover, bank, received>>

\* addMovement of type INCOME.
AddIncome(s, amount) ==
    /\ requireOpenShift(s)
    /\ Receive(shift[s].fund, amount)
    /\ shift' = [shift EXCEPT ![s].manual = @ + amount]
    /\ UNCHANGED <<invoice, refunded, request, handover, bank>>

\* An expense below the threshold.  The threshold is a setting that changes,
\* so any amount may be on either side of it.
AddExpense(s, amount) ==
    /\ requireOpenShift(s)
    /\ PayOut(shift[s].fund, amount)
    /\ shift' = [shift EXCEPT ![s].manual = @ - amount]
    /\ UNCHANGED <<invoice, refunded, request, handover, bank>>

RequestExpense(q, s, amount) ==
    /\ request[q].status = "NONE"
    /\ requireOpenShift(s)
    /\ request' = [request EXCEPT ![q] = [status |-> "PENDING", shift |-> s,
                                          amount |-> amount]]
    /\ UNCHANGED <<fund, shift, invoice, refunded, handover, bank, received>>

\* The requester is the cashier of the shift.
ApproveExpenseRequest(q, e) ==
    LET s == request[q].shift
    IN  /\ request[q].status = "PENDING"
        /\ e # shift[s].employee
        /\ requireOpenShift(s)
        /\ PayOut(shift[s].fund, request[q].amount)
        /\ shift' = [shift EXCEPT ![s].manual = @ - request[q].amount]
        /\ request' = [request EXCEPT ![q].status = "APPROVED"]
        /\ UNCHANGED <<invoice, refunded, handover, bank>>

\* rejectExpenseRequest by somebody else, cancelExpenseRequest by the requester.
ResolveExpenseRequest(q) ==
    /\ request[q].status = "PENDING"
    /\ request' = [request EXCEPT ![q].status = "DECLINED"]
    /\ UNCHANGED <<fund, shift, invoice, refunded, handover, bank, received>>

\* close() with the count the cashier reports, once it is not refused.
CloseWith(s, reported) ==
    /\ shift[s].status = "OPEN"
    /\ \A q \in Requests : ~(request[q].shift = s /\ request[q].status = "PENDING")
    /\ shift' = [shift EXCEPT ![s].status = "CLOSED", ![s].reported = reported,
                              ![s].actual = calculateReconciliation(s)]
    /\ UNCHANGED <<fund, invoice, refunded, request, handover, bank, received>>

\* Mutant: unresolved online payments are not looked for.
CloseWithPaymentsOpen(s, reported) == CloseWith(s, reported)

CloseShift(s, reported) ==
    /\ \A i \in Invoices : s \notin invoice[i].unresolved
    /\ CloseWith(s, reported)

-----------------------------------------------------------------------------
(* Invoices, as far as the drawer is concerned *)

CreateInvoice(i, total) ==
    /\ invoice[i].status = "NONE"
    /\ invoice' = [invoice EXCEPT ![i].status = "UNPAID", ![i].total = total]
    /\ UNCHANGED <<fund, shift, refunded, request, handover, bank, received>>

\* updatePayment, in the cashier's open shift; cash goes into the drawer.
UpdatePayment(i, s, method) ==
    /\ invoice[i].status = "UNPAID"
    /\ invoice[i].unresolved = {}
    /\ requireOpenShift(s)
    /\ invoice' = [invoice EXCEPT ![i].status = "PAID", ![i].method = method,
                                  ![i].shift = s]
    /\ IF method = "CASH" THEN Receive(shift[s].fund, invoice[i].total)
       ELSE UNCHANGED <<fund, received>>
    /\ UNCHANGED <<shift, refunded, request, handover, bank>>

VoidInvoice(i) ==
    /\ invoice[i].status = "UNPAID"
    /\ invoice[i].unresolved = {}
    /\ invoice' = [invoice EXCEPT ![i].status = "VOIDED"]
    /\ UNCHANGED <<fund, shift, refunded, request, handover, bank, received>>

\* A payment attempt keeps the shift it was started in.
CreateAttempt(i, s) ==
    /\ invoice[i].status = "UNPAID"
    /\ invoice[i].unresolved = {}
    /\ requireOpenShift(s)
    /\ invoice' = [invoice EXCEPT ![i].unresolved = {s}]
    /\ UNCHANGED <<fund, shift, refunded, request, handover, bank, received>>

\* The provider confirms an attempt, be it one that it had reported as failed:
\* completeOnlinePayment books the invoice on the shift of the attempt.
CompleteOnlinePayment(i, s) ==
    /\ s \in invoice[i].unresolved \cup invoice[i].failed
    /\ invoice[i].status = "UNPAID"
    /\ invoice' = [invoice EXCEPT ![i].status = "PAID", ![i].method = "TRANSFER",
                                  ![i].shift = s, ![i].unresolved = @ \ {s},
                                  ![i].failed = @ \ {s}]
    /\ UNCHANGED <<fund, shift, refunded, request, handover, bank, received>>

\* An attempt fails, or a reviewer resolves it.
AttemptFails(i, s) ==
    /\ s \in invoice[i].unresolved
    /\ invoice' = [invoice EXCEPT ![i].unresolved = @ \ {s},
                                  ![i].failed = @ \cup {s}]
    /\ UNCHANGED <<fund, shift, refunded, request, handover, bank, received>>

\* A failed attempt succeeds after all, on an invoice settled otherwise: it
\* needs a review.
AttemptConflicts(i, s) ==
    /\ s \in invoice[i].failed
    /\ invoice[i].status # "UNPAID"
    /\ invoice' = [invoice EXCEPT ![i].unresolved = @ \cup {s},
                                  ![i].failed = @ \ {s}]
    /\ UNCHANGED <<fund, shift, refunded, request, handover, bank, received>>

\* CashRefundsService.create: paid from the drawer of the shift open now.
CashRefund(i, s, amount) ==
    /\ invoice[i].method = "CASH"
    /\ invoice[i].status \in {"PAID", "PARTIALLY_REFUNDED"}
    /\ RefundedAmount(i) + amount <= invoice[i].total
    /\ requireOpenShift(s)
    /\ PayOut(shift[s].fund, amount)
    /\ refunded' = [refunded EXCEPT ![i][s] = @ + amount]
    /\ invoice' = [invoice EXCEPT ![i].status =
                     IF RefundedAmount(i) + amount = invoice[i].total
                     THEN "REFUNDED" ELSE "PARTIALLY_REFUNDED"]
    /\ UNCHANGED <<shift, request, handover, bank>>

-----------------------------------------------------------------------------
(* Funds *)

CreateFund(f, type, opening) ==
    /\ fund[f].type = "NONE"
    /\ received + opening <= MaxCash
    /\ fund' = [fund EXCEPT ![f] = [type |-> type, balance |-> opening]]
    /\ received' = received + opening
    /\ UNCHANGED <<desk, handover, bank>>

\* update() with a new type.  Entries stand for the imports of the fund.
UpdateFund(f, type) ==
    /\ Active(f)
    /\ type # fund[f].type
    /\ \A x \in Entries : entry[x].fund # f
    /\ HandoversUsing(f) = {}
    /\ ShiftsOpenOn({f}) = {}
    /\ fund' = [fund EXCEPT ![f].type = type]
    /\ UNCHANGED <<desk, handover, bank, received>>

RemoveFund(f) ==
    /\ Active(f)
    /\ fund[f].balance = 0
    /\ ShiftsOpenOn({f}) = {}
    /\ HandoversUsing(f) = {}
    /\ fund' = [fund EXCEPT ![f].type = "DELETED"]
    /\ UNCHANGED <<desk, handover, bank, received>>

-----------------------------------------------------------------------------
(* Handovers *)

\* Mutant: the destination's drawer may be open.
SourceHasNoOpenShift(source, destination) == ShiftsOpenOn({source}) = {}

\* A drawer in use must not change behind its cashier's back.
assertFundsHaveNoOpenShift(source, destination) ==
    ShiftsOpenOn(IF fund[destination].type = "CASH"
                 THEN {source, destination} ELSE {source}) = {}

\* create(), by the cashier; one pending or approved handover per shift.
RequestHandover(h, s, destination, retained) ==
    LET source == shift[s].fund
    IN  /\ handover[h].status = "NONE"
        /\ shift[s].status = "CLOSED"
        /\ fund[source].type = "CASH"
        /\ destination # source
        /\ Active(destination)
        /\ assertFundsHaveNoOpenShift(source, destination)
        /\ fund[source].balance = shift[s].actual
        /\ retained < shift[s].reported
        /\ \A g \in Handovers : handover[g].shift = s
                                 => handover[g].status \notin {"PENDING", "APPROVED"}
        /\ handover' = [handover EXCEPT ![h].status = "PENDING", ![h].shift = s,
                                        ![h].destination = destination,
                                        ![h].retained = retained]
        /\ UNCHANGED <<fund, desk, bank, received>>

\* approve() books the variance and the transfer on the source, and the
\* transfer on the destination unless a bank must confirm it first.
ApproveHandover(h, e) ==
    LET source == Source(h)
        destination == handover[h].destination
        requiresSettlement == fund[destination].type = "BANK"
    IN  /\ handover[h].status = "PENDING"
        /\ e # Requester(h)
        /\ fund[source].type = "CASH"
        /\ Active(destination)
        /\ assertFundsHaveNoOpenShift(source, destination)
        /\ fund[source].balance = Expected(h)
        /\ fund' = [fund EXCEPT ![source].balance = handover[h].retained,
                                ![destination].balance =
                                   IF requiresSettlement THEN @ ELSE @ + Transfer(h)]
        /\ received' = received + Counted(h) - Expected(h)
        /\ handover' = [handover EXCEPT ![h].status = "APPROVED",
                          ![h].settlement = IF requiresSettlement
                                            THEN "PENDING" ELSE "NOT_REQUIRED"]
        /\ UNCHANGED <<desk, bank>>

\* reject() by somebody else, cancel() by the requester.
DeclineHandover(h) ==
    /\ handover[h].status = "PENDING"
    /\ handover' = [handover EXCEPT ![h].status = "DECLINED"]
    /\ UNCHANGED <<fund, desk, bank, received>>

\* The index on the destination and its bank references.
ReferenceIsFree(h, reference) ==
    \A g \in Handovers \ {h} : ~(/\ handover[g].destination = handover[h].destination
                                /\ handover[g].reference = reference)

RegisterDeposit(h, reference) ==
    /\ AwaitingSettlement(h)
    /\ fund[handover[h].destination].type = "BANK"
    /\ handover[h].reference = NoReference
    /\ ReferenceIsFree(h, reference)
    /\ handover' = [handover EXCEPT ![h].reference = reference]
    /\ UNCHANGED <<fund, desk, bank, received>>

\* Mutant: the settlement status is not tested.
MaySettleApproved(h, e, reference) ==
    /\ handover[h].status = "APPROVED"
    /\ e # Requester(h)
    /\ fund[handover[h].destination].type = "BANK"
    /\ handover[h].reference \in {NoReference, reference}
    /\ ReferenceIsFree(h, reference)

\* The refusals of settleInTransaction.
MaySettle(h, e, reference) ==
    /\ AwaitingSettlement(h)
    /\ e # Requester(h)
    /\ fund[handover[h].destination].type = "BANK"
    /\ handover[h].reference \in {NoReference, reference}
    /\ ReferenceIsFree(h, reference)

SettleInTransaction(h, e, reference) ==
    /\ MaySettle(h, e, reference)
    /\ fund' = [fund EXCEPT ![handover[h].destination].balance = @ + Transfer(h)]
    /\ handover' = [handover EXCEPT ![h].settlement = "SETTLED",
                                    ![h].reference = reference]

Settle(h, e, reference) ==
    /\ SettleInTransaction(h, e, reference)
    /\ UNCHANGED <<desk, bank, received>>

-----------------------------------------------------------------------------
(* Bank statements.  An import of several entries is as many of one. *)

\* createImport finds the fund before its transaction ...
FindBankFund(f) ==
    /\ fund[f].type = "BANK"
    /\ checked' = checked \cup {f}
    /\ UNCHANGED <<fund, desk, handover, entry, doubtful, received>>

\* ... which inserts the entries, a debit as IGNORED, without looking again.
CreateImport(x, f, amount, reference, status) ==
    /\ f \in checked
    /\ entry[x].status = "NONE"
    /\ status \in {"UNMATCHED", "IGNORED"}
    /\ entry' = [entry EXCEPT ![x].status = status, ![x].fund = f,
                              ![x].amount = amount, ![x].reference = reference]
    /\ checked' = checked \ {f}
    /\ UNCHANGED <<fund, desk, handover, doubtful, received>>

\* The handovers reconcileEntry finds for x: one at most.
FoundFor(x) ==
    {h \in Handovers : /\ entry[x].reference # NoReference
                       /\ handover[h].destination = entry[x].fund
                       /\ handover[h].reference = entry[x].reference}

\* Mutant: whether another entry has the handover is not asked.
AmountAgrees(x, h) ==
    /\ Transfer(h) = entry[x].amount
    /\ handover[h].status = "APPROVED"
    /\ handover[h].settlement \in {"PENDING", "SETTLED"}

Agrees(x, h) ==
    /\ Transfer(h) = entry[x].amount
    /\ handover[h].status = "APPROVED"
    /\ handover[h].settlement \in {"PENDING", "SETTLED"}
    /\ \A y \in Entries \ {x} : entry[y].handover # h

MarkUnmatched(x) ==
    /\ entry[x].status \in Open
    /\ FoundFor(x) = {}
    /\ entry' = [entry EXCEPT ![x].status = "UNMATCHED"]
    /\ UNCHANGED <<fund, desk, handover, checked, doubtful, received>>

MarkMismatch(x, h) ==
    /\ entry[x].status \in Open
    /\ h \in FoundFor(x)
    /\ ~Agrees(x, h)
    /\ entry' = [entry EXCEPT ![x].status = "MISMATCH"]
    /\ UNCHANGED <<fund, desk, handover, checked, doubtful, received>>

Matched(x, h) == [entry EXCEPT ![x].status = "MATCHED", ![x].handover = h]

\* The deposit is settled and linked in one transaction, or already settled.
MatchEntry(x, h, e) ==
    /\ entry[x].status \in Open
    /\ h \in FoundFor(x)
    /\ Agrees(x, h)
    /\ IF handover[h].settlement = "PENDING"
       THEN SettleInTransaction(h, e, entry[x].reference)
       ELSE UNCHANGED <<fund, handover>>
    /\ entry' = Matched(x, h)
    /\ UNCHANGED <<desk, checked, doubtful, received>>

\* The settlement is refused, the transaction rolled back ...
SettlementRefused(x, h, e) ==
    /\ entry[x].status \in Open
    /\ h \in FoundFor(x)
    /\ Agrees(x, h)
    /\ handover[h].settlement = "PENDING"
    /\ ~MaySettle(h, e, entry[x].reference)
    /\ doubtful' = doubtful \cup {x}
    /\ UNCHANGED <<fund, desk, handover, entry, checked, received>>

\* ... and the entry marked for review afterwards, if it is still open.
MarkForReview(x) ==
    /\ x \in doubtful
    /\ entry' = IF entry[x].status \in Open
                THEN [entry EXCEPT ![x].status = "MISMATCH"] ELSE entry
    /\ doubtful' = doubtful \ {x}
    /\ UNCHANGED <<fund, desk, handover, checked, received>>

IgnoreEntry(x) ==
    /\ entry[x].status \in Open
    /\ entry' = [entry EXCEPT ![x].status = "IGNORED"]
    /\ UNCHANGED <<fund, desk, handover, checked, doubtful, received>>

-----------------------------------------------------------------------------

ShiftStep ==
    \E s \in Shifts :
        \/ \E e \in Employees, f \in Funds : OpenShift(s, e, f)
        \/ \E amount \in Amounts : AddIncome(s, amount)
        \/ \E amount \in Amounts : AddExpense(s, amount)
        \/ \E q \in Requests, amount \in Amounts : RequestExpense(q, s, amount)
        \/ \E reported \in 0 .. MaxCount : CloseShift(s, reported)

RequestStep ==
    \E q \in Requests :
        \/ \E e \in Employees : ApproveExpenseRequest(q, e)
        \/ ResolveExpenseRequest(q)

InvoiceStep ==
    \E i \in Invoices :
        \/ \E total \in Amounts : CreateInvoice(i, total)
        \/ \E s \in Shifts, method \in {"CASH", "CARD"} : UpdatePayment(i, s, method)
        \/ VoidInvoice(i)
        \/ \E s \in Shifts : CreateAttempt(i, s)
        \/ \E s \in Shifts : CompleteOnlinePayment(i, s)
        \/ \E s \in Shifts : AttemptFails(i, s)
        \/ \E s \in Shifts : AttemptConflicts(i, s)
        \/ \E s \in Shifts, amount \in Amounts : CashRefund(i, s, amount)

FundStep ==
    \E f \in Funds :
        \/ \E type \in FundTypes, opening \in {0} \cup Amounts : CreateFund(f, type, opening)
        \/ \E type \in FundTypes : UpdateFund(f, type)
        \/ RemoveFund(f)

HandoverStep ==
    \E h \in Handovers :
        \/ \E s \in Shifts, d \in Funds, retained \in 0 .. MaxCount :
              RequestHandover(h, s, d, retained)
        \/ \E e \in Employees : ApproveHandover(h, e)
        \/ DeclineHandover(h)
        \/ \E reference \in References : RegisterDeposit(h, reference)
        \/ \E e \in Employees, reference \in References : Settle(h, e, reference)

StatementStep ==
    \/ \E f \in Funds : FindBankFund(f)
    \/ \E x \in Entries :
        \/ \E f \in Funds, amount \in Amounts, status \in {"UNMATCHED", "IGNORED"},
              reference \in References \cup {NoReference} :
              CreateImport(x, f, amount, reference, status)
        \/ MarkUnmatched(x)
        \/ MarkForReview(x)
        \/ IgnoreEntry(x)
        \/ \E h \in Handovers : MarkMismatch(x, h)
        \/ \E h \in Handovers, e \in Employees : MatchEntry(x, h, e)
        \/ \E h \in Handovers, e \in Employees : SettlementRefused(x, h, e)

Next ==
    \/ ShiftStep
    \/ RequestStep
    \/ InvoiceStep
    \/ FundStep
    \/ HandoverStep
    \/ StatementStep

Spec == Init /\ [][Next]_vars

-----------------------------------------------------------------------------
(* Properties *)

\* The drawer of an open shift holds what calculateReconciliation expects in
\* it, and the figure stored when a shift closed stays what the rows of the
\* shift add up to, whatever is refunded, handed over or paid later.
DrawerMatchesBooks ==
    /\ TypeOK
    /\ \A s \in Shifts :
        /\ shift[s].status = "OPEN"
             => calculateReconciliation(s) = fund[shift[s].fund].balance
        /\ shift[s].status = "CLOSED"
             => calculateReconciliation(s) = shift[s].actual

\* While a handover is pending its source stays a CASH fund that no shift has
\* open and its destination exists; while a deposit is pending its destination
\* stays a BANK fund (the guards of open, update and remove).
HandoverFundsHold ==
    \A h \in Handovers :
        /\ handover[h].status = "PENDING" =>
             /\ fund[Source(h)].type = "CASH"
             /\ ShiftsOpenOn({Source(h)}) = {}
             /\ Active(handover[h].destination)
        /\ AwaitingSettlement(h) => fund[handover[h].destination].type = "BANK"

\* Handovers neither create nor lose money: what the funds hold, and what is
\* on its way to a bank, is what came in from outside, with the variances
\* approve() books, and the funds of a handover stay fit for it.
MoneyConserved ==
    /\ HandoverFundsHold
    /\ LET awaiting == {h \in Handovers : AwaitingSettlement(h)}
       IN  received = Total([f \in Funds |-> fund[f].balance], Funds)
                        + Total([h \in awaiting |-> Transfer(h)], awaiting)

\* A matched statement entry is the confirmation of one settled handover into
\* its fund, of the same amount and reference, and of no other entry.
StatementsMatchSettlements ==
    \A x \in Entries : entry[x].status = "MATCHED" =>
        LET h == entry[x].handover
        IN  /\ h \in Handovers
            /\ handover[h].settlement = "SETTLED"
            /\ handover[h].destination = entry[x].fund
            /\ handover[h].reference = entry[x].reference
            /\ Transfer(h) = entry[x].amount
            /\ \A y \in Entries \ {x} : entry[y].handover # h

\* The sales of a closed shift stay, and one is added only when the provider
\* confirms an attempt it had reported as failed before the shift was closed
\* (close() refuses while an attempt of the shift is unresolved).
ClosedShiftFinal ==
    [][\A s \in Shifts : shift[s].status = "CLOSED" =>
          /\ PaidOn(s) \subseteq PaidOn(s)'
          /\ \A i \in PaidOn(s)' \ PaidOn(s) : s \in invoice[i].failed]_vars
=============================================================================
