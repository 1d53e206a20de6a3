--------------------------- MODULE CashDeskProofs ---------------------------
(***************************************************************************)
(* Proofs about shifts, their drawers, funds, handovers and statements,    *)
(* for any number of each and for any amounts.                             *)
(*                                                                         *)
(* The books of a drawer are four columns, two of them sums over invoices. *)
(* They are compared with a fund that other rows also refer to, so that    *)
(* the invariant has to say who may touch it: an open shift has its CASH   *)
(* fund to itself, a pending handover forbids a shift on its source, and a *)
(* deposit on its way goes to a BANK fund.  The money on its way is a sum  *)
(* over handovers, each worth what its closed shift counted less what was  *)
(* retained.                                                               *)
(***************************************************************************)
EXTENDS CashDesk, SumTheorems

\* A shift and its fund.
ShiftOK(row, fnd) ==
    /\ row.status = "OPEN" => row.fund \in Funds /\ fnd[row.fund].type = "CASH"
    /\ row.status = "CLOSED" => row.fund \in Funds
    /\ row.status = "NONE" => row.manual = 0

\* No two open shifts share a drawer.
OneDrawer(shf) ==
    \A s, t \in Shifts : shf[s].status = "OPEN" /\ shf[t].status = "OPEN"
                           /\ shf[s].fund = shf[t].fund => s = t

\* An invoice, its refunds and the shifts they were booked on.
InvoiceOK(row, shf) ==
    /\ row.status \in PaidStatus /\ row.method = "CASH" =>
         row.shift \in Shifts /\ shf[row.shift].status # "NONE"
    /\ row.status = "UNPAID" => \A s \in row.unresolved : shf[s].status = "OPEN"
    /\ row.status = "NONE" => row.unresolved = {} /\ row.failed = {}
RefundOK(row, shf) == \A s \in Shifts : row[s] # 0 => shf[s].status # "NONE"

RequestOK(row) == row.status = "PENDING" => row.shift \in Shifts

\* What an invoice put into the drawer of s, and the books of s.
Cash(row, s) ==
    IF row.shift = s /\ row.status \in PaidStatus /\ row.method = "CASH" THEN row.total ELSE 0
Takings(inv, s) == Total([i \in Invoices |-> Cash(inv[i], s)], Invoices)
Refunds(ref, s) == Total([i \in Invoices |-> ref[i][s]], Invoices)
Books(row, inv, ref, s) == row.expected + Takings(inv, s) + row.manual - Refunds(ref, s)

DrawerOK(s, fnd, shf, inv, ref) ==
    /\ shf[s].status = "OPEN" => Books(shf[s], inv, ref, s) = fnd[shf[s].fund].balance
    /\ shf[s].status = "CLOSED" => Books(shf[s], inv, ref, s) = shf[s].actual

Desk ==
    /\ \A s \in Shifts : ShiftOK(shift[s], fund) /\ DrawerOK(s, fund, shift, invoice, refunded)
    /\ OneDrawer(shift)
    /\ \A i \in Invoices : InvoiceOK(invoice[i], shift) /\ RefundOK(refunded[i], shift)
    /\ \A q \in Requests : RequestOK(request[q])

\* A handover, its closed shift and the funds it moves money between.
HandoverOK(row, shf) ==
    /\ row.status \in {"PENDING", "APPROVED"} =>
         /\ row.shift \in Shifts /\ shf[row.shift].status = "CLOSED"
         /\ row.destination \in Funds /\ row.destination # shf[row.shift].fund
         /\ row.retained <= shf[row.shift].reported
    /\ row.settlement # "NOT_REQUIRED" => row.status = "APPROVED"
HandoverFunds(row, shf, fnd) ==
    /\ row.status = "PENDING" =>
         /\ fnd[shf[row.shift].fund].type = "CASH"
         /\ \A s \in Shifts : shf[s].status = "OPEN" => shf[s].fund # shf[row.shift].fund
         /\ fnd[row.destination].type \in FundTypes
    /\ row.status = "APPROVED" /\ row.settlement = "PENDING" =>
         fnd[row.destination].type = "BANK"

\* Money in the funds and on its way to a bank.
Due(row, shf) ==
    IF row.status = "APPROVED" /\ row.settlement = "PENDING"
    THEN shf[row.shift].reported - row.retained ELSE 0
FundsTotal(fnd) == Total([f \in Funds |-> fnd[f].balance], Funds)
DueTotal(han, shf) == Total([h \in Handovers |-> Due(han[h], shf)], Handovers)

Moves ==
    /\ \A h \in Handovers : HandoverOK(handover[h], shift) /\ HandoverFunds(handover[h], shift, fund)
    /\ \A f \in Funds : fund[f].type = "NONE" => fund[f].balance = 0
    /\ received = FundsTotal(fund) + DueTotal(handover, shift)

\* An entry that was matched and its handover.
MatchOK(x, ent, han, shf) ==
    ent[x].status = "MATCHED" =>
        /\ ent[x].handover \in Handovers
        /\ \A h \in Handovers : ent[x].handover = h =>
             /\ han[h].settlement = "SETTLED"
             /\ han[h].destination = ent[x].fund
             /\ han[h].reference = ent[x].reference
             /\ shf[han[h].shift].reported - han[h].retained = ent[x].amount
        /\ \A y \in Entries \ {x} : ent[y].handover # ent[x].handover

Statements == \A x \in Entries : MatchOK(x, entry, handover, shift)

Inv == TypeOK /\ Desk /\ Moves /\ Statements

-----------------------------------------------------------------------------
(* Sums of money.                                                          *)

\* Amounts are whole numbers.
LEMMA AmountNat == \A a \in {0} \cup Amounts : a \in Nat
<1>1. Amounts \subseteq Nat
  BY CashDeskConstants
<1>. QED BY <1>1

\* The books as calculateReconciliation adds them up.
LEMMA BooksAre ==
  ASSUME TypeOK, NEW s \in Shifts
  PROVE  /\ calculateReconciliation(s) = Books(shift[s], invoice, refunded, s)
         /\ Takings(invoice, s) \in Int /\ Refunds(refunded, s) \in Int
<1> DEFINE f == [i \in Invoices |-> invoice[i].total]
           g == [i \in Invoices |-> Cash(invoice[i], s)]
           r == [i \in Invoices |-> refunded[i][s]]
           S == {i \in PaidOn(s) : invoice[i].method = "CASH"}
<1>1. \A i \in Invoices : invoice[i].total \in Int /\ refunded[i][s] \in Int
  <2>1. \A i \in Invoices : invoice[i].total \in {0} \cup Amounts /\ refunded[i][s] \in Nat
    BY DEF TypeOK, Invoice
  <2>2. \A i \in Invoices : invoice[i].total \in Nat
    BY <2>1, AmountNat
  <2>. QED BY <2>1, <2>2
<1>2. S \in SUBSET Invoices
  BY DEF PaidOn
<1>3. /\ \A i \in S : f[i] \in Int /\ g[i] = f[i]
      /\ \A i \in Invoices \ S : g[i] = 0
      /\ \A i \in Invoices : g[i] \in Int /\ r[i] \in Int
  BY <1>1 DEF PaidOn, Cash
<1>4. calculateReconciliation(s) = shift[s].expected + Total(f, S) + shift[s].manual - Total(r, Invoices)
  BY DEF calculateReconciliation
<1>5. Takings(invoice, s) = Total(g, Invoices) /\ Refunds(refunded, s) = Total(r, Invoices)
  BY DEF Takings, Refunds
<1> HIDE DEF f, g, r, S
<1>6. Total(g, Invoices) = Total(f, S)
  BY <1>2, <1>3, CashDeskConstants, TotalMask
<1>7. Total(g, Invoices) \in Int /\ Total(r, Invoices) \in Int
  BY <1>3, CashDeskConstants, TotalType
<1>. QED BY <1>4, <1>5, <1>6, <1>7 DEF Books

\* Columns that stay the same add up to the same.
LEMMA BooksSame ==
  ASSUME NEW inv, NEW new, NEW ref, NEW nref, NEW s
  PROVE  /\ (\A i \in Invoices : Cash(new[i], s) = Cash(inv[i], s)) =>
              Takings(new, s) = Takings(inv, s)
         /\ (\A i \in Invoices : nref[i][s] = ref[i][s]) => Refunds(nref, s) = Refunds(ref, s)
<1>1. ASSUME \A i \in Invoices : Cash(new[i], s) = Cash(inv[i], s)
      PROVE  Takings(new, s) = Takings(inv, s)
  <2>1. [i \in Invoices |-> Cash(new[i], s)] = [i \in Invoices |-> Cash(inv[i], s)]
    BY <1>1
  <2>. QED BY <2>1 DEF Takings
<1>2. ASSUME \A i \in Invoices : nref[i][s] = ref[i][s]
      PROVE  Refunds(nref, s) = Refunds(ref, s)
  <2>1. [i \in Invoices |-> nref[i][s]] = [i \in Invoices |-> ref[i][s]]
    BY <1>2
  <2>. QED BY <2>1 DEF Refunds
<1>. QED BY <1>1, <1>2

\* What one invoice adds to the drawer.
LEMMA CashNat ==
  ASSUME NEW row \in Invoice, NEW s PROVE Cash(row, s) \in Nat
<1>1. row.total \in {0} \cup Amounts
  BY DEF Invoice
<1>. QED BY <1>1, AmountNat DEF Cash

\* The takings when one invoice changes.
LEMMA TakingsChange ==
  ASSUME NEW inv \in [Invoices -> Invoice], NEW i \in Invoices, NEW row \in Invoice, NEW s
  PROVE  Takings([inv EXCEPT ![i] = row], s) = Takings(inv, s) - Cash(inv[i], s) + Cash(row, s)
<1> DEFINE new == [inv EXCEPT ![i] = row]
           f == [j \in Invoices |-> Cash(inv[j], s)]
           g == [j \in Invoices |-> Cash(new[j], s)]
<1>1. new \in [Invoices -> Invoice] /\ new[i] = row /\ \A j \in Invoices \ {i} : new[j] = inv[j]
  OBVIOUS
<1> HIDE DEF new
<1>2. /\ \A j \in Invoices : f[j] \in Int /\ g[j] \in Int
      /\ \A j \in Invoices \ {i} : f[j] = g[j]
      /\ f[i] = Cash(inv[i], s) /\ g[i] = Cash(row, s)
  BY <1>1, CashNat
<1>3. Takings(inv, s) = Total(f, Invoices) /\ Takings(new, s) = Total(g, Invoices)
  BY DEF Takings
<1> HIDE DEF f, g
<1>4. Total(g, Invoices) = Total(f, Invoices) - f[i] + g[i]
  BY <1>2, CashDeskConstants, TotalChange
<1>. QED BY <1>2, <1>3, <1>4 DEF new

\* The refunds of a shift when one more is paid out.
LEMMA RefundsChange ==
  ASSUME NEW ref \in [Invoices -> [Shifts -> Nat]], NEW new \in [Invoices -> [Shifts -> Nat]],
         NEW i \in Invoices, NEW s \in Shifts, NEW amount \in Nat,
         new[i][s] = ref[i][s] + amount, \A j \in Invoices \ {i} : new[j][s] = ref[j][s]
  PROVE  Refunds(new, s) = Refunds(ref, s) + amount
<1> DEFINE f == [j \in Invoices |-> ref[j][s]]
           g == [j \in Invoices |-> new[j][s]]
<1>1. /\ \A j \in Invoices : f[j] \in Int /\ g[j] \in Int
      /\ \A j \in Invoices \ {i} : f[j] = g[j]
      /\ g[i] = f[i] + amount
  OBVIOUS
<1>2. Refunds(ref, s) = Total(f, Invoices) /\ Refunds(new, s) = Total(g, Invoices)
  BY DEF Refunds
<1> HIDE DEF f, g
<1>3. Total(g, Invoices) = Total(f, Invoices) - f[i] + g[i]
  <2>1. i \in Invoices /\ IsFiniteSet(Invoices)
    BY CashDeskConstants
  <2>. QED BY ONLY <1>1, <2>1, TotalChange
<1>4. Total(f, Invoices) \in Int
  BY <1>1, CashDeskConstants, TotalType
<1>. QED BY <1>1, <1>2, <1>3, <1>4

\* A booking on a fund.
Booked(fnd, f, amount) == [fnd EXCEPT ![f].balance = @ + amount]

\* A booking changes the balance of one fund, and the money in all of them.
LEMMA BookedFund ==
  ASSUME NEW fnd \in [Funds -> Fund], NEW f \in Funds, NEW amount \in Int,
         fnd[f].balance + amount \in Nat
  PROVE  LET new == Booked(fnd, f, amount)
         IN  /\ new \in [Funds -> Fund]
             /\ new[f].balance = fnd[f].balance + amount
             /\ \A g \in Funds : new[g].type = fnd[g].type
             /\ \A g \in Funds \ {f} : new[g].balance = fnd[g].balance
             /\ FundsTotal(new) = FundsTotal(fnd) + amount
             /\ FundsTotal(fnd) \in Int
<1> DEFINE new == Booked(fnd, f, amount)
           b == [g \in Funds |-> fnd[g].balance]
           c == [g \in Funds |-> new[g].balance]
<1>1. /\ new \in [Funds -> Fund] /\ new[f].balance = fnd[f].balance + amount
      /\ \A g \in Funds : new[g].type = fnd[g].type
      /\ \A g \in Funds \ {f} : new[g].balance = fnd[g].balance
  BY DEF Booked, Fund
<1> HIDE DEF new
<1>2. \A g \in Funds : fnd[g].balance \in Nat /\ new[g].balance \in Nat
  BY <1>1 DEF Fund
<1>3. /\ \A g \in Funds : b[g] \in Int /\ c[g] \in Int
      /\ \A g \in Funds \ {f} : b[g] = c[g]
      /\ c[f] = b[f] + amount
  BY <1>1, <1>2
<1>4. FundsTotal(fnd) = Total(b, Funds) /\ FundsTotal(new) = Total(c, Funds)
  BY DEF FundsTotal
<1> HIDE DEF b, c
<1>5. Total(c, Funds) = Total(b, Funds) - b[f] + c[f]
  BY <1>3, CashDeskConstants, TotalChange
<1>6. Total(b, Funds) \in Int
  BY <1>3, CashDeskConstants, TotalType
<1>7. FundsTotal(new) = FundsTotal(fnd) + amount /\ FundsTotal(fnd) \in Int
  BY <1>3, <1>4, <1>5, <1>6
<1>. QED BY <1>1, <1>7 DEF new

\* The balances alone make up the money in the funds.
LEMMA FundsSame ==
  ASSUME NEW fnd, NEW new, \A f \in Funds : new[f].balance = fnd[f].balance
  PROVE  FundsTotal(new) = FundsTotal(fnd)
<1>1. [f \in Funds |-> new[f].balance] = [f \in Funds |-> fnd[f].balance]
  OBVIOUS
<1>. QED BY <1>1 DEF FundsTotal

\* The money on its way, when every handover is worth what it was.
LEMMA DueSame ==
  ASSUME NEW han, NEW shf, NEW nhan, NEW nshf,
         \A h \in Handovers : Due(nhan[h], nshf) = Due(han[h], shf)
  PROVE  DueTotal(nhan, nshf) = DueTotal(han, shf)
<1>1. [h \in Handovers |-> Due(nhan[h], nshf)] = [h \in Handovers |-> Due(han[h], shf)]
  OBVIOUS
<1>. QED BY <1>1 DEF DueTotal

\* A handover is worth a whole number.
LEMMA DueNat ==
  ASSUME NEW row \in CashHandover, NEW shf \in [Shifts -> CashierShift], HandoverOK(row, shf)
  PROVE  Due(row, shf) \in Nat
<1>1. row.status = "APPROVED" => /\ shf[row.shift].reported \in Nat /\ row.retained \in Nat
                                 /\ row.retained <= shf[row.shift].reported
  BY DEF HandoverOK, CashierShift, CashHandover
<1>. QED BY <1>1 DEF Due

\* The money on its way when one handover changes.
LEMMA DueChange ==
  ASSUME NEW han \in [Handovers -> CashHandover], NEW shf \in [Shifts -> CashierShift],
         \A g \in Handovers : HandoverOK(han[g], shf),
         NEW h \in Handovers, NEW row \in CashHandover, HandoverOK(row, shf)
  PROVE  /\ DueTotal([han EXCEPT ![h] = row], shf)
              = DueTotal(han, shf) - Due(han[h], shf) + Due(row, shf)
         /\ DueTotal(han, shf) \in Int
<1> DEFINE new == [han EXCEPT ![h] = row]
           f == [g \in Handovers |-> Due(han[g], shf)]
           k == [g \in Handovers |-> Due(new[g], shf)]
<1>1. new[h] = row /\ \A g \in Handovers \ {h} : new[g] = han[g]
  OBVIOUS
<1> HIDE DEF new
<1>2. \A g \in Handovers : Due(han[g], shf) \in Nat
  BY DueNat
<1>3. Due(row, shf) \in Nat
  BY DueNat
<1>4. /\ \A g \in Handovers : f[g] \in Int /\ k[g] \in Int
      /\ \A g \in Handovers \ {h} : f[g] = k[g]
      /\ f[h] = Due(han[h], shf) /\ k[h] = Due(row, shf)
  BY <1>1, <1>2, <1>3
<1>5. DueTotal(han, shf) = Total(f, Handovers) /\ DueTotal(new, shf) = Total(k, Handovers)
  BY DEF DueTotal
<1> HIDE DEF f, k
<1>6. Total(k, Handovers) = Total(f, Handovers) - f[h] + k[h]
  BY <1>4, CashDeskConstants, TotalChange
<1>7. Total(f, Handovers) \in Int
  BY <1>4, CashDeskConstants, TotalType
<1>. QED BY <1>4, <1>5, <1>6, <1>7 DEF new

-----------------------------------------------------------------------------
(* Steps.                                                                  *)

\* The first state.
LEMMA InitInv == Init => Inv
<1> SUFFICES ASSUME Init PROVE Inv
  OBVIOUS
<1>1. TypeOK
  BY CashDeskConstants DEF Init, TypeOK, Fund, CashierShift, Invoice, CashExpenseRequest,
     CashHandover, BankStatementEntry, RequestStatus, Open, PaidStatus
<1>2. Desk
  BY DEF Init, Desk, ShiftOK, DrawerOK, OneDrawer, InvoiceOK, RefundOK, RequestOK, PaidStatus
<1>3. Moves
  <2> DEFINE b == [f \in Funds |-> fund[f].balance]
             d == [h \in Handovers |-> Due(handover[h], shift)]
  <2>1. (\A f \in Funds : b[f] = 0) /\ (\A h \in Handovers : d[h] = 0) /\ received = 0
    BY DEF Init, Due
  <2>2. FundsTotal(fund) = Total(b, Funds) /\ DueTotal(handover, shift) = Total(d, Handovers)
    BY DEF FundsTotal, DueTotal
  <2> HIDE DEF b, d
  <2>3. Total(b, Funds) = 0 /\ Total(d, Handovers) = 0
    BY <2>1, CashDeskConstants, TotalZero
  <2>4. \A h \in Handovers : HandoverOK(handover[h], shift) /\ HandoverFunds(handover[h], shift, fund)
    BY DEF Init, HandoverOK, HandoverFunds
  <2>5. \A f \in Funds : fund[f].balance = 0
    BY DEF Init
  <2>. QED BY <2>1, <2>2, <2>3, <2>4, <2>5 DEF Moves
<1>4. Statements
  BY DEF Init, Statements, MatchOK
<1>. QED BY <1>1, <1>2, <1>3, <1>4 DEF Inv

\* Steps on one statement entry that match nothing.
LEMMA EntryInv ==
  ASSUME Inv, NEW x \in Entries, NEW row \in BankStatementEntry, row.status # "MATCHED",
         row.handover = entry[x].handover, entry' = [entry EXCEPT ![x] = row],
         checked' \subseteq Funds, doubtful' \subseteq Entries,
         UNCHANGED <<fund, desk, handover, received>>
  PROVE  Inv'
<1>1. UNCHANGED <<fund, shift, invoice, refunded, request, handover, received>>
  BY DEF desk
<1>2. /\ entry' \in [Entries -> BankStatementEntry] /\ entry'[x] = row
      /\ \A y \in Entries \ {x} : entry'[y] = entry[y]
  BY DEF Inv, TypeOK
<1>3. TypeOK'
  BY <1>1, <1>2 DEF Inv, TypeOK
<1>4. Desk' /\ Moves'
  BY <1>1 DEF Inv, Desk, Moves
<1>5. Statements'
  BY <1>1, <1>2 DEF Inv, Statements, MatchOK
<1>. QED BY <1>3, <1>4, <1>5 DEF Inv

\* createImport, and what reconcileEntry and ignoreEntry do to an entry that
\* they do not match.
LEMMA StatementInv ==
  ASSUME Inv,
         \/ \E f \in Funds : FindBankFund(f)
         \/ \E x \in Entries :
              \/ \E f \in Funds, amount \in Amounts, status \in {"UNMATCHED", "IGNORED"},
                    reference \in References \cup {NoReference} :
                    CreateImport(x, f, amount, reference, status)
              \/ MarkUnmatched(x) \/ MarkForReview(x) \/ IgnoreEntry(x)
              \/ \E h \in Handovers : MarkMismatch(x, h)
              \/ \E h \in Handovers, e \in Employees : SettlementRefused(x, h, e)
  PROVE  Inv'
<1>0. entry \in [Entries -> BankStatementEntry] /\ checked \subseteq Funds /\ doubtful \subseteq Entries
  BY DEF Inv, TypeOK
<1>1. CASE /\ UNCHANGED <<fund, desk, handover, entry, received>>
           /\ checked' \subseteq Funds /\ doubtful' \subseteq Entries
  <2>1. UNCHANGED <<fund, shift, invoice, refunded, request, handover, entry, received>>
    BY <1>1 DEF desk
  <2>2. TypeOK' /\ Desk' /\ Moves' /\ Statements'
    BY <1>1, <2>1 DEF Inv, TypeOK, Desk, Moves, Statements
  <2>. QED BY <2>2 DEF Inv
<1>2. ASSUME NEW x \in Entries, NEW st \in {"UNMATCHED", "IGNORED", "MISMATCH"},
             entry' = [entry EXCEPT ![x].status = st], UNCHANGED checked,
             doubtful' \subseteq Entries, UNCHANGED <<fund, desk, handover, received>>
      PROVE  Inv'
  <2> DEFINE row == [entry[x] EXCEPT !.status = st]
  <2>1. entry' = [entry EXCEPT ![x] = row]
    BY <1>2
  <2>2. row \in BankStatementEntry /\ row.status = st /\ row.handover = entry[x].handover
    BY <1>0 DEF BankStatementEntry, Open
  <2> HIDE DEF row
  <2>. QED BY <1>0, <1>2, <2>1, <2>2, EntryInv
<1>3. ASSUME NEW x \in Entries, NEW f \in Funds, NEW amount \in Amounts,
             NEW status \in {"UNMATCHED", "IGNORED"},
             NEW reference \in References \cup {NoReference},
             CreateImport(x, f, amount, reference, status)
      PROVE  Inv'
  <2> DEFINE row == [entry[x] EXCEPT !.status = status, !.fund = f, !.amount = amount,
                                     !.reference = reference]
  <2>1. /\ entry' = [entry EXCEPT ![x] = row] /\ checked' \subseteq Funds
        /\ doubtful' \subseteq Entries /\ UNCHANGED <<fund, desk, handover, received>>
    BY <1>0, <1>3 DEF CreateImport
  <2>2. row \in BankStatementEntry /\ row.status = status /\ row.handover = entry[x].handover
    BY <1>0 DEF BankStatementEntry, Open
  <2> HIDE DEF row
  <2>3. row.status # "MATCHED"
    BY <2>2
  <2>. QED BY <2>1, <2>2, <2>3, EntryInv
<1>4. ASSUME NEW f \in Funds, FindBankFund(f) PROVE Inv'
  BY <1>0, <1>1, <1>4 DEF FindBankFund
<1>5. ASSUME NEW x \in Entries, MarkUnmatched(x) \/ IgnoreEntry(x) PROVE Inv'
  BY <1>0, <1>2, <1>5 DEF MarkUnmatched, IgnoreEntry
<1>6. ASSUME NEW x \in Entries, MarkForReview(x) PROVE Inv'
  <2>1. /\ UNCHANGED <<fund, desk, handover, checked, received>> /\ doubtful' \subseteq Entries
        /\ entry' = [entry EXCEPT ![x].status = "MISMATCH"] \/ entry' = entry
    BY <1>0, <1>6 DEF MarkForReview
  <2>. QED BY <1>0, <1>1, <1>2, <2>1
<1>7. ASSUME NEW x \in Entries, NEW h \in Handovers, MarkMismatch(x, h) PROVE Inv'
  BY <1>0, <1>2, <1>7 DEF MarkMismatch
<1>8. ASSUME NEW x \in Entries, NEW h \in Handovers, NEW e \in Employees,
             SettlementRefused(x, h, e)
      PROVE  Inv'
  BY <1>0, <1>1, <1>8 DEF SettlementRefused
<1>. QED BY <1>3, <1>4, <1>5, <1>6, <1>7, <1>8

\* Steps on a handover that move no money.
LEMMA HandoverInv ==
  ASSUME Inv, NEW h \in Handovers, NEW row \in CashHandover, HandoverOK(row, shift),
         HandoverFunds(row, shift, fund), handover[h].settlement # "SETTLED",
         handover' = [handover EXCEPT ![h] = row], Due(row, shift) = Due(handover[h], shift),
         UNCHANGED <<fund, desk, bank, received>>
  PROVE  Inv'
<1>1. UNCHANGED <<fund, shift, invoice, refunded, request, entry, checked, doubtful, received>>
  BY DEF desk, bank
<1>2. /\ handover' \in [Handovers -> CashHandover] /\ handover'[h] = row
      /\ \A g \in Handovers \ {h} : handover'[g] = handover[g]
  BY DEF Inv, TypeOK
<1>3. TypeOK'
  BY <1>1, <1>2 DEF Inv, TypeOK
<1>4. Desk'
  BY <1>1 DEF Inv, Desk
<1>5. DueTotal(handover', shift') = DueTotal(handover, shift)
  <2>1. shift' = shift
    BY <1>1
  <2>2. \A g \in Handovers : Due(handover'[g], shift) = Due(handover[g], shift)
    BY <1>2
  <2>3. DueTotal(handover', shift) = DueTotal(handover, shift)
    BY ONLY <2>2, DueSame
  <2>. QED BY <2>1, <2>3
<1>6. Moves'
  BY <1>1, <1>2, <1>5 DEF Inv, Moves, FundsTotal, DueTotal
<1>7. Statements'
  BY <1>1, <1>2 DEF Inv, Statements, MatchOK
<1>. QED BY <1>3, <1>4, <1>6, <1>7 DEF Inv

\* Requests, refusals and deposits of handovers.
LEMMA HandoverStepsInv ==
  ASSUME Inv, NEW h \in Handovers,
         \/ \E s \in Shifts, d \in Funds, retained \in 0 .. MaxCount :
              RequestHandover(h, s, d, retained)
         \/ DeclineHandover(h)
         \/ \E reference \in References : RegisterDeposit(h, reference)
  PROVE  Inv'
<1>0. /\ handover \in [Handovers -> CashHandover] /\ shift \in [Shifts -> CashierShift]
      /\ HandoverOK(handover[h], shift) /\ HandoverFunds(handover[h], shift, fund)
      /\ \A s \in Shifts : ShiftOK(shift[s], fund)
  BY DEF Inv, TypeOK, Moves, Desk
<1>1. ASSUME NEW s \in Shifts, NEW d \in Funds, NEW retained \in 0 .. MaxCount,
             RequestHandover(h, s, d, retained)
      PROVE  Inv'
  <2> DEFINE row == [handover[h] EXCEPT !.status = "PENDING", !.shift = s,
                                        !.destination = d, !.retained = retained]
  <2>1. /\ handover[h].status = "NONE" /\ shift[s].status = "CLOSED"
        /\ fund[shift[s].fund].type = "CASH" /\ d # shift[s].fund /\ fund[d].type \in FundTypes
        /\ assertFundsHaveNoOpenShift(shift[s].fund, d) /\ retained < shift[s].reported
        /\ handover' = [handover EXCEPT ![h] = row]
        /\ UNCHANGED <<fund, desk, bank, received>>
    BY <1>1 DEF RequestHandover, Active
  <2>2. retained \in Nat /\ shift[s].reported \in Nat
    BY <1>0, CashDeskConstants DEF CashierShift
  <2>3. /\ row \in CashHandover /\ row.status = "PENDING" /\ row.shift = s
        /\ row.destination = d /\ row.retained = retained
        /\ row.settlement = handover[h].settlement
    BY <1>0, <2>2 DEF CashHandover, RequestStatus
  <2> HIDE DEF row
  <2>4. handover[h].settlement = "NOT_REQUIRED"
    BY <1>0, <2>1 DEF HandoverOK
  <2>5. HandoverOK(row, shift)
    BY <2>1, <2>2, <2>3, <2>4 DEF HandoverOK
  <2>6. \A o \in Shifts : shift[o].status = "OPEN" => shift[o].fund # shift[s].fund
    BY <2>1 DEF assertFundsHaveNoOpenShift, ShiftsOpenOn
  <2>7. HandoverFunds(row, shift, fund)
    BY <2>1, <2>3, <2>6 DEF HandoverFunds
  <2>8. Due(row, shift) = Due(handover[h], shift)
    BY <2>1, <2>3 DEF Due
  <2>. QED BY <2>1, <2>3, <2>4, <2>5, <2>7, <2>8, HandoverInv
<1>2. ASSUME DeclineHandover(h) PROVE Inv'
  <2> DEFINE row == [handover[h] EXCEPT !.status = "DECLINED"]
  <2>1. /\ handover[h].status = "PENDING" /\ handover' = [handover EXCEPT ![h] = row]
        /\ UNCHANGED <<fund, desk, bank, received>>
    BY <1>2 DEF DeclineHandover
  <2>3. /\ row \in CashHandover /\ row.status = "DECLINED"
        /\ row.settlement = handover[h].settlement
    BY <1>0 DEF CashHandover, RequestStatus
  <2> HIDE DEF row
  <2>4. handover[h].settlement = "NOT_REQUIRED"
    BY <1>0, <2>1 DEF HandoverOK
  <2>5. HandoverOK(row, shift) /\ HandoverFunds(row, shift, fund)
    BY <2>3, <2>4 DEF HandoverOK, HandoverFunds
  <2>6. Due(row, shift) = Due(handover[h], shift)
    BY <2>1, <2>3 DEF Due
  <2>. QED BY <2>1, <2>3, <2>4, <2>5, <2>6, HandoverInv
<1>3. ASSUME NEW reference \in References, RegisterDeposit(h, reference) PROVE Inv'
  <2> DEFINE row == [handover[h] EXCEPT !.reference = reference]
  <2>1. /\ handover[h].settlement = "PENDING" /\ handover' = [handover EXCEPT ![h] = row]
        /\ UNCHANGED <<fund, desk, bank, received>>
    BY <1>3 DEF RegisterDeposit, AwaitingSettlement
  <2>2. /\ row \in CashHandover /\ row.status = handover[h].status
        /\ row.settlement = handover[h].settlement /\ row.shift = handover[h].shift
        /\ row.destination = handover[h].destination /\ row.retained = handover[h].retained
    BY <1>0 DEF CashHandover
  <2> HIDE DEF row
  <2>3. HandoverOK(row, shift) /\ HandoverFunds(row, shift, fund)
    BY <1>0, <2>2 DEF HandoverOK, HandoverFunds
  <2>4. Due(row, shift) = Due(handover[h], shift)
    BY <2>2 DEF Due
  <2>5. handover[h].settlement # "SETTLED"
    BY <2>1
  <2>. QED BY <2>1, <2>2, <2>3, <2>4, <2>5, HandoverInv
<1>. QED BY <1>1, <1>2, <1>3

\* The desk does not notice what happens to funds that no shift has open.
LEMMA DeskKept ==
  ASSUME Inv, UNCHANGED desk,
         \A s \in Shifts : shift[s].status = "OPEN" =>
           fund'[shift[s].fund].type = "CASH"
             /\ fund'[shift[s].fund].balance = fund[shift[s].fund].balance
  PROVE  Desk'
<1>1. UNCHANGED <<shift, invoice, refunded, request>>
  BY DEF desk
<1>2. \A s \in Shifts : ShiftOK(shift[s], fund')
  BY DEF Inv, Desk, ShiftOK
<1>3. \A s \in Shifts : DrawerOK(s, fund', shift, invoice, refunded)
  BY DEF Inv, Desk, DrawerOK
<1>. QED BY <1>1, <1>2, <1>3 DEF Inv, Desk

\* Steps on one fund that no shift has open and no handover relies on.
LEMMA FundInv ==
  ASSUME Inv, NEW f \in Funds, NEW row \in Fund, row.type # "NONE",
         fund' = [fund EXCEPT ![f] = row],
         received' = received - fund[f].balance + row.balance,
         \A s \in Shifts : shift[s].status = "OPEN" => shift[s].fund # f,
         \A h \in Handovers :
           /\ handover[h].status = "PENDING" =>
                f # shift[handover[h].shift].fund /\ f # handover[h].destination
           /\ handover[h].settlement = "PENDING" => f # handover[h].destination,
         UNCHANGED <<desk, handover, bank>>
  PROVE  Inv'
<1>1. /\ UNCHANGED <<shift, invoice, refunded, request, handover, entry, checked, doubtful>>
      /\ UNCHANGED desk
  BY DEF desk, bank
<1>2. /\ fund \in [Funds -> Fund] /\ fund' \in [Funds -> Fund] /\ fund'[f] = row
      /\ \A g \in Funds \ {f} : fund'[g] = fund[g]
  BY DEF Inv, TypeOK
<1>3. FundsTotal(fund') = FundsTotal(fund) - fund[f].balance + row.balance
  <2> DEFINE b == [g \in Funds |-> fund[g].balance]
             c == [g \in Funds |-> fund'[g].balance]
  <2>1. \A g \in Funds : fund[g].balance \in Nat /\ fund'[g].balance \in Nat
    BY <1>2 DEF Fund
  <2>2. /\ \A g \in Funds : b[g] \in Int /\ c[g] \in Int
        /\ \A g \in Funds \ {f} : b[g] = c[g]
        /\ b[f] = fund[f].balance /\ c[f] = row.balance
    BY <1>2, <2>1
  <2>3. FundsTotal(fund) = Total(b, Funds) /\ FundsTotal(fund') = Total(c, Funds)
    BY DEF FundsTotal
  <2> HIDE DEF b, c
  <2>4. Total(c, Funds) = Total(b, Funds) - b[f] + c[f]
    BY <2>2, CashDeskConstants, TotalChange
  <2>. QED BY <2>2, <2>3, <2>4
<1>4. FundsTotal(fund) \in Int /\ DueTotal(handover, shift) \in Int /\ received \in Int
  <2>1. FundsTotal(fund) \in Int
    <3> DEFINE b == [g \in Funds |-> fund[g].balance]
    <3>1. \A g \in Funds : b[g] \in Int
      BY <1>2 DEF Fund
    <3>2. FundsTotal(fund) = Total(b, Funds)
      BY DEF FundsTotal
    <3> HIDE DEF b
    <3>. QED BY <3>1, <3>2, CashDeskConstants, TotalType
  <2>2. DueTotal(handover, shift) \in Int
    <3> DEFINE d == [h \in Handovers |-> Due(handover[h], shift)]
    <3>1. \A h \in Handovers : d[h] \in Int
      <4>1. \A h \in Handovers : Due(handover[h], shift) \in Nat
        BY DueNat DEF Inv, TypeOK, Moves
      <4>. QED BY <4>1
    <3>2. DueTotal(handover, shift) = Total(d, Handovers)
      BY DEF DueTotal
    <3> HIDE DEF d
    <3>. QED BY <3>1, <3>2, CashDeskConstants, TotalType
  <2>. QED BY <2>1, <2>2 DEF Inv, TypeOK
<1>5. fund[f].balance \in Nat /\ row.balance \in Nat
  BY <1>2 DEF Fund
<1>6. TypeOK'
  BY <1>1, <1>2, <1>4, <1>5 DEF Inv, TypeOK
<1>7. Desk'
  <2>1. \A s \in Shifts : shift[s].status = "OPEN" =>
          fund'[shift[s].fund].type = "CASH"
            /\ fund'[shift[s].fund].balance = fund[shift[s].fund].balance
    BY <1>2 DEF Inv, Desk, ShiftOK
  <2>. QED BY <1>1, <2>1, DeskKept
<1>8. Moves'
  <2>1. ASSUME NEW h \in Handovers
        PROVE  HandoverOK(handover[h], shift) /\ HandoverFunds(handover[h], shift, fund')
    <3>1. HandoverOK(handover[h], shift) /\ HandoverFunds(handover[h], shift, fund)
      BY DEF Inv, Moves
    <3>2. handover[h].status = "PENDING" => shift[handover[h].shift].fund \in Funds
      BY <3>1 DEF HandoverOK, Inv, Desk, ShiftOK
    <3>. QED BY <1>2, <3>1, <3>2 DEF HandoverOK, HandoverFunds
  <2>2. received = FundsTotal(fund) + DueTotal(handover, shift)
    BY DEF Inv, Moves
  <2>3. received' = FundsTotal(fund') + DueTotal(handover, shift)
    BY <1>3, <1>4, <1>5, <2>2
  <2>4. \A g \in Funds : fund'[g].type = "NONE" => fund'[g].balance = 0
    BY <1>2 DEF Inv, Moves
  <2>. QED BY <1>1, <2>1, <2>3, <2>4 DEF Moves
<1>9. Statements'
  BY <1>1 DEF Inv, Statements
<1>. QED BY <1>6, <1>7, <1>8, <1>9 DEF Inv

\* Funds are created, change their type and are removed.
LEMMA FundStepInv == ASSUME Inv, FundStep PROVE Inv'
<1>0. /\ fund \in [Funds -> Fund] /\ FundTypes \subseteq {"CASH", "BANK", "OTHER"}
      /\ received \in Int
      /\ \A s \in Shifts : ShiftOK(shift[s], fund)
      /\ \A h \in Handovers : HandoverOK(handover[h], shift) /\ HandoverFunds(handover[h], shift, fund)
      /\ \A f \in Funds : fund[f].type = "NONE" => fund[f].balance = 0
  BY CashDeskConstants DEF Inv, TypeOK, Desk, Moves
<1>1. ASSUME NEW f \in Funds, NEW type \in FundTypes, NEW opening \in {0} \cup Amounts,
             CreateFund(f, type, opening)
      PROVE  Inv'
  <2> DEFINE row == [type |-> type, balance |-> opening]
  <2>1. /\ fund[f].type = "NONE" /\ fund' = [fund EXCEPT ![f] = row]
        /\ received' = received + opening /\ UNCHANGED <<desk, handover, bank>>
    BY <1>1 DEF CreateFund
  <2>2. opening \in Nat
    BY AmountNat
  <2>3. row \in Fund /\ row.type = type /\ row.balance = opening
    BY <2>2 DEF Fund
  <2> HIDE DEF row
  <2>4. received' = received - fund[f].balance + row.balance
    BY <1>0, <2>1, <2>2, <2>3
  <2>5. \A s \in Shifts : shift[s].status = "OPEN" => shift[s].fund # f
    BY <1>0, <2>1 DEF ShiftOK
  <2>6. \A h \in Handovers :
           /\ handover[h].status = "PENDING" =>
                f # shift[handover[h].shift].fund /\ f # handover[h].destination
           /\ handover[h].settlement = "PENDING" => f # handover[h].destination
    BY <1>0, <2>1 DEF HandoverOK, HandoverFunds
  <2>7. row.type # "NONE"
    BY <1>0, <2>3
  <2>. QED BY <2>1, <2>3, <2>4, <2>5, <2>6, <2>7, FundInv
<1>2. ASSUME NEW f \in Funds, NEW type \in FundTypes \cup {"DELETED"}, HandoversUsing(f) = {},
             ShiftsOpenOn({f}) = {}, fund' = [fund EXCEPT ![f].type = type],
             UNCHANGED <<desk, handover, bank, received>>
      PROVE  Inv'
  <2> DEFINE row == [fund[f] EXCEPT !.type = type]
  <2>1. fund' = [fund EXCEPT ![f] = row]
    BY <1>2
  <2>2. row \in Fund /\ row.type = type /\ row.balance = fund[f].balance
    BY <1>0 DEF Fund
  <2>3. fund[f].balance \in Nat
    BY <1>0 DEF Fund
  <2> HIDE DEF row
  <2>4. received' = received - fund[f].balance + row.balance
    BY <1>0, <1>2, <2>2, <2>3
  <2>5. \A s \in Shifts : shift[s].status = "OPEN" => shift[s].fund # f
    BY <1>2 DEF ShiftsOpenOn
  <2>6. \A h \in Handovers :
           /\ handover[h].status = "PENDING" =>
                f # shift[handover[h].shift].fund /\ f # handover[h].destination
           /\ handover[h].settlement = "PENDING" => f # handover[h].destination
    BY <1>2 DEF HandoversUsing, Source
  <2>7. row.type # "NONE"
    BY <1>0, <2>2
  <2>. QED BY <1>2, <2>1, <2>2, <2>4, <2>5, <2>6, <2>7, FundInv
<1>3. ASSUME NEW f \in Funds, NEW type \in FundTypes, UpdateFund(f, type) PROVE Inv'
  BY <1>2, <1>3 DEF UpdateFund
<1>4. ASSUME NEW f \in Funds, RemoveFund(f) PROVE Inv'
  BY <1>2, <1>4 DEF RemoveFund
<1>. QED BY <1>1, <1>3, <1>4 DEF FundStep

\* settleInTransaction: the money arrives where it was due.
LEMMA SettleKeeps ==
  ASSUME Inv, NEW h \in Handovers, NEW e \in Employees, NEW reference \in References,
         SettleInTransaction(h, e, reference), UNCHANGED <<desk, received>>
  PROVE  /\ fund' \in [Funds -> Fund] /\ handover' \in [Handovers -> CashHandover]
         /\ Desk' /\ Moves'
         /\ \A x \in Entries : MatchOK(x, entry, handover', shift)
         /\ handover'[h].settlement = "SETTLED" /\ handover'[h].reference = reference
         /\ handover'[h].destination = handover[h].destination
         /\ handover'[h].shift = handover[h].shift
         /\ handover'[h].retained = handover[h].retained
<1> DEFINE to == handover[h].destination
           amount == Transfer(h)
           row == [handover[h] EXCEPT !.settlement = "SETTLED", !.reference = reference]
<1>1. /\ handover[h].status = "APPROVED" /\ handover[h].settlement = "PENDING"
      /\ fund[to].type = "BANK"
      /\ fund' = Booked(fund, to, amount)
      /\ handover' = [handover EXCEPT ![h] = row]
      /\ UNCHANGED <<shift, invoice, refunded, request>> /\ UNCHANGED desk
  BY DEF SettleInTransaction, MaySettle, AwaitingSettlement, Booked, desk
<1>2. /\ fund \in [Funds -> Fund] /\ handover \in [Handovers -> CashHandover]
      /\ shift \in [Shifts -> CashierShift]
      /\ \A g \in Handovers : HandoverOK(handover[g], shift) /\ HandoverFunds(handover[g], shift, fund)
      /\ \A s \in Shifts : ShiftOK(shift[s], fund)
      /\ \A f \in Funds : fund[f].type = "NONE" => fund[f].balance = 0
      /\ received = FundsTotal(fund) + DueTotal(handover, shift)
      /\ handover[h] \in CashHandover
  BY DEF Inv, TypeOK, Moves, Desk
<1>3. to \in Funds /\ amount = Due(handover[h], shift)
  BY <1>1, <1>2 DEF HandoverOK, Due, Transfer, Counted
<1>4. amount \in Nat
  BY <1>2, <1>3, DueNat
<1>5. /\ row \in CashHandover /\ row.settlement = "SETTLED" /\ row.reference = reference
      /\ row.status = handover[h].status /\ row.destination = to
      /\ row.shift = handover[h].shift /\ row.retained = handover[h].retained
  BY <1>2 DEF CashHandover
<1> HIDE DEF to, amount, row
<1>6. /\ handover' \in [Handovers -> CashHandover] /\ handover'[h] = row
      /\ \A g \in Handovers \ {h} : handover'[g] = handover[g]
  BY <1>1, <1>2, <1>5
<1>7. HandoverOK(row, shift) /\ Due(row, shift) = 0
  BY <1>1, <1>2, <1>5 DEF HandoverOK, Due, to
<1>8. fund[to].balance + amount \in Nat
  BY <1>2, <1>3, <1>4 DEF Fund
<1>9. /\ fund' \in [Funds -> Fund]
      /\ \A g \in Funds : fund'[g].type = fund[g].type
      /\ \A g \in Funds \ {to} : fund'[g].balance = fund[g].balance
      /\ FundsTotal(fund') = FundsTotal(fund) + amount /\ FundsTotal(fund) \in Int
  BY <1>1, <1>2, <1>3, <1>4, <1>8, BookedFund
<1>10. /\ DueTotal(handover', shift) = DueTotal(handover, shift) - amount
       /\ DueTotal(handover, shift) \in Int
  <2>1. /\ DueTotal(handover', shift)
             = DueTotal(handover, shift) - Due(handover[h], shift) + Due(row, shift)
        /\ DueTotal(handover, shift) \in Int
    BY <1>1, <1>2, <1>5, <1>7, DueChange
  <2>. QED BY <1>3, <1>4, <1>7, <2>1
<1>11. Desk'
  <2>1. \A s \in Shifts : shift[s].status = "OPEN" =>
          fund'[shift[s].fund].type = "CASH"
            /\ fund'[shift[s].fund].balance = fund[shift[s].fund].balance
    BY <1>1, <1>2, <1>9 DEF ShiftOK
  <2>. QED BY <1>1, <2>1, DeskKept
<1>12. Moves'
  <2>1. received' = FundsTotal(fund') + DueTotal(handover', shift)
    BY <1>2, <1>4, <1>9, <1>10
  <2>2. ASSUME NEW g \in Handovers
        PROVE  HandoverOK(handover'[g], shift) /\ HandoverFunds(handover'[g], shift, fund')
    <3>1. CASE g = h
      BY <1>1, <1>5, <1>6, <1>7, <3>1 DEF HandoverFunds
    <3>2. CASE g # h
      <4>1. handover'[g] = handover[g] /\ HandoverOK(handover[g], shift)
              /\ HandoverFunds(handover[g], shift, fund)
        BY <1>2, <1>6, <3>2
      <4>2. handover[g].status = "PENDING" => shift[handover[g].shift].fund \in Funds
        BY <1>2, <4>1 DEF HandoverOK, ShiftOK
      <4>. QED BY <1>9, <4>1, <4>2 DEF HandoverOK, HandoverFunds
    <3>. QED BY <3>1, <3>2
  <2>3. \A g \in Funds : fund'[g].type = "NONE" => fund'[g].balance = 0
    BY <1>1, <1>2, <1>9
  <2>. QED BY <1>1, <2>1, <2>2, <2>3 DEF Moves
<1>13. \A x \in Entries : MatchOK(x, entry, handover', shift)
  BY <1>1, <1>6 DEF Inv, Statements, MatchOK
<1>. QED BY <1>5, <1>6, <1>9, <1>11, <1>12, <1>13 DEF to

\* settle(), and a statement entry that settles or finds settled its handover.
LEMMA SettleInv ==
  ASSUME Inv, NEW h \in Handovers, NEW e \in Employees,
         \/ \E reference \in References : Settle(h, e, reference)
         \/ \E x \in Entries : MatchEntry(x, h, e)
  PROVE  Inv'
<1>0. /\ entry \in [Entries -> BankStatementEntry] /\ fund \in [Funds -> Fund]
      /\ handover \in [Handovers -> CashHandover] /\ Desk /\ Moves
      /\ \A x \in Entries : MatchOK(x, entry, handover, shift)
  BY DEF Inv, TypeOK, Statements
<1>1. ASSUME NEW reference \in References, Settle(h, e, reference) PROVE Inv'
  <2>1. /\ SettleInTransaction(h, e, reference) /\ UNCHANGED <<desk, received>>
        /\ UNCHANGED <<shift, invoice, refunded, request, entry, checked, doubtful, received>>
    BY <1>1 DEF Settle, desk, bank
  <2>2. /\ fund' \in [Funds -> Fund] /\ handover' \in [Handovers -> CashHandover]
        /\ Desk' /\ Moves' /\ \A x \in Entries : MatchOK(x, entry, handover', shift)
    BY <2>1, SettleKeeps
  <2>3. TypeOK'
    BY <2>1, <2>2 DEF Inv, TypeOK
  <2>4. Statements'
    BY <2>1, <2>2 DEF Statements, MatchOK
  <2>. QED BY <2>2, <2>3, <2>4 DEF Inv
<1>2. ASSUME NEW x \in Entries, MatchEntry(x, h, e) PROVE Inv'
  <2> DEFINE row == [entry[x] EXCEPT !.status = "MATCHED", !.handover = h]
  <2>1. /\ h \in FoundFor(x) /\ Agrees(x, h) /\ entry' = [entry EXCEPT ![x] = row]
        /\ UNCHANGED <<desk, checked, doubtful, received>>
        /\ UNCHANGED <<shift, invoice, refunded, request, checked, doubtful, received>>
    BY <1>2 DEF MatchEntry, Matched, desk
  <2>2. /\ row \in BankStatementEntry /\ row.status = "MATCHED" /\ row.handover = h
        /\ row.fund = entry[x].fund /\ row.reference = entry[x].reference
        /\ row.amount = entry[x].amount
    BY <1>0 DEF BankStatementEntry
  <2> HIDE DEF row
  <2>3. /\ entry' \in [Entries -> BankStatementEntry] /\ entry'[x] = row
        /\ \A y \in Entries \ {x} : entry'[y] = entry[y]
    BY <1>0, <2>1, <2>2
  <2>4. /\ handover[h].destination = entry[x].fund /\ handover[h].reference = entry[x].reference
        /\ entry[x].reference \in References
        /\ Transfer(h) = entry[x].amount /\ handover[h].settlement \in {"PENDING", "SETTLED"}
        /\ \A y \in Entries \ {x} : entry[y].handover # h
    BY <1>0, <2>1 DEF FoundFor, Agrees, BankStatementEntry
  <2>5. /\ fund' \in [Funds -> Fund] /\ handover' \in [Handovers -> CashHandover]
        /\ Desk' /\ Moves' /\ \A y \in Entries : MatchOK(y, entry, handover', shift)
        /\ handover'[h].settlement = "SETTLED" /\ handover'[h].reference = entry[x].reference
        /\ handover'[h].destination = handover[h].destination
        /\ handover'[h].shift = handover[h].shift
        /\ handover'[h].retained = handover[h].retained
    <3>1. CASE handover[h].settlement = "PENDING"
      <4>1. SettleInTransaction(h, e, entry[x].reference)
        BY <1>2, <3>1 DEF MatchEntry
      <4>. QED BY <2>1, <2>4, <4>1, SettleKeeps
    <3>2. CASE handover[h].settlement # "PENDING"
      <4>1. UNCHANGED <<fund, handover>>
        BY <1>2, <3>2 DEF MatchEntry
      <4>2. Desk' /\ Moves'
        BY <1>0, <2>1, <4>1 DEF Desk, Moves
      <4>. QED BY <1>0, <2>4, <3>2, <4>1, <4>2
    <3>. QED BY <3>1, <3>2
  <2>6. TypeOK'
    BY <2>1, <2>3, <2>5 DEF Inv, TypeOK
  <2>7. Statements'
    <3>1. ASSUME NEW y \in Entries PROVE MatchOK(y, entry', handover', shift)
      <4>1. CASE y = x
        BY <2>2, <2>3, <2>4, <2>5, <4>1 DEF MatchOK, Transfer, Counted
      <4>2. CASE y # x
        BY <2>2, <2>3, <2>4, <2>5, <4>2 DEF MatchOK
      <4>. QED BY <4>1, <4>2
    <3>. QED BY <2>1, <3>1 DEF Statements, MatchOK
  <2>. QED BY <2>5, <2>6, <2>7 DEF Inv
<1>. QED BY <1>1, <1>2

\* approve(): the variance and the transfer leave the source, and the transfer
\* reaches the destination or is on its way to it.
LEMMA ApproveInv ==
  ASSUME Inv, NEW h \in Handovers, NEW e \in Employees, ApproveHandover(h, e)
  PROVE  Inv'
<1> DEFINE from == Source(h)
           to == handover[h].destination
           bankFund == fund[to].type = "BANK"
           st == IF bankFund THEN "PENDING" ELSE "NOT_REQUIRED"
           row == [handover[h] EXCEPT !.status = "APPROVED", !.settlement = st]
           out == handover[h].retained - fund[from].balance
           in == IF bankFund THEN 0 ELSE Transfer(h)
           mid == Booked(fund, from, out)
<1>1. /\ handover[h].status = "PENDING" /\ fund[from].type = "CASH" /\ fund[to].type \in FundTypes
      /\ assertFundsHaveNoOpenShift(from, to)
      /\ fund[from].balance = Expected(h)
      /\ fund' = [fund EXCEPT ![from].balance = handover[h].retained,
                              ![to].balance = IF bankFund THEN @ ELSE @ + Transfer(h)]
      /\ received' = received + Counted(h) - Expected(h)
      /\ handover' = [handover EXCEPT ![h] = row]
      /\ UNCHANGED <<shift, invoice, refunded, request, entry, checked, doubtful>>
      /\ UNCHANGED desk
  BY DEF ApproveHandover, Active, desk, bank, Inv, TypeOK
<1>2. /\ fund \in [Funds -> Fund] /\ handover \in [Handovers -> CashHandover]
      /\ shift \in [Shifts -> CashierShift]
      /\ \A g \in Handovers : HandoverOK(handover[g], shift) /\ HandoverFunds(handover[g], shift, fund)
      /\ \A s \in Shifts : ShiftOK(shift[s], fund)
      /\ \A f \in Funds : fund[f].type = "NONE" => fund[f].balance = 0
      /\ received = FundsTotal(fund) + DueTotal(handover, shift) /\ received \in Int
      /\ handover[h] \in CashHandover /\ FundTypes \subseteq {"CASH", "BANK", "OTHER"}
  BY CashDeskConstants DEF Inv, TypeOK, Moves, Desk
<1>3. /\ from \in Funds /\ to \in Funds /\ from # to /\ handover[h].shift \in Shifts
      /\ handover[h].retained \in Nat /\ Counted(h) \in Nat /\ handover[h].retained <= Counted(h)
      /\ fund[from].balance \in Nat /\ fund[to].balance \in Nat
      /\ handover[h].settlement = "NOT_REQUIRED"
  BY <1>1, <1>2 DEF HandoverOK, ShiftOK, Source, Counted, CashHandover, CashierShift, Fund
<1>4. Transfer(h) \in Nat /\ Transfer(h) = Counted(h) - handover[h].retained
  BY <1>3 DEF Transfer
<1>5. out \in Int /\ in \in Nat /\ fund[from].balance + out = handover[h].retained
  BY <1>3, <1>4
<1>6. /\ mid \in [Funds -> Fund] /\ mid[from].balance = handover[h].retained
      /\ \A g \in Funds : mid[g].type = fund[g].type
      /\ \A g \in Funds \ {from} : mid[g].balance = fund[g].balance
      /\ FundsTotal(mid) = FundsTotal(fund) + out /\ FundsTotal(fund) \in Int
  <2> HIDE DEF out
  <2>1. fund[from].balance + out \in Nat
    BY <1>3, <1>5
  <2>. QED BY <1>2, <1>3, <1>5, <2>1, BookedFund
<1>7. fund' = Booked(mid, to, in)
  <2>1. \A g \in Funds : fund[g] \in Fund
    BY <1>2
  <2>2. fund' \in [Funds -> Fund]
    BY <1>1, <1>2, <1>3, <1>4 DEF Fund
  <2>3. Booked(mid, to, in) \in [Funds -> Fund]
    BY <1>3, <1>5, <1>6 DEF Booked, Fund
  <2>4. ASSUME NEW g \in Funds PROVE fund'[g] = Booked(mid, to, in)[g]
    <3>1. CASE g = from
      BY <1>1, <1>2, <1>3, <1>5, <3>1 DEF Booked, Fund
    <3>2. CASE g = to
      <4>1. /\ fund'[g].type = fund[to].type /\ fund'[g].balance = fund[to].balance + in
            /\ fund'[g] \in Fund
        BY <1>1, <1>2, <1>3, <2>2, <3>2 DEF Fund
      <4>2. /\ Booked(mid, to, in)[g].type = mid[to].type
            /\ Booked(mid, to, in)[g].balance = mid[to].balance + in
            /\ Booked(mid, to, in)[g] \in Fund
        BY <1>3, <1>6, <2>3, <3>2 DEF Booked, Fund
      <4>. QED BY <1>3, <1>6, <4>1, <4>2 DEF Fund
    <3>3. CASE g # from /\ g # to
      BY <1>1, <1>2, <1>3, <3>3 DEF Booked, Fund
    <3>. QED BY <3>1, <3>2, <3>3
  <2>. QED BY <2>2, <2>3, <2>4
<1>8. /\ row \in CashHandover /\ row.status = "APPROVED" /\ row.settlement = st
      /\ row.shift = handover[h].shift /\ row.destination = to
      /\ row.retained = handover[h].retained
  BY <1>2 DEF CashHandover, RequestStatus
<1> HIDE DEF mid, row, out
<1>9. /\ fund' \in [Funds -> Fund]
      /\ \A g \in Funds : fund'[g].type = fund[g].type
      /\ \A g \in Funds \ {from, to} : fund'[g].balance = fund[g].balance
      /\ FundsTotal(fund') = FundsTotal(fund) + out + in /\ FundsTotal(fund) \in Int
      /\ bankFund => fund'[to].balance = fund[to].balance
  <2>1. mid[to].balance + in \in Nat
    BY <1>3, <1>5, <1>6
  <2> HIDE DEF in
  <2>2. /\ fund' \in [Funds -> Fund] /\ fund'[to].balance = mid[to].balance + in
        /\ \A g \in Funds : fund'[g].type = mid[g].type
        /\ \A g \in Funds \ {to} : fund'[g].balance = mid[g].balance
        /\ FundsTotal(fund') = FundsTotal(mid) + in
    BY <1>3, <1>5, <1>6, <1>7, <2>1, BookedFund
  <2>3. bankFund => in = 0
    BY DEF in
  <2>. QED BY <1>3, <1>6, <2>2, <2>3
<1>10. HandoverOK(row, shift) /\ HandoverFunds(row, shift, fund')
  <2>1. HandoverOK(handover[h], shift)
    BY <1>2
  <2>. QED BY <1>1, <1>3, <1>8, <1>9, <2>1 DEF HandoverOK, HandoverFunds
<1>11. /\ handover' \in [Handovers -> CashHandover] /\ handover'[h] = row
       /\ \A g \in Handovers \ {h} : handover'[g] = handover[g]
  BY <1>1, <1>2, <1>8
<1>12. Due(handover[h], shift) = 0 /\ Due(row, shift) = Transfer(h) - in
  BY <1>1, <1>4, <1>8 DEF Due, Transfer, Counted
<1>13. /\ DueTotal(handover', shift) = DueTotal(handover, shift) + Transfer(h) - in
       /\ DueTotal(handover, shift) \in Int
  <2>1. /\ DueTotal(handover', shift)
             = DueTotal(handover, shift) - Due(handover[h], shift) + Due(row, shift)
        /\ DueTotal(handover, shift) \in Int
    BY <1>1, <1>2, <1>8, <1>10, DueChange
  <2>. QED BY <1>4, <1>5, <1>12, <2>1
<1>14. received' = FundsTotal(fund') + DueTotal(handover', shift) /\ received' \in Int
  <2>1. received' = received + Counted(h) - fund[from].balance
    BY <1>1
  <2>2. out = handover[h].retained - fund[from].balance
    BY DEF out
  <2> HIDE DEF in
  <2>3. in \in Int
    BY <1>5
  <2>. QED BY <1>2, <1>3, <1>4, <1>5, <1>9, <1>13, <2>1, <2>2, <2>3
<1>15. TypeOK'
  BY <1>1, <1>9, <1>11, <1>14 DEF Inv, TypeOK
<1>16. Desk'
  <2>1. \A s \in Shifts : shift[s].status = "OPEN" =>
          shift[s].fund \in Funds /\ shift[s].fund # from /\ (shift[s].fund = to => bankFund)
    BY <1>1, <1>2, <1>3 DEF assertFundsHaveNoOpenShift, ShiftsOpenOn, ShiftOK
  <2>2. \A s \in Shifts : shift[s].status = "OPEN" =>
          fund'[shift[s].fund].type = "CASH"
            /\ fund'[shift[s].fund].balance = fund[shift[s].fund].balance
    BY <1>2, <1>9, <2>1 DEF ShiftOK
  <2>. QED BY <1>1, <2>2, DeskKept
<1>17. Moves'
  <2>1. ASSUME NEW g \in Handovers
        PROVE  HandoverOK(handover'[g], shift) /\ HandoverFunds(handover'[g], shift, fund')
    <3>1. CASE g = h
      BY <1>10, <1>11, <3>1
    <3>2. CASE g # h
      <4>1. handover'[g] = handover[g] /\ HandoverOK(handover[g], shift)
              /\ HandoverFunds(handover[g], shift, fund)
        BY <1>2, <1>11, <3>2
      <4>2. handover[g].status = "PENDING" => shift[handover[g].shift].fund \in Funds
        BY <1>2, <4>1 DEF HandoverOK, ShiftOK
      <4>. QED BY <1>9, <4>1, <4>2 DEF HandoverOK, HandoverFunds
    <3>. QED BY <3>1, <3>2
  <2>2. \A g \in Funds : fund'[g].type = "NONE" => fund'[g].balance = 0
    BY <1>1, <1>2, <1>3, <1>9
  <2>. QED BY <1>1, <1>14, <2>1, <2>2 DEF Moves
<1>18. Statements'
  BY <1>1, <1>3, <1>11 DEF Inv, Statements, MatchOK
<1>. QED BY <1>15, <1>16, <1>17, <1>18 DEF Inv

\* Steps on one shift, from NONE to OPEN or from OPEN to CLOSED.
LEMMA ShiftInv ==
  ASSUME Inv, NEW s \in Shifts, NEW row \in CashierShift, row.status # "NONE",
         shift[s].status # "CLOSED", shift' = [shift EXCEPT ![s] = row],
         ShiftOK(row, fund), OneDrawer(shift'),
         row.status = "OPEN" => Books(row, invoice, refunded, s) = fund[row.fund].balance,
         row.status = "CLOSED" => Books(row, invoice, refunded, s) = row.actual,
         \A i \in Invoices : invoice[i].status = "UNPAID" /\ s \in invoice[i].unresolved =>
           row.status = "OPEN",
         \A h \in Handovers : handover[h].status = "PENDING" /\ row.status = "OPEN" =>
           row.fund # shift[handover[h].shift].fund,
         UNCHANGED <<fund, invoice, refunded, request, handover, bank, received>>
  PROVE  Inv'
<1>1. UNCHANGED <<fund, invoice, refunded, request, handover, entry, checked, doubtful, received>>
  BY DEF bank
<1>2. /\ shift \in [Shifts -> CashierShift] /\ shift' \in [Shifts -> CashierShift]
      /\ shift'[s] = row /\ \A o \in Shifts \ {s} : shift'[o] = shift[o]
      /\ invoice \in [Invoices -> Invoice]
      /\ \A h \in Handovers : HandoverOK(handover[h], shift) /\ HandoverFunds(handover[h], shift, fund)
  BY DEF Inv, TypeOK, Moves
<1>3. TypeOK'
  BY <1>1, <1>2 DEF Inv, TypeOK
<1>4. \A o \in Shifts : ShiftOK(shift'[o], fund) /\ DrawerOK(o, fund, shift', invoice, refunded)
  BY <1>2 DEF Inv, Desk, DrawerOK
<1>5. \A i \in Invoices : InvoiceOK(invoice[i], shift') /\ RefundOK(refunded[i], shift')
  <2>1. ASSUME NEW i \in Invoices PROVE InvoiceOK(invoice[i], shift')
    <3>1. InvoiceOK(invoice[i], shift) /\ invoice[i].unresolved \subseteq Shifts
      BY <1>2 DEF Inv, Desk, Invoice
    <3>. QED BY <1>2, <3>1 DEF InvoiceOK
  <2>2. \A i \in Invoices : RefundOK(refunded[i], shift')
    BY <1>2 DEF Inv, Desk, RefundOK
  <2>. QED BY <2>1, <2>2
<1>6. Desk'
  BY <1>1, <1>4, <1>5 DEF Inv, Desk, OneDrawer, DrawerOK
<1>7. \A h \in Handovers : handover[h].status \in {"PENDING", "APPROVED"} =>
        /\ handover[h].shift \in Shifts /\ handover[h].shift # s
        /\ shift'[handover[h].shift] = shift[handover[h].shift]
  BY <1>2 DEF HandoverOK
<1>8. \A h \in Handovers : HandoverOK(handover[h], shift') /\ HandoverFunds(handover[h], shift', fund)
  BY <1>2, <1>7 DEF HandoverOK, HandoverFunds
<1>9. DueTotal(handover, shift') = DueTotal(handover, shift)
  <2>1. \A h \in Handovers : Due(handover[h], shift') = Due(handover[h], shift)
    BY <1>7 DEF Due
  <2>. QED BY ONLY <2>1, DueSame
<1>10. Moves'
  BY <1>1, <1>8, <1>9 DEF Inv, Moves
<1>11. Statements'
  <2>1. \A h \in Handovers : handover[h].settlement = "SETTLED" =>
          shift'[handover[h].shift] = shift[handover[h].shift]
    BY <1>2, <1>7 DEF HandoverOK
  <2>. QED BY <1>1, <2>1 DEF Inv, Statements, MatchOK
<1>. QED BY <1>3, <1>6, <1>10, <1>11 DEF Inv

\* open(): the books of a new shift begin with what is in the drawer.
LEMMA OpenInv ==
  ASSUME Inv, NEW s \in Shifts, NEW e \in Employees, NEW f \in Funds, OpenShift(s, e, f)
  PROVE  Inv'
<1> DEFINE row == [shift[s] EXCEPT !.status = "OPEN", !.employee = e, !.fund = f,
                                   !.expected = fund[f].balance]
<1>1. /\ shift[s].status = "NONE" /\ fund[f].type = "CASH" /\ PendingFrom(f) = {}
      /\ ShiftsOpenOn({f}) = {} /\ shift' = [shift EXCEPT ![s] = row]
      /\ UNCHANGED <<fund, invoice, refunded, request, handover, bank, received>>
  BY DEF OpenShift
<1>2. /\ shift \in [Shifts -> CashierShift] /\ fund[f].balance \in Nat
      /\ invoice \in [Invoices -> Invoice] /\ refunded \in [Invoices -> [Shifts -> Nat]]
  BY DEF Inv, TypeOK, Fund
<1>3. /\ row \in CashierShift /\ row.status = "OPEN" /\ row.fund = f
      /\ row.expected = fund[f].balance /\ row.manual = shift[s].manual
  BY <1>2 DEF CashierShift
<1> HIDE DEF row
<1>4. row.manual = 0
  BY <1>1, <1>3 DEF Inv, Desk, ShiftOK
<1>5. Takings(invoice, s) = 0 /\ Refunds(refunded, s) = 0
  <2> DEFINE g == [i \in Invoices |-> Cash(invoice[i], s)]
             r == [i \in Invoices |-> refunded[i][s]]
  <2>1. \A i \in Invoices : InvoiceOK(invoice[i], shift) /\ RefundOK(refunded[i], shift)
    BY DEF Inv, Desk
  <2>2. \A i \in Invoices : g[i] = 0 /\ r[i] = 0
    BY <1>1, <2>1 DEF InvoiceOK, RefundOK, Cash
  <2>3. Takings(invoice, s) = Total(g, Invoices) /\ Refunds(refunded, s) = Total(r, Invoices)
    BY DEF Takings, Refunds
  <2> HIDE DEF g, r
  <2>. QED BY <2>2, <2>3, CashDeskConstants, TotalZero
<1>6. Books(row, invoice, refunded, s) = fund[row.fund].balance
  BY <1>2, <1>3, <1>4, <1>5 DEF Books
<1>7. ShiftOK(row, fund)
  BY <1>1, <1>3 DEF ShiftOK
<1>8. OneDrawer(shift')
  <2>1. \A o \in Shifts : shift[o].status = "OPEN" => shift[o].fund # f
    BY <1>1 DEF ShiftsOpenOn
  <2>2. shift'[s] = row /\ \A o \in Shifts \ {s} : shift'[o] = shift[o]
    BY <1>1, <1>2
  <2>. QED BY <1>3, <2>1, <2>2 DEF OneDrawer, Inv, Desk
<1>9. \A h \in Handovers : handover[h].status = "PENDING" =>
        row.fund # shift[handover[h].shift].fund
  BY <1>1, <1>3 DEF PendingFrom, Source
<1>10. /\ row.status # "NONE" /\ row.status # "CLOSED" /\ shift[s].status # "CLOSED"
       /\ \A i \in Invoices : invoice[i].status = "UNPAID" /\ s \in invoice[i].unresolved =>
            row.status = "OPEN"
       /\ \A h \in Handovers : handover[h].status = "PENDING" /\ row.status = "OPEN" =>
            row.fund # shift[handover[h].shift].fund
  BY <1>1, <1>3, <1>9
<1>11. /\ row.status = "OPEN" => Books(row, invoice, refunded, s) = fund[row.fund].balance
       /\ row.status = "CLOSED" => Books(row, invoice, refunded, s) = row.actual
  BY <1>6, <1>10
<1>12. row \in CashierShift /\ shift' = [shift EXCEPT ![s] = row]
  BY <1>1, <1>3
<1>13. UNCHANGED <<fund, invoice, refunded, request, handover, bank, received>>
  BY <1>1
<1>. QED BY <1>7, <1>8, <1>10, <1>11, <1>12, <1>13, ShiftInv

\* close(): the figure that is stored is what the books say.
LEMMA CloseInv ==
  ASSUME Inv, NEW s \in Shifts, NEW reported \in 0 .. MaxCount, CloseShift(s, reported)
  PROVE  Inv'
<1> DEFINE sum == calculateReconciliation(s)
           row == [shift[s] EXCEPT !.status = "CLOSED", !.reported = reported, !.actual = sum]
<1>1. /\ shift[s].status = "OPEN" /\ \A i \in Invoices : s \notin invoice[i].unresolved
      /\ shift' = [shift EXCEPT ![s] = row]
      /\ UNCHANGED <<fund, invoice, refunded, request, handover, bank, received>>
  BY DEF CloseShift, CloseWith
<1>2. /\ TypeOK /\ shift \in [Shifts -> CashierShift] /\ shift[s] \in CashierShift
      /\ reported \in Nat /\ ShiftOK(shift[s], fund) /\ OneDrawer(shift)
  BY CashDeskConstants DEF Inv, TypeOK, Desk
<1>3. sum = Books(shift[s], invoice, refunded, s) /\ sum \in Int
  <2>1. /\ calculateReconciliation(s) = Books(shift[s], invoice, refunded, s)
        /\ Takings(invoice, s) \in Int /\ Refunds(refunded, s) \in Int
    BY <1>2, BooksAre
  <2>2. shift[s].expected \in Int /\ shift[s].manual \in Int
    BY <1>2 DEF CashierShift
  <2>. QED BY <2>1, <2>2 DEF Books
<1> HIDE DEF sum
<1>4. /\ row \in CashierShift /\ row.status = "CLOSED" /\ row.actual = sum
      /\ row.expected = shift[s].expected /\ row.manual = shift[s].manual
      /\ row.fund = shift[s].fund
  BY <1>2, <1>3 DEF CashierShift
<1> HIDE DEF row
<1>5. Books(row, invoice, refunded, s) = row.actual
  BY <1>3, <1>4 DEF Books
<1>6. ShiftOK(row, fund)
  BY <1>1, <1>2, <1>4 DEF ShiftOK
<1>7. OneDrawer(shift')
  <2>1. shift'[s] = row /\ \A o \in Shifts \ {s} : shift'[o] = shift[o]
    BY <1>1, <1>2
  <2>. QED BY <1>2, <1>4, <2>1 DEF OneDrawer
<1>. QED BY <1>1, <1>4, <1>5, <1>6, <1>7, ShiftInv

\* Steps on one invoice that bring no cash.
LEMMA InvoiceInv ==
  ASSUME Inv, NEW i \in Invoices, NEW row \in Invoice, InvoiceOK(row, shift),
         \A s \in Shifts : Cash(row, s) = Cash(invoice[i], s),
         invoice' = [invoice EXCEPT ![i] = row],
         UNCHANGED <<fund, shift, refunded, request, handover, bank, received>>
  PROVE  Inv'
<1>1. UNCHANGED <<fund, shift, refunded, request, handover, entry, checked, doubtful, received>>
  BY DEF bank
<1>2. /\ invoice' \in [Invoices -> Invoice] /\ invoice'[i] = row
      /\ \A j \in Invoices \ {i} : invoice'[j] = invoice[j]
  BY DEF Inv, TypeOK
<1>3. \A s \in Shifts : Takings(invoice', s) = Takings(invoice, s)
  <2>1. \A s \in Shifts : \A j \in Invoices : Cash(invoice'[j], s) = Cash(invoice[j], s)
    BY <1>2
  <2>. QED BY ONLY <2>1, BooksSame
<1>4. \A s \in Shifts : DrawerOK(s, fund, shift, invoice', refunded)
  BY <1>3 DEF Inv, Desk, DrawerOK, Books
<1>5. Desk'
  BY <1>1, <1>2, <1>4 DEF Inv, Desk, DrawerOK
<1>6. TypeOK' /\ Moves' /\ Statements'
  BY <1>1, <1>2 DEF Inv, TypeOK, Moves, Statements
<1>. QED BY <1>5, <1>6 DEF Inv

\* Invoices and payment attempts, but for cash.
LEMMA InvoiceStepsInv ==
  ASSUME Inv, NEW i \in Invoices,
         \/ \E total \in Amounts : CreateInvoice(i, total)
         \/ \E s \in Shifts : UpdatePayment(i, s, "CARD")
         \/ VoidInvoice(i)
         \/ \E s \in Shifts : CreateAttempt(i, s) \/ CompleteOnlinePayment(i, s)
                                \/ AttemptFails(i, s) \/ AttemptConflicts(i, s)
  PROVE  Inv'
<1>0. invoice[i] \in Invoice /\ InvoiceOK(invoice[i], shift) /\ \A a \in Amounts : a \in {0} \cup Amounts
  BY DEF Inv, TypeOK, Desk
<1>1. ASSUME NEW total \in Amounts, CreateInvoice(i, total) PROVE Inv'
  <2> DEFINE row == [invoice[i] EXCEPT !.status = "UNPAID", !.total = total]
  <2>1. /\ invoice[i].status = "NONE" /\ invoice' = [invoice EXCEPT ![i] = row]
        /\ UNCHANGED <<fund, shift, refunded, request, handover, bank, received>>
    BY <1>1 DEF CreateInvoice
  <2>2. row \in Invoice /\ row.status = "UNPAID" /\ row.unresolved = invoice[i].unresolved
    BY <1>0 DEF Invoice
  <2> HIDE DEF row
  <2>3. InvoiceOK(row, shift) /\ \A s \in Shifts : Cash(row, s) = Cash(invoice[i], s)
    BY <1>0, <2>1, <2>2 DEF InvoiceOK, Cash, PaidStatus
  <2>. QED BY <2>1, <2>2, <2>3, InvoiceInv
<1>2. ASSUME NEW s \in Shifts, UpdatePayment(i, s, "CARD") PROVE Inv'
  <2> DEFINE row == [invoice[i] EXCEPT !.status = "PAID", !.method = "CARD", !.shift = s]
  <2>1. /\ invoice[i].status = "UNPAID" /\ invoice' = [invoice EXCEPT ![i] = row]
        /\ UNCHANGED <<fund, shift, refunded, request, handover, bank, received>>
    BY <1>2 DEF UpdatePayment
  <2>2. row \in Invoice /\ row.status = "PAID" /\ row.method = "CARD"
    BY <1>0 DEF Invoice, PaidStatus
  <2> HIDE DEF row
  <2>3. InvoiceOK(row, shift) /\ \A t \in Shifts : Cash(row, t) = Cash(invoice[i], t)
    BY <1>0, <2>1, <2>2 DEF InvoiceOK, Cash, PaidStatus
  <2>. QED BY <2>1, <2>2, <2>3, InvoiceInv
<1>3. ASSUME VoidInvoice(i) PROVE Inv'
  <2> DEFINE row == [invoice[i] EXCEPT !.status = "VOIDED"]
  <2>1. /\ invoice[i].status = "UNPAID" /\ invoice' = [invoice EXCEPT ![i] = row]
        /\ UNCHANGED <<fund, shift, refunded, request, handover, bank, received>>
    BY <1>3 DEF VoidInvoice
  <2>2. row \in Invoice /\ row.status = "VOIDED"
    BY <1>0 DEF Invoice
  <2> HIDE DEF row
  <2>3. InvoiceOK(row, shift) /\ \A t \in Shifts : Cash(row, t) = Cash(invoice[i], t)
    BY <1>0, <2>1, <2>2 DEF InvoiceOK, Cash, PaidStatus
  <2>. QED BY <2>1, <2>2, <2>3, InvoiceInv
<1>4. ASSUME NEW s \in Shifts, CreateAttempt(i, s) PROVE Inv'
  <2> DEFINE row == [invoice[i] EXCEPT !.unresolved = {s}]
  <2>1. /\ invoice[i].status = "UNPAID" /\ shift[s].status = "OPEN"
        /\ invoice' = [invoice EXCEPT ![i] = row]
        /\ UNCHANGED <<fund, shift, refunded, request, handover, bank, received>>
    BY <1>4 DEF CreateAttempt, requireOpenShift
  <2>2. row \in Invoice /\ row.status = "UNPAID" /\ row.unresolved = {s}
    <3>1. row.status = invoice[i].status /\ row.unresolved = {s} /\ row \in Invoice
      BY <1>0 DEF Invoice
    <3>. QED BY <2>1, <3>1
  <2> HIDE DEF row
  <2>3. InvoiceOK(row, shift) /\ \A t \in Shifts : Cash(row, t) = Cash(invoice[i], t)
    BY <1>0, <2>1, <2>2 DEF InvoiceOK, Cash, PaidStatus
  <2>. QED BY <2>1, <2>2, <2>3, InvoiceInv
<1>5. ASSUME NEW s \in Shifts, CompleteOnlinePayment(i, s) PROVE Inv'
  <2> DEFINE row == [invoice[i] EXCEPT !.status = "PAID", !.method = "TRANSFER", !.shift = s,
                                       !.unresolved = @ \ {s}, !.failed = @ \ {s}]
  <2>1. /\ invoice[i].status = "UNPAID" /\ invoice' = [invoice EXCEPT ![i] = row]
        /\ UNCHANGED <<fund, shift, refunded, request, handover, bank, received>>
    BY <1>5 DEF CompleteOnlinePayment
  <2>2. row \in Invoice /\ row.status = "PAID" /\ row.method = "TRANSFER"
    BY <1>0 DEF Invoice, PaidStatus
  <2> HIDE DEF row
  <2>3. InvoiceOK(row, shift) /\ \A t \in Shifts : Cash(row, t) = Cash(invoice[i], t)
    BY <1>0, <2>1, <2>2 DEF InvoiceOK, Cash, PaidStatus
  <2>. QED BY <2>1, <2>2, <2>3, InvoiceInv
<1>6. ASSUME NEW s \in Shifts, AttemptFails(i, s) \/ AttemptConflicts(i, s),
             NEW u \in SUBSET Shifts, NEW d \in SUBSET Shifts,
             invoice' = [invoice EXCEPT ![i].unresolved = u, ![i].failed = d],
             invoice[i].status = "UNPAID" => u \subseteq invoice[i].unresolved,
             invoice[i].status # "NONE"
      PROVE  Inv'
  <2> DEFINE row == [invoice[i] EXCEPT !.unresolved = u, !.failed = d]
  <2>1. /\ invoice' = [invoice EXCEPT ![i] = row]
        /\ UNCHANGED <<fund, shift, refunded, request, handover, bank, received>>
    BY <1>6 DEF AttemptFails, AttemptConflicts
  <2>2. /\ row \in Invoice /\ row.status = invoice[i].status /\ row.unresolved = u
        /\ row.method = invoice[i].method /\ row.total = invoice[i].total
        /\ row.shift = invoice[i].shift
    BY <1>0 DEF Invoice
  <2> HIDE DEF row
  <2>3. InvoiceOK(row, shift) /\ \A t \in Shifts : Cash(row, t) = Cash(invoice[i], t)
    BY <1>0, <1>6, <2>2 DEF InvoiceOK, Cash
  <2>. QED BY <2>1, <2>2, <2>3, InvoiceInv
<1>7. ASSUME NEW s \in Shifts, AttemptFails(i, s) PROVE Inv'
  <2> DEFINE u == invoice[i].unresolved \ {s}
             d == invoice[i].failed \cup {s}
  <2>1. u \in SUBSET Shifts /\ d \in SUBSET Shifts /\ u \subseteq invoice[i].unresolved
    BY <1>0 DEF Invoice
  <2>2. invoice' = [invoice EXCEPT ![i].unresolved = u, ![i].failed = d]
    BY <1>7 DEF AttemptFails
  <2>3. invoice[i].status # "NONE"
    BY <1>0, <1>7 DEF AttemptFails, InvoiceOK
  <2> HIDE DEF u, d
  <2>. QED BY <1>6, <1>7, <2>1, <2>2, <2>3
<1>8. ASSUME NEW s \in Shifts, AttemptConflicts(i, s) PROVE Inv'
  <2> DEFINE u == invoice[i].unresolved \cup {s}
             d == invoice[i].failed \ {s}
  <2>1. u \in SUBSET Shifts /\ d \in SUBSET Shifts
    BY <1>0 DEF Invoice
  <2>2. /\ invoice' = [invoice EXCEPT ![i].unresolved = u, ![i].failed = d]
        /\ invoice[i].status # "UNPAID"
    BY <1>8 DEF AttemptConflicts
  <2>3. invoice[i].status # "NONE"
    BY <1>0, <1>8 DEF AttemptConflicts, InvoiceOK
  <2> HIDE DEF u, d
  <2>. QED BY <1>6, <1>8, <2>1, <2>2, <2>3
<1>. QED BY <1>1, <1>2, <1>3, <1>4, <1>5, <1>7, <1>8

\* Money into or out of the drawer of an open shift, with its booking.
LEMMA DrawerInv ==
  ASSUME Inv, NEW s \in Shifts, requireOpenShift(s), NEW amount \in Int,
         fund[shift[s].fund].balance + amount \in Nat,
         fund' = Booked(fund, shift[s].fund, amount), received' = received + amount,
         NEW row \in CashierShift, shift' = [shift EXCEPT ![s] = row],
         row.status = shift[s].status, row.fund = shift[s].fund,
         invoice' \in [Invoices -> Invoice], refunded' \in [Invoices -> [Shifts -> Nat]],
         request' \in [Requests -> CashExpenseRequest],
         Books(row, invoice', refunded', s) = Books(shift[s], invoice, refunded, s) + amount,
         \A t \in Shifts \ {s} : /\ Takings(invoice', t) = Takings(invoice, t)
                                 /\ Refunds(refunded', t) = Refunds(refunded, t),
         \A i \in Invoices : InvoiceOK(invoice'[i], shift) /\ RefundOK(refunded'[i], shift),
         \A q \in Requests : RequestOK(request'[q]),
         UNCHANGED <<handover, bank>>
  PROVE  Inv'
<1> DEFINE f == shift[s].fund
<1>1. UNCHANGED <<handover, entry, checked, doubtful>> /\ shift[s].status = "OPEN"
  BY DEF bank, requireOpenShift
<1>2. /\ fund \in [Funds -> Fund] /\ shift \in [Shifts -> CashierShift] /\ received \in Int
      /\ handover \in [Handovers -> CashHandover]
      /\ \A o \in Shifts : ShiftOK(shift[o], fund) /\ DrawerOK(o, fund, shift, invoice, refunded)
      /\ \A h \in Handovers : HandoverOK(handover[h], shift) /\ HandoverFunds(handover[h], shift, fund)
      /\ \A g \in Funds : fund[g].type = "NONE" => fund[g].balance = 0
      /\ received = FundsTotal(fund) + DueTotal(handover, shift)
      /\ OneDrawer(shift)
  BY DEF Inv, TypeOK, Desk, Moves
<1>3. f \in Funds /\ fund[f].type = "CASH"
  BY <1>1, <1>2 DEF ShiftOK
<1>4. /\ fund' \in [Funds -> Fund]
      /\ fund'[f].balance = fund[f].balance + amount
      /\ \A g \in Funds : fund'[g].type = fund[g].type
      /\ \A g \in Funds \ {f} : fund'[g].balance = fund[g].balance
      /\ FundsTotal(fund') = FundsTotal(fund) + amount /\ FundsTotal(fund) \in Int
  <2> HIDE DEF f
  <2>1. fund[f].balance + amount \in Nat /\ fund' = Booked(fund, f, amount)
    BY DEF f
  <2>. QED BY <1>2, <1>3, <2>1, BookedFund
<1>5. /\ shift' \in [Shifts -> CashierShift] /\ shift'[s] = row
      /\ \A o \in Shifts \ {s} : shift'[o] = shift[o]
      /\ \A o \in Shifts : shift'[o].status = shift[o].status /\ shift'[o].fund = shift[o].fund
  BY <1>2
<1>6. TypeOK'
  BY <1>1, <1>2, <1>4, <1>5 DEF Inv, TypeOK
<1>7. ASSUME NEW o \in Shifts
      PROVE  ShiftOK(shift'[o], fund') /\ DrawerOK(o, fund', shift', invoice', refunded')
  <2>1. CASE o = s
    <3>1. Books(shift[s], invoice, refunded, s) = fund[f].balance
      BY <1>1, <1>2 DEF DrawerOK
    <3>. QED BY <1>1, <1>3, <1>4, <1>5, <2>1, <3>1 DEF ShiftOK, DrawerOK
  <2>2. CASE o # s
    <3>1. shift'[o] = shift[o] /\ ShiftOK(shift[o], fund)
            /\ DrawerOK(o, fund, shift, invoice, refunded)
      BY <1>2, <1>5, <2>2
    <3>2. shift[o].status = "OPEN" => shift[o].fund \in Funds \ {f}
      BY <1>1, <1>2, <2>2, <3>1 DEF ShiftOK, OneDrawer
    <3>3. Books(shift[o], invoice', refunded', o) = Books(shift[o], invoice, refunded, o)
      BY <2>2 DEF Books
    <3> HIDE DEF f
    <3>. QED BY <1>4, <3>1, <3>2, <3>3 DEF ShiftOK, DrawerOK
  <2>. QED BY <2>1, <2>2
<1>8. \A i \in Invoices : InvoiceOK(invoice'[i], shift') /\ RefundOK(refunded'[i], shift')
  <2>1. ASSUME NEW i \in Invoices PROVE InvoiceOK(invoice'[i], shift')
    <3>1. InvoiceOK(invoice'[i], shift) /\ invoice'[i].unresolved \subseteq Shifts
      BY DEF Invoice
    <3>. QED BY <1>5, <3>1 DEF InvoiceOK
  <2>2. \A i \in Invoices : RefundOK(refunded'[i], shift')
    BY <1>5 DEF RefundOK
  <2>. QED BY <2>1, <2>2
<1>9. OneDrawer(shift')
  BY <1>2, <1>5 DEF OneDrawer
<1>10. Desk'
  BY <1>7, <1>8, <1>9 DEF Desk, OneDrawer, DrawerOK
<1>11. ASSUME NEW h \in Handovers
       PROVE  /\ HandoverOK(handover[h], shift') /\ HandoverFunds(handover[h], shift', fund')
              /\ Due(handover[h], shift') = Due(handover[h], shift)
              /\ handover[h].settlement = "SETTLED" =>
                   shift'[handover[h].shift] = shift[handover[h].shift]
  <2>1. HandoverOK(handover[h], shift) /\ HandoverFunds(handover[h], shift, fund)
    BY <1>2
  <2>2. handover[h].status \in {"PENDING", "APPROVED"} =>
          /\ handover[h].shift \in Shifts /\ shift'[handover[h].shift] = shift[handover[h].shift]
          /\ shift[handover[h].shift].fund \in Funds /\ handover[h].destination \in Funds
    BY <1>1, <1>2, <1>5, <2>1 DEF HandoverOK, ShiftOK
  <2> HIDE DEF f
  <2>3. HandoverOK(handover[h], shift')
    BY <2>1, <2>2 DEF HandoverOK
  <2>4. HandoverFunds(handover[h], shift', fund')
    BY <1>4, <1>5, <2>1, <2>2 DEF HandoverFunds
  <2>. QED BY <2>1, <2>2, <2>3, <2>4 DEF Due, HandoverOK
<1>12. DueTotal(handover, shift') = DueTotal(handover, shift) /\ DueTotal(handover, shift) \in Int
  <2>1. \A h \in Handovers : Due(handover[h], shift') = Due(handover[h], shift)
    BY <1>11
  <2>2. DueTotal(handover, shift') = DueTotal(handover, shift)
    BY ONLY <2>1, DueSame
  <2> DEFINE d == [h \in Handovers |-> Due(handover[h], shift)]
  <2>3. \A h \in Handovers : Due(handover[h], shift) \in Nat
    BY <1>2, DueNat
  <2>4. (\A h \in Handovers : d[h] \in Int) /\ DueTotal(handover, shift) = Total(d, Handovers)
    BY <2>3 DEF DueTotal
  <2> HIDE DEF d
  <2>. QED BY <2>2, <2>4, CashDeskConstants, TotalType
<1>13. Moves'
  <2>1. received' = FundsTotal(fund') + DueTotal(handover, shift')
    BY <1>2, <1>4, <1>12
  <2>2. \A g \in Funds : fund'[g].type = "NONE" => fund'[g].balance = 0
    BY <1>2, <1>3, <1>4
  <2>. QED BY <1>1, <1>11, <2>1, <2>2 DEF Moves
<1>14. Statements'
  BY <1>1, <1>11 DEF Inv, Statements, MatchOK
<1>. QED BY <1>6, <1>10, <1>13, <1>14 DEF Inv

\* The columns of the books are whole numbers.
LEMMA ColumnsInt ==
  ASSUME Inv, NEW s \in Shifts
  PROVE  /\ shift[s] \in CashierShift /\ shift[s].expected \in Int /\ shift[s].manual \in Int
         /\ Takings(invoice, s) \in Int /\ Refunds(refunded, s) \in Int
<1>1. shift[s] \in CashierShift
  BY DEF Inv, TypeOK
<1>. QED BY <1>1, BooksAre DEF Inv, CashierShift

\* A movement that is booked as income or as an expense of the shift.
LEMMA MovementInv ==
  ASSUME Inv, NEW s \in Shifts, requireOpenShift(s), NEW amount \in Int,
         fund[shift[s].fund].balance + amount \in Nat,
         fund' = Booked(fund, shift[s].fund, amount), received' = received + amount,
         shift' = [shift EXCEPT ![s].manual = @ + amount],
         request' \in [Requests -> CashExpenseRequest],
         \A q \in Requests : RequestOK(request'[q]),
         UNCHANGED <<invoice, refunded, handover, bank>>
  PROVE  Inv'
<1> DEFINE m == shift[s].manual + amount
           row == [shift[s] EXCEPT !.manual = m]
<1>1. /\ shift[s] \in CashierShift /\ shift[s].expected \in Int /\ shift[s].manual \in Int
      /\ Takings(invoice, s) \in Int /\ Refunds(refunded, s) \in Int
  BY ColumnsInt
<1>2. m \in Int /\ shift' = [shift EXCEPT ![s] = row]
  BY <1>1
<1> HIDE DEF m
<1>3. /\ row \in CashierShift /\ row.status = shift[s].status /\ row.fund = shift[s].fund
      /\ row.expected = shift[s].expected /\ row.manual = m
  BY <1>1, <1>2 DEF CashierShift
<1> HIDE DEF row
<1>4. Books(row, invoice', refunded', s) = Books(shift[s], invoice, refunded, s) + amount
  BY <1>1, <1>3 DEF Books, m
<1>5. /\ invoice' \in [Invoices -> Invoice] /\ refunded' \in [Invoices -> [Shifts -> Nat]]
      /\ \A i \in Invoices : InvoiceOK(invoice'[i], shift) /\ RefundOK(refunded'[i], shift)
  BY DEF Inv, TypeOK, Desk
<1>6. \A t \in Shifts \ {s} : /\ Takings(invoice', t) = Takings(invoice, t)
                              /\ Refunds(refunded', t) = Refunds(refunded, t)
  OBVIOUS
<1>7. UNCHANGED <<handover, bank>>
  OBVIOUS
<1>. QED BY <1>2, <1>3, <1>4, <1>5, <1>6, <1>7, DrawerInv

\* addMovement and the approval of a request for an expense.
LEMMA MovementStepsInv ==
  ASSUME Inv, NEW s \in Shifts,
         \/ \E amount \in Amounts : AddIncome(s, amount) \/ AddExpense(s, amount)
         \/ \E q \in Requests, e \in Employees :
              request[q].shift = s /\ ApproveExpenseRequest(q, e)
  PROVE  Inv'
<1>0. /\ fund \in [Funds -> Fund] /\ request \in [Requests -> CashExpenseRequest]
      /\ \A q \in Requests : RequestOK(request[q])
      /\ ShiftOK(shift[s], fund) /\ received \in Int /\ shift[s].manual \in Int
  BY ColumnsInt DEF Inv, TypeOK, Desk
<1>1. shift[s].status = "OPEN" => shift[s].fund \in Funds /\ fund[shift[s].fund].balance \in Nat
  BY <1>0 DEF ShiftOK, Fund
<1>2. ASSUME NEW amount \in Amounts, AddIncome(s, amount) PROVE Inv'
  <2>1. amount \in Nat
    BY AmountNat
  <2>2. /\ requireOpenShift(s) /\ fund' = Booked(fund, shift[s].fund, amount)
        /\ received' = received + amount
        /\ shift' = [shift EXCEPT ![s].manual = @ + amount]
        /\ UNCHANGED <<invoice, refunded, handover, bank>> /\ UNCHANGED request
    BY <1>2 DEF AddIncome, Receive, Booked
  <2>3. fund[shift[s].fund].balance + amount \in Nat /\ amount \in Int
    BY <1>1, <2>1, <2>2 DEF requireOpenShift
  <2>. QED BY <1>0, <2>2, <2>3, MovementInv
<1>3. ASSUME NEW amount \in Nat, requireOpenShift(s), PayOut(shift[s].fund, amount),
             shift' = [shift EXCEPT ![s].manual = @ - amount],
             request' \in [Requests -> CashExpenseRequest],
             \A q \in Requests : RequestOK(request'[q]),
             UNCHANGED <<invoice, refunded, handover, bank>>
      PROVE  Inv'
  <2> DEFINE a == 0 - amount
  <2>1. a \in Int /\ fund[shift[s].fund].balance + a \in Nat
    BY <1>1, <1>3 DEF PayOut, requireOpenShift
  <2>2. fund' = Booked(fund, shift[s].fund, a)
    <3>1. fund[shift[s].fund].balance - amount = fund[shift[s].fund].balance + a
      BY <1>1, <1>3 DEF requireOpenShift
    <3>. QED BY <1>3, <3>1 DEF PayOut, Booked
  <2>3. received' = received + a
    BY <1>0, <1>3 DEF PayOut
  <2>4. shift' = [shift EXCEPT ![s].manual = @ + a]
    <3>1. shift[s].manual - amount = shift[s].manual + a
      BY <1>0
    <3>. QED BY <1>3, <3>1
  <2> HIDE DEF a
  <2>. QED BY <1>3, <2>1, <2>2, <2>3, <2>4, MovementInv
<1>4. ASSUME NEW amount \in Amounts, AddExpense(s, amount) PROVE Inv'
  <2>1. amount \in Nat
    BY AmountNat
  <2>. QED BY <1>0, <1>3, <1>4, <2>1 DEF AddExpense
<1>5. ASSUME NEW q \in Requests, NEW e \in Employees, request[q].shift = s,
             ApproveExpenseRequest(q, e)
      PROVE  Inv'
  <2> DEFINE row == [request[q] EXCEPT !.status = "APPROVED"]
  <2>1. /\ requireOpenShift(s) /\ PayOut(shift[s].fund, request[q].amount)
        /\ shift' = [shift EXCEPT ![s].manual = @ - request[q].amount]
        /\ request' = [request EXCEPT ![q] = row]
        /\ UNCHANGED <<invoice, refunded, handover, bank>>
    BY <1>5 DEF ApproveExpenseRequest
  <2>2. row \in CashExpenseRequest /\ row.status = "APPROVED"
    BY <1>0 DEF CashExpenseRequest, RequestStatus
  <2> HIDE DEF row
  <2>3. /\ request' \in [Requests -> CashExpenseRequest]
        /\ \A p \in Requests : RequestOK(request'[p])
    BY <1>0, <2>1, <2>2 DEF RequestOK
  <2>4. request[q].amount \in {0} \cup Amounts
    BY <1>0 DEF CashExpenseRequest
  <2>5. request[q].amount \in Nat
    BY <2>4, AmountNat
  <2>. QED BY <1>3, <2>1, <2>3, <2>5
<1>. QED BY <1>2, <1>4, <1>5

\* updatePayment in cash: the total of the invoice goes into the drawer.
LEMMA CashPaymentInv ==
  ASSUME Inv, NEW i \in Invoices, NEW s \in Shifts, UpdatePayment(i, s, "CASH")
  PROVE  Inv'
<1> DEFINE amount == invoice[i].total
           row == [invoice[i] EXCEPT !.status = "PAID", !.method = "CASH", !.shift = s]
           now == shift[s]
<1>1. /\ invoice[i].status = "UNPAID" /\ requireOpenShift(s) /\ shift[s].status = "OPEN"
      /\ fund' = Booked(fund, shift[s].fund, amount) /\ received' = received + amount
      /\ invoice' = [invoice EXCEPT ![i] = row]
      /\ UNCHANGED <<shift, refunded, request>> /\ UNCHANGED <<handover, bank>>
  BY DEF UpdatePayment, Receive, Booked, requireOpenShift
<1>2. /\ fund \in [Funds -> Fund] /\ shift \in [Shifts -> CashierShift]
      /\ invoice \in [Invoices -> Invoice] /\ refunded \in [Invoices -> [Shifts -> Nat]]
      /\ request \in [Requests -> CashExpenseRequest] /\ ShiftOK(shift[s], fund)
      /\ \A j \in Invoices : InvoiceOK(invoice[j], shift) /\ RefundOK(refunded[j], shift)
      /\ \A q \in Requests : RequestOK(request[q])
  BY DEF Inv, TypeOK, Desk
<1>3. amount \in Nat
  <2>1. amount \in {0} \cup Amounts
    BY <1>2 DEF Invoice
  <2>. QED BY <2>1, AmountNat
<1>4. amount \in Int /\ fund[shift[s].fund].balance + amount \in Nat
  BY <1>1, <1>2, <1>3 DEF ShiftOK, Fund
<1>5. /\ row \in Invoice /\ row.status = "PAID" /\ row.method = "CASH" /\ row.shift = s
      /\ row.total = amount
  BY <1>2 DEF Invoice, PaidStatus
<1> HIDE DEF row, amount
<1>6. /\ invoice' \in [Invoices -> Invoice] /\ refunded' \in [Invoices -> [Shifts -> Nat]]
      /\ request' \in [Requests -> CashExpenseRequest]
      /\ invoice'[i] = row /\ \A j \in Invoices \ {i} : invoice'[j] = invoice[j]
  BY <1>1, <1>2, <1>5
<1>7. \A t \in Shifts : /\ Cash(invoice[i], t) = 0
                        /\ Cash(row, t) = (IF t = s THEN amount ELSE 0)
                        /\ Takings(invoice, t) \in Int
  BY <1>1, <1>5, ColumnsInt DEF Cash, PaidStatus
<1>8. \A t \in Shifts :
        Takings(invoice', t) = Takings(invoice, t) - Cash(invoice[i], t) + Cash(row, t)
  BY <1>1, <1>2, <1>5, TakingsChange
<1>9. /\ Takings(invoice', s) = Takings(invoice, s) + amount
      /\ \A t \in Shifts \ {s} : /\ Takings(invoice', t) = Takings(invoice, t)
                                 /\ Refunds(refunded', t) = Refunds(refunded, t)
  <2>1. Takings(invoice', s) = Takings(invoice, s) + amount
    <3>1. Takings(invoice', s) = Takings(invoice, s) - 0 + amount
      BY <1>7, <1>8
    <3>2. Takings(invoice, s) \in Int
      BY <1>7
    <3>. QED BY <1>3, <3>1, <3>2
  <2>2. ASSUME NEW t \in Shifts \ {s} PROVE Takings(invoice', t) = Takings(invoice, t)
    <3>1. Takings(invoice', t) = Takings(invoice, t) - 0 + 0
      BY <1>7, <1>8
    <3>2. Takings(invoice, t) \in Int
      BY <1>7
    <3>. QED BY <3>1, <3>2
  <2>3. \A t \in Shifts \ {s} : Refunds(refunded', t) = Refunds(refunded, t)
    BY <1>1
  <2>. QED BY <2>1, <2>2, <2>3
<1>10. Books(now, invoice', refunded', s) = Books(shift[s], invoice, refunded, s) + amount
  <2>1. /\ shift[s].expected \in Int /\ shift[s].manual \in Int
        /\ Takings(invoice, s) \in Int /\ Refunds(refunded, s) \in Int
    BY ColumnsInt
  <2>2. Refunds(refunded', s) = Refunds(refunded, s)
    BY <1>1
  <2>. QED BY <1>3, <1>9, <2>1, <2>2 DEF Books
<1>11. /\ \A j \in Invoices : InvoiceOK(invoice'[j], shift) /\ RefundOK(refunded'[j], shift)
       /\ \A q \in Requests : RequestOK(request'[q])
  <2>1. InvoiceOK(row, shift)
    BY <1>1, <1>5 DEF InvoiceOK
  <2>. QED BY <1>1, <1>2, <1>6, <2>1
<1>12. /\ now \in CashierShift /\ shift' = [shift EXCEPT ![s] = now]
       /\ now.status = shift[s].status /\ now.fund = shift[s].fund
  BY <1>1, <1>2
<1> HIDE DEF now
<1>. QED BY <1>1, <1>4, <1>6, <1>9, <1>10, <1>11, <1>12, DrawerInv

\* A cash refund: out of the drawer of the shift that is open now.
LEMMA CashRefundInv ==
  ASSUME Inv, NEW i \in Invoices, NEW s \in Shifts, NEW amount \in Amounts,
         CashRefund(i, s, amount)
  PROVE  Inv'
<1> DEFINE a == 0 - amount
           st == IF RefundedAmount(i) + amount = invoice[i].total
                 THEN "REFUNDED" ELSE "PARTIALLY_REFUNDED"
           row == [invoice[i] EXCEPT !.status = st]
           now == shift[s]
<1>0. amount \in Nat
  BY AmountNat
<1>1. /\ invoice[i].method = "CASH" /\ invoice[i].status \in {"PAID", "PARTIALLY_REFUNDED"}
      /\ requireOpenShift(s) /\ shift[s].status = "OPEN" /\ PayOut(shift[s].fund, amount)
      /\ refunded' = [refunded EXCEPT ![i][s] = @ + amount]
      /\ invoice' = [invoice EXCEPT ![i] = row]
      /\ UNCHANGED <<shift, request>> /\ UNCHANGED <<handover, bank>>
  BY DEF CashRefund, requireOpenShift
<1>2. /\ fund \in [Funds -> Fund] /\ shift \in [Shifts -> CashierShift] /\ received \in Int
      /\ invoice \in [Invoices -> Invoice] /\ refunded \in [Invoices -> [Shifts -> Nat]]
      /\ request \in [Requests -> CashExpenseRequest] /\ ShiftOK(shift[s], fund)
      /\ \A j \in Invoices : InvoiceOK(invoice[j], shift) /\ RefundOK(refunded[j], shift)
      /\ \A q \in Requests : RequestOK(request[q])
  BY DEF Inv, TypeOK, Desk
<1>3. shift[s].fund \in Funds /\ fund[shift[s].fund].balance \in Nat
  BY <1>1, <1>2 DEF ShiftOK, Fund
<1>4. a \in Int /\ fund[shift[s].fund].balance + a \in Nat
  BY <1>0, <1>1, <1>3 DEF PayOut
<1>5. fund' = Booked(fund, shift[s].fund, a) /\ received' = received + a
  <2>1. fund[shift[s].fund].balance - amount = fund[shift[s].fund].balance + a
    BY <1>0, <1>3
  <2>2. received' = received + a
    BY <1>0, <1>1, <1>2 DEF PayOut
  <2>. QED BY <1>1, <2>1, <2>2 DEF PayOut, Booked
<1>6. /\ row \in Invoice /\ row.status \in PaidStatus /\ row.method = "CASH"
      /\ row.shift = invoice[i].shift /\ row.total = invoice[i].total
  BY <1>1, <1>2 DEF Invoice, PaidStatus
<1> HIDE DEF row, a
<1>7. /\ invoice' \in [Invoices -> Invoice] /\ request' \in [Requests -> CashExpenseRequest]
      /\ invoice'[i] = row /\ \A j \in Invoices \ {i} : invoice'[j] = invoice[j]
  BY <1>1, <1>2, <1>6
<1>8. /\ refunded' \in [Invoices -> [Shifts -> Nat]]
      /\ Refunds(refunded', s) = Refunds(refunded, s) + amount
      /\ \A t \in Shifts \ {s} : \A j \in Invoices : refunded'[j][t] = refunded[j][t]
      /\ \A j \in Invoices \ {i} : refunded'[j] = refunded[j]
  <2>1. /\ refunded' \in [Invoices -> [Shifts -> Nat]]
        /\ refunded'[i][s] = refunded[i][s] + amount
        /\ \A t \in Shifts \ {s} : \A j \in Invoices : refunded'[j][t] = refunded[j][t]
        /\ \A j \in Invoices \ {i} : refunded'[j] = refunded[j]
    BY <1>0, <1>1, <1>2
  <2>2. refunded \in [Invoices -> [Shifts -> Nat]]
    BY <1>2
  <2>3. Refunds(refunded', s) = Refunds(refunded, s) + amount
    BY <1>0, <2>1, <2>2, RefundsChange
  <2>. QED BY <2>1, <2>3
<1>9. \A t \in Shifts : Takings(invoice', t) = Takings(invoice, t)
  <2>1. Cash(row, 0) = Cash(invoice[i], 0) /\ \A t \in Shifts : Cash(row, t) = Cash(invoice[i], t)
    BY <1>1, <1>6 DEF Cash, PaidStatus
  <2>2. \A t \in Shifts : \A j \in Invoices : Cash(invoice'[j], t) = Cash(invoice[j], t)
    BY <1>7, <2>1
  <2>. QED BY ONLY <2>2, BooksSame
<1>10. \A t \in Shifts \ {s} : Refunds(refunded', t) = Refunds(refunded, t)
  BY ONLY <1>8, BooksSame
<1>11. Books(now, invoice', refunded', s) = Books(shift[s], invoice, refunded, s) + a
  <2>1. /\ shift[s].expected \in Int /\ shift[s].manual \in Int
        /\ Takings(invoice, s) \in Int /\ Refunds(refunded, s) \in Int
    BY ColumnsInt
  <2>. QED BY <1>0, <1>8, <1>9, <2>1 DEF Books, a
<1>12. /\ \A j \in Invoices : InvoiceOK(invoice'[j], shift) /\ RefundOK(refunded'[j], shift)
       /\ \A q \in Requests : RequestOK(request'[q])
  <2>1. InvoiceOK(row, shift)
    BY <1>1, <1>2, <1>6 DEF InvoiceOK, PaidStatus
  <2>2. ASSUME NEW j \in Invoices PROVE RefundOK(refunded'[j], shift)
    <3>1. \A t \in Shifts \ {s} : refunded'[j][t] = refunded[j][t]
      BY <1>8
    <3>. QED BY <1>1, <1>2, <3>1 DEF RefundOK
  <2>. QED BY <1>1, <1>2, <1>7, <2>1, <2>2
<1>13. /\ now \in CashierShift /\ shift' = [shift EXCEPT ![s] = now]
       /\ now.status = shift[s].status /\ now.fund = shift[s].fund
  BY <1>1, <1>2
<1>14. \A t \in Shifts \ {s} : /\ Takings(invoice', t) = Takings(invoice, t)
                               /\ Refunds(refunded', t) = Refunds(refunded, t)
  BY <1>9, <1>10
<1>15. /\ requireOpenShift(s) /\ UNCHANGED <<handover, bank>>
       /\ refunded' \in [Invoices -> [Shifts -> Nat]]
       /\ invoice' \in [Invoices -> Invoice] /\ request' \in [Requests -> CashExpenseRequest]
  BY <1>1, <1>7, <1>8
<1> HIDE DEF now
<1>. QED BY <1>4, <1>5, <1>11, <1>12, <1>13, <1>14, <1>15, DrawerInv

\* Requests for an expense are made and turned down.
LEMMA RequestInv ==
  ASSUME Inv, NEW q \in Requests,
         \/ \E s \in Shifts, amount \in Amounts : RequestExpense(q, s, amount)
         \/ ResolveExpenseRequest(q)
  PROVE  Inv'
<1>1. /\ request \in [Requests -> CashExpenseRequest] /\ request[q] \in CashExpenseRequest
      /\ \A p \in Requests : RequestOK(request[p])
  BY DEF Inv, TypeOK, Desk
<1>2. PICK row \in CashExpenseRequest :
         RequestOK(row) /\ request' = [request EXCEPT ![q] = row]
  <2>1. ASSUME NEW s \in Shifts, NEW amount \in Amounts, RequestExpense(q, s, amount)
        PROVE  \E row \in CashExpenseRequest :
                 RequestOK(row) /\ request' = [request EXCEPT ![q] = row]
    <3> DEFINE new == [status |-> "PENDING", shift |-> s, amount |-> amount]
    <3>1. /\ new \in CashExpenseRequest /\ RequestOK(new)
          /\ request' = [request EXCEPT ![q] = new]
      BY <2>1 DEF RequestExpense, CashExpenseRequest, RequestStatus, RequestOK
    <3>. QED BY <3>1
  <2>2. ASSUME ResolveExpenseRequest(q)
        PROVE  \E row \in CashExpenseRequest :
                 RequestOK(row) /\ request' = [request EXCEPT ![q] = row]
    <3> DEFINE new == [request[q] EXCEPT !.status = "DECLINED"]
    <3>1. new \in CashExpenseRequest /\ new.status = "DECLINED"
      BY <1>1 DEF CashExpenseRequest, RequestStatus
    <3>2. request' = [request EXCEPT ![q] = new]
      BY <2>2 DEF ResolveExpenseRequest
    <3> HIDE DEF new
    <3>. QED BY <3>1, <3>2 DEF RequestOK
  <2>. QED BY <2>1, <2>2
<1>3. UNCHANGED <<fund, shift, invoice, refunded, handover, entry, checked, doubtful, received>>
  BY DEF RequestExpense, ResolveExpenseRequest, bank
<1>4. /\ request' \in [Requests -> CashExpenseRequest]
      /\ \A p \in Requests : RequestOK(request'[p])
  BY <1>1, <1>2
<1>5. TypeOK'
  BY <1>3, <1>4 DEF Inv, TypeOK
<1>6. Desk' /\ Moves' /\ Statements'
  BY <1>3, <1>4 DEF Inv, Desk, Moves, Statements
<1>. QED BY <1>5, <1>6 DEF Inv

\* Every step of the desk keeps the invariant.
LEMMA NextInv == Inv /\ [Next]_vars => Inv'
<1> SUFFICES ASSUME Inv, [Next]_vars PROVE Inv'
  OBVIOUS
<1>1. CASE ShiftStep
  BY <1>1, OpenInv, MovementStepsInv, RequestInv, CloseInv DEF ShiftStep
<1>2. CASE RequestStep
  <2>1. ASSUME NEW q \in Requests, NEW e \in Employees, ApproveExpenseRequest(q, e)
        PROVE  Inv'
    <3>1. request[q].shift \in Shifts
      BY <2>1 DEF ApproveExpenseRequest, Inv, Desk, RequestOK
    <3>. QED BY <2>1, <3>1, MovementStepsInv
  <2>. QED BY <1>2, <2>1, RequestInv DEF RequestStep
<1>3. CASE InvoiceStep
  <2>1. ASSUME NEW i \in Invoices, NEW s \in Shifts, NEW method \in {"CASH", "CARD"},
               UpdatePayment(i, s, method)
        PROVE  Inv'
    <3>1. CASE method = "CASH"
      BY <2>1, <3>1, CashPaymentInv
    <3>2. CASE method = "CARD"
      BY <2>1, <3>2, InvoiceStepsInv
    <3>. QED BY <3>1, <3>2
  <2>. QED BY <1>3, <2>1, InvoiceStepsInv, CashRefundInv DEF InvoiceStep
<1>4. CASE FundStep
  BY <1>4, FundStepInv
<1>5. CASE HandoverStep
  BY <1>5, HandoverStepsInv, ApproveInv, SettleInv DEF HandoverStep
<1>6. CASE StatementStep
  <2>1. ASSUME NEW x \in Entries, NEW h \in Handovers, NEW e \in Employees, MatchEntry(x, h, e)
        PROVE  Inv'
    BY <2>1, SettleInv
  <2>. QED BY <1>6, <2>1, StatementInv DEF StatementStep
<1>7. CASE UNCHANGED vars
  <2>1. UNCHANGED <<fund, shift, invoice, refunded, request, handover, entry, checked,
                    doubtful, received>>
    BY <1>7 DEF vars
  <2>2. TypeOK' /\ Desk' /\ Moves' /\ Statements'
    BY <2>1 DEF Inv, TypeOK, Desk, Moves, Statements
  <2>. QED BY <2>2 DEF Inv
<1>. QED BY <1>1, <1>2, <1>3, <1>4, <1>5, <1>6, <1>7 DEF Next

-----------------------------------------------------------------------------
(* What the invariant gives.                                               *)

\* The inductive invariant holds in every state.
THEOREM InvHolds == Spec => []Inv
<1>. QED BY InitInv, NextInv, PTL DEF Spec

\* requireOpenShift, the conditional debits and the indexes of open() keep the
\* drawer of an open shift equal to its books, and close() stores a figure
\* that stays true, for any number of shifts, invoices, refunds and amounts.
THEOREM DrawersMatchBooks == Spec => []DrawerMatchesBooks
<1>1. Inv => DrawerMatchesBooks
  <2> SUFFICES ASSUME Inv PROVE DrawerMatchesBooks
    OBVIOUS
  <2>1. TypeOK /\ \A s \in Shifts : DrawerOK(s, fund, shift, invoice, refunded)
    BY DEF Inv, Desk
  <2>2. \A s \in Shifts : calculateReconciliation(s) = Books(shift[s], invoice, refunded, s)
    BY <2>1, BooksAre
  <2>. QED BY <2>1, <2>2 DEF DrawerMatchesBooks, DrawerOK
<1>. QED BY <1>1, InvHolds, PTL

\* approve() and settleInTransaction move money and make none: what came in
\* is in the funds or on its way to a bank, for any number of handovers.
THEOREM MoneyIsConserved == Spec => []MoneyConserved
<1>1. Inv => MoneyConserved
  <2> SUFFICES ASSUME Inv PROVE MoneyConserved
    OBVIOUS
  <2> DEFINE awaiting == {h \in Handovers : AwaitingSettlement(h)}
             f == [h \in awaiting |-> Transfer(h)]
             g == [h \in Handovers |-> Due(handover[h], shift)]
  <2>1. /\ \A h \in Handovers : HandoverOK(handover[h], shift) /\ HandoverFunds(handover[h], shift, fund)
        /\ received = FundsTotal(fund) + DueTotal(handover, shift)
        /\ \A h \in Handovers : Due(handover[h], shift) \in Nat
    BY DueNat DEF Inv, TypeOK, Moves
  <2>2. HandoverFundsHold
    BY <2>1 DEF HandoverFundsHold, HandoverFunds, Source, ShiftsOpenOn, Active, AwaitingSettlement
  <2>3. awaiting \in SUBSET Handovers
    OBVIOUS
  <2>4. /\ \A h \in awaiting : f[h] \in Int /\ g[h] = f[h]
        /\ \A h \in Handovers \ awaiting : g[h] = 0
    BY <2>1 DEF Due, AwaitingSettlement, Transfer, Counted
  <2>5. DueTotal(handover, shift) = Total(g, Handovers)
    BY DEF DueTotal
  <2>6. received = Total([m \in Funds |-> fund[m].balance], Funds) + Total(f, awaiting)
    <3> HIDE DEF f, g, awaiting
    <3>1. Total(g, Handovers) = Total(f, awaiting)
      BY <2>3, <2>4, CashDeskConstants, TotalMask
    <3>. QED BY <2>1, <2>5, <3>1 DEF FundsTotal
  <2>. QED BY <2>2, <2>6 DEF MoneyConserved
<1>. QED BY <1>1, InvHolds, PTL

\* reconcileEntry, settle() and the indexes match an entry with one settled
\* handover, whatever the order of imports, deposits and settlements.
THEOREM StatementsMatch == Spec => []StatementsMatchSettlements
<1>1. Inv => StatementsMatchSettlements
  BY DEF Inv, Statements, MatchOK, StatementsMatchSettlements, Transfer, Counted
<1>. QED BY <1>1, InvHolds, PTL

\* The sales of a closed shift over one step.
Final ==
    \A s \in Shifts : shift[s].status = "CLOSED" =>
      /\ PaidOn(s) \subseteq PaidOn(s)'
      /\ \A i \in PaidOn(s)' \ PaidOn(s) : s \in invoice[i].failed

\* close() waits for the unresolved attempts of the shift, so that a sale
\* reaches a closed shift only through an attempt that was reported failed.
LEMMA FinalStep == Inv /\ [Next]_vars => Final
<1> SUFFICES ASSUME Inv, [Next]_vars PROVE Final
  OBVIOUS
<1>0. invoice \in [Invoices -> Invoice] /\ \A i \in Invoices : InvoiceOK(invoice[i], shift)
  BY DEF Inv, TypeOK, Desk
<1>1. CASE UNCHANGED invoice
  BY <1>1 DEF Final, PaidOn
<1>2. ASSUME NEW i \in Invoices, NEW row \in Invoice, invoice' = [invoice EXCEPT ![i] = row],
             invoice[i].status \in PaidStatus =>
               row.status \in PaidStatus /\ row.shift = invoice[i].shift,
             row.status \in PaidStatus /\ invoice[i].status \notin PaidStatus =>
               (shift[row.shift].status = "CLOSED" => row.shift \in invoice[i].failed)
      PROVE  Final
  <2>1. invoice'[i] = row /\ \A j \in Invoices \ {i} : invoice'[j] = invoice[j]
    BY <1>0, <1>2
  <2>. QED BY <1>2, <2>1 DEF Final, PaidOn
<1>3. ASSUME NEW i \in Invoices, NEW total \in Amounts, CreateInvoice(i, total) PROVE Final
  <2> DEFINE row == [invoice[i] EXCEPT !.status = "UNPAID", !.total = total]
  <2>1. invoice' = [invoice EXCEPT ![i] = row] /\ invoice[i].status = "NONE"
    BY <1>3 DEF CreateInvoice
  <2>2. row \in Invoice /\ row.status = "UNPAID"
    BY <1>0 DEF Invoice
  <2> HIDE DEF row
  <2>. QED BY <1>2, <2>1, <2>2 DEF PaidStatus
<1>4. ASSUME NEW i \in Invoices, NEW s \in Shifts, NEW method \in {"CASH", "CARD"},
             UpdatePayment(i, s, method)
      PROVE  Final
  <2> DEFINE row == [invoice[i] EXCEPT !.status = "PAID", !.method = method, !.shift = s]
  <2>1. /\ invoice' = [invoice EXCEPT ![i] = row] /\ invoice[i].status = "UNPAID"
        /\ shift[s].status = "OPEN"
    BY <1>4 DEF UpdatePayment, requireOpenShift
  <2>2. row \in Invoice /\ row.shift = s
    BY <1>0 DEF Invoice, PaidStatus
  <2> HIDE DEF row
  <2>. QED BY <1>2, <2>1, <2>2 DEF PaidStatus
<1>5. ASSUME NEW i \in Invoices, VoidInvoice(i) PROVE Final
  <2> DEFINE row == [invoice[i] EXCEPT !.status = "VOIDED"]
  <2>1. invoice' = [invoice EXCEPT ![i] = row] /\ invoice[i].status = "UNPAID"
    BY <1>5 DEF VoidInvoice
  <2>2. row \in Invoice /\ row.status = "VOIDED"
    BY <1>0 DEF Invoice
  <2> HIDE DEF row
  <2>. QED BY <1>2, <2>1, <2>2 DEF PaidStatus
<1>6. ASSUME NEW i \in Invoices, NEW s \in Shifts, CompleteOnlinePayment(i, s) PROVE Final
  <2> DEFINE row == [invoice[i] EXCEPT !.status = "PAID", !.method = "TRANSFER", !.shift = s,
                                       !.unresolved = @ \ {s}, !.failed = @ \ {s}]
  <2>1. /\ invoice' = [invoice EXCEPT ![i] = row] /\ invoice[i].status = "UNPAID"
        /\ s \in invoice[i].unresolved \cup invoice[i].failed
    BY <1>6 DEF CompleteOnlinePayment
  <2>2. row \in Invoice /\ row.shift = s
    BY <1>0 DEF Invoice, PaidStatus
  <2> HIDE DEF row
  <2>3. shift[s].status = "CLOSED" => s \in invoice[i].failed
    BY <1>0, <2>1 DEF InvoiceOK
  <2>. QED BY <1>2, <2>1, <2>2, <2>3 DEF PaidStatus
<1>7. ASSUME NEW i \in Invoices, NEW u \in SUBSET Shifts, NEW d \in SUBSET Shifts,
             invoice' = [invoice EXCEPT ![i].unresolved = u, ![i].failed = d]
      PROVE  Final
  <2> DEFINE row == [invoice[i] EXCEPT !.unresolved = u, !.failed = d]
  <2>1. invoice' = [invoice EXCEPT ![i] = row]
    BY <1>7
  <2>2. row \in Invoice /\ row.status = invoice[i].status /\ row.shift = invoice[i].shift
    BY <1>0 DEF Invoice
  <2> HIDE DEF row
  <2>. QED BY <1>2, <2>1, <2>2
<1>8. ASSUME NEW i \in Invoices, NEW s \in Shifts,
             CreateAttempt(i, s) \/ AttemptFails(i, s) \/ AttemptConflicts(i, s)
      PROVE  Final
  <2> DEFINE u == {s} d == invoice[i].failed
             v == invoice[i].unresolved \ {s} w == invoice[i].failed \cup {s}
             x == invoice[i].unresolved \cup {s} y == invoice[i].failed \ {s}
  <2>1. \/ invoice' = [invoice EXCEPT ![i].unresolved = u, ![i].failed = d]
        \/ invoice' = [invoice EXCEPT ![i].unresolved = v, ![i].failed = w]
        \/ invoice' = [invoice EXCEPT ![i].unresolved = x, ![i].failed = y]
    BY <1>0, <1>8 DEF CreateAttempt, AttemptFails, AttemptConflicts, Invoice
  <2>2. /\ u \in SUBSET Shifts /\ v \in SUBSET Shifts /\ x \in SUBSET Shifts
        /\ d \in SUBSET Shifts /\ w \in SUBSET Shifts /\ y \in SUBSET Shifts
    BY <1>0 DEF Invoice
  <2> HIDE DEF u, v, w, x, y, d
  <2>. QED BY <1>7, <2>1, <2>2
<1>9. ASSUME NEW i \in Invoices, NEW s \in Shifts, NEW amount \in Amounts,
             CashRefund(i, s, amount)
      PROVE  Final
  <2> DEFINE st == IF RefundedAmount(i) + amount = invoice[i].total
                   THEN "REFUNDED" ELSE "PARTIALLY_REFUNDED"
             row == [invoice[i] EXCEPT !.status = st]
  <2>1. /\ invoice' = [invoice EXCEPT ![i] = row]
        /\ invoice[i].status \in {"PAID", "PARTIALLY_REFUNDED"}
    BY <1>9 DEF CashRefund
  <2>2. row \in Invoice /\ row.status \in PaidStatus /\ row.shift = invoice[i].shift
    BY <1>0 DEF Invoice, PaidStatus
  <2> HIDE DEF row
  <2>. QED BY <1>2, <2>1, <2>2 DEF PaidStatus
<1>10. CASE InvoiceStep
  BY <1>3, <1>4, <1>5, <1>6, <1>8, <1>9, <1>10 DEF InvoiceStep
<1>11. CASE ShiftStep \/ RequestStep
  BY <1>1, <1>11 DEF ShiftStep, RequestStep, OpenShift, AddIncome, AddExpense, RequestExpense,
     CloseShift, CloseWith, ApproveExpenseRequest, ResolveExpenseRequest
<1>12. CASE UNCHANGED desk
  BY <1>1, <1>12 DEF desk
<1>13. CASE FundStep \/ HandoverStep \/ StatementStep
  <2>1. CASE FundStep
    BY <2>1, <1>12 DEF FundStep, CreateFund, UpdateFund, RemoveFund
  <2>2. CASE HandoverStep
    <3>1. ASSUME NEW h \in Handovers, NEW s \in Shifts, NEW d \in Funds,
                 NEW retained \in 0 .. MaxCount, RequestHandover(h, s, d, retained)
          PROVE  UNCHANGED desk
      BY <3>1 DEF RequestHandover
    <3>2. ASSUME NEW h \in Handovers, NEW e \in Employees, ApproveHandover(h, e)
          PROVE  UNCHANGED desk
      BY <3>2 DEF ApproveHandover
    <3>3. ASSUME NEW h \in Handovers, DeclineHandover(h) PROVE UNCHANGED desk
      BY <3>3 DEF DeclineHandover
    <3>4. ASSUME NEW h \in Handovers, NEW reference \in References,
                 RegisterDeposit(h, reference)
          PROVE  UNCHANGED desk
      BY <3>4 DEF RegisterDeposit
    <3>5. ASSUME NEW h \in Handovers, NEW e \in Employees, NEW reference \in References,
                 Settle(h, e, reference)
          PROVE  UNCHANGED desk
      BY <3>5 DEF Settle
    <3>. QED BY <2>2, <3>1, <3>2, <3>3, <3>4, <3>5, <1>12 DEF HandoverStep
  <2>3. CASE StatementStep
    <3>1. ASSUME NEW f \in Funds, FindBankFund(f) PROVE UNCHANGED desk
      BY <3>1 DEF FindBankFund
    <3>2. ASSUME NEW x \in Entries, NEW f \in Funds, NEW amount \in Amounts,
                 NEW status \in {"UNMATCHED", "IGNORED"},
                 NEW reference \in References \cup {NoReference},
                 CreateImport(x, f, amount, reference, status)
          PROVE  UNCHANGED desk
      BY <3>2 DEF CreateImport
    <3>3. ASSUME NEW x \in Entries, MarkUnmatched(x) \/ MarkForReview(x) \/ IgnoreEntry(x)
          PROVE  UNCHANGED desk
      BY <3>3 DEF MarkUnmatched, MarkForReview, IgnoreEntry
    <3>4. ASSUME NEW x \in Entries, NEW h \in Handovers, MarkMismatch(x, h)
          PROVE  UNCHANGED desk
      BY <3>4 DEF MarkMismatch
    <3>5. ASSUME NEW x \in Entries, NEW h \in Handovers, NEW e \in Employees,
                 MatchEntry(x, h, e) \/ SettlementRefused(x, h, e)
          PROVE  UNCHANGED desk
      BY <3>5 DEF MatchEntry, SettlementRefused
    <3>. QED BY <2>3, <3>1, <3>2, <3>3, <3>4, <3>5, <1>12 DEF StatementStep
  <2>. QED BY <1>13, <2>1, <2>2, <2>3
<1>14. CASE UNCHANGED vars
  BY <1>1, <1>14 DEF vars
<1>. QED BY <1>10, <1>11, <1>12, <1>13, <1>14 DEF Next

\* The sales of a closed shift are final.
THEOREM ClosedShiftsFinal == Spec => ClosedShiftFinal
<1>1. Inv /\ [Next]_vars => [Final]_vars
  BY FinalStep
<1>2. Spec => [][Final]_vars
  BY <1>1, InvHolds, PTL DEF Spec
<1>. QED
  BY <1>2, PTL DEF ClosedShiftFinal, Final
=============================================================================
