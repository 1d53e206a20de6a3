------------------------------- MODULE Orders -------------------------------
(***************************************************************************)
(* Tables, order sessions, order lines, invoices and the stock behind them *)
(* (orders.service.ts, invoices.service.ts, dining-tables.service.ts,      *)
(* inventory-consumption.service.ts, inventory-movement.service.ts).       *)
(* Every operation is one serializable transaction, hence one action, and  *)
(* any member of staff may call any of them at any time: what one screen   *)
(* shows may be out of date when its request arrives.                      *)
(*                                                                         *)
(* Abstractions.  One ingredient stands for all: ingredients only meet in  *)
(* the all-or-nothing of a transaction.  Prices, notes, tickets and print  *)
(* jobs are left out.  A refusal is a step not taken; so are the refusals  *)
(* of other components (no open shift, inactive employee, unavailable menu *)
(* item, unresolved online payment).  Lines added by one request do not    *)
(* read each other and are added one by one.  Accepted online orders,      *)
(* which the operations here refuse, are not part of this module.          *)
(***************************************************************************)
EXTENDS Integers, FiniteSets, Functions, Sums

CONSTANTS Tables, Sessions, Items, Invoices,
          NoTable, NoSession, NoInvoice,
          MaxQuantity,          \* bound: quantity of a line
          Recipes,              \* quantityPerItem of the recipes in use
          MaxStock              \* bound: stock on hand

ASSUME OrderConstants ==
  /\ IsFiniteSet(Items)
  /\ NoTable \notin Tables /\ NoSession \notin Sessions /\ NoInvoice \notin Invoices
  /\ MaxQuantity \in Nat \ {0} /\ MaxStock \in Nat
  /\ Recipes \subseteq Nat

VARIABLES table,      \* status of each dining table
          session,    \* the OrderSession rows
          item,       \* the OrderItem rows with their reservation and snapshot
          invoice,    \* the Invoice rows
          stock,      \* InventoryItem.stock
          reserved,   \* InventoryItem.reservedStock
          moved       \* ledger: imports less exports that no order caused

vars == <<table, session, item, invoice, stock, reserved, moved>>
store == <<stock, reserved, moved>>

ServeStatus == {"PENDING", "COOKING", "READY", "SERVED", "CANCELLED"}
Session == [status : {"NONE", "ACTIVE", "COMPLETED", "CANCELLED"},
            table : Tables \cup {NoTable}]
NoSessionRow == [status |-> "NONE", table |-> NoTable]
Invoice == [status : {"NONE", "UNPAID", "PAID", "VOIDED"},
            session : Sessions \cup {NoSession}]
NoInvoiceRow == [status |-> "NONE", session |-> NoSession]
\* held: its InventoryReservation.  used: its OrderItemIngredientSnapshot.
\* waste: an InventoryWaste row exists.  role: as OrderRemake relates it.
OrderItem ==
  [status : ServeStatus \cup {"NONE"}, session : Sessions \cup {NoSession},
   invoice : Invoices \cup {NoInvoice}, paid : BOOLEAN, quantity : 0 .. MaxQuantity,
   recipe : Recipes \cup {0}, held : Nat, used : Nat, waste : BOOLEAN,
   role : {"plain", "remade", "replacement"}]
NoItemRow ==
  [status |-> "NONE", session |-> NoSession, invoice |-> NoInvoice, paid |-> FALSE,
   quantity |-> 0, recipe |-> 0, held |-> 0, used |-> 0, waste |-> FALSE,
   role |-> "plain"]

Init ==
  /\ table = [t \in Tables |-> "NONE"]
  /\ session = [s \in Sessions |-> NoSessionRow]
  /\ item = [i \in Items |-> NoItemRow]
  /\ invoice = [v \in Invoices |-> NoInvoiceRow]
  /\ stock = 0
  /\ reserved = 0
  /\ moved = 0

Active(s) == session[s].status = "ACTIVE"
DineIn(s) == session[s].table # NoTable
ItemsOf(s) == {i \in Items : item[i].session = s}
Unbilled(i) == ~item[i].paid /\ item[i].invoice = NoInvoice
Prepared == {"COOKING", "READY", "SERVED"}
Need(row) == row.recipe * row.quantity

-----------------------------------------------------------------------------
(* Dining tables and stock movements.                                      *)

CreateTable(t) ==
  /\ table[t] = "NONE"
  /\ table' = [table EXCEPT ![t] = "EMPTY"]
  /\ UNCHANGED <<session, item, invoice, store>>

DeleteTable(t) ==
  /\ table[t] = "EMPTY"
  /\ \A s \in Sessions : Active(s) => session[s].table # t
  /\ table' = [table EXCEPT ![t] = "DELETED"]
  /\ UNCHANGED <<session, item, invoice, store>>

ImportItem(quantity) ==
  /\ stock + quantity <= MaxStock
  /\ stock' = stock + quantity
  /\ moved' = moved + quantity
  /\ UNCHANGED <<table, session, item, invoice, reserved>>

\* Mutant: what is promised to paid orders may be carried off.
ExportAnything(quantity) ==
  /\ stock >= quantity
  /\ stock' = stock - quantity
  /\ moved' = moved - quantity
  /\ UNCHANGED <<table, session, item, invoice, reserved>>
ExportItem(quantity) ==
  /\ stock >= quantity + reserved
  /\ stock' = stock - quantity
  /\ moved' = moved - quantity
  /\ UNCHANGED <<table, session, item, invoice, reserved>>

-----------------------------------------------------------------------------
(* Reservations, within the transactions that make and release them.       *)

\* reservePendingItems: reserve what the pending lines of is do not hold yet.
\* A reservation that differs from the line is a conflict.
Reservable(rows, is) == {i \in is : rows[i].status = "PENDING" /\ rows[i].held = 0}
Shortfall(rows, is) == Total([i \in Items |-> Need(rows[i])], Reservable(rows, is))
ReservePendingItems(rows, is) ==
  /\ \A i \in is : rows[i].status = "PENDING" => rows[i].held \in {0, Need(rows[i])}
  /\ stock - reserved >= Shortfall(rows, is)
  /\ reserved' = reserved + Shortfall(rows, is)
  /\ item' = [i \in Items |-> IF i \in Reservable(rows, is)
                              THEN [rows[i] EXCEPT !.held = Need(rows[i])] ELSE rows[i]]

Released(row) == [row EXCEPT !.held = 0]
Held(is) == Total([i \in Items |-> item[i].held], is)

-----------------------------------------------------------------------------
(* Sessions and their lines.                                               *)

\* createOrderSession: at a table, or for takeaway.
OpenSession(s, t) ==
  /\ session[s].status = "NONE"
  /\ t # NoTable => table[t] = "EMPTY"
  /\ table' = IF t = NoTable THEN table ELSE [table EXCEPT ![t] = "OCCUPIED"]
  /\ session' = [session EXCEPT ![s] = [status |-> "ACTIVE", table |-> t]]
  /\ UNCHANGED <<item, invoice, store>>

\* addOrderItemsInTransaction: the recipe is a snapshot.
AddOrderItem(i, s, quantity, recipe) ==
  /\ item[i].status = "NONE"
  /\ Active(s)
  /\ item' = [item EXCEPT ![i] = [NoItemRow EXCEPT
       !.status = "PENDING", !.session = s, !.quantity = quantity, !.recipe = recipe]]
  /\ UNCHANGED <<table, session, invoice, store>>

\* assertServeStatusTransition
Transition(from, to) ==
  \/ from = "PENDING" /\ to = "COOKING"
  \/ from = "COOKING" /\ to \in {"READY", "SERVED"}
  \/ from = "READY" /\ to = "SERVED"

\* Mutant: the line's own reservation is not given back when it is used.
ConsumeAndKeep(i) ==
  LET row == item[i] IN
  /\ stock - reserved >= Need(row) - row.held
  /\ stock' = stock - Need(row)
  /\ reserved' = reserved
  /\ item' = [item EXCEPT ![i] = [Released(row) EXCEPT !.status = "COOKING",
                                                        !.used = Need(row)]]
  /\ UNCHANGED moved
\* The refusals of consumeOrderItem: a reservation that differs from the line,
\* or too little free stock for what the line does not hold.
CanConsume(i) ==
  LET row == item[i] IN
  /\ row.held \in {0, Need(row)}
  /\ reserved >= row.held
  /\ stock - reserved >= Need(row) - row.held
\* consumeOrderItem: the line takes its own reservation, or free stock.
ConsumeOrderItem(i) ==
  LET row == item[i] IN
  /\ CanConsume(i)
  /\ stock' = stock - Need(row)
  /\ reserved' = reserved - row.held
  /\ item' = [item EXCEPT ![i] = [Released(row) EXCEPT !.status = "COOKING",
                                                        !.used = Need(row)]]
  /\ UNCHANGED moved

\* Where the kitchen may still work on a line.
Workable(i) ==
  LET s == item[i].session IN
  /\ session[s].status # "CANCELLED"
  /\ session[s].status = "COMPLETED" =>
       item[i].invoice # NoInvoice \/ item[i].role = "replacement"

\* changeItemStatus
ChangeItemStatus(i, to) ==
  /\ item[i].status \notin {"NONE", "CANCELLED"}
  /\ Workable(i)
  /\ to = "READY" => ~DineIn(item[i].session)
  /\ Transition(item[i].status, to)
  /\ IF to = "COOKING" THEN ConsumeOrderItem(i)
     ELSE item' = [item EXCEPT ![i].status = to] /\ UNCHANGED store
  /\ UNCHANGED <<table, session, invoice>>

\* cancelItem: of an open bill, or a replacement that was not handed over.
CancelItem(i) ==
  LET row == item[i] IN
  /\ row.status \notin {"NONE", "CANCELLED"}
  /\ IF row.role = "replacement"
     THEN session[row.session].status # "CANCELLED" /\ row.status # "SERVED"
     ELSE Unbilled(i) /\ Active(row.session)
  /\ item' = [item EXCEPT ![i] = [Released(row) EXCEPT
       !.status = "CANCELLED", !.waste = row.status \in Prepared /\ row.used > 0]]
  /\ reserved' = reserved - row.held
  /\ UNCHANGED <<table, session, invoice, stock, moved>>

\* remakeItem: a paid line that was handed over is made again, once.
RemakeItem(i, j) ==
  LET row == item[i] IN
  /\ item[j].status = "NONE"
  /\ row.paid /\ row.status = "SERVED" /\ row.role = "plain"
  /\ row.invoice # NoInvoice /\ invoice[row.invoice].status = "PAID"
  /\ session[row.session].status # "CANCELLED"
  /\ DineIn(row.session) => Active(row.session)
  /\ item' = [item EXCEPT
       ![i].role = "remade", ![i].waste = row.used > 0,
       ![j] = [NoItemRow EXCEPT
         !.status = "PENDING", !.session = row.session, !.paid = TRUE,
         !.quantity = row.quantity, !.recipe = row.recipe, !.role = "replacement"]]
  /\ UNCHANGED <<table, session, invoice, store>>

\* Lines that nobody has begun to cook are cancelled, the others prevent it.
Discard(s) ==
  /\ \A i \in ItemsOf(s) : Unbilled(i) /\ item[i].status \notin Prepared
  /\ item' = [i \in Items |-> IF item[i].session = s
                THEN [Released(item[i]) EXCEPT !.status = "CANCELLED"] ELSE item[i]]
  /\ reserved' = reserved - Held(ItemsOf(s))
  /\ session' = [session EXCEPT ![s].status = "CANCELLED"]
  /\ UNCHANGED <<invoice, stock, moved>>

CancelSession(s) ==
  /\ Active(s)
  /\ Discard(s)
  /\ table' = IF DineIn(s) THEN [table EXCEPT ![session[s].table] = "EMPTY"] ELSE table

\* clearTable, of the session the screen showed, if any.
ClearTable(t) ==
  /\ table[t] \in {"EMPTY", "OCCUPIED"}
  /\ table' = [table EXCEPT ![t] = "EMPTY"]
  /\ \/ \E s \in Sessions : Active(s) /\ session[s].table = t /\ Discard(s)
     \/ /\ \A s \in Sessions : Active(s) => session[s].table # t
        /\ UNCHANGED <<session, item, invoice, store>>

\* completeSession: the guests have left.
CompleteSession(s) ==
  /\ Active(s) /\ DineIn(s)
  /\ \A i \in ItemsOf(s) : item[i].status # "CANCELLED" =>
       item[i].paid /\ item[i].status = "SERVED"
  /\ table[session[s].table] = "OCCUPIED"
  /\ table' = [table EXCEPT ![session[s].table] = "EMPTY"]
  /\ session' = [session EXCEPT ![s].status = "COMPLETED"]
  /\ UNCHANGED <<item, invoice, store>>

-----------------------------------------------------------------------------
(* Moving guests between tables.                                           *)

\* Mutant: the table the guests left stays occupied.
TransferKeepingTable(s, t) ==
  /\ Active(s) /\ DineIn(s)
  /\ table[t] = "EMPTY"
  /\ table' = [table EXCEPT ![t] = "OCCUPIED"]
  /\ session' = [session EXCEPT ![s].table = t]
  /\ UNCHANGED <<item, invoice, store>>
TransferTable(s, t) ==
  LET from == session[s].table IN
  /\ Active(s) /\ DineIn(s)
  /\ table[from] \in {"EMPTY", "OCCUPIED"}
  /\ table[t] = "EMPTY"
  /\ \A o \in Sessions : Active(o) => session[o].table # t
  /\ table' = [table EXCEPT ![t] = "OCCUPIED",
                            ![from] = IF @ = "OCCUPIED" THEN "EMPTY" ELSE @]
  /\ session' = [session EXCEPT ![s].table = t]
  /\ UNCHANGED <<item, invoice, store>>

\* mergeTables: the lines of several sessions go to one of them.
MergeTables(from, to) ==
  /\ from # {} /\ to \notin from
  /\ \A s \in from \cup {to} : /\ Active(s) /\ DineIn(s)
                               /\ \A i \in ItemsOf(s) : Unbilled(i)
  /\ \A s \in from : session[s].table # session[to].table
  /\ item' = [i \in Items |-> IF item[i].session \in from
                              THEN [item[i] EXCEPT !.session = to] ELSE item[i]]
  /\ session' = [s \in Sessions |-> IF s \in from
                   THEN [session[s] EXCEPT !.status = "COMPLETED"] ELSE session[s]]
  /\ table' = [t \in Tables |->
                 IF \E s \in from : session[s].table = t THEN "EMPTY" ELSE table[t]]
  /\ UNCHANGED <<invoice, store>>

\* Mutant: billed lines may be moved too.
AnyLine(i, s) == item[i].session = s /\ item[i].status # "CANCELLED"
\* What splitTable demands of a line of its request.
Splittable(i, s) ==
  item[i].session = s /\ Unbilled(i) /\ item[i].status # "CANCELLED"

\* splitTable: some lines of s, whole or in part, become session n at table
\* t.  take gives the quantity to move, copy the new line of a divided one.
SplitTable(s, n, t) ==
  /\ Active(s)
  /\ session[n].status = "NONE"
  /\ table[t] = "EMPTY"
  /\ \A o \in Sessions : Active(o) => session[o].table # t
  /\ \E lines \in SUBSET {i \in Items : Splittable(i, s)} \ {{}} :
     \E take \in [lines -> 1 .. MaxQuantity] :
     LET divided == {i \in lines : take[i] < item[i].quantity} IN
     /\ \A i \in lines : take[i] <= item[i].quantity
     /\ \A i \in divided : item[i].status = "PENDING"
     /\ \E copy \in Injection(divided, {i \in Items : item[i].status = "NONE"}) :
          item' = [j \in Items |->
            CASE j \in divided -> [item[j] EXCEPT !.quantity = @ - take[j]]
              [] j \in lines \ divided -> [item[j] EXCEPT !.session = n]
              [] j \notin lines ->
                   IF \E i \in divided : copy[i] = j
                   THEN LET i == CHOOSE i \in divided : copy[i] = j
                        IN  [NoItemRow EXCEPT !.status = item[i].status, !.session = n,
                               !.quantity = take[i], !.recipe = item[i].recipe]
                   ELSE item[j]]
  /\ table' = [table EXCEPT ![t] = "OCCUPIED"]
  /\ session' = [session EXCEPT ![n] = [status |-> "ACTIVE", table |-> t]]
  /\ UNCHANGED <<invoice, store>>

-----------------------------------------------------------------------------
(* Bills.                                                                  *)

\* Mutant: lines that were billed but not paid are overlooked.
CloseIfBilled(s, rows) ==
  IF Active(s) /\ ~DineIn(s) /\ \A i \in Items :
       rows[i].session = s /\ rows[i].status # "CANCELLED" =>
         rows[i].paid \/ rows[i].invoice # NoInvoice
  THEN [session EXCEPT ![s].status = "COMPLETED"] ELSE session
\* closeSessionIfFullyPaid: takeaway only.
CloseSessionIfFullyPaid(s, rows) ==
  IF Active(s) /\ ~DineIn(s) /\ \A i \in Items :
       rows[i].session = s /\ rows[i].status # "CANCELLED" => rows[i].paid
  THEN [session EXCEPT ![s].status = "COMPLETED"] ELSE session

\* createInvoiceInTransaction, by createInvoice (paid = FALSE) and by
\* checkoutInvoice, for chosen lines or for all that are not billed.
CreateInvoice(v, s, is, paid, close) ==
  LET rows == [i \in Items |-> IF i \in is
                 THEN [item[i] EXCEPT !.invoice = v, !.paid = paid] ELSE item[i]]
  IN
  /\ invoice[v].status = "NONE"
  /\ Active(s)
  /\ is # {}
  /\ \A i \in is : item[i].session = s /\ Unbilled(i) /\ item[i].status # "CANCELLED"
  /\ ReservePendingItems(rows, is)
  /\ invoice' = [invoice EXCEPT ![v] =
       [status |-> IF paid THEN "PAID" ELSE "UNPAID", session |-> s]]
  /\ session' = IF paid /\ close THEN CloseSessionIfFullyPaid(s, rows) ELSE session
  /\ UNCHANGED <<table, stock, moved>>

PaidLines(v) ==
  [i \in Items |-> IF item[i].invoice = v THEN [item[i] EXCEPT !.paid = TRUE] ELSE item[i]]
Pay(v, close) ==
  /\ invoice[v].status = "UNPAID"
  /\ invoice' = [invoice EXCEPT ![v].status = "PAID"]
  /\ session' = IF close THEN CloseSessionIfFullyPaid(invoice[v].session, PaidLines(v))
                         ELSE session
  /\ UNCHANGED <<table, stock, moved>>

\* updatePayment: at the counter.
UpdatePayment(v, close) ==
  /\ Pay(v, close)
  /\ ReservePendingItems(PaidLines(v), {i \in Items : item[i].invoice = v})

\* completeOnlinePayment: reported by a provider; nothing is reserved here.
CompleteOnlinePayment(v, close) ==
  /\ Pay(v, close)
  /\ item' = PaidLines(v)
  /\ UNCHANGED reserved

VoidInvoice(v) ==
  LET pending == {i \in Items : item[i].invoice = v /\ item[i].status = "PENDING"} IN
  /\ invoice[v].status = "UNPAID"
  /\ invoice' = [invoice EXCEPT ![v].status = "VOIDED"]
  /\ reserved' = reserved - Held(pending)
  /\ item' = [i \in Items |->
       LET row == IF i \in pending THEN Released(item[i]) ELSE item[i]
       IN  IF row.invoice = v /\ ~row.paid THEN [row EXCEPT !.invoice = NoInvoice] ELSE row]
  /\ UNCHANGED <<table, session, stock, moved>>

-----------------------------------------------------------------------------
Next ==
  \/ \E t \in Tables : CreateTable(t) \/ DeleteTable(t) \/ ClearTable(t)
  \/ \E q \in 1 .. MaxStock : ImportItem(q) \/ ExportItem(q)
  \/ \E s \in Sessions :
       \/ \E t \in Tables \cup {NoTable} : OpenSession(s, t)
       \/ \E i \in Items, q \in 1 .. MaxQuantity, r \in Recipes : AddOrderItem(i, s, q, r)
       \/ CancelSession(s) \/ CompleteSession(s)
       \/ \E t \in Tables : TransferTable(s, t)
       \/ \E from \in SUBSET Sessions : MergeTables(from, s)
       \/ \E n \in Sessions, t \in Tables : SplitTable(s, n, t)
       \/ \E v \in Invoices, is \in SUBSET Items, paid, close \in BOOLEAN :
            CreateInvoice(v, s, is, paid, close)
  \/ \E i \in Items :
       \/ \E to \in ServeStatus : ChangeItemStatus(i, to)
       \/ CancelItem(i)
       \/ \E j \in Items : RemakeItem(i, j)
  \/ \E v \in Invoices, close \in BOOLEAN :
       UpdatePayment(v, close) \/ CompleteOnlinePayment(v, close)
  \/ \E v \in Invoices : VoidInvoice(v)

Spec == Init /\ [][Next]_vars

-----------------------------------------------------------------------------
(* Properties.                                                             *)

\* The rows hold values of their columns, and refer to rows that exist.
TypeOK ==
  /\ table \in [Tables -> {"NONE", "EMPTY", "OCCUPIED", "DELETED"}]
  /\ session \in [Sessions -> Session]
  /\ item \in [Items -> OrderItem]
  /\ invoice \in [Invoices -> Invoice]
  /\ \A i \in Items : item[i].status # "NONE" =>
       item[i].session \in Sessions /\ session[item[i].session].status # "NONE"
  /\ stock \in Nat /\ reserved \in Nat /\ moved \in Nat

\* A table is occupied exactly while one active session sits at it, whatever
\* transfers, splits, merges and deletions crossed: no guests without a
\* table of their own, and no table lost to guests who are gone.
TableMatchesSessions ==
  LET At(t) == {s \in Sessions : Active(s) /\ session[s].table = t} IN
  \A t \in Tables : /\ table[t] = "OCCUPIED" => \E s \in Sessions : At(t) = {s}
                    /\ table[t] # "OCCUPIED" => At(t) = {}

\* A session ends clean: what is neither paid nor cancelled is in an active
\* session, so it can still be billed; guests leave no dish behind them; a
\* cancelled session has only cancelled lines.
SessionsEndClean ==
  \A i \in Items : item[i].status \notin {"NONE", "CANCELLED"} =>
    LET s == item[i].session IN
    /\ session[s].status # "CANCELLED"
    /\ session[s].status = "COMPLETED" =>
         item[i].paid /\ (DineIn(s) => item[i].status = "SERVED")

\* A line holds stock exactly while it is billed and waits for the kitchen,
\* and as much as it needs: the conflicts the code raises for a reservation
\* that no longer matches cannot occur.
BilledIsReserved ==
  \A i \in Items :
    item[i].held = IF item[i].status = "PENDING" /\ item[i].invoice # NoInvoice
                   THEN Need(item[i]) ELSE 0

\* Reservations match the lines (createInvoice, voidInvoice, splitTable and
\* the cancellations keep them so), reservedStock is their sum and never more
\* than the stock, and what left the stock is what the cooked lines used.
StockBalances ==
  /\ TypeOK /\ BilledIsReserved
  /\ reserved = Held(Items)
  /\ reserved <= stock
  /\ stock + Total([i \in Items |-> item[i].used], Items) = moved

\* A guest who has paid is never told that an ingredient ran out: for a paid
\* line, unless it is a free replacement, changeItemStatus refuses nothing
\* when the kitchen begins to cook it.
PaidIsCookable ==
  \A i \in Items :
    item[i].paid /\ item[i].status = "PENDING" /\ item[i].role # "replacement" =>
      Workable(i) /\ CanConsume(i)

\* A bill and its lines agree: they are paid together, stay in the session
\* that was billed, and a void bill has none.
BillsMatchLines ==
  \A i \in Items : item[i].invoice # NoInvoice =>
    LET v == item[i].invoice IN
    /\ item[i].status \notin {"NONE", "CANCELLED"}
    /\ invoice[v].status \in {"UNPAID", "PAID"}
    /\ item[i].paid <=> invoice[v].status = "PAID"
    /\ invoice[v].session = item[i].session

\* Food is accounted for: a line used ingredients exactly if it was cooked,
\* and they count as waste exactly if it was then cancelled or made again.
WasteRecorded ==
  \A i \in Items :
    /\ item[i].status \in {"NONE", "PENDING"} => item[i].used = 0
    /\ item[i].status \in Prepared => item[i].used = Need(item[i])
    /\ item[i].waste <=> item[i].used > 0
                         /\ (item[i].status = "CANCELLED" \/ item[i].role = "remade")

\* The kitchen can cook what was paid for, and what it cooked is accounted
\* for: changeItemStatus neither refuses a paid line nor loses ingredients.
KitchenKeepsPromise == PaidIsCookable /\ WasteRecorded
=============================================================================
