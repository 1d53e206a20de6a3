---------------------------- MODULE OrdersProofs ----------------------------
(***************************************************************************)
(* Proofs about tables, sessions, lines, bills and stock, for any number   *)
(* of each.                                                                *)
(*                                                                         *)
(* The properties lean on each other: that a paid line can be cooked rests *)
(* on its reservation, this on its bill, the bill on the session it stays  *)
(* in.  The inductive invariant states them for one line at a time (what   *)
(* its row says, how it stands to its session and to its bill), adds that  *)
(* a row nobody has used is blank and that free replacements are the only  *)
(* paid lines without a bill, and ties the rows to the stock by their sum. *)
(***************************************************************************)
EXTENDS Orders, SumTheorems

\* One row by itself.
LineOK(row) ==
  /\ row \in OrderItem
  /\ row.status = "NONE" => row = NoItemRow
  /\ row.held = IF row.status = "PENDING" /\ row.invoice # NoInvoice THEN Need(row) ELSE 0
  /\ row.role = "replacement" => row.paid /\ row.invoice = NoInvoice
  /\ row.paid /\ row.role # "replacement" => row.invoice # NoInvoice
  /\ row.invoice # NoInvoice => row.status \notin {"NONE", "CANCELLED"}
  /\ row.role = "remade" => row.paid /\ row.status = "SERVED"
  /\ row.status \in {"NONE", "PENDING"} => row.used = 0
  /\ row.status \in Prepared => row.used = Need(row)
  /\ row.waste <=> row.used > 0 /\ (row.status = "CANCELLED" \/ row.role = "remade")

\* A row and its session.
Seated(row, ses) ==
  row.status # "NONE" =>
    /\ row.session \in Sessions
    /\ ses[row.session].status # "NONE"
    /\ row.status # "CANCELLED" =>
         /\ ses[row.session].status # "CANCELLED"
         /\ ses[row.session].status = "COMPLETED" =>
              row.paid /\ (ses[row.session].table # NoTable => row.status = "SERVED")

\* A row and its bill.
Billed(row, inv) ==
  row.invoice # NoInvoice =>
    /\ inv[row.invoice].status \in {"UNPAID", "PAID"}
    /\ row.paid <=> inv[row.invoice].status = "PAID"
    /\ inv[row.invoice].session = row.session

\* The columns of the other tables.
Columns ==
  /\ table \in [Tables -> {"NONE", "EMPTY", "OCCUPIED", "DELETED"}]
  /\ session \in [Sessions -> Session]
  /\ invoice \in [Invoices -> Invoice]
  /\ stock \in Nat /\ reserved \in Nat /\ moved \in Nat

Lines ==
  /\ item \in [Items -> OrderItem]
  /\ \A i \in Items : LineOK(item[i]) /\ Seated(item[i], session) /\ Billed(item[i], invoice)

\* What the rows add up to.
HeldBy(rows) == Total([i \in Items |-> rows[i].held], Items)
UsedBy(rows) == Total([i \in Items |-> rows[i].used], Items)
Balanced ==
  /\ reserved = HeldBy(item)
  /\ reserved <= stock
  /\ stock + UsedBy(item) = moved

\* Guests and tables.
Seats(tab, ses) ==
  /\ \A s \in Sessions : ses[s].status = "ACTIVE" /\ ses[s].table # NoTable =>
       tab[ses[s].table] = "OCCUPIED"
  /\ \A s, o \in Sessions :
       ses[s].status = "ACTIVE" /\ ses[o].status = "ACTIVE" /\ ses[s].table = ses[o].table =>
         s = o \/ ses[s].table = NoTable
  /\ \A t \in Tables : tab[t] = "OCCUPIED" =>
       \E s \in Sessions : ses[s].status = "ACTIVE" /\ ses[s].table = t

Inv == Columns /\ Lines /\ Balanced /\ Seats(table, session)

-----------------------------------------------------------------------------
(* Rows and their sums.                                                    *)

\* Recipes and quantities are whole numbers.
LEMMA NeedNat == ASSUME NEW row \in OrderItem PROVE Need(row) \in Nat
<1>1. row.recipe \in Nat /\ row.quantity \in Nat
  <2>1. row.recipe \in Recipes \cup {0} /\ row.quantity \in 0 .. MaxQuantity
    BY DEF OrderItem
  <2>2. Recipes \cup {0} \subseteq Nat /\ 0 .. MaxQuantity \subseteq Nat
    BY OrderConstants
  <2>. QED BY <2>1, <2>2
<1>2. \A m, n \in Nat : m * n \in Nat
  OBVIOUS
<1>. QED BY <1>1, <1>2 DEF Need

\* The blank row.
LEMMA BlankRow ==
  /\ LineOK(NoItemRow)
  /\ NoItemRow.status = "NONE" /\ NoItemRow.session = NoSession
  /\ NoItemRow.invoice = NoInvoice /\ ~NoItemRow.paid /\ NoItemRow.held = 0
  /\ NoItemRow.used = 0 /\ NoItemRow.role = "plain" /\ NoItemRow.waste = FALSE
<1>1. NoItemRow \in OrderItem
  BY OrderConstants DEF NoItemRow, OrderItem
<1>2. /\ NoItemRow.status = "NONE" /\ NoItemRow.session = NoSession
      /\ NoItemRow.invoice = NoInvoice /\ ~NoItemRow.paid /\ NoItemRow.held = 0
      /\ NoItemRow.used = 0 /\ NoItemRow.role = "plain" /\ NoItemRow.waste = FALSE
  BY DEF NoItemRow
<1>. QED BY <1>1, <1>2 DEF LineOK, Prepared

\* Rows with whole numbers can be summed up.
LEMMA SumsNat ==
  ASSUME NEW rows \in [Items -> OrderItem]
  PROVE  /\ HeldBy(rows) \in Nat /\ UsedBy(rows) \in Nat
         /\ \A i \in Items : rows[i].held \in Nat /\ rows[i].used \in Nat
         /\ \A i \in Items : rows[i].held <= HeldBy(rows)
<1> DEFINE h == [i \in Items |-> rows[i].held]
           u == [i \in Items |-> rows[i].used]
<1>1. \A i \in Items : rows[i].held \in Nat /\ rows[i].used \in Nat
  BY DEF OrderItem
<1>2. \A i \in Items : h[i] \in Nat /\ u[i] \in Nat /\ h[i] = rows[i].held
  BY <1>1
<1>3. IsFiniteSet(Items)
  BY OrderConstants
<1>4. HeldBy(rows) = Total(h, Items) /\ UsedBy(rows) = Total(u, Items)
  BY DEF HeldBy, UsedBy
<1> HIDE DEF h, u
<1>5. /\ Total(h, Items) \in Nat /\ Total(u, Items) \in Nat
      /\ \A i \in Items : h[i] <= Total(h, Items)
  BY <1>2, <1>3, TotalNat
<1>. QED BY <1>1, <1>2, <1>4, <1>5

\* Rows that hold and have used the same add up to the same.
LEMMA SumsSame ==
  ASSUME NEW rows, NEW new
  PROVE  /\ (\A i \in Items : new[i].held = rows[i].held) => HeldBy(new) = HeldBy(rows)
         /\ (\A i \in Items : new[i].used = rows[i].used) => UsedBy(new) = UsedBy(rows)
<1>1. ASSUME \A i \in Items : new[i].held = rows[i].held
      PROVE  HeldBy(new) = HeldBy(rows)
  <2>1. [i \in Items |-> new[i].held] = [i \in Items |-> rows[i].held]
    BY <1>1
  <2>. QED BY <2>1 DEF HeldBy
<1>2. ASSUME \A i \in Items : new[i].used = rows[i].used
      PROVE  UsedBy(new) = UsedBy(rows)
  <2>1. [i \in Items |-> new[i].used] = [i \in Items |-> rows[i].used]
    BY <1>2
  <2>. QED BY <2>1 DEF UsedBy
<1>. QED BY <1>1, <1>2

\* When one row changes, the sums change by what it counts for.
LEMMA SumsChange ==
  ASSUME NEW rows \in [Items -> OrderItem], NEW i \in Items, NEW row \in OrderItem
  PROVE  LET new == [rows EXCEPT ![i] = row]
         IN  /\ HeldBy(new) = HeldBy(rows) - rows[i].held + row.held
             /\ UsedBy(new) = UsedBy(rows) - rows[i].used + row.used
<1> DEFINE new == [rows EXCEPT ![i] = row]
           h == [j \in Items |-> rows[j].held]
           k == [j \in Items |-> new[j].held]
           u == [j \in Items |-> rows[j].used]
           w == [j \in Items |-> new[j].used]
<1>1. new \in [Items -> OrderItem] /\ new[i] = row /\ \A j \in Items \ {i} : new[j] = rows[j]
  OBVIOUS
<1> HIDE DEF new
<1>2. \A j \in Items : /\ rows[j].held \in Nat /\ new[j].held \in Nat
                       /\ rows[j].used \in Nat /\ new[j].used \in Nat
  BY <1>1, SumsNat
<1>3. /\ \A j \in Items : h[j] \in Int /\ k[j] \in Int /\ u[j] \in Int /\ w[j] \in Int
      /\ \A j \in Items \ {i} : h[j] = k[j] /\ u[j] = w[j]
      /\ h[i] = rows[i].held /\ k[i] = row.held /\ u[i] = rows[i].used /\ w[i] = row.used
  BY <1>1, <1>2
<1>4. /\ HeldBy(rows) = Total(h, Items) /\ HeldBy(new) = Total(k, Items)
      /\ UsedBy(rows) = Total(u, Items) /\ UsedBy(new) = Total(w, Items)
  BY DEF HeldBy, UsedBy
<1> HIDE DEF h, k, u, w
<1>5. Total(k, Items) = Total(h, Items) - h[i] + k[i]
  BY <1>3, OrderConstants, TotalChange
<1>6. Total(w, Items) = Total(u, Items) - u[i] + w[i]
  BY <1>3, OrderConstants, TotalChange
<1>. QED BY <1>3, <1>4, <1>5, <1>6 DEF new

\* Lines that let go of what they hold lower the sum by it.
LEMMA SumsRelease ==
  ASSUME NEW rows \in [Items -> OrderItem], NEW new \in [Items -> OrderItem],
         NEW is \in SUBSET Items,
         \A i \in is : new[i].held = 0, \A i \in Items \ is : new[i].held = rows[i].held
  PROVE  HeldBy(new) = HeldBy(rows) - Total([i \in Items |-> rows[i].held], is)
<1> DEFINE h == [i \in Items |-> rows[i].held]
           k == [i \in Items |-> new[i].held]
<1>1. \A i \in Items : rows[i].held \in Nat
  BY SumsNat
<1>2. /\ \A i \in Items : h[i] \in Int
      /\ \A i \in Items \ is : k[i] = h[i]
      /\ \A i \in is : k[i] = 0
  BY <1>1
<1>3. HeldBy(rows) = Total(h, Items) /\ HeldBy(new) = Total(k, Items)
  BY DEF HeldBy
<1> HIDE DEF h, k
<1>4. IsFiniteSet(Items) /\ IsFiniteSet(is) /\ IsFiniteSet(Items \ is)
  BY OrderConstants, FS_Subset
<1>5. Total(h, Items) = Total(h, is) + Total(h, Items \ is)
  BY <1>2, <1>4, TotalParts
<1>6. Total(k, Items) = Total(h, Items \ is)
  <2>1. Items \ (Items \ is) = is
    OBVIOUS
  <2>2. \A i \in Items \ (Items \ is) : k[i] = 0
    BY <1>2
  <2>. QED BY <1>2, <1>4, <2>2, TotalMask
<1>7. Total(h, is) \in Int /\ Total(h, Items \ is) \in Int
  BY <1>2, <1>4, TotalType
<1>8. HeldBy(new) = HeldBy(rows) - Total(h, is)
  BY <1>3, <1>5, <1>6, <1>7
<1>. QED BY <1>8 DEF h

\* Lines that held nothing and now hold what they need raise the sum by it.
LEMMA SumsReserve ==
  ASSUME NEW rows \in [Items -> OrderItem], NEW new \in [Items -> OrderItem],
         NEW is \in SUBSET Items,
         \A i \in is : rows[i].held = 0 /\ new[i].held = Need(rows[i]),
         \A i \in Items \ is : new[i].held = rows[i].held
  PROVE  /\ HeldBy(new) = HeldBy(rows) + Total([i \in Items |-> Need(rows[i])], is)
         /\ Total([i \in Items |-> Need(rows[i])], is) \in Nat
<1> DEFINE h == [i \in Items |-> rows[i].held]
           k == [i \in Items |-> new[i].held]
           n == [i \in Items |-> Need(rows[i])]
           m == [i \in Items |-> IF i \in is THEN Need(rows[i]) ELSE 0]
<1>1. \A i \in Items : rows[i].held \in Nat /\ Need(rows[i]) \in Nat
  BY SumsNat, NeedNat
<1>2. \A i \in Items : h[i] \in Int /\ m[i] \in Int /\ n[i] \in Nat /\ k[i] = h[i] + m[i]
  BY <1>1
<1>3. /\ \A i \in is : n[i] \in Int /\ m[i] = n[i]
      /\ \A i \in Items \ is : m[i] = 0
  BY <1>1
<1>4. HeldBy(rows) = Total(h, Items) /\ HeldBy(new) = Total(k, Items)
  BY DEF HeldBy
<1> HIDE DEF h, k, n, m
<1>5. IsFiniteSet(Items) /\ IsFiniteSet(is)
  BY OrderConstants, FS_Subset
<1>6. Total(k, Items) = Total(h, Items) + Total(m, Items)
  BY <1>2, <1>5, TotalPlus
<1>7. Total(m, Items) = Total(n, is)
  BY <1>3, <1>5, TotalMask
<1>8. Total(n, is) \in Nat
  BY <1>2, <1>5, TotalNat
<1>9. HeldBy(new) = HeldBy(rows) + Total(n, is)
  BY <1>4, <1>6, <1>7
<1>. QED BY <1>8, <1>9 DEF n

-----------------------------------------------------------------------------
(* Steps.                                                                  *)

\* The first state.
LEMMA InitInv == Init => Inv
<1> SUFFICES ASSUME Init PROVE Inv
  OBVIOUS
<1>1. Columns
  BY OrderConstants DEF Init, Columns, Session, NoSessionRow, Invoice, NoInvoiceRow
<1>2. Lines
  <2>1. NoItemRow \in OrderItem /\ LineOK(NoItemRow)
    BY BlankRow DEF LineOK
  <2>2. Seated(NoItemRow, session) /\ Billed(NoItemRow, invoice)
    BY BlankRow DEF Seated, Billed
  <2>3. item = [i \in Items |-> NoItemRow]
    BY DEF Init
  <2>. QED BY <2>1, <2>2, <2>3 DEF Lines
<1>3. Balanced
  <2> DEFINE h == [i \in Items |-> item[i].held]
             u == [i \in Items |-> item[i].used]
  <2>1. \A i \in Items : h[i] = 0 /\ u[i] = 0
    BY BlankRow DEF Init
  <2>2. HeldBy(item) = Total(h, Items) /\ UsedBy(item) = Total(u, Items)
    BY DEF HeldBy, UsedBy
  <2> HIDE DEF h, u
  <2>3. Total(h, Items) = 0 /\ Total(u, Items) = 0
    BY <2>1, OrderConstants, TotalZero
  <2>4. stock = 0 /\ reserved = 0 /\ moved = 0
    BY DEF Init
  <2>. QED BY <2>2, <2>3, <2>4 DEF Balanced
<1>4. Seats(table, session)
  BY DEF Init, Seats, NoSessionRow
<1>. QED BY <1>1, <1>2, <1>3, <1>4 DEF Inv

\* What Inv says of one line.
LEMMA LineOf ==
  ASSUME Inv, NEW i \in Items
  PROVE  /\ LineOK(item[i]) /\ Seated(item[i], session) /\ Billed(item[i], invoice)
         /\ item[i] \in OrderItem
BY DEF Inv, Lines

\* Steps that touch no line and no stock.
LEMMA SameLines ==
  ASSUME Inv, UNCHANGED <<item, stock, reserved, moved>>
  PROVE  /\ Balanced' /\ item' \in [Items -> OrderItem]
         /\ \A i \in Items : LineOK(item'[i])
         /\ stock' \in Nat /\ reserved' \in Nat /\ moved' \in Nat
BY DEF Inv, Columns, Lines, Balanced, HeldBy, UsedBy

\* createTable and deleteTable, and clearTable of a table without guests.
LEMMA TableInv ==
  ASSUME Inv, NEW t \in Tables,
         \/ CreateTable(t) \/ DeleteTable(t)
         \/ /\ ClearTable(t) /\ UNCHANGED <<session, item, invoice, store>>
            /\ \A s \in Sessions : Active(s) => session[s].table # t
  PROVE  Inv'
<1>1. UNCHANGED <<session, item, invoice, store>>
  BY DEF CreateTable, DeleteTable
<1>2. UNCHANGED <<session, item, invoice, stock, reserved, moved>>
  BY <1>1 DEF store
<1>3. PICK v \in {"EMPTY", "DELETED"} : table' = [table EXCEPT ![t] = v]
  BY DEF CreateTable, DeleteTable, ClearTable
<1>4. table[t] = "OCCUPIED" => \A s \in Sessions : Active(s) => session[s].table # t
  BY DEF CreateTable, DeleteTable
<1>5. Columns'
  BY <1>2, <1>3 DEF Inv, Columns
<1>6. Lines' /\ Balanced'
  BY <1>2, SameLines DEF Inv, Lines
<1>7. Seats(table', session')
  BY <1>2, <1>3, <1>4 DEF Inv, Columns, Seats, Active
<1>. QED BY <1>5, <1>6, <1>7 DEF Inv, Seats

\* importItem and exportItem.
LEMMA MovementInv ==
  ASSUME Inv, NEW q \in 1 .. MaxStock, ImportItem(q) \/ ExportItem(q)
  PROVE  Inv'
<1>1. UNCHANGED <<table, session, item, invoice, reserved>>
  BY DEF ImportItem, ExportItem
<1>2. stock \in Nat /\ reserved \in Nat /\ moved \in Nat /\ q \in Nat
  BY OrderConstants DEF Inv, Columns
<1>3. UsedBy(item) \in Nat
  BY SumsNat DEF Inv, Lines
<1>4. reserved <= stock /\ stock + UsedBy(item) = moved /\ reserved = HeldBy(item)
  BY DEF Inv, Balanced
<1>5. /\ stock' \in Nat /\ moved' \in Nat /\ reserved <= stock'
      /\ stock' + UsedBy(item) = moved'
  BY <1>2, <1>3, <1>4 DEF ImportItem, ExportItem
<1>6. Columns'
  BY <1>1, <1>2, <1>5 DEF Inv, Columns
<1>7. Lines'
  BY <1>1 DEF Inv, Lines
<1>8. Balanced'
  BY <1>1, <1>4, <1>5 DEF Balanced, HeldBy, UsedBy
<1>9. Seats(table', session')
  BY <1>1 DEF Inv
<1>. QED BY <1>6, <1>7, <1>8, <1>9 DEF Inv, Seats

\* Rows of the session table that keep what a line may know of them.
LEMMA SeatedKept ==
  ASSUME Inv, NEW ses,
         \A s \in Sessions : session[s].status # "NONE" =>
           ses[s].table = session[s].table /\ ses[s].status = session[s].status
  PROVE  \A i \in Items : Seated(item[i], ses)
BY DEF Inv, Lines, Seated

\* Guests who come take a table that was empty; a takeaway session needs none.
LEMMA ArriveSeats ==
  ASSUME Inv, NEW s \in Sessions, NEW t \in Tables \cup {NoTable},
         session[s].status = "NONE", t # NoTable => table[t] = "EMPTY",
         session' = [session EXCEPT ![s] = [status |-> "ACTIVE", table |-> t]],
         table' = IF t = NoTable THEN table ELSE [table EXCEPT ![t] = "OCCUPIED"]
  PROVE  /\ Seats(table', session') /\ session' \in [Sessions -> Session]
         /\ table' \in [Tables -> {"NONE", "EMPTY", "OCCUPIED", "DELETED"}]
         /\ session'[s].status = "ACTIVE"
         /\ \A o \in Sessions \ {s} : session'[o] = session[o]
<1> DEFINE row == [status |-> "ACTIVE", table |-> t]
<1>2. row \in Session /\ row.status = "ACTIVE" /\ row.table = t
  BY DEF Session
<1>3. session' = [session EXCEPT ![s] = row] /\ session \in [Sessions -> Session]
  BY DEF Inv, Columns
<1> HIDE DEF row
<1>4. /\ session' \in [Sessions -> Session] /\ session'[s] = row
      /\ \A o \in Sessions \ {s} : session'[o] = session[o]
  BY <1>2, <1>3
<1>5. /\ t = NoTable => table' = table
      /\ t # NoTable => table[t] = "EMPTY" /\ table' = [table EXCEPT ![t] = "OCCUPIED"]
      /\ table \in [Tables -> {"NONE", "EMPTY", "OCCUPIED", "DELETED"}]
  BY DEF Inv, Columns
<1>6. table' \in [Tables -> {"NONE", "EMPTY", "OCCUPIED", "DELETED"}]
  BY <1>5
<1>7. Seats(table', session')
  <2>0. Seats(table, session)
    BY DEF Inv
  <2>1. \A o \in Sessions : session'[o].status = "ACTIVE" /\ session'[o].table # NoTable =>
       table'[session'[o].table] = "OCCUPIED"
    BY <1>2, <1>4, <1>5, <2>0 DEF Seats, Session
  <2>2. \A o \in Sessions : session[o].status = "ACTIVE" => t = NoTable \/ session[o].table # t
    BY <1>5, <2>0 DEF Seats
  <2>3. \A o, p \in Sessions :
          session'[o].status = "ACTIVE" /\ session'[p].status = "ACTIVE"
            /\ session'[o].table = session'[p].table => o = p \/ session'[o].table = NoTable
    BY <1>2, <1>4, <2>0, <2>2 DEF Seats
  <2>4. ASSUME NEW u \in Tables, table'[u] = "OCCUPIED"
        PROVE  \E o \in Sessions : session'[o].status = "ACTIVE" /\ session'[o].table = u
    <3>1. CASE u = t
      BY <1>2, <1>4, <3>1
    <3>2. CASE u # t
      <4>1. PICK o \in Sessions : session[o].status = "ACTIVE" /\ session[o].table = u
        BY <1>5, <2>0, <2>4, <3>2 DEF Seats
      <4>. QED BY <1>3, <1>4, <4>1
    <3>. QED BY <3>1, <3>2
  <2>. QED BY <2>1, <2>3, <2>4 DEF Seats
<1>. QED BY <1>2, <1>4, <1>6, <1>7

\* createOrderSession.
LEMMA OpenInv ==
  ASSUME Inv, NEW s \in Sessions, NEW t \in Tables \cup {NoTable}, OpenSession(s, t)
  PROVE  Inv'
<1>1. UNCHANGED <<item, invoice, stock, reserved, moved>> /\ session[s].status = "NONE"
  BY DEF OpenSession, store
<1>2. /\ Seats(table', session') /\ session' \in [Sessions -> Session]
      /\ table' \in [Tables -> {"NONE", "EMPTY", "OCCUPIED", "DELETED"}]
      /\ \A o \in Sessions \ {s} : session'[o] = session[o]
  BY ArriveSeats DEF OpenSession
<1>3. Columns'
  BY <1>1, <1>2, SameLines DEF Inv, Columns
<1>4. \A i \in Items : Seated(item[i], session')
  BY <1>1, <1>2, SeatedKept
<1>5. Lines' /\ Balanced'
  BY <1>1, <1>4, SameLines DEF Inv, Lines
<1>. QED BY <1>2, <1>3, <1>5 DEF Inv, Seats

\* Steps on one line; the stock changes by what the line lets go or uses.
LEMMA LineChange ==
  ASSUME Inv, NEW i \in Items, NEW row, LineOK(row), Seated(row, session),
         Billed(row, invoice), item' = [item EXCEPT ![i] = row],
         reserved' = reserved - item[i].held + row.held,
         stock' = stock - (row.used - item[i].used),
         reserved' <= stock', stock' \in Nat,
         UNCHANGED <<table, session, invoice, moved>>
  PROVE  Inv'
<1>1. item \in [Items -> OrderItem] /\ row \in OrderItem
  BY DEF Inv, Lines, LineOK
<1>2. /\ item' \in [Items -> OrderItem] /\ item'[i] = row
      /\ \A j \in Items \ {i} : item'[j] = item[j]
  BY <1>1
<1>3. /\ HeldBy(item') = HeldBy(item) - item[i].held + row.held
      /\ UsedBy(item') = UsedBy(item) - item[i].used + row.used
  BY <1>1, SumsChange
<1>4. /\ HeldBy(item) \in Nat /\ UsedBy(item) \in Nat
      /\ item[i].held \in Nat /\ item[i].used \in Nat
      /\ HeldBy(item') \in Nat /\ UsedBy(item') \in Nat
      /\ row.held \in Nat /\ row.used \in Nat
  BY <1>1, <1>2, SumsNat
<1>5. stock \in Nat /\ reserved \in Nat /\ moved \in Nat
  BY DEF Inv, Columns
<1>6. reserved = HeldBy(item) /\ stock + UsedBy(item) = moved
  BY DEF Inv, Balanced
<1>7. reserved' = HeldBy(item')
  BY <1>3, <1>6
<1>8. stock' + UsedBy(item') = moved'
  BY <1>3, <1>4, <1>5, <1>6
<1>9. Columns'
  BY <1>4, <1>5, <1>7 DEF Inv, Columns
<1>10. Lines'
  BY <1>2, LineOf DEF Lines
<1>11. Balanced'
  BY <1>7, <1>8 DEF Balanced, HeldBy, UsedBy
<1>12. Seats(table', session')
  BY DEF Inv
<1>. QED BY <1>9, <1>10, <1>11, <1>12 DEF Inv, Seats

\* A line that was just ordered, and one that is made again for nothing.
NewRow(s, q, r) ==
  [NoItemRow EXCEPT !.status = "PENDING", !.session = s, !.quantity = q, !.recipe = r]
ReplacementRow(s, q, r) ==
  [NoItemRow EXCEPT !.status = "PENDING", !.session = s, !.paid = TRUE,
                    !.quantity = q, !.recipe = r, !.role = "replacement"]

\* What a new line says.
LEMMA NewLine ==
  ASSUME NEW s \in Sessions, NEW q \in 0 .. MaxQuantity, NEW r \in Recipes \cup {0}
  PROVE  LET row == NewRow(s, q, r)
         IN  /\ LineOK(row) /\ row.status = "PENDING" /\ row.session = s
             /\ row.invoice = NoInvoice /\ ~row.paid /\ row.held = 0 /\ row.used = 0
<1> DEFINE row == NewRow(s, q, r)
<1>1. NoItemRow \in OrderItem
  BY BlankRow DEF LineOK
<1>2. /\ row \in OrderItem /\ row.status = "PENDING" /\ row.session = s
      /\ row.invoice = NoItemRow.invoice /\ row.paid = NoItemRow.paid
      /\ row.held = NoItemRow.held /\ row.used = NoItemRow.used
      /\ row.role = NoItemRow.role /\ row.waste = NoItemRow.waste
  BY <1>1 DEF OrderItem, ServeStatus, NewRow, ReplacementRow
<1> HIDE DEF row
<1>3. LineOK(row)
  BY <1>2, BlankRow DEF LineOK, Prepared
<1>. QED BY <1>2, <1>3, BlankRow DEF row

\* What a replacement says.
LEMMA ReplacementLine ==
  ASSUME NEW s \in Sessions, NEW q \in 0 .. MaxQuantity, NEW r \in Recipes \cup {0}
  PROVE  LET row == ReplacementRow(s, q, r)
         IN  /\ LineOK(row) /\ row.status = "PENDING" /\ row.session = s
             /\ row.invoice = NoInvoice /\ row.paid /\ row.held = 0 /\ row.used = 0
<1> DEFINE row == ReplacementRow(s, q, r)
<1>1. NoItemRow \in OrderItem
  BY BlankRow DEF LineOK
<1>2. /\ row \in OrderItem /\ row.status = "PENDING" /\ row.session = s
      /\ row.invoice = NoItemRow.invoice /\ row.paid = TRUE
      /\ row.held = NoItemRow.held /\ row.used = NoItemRow.used
      /\ row.role = "replacement" /\ row.waste = NoItemRow.waste
  BY <1>1 DEF OrderItem, ServeStatus, NewRow, ReplacementRow
<1> HIDE DEF row
<1>3. LineOK(row)
  BY <1>2, BlankRow DEF LineOK, Prepared
<1>. QED BY <1>2, <1>3, BlankRow DEF row

\* addOrderItemsInTransaction.
LEMMA AddInv ==
  ASSUME Inv, NEW i \in Items, NEW s \in Sessions, NEW q \in 1 .. MaxQuantity,
         NEW r \in Recipes, AddOrderItem(i, s, q, r)
  PROVE  Inv'
<1> DEFINE row == NewRow(s, q, r)
<1>1. /\ LineOK(row) /\ row.status = "PENDING" /\ row.session = s
      /\ row.invoice = NoInvoice /\ ~row.paid /\ row.held = 0 /\ row.used = 0
  <2>1. q \in 0 .. MaxQuantity /\ r \in Recipes \cup {0}
    BY OrderConstants
  <2>. QED BY <2>1, NewLine
<1>2. /\ item' = [item EXCEPT ![i] = row] /\ item[i].status = "NONE"
      /\ session[s].status = "ACTIVE"
      /\ UNCHANGED <<table, session, invoice, stock, reserved, moved>>
  BY DEF AddOrderItem, Active, store, NewRow
<1> HIDE DEF row
<1>3. item[i].held = 0 /\ item[i].used = 0
  BY <1>2, LineOf DEF LineOK
<1>4. Seated(row, session) /\ Billed(row, invoice)
  BY <1>1, <1>2 DEF Seated, Billed
<1>5. /\ reserved' = reserved - item[i].held + row.held
      /\ stock' = stock - (row.used - item[i].used)
      /\ reserved' <= stock' /\ stock' \in Nat
  BY <1>1, <1>2, <1>3 DEF Inv, Columns, Balanced
<1>. QED BY <1>1, <1>2, <1>4, <1>5, LineChange

\* What lines are worth to their bill and session depends on a few columns.
LEMMA Carried ==
  ASSUME NEW old, NEW new, NEW ses, NEW inv, Seated(old, ses), Billed(old, inv),
         new.session = old.session, new.invoice = old.invoice, new.paid = old.paid,
         old.status # "NONE", new.status # "NONE",
         old.status = "CANCELLED" => new.status = "CANCELLED",
         new.status = "CANCELLED" \/ old.status # "SERVED" \/ new.status = "SERVED",
         ses[old.session].status = "COMPLETED" /\ ses[old.session].table # NoTable =>
           new.status = "CANCELLED" \/ old.status = new.status
  PROVE  Seated(new, ses) /\ Billed(new, inv)
BY DEF Seated, Billed

\* changeItemStatus when the kitchen begins: the line takes its reservation.
LEMMA ConsumeInv ==
  ASSUME Inv, NEW i \in Items, ChangeItemStatus(i, "COOKING")
  PROVE  Inv'
<1> DEFINE need == Need(item[i])
           row == [Released(item[i]) EXCEPT !.status = "COOKING", !.used = need]
<1>1. /\ item' = [item EXCEPT ![i] = row] /\ item[i].status = "PENDING"
      /\ Workable(i) /\ CanConsume(i)
      /\ stock' = stock - need /\ reserved' = reserved - item[i].held
      /\ UNCHANGED <<table, session, invoice, moved>>
  BY DEF ChangeItemStatus, ConsumeOrderItem, Transition
<1>2. /\ LineOK(item[i]) /\ Seated(item[i], session) /\ Billed(item[i], invoice)
      /\ item[i] \in OrderItem
  BY LineOf
<1>3. need \in Nat
  BY <1>2, NeedNat
<1> HIDE DEF need
<1>4. /\ row \in OrderItem /\ row.status = "COOKING" /\ row.held = 0 /\ row.used = need
      /\ row.session = item[i].session /\ row.invoice = item[i].invoice
      /\ row.paid = item[i].paid /\ row.role = item[i].role /\ row.waste = item[i].waste
      /\ row.recipe = item[i].recipe /\ row.quantity = item[i].quantity
  BY <1>2, <1>3 DEF OrderItem, Released, ServeStatus
<1> HIDE DEF row
<1>5. Need(row) = need
  BY <1>4 DEF Need, need
<1>6. item[i].role # "remade"
  BY <1>1, <1>2 DEF LineOK
<1>7. LineOK(row)
  BY <1>1, <1>2, <1>4, <1>5, <1>6 DEF LineOK, Prepared
<1>8. Seated(row, session) /\ Billed(row, invoice)
  <2>1. ~(session[item[i].session].status = "COMPLETED" /\ session[item[i].session].table # NoTable)
    BY <1>1, <1>2 DEF Seated
  <2>. QED BY <1>1, <1>2, <1>4, <2>1, Carried
<1>9. /\ stock \in Nat /\ reserved \in Nat /\ reserved <= stock
      /\ item[i].held \in Nat /\ item[i].used = 0
  BY <1>1, <1>2 DEF Inv, Columns, Balanced, LineOK, OrderItem
<1>10. stock - reserved >= need - item[i].held /\ reserved >= item[i].held
  BY <1>1 DEF CanConsume, need
<1>11. /\ reserved' = reserved - item[i].held + row.held
       /\ stock' = stock - (row.used - item[i].used)
       /\ reserved' <= stock' /\ stock' \in Nat
  BY <1>1, <1>3, <1>4, <1>9, <1>10
<1>. QED BY <1>1, <1>7, <1>8, <1>11, LineChange

\* changeItemStatus when a dish is ready or served.
LEMMA ServeInv ==
  ASSUME Inv, NEW i \in Items, NEW to \in ServeStatus \ {"COOKING"}, ChangeItemStatus(i, to)
  PROVE  Inv'
<1> DEFINE row == [item[i] EXCEPT !.status = to]
<1>1. /\ item' = [item EXCEPT ![i] = row] /\ item[i].status \in {"COOKING", "READY"}
      /\ to \in {"READY", "SERVED"}
      /\ UNCHANGED <<table, session, invoice, stock, reserved, moved>>
  BY DEF ChangeItemStatus, Transition, Inv, Lines, store
<1>2. /\ LineOK(item[i]) /\ Seated(item[i], session) /\ Billed(item[i], invoice)
      /\ item[i] \in OrderItem
  BY LineOf
<1>3. /\ row \in OrderItem /\ row.status = to /\ row.held = item[i].held
      /\ row.used = item[i].used
      /\ row.session = item[i].session /\ row.invoice = item[i].invoice
      /\ row.paid = item[i].paid /\ row.role = item[i].role /\ row.waste = item[i].waste
      /\ row.recipe = item[i].recipe /\ row.quantity = item[i].quantity
  BY <1>2 DEF OrderItem, ServeStatus
<1> HIDE DEF row
<1>4. Need(row) = Need(item[i])
  BY <1>3 DEF Need
<1>5. LineOK(row)
  BY <1>1, <1>2, <1>3, <1>4 DEF LineOK, Prepared
<1>6. Seated(row, session) /\ Billed(row, invoice)
  <2>1. ~(session[item[i].session].status = "COMPLETED" /\ session[item[i].session].table # NoTable)
    BY <1>1, <1>2 DEF Seated
  <2>. QED BY <1>1, <1>2, <1>3, <2>1, Carried
<1>7. item[i].held = 0 /\ item[i].used \in Nat
  BY <1>1, <1>2 DEF LineOK, OrderItem
<1>8. /\ reserved' = reserved - item[i].held + row.held
      /\ stock' = stock - (row.used - item[i].used)
      /\ reserved' <= stock' /\ stock' \in Nat
  BY <1>1, <1>3, <1>7 DEF Inv, Columns, Balanced
<1>. QED BY <1>1, <1>5, <1>6, <1>8, LineChange

\* cancelItem: the line lets go of its stock, and what was cooked is waste.
LEMMA CancelInv ==
  ASSUME Inv, NEW i \in Items, CancelItem(i)
  PROVE  Inv'
<1> DEFINE w == item[i].status \in Prepared /\ item[i].used > 0
           row == [Released(item[i]) EXCEPT !.status = "CANCELLED", !.waste = w]
<1>1. /\ item' = [item EXCEPT ![i] = row] /\ item[i].status \notin {"NONE", "CANCELLED"}
      /\ reserved' = reserved - item[i].held
      /\ UNCHANGED <<table, session, invoice, stock, moved>>
      /\ item[i].role = "replacement" \/ (~item[i].paid /\ item[i].invoice = NoInvoice)
  BY DEF CancelItem, Unbilled
<1>2. /\ LineOK(item[i]) /\ Seated(item[i], session) /\ Billed(item[i], invoice)
      /\ item[i] \in OrderItem
  BY LineOf
<1>3. w \in BOOLEAN /\ (w <=> item[i].status \in Prepared /\ item[i].used > 0)
  OBVIOUS
<1> HIDE DEF w
<1>4. /\ row \in OrderItem /\ row.status = "CANCELLED" /\ row.held = 0
      /\ row.used = item[i].used /\ row.waste = w
      /\ row.session = item[i].session /\ row.invoice = item[i].invoice
      /\ row.paid = item[i].paid /\ row.role = item[i].role
  BY <1>2, <1>3 DEF OrderItem, Released, ServeStatus
<1> HIDE DEF row
<1>5. item[i].invoice = NoInvoice /\ item[i].role # "remade"
  BY <1>1, <1>2 DEF LineOK
<1>6. item[i].status \in Prepared \/ item[i].used = 0
  BY <1>1, <1>2 DEF LineOK, Prepared, OrderItem, ServeStatus
<1>7. w <=> item[i].used > 0
  BY <1>3, <1>6
<1>8. LineOK(row)
  BY <1>1, <1>2, <1>4, <1>5, <1>7 DEF LineOK, Prepared
<1>9. Seated(row, session) /\ Billed(row, invoice)
  BY <1>1, <1>2, <1>4, Carried
<1>10. /\ item[i].held \in Nat /\ item[i].used \in Nat
       /\ item[i].held <= HeldBy(item) /\ reserved = HeldBy(item) /\ HeldBy(item) \in Nat
       /\ stock \in Nat /\ reserved <= stock
  BY SumsNat DEF Inv, Lines, Columns, Balanced
<1>11. /\ reserved' = reserved - item[i].held + row.held
       /\ stock' = stock - (row.used - item[i].used)
       /\ reserved' <= stock' /\ stock' \in Nat
  BY <1>1, <1>4, <1>10
<1>. QED BY <1>1, <1>8, <1>9, <1>11, LineChange

\* Steps that change several rows, or the session or the bill of some, and
\* cook nothing.
LEMMA RowsInv ==
  ASSUME Inv, item' \in [Items -> OrderItem], UNCHANGED <<stock, moved>>,
         \A i \in Items : /\ LineOK(item'[i]) /\ Seated(item'[i], session')
                          /\ Billed(item'[i], invoice') /\ item'[i].used = item[i].used,
         table' \in [Tables -> {"NONE", "EMPTY", "OCCUPIED", "DELETED"}],
         session' \in [Sessions -> Session], invoice' \in [Invoices -> Invoice],
         reserved' = HeldBy(item'), reserved' <= stock, Seats(table', session')
  PROVE  Inv'
<1>1. UsedBy(item') = UsedBy(item)
  BY SumsSame
<1>2. HeldBy(item') \in Nat
  BY SumsNat
<1>3. Columns'
  BY <1>2 DEF Inv, Columns
<1>4. Lines'
  BY DEF Lines
<1>5. Balanced'
  BY <1>1 DEF Inv, Balanced, HeldBy, UsedBy
<1>. QED BY <1>3, <1>4, <1>5 DEF Inv, Seats

\* The part of them that hold what they held before.
LEMMA SameHeld ==
  ASSUME Inv, \A i \in Items : item'[i].held = item[i].held
  PROVE  HeldBy(item') = reserved /\ reserved <= stock
<1>1. HeldBy(item') = HeldBy(item)
  BY SumsSame
<1>. QED BY <1>1 DEF Inv, Balanced

\* remakeItem: the dish that was handed over counts as waste, its replacement
\* is a line of the same session without a bill.
LEMMA RemakeInv ==
  ASSUME Inv, NEW i \in Items, NEW j \in Items, RemakeItem(i, j)
  PROVE  Inv'
<1> DEFINE w == item[i].used > 0
           row == [item[i] EXCEPT !.role = "remade", !.waste = w]
           new == ReplacementRow(item[i].session, item[i].quantity, item[i].recipe)
<1>1. /\ LineOK(item[i]) /\ Seated(item[i], session) /\ Billed(item[i], invoice)
      /\ item[i] \in OrderItem /\ LineOK(item[j]) /\ item \in [Items -> OrderItem]
  BY LineOf DEF Inv, Lines
<1>2. /\ item[i].status = "SERVED" /\ item[i].paid /\ item[i].role = "plain"
      /\ item[j].status = "NONE" /\ i # j
      /\ UNCHANGED <<table, session, invoice, stock, reserved, moved>>
      /\ session[item[i].session].status # "CANCELLED"
      /\ session[item[i].session].table # NoTable => session[item[i].session].status = "ACTIVE"
  BY DEF RemakeItem, store, DineIn, Active
<1>3. w \in BOOLEAN
  OBVIOUS
<1>4. item' = [item EXCEPT ![i] = row, ![j] = new]
  BY <1>1, <1>2 DEF RemakeItem, ReplacementRow
<1>5. /\ row \in OrderItem /\ row.status = "SERVED" /\ row.role = "remade" /\ row.waste = w
      /\ row.held = item[i].held /\ row.used = item[i].used /\ row.paid = item[i].paid
      /\ row.session = item[i].session /\ row.invoice = item[i].invoice
      /\ row.recipe = item[i].recipe /\ row.quantity = item[i].quantity
  BY <1>1, <1>2, <1>3 DEF OrderItem
<1>6. w <=> item[i].used > 0
  OBVIOUS
<1> HIDE DEF w, row
<1>7. LineOK(row)
  <2>1. Need(row) = Need(item[i])
    BY <1>5 DEF Need
  <2>. QED BY <1>1, <1>2, <1>5, <1>6, <2>1 DEF LineOK, Prepared
<1>8. Seated(row, session) /\ Billed(row, invoice)
  BY <1>1, <1>2, <1>5, Carried
<1>9. item[i].session \in Sessions /\ session[item[i].session].status # "NONE"
  BY <1>1, <1>2 DEF Seated
<1>10. /\ LineOK(new) /\ new.status = "PENDING" /\ new.session = item[i].session
       /\ new.invoice = NoInvoice /\ new.paid /\ new.held = 0 /\ new.used = 0
  <2>1. item[i].quantity \in 0 .. MaxQuantity /\ item[i].recipe \in Recipes \cup {0}
    BY <1>1 DEF OrderItem
  <2>. QED BY <1>9, <2>1, ReplacementLine
<1> HIDE DEF new
<1>11. Seated(new, session) /\ Billed(new, invoice)
  BY <1>2, <1>9, <1>10 DEF Seated, Billed
<1>12. item[j].held = 0 /\ item[j].used = 0
  BY <1>1, <1>2, BlankRow DEF LineOK
<1>13. new \in OrderItem
  BY <1>10 DEF LineOK
<1>14. /\ item' \in [Items -> OrderItem] /\ item'[i] = row /\ item'[j] = new
       /\ \A k \in Items \ {i, j} : item'[k] = item[k]
  BY <1>1, <1>2, <1>4, <1>5, <1>13
<1>15. \A k \in Items : item'[k].held = item[k].held /\ item'[k].used = item[k].used
  BY <1>5, <1>10, <1>12, <1>14
<1>16. \A k \in Items : LineOK(item'[k]) /\ Seated(item'[k], session) /\ Billed(item'[k], invoice)
  BY <1>7, <1>8, <1>10, <1>11, <1>14, LineOf
<1>17. HeldBy(item') = reserved /\ reserved <= stock
  BY <1>15, SameHeld
<1>. QED BY <1>2, <1>14, <1>15, <1>16, <1>17, RowsInv DEF Inv, Columns

\* Guests who leave free their table; a takeaway session has none.
LEMMA LeaveSeats ==
  ASSUME Inv, NEW s \in Sessions, Active(s), NEW st \in {"COMPLETED", "CANCELLED"},
         session' = [session EXCEPT ![s].status = st],
         table' = IF DineIn(s) THEN [table EXCEPT ![session[s].table] = "EMPTY"] ELSE table
  PROVE  /\ Seats(table', session') /\ session' \in [Sessions -> Session]
         /\ table' \in [Tables -> {"NONE", "EMPTY", "OCCUPIED", "DELETED"}]
         /\ session'[s].status = st /\ session'[s].table = session[s].table
         /\ \A o \in Sessions \ {s} : session'[o] = session[o]
<1>1. /\ session \in [Sessions -> Session] /\ Seats(table, session)
      /\ table \in [Tables -> {"NONE", "EMPTY", "OCCUPIED", "DELETED"}]
      /\ session[s].status = "ACTIVE" /\ session[s].table \in Tables \cup {NoTable}
  BY DEF Inv, Columns, Active, Session
<1>2. /\ session' \in [Sessions -> Session]
      /\ session'[s].status = st /\ session'[s].table = session[s].table
      /\ \A o \in Sessions \ {s} : session'[o] = session[o]
  BY <1>1 DEF Session
<1>3. /\ table' \in [Tables -> {"NONE", "EMPTY", "OCCUPIED", "DELETED"}]
      /\ \A t \in Tables : table'[t] = IF t = session[s].table THEN "EMPTY" ELSE table[t]
  BY <1>1, OrderConstants DEF DineIn
<1>4. \A o \in Sessions : session'[o].status = "ACTIVE" =>
        o # s /\ session[o].status = "ACTIVE" /\ session'[o].table = session[o].table
  BY <1>2
<1>5. Seats(table', session')
  <2>1. ASSUME NEW o \in Sessions, session'[o].status = "ACTIVE", session'[o].table # NoTable
        PROVE  table'[session'[o].table] = "OCCUPIED"
    <3>1. /\ session[o].status = "ACTIVE" /\ session[o].table # session[s].table
          /\ session[o].table \in Tables
      BY <1>1, <1>4, <2>1 DEF Seats, Session
    <3>. QED BY <1>1, <1>3, <1>4, <2>1, <3>1 DEF Seats
  <2>2. \A o, p \in Sessions :
          session'[o].status = "ACTIVE" /\ session'[p].status = "ACTIVE"
            /\ session'[o].table = session'[p].table => o = p \/ session'[o].table = NoTable
    BY <1>1, <1>4 DEF Seats
  <2>3. ASSUME NEW t \in Tables, table'[t] = "OCCUPIED"
        PROVE  \E o \in Sessions : session'[o].status = "ACTIVE" /\ session'[o].table = t
    <3>1. PICK o \in Sessions : session[o].status = "ACTIVE" /\ session[o].table = t
      BY <1>1, <1>3, <2>3 DEF Seats
    <3>2. o # s
      BY <1>3, <2>3, <3>1
    <3>. QED BY <1>2, <3>1, <3>2
  <2>. QED BY <2>1, <2>2, <2>3 DEF Seats
<1>. QED BY <1>2, <1>3, <1>5

\* cancelSession, and clearTable of a table with guests.
LEMMA DiscardInv ==
  ASSUME Inv, NEW s \in Sessions, Active(s), Discard(s),
         table' = IF DineIn(s) THEN [table EXCEPT ![session[s].table] = "EMPTY"] ELSE table
  PROVE  Inv'
<1> DEFINE New(row) == [Released(row) EXCEPT !.status = "CANCELLED"]
<1>1. /\ \A i \in ItemsOf(s) : Unbilled(i) /\ item[i].status \notin Prepared
      /\ item' = [i \in Items |-> IF item[i].session = s THEN New(item[i]) ELSE item[i]]
      /\ reserved' = reserved - Held(ItemsOf(s))
      /\ session' = [session EXCEPT ![s].status = "CANCELLED"]
      /\ UNCHANGED <<invoice, stock, moved>>
  BY DEF Discard
<1>2. /\ Seats(table', session') /\ session' \in [Sessions -> Session]
      /\ table' \in [Tables -> {"NONE", "EMPTY", "OCCUPIED", "DELETED"}]
      /\ session'[s].status = "CANCELLED" /\ session'[s].table = session[s].table
      /\ \A o \in Sessions \ {s} : session'[o] = session[o]
  BY <1>1, LeaveSeats
<1>3. ASSUME NEW i \in Items, item[i].session = s
      PROVE  /\ item'[i] \in OrderItem /\ LineOK(item'[i]) /\ Seated(item'[i], session')
             /\ Billed(item'[i], invoice') /\ item'[i].used = item[i].used
             /\ item'[i].held = 0 /\ item[i].held = 0
  <2> DEFINE row == New(item[i])
  <2>1. /\ LineOK(item[i]) /\ Seated(item[i], session) /\ Billed(item[i], invoice)
        /\ item[i] \in OrderItem
    BY LineOf
  <2>2. /\ ~item[i].paid /\ item[i].invoice = NoInvoice /\ item[i].status \notin Prepared
        /\ item'[i] = row
    BY <1>1, <1>3 DEF ItemsOf, Unbilled
  <2>3. /\ row \in OrderItem /\ row.status = "CANCELLED" /\ row.held = 0
        /\ row.used = item[i].used /\ row.session = s /\ row.invoice = item[i].invoice
        /\ row.paid = item[i].paid /\ row.role = item[i].role /\ row.waste = item[i].waste
    BY <1>3, <2>1 DEF OrderItem, Released, ServeStatus
  <2> HIDE DEF row
  <2>4. item[i].status # "NONE"
    BY <1>3, <2>1, BlankRow, OrderConstants DEF LineOK
  <2>5. item[i].status \in {"PENDING", "CANCELLED"}
    BY <2>1, <2>2, <2>4 DEF OrderItem, ServeStatus, Prepared
  <2>6. LineOK(row) /\ item[i].held = 0
    BY <2>1, <2>2, <2>3, <2>5 DEF LineOK, Prepared
  <2>7. Seated(row, session') /\ Billed(row, invoice')
    BY <1>2, <2>2, <2>3 DEF Seated, Billed
  <2>. QED BY <2>2, <2>3, <2>6, <2>7
<1>4. ASSUME NEW i \in Items, item[i].session # s
      PROVE  /\ item'[i] = item[i] /\ Seated(item'[i], session') /\ Billed(item'[i], invoice')
             /\ LineOK(item'[i]) /\ item'[i] \in OrderItem
  <2>1. item'[i] = item[i]
    BY <1>1, <1>4
  <2>. QED BY <1>1, <1>2, <1>4, <2>1, LineOf DEF Seated
<1>5. item' \in [Items -> OrderItem]
  <2>1. \A i \in Items : item'[i] \in OrderItem
    BY <1>3, <1>4
  <2>. QED BY <1>1, <2>1
<1>6. HeldBy(item') = reserved /\ reserved <= stock
  BY <1>3, <1>4, SameHeld
<1>7. reserved' = HeldBy(item')
  <2>1. /\ item \in [Items -> OrderItem] /\ ItemsOf(s) \in SUBSET Items
        /\ \A i \in ItemsOf(s) : item'[i].held = 0
        /\ \A i \in Items \ ItemsOf(s) : item'[i].held = item[i].held
    BY <1>3, <1>4 DEF Inv, Lines, ItemsOf
  <2>2. HeldBy(item') = HeldBy(item) - Held(ItemsOf(s))
    BY <1>5, <2>1, SumsRelease DEF Held
  <2>. QED BY <1>1, <2>2 DEF Inv, Balanced
<1>8. invoice' \in [Invoices -> Invoice]
  BY <1>1 DEF Inv, Columns
<1>9. \A i \in Items : /\ LineOK(item'[i]) /\ Seated(item'[i], session')
                       /\ Billed(item'[i], invoice') /\ item'[i].used = item[i].used
  BY <1>3, <1>4
<1>. QED BY <1>1, <1>2, <1>5, <1>6, <1>7, <1>8, <1>9, RowsInv

\* completeSession: every dish was paid and handed over.
LEMMA CompleteInv ==
  ASSUME Inv, NEW s \in Sessions, CompleteSession(s)
  PROVE  Inv'
<1>1. /\ Active(s) /\ DineIn(s)
      /\ \A i \in ItemsOf(s) : item[i].status # "CANCELLED" =>
           item[i].paid /\ item[i].status = "SERVED"
      /\ table' = [table EXCEPT ![session[s].table] = "EMPTY"]
      /\ session' = [session EXCEPT ![s].status = "COMPLETED"]
      /\ UNCHANGED <<item, invoice, stock, reserved, moved>>
  BY DEF CompleteSession, store
<1>2. /\ Seats(table', session') /\ session' \in [Sessions -> Session]
      /\ table' \in [Tables -> {"NONE", "EMPTY", "OCCUPIED", "DELETED"}]
      /\ session'[s].status = "COMPLETED" /\ session'[s].table = session[s].table
      /\ \A o \in Sessions \ {s} : session'[o] = session[o]
  BY <1>1, LeaveSeats
<1>3. \A i \in Items : Seated(item[i], session')
  BY <1>1, <1>2, LineOf DEF Seated, ItemsOf
<1>4. \A i \in Items : /\ LineOK(item'[i]) /\ Seated(item'[i], session')
                       /\ Billed(item'[i], invoice') /\ item'[i].used = item[i].used
                       /\ item'[i].held = item[i].held
  BY <1>1, <1>3, LineOf
<1>5. HeldBy(item') = reserved /\ reserved <= stock
  BY <1>4, SameHeld
<1>6. item' \in [Items -> OrderItem] /\ invoice' \in [Invoices -> Invoice]
  BY <1>1 DEF Inv, Columns, Lines
<1>. QED BY <1>1, <1>2, <1>4, <1>5, <1>6, RowsInv

\* transferTable.
LEMMA TransferInv ==
  ASSUME Inv, NEW s \in Sessions, NEW t \in Tables, TransferTable(s, t)
  PROVE  Inv'
<1> DEFINE from == session[s].table
<1>1. /\ session[s].status = "ACTIVE" /\ from # NoTable /\ table[t] = "EMPTY"
      /\ table' = [table EXCEPT ![t] = "OCCUPIED",
                                ![from] = IF @ = "OCCUPIED" THEN "EMPTY" ELSE @]
      /\ session' = [session EXCEPT ![s].table = t]
      /\ UNCHANGED <<item, invoice, stock, reserved, moved>>
  BY DEF TransferTable, Active, DineIn, store
<1>2. /\ session \in [Sessions -> Session] /\ Seats(table, session)
      /\ table \in [Tables -> {"NONE", "EMPTY", "OCCUPIED", "DELETED"}]
      /\ from \in Tables \cup {NoTable} /\ invoice \in [Invoices -> Invoice]
      /\ item \in [Items -> OrderItem]
  BY DEF Inv, Columns, Lines, Session
<1>3. from \in Tables /\ table[from] = "OCCUPIED" /\ from # t
  BY <1>1, <1>2 DEF Seats
<1>4. /\ session' \in [Sessions -> Session]
      /\ session'[s].status = "ACTIVE" /\ session'[s].table = t
      /\ \A o \in Sessions \ {s} : session'[o] = session[o]
  BY <1>1, <1>2 DEF Session
<1> HIDE DEF from
<1>5. /\ table' \in [Tables -> {"NONE", "EMPTY", "OCCUPIED", "DELETED"}]
      /\ \A u \in Tables : table'[u] = IF u = t THEN "OCCUPIED" ELSE
                                       IF u = from THEN "EMPTY" ELSE table[u]
  BY <1>1, <1>2, <1>3
<1>6. \A o \in Sessions \ {s} : session[o].status = "ACTIVE" =>
        session[o].table # from /\ session[o].table # t /\ session[o].table \in Tables \cup {NoTable}
  BY <1>1, <1>2, <1>3, OrderConstants DEF Seats, from, Session
<1>7. Seats(table', session')
  <2>1. \A o \in Sessions : session'[o].status = "ACTIVE" /\ session'[o].table # NoTable =>
          table'[session'[o].table] = "OCCUPIED"
    BY <1>2, <1>4, <1>5, <1>6 DEF Seats
  <2>2. \A o, p \in Sessions :
          session'[o].status = "ACTIVE" /\ session'[p].status = "ACTIVE"
            /\ session'[o].table = session'[p].table => o = p \/ session'[o].table = NoTable
    BY <1>2, <1>4, <1>6 DEF Seats
  <2>3. ASSUME NEW u \in Tables, table'[u] = "OCCUPIED"
        PROVE  \E o \in Sessions : session'[o].status = "ACTIVE" /\ session'[o].table = u
    <3>1. CASE u = t
      BY <1>4, <3>1
    <3>2. CASE u # t
      <4>1. PICK o \in Sessions : session[o].status = "ACTIVE" /\ session[o].table = u
        BY <1>2, <1>5, <2>3, <3>2 DEF Seats
      <4>2. o # s
        BY <1>5, <2>3, <3>2, <4>1 DEF from
      <4>. QED BY <1>4, <4>1, <4>2
    <3>. QED BY <3>1, <3>2
  <2>. QED BY <2>1, <2>2, <2>3 DEF Seats
<1>8. \A i \in Items : Seated(item[i], session')
  BY <1>1, <1>4, LineOf DEF Seated
<1>9. \A i \in Items : /\ LineOK(item'[i]) /\ Seated(item'[i], session')
                       /\ Billed(item'[i], invoice') /\ item'[i].used = item[i].used
                       /\ item'[i].held = item[i].held
  BY <1>1, <1>8, LineOf
<1>10. HeldBy(item') = reserved /\ reserved <= stock
  BY <1>9, SameHeld
<1>11. item' \in [Items -> OrderItem] /\ invoice' \in [Invoices -> Invoice]
  BY <1>1, <1>2
<1>. QED BY <1>1, <1>4, <1>5, <1>7, <1>9, <1>10, <1>11, RowsInv

\* mergeTables: only lines without a bill change their session.
LEMMA MergeInv ==
  ASSUME Inv, NEW from \in SUBSET Sessions, NEW to \in Sessions, MergeTables(from, to)
  PROVE  Inv'
<1>1. /\ to \notin from
      /\ \A s \in from \cup {to} : /\ session[s].status = "ACTIVE" /\ session[s].table # NoTable
                                   /\ \A i \in ItemsOf(s) : Unbilled(i)
      /\ item' = [i \in Items |-> IF item[i].session \in from
                                  THEN [item[i] EXCEPT !.session = to] ELSE item[i]]
      /\ session' = [s \in Sessions |-> IF s \in from
                       THEN [session[s] EXCEPT !.status = "COMPLETED"] ELSE session[s]]
      /\ table' = [t \in Tables |->
                     IF \E s \in from : session[s].table = t THEN "EMPTY" ELSE table[t]]
      /\ UNCHANGED <<invoice, stock, reserved, moved>>
  BY DEF MergeTables, Active, DineIn, store
<1>2. /\ session \in [Sessions -> Session] /\ Seats(table, session)
      /\ table \in [Tables -> {"NONE", "EMPTY", "OCCUPIED", "DELETED"}]
      /\ item \in [Items -> OrderItem] /\ invoice \in [Invoices -> Invoice]
  BY DEF Inv, Columns, Lines
<1>3. /\ \A s \in from : /\ session'[s] \in Session /\ session'[s].status = "COMPLETED"
                         /\ session'[s].table = session[s].table
      /\ \A s \in Sessions \ from : session'[s] = session[s]
  BY <1>1, <1>2 DEF Session
<1>4. session' \in [Sessions -> Session]
  <2>1. \A s \in Sessions : session'[s] \in Session
    BY <1>2, <1>3
  <2>. QED BY <1>1, <2>1
<1>5. /\ table' \in [Tables -> {"NONE", "EMPTY", "OCCUPIED", "DELETED"}]
      /\ \A t \in Tables : table'[t] = "OCCUPIED" =>
           table[t] = "OCCUPIED" /\ \A s \in from : session[s].table # t
      /\ \A t \in Tables : (\A s \in from : session[s].table # t) => table'[t] = table[t]
  BY <1>1, <1>2
<1>6. \A o \in Sessions : session'[o].status = "ACTIVE" =>
        /\ o \notin from /\ session'[o] = session[o]
        /\ session[o].table # NoTable => \A s \in from : session[s].table # session[o].table
  <2>1. \A o \in Sessions : session'[o].status = "ACTIVE" => o \notin from /\ session'[o] = session[o]
    BY <1>3
  <2>. QED BY <1>1, <1>2, <2>1 DEF Seats
<1>7. Seats(table', session')
  <2>1. ASSUME NEW o \in Sessions, session'[o].status = "ACTIVE", session'[o].table # NoTable
        PROVE  table'[session'[o].table] = "OCCUPIED"
    <3>1. /\ session'[o] = session[o] /\ session[o].table \in Tables
          /\ \A s \in from : session[s].table # session[o].table
      BY <1>2, <1>6, <2>1 DEF Session
    <3>2. table[session[o].table] = "OCCUPIED"
      BY <1>2, <2>1, <3>1 DEF Seats
    <3>. QED BY <1>5, <3>1, <3>2
  <2>2. \A o, p \in Sessions :
          session'[o].status = "ACTIVE" /\ session'[p].status = "ACTIVE"
            /\ session'[o].table = session'[p].table => o = p \/ session'[o].table = NoTable
    BY <1>2, <1>6 DEF Seats
  <2>3. ASSUME NEW t \in Tables, table'[t] = "OCCUPIED"
        PROVE  \E o \in Sessions : session'[o].status = "ACTIVE" /\ session'[o].table = t
    <3>1. table[t] = "OCCUPIED" /\ \A s \in from : session[s].table # t
      BY <1>5, <2>3
    <3>2. PICK o \in Sessions : session[o].status = "ACTIVE" /\ session[o].table = t
      BY <1>2, <3>1 DEF Seats
    <3>3. session'[o] = session[o]
      BY <1>3, <3>1, <3>2
    <3>. QED BY <3>2, <3>3
  <2>. QED BY <2>1, <2>2, <2>3 DEF Seats
<1>8. ASSUME NEW i \in Items
      PROVE  /\ item'[i] \in OrderItem /\ LineOK(item'[i]) /\ Seated(item'[i], session')
             /\ Billed(item'[i], invoice') /\ item'[i].used = item[i].used
             /\ item'[i].held = item[i].held
  <2>1. /\ LineOK(item[i]) /\ Seated(item[i], session) /\ Billed(item[i], invoice)
        /\ item[i] \in OrderItem
    BY LineOf
  <2>2. CASE item[i].session \in from
    <3> DEFINE row == [item[i] EXCEPT !.session = to]
    <3>1. item'[i] = row /\ ~item[i].paid /\ item[i].invoice = NoInvoice
      BY <1>1, <2>2 DEF ItemsOf, Unbilled
    <3>2. /\ row \in OrderItem /\ row.status = item[i].status /\ row.held = item[i].held
          /\ row.used = item[i].used /\ row.session = to /\ row.invoice = item[i].invoice
          /\ row.paid = item[i].paid /\ row.role = item[i].role /\ row.waste = item[i].waste
          /\ row.recipe = item[i].recipe /\ row.quantity = item[i].quantity
      BY <2>1 DEF OrderItem
    <3> HIDE DEF row
    <3>3. item[i].status # "NONE"
      BY <2>1, <2>2, BlankRow, OrderConstants DEF LineOK
    <3>4. LineOK(row)
      BY <2>1, <3>2, <3>3 DEF LineOK, Need
    <3>5. Seated(row, session') /\ Billed(row, invoice')
      BY <1>1, <1>3, <3>1, <3>2 DEF Seated, Billed
    <3>. QED BY <3>1, <3>2, <3>4, <3>5
  <2>3. CASE item[i].session \notin from
    <3>1. item'[i] = item[i]
      BY <1>1, <2>3
    <3>2. Seated(item[i], session')
      BY <1>3, <2>1, <2>3 DEF Seated
    <3>. QED BY <1>1, <2>1, <3>1, <3>2
  <2>. QED BY <2>2, <2>3
<1>9. item' \in [Items -> OrderItem]
  BY <1>1, <1>8
<1>10. HeldBy(item') = reserved /\ reserved <= stock
  BY <1>8, SameHeld
<1>11. invoice' \in [Invoices -> Invoice]
  BY <1>1, <1>2
<1>. QED BY <1>1, <1>4, <1>5, <1>7, <1>8, <1>9, <1>10, <1>11, RowsInv

\* splitTable: lines without a bill go to the new session, whole or in part,
\* and hold and have used what they did.
LEMMA SplitInv ==
  ASSUME Inv, NEW s \in Sessions, NEW n \in Sessions, NEW t \in Tables, SplitTable(s, n, t)
  PROVE  Inv'
<1>1. /\ session[s].status = "ACTIVE" /\ session[n].status = "NONE" /\ table[t] = "EMPTY"
      /\ table' = [table EXCEPT ![t] = "OCCUPIED"]
      /\ session' = [session EXCEPT ![n] = [status |-> "ACTIVE", table |-> t]]
      /\ UNCHANGED <<invoice, stock, reserved, moved>>
  BY DEF SplitTable, Active, store
<1>2. t # NoTable /\ t \in Tables \cup {NoTable}
  BY OrderConstants
<1>3. /\ Seats(table', session') /\ session' \in [Sessions -> Session]
      /\ table' \in [Tables -> {"NONE", "EMPTY", "OCCUPIED", "DELETED"}]
      /\ session'[n].status = "ACTIVE"
      /\ \A o \in Sessions \ {n} : session'[o] = session[o]
  BY <1>1, <1>2, ArriveSeats
<1> DEFINE Divided(lines, take) == {i \in lines : take[i] < item[i].quantity}
           Rows(lines, take, copy) ==
             [j \in Items |->
               CASE j \in Divided(lines, take) -> [item[j] EXCEPT !.quantity = @ - take[j]]
                 [] j \in lines \ Divided(lines, take) -> [item[j] EXCEPT !.session = n]
                 [] j \notin lines ->
                      IF \E i \in Divided(lines, take) : copy[i] = j
                      THEN LET i == CHOOSE i \in Divided(lines, take) : copy[i] = j
                           IN  [NoItemRow EXCEPT !.status = item[i].status, !.session = n,
                                  !.quantity = take[i], !.recipe = item[i].recipe]
                      ELSE item[j]]
<1>4. \E lines \in SUBSET {i \in Items : Splittable(i, s)} \ {{}} :
      \E take \in [lines -> 1 .. MaxQuantity] :
        /\ \A i \in lines : take[i] <= item[i].quantity
        /\ \A i \in Divided(lines, take) : item[i].status = "PENDING"
        /\ \E copy \in Injection(Divided(lines, take), {i \in Items : item[i].status = "NONE"}) :
             item' = Rows(lines, take, copy)
  BY DEF SplitTable
<1>5. PICK lines, take, copy :
        /\ lines \in SUBSET {i \in Items : Splittable(i, s)}
        /\ take \in [lines -> 1 .. MaxQuantity]
        /\ \A i \in lines : take[i] <= item[i].quantity
        /\ \A i \in Divided(lines, take) : item[i].status = "PENDING"
        /\ copy \in Injection(Divided(lines, take), {i \in Items : item[i].status = "NONE"})
        /\ item' = Rows(lines, take, copy)
  <2> HIDE DEF Divided, Rows
  <2>. QED BY <1>4
<1> DEFINE divided == Divided(lines, take)
<1>6. item' = Rows(lines, take, copy)
  BY <1>5
<1>7. /\ lines \subseteq Items /\ divided \subseteq lines
      /\ \A i \in lines : Splittable(i, s)
      /\ \A i \in lines : take[i] \in 1 .. MaxQuantity /\ take[i] <= item[i].quantity
      /\ \A i \in divided : item[i].status = "PENDING" /\ take[i] < item[i].quantity
      /\ \A i \in divided : copy[i] \in Items /\ item[copy[i]].status = "NONE"
  BY <1>5 DEF Injection
<1>8. /\ item' = [j \in Items |-> item'[j]]
      /\ \A j \in divided : item'[j] = [item[j] EXCEPT !.quantity = @ - take[j]]
      /\ \A j \in lines \ divided : item'[j] = [item[j] EXCEPT !.session = n]
      /\ \A j \in Items \ lines : (\A i \in divided : copy[i] # j) => item'[j] = item[j]
  <2> HIDE DEF Divided
  <2>. QED BY <1>6, <1>7
<1>9. ASSUME NEW j \in Items \ lines, NEW k \in divided, copy[k] = j
      PROVE  \E i \in divided : /\ copy[i] = j
                                /\ item'[j] = NewRow(n, take[i], item[i].recipe)
  <2> DEFINE i == CHOOSE i \in divided : copy[i] = j
  <2>1. i \in divided /\ copy[i] = j
    <3> HIDE DEF Divided
    <3>. QED BY <1>9
  <2>2. item'[j] = [NoItemRow EXCEPT !.status = item[i].status, !.session = n,
                                     !.quantity = take[i], !.recipe = item[i].recipe]
    <3> HIDE DEF Divided
    <3>. QED BY <1>6, <1>7, <1>9
  <2> HIDE DEF i
  <2>3. item[i].status = "PENDING"
    BY <1>7, <2>1
  <2>4. item'[j] = NewRow(n, take[i], item[i].recipe)
    BY <2>2, <2>3 DEF NewRow
  <2> HIDE DEF Divided
  <2>. QED BY <2>1, <2>4
<1> HIDE DEF divided, Divided, Rows
<1>10. ASSUME NEW j \in Items
       PROVE  /\ item'[j] \in OrderItem /\ LineOK(item'[j]) /\ Seated(item'[j], session')
              /\ Billed(item'[j], invoice') /\ item'[j].used = item[j].used
              /\ item'[j].held = item[j].held
  <2>1. /\ LineOK(item[j]) /\ Seated(item[j], session) /\ Billed(item[j], invoice)
        /\ item[j] \in OrderItem
    BY LineOf
  <2>2. j \in lines => /\ item[j].session = s /\ ~item[j].paid /\ item[j].invoice = NoInvoice
                       /\ item[j].status # "NONE"
    <3>1. j \in lines => /\ item[j].session = s /\ ~item[j].paid /\ item[j].invoice = NoInvoice
      BY <1>7 DEF Splittable, Unbilled
    <3>. QED BY <2>1, <3>1, BlankRow, OrderConstants DEF LineOK
  <2>3. CASE j \in divided
    <3> DEFINE q == item[j].quantity - take[j]
               row == [item[j] EXCEPT !.quantity = q]
    <3>1. item'[j] = row /\ item[j].status = "PENDING" /\ j \in lines
      BY <1>7, <1>8, <2>3
    <3>2. q \in 0 .. MaxQuantity
      <4>1. /\ item[j].quantity \in 0 .. MaxQuantity /\ take[j] \in 1 .. MaxQuantity
            /\ take[j] <= item[j].quantity /\ MaxQuantity \in Nat
        BY <1>7, <2>1, <2>3, OrderConstants DEF OrderItem
      <4>. QED BY <4>1
    <3> HIDE DEF q
    <3>3. /\ row \in OrderItem /\ row.status = item[j].status /\ row.held = item[j].held
          /\ row.used = item[j].used /\ row.session = item[j].session
          /\ row.invoice = item[j].invoice
          /\ row.paid = item[j].paid /\ row.role = item[j].role /\ row.waste = item[j].waste
      BY <2>1, <3>2 DEF OrderItem
    <3> HIDE DEF row
    <3>4. LineOK(row)
      BY <2>1, <2>2, <3>1, <3>3 DEF LineOK, Prepared
    <3>5. session'[s] = session[s]
      BY <1>1, <1>3
    <3>6. Seated(row, session') /\ Billed(row, invoice')
      BY <1>1, <2>1, <2>2, <3>1, <3>3, <3>5 DEF Seated, Billed
    <3>. QED BY <3>1, <3>3, <3>4, <3>6
  <2>4. CASE j \in lines \ divided
    <3> DEFINE row == [item[j] EXCEPT !.session = n]
    <3>1. item'[j] = row
      BY <1>8, <2>4
    <3>2. /\ row \in OrderItem /\ row.status = item[j].status /\ row.held = item[j].held
          /\ row.used = item[j].used /\ row.session = n /\ row.invoice = item[j].invoice
          /\ row.paid = item[j].paid /\ row.role = item[j].role /\ row.waste = item[j].waste
          /\ row.recipe = item[j].recipe /\ row.quantity = item[j].quantity
      BY <2>1 DEF OrderItem
    <3> HIDE DEF row
    <3>3. LineOK(row)
      BY <2>1, <2>2, <2>4, <3>2 DEF LineOK, Need
    <3>4. Seated(row, session') /\ Billed(row, invoice')
      BY <1>3, <2>2, <2>4, <3>2 DEF Seated, Billed
    <3>. QED BY <3>1, <3>2, <3>3, <3>4
  <2>5. CASE j \notin lines /\ \A i \in divided : copy[i] # j
    <3>1. item'[j] = item[j]
      BY <1>8, <2>5
    <3>2. Seated(item[j], session')
      BY <1>1, <1>3, <2>1 DEF Seated
    <3>. QED BY <1>1, <2>1, <3>1, <3>2
  <2>6. CASE j \notin lines /\ \E i \in divided : copy[i] = j
    <3>1. PICK i \in divided : copy[i] = j /\ item'[j] = NewRow(n, take[i], item[i].recipe)
      BY <1>9, <2>6
    <3> DEFINE row == NewRow(n, take[i], item[i].recipe)
    <3>2. take[i] \in 0 .. MaxQuantity /\ item[i].recipe \in Recipes \cup {0} /\ i \in Items
      <4>1. i \in lines /\ i \in Items /\ take[i] \in 1 .. MaxQuantity
        BY <1>7, <3>1
      <4>2. item[i] \in OrderItem
        BY <4>1, LineOf
      <4>. QED BY <4>1, <4>2, OrderConstants DEF OrderItem
    <3>3. /\ LineOK(row) /\ row.status = "PENDING" /\ row.session = n
          /\ row.invoice = NoInvoice /\ ~row.paid /\ row.held = 0 /\ row.used = 0
      BY <3>2, NewLine
    <3>4. item'[j] = row
      BY <3>1
    <3> HIDE DEF row
    <3>5. item[j].status = "NONE"
      BY <1>7, <3>1
    <3>6. item[j].held = 0 /\ item[j].used = 0
      BY <2>1, <3>5, BlankRow DEF LineOK
    <3>7. Seated(row, session') /\ Billed(row, invoice')
      BY <1>3, <3>3 DEF Seated, Billed
    <3>8. row \in OrderItem
      BY <3>3 DEF LineOK
    <3>. QED BY <3>3, <3>4, <3>6, <3>7, <3>8
  <2>. QED BY <1>7, <2>3, <2>4, <2>5, <2>6
<1>11. item' \in [Items -> OrderItem]
  BY <1>8, <1>10
<1>12. HeldBy(item') = reserved /\ reserved <= stock
  BY <1>10, SameHeld
<1>13. invoice' \in [Invoices -> Invoice]
  BY <1>1 DEF Inv, Columns
<1>. QED BY <1>1, <1>3, <1>10, <1>11, <1>12, <1>13, RowsInv

\* reservePendingItems: the pending lines among is hold what they need, the
\* sum grows by what they lacked, and no other column changes.
LEMMA ReserveRows ==
  ASSUME NEW rows \in [Items -> OrderItem], NEW is \in SUBSET Items,
         stock \in Nat, reserved \in Nat, reserved = HeldBy(rows),
         ReservePendingItems(rows, is)
  PROVE  /\ item' \in [Items -> OrderItem]
         /\ reserved' = HeldBy(item') /\ reserved' <= stock
         /\ \A i \in Items :
              /\ item'[i].held = IF i \in is /\ rows[i].status = "PENDING"
                                 THEN Need(rows[i]) ELSE rows[i].held
              /\ item'[i].status = rows[i].status /\ item'[i].session = rows[i].session
              /\ item'[i].invoice = rows[i].invoice /\ item'[i].paid = rows[i].paid
              /\ item'[i].quantity = rows[i].quantity /\ item'[i].recipe = rows[i].recipe
              /\ item'[i].used = rows[i].used /\ item'[i].waste = rows[i].waste
              /\ item'[i].role = rows[i].role
<1> DEFINE res == Reservable(rows, is)
<1>1. /\ \A i \in is : rows[i].status = "PENDING" => rows[i].held \in {0, Need(rows[i])}
      /\ stock - reserved >= Shortfall(rows, is)
      /\ reserved' = reserved + Shortfall(rows, is)
      /\ item' = [i \in Items |-> IF i \in res
                                  THEN [rows[i] EXCEPT !.held = Need(rows[i])] ELSE rows[i]]
  BY DEF ReservePendingItems
<1>2. /\ res \in SUBSET Items
      /\ \A i \in Items : i \in res <=> i \in is /\ rows[i].status = "PENDING" /\ rows[i].held = 0
      /\ Shortfall(rows, is) = Total([i \in Items |-> Need(rows[i])], res)
  BY DEF Reservable, Shortfall
<1> HIDE DEF res
<1>3. ASSUME NEW i \in Items
      PROVE  /\ item'[i] \in OrderItem
             /\ item'[i].held = IF i \in res THEN Need(rows[i]) ELSE rows[i].held
             /\ item'[i].status = rows[i].status /\ item'[i].session = rows[i].session
             /\ item'[i].invoice = rows[i].invoice /\ item'[i].paid = rows[i].paid
             /\ item'[i].quantity = rows[i].quantity /\ item'[i].recipe = rows[i].recipe
             /\ item'[i].used = rows[i].used /\ item'[i].waste = rows[i].waste
             /\ item'[i].role = rows[i].role
  <2> DEFINE n == Need(rows[i])
             row == [rows[i] EXCEPT !.held = n]
  <2>1. n \in Nat /\ rows[i] \in OrderItem
    BY NeedNat
  <2>2. item'[i] = IF i \in res THEN row ELSE rows[i]
    BY <1>1
  <2> HIDE DEF n
  <2>3. /\ row \in OrderItem /\ row.held = n
        /\ row.status = rows[i].status /\ row.session = rows[i].session
        /\ row.invoice = rows[i].invoice /\ row.paid = rows[i].paid
        /\ row.quantity = rows[i].quantity /\ row.recipe = rows[i].recipe
        /\ row.used = rows[i].used /\ row.waste = rows[i].waste
        /\ row.role = rows[i].role
    BY <2>1 DEF OrderItem
  <2> HIDE DEF row
  <2>. QED BY <2>1, <2>2, <2>3 DEF n
<1>4. item' \in [Items -> OrderItem]
  BY <1>1, <1>3
<1>5. /\ \A i \in res : rows[i].held = 0 /\ item'[i].held = Need(rows[i])
      /\ \A i \in Items \ res : item'[i].held = rows[i].held
  BY <1>2, <1>3
<1>6. /\ HeldBy(item') = HeldBy(rows) + Total([i \in Items |-> Need(rows[i])], res)
      /\ Total([i \in Items |-> Need(rows[i])], res) \in Nat
  BY <1>2, <1>4, <1>5, SumsReserve
<1>7. reserved' = HeldBy(item') /\ reserved' <= stock
  BY <1>1, <1>2, <1>6
<1>8. \A i \in Items : item'[i].held = IF i \in is /\ rows[i].status = "PENDING"
                                       THEN Need(rows[i]) ELSE rows[i].held
  BY <1>1, <1>2, <1>3
<1>. QED BY <1>3, <1>4, <1>7, <1>8

\* closeSessionIfFullyPaid: a takeaway session ends once its lines are paid.
LEMMA CloseSeats ==
  ASSUME Inv, NEW s, NEW rows, NEW c \in BOOLEAN, UNCHANGED table,
         session' = IF c THEN CloseSessionIfFullyPaid(s, rows) ELSE session
  PROVE  /\ session' \in [Sessions -> Session] /\ Seats(table', session')
         /\ \A o \in Sessions :
              \/ session'[o] = session[o]
              \/ /\ o = s /\ session[o].status = "ACTIVE" /\ session'[o].status = "COMPLETED"
                 /\ session'[o].table = NoTable
                 /\ \A i \in Items : rows[i].session = s /\ rows[i].status # "CANCELLED" =>
                      rows[i].paid
<1>1. session \in [Sessions -> Session] /\ Seats(table, session)
  BY DEF Inv, Columns
<1>2. CASE session' = session
  BY <1>1, <1>2
<1>3. CASE session' # session
  <2>1. /\ Active(s) /\ ~DineIn(s) /\ session' = [session EXCEPT ![s].status = "COMPLETED"]
        /\ \A i \in Items : rows[i].session = s /\ rows[i].status # "CANCELLED" => rows[i].paid
    BY <1>3 DEF CloseSessionIfFullyPaid
  <2>2. s \in Sessions
    BY <1>1, <1>3, <2>1
  <2>3. table' = IF DineIn(s) THEN [table EXCEPT ![session[s].table] = "EMPTY"] ELSE table
    BY <2>1
  <2>4. /\ Seats(table', session') /\ session' \in [Sessions -> Session]
        /\ session'[s].status = "COMPLETED" /\ session'[s].table = session[s].table
        /\ \A o \in Sessions \ {s} : session'[o] = session[o]
    BY <2>1, <2>2, <2>3, LeaveSeats
  <2>. QED BY <2>1, <2>4 DEF Active, DineIn
<1>. QED BY <1>2, <1>3

\* createInvoiceInTransaction.
LEMMA InvoiceInv ==
  ASSUME Inv, NEW v \in Invoices, NEW s \in Sessions, NEW is \in SUBSET Items,
         NEW paid \in BOOLEAN, NEW close \in BOOLEAN, CreateInvoice(v, s, is, paid, close)
  PROVE  Inv'
<1> DEFINE rows == [i \in Items |-> IF i \in is
                      THEN [item[i] EXCEPT !.invoice = v, !.paid = paid] ELSE item[i]]
           bill == [status |-> IF paid THEN "PAID" ELSE "UNPAID", session |-> s]
           c == paid /\ close
<1>1. /\ invoice[v].status = "NONE" /\ session[s].status = "ACTIVE"
      /\ \A i \in is : /\ item[i].session = s /\ ~item[i].paid /\ item[i].invoice = NoInvoice
                       /\ item[i].status # "CANCELLED"
      /\ ReservePendingItems(rows, is)
      /\ invoice' = [invoice EXCEPT ![v] = bill]
      /\ session' = IF c THEN CloseSessionIfFullyPaid(s, rows) ELSE session
      /\ UNCHANGED <<table, stock, moved>>
  BY DEF CreateInvoice, Active, Unbilled
<1>2. /\ item \in [Items -> OrderItem] /\ invoice \in [Invoices -> Invoice]
      /\ stock \in Nat /\ reserved \in Nat /\ reserved = HeldBy(item) /\ c \in BOOLEAN
      /\ table \in [Tables -> {"NONE", "EMPTY", "OCCUPIED", "DELETED"}]
  BY DEF Inv, Columns, Lines, Balanced
<1>3. bill \in Invoice /\ bill.status = (IF paid THEN "PAID" ELSE "UNPAID") /\ bill.session = s
  BY DEF Invoice
<1>4. ASSUME NEW i \in Items
      PROVE  /\ rows[i] \in OrderItem /\ rows[i].held = item[i].held
             /\ rows[i].status = item[i].status /\ rows[i].session = item[i].session
             /\ rows[i].invoice = (IF i \in is THEN v ELSE item[i].invoice)
             /\ rows[i].paid = (IF i \in is THEN paid ELSE item[i].paid)
             /\ rows[i].used = item[i].used /\ rows[i].waste = item[i].waste
             /\ rows[i].role = item[i].role /\ Need(rows[i]) = Need(item[i])
  <2> DEFINE row == [item[i] EXCEPT !.invoice = v, !.paid = paid]
  <2>1. rows[i] = IF i \in is THEN row ELSE item[i]
    OBVIOUS
  <2> HIDE DEF rows, bill, c
  <2>2. /\ row \in OrderItem /\ row.held = item[i].held
        /\ row.status = item[i].status /\ row.session = item[i].session
        /\ row.invoice = v /\ row.paid = paid
        /\ row.used = item[i].used /\ row.waste = item[i].waste
        /\ row.role = item[i].role /\ row.recipe = item[i].recipe
        /\ row.quantity = item[i].quantity
    <3>1. item[i] \in OrderItem /\ v \in Invoices \cup {NoInvoice} /\ paid \in BOOLEAN
      BY <1>2
    <3>. QED BY ONLY <3>1 DEF OrderItem
  <2> HIDE DEF row
  <2>. QED BY <1>2, <2>1, <2>2 DEF Need
<1>5. rows \in [Items -> OrderItem]
  <2>1. rows = [i \in Items |-> rows[i]]
    OBVIOUS
  <2> HIDE DEF rows
  <2>. QED BY <1>4, <2>1
<1> HIDE DEF rows, bill, c
<1>6. reserved = HeldBy(rows)
  BY <1>2, <1>4, SumsSame
<1>7. /\ item' \in [Items -> OrderItem]
      /\ reserved' = HeldBy(item') /\ reserved' <= stock
      /\ \A i \in Items :
           /\ item'[i].held = IF i \in is /\ rows[i].status = "PENDING"
                              THEN Need(rows[i]) ELSE rows[i].held
           /\ item'[i].status = rows[i].status /\ item'[i].session = rows[i].session
           /\ item'[i].invoice = rows[i].invoice /\ item'[i].paid = rows[i].paid
           /\ item'[i].quantity = rows[i].quantity /\ item'[i].recipe = rows[i].recipe
           /\ item'[i].used = rows[i].used /\ item'[i].waste = rows[i].waste
           /\ item'[i].role = rows[i].role
  BY <1>1, <1>2, <1>5, <1>6, ReserveRows
<1>8. /\ session' \in [Sessions -> Session] /\ Seats(table', session')
      /\ \A o \in Sessions :
           \/ session'[o] = session[o]
           \/ /\ o = s /\ session[o].status = "ACTIVE" /\ session'[o].status = "COMPLETED"
              /\ session'[o].table = NoTable
              /\ \A i \in Items : rows[i].session = s /\ rows[i].status # "CANCELLED" =>
                   rows[i].paid
  BY <1>1, <1>2, CloseSeats
<1>9. /\ invoice' \in [Invoices -> Invoice] /\ invoice'[v] = bill
      /\ \A o \in Invoices \ {v} : invoice'[o] = invoice[o]
  BY <1>1, <1>2, <1>3
<1>10. ASSUME NEW i \in Items
       PROVE  /\ LineOK(item'[i]) /\ Seated(item'[i], session')
              /\ Billed(item'[i], invoice') /\ item'[i].used = item[i].used
  <2>1. /\ LineOK(item[i]) /\ Seated(item[i], session) /\ Billed(item[i], invoice)
        /\ item[i] \in OrderItem
    BY LineOf
  <2>2. CASE i \in is
    <3>1. item[i].status \notin {"NONE", "CANCELLED"} /\ item[i].role = "plain"
      <4>1. item[i].status # "NONE"
        BY <1>1, <2>1, <2>2, BlankRow, OrderConstants DEF LineOK
      <4>. QED BY <1>1, <2>1, <2>2, <4>1 DEF LineOK, OrderItem
    <3>2. /\ item'[i].status = item[i].status /\ item'[i].session = s
          /\ item'[i].invoice = v /\ item'[i].paid = paid
          /\ item'[i].used = item[i].used /\ item'[i].waste = item[i].waste
          /\ item'[i].role = item[i].role /\ Need(item'[i]) = Need(item[i])
          /\ item'[i] \in OrderItem
          /\ item'[i].held = IF item[i].status = "PENDING" THEN Need(item[i]) ELSE item[i].held
      <4>1. Need(item'[i]) = Need(rows[i])
        BY <1>7 DEF Need
      <4>. QED BY <1>1, <1>4, <1>7, <2>2, <4>1
    <3>3. LineOK(item'[i])
      BY <1>1, <2>1, <2>2, <3>1, <3>2, OrderConstants DEF LineOK
    <3>4. Billed(item'[i], invoice')
      BY <1>3, <1>9, <3>2 DEF Billed
    <3>5. Seated(item'[i], session')
      <4>1. session'[s] = session[s] \/ (session'[s].status = "COMPLETED"
              /\ session'[s].table = NoTable /\ paid)
        BY <1>1, <1>4, <1>8, <2>2
      <4>. QED BY <1>1, <3>2, <4>1 DEF Seated
    <3>. QED BY <3>2, <3>3, <3>4, <3>5
  <2>3. CASE i \notin is
    <3>1. /\ item'[i].status = item[i].status /\ item'[i].session = item[i].session
          /\ item'[i].invoice = item[i].invoice /\ item'[i].paid = item[i].paid
          /\ item'[i].used = item[i].used /\ item'[i].waste = item[i].waste
          /\ item'[i].role = item[i].role /\ item'[i].held = item[i].held
          /\ rows[i] = item[i]
      <4>1. rows[i] = item[i]
        BY <2>3 DEF rows
      <4>. QED BY <1>7, <2>3, <4>1
    <3>2. item'[i] = item[i]
      <4>1. i \notin Reservable(rows, is)
        BY <2>3 DEF Reservable
      <4>. QED BY <1>1, <3>1, <4>1 DEF ReservePendingItems
    <3>3. Billed(item[i], invoice')
      <4>1. item[i].invoice # NoInvoice => item[i].invoice \in Invoices \ {v}
        BY <1>1, <2>1 DEF Billed, OrderItem
      <4>. QED BY <1>9, <2>1, <4>1 DEF Billed
    <3>4. Seated(item[i], session')
      <4>1. item[i].session \in Sessions => \/ session'[item[i].session] = session[item[i].session]
                                            \/ /\ session[item[i].session].status = "ACTIVE"
                                               /\ session'[item[i].session].status = "COMPLETED"
                                               /\ session'[item[i].session].table = NoTable
                                               /\ item[i].status # "CANCELLED" => item[i].paid
        BY <1>8, <3>1
      <4>. QED BY <2>1, <4>1 DEF Seated
    <3>. QED BY <2>1, <3>2, <3>3, <3>4
  <2>. QED BY <2>2, <2>3
<1>11. table' \in [Tables -> {"NONE", "EMPTY", "OCCUPIED", "DELETED"}]
  BY <1>1, <1>2
<1>. QED BY <1>1, <1>7, <1>8, <1>9, <1>10, <1>11, RowsInv

\* The lines of a bill that was paid: only that column differs.
LEMMA PaidRows ==
  ASSUME Inv, NEW v \in Invoices
  PROVE  /\ PaidLines(v) \in [Items -> OrderItem]
         /\ \A i \in Items : item[i].invoice # v => PaidLines(v)[i] = item[i]
         /\ \A i \in Items : LET row == PaidLines(v)[i] IN
              /\ row.paid = (item[i].invoice = v \/ item[i].paid)
              /\ row.held = item[i].held /\ row.status = item[i].status
              /\ row.session = item[i].session /\ row.invoice = item[i].invoice
              /\ row.used = item[i].used /\ row.waste = item[i].waste
              /\ row.role = item[i].role /\ row.recipe = item[i].recipe
              /\ row.quantity = item[i].quantity
<1> DEFINE rows == PaidLines(v)
<1>1. ASSUME NEW i \in Items
      PROVE  /\ rows[i] \in OrderItem
             /\ item[i].invoice # v => rows[i] = item[i]
             /\ rows[i].paid = (item[i].invoice = v \/ item[i].paid)
             /\ rows[i].held = item[i].held /\ rows[i].status = item[i].status
             /\ rows[i].session = item[i].session /\ rows[i].invoice = item[i].invoice
             /\ rows[i].used = item[i].used /\ rows[i].waste = item[i].waste
             /\ rows[i].role = item[i].role /\ rows[i].recipe = item[i].recipe
             /\ rows[i].quantity = item[i].quantity
  <2> DEFINE row == [item[i] EXCEPT !.paid = TRUE]
  <2>1. item[i] \in OrderItem /\ item[i].paid \in BOOLEAN
    BY LineOf DEF OrderItem
  <2>2. rows[i] = IF item[i].invoice = v THEN row ELSE item[i]
    BY DEF PaidLines
  <2>3. /\ row \in OrderItem /\ row.paid = TRUE
        /\ row.held = item[i].held /\ row.status = item[i].status
        /\ row.session = item[i].session /\ row.invoice = item[i].invoice
        /\ row.used = item[i].used /\ row.waste = item[i].waste
        /\ row.role = item[i].role /\ row.recipe = item[i].recipe
        /\ row.quantity = item[i].quantity
    BY ONLY <2>1 DEF OrderItem
  <2> HIDE DEF row, rows
  <2>. QED BY <2>1, <2>2, <2>3
<1>2. rows = [i \in Items |-> rows[i]]
  BY DEF PaidLines
<1> HIDE DEF rows
<1>3. rows \in [Items -> OrderItem]
  BY <1>1, <1>2
<1>. QED BY <1>1, <1>3 DEF rows

\* A payment, at the counter or reported by a provider: the lines of the bill
\* hold what they need since it was written, so nothing is reserved again.
LEMMA PayInv ==
  ASSUME Inv, NEW v \in Invoices, NEW close \in BOOLEAN,
         UpdatePayment(v, close) \/ CompleteOnlinePayment(v, close)
  PROVE  Inv'
<1> DEFINE rows == PaidLines(v)
           is == {i \in Items : item[i].invoice = v}
<1>1. /\ invoice[v].status = "UNPAID"
      /\ invoice' = [invoice EXCEPT ![v].status = "PAID"]
      /\ session' = IF close THEN CloseSessionIfFullyPaid(invoice[v].session, rows) ELSE session
      /\ UNCHANGED <<table, stock, moved>>
      /\ ReservePendingItems(rows, is) \/ (item' = rows /\ UNCHANGED reserved)
  BY DEF UpdatePayment, CompleteOnlinePayment, Pay
<1>2. /\ item \in [Items -> OrderItem] /\ invoice \in [Invoices -> Invoice]
      /\ stock \in Nat /\ reserved \in Nat /\ reserved = HeldBy(item) /\ reserved <= stock
      /\ table \in [Tables -> {"NONE", "EMPTY", "OCCUPIED", "DELETED"}]
  BY DEF Inv, Columns, Lines, Balanced
<1>3. /\ rows \in [Items -> OrderItem]
      /\ \A i \in Items : /\ item[i].invoice # v => rows[i] = item[i]
                          /\ rows[i].paid = (item[i].invoice = v \/ item[i].paid)
                          /\ rows[i].held = item[i].held /\ rows[i].status = item[i].status
                          /\ rows[i].session = item[i].session
                          /\ rows[i].invoice = item[i].invoice
                          /\ rows[i].used = item[i].used /\ rows[i].waste = item[i].waste
                          /\ rows[i].role = item[i].role /\ rows[i].recipe = item[i].recipe
                          /\ rows[i].quantity = item[i].quantity
  BY PaidRows
<1>4. is \in SUBSET Items /\ \A i \in Items : i \in is <=> item[i].invoice = v
  OBVIOUS
<1> HIDE DEF rows, is
<1>5. reserved = HeldBy(rows)
  BY <1>2, <1>3, SumsSame
<1>6. \A i \in Items : Need(rows[i]) = Need(item[i])
  BY <1>3 DEF Need
<1>7. \A i \in is : rows[i].status = "PENDING" => rows[i].held = Need(rows[i])
  BY <1>3, <1>4, <1>6, LineOf, OrderConstants DEF LineOK
<1>8. /\ item' \in [Items -> OrderItem] /\ reserved' = HeldBy(item') /\ reserved' <= stock
      /\ \A i \in Items : item'[i] = rows[i]
  <2>1. CASE item' = rows /\ UNCHANGED reserved
    BY <1>2, <1>3, <1>5, <2>1
  <2>2. CASE ReservePendingItems(rows, is)
    <3>1. /\ item' \in [Items -> OrderItem] /\ reserved' = HeldBy(item') /\ reserved' <= stock
      BY <1>2, <1>3, <1>4, <1>5, <2>2, ReserveRows
    <3>2. ASSUME NEW i \in Items PROVE item'[i] = rows[i]
      <4>1. item'[i] = IF i \in Reservable(rows, is)
                       THEN [rows[i] EXCEPT !.held = Need(rows[i])] ELSE rows[i]
        BY <2>2 DEF ReservePendingItems
      <4>2. i \in Reservable(rows, is) => rows[i].held = Need(rows[i])
        BY <1>7 DEF Reservable
      <4>3. rows[i].held = Need(rows[i]) => [rows[i] EXCEPT !.held = Need(rows[i])] = rows[i]
        <5>1. rows[i] \in OrderItem
          BY <1>3
        <5>. QED BY <5>1 DEF OrderItem
      <4>. QED BY <4>1, <4>2, <4>3
    <3>. QED BY <3>1, <3>2
  <2>. QED BY <1>1, <2>1, <2>2
<1>9. /\ session' \in [Sessions -> Session] /\ Seats(table', session')
      /\ \A o \in Sessions :
           \/ session'[o] = session[o]
           \/ /\ o = invoice[v].session /\ session[o].status = "ACTIVE"
              /\ session'[o].status = "COMPLETED" /\ session'[o].table = NoTable
              /\ \A i \in Items : rows[i].session = invoice[v].session
                   /\ rows[i].status # "CANCELLED" => rows[i].paid
  BY <1>1, CloseSeats
<1>10. /\ invoice' \in [Invoices -> Invoice] /\ invoice'[v].status = "PAID"
       /\ invoice'[v].session = invoice[v].session
       /\ \A o \in Invoices \ {v} : invoice'[o] = invoice[o]
  BY <1>1, <1>2 DEF Invoice
<1>11. ASSUME NEW i \in Items
       PROVE  /\ LineOK(item'[i]) /\ Seated(item'[i], session')
              /\ Billed(item'[i], invoice') /\ item'[i].used = item[i].used
  <2>1. /\ LineOK(item[i]) /\ Seated(item[i], session) /\ Billed(item[i], invoice)
        /\ item[i] \in OrderItem
    BY LineOf
  <2>2. LineOK(rows[i])
    <3>1. rows[i] \in OrderItem
      BY <1>3
    <3>2. CASE item[i].invoice = v
      <4>1. item[i].status # "NONE" /\ item[i].role # "replacement" /\ v # NoInvoice
        BY <2>1, <3>2, OrderConstants DEF LineOK
      <4>. QED BY <1>3, <1>6, <2>1, <3>1, <3>2, <4>1 DEF LineOK
    <3>3. CASE item[i].invoice # v
      BY <1>3, <2>1, <3>3
    <3>. QED BY <3>2, <3>3
  <2>3. Billed(rows[i], invoice')
    <3>1. item[i].invoice # NoInvoice => item[i].invoice \in Invoices
      BY <2>1 DEF OrderItem
    <3>2. CASE item[i].invoice = v
      <4>1. rows[i].paid /\ rows[i].invoice = v /\ rows[i].session = item[i].session
        BY <1>3, <3>2
      <4>2. invoice[v].session = item[i].session
        BY <2>1, <3>2, OrderConstants DEF Billed
      <4>. QED BY <1>10, <4>1, <4>2 DEF Billed
    <3>3. CASE item[i].invoice # v
      BY <1>3, <1>10, <2>1, <3>1, <3>3 DEF Billed
    <3>. QED BY <3>2, <3>3
  <2>4. Seated(rows[i], session')
    <3>1. item[i].session \in Sessions =>
            \/ session'[item[i].session] = session[item[i].session]
            \/ /\ session[item[i].session].status = "ACTIVE"
               /\ session'[item[i].session].status = "COMPLETED"
               /\ session'[item[i].session].table = NoTable
               /\ item[i].status # "CANCELLED" => rows[i].paid
      BY <1>3, <1>9
    <3>. QED BY <1>3, <2>1, <3>1 DEF Seated
  <2>. QED BY <1>3, <1>8, <2>2, <2>3, <2>4
<1>12. table' \in [Tables -> {"NONE", "EMPTY", "OCCUPIED", "DELETED"}]
  BY <1>1, <1>2
<1>. QED BY <1>1, <1>8, <1>9, <1>10, <1>11, <1>12, RowsInv

\* voidInvoice: the lines lose their bill, and the pending ones their stock.
LEMMA VoidInv ==
  ASSUME Inv, NEW v \in Invoices, VoidInvoice(v)
  PROVE  Inv'
<1> DEFINE pending == {i \in Items : item[i].invoice = v /\ item[i].status = "PENDING"}
<1>1. /\ invoice[v].status = "UNPAID" /\ invoice' = [invoice EXCEPT ![v].status = "VOIDED"]
      /\ reserved' = reserved - Held(pending)
      /\ item' = [i \in Items |->
           LET row == IF i \in pending THEN Released(item[i]) ELSE item[i]
           IN  IF row.invoice = v /\ ~row.paid THEN [row EXCEPT !.invoice = NoInvoice] ELSE row]
      /\ UNCHANGED <<table, session, stock, moved>>
  BY DEF VoidInvoice
<1>2. /\ item \in [Items -> OrderItem] /\ invoice \in [Invoices -> Invoice]
      /\ stock \in Nat /\ reserved \in Nat /\ reserved = HeldBy(item) /\ reserved <= stock
      /\ table \in [Tables -> {"NONE", "EMPTY", "OCCUPIED", "DELETED"}]
      /\ session \in [Sessions -> Session] /\ Seats(table, session)
  BY DEF Inv, Columns, Lines, Balanced
<1>3. /\ pending \in SUBSET Items
      /\ \A i \in Items : i \in pending <=> item[i].invoice = v /\ item[i].status = "PENDING"
  OBVIOUS
<1> HIDE DEF pending
<1>4. /\ invoice' \in [Invoices -> Invoice]
      /\ \A o \in Invoices \ {v} : invoice'[o] = invoice[o]
  BY <1>1, <1>2 DEF Invoice
<1>5. ASSUME NEW i \in Items
      PROVE  /\ LineOK(item'[i]) /\ Seated(item'[i], session')
             /\ Billed(item'[i], invoice') /\ item'[i].used = item[i].used
             /\ item'[i].held = IF i \in pending THEN 0 ELSE item[i].held
             /\ item'[i] \in OrderItem
  <2>1. /\ LineOK(item[i]) /\ Seated(item[i], session) /\ Billed(item[i], invoice)
        /\ item[i] \in OrderItem
    BY LineOf
  <2>2. CASE item[i].invoice # v
    <3>1. item'[i] = item[i] /\ i \notin pending
      BY <1>1, <1>3, <2>2
    <3>2. item[i].invoice # NoInvoice => item[i].invoice \in Invoices \ {v}
      BY <2>1, <2>2 DEF OrderItem
    <3>3. Billed(item[i], invoice')
      BY <1>4, <2>1, <3>2 DEF Billed
    <3>. QED BY <1>1, <2>1, <3>1, <3>3
  <2>3. CASE item[i].invoice = v
    <3> DEFINE low == IF i \in pending THEN Released(item[i]) ELSE item[i]
               row == [low EXCEPT !.invoice = NoInvoice]
    <3>1. ~item[i].paid /\ item[i].role = "plain" /\ item[i].status \notin {"NONE", "CANCELLED"}
      <4>1. v # NoInvoice /\ ~item[i].paid
        BY <1>1, <2>1, <2>3, OrderConstants DEF Billed
      <4>. QED BY <2>1, <2>3, <4>1 DEF LineOK, OrderItem
    <3>2. /\ low \in OrderItem /\ low.status = item[i].status /\ low.session = item[i].session
          /\ low.invoice = item[i].invoice /\ low.paid = item[i].paid
          /\ low.quantity = item[i].quantity /\ low.recipe = item[i].recipe
          /\ low.used = item[i].used /\ low.waste = item[i].waste /\ low.role = item[i].role
          /\ low.held = IF i \in pending THEN 0 ELSE item[i].held
      BY <2>1 DEF OrderItem, Released
    <3>3. item'[i] = IF low.invoice = v /\ ~low.paid THEN row ELSE low
      BY <1>1
    <3> HIDE DEF low
    <3>4. item'[i] = row
      BY <2>3, <3>1, <3>2, <3>3
    <3>5. /\ row \in OrderItem /\ row.status = low.status /\ row.session = low.session
          /\ row.invoice = NoInvoice /\ row.paid = low.paid
          /\ row.quantity = low.quantity /\ row.recipe = low.recipe
          /\ row.used = low.used /\ row.waste = low.waste /\ row.role = low.role
          /\ row.held = low.held
      BY ONLY <3>2 DEF OrderItem
    <3> HIDE DEF row
    <3>6. Need(row) = Need(item[i])
      BY <3>2, <3>5 DEF Need
    <3>7. row.held = 0
      BY <1>3, <2>1, <2>3, <3>2, <3>5 DEF LineOK
    <3>8. LineOK(row)
      BY <2>1, <3>1, <3>2, <3>5, <3>6, <3>7 DEF LineOK
    <3>9. Seated(row, session') /\ Billed(row, invoice')
      BY <1>1, <2>1, <3>2, <3>5 DEF Seated, Billed
    <3>. QED BY <3>2, <3>4, <3>5, <3>8, <3>9
  <2>. QED BY <2>2, <2>3
<1>6. item' \in [Items -> OrderItem]
  BY <1>1, <1>5
<1>7. reserved' = HeldBy(item') /\ reserved' <= stock
  <2> DEFINE h == [i \in Items |-> item[i].held]
  <2>1. HeldBy(item') = HeldBy(item) - Held(pending)
    BY <1>2, <1>3, <1>5, <1>6, SumsRelease DEF Held
  <2>2. Held(pending) = Total(h, pending) /\ \A i \in pending : h[i] \in Nat
    BY <1>2, <1>3, SumsNat DEF Held
  <2> HIDE DEF h
  <2>3. IsFiniteSet(pending)
    BY <1>3, OrderConstants, FS_Subset
  <2>4. Held(pending) \in Nat
    BY <2>2, <2>3, TotalNat
  <2>. QED BY <1>1, <1>2, <2>1, <2>4
<1>8. /\ table' \in [Tables -> {"NONE", "EMPTY", "OCCUPIED", "DELETED"}]
      /\ session' \in [Sessions -> Session] /\ Seats(table', session')
  BY <1>1, <1>2
<1>. QED BY <1>1, <1>4, <1>5, <1>6, <1>7, <1>8, RowsInv

\* Every step keeps the invariant.
LEMMA NextInv == Inv /\ [Next]_vars => Inv'
<1> SUFFICES ASSUME Inv, [Next]_vars PROVE Inv'
  OBVIOUS
<1>1. ASSUME NEW t \in Tables, CreateTable(t) \/ DeleteTable(t) \/ ClearTable(t)
      PROVE  Inv'
  <2>1. CASE \E s \in Sessions : ClearTable(t) /\ Active(s) /\ session[s].table = t /\ Discard(s)
    <3>1. PICK s \in Sessions : ClearTable(t) /\ Active(s) /\ session[s].table = t /\ Discard(s)
      BY <2>1
    <3>2. DineIn(s) /\ table' = [table EXCEPT ![session[s].table] = "EMPTY"]
      BY <3>1, OrderConstants DEF DineIn, ClearTable
    <3>. QED BY <3>1, <3>2, DiscardInv
  <2>2. CASE ~\E s \in Sessions : ClearTable(t) /\ Active(s) /\ session[s].table = t /\ Discard(s)
    <3>1. ClearTable(t) => /\ UNCHANGED <<session, item, invoice, store>>
                           /\ \A s \in Sessions : Active(s) => session[s].table # t
      BY <2>2 DEF ClearTable
    <3>. QED BY <1>1, <3>1, TableInv
  <2>. QED BY <2>1, <2>2
<1>2. ASSUME NEW q \in 1 .. MaxStock, ImportItem(q) \/ ExportItem(q)
      PROVE  Inv'
  BY <1>2, MovementInv
<1>3. ASSUME NEW s \in Sessions,
             \/ \E t \in Tables \cup {NoTable} : OpenSession(s, t)
             \/ \E i \in Items, q \in 1 .. MaxQuantity, r \in Recipes : AddOrderItem(i, s, q, r)
             \/ CancelSession(s) \/ CompleteSession(s)
      PROVE  Inv'
  BY <1>3, OpenInv, AddInv, DiscardInv, CompleteInv DEF CancelSession
<1>4. ASSUME NEW s \in Sessions,
             \/ \E t \in Tables : TransferTable(s, t)
             \/ \E from \in SUBSET Sessions : MergeTables(from, s)
             \/ \E n \in Sessions, t \in Tables : SplitTable(s, n, t)
             \/ \E v \in Invoices, is \in SUBSET Items, paid, close \in BOOLEAN :
                  CreateInvoice(v, s, is, paid, close)
      PROVE  Inv'
  BY <1>4, TransferInv, MergeInv, SplitInv, InvoiceInv
<1>5. ASSUME NEW i \in Items,
             \/ \E to \in ServeStatus : ChangeItemStatus(i, to)
             \/ CancelItem(i)
             \/ \E j \in Items : RemakeItem(i, j)
      PROVE  Inv'
  BY <1>5, ConsumeInv, ServeInv, CancelInv, RemakeInv
<1>6. ASSUME NEW v \in Invoices, NEW close \in BOOLEAN,
             UpdatePayment(v, close) \/ CompleteOnlinePayment(v, close)
      PROVE  Inv'
  BY <1>6, PayInv
<1>7. ASSUME NEW v \in Invoices, VoidInvoice(v)
      PROVE  Inv'
  BY <1>7, VoidInv
<1>8. CASE UNCHANGED vars
  BY <1>8 DEF vars, Inv, Columns, Lines, Balanced, Seats, HeldBy, UsedBy
<1>. QED BY <1>1, <1>2, <1>3, <1>4, <1>5, <1>6, <1>7, <1>8 DEF Next

\* The operations of staff keep the invariant, whatever order they come in.
THEOREM InvHolds == Spec => []Inv
BY InitInv, NextInv, PTL DEF Spec

-----------------------------------------------------------------------------
(* What it means.                                                          *)

\* createOrderSession, transferTable, mergeTables, splitTable, cancelSession,
\* completeSession, clearTable and deleteTable keep the status of a table in
\* step with the one session that sits at it.
THEOREM TablesMatchSessions == Spec => []TableMatchesSessions
<1>1. Inv => TableMatchesSessions
  <2> SUFFICES ASSUME Inv, NEW t \in Tables
               PROVE  LET at == {s \in Sessions : Active(s) /\ session[s].table = t}
                      IN  /\ table[t] = "OCCUPIED" => \E s \in Sessions : at = {s}
                          /\ table[t] # "OCCUPIED" => at = {}
    BY DEF TableMatchesSessions
  <2>1. Seats(table, session) /\ t # NoTable
    BY OrderConstants DEF Inv
  <2>2. ASSUME table[t] = "OCCUPIED"
        PROVE  \E s \in Sessions : {o \in Sessions : Active(o) /\ session[o].table = t} = {s}
    <3>1. PICK s \in Sessions : session[s].status = "ACTIVE" /\ session[s].table = t
      BY <2>1, <2>2 DEF Seats
    <3>2. \A o \in Sessions : session[o].status = "ACTIVE" /\ session[o].table = t => o = s
      BY <2>1, <3>1 DEF Seats
    <3>3. {o \in Sessions : Active(o) /\ session[o].table = t} = {s}
      BY <3>1, <3>2 DEF Active
    <3>. QED BY <3>3
  <2>3. ASSUME table[t] # "OCCUPIED"
        PROVE  {o \in Sessions : Active(o) /\ session[o].table = t} = {}
    BY <2>1, <2>3 DEF Seats, Active
  <2>. QED BY <2>2, <2>3
<1>. QED BY <1>1, InvHolds, PTL

\* cancelSession, completeSession, mergeTables and closeSessionIfFullyPaid end
\* no session that still has a line to cook, to serve or to charge for.
THEOREM SessionsClean == Spec => []SessionsEndClean
<1>1. Inv => SessionsEndClean
  BY DEF Inv, Lines, Seated, SessionsEndClean, DineIn
<1>. QED BY <1>1, InvHolds, PTL

\* createInvoice, updatePayment, completeOnlinePayment and voidInvoice keep a
\* bill and its lines in one state and in one session.
THEOREM BillsAgree == Spec => []BillsMatchLines
<1>1. Inv => BillsMatchLines
  BY DEF Inv, Lines, LineOK, Billed, BillsMatchLines
<1>. QED BY <1>1, InvHolds, PTL

\* reservedStock is the sum of the reservations and never more than the
\* stock, and the ledger of movements explains the stock, for any number of
\* lines, any recipe and any quantity.
THEOREM StockIsBalanced == Spec => []StockBalances
<1>1. Inv => StockBalances
  <2> SUFFICES ASSUME Inv PROVE StockBalances
    OBVIOUS
  <2>1. TypeOK
    BY DEF Inv, Columns, Lines, Seated, TypeOK
  <2>2. BilledIsReserved
    BY DEF Inv, Lines, LineOK, BilledIsReserved
  <2>3. Held(Items) = HeldBy(item)
    BY DEF Held, HeldBy
  <2>. QED BY <2>1, <2>2, <2>3 DEF Inv, Balanced, StockBalances, UsedBy
<1>. QED BY <1>1, InvHolds, PTL

\* changeItemStatus never refuses the kitchen a line that was paid for, and
\* loses none of the ingredients it took.
THEOREM KitchenPromise == Spec => []KitchenKeepsPromise
<1>1. Inv => KitchenKeepsPromise
  <2> SUFFICES ASSUME Inv, NEW i \in Items
               PROVE  /\ item[i].paid /\ item[i].status = "PENDING"
                           /\ item[i].role # "replacement" => Workable(i) /\ CanConsume(i)
                      /\ item[i].status \in {"NONE", "PENDING"} => item[i].used = 0
                      /\ item[i].status \in Prepared => item[i].used = Need(item[i])
                      /\ item[i].waste <=> item[i].used > 0
                           /\ (item[i].status = "CANCELLED" \/ item[i].role = "remade")
    BY DEF KitchenKeepsPromise, PaidIsCookable, WasteRecorded
  <2>1. LineOK(item[i]) /\ Seated(item[i], session) /\ item[i] \in OrderItem
    BY LineOf
  <2>2. ASSUME item[i].paid, item[i].status = "PENDING", item[i].role # "replacement"
        PROVE  Workable(i) /\ CanConsume(i)
    <3>1. item[i].invoice # NoInvoice /\ item[i].held = Need(item[i])
      BY <2>1, <2>2 DEF LineOK
    <3>2. Workable(i)
      BY <2>1, <2>2, <3>1 DEF Workable, Seated
    <3>3. /\ item[i].held <= HeldBy(item) /\ item[i].held \in Nat /\ reserved = HeldBy(item)
          /\ reserved <= stock /\ stock \in Nat /\ reserved \in Nat
      BY SumsNat DEF Inv, Lines, Balanced, Columns
    <3>4. CanConsume(i)
      BY <3>1, <3>3 DEF CanConsume
    <3>. QED BY <3>2, <3>4
  <2>. QED BY <2>1, <2>2 DEF LineOK
<1>. QED BY <1>1, InvHolds, PTL
=============================================================================
