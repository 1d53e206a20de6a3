----------------------------- MODULE StockRoom -----------------------------
(***************************************************************************)
(* Stock documents: stocktakes, purchase receipts, the items and suppliers *)
(* they name (stocktake.service.ts, purchase-receipt.service.ts,           *)
(* inventory-item.service.ts, supplier.service.ts), against the orders and *)
(* movements that change the same stock (see Orders).  Every operation is  *)
(* a serializable transaction, hence one action; what happens between the  *)
(* actions is the point: a count is taken on the shelf, a draft is         *)
(* reviewed on a screen, and both are posted later.  Costs are left out.   *)
(***************************************************************************)
EXTENDS Integers, FiniteSets

CONSTANTS Items, Stocktakes, Receipts,
          Quantities,   \* quantities a receipt line may have
          MaxStock, MaxRevision, MaxMoves \* bounds

VARIABLES item,      \* InventoryItem rows: stock, reservedStock, deletedAt
          ledger,    \* the sum of an item's InventoryTransaction rows
          shelf,     \* what is on the shelf
          missing,   \* what is missing on the shelf and not yet in the books
          cameBack,  \* items posted from a snapshot they had left and reached again
          moves,     \* movements of an item so far
          stocktake, \* Stocktake rows with their lines
          receipt,   \* PurchaseReceipt rows with their lines
          reviewed,  \* the draft of a receipt that is on the poster's screen
          supplier   \* the Supplier is not deleted

vars == <<item, ledger, shelf, missing, cameBack, moves, stocktake, receipt, reviewed, supplier>>
documents == <<stocktake, receipt, reviewed, supplier, cameBack>>

Document == {"NONE", "DRAFT", "POSTED", "CANCELLED"}
NotCounted == -1
NoDocument == [status |-> "NONE"]
Unread == [updatedAt |-> -1]

Init ==
  /\ item = [i \in Items |-> [row |-> "NONE", stock |-> 0, reserved |-> 0]]
  /\ ledger = [i \in Items |-> 0]
  /\ shelf = [i \in Items |-> 0]
  /\ missing = [i \in Items |-> 0] /\ cameBack = {}
  /\ moves = [i \in Items |-> 0]
  /\ stocktake = [k \in Stocktakes |-> NoDocument]
  /\ receipt = [d \in Receipts |-> NoDocument]
  /\ reviewed = [d \in Receipts |-> Unread]
  /\ supplier = TRUE

Active(i) == item[i].row = "ACTIVE"
Draft(document) == document.status = "DRAFT"
\* The items a document has lines for.
LinesOf(document) == DOMAIN document.lines
DraftLines(i) ==
  \/ \E k \in Stocktakes : Draft(stocktake[k]) /\ i \in LinesOf(stocktake[k])
  \/ \E d \in Receipts : Draft(receipt[d]) /\ i \in LinesOf(receipt[d])
\* Quantities by which the items in DOMAIN delta change, in stock and ledger.
Move(delta) ==
  /\ item' = [i \in Items |->
       IF i \in DOMAIN delta THEN [item[i] EXCEPT !.stock = @ + delta[i]] ELSE item[i]]
  /\ ledger' = [i \in Items |-> IF i \in DOMAIN delta THEN ledger[i] + delta[i] ELSE ledger[i]]
  /\ moves' = [i \in Items |->
       IF i \in DOMAIN delta /\ delta[i] # 0 THEN moves[i] + 1 ELSE moves[i]]
Put(delta) ==
  shelf' = [i \in Items |-> IF i \in DOMAIN delta THEN shelf[i] + delta[i] ELSE shelf[i]]
Room(i) == moves[i] < MaxMoves

-----------------------------------------------------------------------------
(* Items, their movements and the orders that use them                     *)

CreateItem(i, stock) ==
  /\ item[i].row = "NONE"
  /\ item' = [item EXCEPT ![i] = [row |-> "ACTIVE", stock |-> stock, reserved |-> 0]]
  /\ ledger' = [ledger EXCEPT ![i] = stock]
  /\ shelf' = [shelf EXCEPT ![i] = stock]
  /\ UNCHANGED <<missing, moves, documents>>

\* remove, with assertCanDeleteItem; a reservation is a pending order's.
RemoveItem(i) ==
  /\ Active(i) /\ item[i].stock = 0 /\ item[i].reserved = 0
  /\ ~DraftLines(i)
  /\ item' = [item EXCEPT ![i].row = "DELETED"]
  /\ UNCHANGED <<ledger, shelf, missing, moves, documents>>

\* importItem and exportItem.
ImportItem(i, quantity) ==
  /\ Active(i) /\ item[i].stock + quantity <= MaxStock /\ Room(i)
  /\ Move([j \in {i} |-> quantity]) /\ Put([j \in {i} |-> quantity])
  /\ UNCHANGED <<missing, documents>>
ExportItem(i, quantity) ==
  /\ Active(i) /\ item[i].stock >= quantity + item[i].reserved /\ Room(i)
  /\ shelf[i] >= quantity
  /\ Move([j \in {i} |-> -quantity]) /\ Put([j \in {i} |-> -quantity])
  /\ UNCHANGED <<missing, documents>>

\* An order reserves a unit, gives it back, or uses it (see Orders).
Reserve(i) ==
  /\ Active(i) /\ item[i].stock > item[i].reserved
  /\ item' = [item EXCEPT ![i].reserved = @ + 1]
  /\ UNCHANGED <<ledger, shelf, missing, moves, documents>>
Release(i) ==
  /\ item[i].reserved > 0
  /\ item' = [item EXCEPT ![i].reserved = @ - 1]
  /\ UNCHANGED <<ledger, shelf, missing, moves, documents>>
Consume(i) ==
  /\ item[i].reserved > 0 /\ shelf[i] > 0 /\ Room(i)
  /\ item' = [item EXCEPT ![i].reserved = @ - 1, ![i].stock = @ - 1]
  /\ ledger' = [ledger EXCEPT ![i] = @ - 1]
  /\ moves' = [moves EXCEPT ![i] = @ + 1]
  /\ Put([j \in {i} |-> -1])
  /\ UNCHANGED <<missing, documents>>

\* Something goes bad or missing, and nobody writes it down.
Spoil(i) ==
  /\ shelf[i] > 0
  /\ shelf' = [shelf EXCEPT ![i] = @ - 1]
  /\ missing' = [missing EXCEPT ![i] = @ + 1]
  /\ UNCHANGED <<item, ledger, moves, documents>>

-----------------------------------------------------------------------------
(* Stocktakes                                                              *)

\* since: the movements of each item at the snapshot; found: what its count
\* found missing.
CreateStocktake(k, S) ==
  /\ stocktake[k].status = "NONE" /\ S # {}
  /\ \A i \in S : Active(i)
  /\ stocktake' = [stocktake EXCEPT ![k] =
       [status |-> "DRAFT", expected |-> [i \in S |-> item[i].stock],
        lines |-> [i \in S |-> NotCounted], since |-> [i \in S |-> moves[i]],
        found |-> [i \in S |-> 0]]]
  /\ UNCHANGED <<item, ledger, shelf, missing, cameBack, moves, receipt, reviewed, supplier>>

\* updateCounts with what is on the shelf.
UpdateCount(k, i) ==
  /\ Draft(stocktake[k]) /\ i \in LinesOf(stocktake[k])
  /\ stocktake' = [stocktake EXCEPT ![k].lines[i] = shelf[i], ![k].found[i] = missing[i]]
  /\ UNCHANGED <<item, ledger, shelf, missing, cameBack, moves, receipt, reviewed, supplier>>

\* Mutant: the snapshot is not compared with the stock.
PostCounted(k) ==
  \A i \in LinesOf(stocktake[k]) :
    /\ stocktake[k].lines[i] # NotCounted
    /\ stocktake[k].lines[i] >= item[i].reserved
Postable(k) ==
  \A i \in LinesOf(stocktake[k]) :
    /\ stocktake[k].lines[i] # NotCounted
    /\ Active(i)
    /\ item[i].stock = stocktake[k].expected[i]
    /\ stocktake[k].lines[i] >= item[i].reserved
\* post; the poster has seen the counts that are posted (expectedCounts).
\* An item that moved since the snapshot and came back to it is not noticed.
PostStocktake(k) ==
  LET doc == stocktake[k]
      difference == [i \in LinesOf(doc) |-> doc.lines[i] - doc.expected[i]]
  IN
  /\ Draft(doc) /\ Postable(k)
  /\ item' = [i \in Items |->
       IF i \in LinesOf(doc) THEN [item[i] EXCEPT !.stock = doc.lines[i]] ELSE item[i]]
  /\ ledger' = [i \in Items |->
       IF i \in LinesOf(doc) THEN ledger[i] + difference[i] ELSE ledger[i]]
  /\ moves' = [i \in Items |->
       IF i \in LinesOf(doc) /\ difference[i] # 0 THEN moves[i] + 1 ELSE moves[i]]
  /\ missing' = [i \in Items |->
       IF i \in LinesOf(doc) THEN missing[i] - doc.found[i] ELSE missing[i]]
  /\ cameBack' = cameBack \cup {i \in LinesOf(doc) : doc.since[i] # moves[i]}
  /\ stocktake' = [stocktake EXCEPT ![k] = [status |-> "POSTED"]]
  /\ UNCHANGED <<shelf, receipt, reviewed, supplier>>

CancelStocktake(k) ==
  /\ Draft(stocktake[k])
  /\ stocktake' = [stocktake EXCEPT ![k] = [status |-> "CANCELLED"]]
  /\ UNCHANGED <<item, ledger, shelf, missing, cameBack, moves, receipt, reviewed, supplier>>

-----------------------------------------------------------------------------
(* Purchase receipts                                                       *)

\* updatedAt counts the revisions of the draft.
CreateReceipt(d, lines) ==
  /\ receipt[d].status = "NONE" /\ supplier
  /\ \A i \in DOMAIN lines : Active(i)
  /\ receipt' = [receipt EXCEPT ![d] = [status |-> "DRAFT", lines |-> lines, updatedAt |-> 0]]
  /\ UNCHANGED <<item, ledger, shelf, missing, cameBack, moves, stocktake, reviewed, supplier>>

UpdateReceipt(d, lines) ==
  /\ Draft(receipt[d]) /\ receipt[d].updatedAt < MaxRevision
  /\ \A i \in DOMAIN lines : Active(i)
  /\ receipt' = [receipt EXCEPT ![d].lines = lines, ![d].updatedAt = @ + 1]
  /\ UNCHANGED <<item, ledger, shelf, missing, cameBack, moves, stocktake, reviewed, supplier>>

\* The draft is opened for posting.
Review(d) ==
  /\ Draft(receipt[d])
  /\ reviewed' = [reviewed EXCEPT ![d] = [updatedAt |-> receipt[d].updatedAt,
                                          lines |-> receipt[d].lines]]
  /\ UNCHANGED <<item, ledger, shelf, missing, cameBack, moves, stocktake, receipt, supplier>>

AsReviewed(d) == Draft(receipt[d]) /\ receipt[d].updatedAt = reviewed[d].updatedAt
\* post; the goods are put on the shelf.
PostReceipt(d) ==
  /\ reviewed[d] # Unread /\ AsReviewed(d)
  /\ supplier
  /\ \A i \in LinesOf(receipt[d]) : /\ Active(i) /\ Room(i)
                                    /\ item[i].stock + receipt[d].lines[i] <= MaxStock
  /\ Move(receipt[d].lines) /\ Put(receipt[d].lines)
  /\ receipt' = [receipt EXCEPT ![d] = [status |-> "POSTED", lines |-> @.lines]]
  /\ UNCHANGED <<missing, cameBack, stocktake, reviewed, supplier>>

CancelReceipt(d) ==
  /\ Draft(receipt[d])
  /\ receipt' = [receipt EXCEPT ![d] = [status |-> "CANCELLED"]]
  /\ UNCHANGED <<item, ledger, shelf, missing, cameBack, moves, stocktake, reviewed, supplier>>

\* SupplierService.remove
RemoveSupplier ==
  /\ supplier /\ \A d \in Receipts : ~Draft(receipt[d])
  /\ supplier' = FALSE
  /\ UNCHANGED <<item, ledger, shelf, missing, cameBack, moves, stocktake, receipt, reviewed>>

ReceiptLines == UNION {[S -> Quantities] : S \in (SUBSET Items) \ {{}}}

Next ==
  \/ \E i \in Items :
       \/ \E q \in Quantities : CreateItem(i, q) \/ ImportItem(i, q) \/ ExportItem(i, q)
       \/ RemoveItem(i) \/ Reserve(i) \/ Release(i) \/ Consume(i) \/ Spoil(i)
       \/ \E k \in Stocktakes : UpdateCount(k, i)
  \/ \E k \in Stocktakes :
       \/ \E S \in SUBSET Items : CreateStocktake(k, S)
       \/ PostStocktake(k) \/ CancelStocktake(k)
  \/ \E d \in Receipts :
       \/ \E lines \in ReceiptLines : CreateReceipt(d, lines) \/ UpdateReceipt(d, lines)
       \/ Review(d) \/ PostReceipt(d) \/ CancelReceipt(d)
  \/ RemoveSupplier

Spec == Init /\ [][Next]_vars

-----------------------------------------------------------------------------
\* The stock of an item is the sum of its ledger and covers what is promised
\* to orders, whatever documents were posted over it and in which order; it
\* exceeds the shelf by exactly what went missing since the last count, though
\* the count is posted later, unless the item moved meanwhile and came back
\* to its snapshot; a receipt books what its poster reviewed; and no document
\* is left that names what has been deleted.
\* (StocktakeService.post and PurchaseReceiptService.post against orders,
\* movements and each other.)
StockAccounted ==
  /\ \A i \in Items :
       /\ item[i].row \in {"NONE", "ACTIVE", "DELETED"}
       /\ ledger[i] = item[i].stock
       /\ item[i].reserved \in 0..item[i].stock
       /\ i \notin cameBack => item[i].stock - shelf[i] = missing[i]
       /\ item[i].row # "ACTIVE" => ~DraftLines(i) /\ item[i].stock = 0
  /\ \A d \in Receipts :
       /\ receipt[d].status \in Document
       /\ receipt[d].status = "POSTED" => receipt[d].lines = reviewed[d].lines
       /\ Draft(receipt[d]) => supplier

\* A posted or cancelled document never changes again.
DocumentsFinal ==
  /\ \A k \in Stocktakes :
       stocktake[k].status \in {"POSTED", "CANCELLED"} => stocktake'[k] = stocktake[k]
  /\ \A d \in Receipts :
       receipt[d].status \in {"POSTED", "CANCELLED"} => receipt'[d] = receipt[d]
=============================================================================
