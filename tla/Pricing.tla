------------------------------ MODULE Pricing -------------------------------
(***************************************************************************)
(* What an invoice charges: promotions, the quote a cashier is shown, and  *)
(* the amounts of the invoice made from it (promotions.service.ts and its  *)
(* policy and calculator, quoteInvoice and createInvoice in                *)
(* invoices.service.ts).  Amounts are in the smallest unit; every          *)
(* operation is one transaction, but quote and invoice are two, with other *)
(* changes in between.                                                     *)
(***************************************************************************)
EXTENDS Integers, FiniteSets

CONSTANTS Promotions, Names, Cashiers, Bills,
          Terms,      \* [type, value, max], max = 0 for none
          Windows,    \* pairs of a first day and the day after the last
          SubTotals,  \* what the unbilled lines of the session may add up to
          TaxRates,   \* in percent
          MaxDay,     \* bound: days
          MaxSaves,   \* bound: writes of one promotion
          None

VARIABLES day,
          promotion, \* the Promotion rows
          shelfView, \* the updatedAt the storefront screen of each cashier shows
          unbilled,  \* the unbilled lines of the session: amount and revision
          quote,     \* the quote each cashier has been shown
          bill       \* the Invoice rows

vars == <<day, promotion, shelfView, unbilled, quote, bill>>

NoPromotion == [row |-> "NONE", name |-> None, window |-> <<0, 0>>, terms |-> None,
                shown |-> FALSE, updatedAt |-> 0]
NoQuote == [promotion |-> None, taxRate |-> 0, lines |-> 0, amounts |-> None]
NoBill == [promotion |-> None, taxRate |-> 0, amounts |-> None, quoted |-> None]

Init ==
  /\ day = 0
  /\ promotion = [p \in Promotions |-> NoPromotion]
  /\ shelfView = [c \in Cashiers |-> [promotion |-> None, updatedAt |-> 0]]
  /\ unbilled \in [amount : SubTotals, lines : {1}]
  /\ quote = [c \in Cashiers |-> NoQuote]
  /\ bill = [b \in Bills |-> NoBill]

-----------------------------------------------------------------------------
(* Amounts *)

\* percent of an amount, rounded half up to the smallest unit
Share(amount, percent) == (amount * percent + 50) \div 100
Least(a, b) == IF a <= b THEN a ELSE b

\* calculateDiscountAmount
Discount(subTotal, terms) ==
  LET raw == IF terms.type = "PERCENTAGE" THEN Share(subTotal, terms.value) ELSE terms.value
      capped == IF terms.max > 0 THEN Least(raw, terms.max) ELSE raw
  IN Least(capped, subTotal)

\* calculateInvoice; the discount was bounded by the subtotal.
Calculate(subTotal, p, taxRate) ==
  LET discount == IF p = None THEN 0 ELSE Discount(subTotal, promotion[p].terms)
      tax == Share(subTotal - discount, taxRate)
  IN [subTotal |-> subTotal, discount |-> discount, tax |-> tax,
      total |-> subTotal - discount + tax]

\* assertPromotionCanBeApplied
Applicable(p) ==
  /\ promotion[p].row = "LIVE"
  /\ promotion[p].window[1] <= day /\ day < promotion[p].window[2]

-----------------------------------------------------------------------------
(* Promotions *)

NameAvailable(name, p) ==
  \A other \in Promotions \ {p} : promotion[other].row = "LIVE" => promotion[other].name # name
\* assertDateRangeValid, assertDiscountValueValid
ValidPromotion(window, terms) ==
  /\ window[1] < window[2] /\ terms.value > 0
  /\ terms.type = "PERCENTAGE" => terms.value <= 100
\* countInvoicesUsingPromotion, whatever became of the invoice
Used(p) == \E b \in Bills : bill[b].promotion = p

CreatePromotion(p, name, window, terms) ==
  /\ promotion[p].row = "NONE"
  /\ ValidPromotion(window, terms) /\ NameAvailable(name, p)
  /\ promotion' = [promotion EXCEPT ![p] =
       [NoPromotion EXCEPT !.row = "LIVE", !.name = name, !.window = window,
                           !.terms = terms, !.updatedAt = 1]]
  /\ UNCHANGED <<day, shelfView, unbilled, quote, bill>>

\* Mutant: terms may be changed while the promotion can be applied to nothing.
ChangeableWhenOver(p, terms) == Used(p) => terms = promotion[p].terms \/ ~Applicable(p)
\* assertFinancialFieldsNotChangedWhenUsed
TermsChangeable(p, terms) == Used(p) => terms = promotion[p].terms

UpdatePromotion(p, name, window, terms) ==
  /\ promotion[p].row = "LIVE" /\ promotion[p].updatedAt < MaxSaves
  /\ ValidPromotion(window, terms) /\ TermsChangeable(p, terms)
  /\ name # promotion[p].name => NameAvailable(name, p)
  /\ promotion' = [promotion EXCEPT ![p].name = name, ![p].window = window,
                                    ![p].terms = terms, ![p].updatedAt = @ + 1]
  /\ UNCHANGED <<day, shelfView, unbilled, quote, bill>>

RemovePromotion(p) ==
  /\ promotion[p].row = "LIVE" /\ promotion[p].updatedAt < MaxSaves
  /\ promotion' = [promotion EXCEPT ![p].row = "DELETED", ![p].shown = FALSE,
                                    ![p].updatedAt = @ + 1]
  /\ UNCHANGED <<day, shelfView, unbilled, quote, bill>>

RestorePromotion(p) ==
  /\ promotion[p].row = "DELETED" /\ promotion[p].updatedAt < MaxSaves
  /\ NameAvailable(promotion[p].name, p)
  /\ promotion' = [promotion EXCEPT ![p].row = "LIVE", ![p].updatedAt = @ + 1]
  /\ UNCHANGED <<day, shelfView, unbilled, quote, bill>>

ViewStorefront(c, p) ==
  /\ promotion[p].row = "LIVE"
  /\ shelfView' = [shelfView EXCEPT ![c] =
       [promotion |-> p, updatedAt |-> promotion[p].updatedAt]]
  /\ UNCHANGED <<day, promotion, unbilled, quote, bill>>

UpdateStorefront(c, shown) ==
  LET p == shelfView[c].promotion IN
  /\ p # None /\ promotion[p].row = "LIVE" /\ promotion[p].updatedAt < MaxSaves
  /\ shown => day < promotion[p].window[2]
  /\ promotion[p].updatedAt = shelfView[c].updatedAt
  /\ promotion' = [promotion EXCEPT ![p].shown = shown, ![p].updatedAt = @ + 1]
  /\ UNCHANGED <<day, shelfView, unbilled, quote, bill>>

\* findStorefrontPromotion shows one of these.
OnStorefront ==
  {p \in Promotions : promotion[p].shown /\ Applicable(p)}

-----------------------------------------------------------------------------
(* Quotes and invoices *)

\* quoteInvoice
QuoteInvoice(c, p, taxRate) ==
  /\ unbilled.lines > 0
  /\ p # None => Applicable(p)
  /\ quote' = [quote EXCEPT ![c] =
       [promotion |-> p, taxRate |-> taxRate, lines |-> unbilled.lines,
        amounts |-> Calculate(unbilled.amount, p, taxRate)]]
  /\ UNCHANGED <<day, promotion, shelfView, unbilled, bill>>

\* A line is added, split or cancelled on another screen.
ChangeLines(amount) ==
  /\ unbilled.lines = 1
  /\ unbilled' = [amount |-> amount, lines |-> 2]
  /\ UNCHANGED <<day, promotion, shelfView, quote, bill>>

\* Mutant: only the total is compared.
SameTotal(q, amounts) == q.amounts.total = amounts.total
\* The fingerprint of the lines and of every amount.
QuoteStands(q, amounts) == q.lines = unbilled.lines /\ q.amounts = amounts

\* createInvoice: from the quote, which is named by its fingerprint, or
\* without one.
CreateBill(c, b, p, taxRate, fromQuote) ==
  LET amounts == Calculate(unbilled.amount, p, taxRate) IN
  /\ bill[b].amounts = None /\ unbilled.lines > 0
  /\ p # None => Applicable(p)
  /\ fromQuote => /\ quote[c].amounts # None
                  /\ quote[c].promotion = p /\ quote[c].taxRate = taxRate
                  /\ QuoteStands(quote[c], amounts)
  /\ bill' = [bill EXCEPT ![b] =
       [promotion |-> p, taxRate |-> taxRate, amounts |-> amounts,
        quoted |-> IF fromQuote THEN [lines |-> quote[c].lines, amounts |-> quote[c].amounts,
                                      billed |-> unbilled.lines]
                   ELSE None]]
  /\ unbilled' = [amount |-> 0, lines |-> 0]
  /\ quote' = [quote EXCEPT ![c] = NoQuote]
  /\ UNCHANGED <<day, promotion, shelfView>>

\* The guests order again.
OrderMore(amount) ==
  /\ unbilled.lines = 0
  /\ unbilled' = [amount |-> amount, lines |-> 1]
  /\ UNCHANGED <<day, promotion, shelfView, quote, bill>>

NextDay ==
  /\ day < MaxDay
  /\ day' = day + 1
  /\ UNCHANGED <<promotion, shelfView, unbilled, quote, bill>>

Next ==
  \/ \E p \in Promotions, name \in Names, window \in Windows, terms \in Terms :
       CreatePromotion(p, name, window, terms) \/ UpdatePromotion(p, name, window, terms)
  \/ \E p \in Promotions : RemovePromotion(p) \/ RestorePromotion(p)
  \/ \E c \in Cashiers, p \in Promotions : ViewStorefront(c, p)
  \/ \E c \in Cashiers, shown \in BOOLEAN : UpdateStorefront(c, shown)
  \/ \E c \in Cashiers, p \in Promotions \cup {None}, taxRate \in TaxRates :
       \/ QuoteInvoice(c, p, taxRate)
       \/ \E b \in Bills, fromQuote \in BOOLEAN : CreateBill(c, b, p, taxRate, fromQuote)
  \/ \E amount \in SubTotals : ChangeLines(amount) \/ OrderMore(amount)
  \/ NextDay

Spec == Init /\ [][Next]_vars

-----------------------------------------------------------------------------
PricingTypeOK ==
  /\ day \in 0..MaxDay
  /\ \A p \in Promotions : /\ promotion[p].row \in {"NONE", "LIVE", "DELETED"}
                           /\ promotion[p].updatedAt \in 0..MaxSaves
  /\ unbilled \in [amount : SubTotals \cup {0}, lines : 0..2]

\* A customer who was quoted an amount is charged it, for the lines and with
\* the discount that were quoted, whatever was changed since.  The discount of
\* every invoice is what its promotion promises to this day: terms that were
\* used once do not change, through removal and restoration.  No discount
\* exceeds what was bought, one name promises one thing, and what was removed
\* is not on the storefront.
ChargedAsPromised ==
  /\ PricingTypeOK
  /\ \A b \in Bills : bill[b].amounts # None =>
       LET a == bill[b].amounts IN
       /\ bill[b].quoted # None =>
            bill[b].quoted.amounts = a /\ bill[b].quoted.lines = bill[b].quoted.billed
       /\ a = Calculate(a.subTotal, bill[b].promotion, bill[b].taxRate)
       /\ 0 <= a.discount /\ a.discount <= a.subTotal /\ 0 <= a.total
  /\ \A p, other \in Promotions :
       promotion[p].row = "LIVE" /\ promotion[other].row = "LIVE" /\ p # other =>
         promotion[p].name # promotion[other].name
  /\ \A p \in Promotions : promotion[p].shown => promotion[p].row = "LIVE"

\* The storefront shows a promotion that it did not show only when a manager
\* who saw it as it stands publishes it, or when its day comes: never because
\* it was restored.
PublishedKnowingly ==
  \A p \in OnStorefront' \ OnStorefront :
    \/ day' # day
    \/ \E c \in Cashiers : shelfView[c].promotion = p
                           /\ shelfView[c].updatedAt = promotion[p].updatedAt
    \/ promotion[p].shown /\ promotion'[p].window # promotion[p].window
=============================================================================
