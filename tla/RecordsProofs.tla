---------------------------- MODULE RecordsProofs ----------------------------
(***************************************************************************)
(* Proofs about promotions, the daily close, printing, kitchen stations    *)
(* and pickup codes, for any constants, that what equipment, settings,     *)
(* promotions and the daily close record is true, and that none of the     *)
(* services undoes what was settled.  Each has an inductive invariant of   *)
(* its own (see ServicesProofs).                                           *)
(***************************************************************************)
EXTENDS ServicesProofs, SumTheorems

-----------------------------------------------------------------------------
(* Promotions.  What a bill was charged is what the terms of its promotion *)
(* promised, and those terms cannot change any more: the promotion is used.*)

PromotionRow ==
  [row : {"NONE", "LIVE", "DELETED"}, name : Names \cup {None},
   window : Windows \cup {<<0, 0>>}, terms : Terms \cup {None}, shown : BOOLEAN,
   updatedAt : 0..MaxSaves]
Promised(p) ==
  /\ promotion[p].row # "NONE" => promotion[p].terms \in Terms
  /\ promotion[p].shown => promotion[p].row = "LIVE"
Charged(b) ==
  bill[b].amounts # None =>
    LET a == bill[b].amounts IN
    /\ bill[b].quoted # None =>
         bill[b].quoted.amounts = a /\ bill[b].quoted.lines = bill[b].quoted.billed
    /\ a.subTotal \in Nat /\ bill[b].taxRate \in Nat
    /\ a = Prices!Calculate(a.subTotal, bill[b].promotion, bill[b].taxRate)
OneName(p, other) ==
  promotion[p].row = "LIVE" /\ promotion[other].row = "LIVE" /\ p # other =>
    promotion[p].name # promotion[other].name
Viewed == /\ DOMAIN shelfView = Cashiers
          /\ \A c \in Cashiers : shelfView[c].promotion \in Promotions \cup {None}

PriceInv ==
  /\ day \in 0..MaxDay
  /\ promotion \in [Promotions -> PromotionRow]
  /\ unbilled \in [amount : SubTotals \cup {0}, lines : 0..2]
  /\ DOMAIN bill = Bills /\ Viewed
  /\ \A p \in Promotions : Promised(p)
  /\ \A p, other \in Promotions : OneName(p, other)
  /\ \A b \in Bills : /\ Charged(b)
                      /\ bill[b].promotion # None =>
                           /\ bill[b].promotion \in Promotions
                           /\ promotion[bill[b].promotion].row # "NONE"

\* What is assumed of the constants of the service.
LEMMA PriceConstants ==
  /\ None \notin Promotions /\ SubTotals \subseteq Nat /\ TaxRates \subseteq Nat
  /\ \A terms \in Terms : terms.value \in Nat /\ terms.max \in Nat
  /\ MaxDay \in Nat /\ MaxSaves \in Nat \ {0}
BY RecordsConstants

LEMMA PriceStart == Prices!Init => PriceInv
<1> SUFFICES ASSUME Prices!Init PROVE PriceInv
  OBVIOUS
<1>1. Prices!NoPromotion \in PromotionRow /\ Prices!NoPromotion.row = "NONE" /\ Prices!NoPromotion.shown = FALSE
  BY PriceConstants DEF Prices!NoPromotion, PromotionRow
<1>2. promotion \in [Promotions -> PromotionRow]
      /\ \A p \in Promotions : promotion[p] = Prices!NoPromotion
  BY <1>1 DEF Prices!Init
<1>3. DOMAIN bill = Bills /\ \A b \in Bills : bill[b] = Prices!NoBill
  BY DEF Prices!Init
<1>4. day \in 0..MaxDay /\ unbilled \in [amount : SubTotals \cup {0}, lines : 0..2]
  BY PriceConstants DEF Prices!Init
<1>5. \A p \in Promotions : Promised(p)
  BY <1>1, <1>2 DEF Promised
<1>6. \A p, other \in Promotions : OneName(p, other)
  BY <1>1, <1>2 DEF OneName
<1>7. \A b \in Bills : Charged(b) /\ bill[b].promotion = None
  BY <1>3 DEF Charged, Prices!NoBill
<1>8. Viewed
  BY DEF Prices!Init, Viewed
<1>. QED BY <1>2, <1>3, <1>4, <1>5, <1>6, <1>7, <1>8 DEF PriceInv

\* What is charged is between nothing and what was bought, and the tax.
LEMMA PriceShare == \A amount, percent \in Nat : Prices!Share(amount, percent) \in Nat
<1> SUFFICES ASSUME NEW amount \in Nat, NEW percent \in Nat PROVE Prices!Share(amount, percent) \in Nat
  OBVIOUS
<1>1. PICK product \in Nat : product = amount * percent
  OBVIOUS
<1>2. Prices!Share(amount, percent) = (product + 50) \div 100
  BY <1>1 DEF Prices!Share
<1>. QED BY <1>2

LEMMA PriceDiscount ==
  ASSUME NEW subTotal \in Nat, NEW terms, terms.value \in Nat, terms.max \in Nat
  PROVE  Prices!Discount(subTotal, terms) \in 0..subTotal
<1> DEFINE raw == IF terms.type = "PERCENTAGE" THEN Prices!Share(subTotal, terms.value)
                  ELSE terms.value
           capped == IF terms.max > 0 THEN Prices!Least(raw, terms.max) ELSE raw
<1>1. raw \in Nat
  BY PriceShare
<1>2. Prices!Discount(subTotal, terms) = Prices!Least(capped, subTotal)
  BY DEF Prices!Discount
<1> HIDE DEF raw
<1>3. capped \in Nat
  BY <1>1 DEF Prices!Least
<1> HIDE DEF capped
<1>. QED BY <1>2, <1>3 DEF Prices!Least

LEMMA PriceAmounts ==
  ASSUME PriceInv, NEW subTotal \in Nat, NEW p \in Promotions \cup {None},
         p # None => promotion[p].row # "NONE", NEW taxRate \in Nat
  PROVE  LET a == Prices!Calculate(subTotal, p, taxRate)
         IN /\ a.subTotal = subTotal /\ a.discount \in 0..subTotal
            /\ a.total \in Nat
<1> DEFINE discount == IF p = None THEN 0 ELSE Prices!Discount(subTotal, promotion[p].terms)
           tax == Prices!Share(subTotal - discount, taxRate)
<1>1. discount \in 0..subTotal
  <2>1. CASE p = None
    BY <2>1
  <2>2. CASE p # None
    <3>1. promotion[p].terms \in Terms
      BY <2>2 DEF PriceInv, Promised
    <3>. QED BY <2>2, <3>1, PriceDiscount, PriceConstants
  <2>. QED BY <2>1, <2>2
<1>2. Prices!Calculate(subTotal, p, taxRate)
        = [subTotal |-> subTotal, discount |-> discount, tax |-> tax,
           total |-> subTotal - discount + tax]
  BY DEF Prices!Calculate
<1> HIDE DEF discount
<1>3. subTotal - discount \in Nat
  BY <1>1
<1>4. tax \in Nat
  BY <1>3, PriceShare
<1> HIDE DEF tax
<1>. QED BY <1>1, <1>2, <1>3, <1>4

\* A write of one promotion that keeps the terms of one that was used.
LEMMA PriceWritten ==
  ASSUME PriceInv, NEW p \in Promotions,
         promotion' \in [Promotions -> PromotionRow],
         promotion'[p].row # "NONE", promotion'[p].terms \in Terms,
         promotion'[p].shown => promotion'[p].row = "LIVE",
         \A other \in Promotions \ {p} : promotion'[other] = promotion[other],
         promotion[p].row # "NONE" /\ Prices!Used(p) => promotion'[p].terms = promotion[p].terms,
         promotion'[p].row = "LIVE" =>
           \A other \in Promotions \ {p} : promotion[other].row = "LIVE" =>
             promotion[other].name # promotion'[p].name,
         UNCHANGED <<day, shelfView, unbilled, bill>>
  PROVE  PriceInv'
<1>1. \A q \in Promotions : Promised(q)'
  BY DEF PriceInv, Promised
<1>2. \A q, other \in Promotions : OneName(q, other)'
  BY DEF PriceInv, OneName
<1>3. ASSUME NEW b \in Bills
      PROVE  /\ Charged(b)'
             /\ bill'[b].promotion # None =>
                  /\ bill'[b].promotion \in Promotions
                  /\ promotion'[bill'[b].promotion].row # "NONE"
  <2> DEFINE q == bill[b].promotion
  <2>1. /\ bill'[b] = bill[b] /\ Charged(b)
        /\ q # None => q \in Promotions /\ promotion[q].row # "NONE"
    BY DEF PriceInv
  <2>2. q # None => promotion'[q].terms = promotion[q].terms
    BY <2>1 DEF Prices!Used
  <2>3. \A s, taxRate : Prices!Calculate(s, q, taxRate)' = Prices!Calculate(s, q, taxRate)
    BY <2>1, <2>2 DEF Prices!Calculate
  <2>. QED BY <2>1, <2>3 DEF Charged
<1>. QED BY <1>1, <1>2, <1>3 DEF PriceInv, Viewed

LEMMA PriceCreate ==
  ASSUME PriceInv, NEW p \in Promotions, NEW name \in Names, NEW window \in Windows,
         NEW terms \in Terms, Prices!CreatePromotion(p, name, window, terms)
  PROVE  PriceInv'
<1> DEFINE F == [Prices!NoPromotion EXCEPT !.row = "LIVE"]
           G == [F EXCEPT !.name = name]
           H == [G EXCEPT !.window = window]
           K == [H EXCEPT !.terms = terms]
           row == [K EXCEPT !.updatedAt = 1]
<1>1. promotion' = [promotion EXCEPT ![p] = row]
  BY DEF Prices!CreatePromotion
<1>9. Prices!NoPromotion \in PromotionRow /\ Prices!NoPromotion.shown = FALSE
  BY PriceConstants DEF Prices!NoPromotion, PromotionRow
<1>2. F \in PromotionRow /\ F.row = "LIVE" /\ F.shown = FALSE
  BY <1>9 DEF PromotionRow
<1> HIDE DEF F
<1>3. G \in PromotionRow /\ G.row = "LIVE" /\ G.shown = FALSE /\ G.name = name
  BY <1>2 DEF PromotionRow
<1> HIDE DEF G
<1>4. H \in PromotionRow /\ H.row = "LIVE" /\ H.shown = FALSE /\ H.name = name
  BY <1>3 DEF PromotionRow
<1> HIDE DEF H
<1>5. K \in PromotionRow /\ K.row = "LIVE" /\ K.shown = FALSE /\ K.name = name
      /\ K.terms = terms
  BY <1>4 DEF PromotionRow
<1> HIDE DEF K
<1>6. row \in PromotionRow /\ row.row = "LIVE" /\ row.shown = FALSE /\ row.name = name
      /\ row.terms = terms
  BY <1>5, PriceConstants DEF PromotionRow
<1> HIDE DEF row
<1>7. /\ promotion' \in [Promotions -> PromotionRow] /\ promotion'[p] = row
      /\ \A other \in Promotions \ {p} : promotion'[other] = promotion[other]
  BY <1>1, <1>6 DEF PriceInv
<1>8. /\ promotion[p].row = "NONE" /\ Prices!NameAvailable(name, p)
      /\ UNCHANGED <<day, shelfView, unbilled, bill>>
  BY DEF Prices!CreatePromotion
<1>. QED BY <1>6, <1>7, <1>8, PriceWritten DEF Prices!NameAvailable

LEMMA PriceUpdate ==
  ASSUME PriceInv, NEW p \in Promotions, NEW name \in Names, NEW window \in Windows,
         NEW terms \in Terms, Prices!UpdatePromotion(p, name, window, terms)
  PROVE  PriceInv'
<1> DEFINE F == [promotion EXCEPT ![p].name = name]
           G == [F EXCEPT ![p].window = window]
           H == [G EXCEPT ![p].terms = terms]
<1>1. promotion' = [H EXCEPT ![p].updatedAt = @ + 1]
  BY DEF Prices!UpdatePromotion
<1>2. /\ promotion[p].row = "LIVE" /\ promotion[p].updatedAt < MaxSaves
      /\ Prices!TermsChangeable(p, terms) /\ (name # promotion[p].name => Prices!NameAvailable(name, p))
      /\ UNCHANGED <<day, shelfView, unbilled, bill>> /\ promotion \in [Promotions -> PromotionRow]
  BY DEF Prices!UpdatePromotion, PriceInv
<1>3. promotion[p].updatedAt + 1 \in 0..MaxSaves
  BY <1>2, PriceConstants DEF PromotionRow
<1> DEFINE Kept(f) == /\ f \in [Promotions -> PromotionRow]
                      /\ f[p].row = "LIVE" /\ f[p].shown = promotion[p].shown
                      /\ f[p].name = name /\ f[p].updatedAt = promotion[p].updatedAt
                      /\ \A q \in Promotions \ {p} : f[q] = promotion[q]
<1>4. Kept(F)
  BY <1>2 DEF PromotionRow
<1> HIDE DEF F
<1>5. Kept(G)
  BY <1>4 DEF PromotionRow
<1> HIDE DEF G
<1>6. Kept(H) /\ H[p].terms = terms
  BY <1>5 DEF PromotionRow
<1> HIDE DEF H
<1>7. /\ promotion' \in [Promotions -> PromotionRow] /\ promotion'[p].terms = terms
      /\ promotion'[p].row = "LIVE" /\ promotion'[p].name = name
      /\ \A q \in Promotions \ {p} : promotion'[q] = promotion[q]
  BY <1>1, <1>3, <1>6 DEF PromotionRow
<1>8. \A other \in Promotions \ {p} : promotion[other].row = "LIVE" =>
        promotion[other].name # name
  BY <1>2 DEF Prices!NameAvailable, PriceInv, OneName
<1>. QED BY <1>2, <1>7, <1>8, PriceWritten DEF Prices!TermsChangeable

\* RemovePromotion, RestorePromotion, UpdateStorefront: the terms stay.
LEMMA PriceKept ==
  ASSUME PriceInv, NEW p \in Promotions, NEW row \in {"LIVE", "DELETED"},
         NEW shown \in BOOLEAN, promotion[p].updatedAt < MaxSaves,
         promotion' = [promotion EXCEPT ![p].row = row, ![p].shown = shown,
                                        ![p].updatedAt = @ + 1],
         promotion[p].row # "NONE", shown => row = "LIVE",
         row = "LIVE" => promotion[p].row = "LIVE" \/ Prices!NameAvailable(promotion[p].name, p),
         UNCHANGED <<day, shelfView, unbilled, bill>>
  PROVE  PriceInv'
<1> DEFINE F == [promotion EXCEPT ![p].row = row]
           G == [F EXCEPT ![p].shown = shown]
<1>1. promotion' = [G EXCEPT ![p].updatedAt = @ + 1] /\ promotion \in [Promotions -> PromotionRow]
  BY DEF PriceInv
<1>2. promotion[p].updatedAt + 1 \in 0..MaxSaves
  BY <1>1, PriceConstants DEF PromotionRow
<1> DEFINE Kept(f) == /\ f \in [Promotions -> PromotionRow]
                      /\ f[p].row = row /\ f[p].terms = promotion[p].terms
                      /\ f[p].name = promotion[p].name
                      /\ f[p].updatedAt = promotion[p].updatedAt
                      /\ \A q \in Promotions \ {p} : f[q] = promotion[q]
<1>3. Kept(F)
  BY <1>1 DEF PromotionRow
<1> HIDE DEF F
<1>4. Kept(G) /\ G[p].shown = shown
  BY <1>3 DEF PromotionRow
<1> HIDE DEF G
<1>5. /\ promotion' \in [Promotions -> PromotionRow]
      /\ promotion'[p].terms = promotion[p].terms
      /\ promotion'[p].row = row /\ promotion'[p].name = promotion[p].name
      /\ promotion'[p].shown = shown
      /\ \A q \in Promotions \ {p} : promotion'[q] = promotion[q]
  BY <1>1, <1>2, <1>4 DEF PromotionRow
<1>6. row = "LIVE" => \A other \in Promotions \ {p} : promotion[other].row = "LIVE" =>
        promotion[other].name # promotion[p].name
  BY DEF Prices!NameAvailable, PriceInv, OneName
<1>7. promotion[p].terms \in Terms
  BY DEF PriceInv, Promised
<1>. QED BY <1>5, <1>6, <1>7, PriceWritten

LEMMA PriceBill ==
  ASSUME PriceInv, NEW c \in Cashiers, NEW b \in Bills, NEW p \in Promotions \cup {None},
         NEW taxRate \in TaxRates, NEW fromQuote \in BOOLEAN,
         Prices!CreateBill(c, b, p, taxRate, fromQuote)
  PROVE  PriceInv'
<1> DEFINE amounts == Prices!Calculate(unbilled.amount, p, taxRate)
           quoted == IF fromQuote THEN [lines |-> quote[c].lines, amounts |-> quote[c].amounts,
                                        billed |-> unbilled.lines]
                     ELSE None
           new == [promotion |-> p, taxRate |-> taxRate, amounts |-> amounts, quoted |-> quoted]
<1>1. /\ bill' = [bill EXCEPT ![b] = new] /\ UNCHANGED <<day, promotion, shelfView>>
      /\ unbilled' = [amount |-> 0, lines |-> 0]
      /\ p # None => promotion[p].row = "LIVE"
      /\ fromQuote => quote[c].lines = unbilled.lines /\ quote[c].amounts = amounts
  BY DEF Prices!CreateBill, Prices!Applicable, Prices!QuoteStands
<1>2. unbilled.amount \in Nat /\ taxRate \in Nat
  <2>1. unbilled.amount \in SubTotals \cup {0} /\ \A x \in SubTotals \cup {0} : x \in Nat
    BY PriceConstants DEF PriceInv
  <2>. QED BY <2>1, PriceConstants
<1>3. amounts.subTotal = unbilled.amount
  BY <1>1, <1>2, PriceAmounts
<1>4. \A s, q, rate : Prices!Calculate(s, q, rate)' = Prices!Calculate(s, q, rate)
  BY <1>1 DEF Prices!Calculate
<1>5. new.quoted # None => new.quoted.amounts = amounts /\ new.quoted.lines = new.quoted.billed
  BY <1>1
<1>6. new.promotion = p /\ new.taxRate = taxRate /\ new.amounts = amounts
  OBVIOUS
<1>7. amounts = Prices!Calculate(amounts.subTotal, p, taxRate)
  BY <1>3
<1>8. bill'[b] = new /\ \A d \in Bills \ {b} : bill'[d] = bill[d]
  BY <1>1 DEF PriceInv
<1> HIDE DEF new, amounts
<1>9. Charged(b)'
  BY <1>2, <1>3, <1>4, <1>5, <1>6, <1>7, <1>8 DEF Charged
<1>10. \A d \in Bills \ {b} : Charged(d)'
  BY <1>4, <1>8 DEF PriceInv, Charged
<1>11. /\ DOMAIN bill' = Bills
       /\ unbilled' \in [amount : SubTotals \cup {0}, lines : 0..2]
       /\ \A q \in Promotions : Promised(q)'
       /\ \A q, other \in Promotions : OneName(q, other)'
  BY <1>1 DEF PriceInv, Promised, OneName
<1>12. Viewed'
  BY <1>1 DEF PriceInv, Viewed
<1>. QED BY <1>1, <1>6, <1>8, <1>9, <1>10, <1>11, <1>12 DEF PriceInv

LEMMA PriceAside ==
  PriceInv /\ UNCHANGED <<promotion, bill>> /\ day' \in 0..MaxDay /\ Viewed'
  /\ unbilled' \in [amount : SubTotals \cup {0}, lines : 0..2] => PriceInv'
  BY DEF PriceInv, Promised, OneName, Charged, Prices!Calculate

LEMMA PriceNext == PriceInv /\ Prices!Next => PriceInv'
<1> SUFFICES ASSUME PriceInv, Prices!Next PROVE PriceInv'
  OBVIOUS
<1>1. ASSUME NEW p \in Promotions, Prices!RemovePromotion(p) PROVE PriceInv'
  <2>1. promotion[p].row # "NONE"
    BY <1>1 DEF Prices!RemovePromotion
  <2>. QED BY <1>1, <2>1, PriceKept DEF Prices!RemovePromotion
<1>2. ASSUME NEW p \in Promotions, Prices!RestorePromotion(p) PROVE PriceInv'
  <2> DEFINE F == [promotion EXCEPT ![p].row = "LIVE"]
  <2>1. promotion \in [Promotions -> PromotionRow] /\ promotion[p].shown = FALSE
    BY <1>2 DEF Prices!RestorePromotion, PriceInv, Promised, PromotionRow
  <2>2. F \in [Promotions -> PromotionRow] /\ F[p].shown = FALSE
    BY <2>1 DEF PromotionRow
  <2>3. F = [F EXCEPT ![p].shown = FALSE]
    <3> HIDE DEF F
    <3>. QED BY <2>2 DEF PromotionRow
  <2>4. promotion' = [promotion EXCEPT ![p].row = "LIVE", ![p].shown = FALSE,
                                       ![p].updatedAt = @ + 1]
    BY <1>2, <2>3 DEF Prices!RestorePromotion
  <2>. QED BY <1>2, <2>4, PriceKept DEF Prices!RestorePromotion
<1>3. ASSUME NEW c \in Cashiers, NEW shown \in BOOLEAN, Prices!UpdateStorefront(c, shown)
      PROVE  PriceInv'
  <2> DEFINE p == shelfView[c].promotion
  <2>1. PICK q \in Promotions : q = p
    <3>1. promotion[p].row = "LIVE"
      BY <1>3 DEF Prices!UpdateStorefront
    <3>. QED BY <1>3, <3>1 DEF Prices!UpdateStorefront, PriceInv, Viewed
  <2>2. promotion \in [Promotions -> PromotionRow] /\ promotion[q].row = "LIVE"
        /\ promotion[q].updatedAt < MaxSaves
    BY <1>3, <2>1 DEF Prices!UpdateStorefront, PriceInv
  <2>3. promotion = [promotion EXCEPT ![q].row = "LIVE"]
    BY <2>2 DEF PromotionRow
  <2>4. promotion' = [promotion EXCEPT ![q].row = "LIVE", ![q].shown = shown,
                                       ![q].updatedAt = @ + 1]
    BY <1>3, <2>1, <2>3 DEF Prices!UpdateStorefront
  <2>. QED BY <1>3, <2>2, <2>4, PriceKept DEF Prices!UpdateStorefront
<1>4. ASSUME NEW amount \in SubTotals, Prices!ChangeLines(amount) \/ Prices!OrderMore(amount)
      PROVE  PriceInv'
  BY <1>4, PriceAside DEF Prices!ChangeLines, Prices!OrderMore, PriceInv, Viewed
<1>5. ASSUME Prices!NextDay PROVE PriceInv'
  BY <1>5, PriceAside, PriceConstants DEF Prices!NextDay, PriceInv, Viewed
<1>6. ASSUME NEW c \in Cashiers, NEW p \in Promotions \cup {None}, NEW taxRate \in TaxRates,
             Prices!QuoteInvoice(c, p, taxRate)
      PROVE  PriceInv'
  BY <1>6, PriceAside DEF Prices!QuoteInvoice, PriceInv, Viewed
<1>7. ASSUME NEW c \in Cashiers, NEW p \in Promotions, Prices!ViewStorefront(c, p) PROVE PriceInv'
  BY <1>7, PriceAside DEF Prices!ViewStorefront, PriceInv, Viewed
<1>. QED BY <1>1, <1>2, <1>3, <1>4, <1>5, <1>6, <1>7, PriceCreate, PriceUpdate, PriceBill
         DEF Prices!Next

LEMMA PriceStay == PriceInv /\ UNCHANGED priceVars => PriceInv'
  BY PriceAside DEF PriceInv, Viewed, priceVars

LEMMA PriceTrue == PriceInv => Prices!ChargedAsPromised
<1> SUFFICES ASSUME PriceInv PROVE Prices!ChargedAsPromised
  OBVIOUS
<1>1. Prices!PricingTypeOK
  BY DEF Prices!PricingTypeOK, PriceInv, PromotionRow
<1>2. ASSUME NEW b \in Bills, bill[b].amounts # None
      PROVE  LET a == bill[b].amounts IN
             /\ bill[b].quoted # None =>
                  bill[b].quoted.amounts = a /\ bill[b].quoted.lines = bill[b].quoted.billed
             /\ a = Prices!Calculate(a.subTotal, bill[b].promotion, bill[b].taxRate)
             /\ 0 <= a.discount /\ a.discount <= a.subTotal /\ 0 <= a.total
  <2> DEFINE a == bill[b].amounts
  <2>1. /\ bill[b].quoted # None =>
             bill[b].quoted.amounts = a /\ bill[b].quoted.lines = bill[b].quoted.billed
        /\ a.subTotal \in Nat /\ bill[b].taxRate \in Nat
        /\ a = Prices!Calculate(a.subTotal, bill[b].promotion, bill[b].taxRate)
    BY <1>2 DEF PriceInv, Charged
  <2>2. /\ bill[b].promotion \in Promotions \cup {None}
        /\ bill[b].promotion # None => promotion[bill[b].promotion].row # "NONE"
    BY DEF PriceInv
  <2>3. a.discount \in 0..a.subTotal /\ a.total \in Nat
    BY <2>1, <2>2, PriceAmounts
  <2>. QED BY <2>1, <2>3
<1>3. \A p, other \in Promotions : OneName(p, other)
  BY DEF PriceInv
<1>4. \A p \in Promotions : promotion[p].shown => promotion[p].row = "LIVE"
  BY DEF PriceInv, Promised
<1>. QED BY <1>1, <1>2, <1>3, <1>4 DEF Prices!ChargedAsPromised, OneName

\* A promotion comes onto the storefront on its day, by who saw it, or by its
\* window.
LEMMA PriceShown == PriceInv /\ (Prices!Next \/ UNCHANGED priceVars) => Prices!PublishedKnowingly
<1> SUFFICES ASSUME PriceInv, Prices!Next \/ UNCHANGED priceVars, NEW p \in Prices!OnStorefront' \ Prices!OnStorefront,
                    day' = day
             PROVE  \/ \E c \in Cashiers : /\ shelfView[c].promotion = p
                                           /\ shelfView[c].updatedAt = promotion[p].updatedAt
                    \/ promotion[p].shown /\ promotion'[p].window # promotion[p].window
  BY DEF Prices!PublishedKnowingly
<1>1. /\ p \in Promotions /\ promotion'[p].shown /\ promotion'[p].row = "LIVE"
      /\ promotion'[p].window[1] <= day /\ day < promotion'[p].window[2]
      /\ ~(promotion[p].shown /\ promotion[p].row = "LIVE"
           /\ promotion[p].window[1] <= day /\ day < promotion[p].window[2])
  BY DEF Prices!OnStorefront, Prices!Applicable
<1>2. promotion \in [Promotions -> PromotionRow] /\ Promised(p)
  BY <1>1 DEF PriceInv
<1>3. ASSUME NEW q \in Promotions, NEW name \in Names, NEW window \in Windows,
             NEW terms \in Terms, Prices!CreatePromotion(q, name, window, terms)
      PROVE  FALSE
  <2>1. promotion'[p].shown = promotion[p].shown \/ promotion'[p].shown = FALSE
    BY <1>1, <1>2, <1>3 DEF Prices!CreatePromotion, Prices!NoPromotion
  <2>2. q # p
    BY <1>1, <1>2, <1>3, <2>1 DEF Prices!CreatePromotion, Promised
  <2>. QED BY <1>1, <1>2, <1>3, <2>2 DEF Prices!CreatePromotion
<1>4. ASSUME NEW q \in Promotions, NEW name \in Names, NEW window \in Windows,
             NEW terms \in Terms, Prices!UpdatePromotion(q, name, window, terms)
      PROVE  promotion[p].shown /\ promotion'[p].window # promotion[p].window
  <2>1. promotion'[p].shown = promotion[p].shown /\ promotion'[p].row = promotion[p].row
    BY <1>1, <1>2, <1>4 DEF Prices!UpdatePromotion, PromotionRow
  <2>. QED BY <1>1, <2>1
<1>5. ASSUME NEW q \in Promotions, Prices!RemovePromotion(q) \/ Prices!RestorePromotion(q) PROVE FALSE
  BY <1>1, <1>2, <1>5 DEF Prices!RemovePromotion, Prices!RestorePromotion, PromotionRow,
     Promised
<1>6. ASSUME NEW c \in Cashiers, NEW shown \in BOOLEAN, Prices!UpdateStorefront(c, shown)
      PROVE  shelfView[c].promotion = p /\ shelfView[c].updatedAt = promotion[p].updatedAt
  BY <1>1, <1>2, <1>6 DEF Prices!UpdateStorefront, PromotionRow
<1>7. promotion' = promotion => FALSE
  BY <1>1
<1>. QED BY <1>3, <1>4, <1>5, <1>6, <1>7
         DEF Prices!Next, priceVars, Prices!ViewStorefront, Prices!QuoteInvoice,
            Prices!CreateBill, Prices!ChangeLines, Prices!OrderMore,
             Prices!NextDay

\* The invariant holds in every behaviour of the service.
LEMMA PriceAlways == Spec => [](on = "prices" => PriceInv)
<1> DEFINE I == on = "prices" => PriceInv
<1>1. Init => I
  BY PriceStart DEF Init
<1>2. I /\ [Next]_vars => I'
  <2> SUFFICES ASSUME I, [Next]_vars, on' = "prices" PROVE PriceInv'
    OBVIOUS
  <2>1. PriceInv /\ (Prices!Next \/ UNCHANGED priceVars)
    BY Turn
  <2>. QED BY <2>1, PriceNext, PriceStay
<1>. QED BY <1>1, <1>2, PTL DEF Spec

-----------------------------------------------------------------------------
(* The daily close.  The figures kept of a day are those of the sales that *)
(* were paid on it, which no step takes away or adds to, except an invoice *)
(* inserted before the close and committed after it: the day is then said  *)
(* to straddle.  Its waste grows by write-offs of that kind alone.         *)

SaleFields == {"status", "day", "online", "cup", "again", "wasted", "stamped",
               "attempt", "here", "incident", "asked", "refunds", "straddled", "redone", "late"}
\* What is written off, once for the line and once for its replacement.
RowWaste(again, wasted, stamped) ==
  /\ wasted \in [cup : Nat, again : Nat] /\ stamped \in Nat
  /\ again = "NONE" => wasted.cup = 0
  /\ again # "CANCELLED" => wasted.again = 0
  /\ stamped # 0 => again \in {"NONE", "COOKING"}
WasteMoves(before, after, lateDays) ==
  /\ \/ after.cup = before.cup
     \/ before.cup = 0 /\ (after.cup \in Books!Closed => after.cup \in lateDays)
  /\ \/ after.again = before.again
     \/ before.again = 0 /\ (after.again \in Books!Closed => after.again \in lateDays)
SaleRow(r) ==
  /\ DOMAIN r = SaleFields /\ r.day \in Nat /\ r.asked \in Nat
  /\ r.refunds.count \in Nat /\ r.refunds.amount \in Nat
  /\ r.straddled \in BOOLEAN
  /\ r.status = "NONE" => r.day = 0
  /\ r.status \notin Books!Paid => r.refunds.count = 0 /\ r.refunds.amount = 0
  /\ r.asked > 0 => r.status \in Books!Paid
  /\ RowWaste(r.again, r.wasted, r.stamped)
Sold(d) == {i \in Sales : sale[i].day = d}
Straddling(d) == \E i \in Sold(d) : sale[i].straddled
WastedCups(d) == {i \in Sales : sale[i].wasted.cup = d}
WastedAgain(d) == {i \in Sales : sale[i].wasted.again = d}
Waste(d) == Cardinality(WastedCups(d)) + Cardinality(WastedAgain(d))
Cost(d) == Cardinality({i \in Books!Cohort(d) : Books!Cooked(i)})
             + Cardinality({i \in Books!Cohort(d) : sale[i].again = "COOKING"})
DayKept(d) ==
  LET kept == closing[d] IN
  /\ d < date
  /\ ~Straddling(d) =>
       /\ \A i \in Sold(d) : sale[i].status # "UNPAID"
       /\ \A i \in Books!Cohort(d) : sale[i].cup \notin {"PENDING", "COOKING"}
       /\ kept.grossSales = Price * Cardinality(Books!Cohort(d))
       /\ kept.netReceipts = kept.grossSales - kept.refundAmount
       /\ kept.refundCount \in Nat /\ kept.refundAmount \in Nat
       /\ kept.refundAmount <= Total(Books!RefundAmounts, Sold(d))
       /\ kept.wasteCost \in Nat /\ kept.wasteCost <= Waste(d)
       /\ (\A i \in Sales : d \notin sale[i].late) => kept.wasteCost = Waste(d)
       /\ (\A i \in Books!Cohort(d) : d \notin sale[i].redone) => kept.ingredientCost = Cost(d)

BookInv ==
  /\ date \in Nat
  /\ DOMAIN sale = Sales /\ DOMAIN closing = Books!Days
  /\ \A i \in Sales : SaleRow(sale[i])
  /\ \A d \in Books!Closed : DayKept(d)

\* What a step may do to a sale: the row of one, seen from a closed day.
BookMoves(r, n) ==
  /\ SaleRow(n)
  /\ n.day = r.day \/ (r.status = "NONE" /\ n.day = date)
  /\ r.refunds.amount <= n.refunds.amount
  /\ r.status \in Books!Paid => n.status \in Books!Paid /\ (n.cup = r.cup \/ r.cup \in {"PENDING", "COOKING"})
  /\ n.status \in Books!Paid => r.status \in Books!Paid \cup {"NONE", "UNPAID"}
  /\ n.status = "UNPAID" => r.status = "UNPAID" \/ (r.day \in Books!Closed => n.straddled)
  /\ r.straddled => n.straddled
  /\ n.wasted = r.wasted \/ WasteMoves(r.wasted, n.wasted, n.late)
  /\ r.late \subseteq n.late
  /\ r.redone \subseteq n.redone
  /\ n.again # r.again => Books!Closed \subseteq n.redone

\* What is assumed of the constants of the service.
LEMMA BookConstants ==
  IsFiniteSet(Sales) /\ Price \in Nat
BY RecordsConstants

\* The sums and counts of the module are those of the theorems.
LEMMA BookSums ==
  /\ \A f, S : Books!Total(f, S) = Total(f, S)
  /\ \A S : Books!Cardinality(S) = Cardinality(S)
<1>1. \A f, S : Books!Total(f, S) = Total(f, S)
  BY DEF Books!Total, Total, Books!MapThenSumSet, Books!MapThenFoldSet, MapThenSumSet,
     MapThenFoldSet
<1>2. \A S : Books!Cardinality(S) = Cardinality(S)
  BY DEF Books!Cardinality, Cardinality
<1>. QED BY <1>1, <1>2

LEMMA BookStart == Books!Init => BookInv
<1> SUFFICES ASSUME Books!Init PROVE BookInv
  OBVIOUS
<1>1. Books!Closed = {} /\ DOMAIN sale = Sales /\ DOMAIN closing = Books!Days /\ date \in Nat
  BY DEF Books!Init, Books!Closed
<1>2. SaleRow(Books!NoSale)
  BY DEF SaleRow, RowWaste, Books!NoSale, SaleFields, Books!Paid
<1>. QED BY <1>1, <1>2 DEF Books!Init, BookInv

LEMMA BookTotals ==
  ASSUME BookInv, NEW d \in Books!Closed
  PROVE  /\ IsFiniteSet(Sold(d)) /\ Books!Cohort(d) \in SUBSET Sold(d)
         /\ \A i \in Sold(d) : Books!RefundAmounts[i] \in Nat /\ Books!RefundCounts[i] \in Nat
         /\ Total(Books!RefundAmounts, Sold(d)) = Total(Books!RefundAmounts, Books!Cohort(d))
         /\ Total(Books!RefundCounts, Sold(d)) = Total(Books!RefundCounts, Books!Cohort(d))
         /\ Total(Books!RefundAmounts, Sold(d)) \in Nat /\ Total(Books!RefundCounts, Sold(d)) \in Nat
<1>1. IsFiniteSet(Sold(d)) /\ Books!Cohort(d) \in SUBSET Sold(d)
  BY BookConstants, FS_Subset DEF Sold, Books!Cohort
<1>2. \A i \in Sales : /\ Books!RefundAmounts[i] = sale[i].refunds.amount
                       /\ Books!RefundCounts[i] = sale[i].refunds.count
                       /\ Books!RefundAmounts[i] \in Nat /\ Books!RefundCounts[i] \in Nat
  BY DEF Books!RefundAmounts, Books!RefundCounts, BookInv, SaleRow
<1>3. \A i \in Sold(d) : i \in Sales
  BY DEF Sold
<1>4. \A i \in Sold(d) \ Books!Cohort(d) : Books!RefundAmounts[i] = 0 /\ Books!RefundCounts[i] = 0
  BY <1>2 DEF Sold, Books!Cohort, Books!Is, BookInv, SaleRow
<1>5. Total(Books!RefundAmounts, Sold(d)) = Total(Books!RefundAmounts, Books!Cohort(d))
  BY <1>1, <1>2, <1>3, <1>4, TotalMask
<1>6. Total(Books!RefundCounts, Sold(d)) = Total(Books!RefundCounts, Books!Cohort(d))
  BY <1>1, <1>2, <1>3, <1>4, TotalMask
<1>. QED BY <1>1, <1>2, <1>3, <1>5, <1>6, TotalNat

\* A step that only moves sales leaves what was kept of the closed days true.
LEMMA BookMoved ==
  ASSUME BookInv, UNCHANGED <<date, closing>>, DOMAIN sale' = Sales,
         \A i \in Sales : BookMoves(sale[i], sale'[i])
  PROVE  BookInv'
<1>1. \A i \in Sales : SaleRow(sale[i])'
  BY DEF BookMoves
<1>2. Books!Closed' = Books!Closed
  BY DEF Books!Closed
<1>3. ASSUME NEW d \in Books!Closed PROVE DayKept(d)'
  <2> DEFINE kept == closing[d]
  <2>1. d \in Nat /\ d > 0 /\ d < date /\ date \in Nat /\ DayKept(d)
    BY DEF Books!Closed, Books!Days, BookInv, DayKept
  <2>2. ASSUME NEW i \in Sales PROVE i \in Sold(d)' <=> i \in Sold(d)
    <3>1. SaleRow(sale[i]) /\ BookMoves(sale[i], sale'[i])
      BY DEF BookInv
    <3>. QED BY <2>1, <3>1 DEF Sold, BookMoves, SaleRow
  <2>3. Sold(d)' = Sold(d) /\ \A i \in Sold(d) : i \in Sales
    <3>1. Sold(d) \subseteq Sales /\ Sold(d)' \subseteq Sales
      BY DEF Sold
    <3>. QED BY <2>2, <3>1
  <2>4. Straddling(d) => Straddling(d)'
    BY <2>3 DEF Straddling, BookMoves
  <2> SUFFICES ASSUME ~Straddling(d)'
               PROVE  /\ \A i \in Sold(d)' : sale'[i].status # "UNPAID"
                      /\ \A i \in Books!Cohort(d)' : sale'[i].cup \notin {"PENDING", "COOKING"}
                      /\ kept.grossSales = Price * Cardinality(Books!Cohort(d)')
                      /\ kept.netReceipts = kept.grossSales - kept.refundAmount
                      /\ kept.refundCount \in Nat /\ kept.refundAmount \in Nat
                      /\ kept.refundAmount <= Total(Books!RefundAmounts, Sold(d))'
                      /\ kept.wasteCost \in Nat /\ kept.wasteCost <= Waste(d)'
                      /\ (\A i \in Sales : d \notin sale'[i].late) => kept.wasteCost = Waste(d)'
                      /\ (\A i \in Books!Cohort(d)' : d \notin sale'[i].redone) =>
                           kept.ingredientCost = Cost(d)'
    BY <2>1 DEF DayKept
  <2>5. /\ \A i \in Sold(d) : sale[i].status # "UNPAID"
        /\ \A i \in Books!Cohort(d) : sale[i].cup \notin {"PENDING", "COOKING"}
        /\ kept.grossSales = Price * Cardinality(Books!Cohort(d))
        /\ kept.netReceipts = kept.grossSales - kept.refundAmount
        /\ kept.refundCount \in Nat /\ kept.refundAmount \in Nat
        /\ kept.refundAmount <= Total(Books!RefundAmounts, Sold(d))
        /\ kept.wasteCost \in Nat /\ kept.wasteCost <= Waste(d)
        /\ (\A i \in Sales : d \notin sale[i].late) => kept.wasteCost = Waste(d)
        /\ (\A i \in Books!Cohort(d) : d \notin sale[i].redone) => kept.ingredientCost = Cost(d)
    BY <2>1, <2>4 DEF DayKept
  <2> HIDE DEF kept
  <2>6. \A i \in Sold(d) : sale'[i].status # "UNPAID"
    BY <2>3, <2>5 DEF Straddling, BookMoves, Sold
  <2>7. ASSUME NEW i \in Sold(d) PROVE i \in Books!Cohort(d)' <=> i \in Books!Cohort(d)
    <3>1. sale[i].status # "NONE" /\ sale[i].status # "UNPAID"
      BY <2>1, <2>3, <2>5 DEF Sold, BookInv, SaleRow
    <3>2. sale'[i].status \in Books!Paid <=> sale[i].status \in Books!Paid
      BY <2>3, <3>1 DEF BookMoves
    <3>. QED BY <2>3, <3>2 DEF Books!Cohort, Sold, Books!Is
  <2>8. Books!Cohort(d)' = Books!Cohort(d) /\ Books!Cohort(d) \subseteq Sold(d)
    <3>1. Books!Cohort(d) \subseteq Sold(d) /\ Books!Cohort(d)' \subseteq Sold(d)'
      BY DEF Books!Cohort, Sold
    <3>. QED BY <2>3, <2>7, <3>1
  <2>9. \A i \in Books!Cohort(d) : sale'[i].cup = sale[i].cup
    BY <2>3, <2>5, <2>8 DEF BookMoves, Books!Cohort, Books!Is
  <2>10. /\ kept.wasteCost <= Waste(d)'
         /\ (\A i \in Sales : d \notin sale'[i].late) => kept.wasteCost = Waste(d)'
    <3>1. ASSUME NEW i \in Sales
          PROVE  /\ sale[i].wasted.cup = d => sale'[i].wasted.cup = d
                 /\ sale[i].wasted.again = d => sale'[i].wasted.again = d
                 /\ d \notin sale'[i].late =>
                      /\ sale'[i].wasted.cup = d => sale[i].wasted.cup = d
                      /\ sale'[i].wasted.again = d => sale[i].wasted.again = d
                      /\ d \notin sale[i].late
      BY <2>1 DEF BookMoves, WasteMoves
    <3>2. /\ WastedCups(d) \subseteq WastedCups(d)' /\ WastedAgain(d) \subseteq WastedAgain(d)'
          /\ WastedCups(d)' \subseteq Sales /\ WastedAgain(d)' \subseteq Sales
      BY <3>1 DEF WastedCups, WastedAgain
    <3>3. /\ Cardinality(WastedCups(d)) <= Cardinality(WastedCups(d)')
          /\ Cardinality(WastedAgain(d)) <= Cardinality(WastedAgain(d)')
      BY <3>2, BookConstants, FS_Subset
    <3>4. /\ Cardinality(WastedCups(d)) \in Nat /\ Cardinality(WastedCups(d)') \in Nat
          /\ Cardinality(WastedAgain(d)) \in Nat /\ Cardinality(WastedAgain(d)') \in Nat
      BY <3>2, BookConstants, FS_Subset, FS_CardinalityType
    <3>5. ASSUME \A i \in Sales : d \notin sale'[i].late
          PROVE  WastedCups(d)' = WastedCups(d) /\ WastedAgain(d)' = WastedAgain(d)
      BY <3>1, <3>5 DEF WastedCups, WastedAgain
    <3>6. ASSUME \A i \in Sales : d \notin sale'[i].late
          PROVE  kept.wasteCost = Waste(d)'
      BY <2>5, <3>1, <3>5, <3>6 DEF Waste
    <3>. QED BY <2>5, <3>3, <3>4, <3>6 DEF Waste
  <2>11. Total(Books!RefundAmounts, Sold(d)) <= Total(Books!RefundAmounts, Sold(d))'
    <3>1. IsFiniteSet(Sold(d)) /\ \A i \in Sold(d) : Books!RefundAmounts[i] \in Nat
      BY BookTotals
    <3>2. \A i \in Sold(d) : Books!RefundAmounts[i] <= Books!RefundAmounts'[i] /\ Books!RefundAmounts'[i] \in Nat
      BY <1>1, <2>3 DEF Books!RefundAmounts, BookMoves, SaleRow
    <3>3. Total(Books!RefundAmounts, Sold(d)) <= Total(Books!RefundAmounts', Sold(d))
      BY <3>1, <3>2, TotalAtMost
    <3>. QED BY <2>3, <3>3
  <2>12. /\ Total(Books!RefundAmounts, Sold(d)) \in Nat /\ Total(Books!RefundAmounts, Sold(d))' \in Int
    <3>1. IsFiniteSet(Sold(d)) /\ \A i \in Sold(d) : Books!RefundAmounts[i] \in Nat
      BY BookTotals
    <3>2. \A i \in Sold(d) : Books!RefundAmounts'[i] \in Int
      BY <1>1, <2>3 DEF Books!RefundAmounts, SaleRow
    <3>3. Total(Books!RefundAmounts', Sold(d)) \in Int
      BY <3>1, <3>2, TotalType
    <3>. QED BY <2>3, <3>3, BookTotals
  <2>13. ASSUME \A i \in Books!Cohort(d)' : d \notin sale'[i].redone
         PROVE  kept.ingredientCost = Cost(d)'
    <3>1. \A i \in Books!Cohort(d) : d \notin sale[i].redone /\ sale'[i].again = sale[i].again
      BY <2>3, <2>8, <2>13 DEF BookMoves
    <3>2. {i \in Books!Cohort(d) : Books!Cooked(i)}' = {i \in Books!Cohort(d) : Books!Cooked(i)}
      BY <2>8, <2>9, <3>1 DEF Books!Cooked
    <3>3. {i \in Books!Cohort(d) : sale[i].again = "COOKING"}'
            = {i \in Books!Cohort(d) : sale[i].again = "COOKING"}
      BY <2>8, <3>1
    <3>. QED BY <2>5, <3>1, <3>2, <3>3 DEF Cost
  <2>14. kept.refundAmount <= Total(Books!RefundAmounts, Sold(d))'
    BY <2>5, <2>11, <2>12
  <2>. QED BY <2>3, <2>5, <2>6, <2>8, <2>9, <2>10, <2>13, <2>14
<1>. QED BY <1>1, <1>2, <1>3 DEF BookInv

\* The rows a step writes.
LEMMA BookRows ==
  ASSUME BookInv, NEW i \in Sales
  PROVE  /\ SaleRow(sale[i]) /\ BookMoves(sale[i], sale[i])
         /\ \A row : sale' = [sale EXCEPT ![i] = row] =>
              /\ DOMAIN sale' = Sales /\ sale'[i] = row
              /\ \A j \in Sales \ {i} : sale'[j] = sale[j] /\ BookMoves(sale[j], sale[j])
  BY DEF BookInv, BookMoves, SaleRow

LEMMA BookSet ==
  ASSUME BookInv, NEW i \in Sales, NEW row, Books!Set(i, row), UNCHANGED <<date, closing>>,
         BookMoves(sale[i], row)
  PROVE  BookInv'
<1>1. sale' = [sale EXCEPT ![i] = row]
  BY DEF Books!Set
<1>2. \A j \in Sales : BookMoves(sale[j], sale'[j])
  BY <1>1, BookRows
<1>. QED BY <1>1, <1>2, BookRows, BookMoved

\* Invoices and payments.
LEMMA BookInvoices ==
  ASSUME BookInv, NEW i \in Sales,
         \/ Books!InsertInvoice(i) \/ Books!CommitInvoice(i) \/ Books!CreatePaidInvoice(i)
         \/ Books!UpdatePayment(i) \/ Books!VoidInvoice(i)
  PROVE  BookInv'
<1> DEFINE r == sale[i]
<1>1. SaleRow(r) /\ date \in Nat
  BY DEF BookInv
<1>2. CASE Books!InsertInvoice(i)
  <2>1. BookMoves(r, [r EXCEPT !.status = "INSERTED", !.day = date])
    BY <1>1, <1>2 DEF Books!InsertInvoice, Books!Is, BookMoves, SaleRow, SaleFields,
       Books!Paid
  <2>. QED BY <1>2, <2>1, BookSet DEF Books!InsertInvoice
<1>3. CASE Books!CommitInvoice(i)
  <2>1. r.status = "INSERTED"
        /\ Books!Set(i, [r EXCEPT !.status = "UNPAID", !.straddled = r.straddled \/ r.day \in Books!Closed])
    BY <1>3 DEF Books!CommitInvoice, Books!Is
  <2>2. CASE r.straddled \/ r.day \in Books!Closed
    <3>1. (r.straddled \/ r.day \in Books!Closed) = TRUE
      BY <2>2, Zenon
    <3>2. Books!Set(i, [r EXCEPT !.status = "UNPAID", !.straddled = TRUE])
      BY <2>1, <3>1, Zenon
    <3>3. BookMoves(r, [r EXCEPT !.status = "UNPAID", !.straddled = TRUE])
      BY <1>1, <2>1 DEF BookMoves, SaleRow, SaleFields, Books!Paid
    <3>. QED BY <1>3, <3>2, <3>3, BookSet DEF Books!CommitInvoice
  <2>3. CASE ~(r.straddled \/ r.day \in Books!Closed)
    <3>1. (r.straddled \/ r.day \in Books!Closed) = FALSE
      BY <2>3, Zenon
    <3>2. Books!Set(i, [r EXCEPT !.status = "UNPAID", !.straddled = FALSE])
      BY <2>1, <3>1, Zenon
    <3>3. BookMoves(r, [r EXCEPT !.status = "UNPAID", !.straddled = FALSE])
      BY <1>1, <2>1, <2>3 DEF BookMoves, SaleRow, SaleFields, Books!Paid
    <3>. QED BY <1>3, <3>2, <3>3, BookSet DEF Books!CommitInvoice
  <2>. QED BY <2>2, <2>3
<1>4. CASE Books!CreatePaidInvoice(i)
  <2>1. BookMoves(r, [r EXCEPT !.status = "PAID", !.day = date])
    BY <1>1, <1>4 DEF Books!CreatePaidInvoice, Books!Is, BookMoves, SaleRow, SaleFields,
       Books!Paid
  <2>. QED BY <1>4, <2>1, BookSet DEF Books!CreatePaidInvoice
<1>5. CASE Books!UpdatePayment(i)
  <2>1. BookMoves(r, [r EXCEPT !.status = "PAID"])
    BY <1>1, <1>5 DEF Books!UpdatePayment, Books!Is, BookMoves, SaleRow, SaleFields,
       Books!Paid
  <2>. QED BY <1>5, <2>1, BookSet DEF Books!UpdatePayment
<1>6. CASE Books!VoidInvoice(i)
  <2>1. BookMoves(r, [r EXCEPT !.status = "VOIDED", !.cup = "NONE"])
    BY <1>1, <1>6 DEF Books!VoidInvoice, Books!Is, BookMoves, SaleRow, SaleFields,
       Books!Paid
  <2>. QED BY <1>6, <2>1, BookSet DEF Books!VoidInvoice
<1>. QED BY <1>2, <1>3, <1>4, <1>5, <1>6

LEMMA BookPayments ==
  ASSUME BookInv, NEW i \in Sales,
         \/ Books!StartPayment(i) \/ Books!PaymentSucceeds(i) \/ Books!PaymentFails(i)
         \/ Books!PaymentInDoubt(i) \/ Books!IgnoreIncident(i)
  PROVE  BookInv'
<1> DEFINE r == sale[i]
<1>1. SaleRow(r) /\ date \in Nat
  BY DEF BookInv
<1>2. CASE Books!StartPayment(i)
  <2>1. BookMoves(r, [r EXCEPT !.attempt = "PENDING", !.here = TRUE])
    BY <1>1 DEF BookMoves, SaleRow, SaleFields
  <2>. QED BY <1>2, <2>1, BookSet DEF Books!StartPayment
<1>3. CASE Books!PaymentSucceeds(i)
  <2>1. Books!Is(i, {"UNPAID"}) =>
          BookMoves(r, [r EXCEPT !.status = "PAID", !.online = TRUE,
                                 !.attempt = "SUCCEEDED", !.incident = FALSE])
    BY <1>1 DEF Books!Is, BookMoves, SaleRow, SaleFields, Books!Paid
  <2>2. BookMoves(r, [r EXCEPT !.attempt = "REQUIRES_REVIEW", !.incident = TRUE])
    BY <1>1 DEF BookMoves, SaleRow, SaleFields
  <2>. QED BY <1>3, <2>1, <2>2, BookSet DEF Books!PaymentSucceeds
<1>4. CASE Books!PaymentFails(i)
  <2>1. BookMoves(r, [r EXCEPT !.attempt = "FAILED", !.incident = FALSE])
    BY <1>1 DEF BookMoves, SaleRow, SaleFields
  <2>. QED BY <1>4, <2>1, BookSet DEF Books!PaymentFails
<1>5. CASE Books!PaymentInDoubt(i)
  <2>1. BookMoves(r, [r EXCEPT !.attempt = "REQUIRES_REVIEW", !.incident = TRUE])
    BY <1>1 DEF BookMoves, SaleRow, SaleFields
  <2>. QED BY <1>5, <2>1, BookSet DEF Books!PaymentInDoubt
<1>6. CASE Books!IgnoreIncident(i)
  <2>1. BookMoves(r, [r EXCEPT !.incident = FALSE])
    BY <1>1 DEF BookMoves, SaleRow, SaleFields
  <2>. QED BY <1>6, <2>1, BookSet DEF Books!IgnoreIncident
<1>. QED BY <1>2, <1>3, <1>4, <1>5, <1>6

\* Refunds of a sale that was paid.
LEMMA BookRefunded ==
  ASSUME BookInv, NEW i \in Sales, sale[i].status \in Books!Paid, NEW amount \in Nat
  PROVE  BookMoves(sale[i], Books!Refunded(sale[i], amount))
<1> DEFINE r == sale[i]
           sum == r.refunds.amount + amount
           n == Books!Refunded(r, amount)
<1>1. SaleRow(r)
  BY DEF BookInv
<1>2. /\ DOMAIN n = SaleFields /\ n.asked = 0 /\ n.status \in Books!Paid
      /\ n.refunds = [count |-> r.refunds.count + 1, amount |-> sum]
      /\ n.day = r.day /\ n.cup = r.cup /\ n.again = r.again /\ n.wasted = r.wasted
      /\ n.stamped = r.stamped
      /\ n.straddled = r.straddled /\ n.redone = r.redone /\ n.late = r.late
  BY <1>1 DEF Books!Refunded, SaleRow, SaleFields, Books!Paid
<1>3. r.refunds.amount \in Nat /\ r.refunds.count \in Nat /\ sum \in Nat
  BY <1>1 DEF SaleRow
<1>4. n.refunds.count \in Nat /\ n.refunds.amount \in Nat /\ r.refunds.amount <= n.refunds.amount
  BY <1>2, <1>3
<1> HIDE DEF n
<1>. QED BY <1>1, <1>2, <1>4 DEF BookMoves, SaleRow, Books!Paid, n

LEMMA BookRefunds ==
  ASSUME BookInv, NEW i \in Sales,
         \/ \E amount \in 1..Price : Books!RefundCash(i, amount) \/ Books!RequestRefund(i, amount)
         \/ Books!RefundSucceeds(i) \/ Books!RefundFails(i) \/ Books!RefundInDoubt(i)
  PROVE  BookInv'
<1> DEFINE r == sale[i]
<1>1. SaleRow(r)
  BY DEF BookInv
<1>2. ASSUME NEW amount \in 1..Price, Books!RefundCash(i, amount) PROVE BookInv'
  <2>1. r.status \in Books!Paid /\ amount \in Nat
    BY <1>2 DEF Books!RefundCash, Books!Refundable, Books!Is, Books!Paid
  <2>. QED BY <1>2, <2>1, BookRefunded, BookSet DEF Books!RefundCash
<1>3. ASSUME NEW amount \in 1..Price, Books!RequestRefund(i, amount) PROVE BookInv'
  <2>1. BookMoves(r, [r EXCEPT !.asked = amount])
    BY <1>1, <1>3 DEF Books!RequestRefund, Books!Refundable, Books!Is, BookMoves,
       SaleRow, SaleFields, Books!Paid
  <2>. QED BY <1>3, <2>1, BookSet DEF Books!RequestRefund
<1>4. CASE Books!RefundSucceeds(i)
  <2>1. r.status \in Books!Paid /\ r.asked \in Nat
    BY <1>1, <1>4 DEF Books!RefundSucceeds, SaleRow
  <2>. QED BY <1>4, <2>1, BookRefunded, BookSet DEF Books!RefundSucceeds
<1>5. CASE Books!RefundFails(i)
  <2>1. BookMoves(r, [r EXCEPT !.asked = 0, !.incident = FALSE])
    BY <1>1 DEF BookMoves, SaleRow, SaleFields
  <2>. QED BY <1>5, <2>1, BookSet DEF Books!RefundFails
<1>6. CASE Books!RefundInDoubt(i)
  <2>1. BookMoves(r, [r EXCEPT !.incident = TRUE])
    BY <1>1 DEF BookMoves, SaleRow, SaleFields
  <2>. QED BY <1>6, <2>1, BookSet DEF Books!RefundInDoubt
<1>. QED BY <1>2, <1>3, <1>4, <1>5, <1>6

\* The line of a sale and its replacement.
LEMMA BookLines ==
  ASSUME BookInv, NEW i \in Sales,
         \/ Books!Prepare(i, "PENDING", "COOKING") \/ Books!Prepare(i, "COOKING", "SERVED")
         \/ Books!RemakeItem(i) \/ Books!CookReplacement(i) \/ Books!CancelReplacement(i)
         \/ Books!DiscardReplacement(i) \/ Books!CommitWriteOff(i) \/ Books!AbortWriteOff(i)
  PROVE  BookInv'
<1> DEFINE r == sale[i]
<1>1. SaleRow(r)
  BY DEF BookInv
<1>2. ASSUME NEW from \in {"PENDING", "COOKING"}, NEW to, Books!Prepare(i, from, to) PROVE BookInv'
  <2>1. BookMoves(r, [r EXCEPT !.cup = to])
    BY <1>1, <1>2 DEF Books!Prepare, BookMoves, SaleRow, SaleFields
  <2>. QED BY <1>2, <2>1, BookSet DEF Books!Prepare
<1>3. CASE Books!RemakeItem(i) \/ Books!DiscardReplacement(i)
  <2>1. date \in Nat /\ RowWaste(r.again, r.wasted, date)
    BY <1>1, <1>3 DEF BookInv, SaleRow, RowWaste, Books!RemakeItem, Books!DiscardReplacement
  <2>2. BookMoves(r, [r EXCEPT !.stamped = date])
    BY <1>1, <2>1 DEF BookMoves, SaleRow, SaleFields
  <2>. QED BY <1>3, <2>2, BookSet DEF Books!RemakeItem, Books!DiscardReplacement
<1>4. CASE Books!CookReplacement(i)
  <2>1. RowWaste("COOKING", r.wasted, r.stamped)
    BY <1>1, <1>4 DEF SaleRow, RowWaste, Books!CookReplacement
  <2>2. BookMoves(r, [r EXCEPT !.again = "COOKING", !.redone = @ \cup Books!Closed])
    BY <1>1, <2>1 DEF BookMoves, SaleRow, SaleFields
  <2>. QED BY <1>4, <2>2, BookSet DEF Books!CookReplacement
<1>5. CASE Books!CancelReplacement(i)
  <2>1. RowWaste("CANCELLED", r.wasted, r.stamped)
    BY <1>1, <1>5 DEF SaleRow, RowWaste, Books!CancelReplacement
  <2>2. BookMoves(r, [r EXCEPT !.again = "CANCELLED", !.redone = @ \cup Books!Closed])
    BY <1>1, <2>1 DEF BookMoves, SaleRow, SaleFields
  <2>. QED BY <1>5, <2>2, BookSet DEF Books!CancelReplacement
<1>6. CASE Books!CommitWriteOff(i)
  <2> DEFINE n == Books!WrittenOff(r)
  <2>1. r.stamped # 0 /\ Books!Set(i, n) /\ UNCHANGED <<date, closing>>
    BY <1>6 DEF Books!CommitWriteOff
  <2>2. /\ DOMAIN n = SaleFields /\ n.stamped = 0
        /\ n.redone = r.redone \cup Books!Closed /\ n.late = r.late \cup ({r.stamped} \cap Books!Closed)
        /\ n.day = r.day /\ n.cup = r.cup /\ n.status = r.status /\ n.refunds = r.refunds
        /\ n.straddled = r.straddled /\ n.asked = r.asked
    BY <1>1 DEF Books!WrittenOff, SaleRow, SaleFields
  <2>3. \/ /\ r.again = "NONE" /\ n.again = "PENDING"
           /\ n.wasted = [r.wasted EXCEPT !.cup = r.stamped]
        \/ /\ r.again = "COOKING" /\ n.again = "CANCELLED"
           /\ n.wasted = [r.wasted EXCEPT !.again = r.stamped]
    <3>1. r.again \in {"NONE", "COOKING"}
      BY <1>1, <2>1 DEF SaleRow, RowWaste
    <3>. QED BY <1>1, <3>1 DEF Books!WrittenOff, SaleRow, SaleFields
  <2> HIDE DEF n
  <2>4. RowWaste(r.again, r.wasted, r.stamped)
    BY <1>1 DEF SaleRow
  <2>5. RowWaste(n.again, n.wasted, n.stamped) /\ WasteMoves(r.wasted, n.wasted, n.late)
    BY <2>1, <2>2, <2>3, <2>4 DEF RowWaste, WasteMoves
  <2>6. BookMoves(r, n)
    BY <1>1, <2>2, <2>3, <2>5 DEF BookMoves, SaleRow
  <2>. QED BY <2>1, <2>6, BookSet
<1>7. CASE Books!AbortWriteOff(i)
  <2>1. RowWaste(r.again, r.wasted, 0)
    BY <1>1 DEF SaleRow, RowWaste
  <2>2. BookMoves(r, [r EXCEPT !.stamped = 0])
    BY <1>1, <2>1 DEF BookMoves, SaleRow, SaleFields
  <2>. QED BY <1>7, <2>2, BookSet DEF Books!AbortWriteOff
<1>. QED BY <1>2, <1>3, <1>4, <1>5, <1>6, <1>7

LEMMA BookWaste == \A d : Waste(d) \in Nat
<1>1. \A d : WastedCups(d) \subseteq Sales /\ WastedAgain(d) \subseteq Sales
  BY DEF WastedCups, WastedAgain
<1>. QED BY <1>1, BookConstants, FS_Subset, FS_CardinalityType DEF Waste

\* The figures are kept of a day on which nothing is pending.
LEMMA BookClose ==
  ASSUME BookInv, NEW d \in Books!Days, Books!CloseDay(d)
  PROVE  BookInv'
<1>1. /\ d < date /\ ~Books!Blocked(d) /\ closing' = [closing EXCEPT ![d] = Books!Profitability(d)]
      /\ UNCHANGED <<date, sale>>
  BY DEF Books!CloseDay
<1>2. \A e \in Books!Days : /\ Books!Cohort(e)' = Books!Cohort(e) /\ Sold(e)' = Sold(e)
                            /\ Waste(e)' = Waste(e) /\ (Straddling(e)' <=> Straddling(e))
                            /\ Cost(e)' = Cost(e)
                            /\ Total(Books!RefundAmounts, Sold(e))' = Total(Books!RefundAmounts, Sold(e))
  BY <1>1 DEF Books!Cohort, Sold, Waste, WastedCups, WastedAgain, Straddling, Cost, Books!RefundAmounts,
     Books!Is, Books!Cooked
<1>3. ASSUME NEW e \in Books!Closed', e # d PROVE DayKept(e)'
  <2>1. e \in Books!Closed /\ closing'[e] = closing[e] /\ e \in Books!Days
    BY <1>1, <1>3 DEF Books!Closed, BookInv
  <2>2. DayKept(e)
    BY <2>1 DEF BookInv
  <2>. QED BY <1>1, <1>2, <2>1, <2>2 DEF DayKept
<1>4. ASSUME d \in Books!Closed' PROVE DayKept(d)'
  <2>1. closing'[d] = Books!Profitability(d)
    BY <1>1 DEF BookInv
  <2>2. /\ \A i \in Sold(d) : sale[i].status # "UNPAID"
        /\ \A i \in Books!Cohort(d) : sale[i].cup \notin {"PENDING", "COOKING"}
    BY <1>1 DEF Books!Blocked, Books!UnpaidInvoices, Books!UnfinishedItems, Sold, Books!Is
  <2> DEFINE refunds == Total(Books!RefundAmounts, Books!Cohort(d))
  <2>3. /\ refunds = Total(Books!RefundAmounts, Sold(d)) /\ refunds \in Nat
        /\ Total(Books!RefundCounts, Books!Cohort(d)) \in Nat
    <3>1. IsFiniteSet(Sold(d)) /\ Books!Cohort(d) \in SUBSET Sold(d) /\ \A i \in Sold(d) : i \in Sales
      BY BookConstants, FS_Subset DEF Sold, Books!Cohort
    <3>2. \A i \in Sales : /\ Books!RefundAmounts[i] = sale[i].refunds.amount
                           /\ Books!RefundCounts[i] = sale[i].refunds.count
                           /\ Books!RefundAmounts[i] \in Nat /\ Books!RefundCounts[i] \in Nat
      BY DEF Books!RefundAmounts, Books!RefundCounts, BookInv, SaleRow
    <3>3. \A i \in Sold(d) \ Books!Cohort(d) : Books!RefundAmounts[i] = 0
      BY <3>1, <3>2 DEF Sold, Books!Cohort, Books!Is, BookInv, SaleRow
    <3>4. refunds = Total(Books!RefundAmounts, Sold(d))
      BY <3>1, <3>2, <3>3, TotalMask
    <3>5. IsFiniteSet(Books!Cohort(d)) /\ \A i \in Books!Cohort(d) : i \in Sales
      BY <3>1, FS_Subset
    <3>. QED BY <3>2, <3>4, <3>5, TotalNat
  <2> HIDE DEF refunds
  <2>4. Books!Profitability(d) =
          [grossSales |-> Price * Cardinality(Books!Cohort(d)),
           refundCount |-> Total(Books!RefundCounts, Books!Cohort(d)), refundAmount |-> refunds,
           netReceipts |-> Price * Cardinality(Books!Cohort(d)) - refunds,
           ingredientCost |-> Cost(d), wasteCost |-> Waste(d)]
    BY BookSums DEF Books!Profitability, Cost, Waste, WastedCups, WastedAgain, refunds
  <2>5. Waste(d) \in Nat
    BY BookWaste
  <2>. QED BY <1>1, <1>2, <2>1, <2>2, <2>3, <2>4, <2>5 DEF DayKept
<1>. QED BY <1>1, <1>3, <1>4 DEF BookInv

LEMMA BookNext == BookInv /\ Books!Next => BookInv'
<1> SUFFICES ASSUME BookInv, Books!Next PROVE BookInv'
  OBVIOUS
<1>1. CASE Books!NextDay
  <2>1. UNCHANGED <<sale, closing>> /\ date' = date + 1
    BY <1>1 DEF Books!NextDay
  <2>2. ASSUME NEW d \in Books!Closed PROVE DayKept(d)'
    <3>1. DayKept(d) /\ d \in Nat /\ date \in Nat
      BY DEF BookInv, Books!Closed, Books!Days
    <3>2. /\ Books!Cohort(d)' = Books!Cohort(d) /\ Sold(d)' = Sold(d)
          /\ Waste(d)' = Waste(d) /\ (Straddling(d)' <=> Straddling(d))
          /\ Cost(d)' = Cost(d)
          /\ Total(Books!RefundAmounts, Sold(d))' = Total(Books!RefundAmounts, Sold(d))
      BY <2>1 DEF Books!Cohort, Sold, Waste, WastedCups, WastedAgain, Straddling, Cost, Books!RefundAmounts,
         Books!Is, Books!Cooked
    <3>. QED BY <2>1, <3>1, <3>2 DEF DayKept
  <2>3. Books!Closed' = Books!Closed /\ \A i \in Sales : SaleRow(sale[i])'
    BY <2>1 DEF Books!Closed, BookInv, SaleRow
  <2>. QED BY <2>1, <2>2, <2>3 DEF BookInv
<1>2. CASE Books!OpenShift
  <2>1. \A i \in Sales : BookMoves(sale[i], sale'[i])
    BY <1>2, BookRows DEF Books!OpenShift
  <2>. QED BY <1>2, <2>1, BookMoved DEF Books!OpenShift, BookInv
<1>3. CASE Books!CloseShift
  <2>1. ASSUME NEW i \in Sales PROVE BookMoves(sale[i], sale'[i])
    <3>1. SaleRow(sale[i]) /\ sale'[i] = [sale[i] EXCEPT !.here = FALSE]
      BY <1>3 DEF Books!CloseShift, BookInv
    <3>2. BookMoves(sale[i], [sale[i] EXCEPT !.here = FALSE])
      BY <3>1 DEF BookMoves, SaleRow, SaleFields
    <3>. QED BY <3>1, <3>2
  <2>. QED BY <1>3, <2>1, BookMoved DEF Books!CloseShift
<1>. QED BY <1>1, <1>2, <1>3, BookInvoices, BookPayments, BookRefunds, BookLines, BookClose
         DEF Books!Next

LEMMA BookStay == BookInv /\ UNCHANGED bookVars => BookInv'
<1> SUFFICES ASSUME BookInv, UNCHANGED bookVars PROVE BookInv'
  OBVIOUS
<1>1. \A i \in Sales : BookMoves(sale[i], sale'[i])
  BY BookRows DEF bookVars
<1>. QED BY <1>1, BookMoved DEF bookVars, BookInv

LEMMA BookTrue == BookInv => Books!ClosedDayStands
<1> SUFFICES ASSUME BookInv, NEW d \in Books!Closed,
                    \A i \in Sales : sale[i].day = d => ~sale[i].straddled
             PROVE  LET kept == closing[d]  current == Books!Profitability(d) IN
                    /\ current.grossSales = kept.grossSales
                    /\ current.netReceipts = kept.netReceipts - Books!RefundDelta(d).amount
                    /\ current.refundCount = kept.refundCount + Books!RefundDelta(d).count
                    /\ Books!RefundDelta(d).amount >= 0
                    /\ current.wasteCost >= kept.wasteCost
                    /\ (\A i \in Sales : d \notin sale[i].late) =>
                         current.wasteCost = kept.wasteCost
                    /\ (\A i \in Books!Cohort(d) : d \notin sale[i].redone) =>
                         current.ingredientCost = kept.ingredientCost
  BY DEF Books!ClosedDayStands
<1> DEFINE kept == closing[d]
           amounts == Total(Books!RefundAmounts, Sold(d))
           counts == Total(Books!RefundCounts, Sold(d))
           gross == Price * Cardinality(Books!Cohort(d))
<1>1. DayKept(d) /\ ~Straddling(d)
  BY DEF BookInv, Straddling, Sold
<1>2. /\ kept.grossSales = gross
      /\ kept.netReceipts = kept.grossSales - kept.refundAmount
      /\ kept.refundCount \in Nat /\ kept.refundAmount \in Nat
      /\ kept.refundAmount <= amounts
      /\ kept.wasteCost \in Nat /\ kept.wasteCost <= Waste(d)
      /\ (\A i \in Sales : d \notin sale[i].late) => kept.wasteCost = Waste(d)
      /\ (\A i \in Books!Cohort(d) : d \notin sale[i].redone) => kept.ingredientCost = Cost(d)
  BY <1>1 DEF DayKept
<1>3. /\ amounts = Total(Books!RefundAmounts, Books!Cohort(d)) /\ counts = Total(Books!RefundCounts, Books!Cohort(d))
      /\ amounts \in Nat /\ counts \in Nat
  BY BookTotals
<1>4. gross \in Int
  <2>1. IsFiniteSet(Books!Cohort(d))
    BY BookTotals, FS_Subset
  <2>2. Cardinality(Books!Cohort(d)) \in Nat
    BY <2>1, FS_CardinalityType
  <2>. QED BY <2>2, BookConstants
<1> HIDE DEF amounts, counts, gross
<1>5. Books!Profitability(d) =
        [grossSales |-> gross, refundCount |-> counts, refundAmount |-> amounts,
         netReceipts |-> gross - amounts, ingredientCost |-> Cost(d),
         wasteCost |-> Waste(d)]
  BY <1>3, BookSums DEF Books!Profitability, Cost, Waste, WastedCups, WastedAgain, gross
<1>6. Books!RefundDelta(d) = [count |-> counts - kept.refundCount,
                        amount |-> amounts - kept.refundAmount]
  BY BookSums DEF Books!RefundDelta, Sold, amounts, counts
<1> HIDE DEF kept
<1>7. /\ gross - amounts = kept.netReceipts - (amounts - kept.refundAmount)
      /\ counts = kept.refundCount + (counts - kept.refundCount)
      /\ amounts - kept.refundAmount >= 0
  BY <1>2, <1>3, <1>4
<1>8. Waste(d) \in Nat
  BY BookWaste
<1>. QED BY <1>2, <1>5, <1>6, <1>7, <1>8 DEF kept

\* The invariant holds in every behaviour of the service.
LEMMA BookAlways == Spec => [](on = "books" => BookInv)
<1> DEFINE I == on = "books" => BookInv
<1>1. Init => I
  BY BookStart DEF Init
<1>2. I /\ [Next]_vars => I'
  <2> SUFFICES ASSUME I, [Next]_vars, on' = "books" PROVE BookInv'
    OBVIOUS
  <2>1. BookInv /\ (Books!Next \/ UNCHANGED bookVars)
    BY Turn
  <2>. QED BY <2>1, BookNext, BookStay
<1>. QED BY <1>1, <1>2, PTL DEF Spec

\* The life of a piece of equipment, the revisions of a setting, what an
\* invoice charged and the figures of a closed day say how it was, for any
\* constants.  (transitionStatus, recordRevision, calculatePricing,
\* queryProfitability and withRefundDelta.)
THEOREM RecordsAreTrue == Spec => []RecordsTrue
<1>1. (on = "tools" => ToolInv) => (on = "tools" => Tools!LifeIsTold)
  BY ToolTrue
<1>2. (on = "config" => ConfigInv) => (on = "config" => Config!RevisionsTellAll)
  BY ConfigTrue
<1>3. (on = "prices" => PriceInv) => (on = "prices" => Prices!ChargedAsPromised)
  BY PriceTrue
<1>4. (on = "books" => BookInv) => (on = "books" => Books!ClosedDayStands)
  BY BookTrue
<1>5. (on = "tools" => ToolInv) /\ (on = "config" => ConfigInv)
        /\ (on = "prices" => PriceInv) /\ (on = "books" => BookInv) => RecordsTrue
  BY <1>1, <1>2, <1>3, <1>4 DEF RecordsTrue
<1>. QED BY <1>5, ToolAlways, ConfigAlways, PriceAlways, BookAlways, PTL

-----------------------------------------------------------------------------
(* Printing.  A job has the lease of its last claim or none; an earlier    *)
(* claim left no paper.  A live line is on one ticket, with its quantity,  *)
(* and a cancelled line only on a ticket that somebody claimed and a slip  *)
(* recalls, or on one that failed.                                         *)

\* What is assumed of the constants of the service.
LEMMA PaperNumbers ==
  /\ NoDevice \notin Devices /\ "idle" \notin Devices \cup {NoDevice}
  /\ MaxAttempts \in Nat /\ MaxJobs \in Nat /\ MaxLines \in Nat /\ MaxClaims \in Nat
BY KitchenConstants

\* The counts, sums and lists of the module are those of the theorems.
LEMMA PaperSums ==
  /\ \A f, S : Paper!Total(f, S) = Total(f, S)
  /\ \A S : Paper!Cardinality(S) = Cardinality(S)
  /\ \A S : Paper!InOrder(S) = InOrder(S)
<1>1. \A f, S : Paper!Total(f, S) = Total(f, S)
  BY DEF Paper!Total, Total, Paper!MapThenSumSet, Paper!MapThenFoldSet, MapThenSumSet, MapThenFoldSet
<1>2. \A S : Paper!Cardinality(S) = Cardinality(S)
  BY DEF Paper!Cardinality, Cardinality
<1>3. \A S : Paper!InOrder(S) = InOrder(S)
  BY DEF Paper!InOrder, InOrder, Paper!Cardinality, Cardinality
<1>. QED BY <1>1, <1>2, <1>3

\* What is so of each doc by itself: a lease only while it is processed, a
\* token that is a claim, old claims without paper, the state of the last one.
JobSound(doc) ==
  /\ doc \in Paper!Job
  /\ doc.token <= Len(doc.claims)
  /\ doc.status = "PROCESSING" <=> doc.lease # "none"
  /\ doc.lease = "held" =>
       /\ doc.token = Len(doc.claims) /\ doc.token > 0
       /\ doc.claims[doc.token] # "gone"
  /\ \A t \in DOMAIN doc.claims :
       /\ t < Len(doc.claims) => doc.claims[t] = "gone"
       /\ doc.claims[t] = "working" => doc.lease = "held"
       /\ doc.claims[t] = "printed" =>
            doc.status \in {"PRINTED", "PROCESSING", "REQUIRES_REVIEW"}
  /\ doc.status = "PRINTED" =>
       Len(doc.claims) > 0 /\ doc.claims[Len(doc.claims)] = "printed"
  /\ doc.kind = "ticket" /\ doc.status = "CANCELLED" => doc.items = Paper!NoItems

\* Where a doc lies: with a printer that was registered and, but for a
\* receipt, is of its kind; with one that is on while it is processed.
JobPlaced(doc) ==
  /\ doc.device # NoDevice =>
       /\ device[doc.device].row # "NONE"
       /\ doc.kind # "receipt" => device[doc.device].type = Paper!ExpectedType(doc.kind)
  /\ doc.status = "PROCESSING" => Paper!Active(doc.device)

PaperPlaced ==
  /\ \A d, e \in Paper!Defaults : d = e
  /\ \A d \in Paper!Defaults : Paper!Compatible(d, "receipt")
  /\ station # NoDevice => device[station].row # "NONE" /\ device[station].type = "KITCHEN"
  /\ chosen \in Devices => device[chosen].row # "NONE"
  /\ \A j \in DOMAIN jobs : JobPlaced(jobs[j])

PaperReceipts ==
  /\ \A j, k \in DOMAIN jobs : jobs[j].kind = "receipt" /\ jobs[k].kind = "receipt" => j = k
  /\ chosen # "idle" => \A j \in DOMAIN jobs : jobs[j].kind # "receipt"

SlipRecalls(j, l) ==
  \E s \in DOMAIN jobs : /\ jobs[s].kind = "slip" /\ jobs[s].of = j
                         /\ jobs[s].items[l] = jobs[j].items[l]
PaperItems ==
  /\ \A j \in DOMAIN jobs : \A l \in Paper!LineIds : jobs[j].items[l] > 0 => l \in DOMAIN lines
  /\ \A j, k \in DOMAIN jobs : \A l \in Paper!LineIds :
       jobs[j].kind = "ticket" /\ jobs[k].kind = "ticket" /\ jobs[j].items[l] > 0
         /\ jobs[k].items[l] > 0 => j = k
  /\ \A j \in DOMAIN jobs : \A l \in Paper!LineIds :
       jobs[j].kind = "ticket" /\ jobs[j].items[l] > 0 =>
         IF lines[l].status = "CANCELLED"
         THEN jobs[j].status = "FAILED" \/ (~Paper!Unclaimed(jobs[j]) /\ SlipRecalls(j, l))
         ELSE jobs[j].items[l] = lines[l].quantity

PaperInv ==
  /\ Paper!TypeOK
  /\ \A j \in DOMAIN jobs : JobSound(jobs[j])
  /\ PaperPlaced /\ PaperReceipts /\ PaperItems

\* The jobs as the module types them, and what each action writes in one.
LEMMA PaperStart == Paper!Init => PaperInv
<1> SUFFICES ASSUME Paper!Init PROVE PaperInv
  OBVIOUS
<1>1. jobs = <<>> /\ lines = <<>> /\ DOMAIN jobs = {} /\ Len(jobs) = 0 /\ Len(lines) = 0
  BY DEF Paper!Init
<1>2. \A d \in Devices : device[d] = Paper!NoRow
  BY DEF Paper!Init
<1>3. Paper!TypeOK
  BY <1>1, PaperNumbers DEF Paper!Init, Paper!TypeOK, Paper!NoRow, Paper!Device,
     Paper!DeviceType
<1>4. Paper!Defaults = {}
  BY <1>2 DEF Paper!Defaults, Paper!NoRow
<1>5. PaperPlaced
  BY <1>1, <1>4, PaperNumbers DEF PaperPlaced, Paper!Init
<1>. QED BY <1>1, <1>3, <1>5 DEF PaperInv, PaperReceipts, PaperItems, Paper!Init

LEMMA PaperNewJob ==
  ASSUME NEW kind \in Paper!Kitchen \cup {"receipt", "reprint", "precheck"},
         NEW d \in Devices \cup {NoDevice}, NEW items \in [Paper!LineIds -> Nat], NEW of \in 0..MaxJobs
  PROVE  LET doc == [Paper!NewJob(kind, d, items) EXCEPT !.of = of] IN
         /\ JobSound(doc) /\ doc.kind = kind /\ doc.device = d /\ doc.items = items
         /\ doc.of = of /\ doc.status = "PENDING"
         /\ of = 0 => doc = Paper!NewJob(kind, d, items)
<1> DEFINE doc == [Paper!NewJob(kind, d, items) EXCEPT !.of = of]
<1>1. doc = [kind |-> kind, status |-> "PENDING", device |-> d, attempts |-> 0,
             lease |-> "none", token |-> 0, items |-> items, of |-> of, claims |-> <<>>]
  BY DEF Paper!NewJob
<1>2. 0 \in 0..MaxAttempts /\ 0 \in 0..MaxClaims /\ <<>> \in Seq(Paper!Phase)
  BY PaperNumbers
<1>3. doc \in Paper!Job
  BY <1>1, <1>2 DEF Paper!Job, Paper!JobStatus
<1>4. of = 0 => doc = Paper!NewJob(kind, d, items)
  BY <1>1 DEF Paper!NewJob
<1> HIDE DEF doc
<1>5. JobSound(doc)
  BY <1>1, <1>3 DEF JobSound
<1>. QED BY <1>1, <1>4, <1>5 DEF doc

LEMMA PaperJob ==
  ASSUME NEW doc, JobSound(doc)
  PROVE  /\ doc.kind \in Paper!Kitchen \cup {"receipt", "reprint", "precheck"}
         /\ doc.status \in Paper!JobStatus /\ doc.device \in Devices \cup {NoDevice}
         /\ doc.attempts \in 0..MaxAttempts /\ doc.lease \in {"none", "held", "late"}
         /\ doc.token \in 0..MaxClaims /\ doc.items \in [Paper!LineIds -> Nat]
         /\ doc.of \in 0..MaxJobs /\ doc.claims \in Seq(Paper!Phase)
         /\ Len(doc.claims) \in Nat /\ DOMAIN doc.claims = 1..Len(doc.claims)
         /\ \A t \in DOMAIN doc.claims : doc.claims[t] \in Paper!Phase
<1>1. doc \in Paper!Job
  BY DEF JobSound
<1>2. doc.claims \in Seq(Paper!Phase)
  BY <1>1 DEF Paper!Job
<1>. QED BY <1>1, <1>2 DEF Paper!Job

\* A change of the printer, the lease or the status that keeps the claims.
LEMMA PaperWritten ==
  ASSUME NEW doc, JobSound(doc), NEW row \in Paper!Job,
         row.kind = doc.kind, row.claims = doc.claims,
         row.token <= Len(row.claims),
         row.status = "PROCESSING" <=> row.lease # "none",
         row.lease = "held" => doc.lease = "held" /\ row.token = doc.token,
         \A t \in DOMAIN doc.claims :
           /\ doc.claims[t] = "working" => row.lease = "held"
           /\ doc.claims[t] = "printed" =>
                row.status \in {"PRINTED", "PROCESSING", "REQUIRES_REVIEW"},
         row.status = "PRINTED" =>
           doc.status = "PRINTED" \/ \E t \in DOMAIN doc.claims : doc.claims[t] = "printed",
         row.kind = "ticket" /\ row.status = "CANCELLED" => row.items = Paper!NoItems
  PROVE  JobSound(row)
<1>1. Len(doc.claims) \in Nat /\ DOMAIN doc.claims = 1..Len(doc.claims)
  BY PaperJob
<1>2. row.status = "PRINTED" =>
        Len(row.claims) > 0 /\ row.claims[Len(row.claims)] = "printed"
  BY <1>1 DEF JobSound
<1>. QED BY <1>1, <1>2 DEF JobSound

\* What a step may do to a doc that is there: it says less of cancelled lines
\* only when it says nothing of them.
JobKept(doc, row) ==
  /\ row.kind = doc.kind /\ row.of = doc.of
  /\ \/ /\ row.items = doc.items
        /\ doc.kind = "ticket" => /\ doc.status = "FAILED" => row.status = "FAILED"
                                  /\ row.status = "PENDING" => doc.status = "PENDING"
     \/ doc.kind = "ticket" /\ row.items = Paper!Without(doc.items, Paper!Cancelled)

LEMMA PaperRowsStep ==
  ASSUME PaperInv, UNCHANGED <<lines, invoice>>,
         chosen' = chosen, device' \in [Devices -> Paper!Device],
         station' \in Devices \cup {NoDevice},
         jobs' = [j \in DOMAIN jobs |-> jobs'[j]],
         \A j \in DOMAIN jobs : JobSound(jobs'[j]) /\ JobKept(jobs[j], jobs'[j]),
         PaperPlaced'
  PROVE  PaperInv'
<1>1. /\ jobs \in Seq(Paper!Job) /\ DOMAIN jobs = 1..Len(jobs) /\ Len(jobs) \in Nat
      /\ lines \in Seq(Paper!Line) /\ DOMAIN lines = 1..Len(lines)
      /\ \A j \in DOMAIN jobs : JobSound(jobs[j])
  BY DEF PaperInv, Paper!TypeOK
<1>2. jobs' \in Seq(Paper!Job) /\ Len(jobs') = Len(jobs) /\ DOMAIN jobs' = DOMAIN jobs
  <2>1. \A j \in 1..Len(jobs) : jobs'[j] \in Paper!Job
    BY <1>1 DEF JobSound
  <2>2. DOMAIN jobs' = 1..Len(jobs)
    BY <1>1
  <2>3. jobs' \in [1..Len(jobs) -> Paper!Job]
    BY <1>1, <2>1, <2>2
  <2>. QED BY <1>1, <2>3
<1>3. Paper!TypeOK'
  BY <1>2 DEF PaperInv, Paper!TypeOK
<1>4. PaperReceipts'
  BY <1>2 DEF PaperInv, PaperReceipts, JobKept
<1>5. \A j \in DOMAIN jobs : /\ jobs[j].items \in [Paper!LineIds -> Nat]
                             /\ jobs'[j].items \in [Paper!LineIds -> Nat]
  BY <1>1, PaperJob
<1>6. ASSUME NEW j \in DOMAIN jobs, NEW l \in Paper!LineIds, jobs'[j].items[l] > 0
      PROVE  /\ jobs'[j].items[l] = jobs[j].items[l] /\ jobs[j].items[l] > 0
             /\ jobs'[j].kind = jobs[j].kind
             /\ \/ jobs'[j].items = jobs[j].items
                \/ l \notin Paper!Cancelled
  <2>1. JobKept(jobs[j], jobs'[j])
    OBVIOUS
  <2>2. CASE jobs'[j].items = jobs[j].items
    BY <1>6, <2>1, <2>2 DEF JobKept
  <2>3. CASE jobs'[j].items = Paper!Without(jobs[j].items, Paper!Cancelled)
    <3>1. jobs'[j].items[l] = IF l \in Paper!Cancelled THEN 0 ELSE jobs[j].items[l]
      BY <2>3 DEF Paper!Without
    <3>. QED BY <1>5, <1>6, <2>1, <3>1 DEF JobKept
  <2>. QED BY <2>1, <2>2, <2>3 DEF JobKept
<1>7. ASSUME NEW j \in DOMAIN jobs', NEW l \in Paper!LineIds, jobs'[j].kind = "ticket",
             jobs'[j].items[l] > 0
      PROVE  IF lines[l].status = "CANCELLED"
             THEN jobs'[j].status = "FAILED"
                    \/ (~Paper!Unclaimed(jobs'[j])
                        /\ \E s \in DOMAIN jobs' : /\ jobs'[s].kind = "slip" /\ jobs'[s].of = j
                                                   /\ jobs'[s].items[l] = jobs'[j].items[l])
             ELSE jobs'[j].items[l] = lines[l].quantity
  <2>1. /\ jobs[j].items[l] > 0 /\ jobs'[j].items[l] = jobs[j].items[l]
        /\ jobs[j].kind = "ticket" /\ j \in DOMAIN jobs
    BY <1>2, <1>6, <1>7
  <2>2. l \in DOMAIN lines
    BY <2>1 DEF PaperInv, PaperItems
  <2>3. CASE lines[l].status # "CANCELLED"
    BY <2>1, <2>3 DEF PaperInv, PaperItems
  <2>4. CASE lines[l].status = "CANCELLED"
    <3>1. l \in Paper!Cancelled
      BY <2>2, <2>4 DEF Paper!Cancelled
    <3>2. jobs'[j].items = jobs[j].items /\ JobKept(jobs[j], jobs'[j])
      BY <1>2, <1>6, <1>7, <2>1, <3>1
    <3>3. jobs[j].status = "FAILED" \/ (~Paper!Unclaimed(jobs[j]) /\ SlipRecalls(j, l))
      BY <2>1, <2>4 DEF PaperInv, PaperItems
    <3>4. /\ jobs[j].status = "FAILED" => jobs'[j].status = "FAILED"
          /\ jobs'[j].status = "PENDING" => jobs[j].status = "PENDING"
      <4>1. jobs[j].items[l] # Paper!Without(jobs[j].items, Paper!Cancelled)[l]
        BY <2>1, <3>1 DEF Paper!Without
      <4>. QED BY <2>1, <3>2, <4>1 DEF JobKept
    <3>5. ASSUME SlipRecalls(j, l)
          PROVE  \E s \in DOMAIN jobs' : /\ jobs'[s].kind = "slip" /\ jobs'[s].of = j
                                         /\ jobs'[s].items[l] = jobs'[j].items[l]
      <4>1. PICK s \in DOMAIN jobs : /\ jobs[s].kind = "slip" /\ jobs[s].of = j
                                     /\ jobs[s].items[l] = jobs[j].items[l]
        BY <3>5 DEF SlipRecalls
      <4>2. JobKept(jobs[s], jobs'[s])
        OBVIOUS
      <4>3. /\ jobs'[s].kind = "slip" /\ jobs'[s].of = j
            /\ jobs'[s].items = jobs[s].items
        BY <4>1, <4>2 DEF JobKept
      <4>. QED BY <1>2, <2>1, <4>1, <4>3
    <3>. QED BY <2>4, <3>3, <3>4, <3>5 DEF Paper!Unclaimed
  <2>. QED BY <2>3, <2>4
<1>8. PaperItems'
  <2>1. \A j \in DOMAIN jobs' : \A l \in Paper!LineIds :
          jobs'[j].items[l] > 0 => l \in DOMAIN lines
    BY <1>2, <1>6 DEF PaperInv, PaperItems
  <2>2. \A j, k \in DOMAIN jobs' : \A l \in Paper!LineIds :
          jobs'[j].kind = "ticket" /\ jobs'[k].kind = "ticket" /\ jobs'[j].items[l] > 0
            /\ jobs'[k].items[l] > 0 => j = k
    BY <1>2, <1>6 DEF PaperInv, PaperItems
  <2>. QED BY <1>7, <2>1, <2>2 DEF PaperItems, SlipRecalls, Paper!Unclaimed
<1>9. \A j \in DOMAIN jobs' : JobSound(jobs'[j])
  BY <1>2
<1>. QED BY <1>3, <1>4, <1>8, <1>9 DEF PaperInv

\* A step that writes one doc.
LEMMA PaperRowStep ==
  ASSUME PaperInv, UNCHANGED <<device, station, lines, invoice, chosen>>,
         NEW j \in DOMAIN jobs, NEW row, jobs' = [jobs EXCEPT ![j] = row],
         JobSound(row), JobKept(jobs[j], row), JobPlaced(row)
  PROVE  PaperInv'
<1>1. \A k \in DOMAIN jobs : JobKept(jobs[k], jobs[k])
  BY DEF JobKept
<1>2. /\ jobs' = [k \in DOMAIN jobs |-> jobs'[k]] /\ DOMAIN jobs' = DOMAIN jobs
      /\ \A k \in DOMAIN jobs : jobs'[k] = IF k = j THEN row ELSE jobs[k]
  BY DEF PaperInv, Paper!TypeOK
<1>3. \A k \in DOMAIN jobs : JobSound(jobs'[k]) /\ JobKept(jobs[k], jobs'[k])
  BY <1>1, <1>2 DEF PaperInv
<1>4. \A k \in DOMAIN jobs : JobPlaced(jobs'[k])
  BY <1>2 DEF PaperInv, PaperPlaced
<1>5. PaperPlaced'
  BY <1>2, <1>4
  DEF PaperInv, PaperPlaced, Paper!Defaults, Paper!Compatible, Paper!Active, JobPlaced
<1>. QED BY <1>2, <1>3, <1>5, PaperRowsStep DEF PaperInv, Paper!TypeOK

\* A lease that is over is taken back, and an operator will look.
LEMMA PaperRecovered ==
  ASSUME NEW doc, JobSound(doc), doc.status = "PROCESSING",
         \A t \in DOMAIN doc.claims : doc.claims[t] # "working"
  PROVE  /\ JobSound(Paper!Recovered(doc)) /\ JobKept(doc, Paper!Recovered(doc))
         /\ Paper!Recovered(doc).device = doc.device /\ Paper!Recovered(doc).status = "REQUIRES_REVIEW"
<1> DEFINE row == [doc EXCEPT !.status = "REQUIRES_REVIEW", !.lease = "none"]
<1>1. /\ row.kind = doc.kind /\ row.status = "REQUIRES_REVIEW" /\ row.device = doc.device
      /\ row.lease = "none" /\ row.token = doc.token /\ row.items = doc.items
      /\ row.of = doc.of /\ row.claims = doc.claims
  <2>1. doc \in Paper!Job
    BY DEF JobSound
  <2>. QED BY <2>1 DEF Paper!Job
<1>2. row \in Paper!Job
  <2>1. doc \in Paper!Job
    BY DEF JobSound
  <2>. QED BY <2>1 DEF Paper!Job, Paper!JobStatus
<1>3. row = Paper!Recovered(doc)
  BY DEF Paper!Recovered
<1> HIDE DEF row
<1>4. JobKept(doc, row)
  BY <1>1 DEF JobKept
<1>5. JobSound(row)
  <2>1. row.token <= Len(row.claims)
    BY <1>1 DEF JobSound
  <2>. QED BY <1>1, <1>2, <2>1, PaperWritten
<1>. QED BY <1>1, <1>3, <1>4, <1>5

\* recoverExpiredJobs keeps every doc sound, kept and where it may be.
LEMMA PaperRecoveredAll ==
  ASSUME PaperInv, NEW ds
  PROVE  LET rows == Paper!RecoverExpiredJobs(jobs, ds) IN
         /\ rows = [j \in DOMAIN jobs |-> rows[j]]
         /\ \A j \in DOMAIN jobs :
              /\ JobSound(rows[j]) /\ JobKept(jobs[j], rows[j]) /\ rows[j].device = jobs[j].device
              /\ rows[j] = jobs[j]
                   \/ (jobs[j].status = "PROCESSING" /\ rows[j].status = "REQUIRES_REVIEW")
              /\ rows[j].claims = jobs[j].claims
<1> DEFINE rows == Paper!RecoverExpiredJobs(jobs, ds)
<1>1. rows = [j \in DOMAIN jobs |->
                IF jobs[j].status = "PROCESSING" /\ jobs[j].lease = "late"
                     /\ jobs[j].device \in ds
                THEN Paper!Recovered(jobs[j]) ELSE jobs[j]]
  BY DEF Paper!RecoverExpiredJobs
<1> HIDE DEF rows
<1>2. ASSUME NEW j \in DOMAIN jobs
      PROVE  /\ JobSound(rows[j]) /\ JobKept(jobs[j], rows[j]) /\ rows[j].device = jobs[j].device
             /\ rows[j] = jobs[j]
                  \/ (jobs[j].status = "PROCESSING" /\ rows[j].status = "REQUIRES_REVIEW")
             /\ rows[j].claims = jobs[j].claims
  <2>0. JobSound(jobs[j])
    BY DEF PaperInv
  <2>1. CASE rows[j] = jobs[j]
    BY <2>0, <2>1 DEF JobKept
  <2>2. CASE jobs[j].status = "PROCESSING" /\ jobs[j].lease = "late"
               /\ rows[j] = Paper!Recovered(jobs[j])
    <3>1. \A t \in DOMAIN jobs[j].claims : jobs[j].claims[t] # "working"
      BY <2>0, <2>2 DEF JobSound
    <3>2. Paper!Recovered(jobs[j]).claims = jobs[j].claims
      BY <2>0, PaperJob DEF Paper!Recovered
    <3>. QED BY <2>0, <2>2, <3>1, <3>2, PaperRecovered
  <2>. QED BY <1>1, <2>1, <2>2
<1>3. rows = [j \in DOMAIN jobs |-> rows[j]]
  BY <1>1
<1>. QED BY <1>2, <1>3 DEF rows

LEMMA PaperRecoverStep == PaperInv /\ Paper!RecoverExpiredLeases => PaperInv'
<1> SUFFICES ASSUME PaperInv, Paper!RecoverExpiredLeases PROVE PaperInv'
  OBVIOUS
<1>1. /\ jobs' = Paper!RecoverExpiredJobs(jobs, Devices)
      /\ UNCHANGED <<device, station, lines, invoice, chosen>>
  BY DEF Paper!RecoverExpiredLeases
<1>2. /\ jobs' = [j \in DOMAIN jobs |-> jobs'[j]]
      /\ \A j \in DOMAIN jobs :
              /\ JobSound(jobs'[j]) /\ JobKept(jobs[j], jobs'[j])
              /\ jobs'[j].device = jobs[j].device
              /\ jobs'[j] = jobs[j]
                   \/ (jobs[j].status = "PROCESSING" /\ jobs'[j].status = "REQUIRES_REVIEW")
  BY <1>1, PaperRecoveredAll
<1>3. \A j \in DOMAIN jobs : JobPlaced(jobs'[j])
  BY <1>2 DEF PaperInv, PaperPlaced, JobPlaced, JobKept
<1>4. PaperPlaced'
  BY <1>1, <1>2, <1>3 DEF PaperInv, PaperPlaced, Paper!Defaults, Paper!Compatible,
     Paper!Active, JobPlaced
<1>. QED BY <1>1, <1>2, <1>4, PaperRowsStep DEF PaperInv, Paper!TypeOK

\* A new phase of the last claim, while the lease is held.
IsJob(row) ==
  row = [kind |-> row.kind, status |-> row.status, device |-> row.device,
         attempts |-> row.attempts, lease |-> row.lease, token |-> row.token,
         items |-> row.items, of |-> row.of, claims |-> row.claims]
SameJob(doc, row) ==
  /\ row.kind = doc.kind /\ row.device = doc.device /\ row.attempts = doc.attempts
  /\ row.items = doc.items /\ row.of = doc.of
LEMMA PaperPhase ==
  ASSUME NEW doc, JobSound(doc), doc.lease = "held", NEW phase \in {"gone", "printed"},
         NEW row, IsJob(row), SameJob(doc, row), row.status = doc.status, row.token = doc.token,
         row.claims = [doc.claims EXCEPT ![doc.token] = phase], row.lease \in {"held", "late"},
         doc.claims[doc.token] = "printed" => phase = "printed",
         phase = "gone" => row.lease = "late"
  PROVE  JobSound(row) /\ JobKept(doc, row)
<1> DEFINE new == [doc.claims EXCEPT ![doc.token] = phase]
<1>0. /\ doc.claims \in Seq(Paper!Phase) /\ Len(doc.claims) \in Nat
      /\ DOMAIN doc.claims = 1..Len(doc.claims)
      /\ doc.token = Len(doc.claims) /\ doc.token > 0 /\ doc.status = "PROCESSING"
      /\ \A t \in DOMAIN doc.claims : doc.claims[t] \in Paper!Phase
  BY PaperJob DEF JobSound
<1>2. /\ new \in Seq(Paper!Phase) /\ Len(new) = Len(doc.claims) /\ new[doc.token] = phase
      /\ \A t \in DOMAIN doc.claims \ {doc.token} : new[t] = doc.claims[t]
      /\ DOMAIN new = DOMAIN doc.claims
  BY <1>0 DEF Paper!Phase
<1>1. row.claims = new
  OBVIOUS
<1> HIDE DEF new
<1>3. row \in Paper!Job
  BY <1>1, <1>2, PaperJob DEF Paper!Job, IsJob, SameJob
<1>4. JobKept(doc, row)
  BY DEF JobKept, SameJob
<1>5. \A t \in DOMAIN doc.claims : /\ t < Len(doc.claims) => doc.claims[t] = "gone"
                                   /\ t \in Nat /\ t <= Len(doc.claims)
  BY <1>0 DEF JobSound
<1>6. \A t \in DOMAIN new : /\ t < Len(new) => new[t] = "gone"
                            /\ new[t] = "working" => row.lease = "held"
  BY <1>0, <1>2, <1>5
<1>7. JobSound(row)
  BY <1>0, <1>1, <1>2, <1>3, <1>6 DEF JobSound, SameJob
<1>. QED BY <1>4, <1>7

\* What an agent does while it holds the lease, and the end of the lease.
LEMMA PaperLeaseSteps ==
  ASSUME PaperInv, NEW j \in DOMAIN jobs, Paper!LeaseEnds(j) \/ Paper!PrintPaper(j)
  PROVE  PaperInv'
<1> DEFINE doc == jobs[j]
           row == jobs'[j]
<1>1. /\ JobSound(doc) /\ doc \in Paper!Job /\ JobPlaced(doc) /\ doc.lease = "held"
      /\ UNCHANGED <<device, station, lines, invoice, chosen>>
      /\ jobs \in Seq(Paper!Job)
  BY DEF PaperInv, PaperPlaced, JobSound, Paper!LeaseEnds, Paper!PrintPaper, Paper!TypeOK
<1>2. /\ doc.token \in DOMAIN doc.claims /\ doc.claims \in Seq(Paper!Phase)
      /\ doc.claims[doc.token] \in {"working", "printed"}
  BY <1>1, PaperJob DEF JobSound, Paper!Phase
<1>3. jobs' = [jobs EXCEPT ![j] = row]
  <2>1. CASE Paper!LeaseEnds(j)
    BY <1>1, <2>1 DEF Paper!LeaseEnds
  <2>2. CASE Paper!PrintPaper(j)
    BY <1>1, <2>2 DEF Paper!PrintPaper
  <2>. QED BY <2>1, <2>2
<1>4. JobSound(row) /\ JobKept(doc, row) /\ row.device = doc.device /\ row.status = doc.status
  <2>1. CASE Paper!LeaseEnds(j)
    <3> DEFINE phase == IF doc.claims[doc.token] = "working" THEN "gone" ELSE "printed"
    <3>1. IsJob(row) /\ SameJob(doc, row)
      BY <1>1, <1>2, <2>1 DEF Paper!LeaseEnds, Paper!Job, IsJob, SameJob
    <3>2. row.status = doc.status /\ row.token = doc.token /\ row.lease = "late"
      BY <1>1, <1>2, <2>1 DEF Paper!LeaseEnds, Paper!Job
    <3>3. row.claims = [doc.claims EXCEPT ![doc.token] =
                          IF @ = "working" THEN "gone" ELSE @]
      BY <1>1, <1>2, <2>1 DEF Paper!LeaseEnds, Paper!Job
    <3>4. row.claims = [doc.claims EXCEPT ![doc.token] = phase]
      BY <1>2, <3>3
    <3>. QED BY <1>1, <3>1, <3>2, <3>4, PaperPhase DEF SameJob
  <2>2. CASE Paper!PrintPaper(j)
    <3>1. IsJob(row) /\ SameJob(doc, row)
      BY <1>1, <1>2, <2>2 DEF Paper!PrintPaper, Paper!Job, IsJob, SameJob
    <3>2. row.status = doc.status /\ row.token = doc.token /\ row.lease = "held"
      BY <1>1, <1>2, <2>2 DEF Paper!PrintPaper, Paper!Job
    <3>3. row.claims = [doc.claims EXCEPT ![doc.token] = "printed"]
      BY <1>1, <1>2, <2>2 DEF Paper!PrintPaper, Paper!Job
    <3>. QED BY <1>1, <3>1, <3>2, <3>3, PaperPhase DEF SameJob
  <2>. QED BY <2>1, <2>2
<1> HIDE DEF row
<1>5. JobPlaced(row)
  BY <1>1, <1>4 DEF JobPlaced, JobKept
<1>. QED BY <1>1, <1>3, <1>4, <1>5, PaperRowStep

\* What an agent says it has printed was printed by the last claim.
LEMMA PaperCompleteStep ==
  ASSUME PaperInv, NEW j \in DOMAIN jobs, NEW t \in DOMAIN jobs[j].claims, Paper!CompleteJob(j, t)
  PROVE  PaperInv'
<1> DEFINE doc == jobs[j]
           row == [doc EXCEPT !.status = "PRINTED", !.lease = "none"]
<1>1. /\ JobSound(doc) /\ doc \in Paper!Job /\ JobPlaced(doc) /\ doc.claims[t] = "printed"
      /\ jobs' = [jobs EXCEPT ![j] = [@ EXCEPT !.status = "PRINTED", !.lease = "none"]]
      /\ UNCHANGED <<device, station, lines, invoice, chosen>>
      /\ doc.status \in {"PROCESSING", "REQUIRES_REVIEW"}
  BY DEF PaperInv, PaperPlaced, JobSound, Paper!CompleteJob
<1>2. /\ row \in Paper!Job /\ row.kind = doc.kind /\ row.status = "PRINTED"
      /\ row.device = doc.device /\ row.lease = "none" /\ row.token = doc.token
      /\ row.items = doc.items /\ row.of = doc.of /\ row.claims = doc.claims
  BY <1>1 DEF Paper!Job, Paper!JobStatus
<1>3. jobs' = [jobs EXCEPT ![j] = row]
  BY <1>1
<1>4. \A k \in DOMAIN doc.claims : doc.claims[k] # "working"
  <2>1. Len(doc.claims) \in Nat /\ DOMAIN doc.claims = 1..Len(doc.claims)
    BY <1>1, PaperJob
  <2>2. t = Len(doc.claims) /\ \A k \in DOMAIN doc.claims : k < t => doc.claims[k] = "gone"
    BY <1>1, <2>1 DEF JobSound
  <2>. QED BY <1>1, <2>1, <2>2
<1> HIDE DEF row
<1>5. JobSound(row)
  <2>1. row.token <= Len(row.claims)
    BY <1>1, <1>2 DEF JobSound
  <2>. QED BY <1>1, <1>2, <1>4, <2>1, PaperWritten
<1>6. JobKept(doc, row) /\ JobPlaced(row)
  BY <1>1, <1>2 DEF JobKept, JobPlaced
<1>. QED BY <1>1, <1>3, <1>5, <1>6, PaperRowStep

\* What an operator finds: paper, or none.
LEMMA PaperResolveStep ==
  ASSUME PaperInv, NEW j \in DOMAIN jobs, Paper!ResolveJob(j)
  PROVE  PaperInv'
<1> DEFINE doc == jobs[j]
           found == Paper!Papers(doc) > 0
           row == [doc EXCEPT !.status = IF found THEN "PRINTED" ELSE "FAILED", !.token = 0]
<1>1. /\ JobSound(doc) /\ doc \in Paper!Job /\ JobPlaced(doc) /\ doc.status = "REQUIRES_REVIEW"
      /\ jobs' = [jobs EXCEPT ![j] = row]
      /\ UNCHANGED <<device, station, lines, invoice, chosen>>
  BY DEF PaperInv, PaperPlaced, JobSound, Paper!ResolveJob
<1>2. found <=> \E t \in DOMAIN doc.claims : doc.claims[t] = "printed"
  <2> DEFINE S == {t \in DOMAIN doc.claims : doc.claims[t] = "printed"}
  <2>1. S \in SUBSET (1..Len(doc.claims)) /\ Len(doc.claims) \in Nat
    BY <1>1, PaperJob
  <2>2. IsFiniteSet(S) /\ Cardinality(S) \in Nat
    BY <2>1, UptoCount
  <2>3. Cardinality(S) = 0 <=> S = {}
    BY <2>2, FS_EmptySet
  <2>4. Paper!Cardinality(S) = Cardinality(S)
    BY PaperSums
  <2>. QED BY <2>2, <2>3, <2>4 DEF Paper!Papers
<1> HIDE DEF found
<1>3. /\ row \in Paper!Job /\ row.kind = doc.kind
      /\ row.status = IF found THEN "PRINTED" ELSE "FAILED"
      /\ row.device = doc.device /\ row.lease = doc.lease /\ row.token = 0
      /\ row.items = doc.items /\ row.of = doc.of /\ row.claims = doc.claims
  <2>1. 0 \in 0..MaxClaims
    BY PaperNumbers
  <2> DEFINE status == IF found THEN "PRINTED" ELSE "FAILED"
  <2>2. status \in Paper!JobStatus
    BY DEF Paper!JobStatus
  <2> HIDE DEF status
  <2>3. \A s \in Paper!JobStatus : LET r == [doc EXCEPT !.status = s, !.token = 0] IN
          /\ r \in Paper!Job /\ r.kind = doc.kind /\ r.status = s /\ r.device = doc.device
          /\ r.lease = doc.lease /\ r.token = 0 /\ r.items = doc.items
          /\ r.of = doc.of /\ r.claims = doc.claims
    BY <1>1, <2>1 DEF Paper!Job
  <2>4. row = [doc EXCEPT !.status = status, !.token = 0]
    BY DEF status
  <2> HIDE DEF row
  <2>5. /\ row \in Paper!Job /\ row.kind = doc.kind /\ row.status = status
        /\ row.device = doc.device /\ row.lease = doc.lease /\ row.token = 0
        /\ row.items = doc.items /\ row.of = doc.of /\ row.claims = doc.claims
    BY <2>2, <2>3, <2>4
  <2>. QED BY <2>5 DEF status
<1> HIDE DEF row
<1>4. JobSound(row)
  <2>1. Len(doc.claims) \in Nat
    BY <1>1, PaperJob
  <2>2. doc.lease = "none" /\ \A k \in DOMAIN doc.claims : doc.claims[k] # "working"
    BY <1>1, PaperJob DEF JobSound
  <2>. QED BY <1>1, <1>2, <1>3, <2>1, <2>2, PaperWritten
<1>5. JobKept(doc, row) /\ JobPlaced(row)
  BY <1>1, <1>3 DEF JobKept, JobPlaced
<1>. QED BY <1>1, <1>4, <1>5, PaperRowStep

\* A doc that waits or failed is tried again, on a printer that may have it.
LEMMA PaperRetryStep ==
  ASSUME PaperInv, NEW j \in DOMAIN jobs, NEW d \in Devices \cup {NoDevice}, Paper!RetryJob(j, d)
  PROVE  PaperInv'
<1> DEFINE doc == jobs[j]
           items == IF doc.kind = "ticket" THEN Paper!Without(doc.items, Paper!Cancelled) ELSE doc.items
           row == [doc EXCEPT !.status = "PENDING", !.device = d, !.attempts = 0,
                              !.items = items]
<1>1. /\ JobSound(doc) /\ doc \in Paper!Job /\ Paper!Unclaimed(doc)
      /\ d # NoDevice => Paper!Compatible(d, doc.kind)
      /\ jobs' = [jobs EXCEPT ![j] = row]
      /\ UNCHANGED <<device, station, lines, invoice, chosen>>
  BY DEF PaperInv, JobSound, Paper!RetryJob
<1>2. items \in [Paper!LineIds -> Nat]
  BY <1>1, PaperJob DEF Paper!Without
<1>3. /\ row \in Paper!Job /\ row.kind = doc.kind /\ row.status = "PENDING" /\ row.device = d
      /\ row.lease = doc.lease /\ row.token = doc.token /\ row.items = items
      /\ row.of = doc.of /\ row.claims = doc.claims
  <2> HIDE DEF items
  <2>1. 0 \in 0..MaxAttempts
    BY PaperNumbers
  <2>. QED BY <1>1, <1>2, <2>1 DEF Paper!Job, Paper!JobStatus
<1>4. JobSound(row)
  <2> HIDE DEF row
  <2>1. doc.lease = "none" /\ row.token <= Len(row.claims)
    BY <1>1, <1>3, PaperJob DEF JobSound, Paper!Unclaimed
  <2>2. \A t \in DOMAIN doc.claims : doc.claims[t] # "working" /\ doc.claims[t] # "printed"
    BY <1>1, <2>1, PaperJob DEF JobSound, Paper!Unclaimed
  <2>. QED BY <1>1, <1>3, <2>1, <2>2, PaperWritten
<1>5. JobKept(doc, row)
  <2> HIDE DEF row
  <2>. QED BY <1>3 DEF JobKept
<1>6. JobPlaced(row)
  <2> HIDE DEF row
  <2>. QED BY <1>1, <1>3 DEF JobPlaced, Paper!Compatible, Paper!Active
<1> HIDE DEF row
<1>. QED BY <1>1, <1>4, <1>5, <1>6, PaperRowStep

\* An agent says that nothing came out, or that it cannot tell.
LEMMA PaperFailStep ==
  ASSUME PaperInv, NEW j \in DOMAIN jobs, NEW t \in DOMAIN jobs[j].claims,
         NEW outcome \in {"NOT_PRINTED", "UNKNOWN"}, Paper!FailJob(j, t, outcome)
  PROVE  PaperInv'
<1> DEFINE doc == jobs[j]
           row == jobs'[j]
           new == [doc.claims EXCEPT ![t] = IF @ = "working" THEN "gone" ELSE @]
           mid == [kind |-> doc.kind, status |-> doc.status, device |-> doc.device,
                   attempts |-> doc.attempts, lease |-> "late", token |-> doc.token,
                   items |-> doc.items, of |-> doc.of, claims |-> new]
           made == [jobs EXCEPT ![j].claims[t] = IF @ = "working" THEN "gone" ELSE @]
           kept == made[j]
           items == IF doc.kind = "ticket" THEN Paper!Without(doc.items, Paper!Cancelled) ELSE doc.items
<1>1. /\ JobSound(doc) /\ doc \in Paper!Job /\ JobPlaced(doc) /\ jobs \in Seq(Paper!Job)
      /\ doc.lease = "held" /\ doc.status = "PROCESSING" /\ doc.token = t
      /\ doc.claims[t] = "printed" => outcome = "UNKNOWN"
      /\ jobs' = IF outcome = "UNKNOWN" THEN [made EXCEPT ![j] = Paper!Recovered(@)]
                 ELSE [made EXCEPT ![j] = Paper!NotPrinted(@)]
      /\ UNCHANGED <<device, station, lines, invoice, chosen>>
  BY DEF PaperInv, PaperPlaced, JobSound, Paper!FailJob, Paper!TypeOK, Paper!HoldsLease
<1>2. /\ doc.claims \in Seq(Paper!Phase) /\ t \in DOMAIN doc.claims
      /\ doc.claims[t] \in {"working", "printed"}
  BY <1>1, PaperJob DEF JobSound, Paper!Phase
<1>3. /\ IsJob(kept) /\ SameJob(doc, kept) /\ kept.token = t
      /\ kept.claims = new
  BY <1>1, <1>2 DEF Paper!Job, IsJob, SameJob
<1>4. /\ jobs' = [jobs EXCEPT ![j] = row]
      /\ row = IF outcome = "UNKNOWN" THEN Paper!Recovered(kept) ELSE Paper!NotPrinted(kept)
  <2> DEFINE then == IF outcome = "UNKNOWN" THEN Paper!Recovered(kept) ELSE Paper!NotPrinted(kept)
  <2>1. jobs' = [made EXCEPT ![j] = then]
    BY <1>1
  <2>2. made = [jobs EXCEPT ![j] = kept]
    BY <1>1
  <2> HIDE DEF made, then
  <2>3. jobs' = [jobs EXCEPT ![j] = then]
    BY <1>1, <2>1, <2>2
  <2>. QED BY <2>3 DEF then
<1>5. /\ IsJob(mid) /\ SameJob(doc, mid) /\ mid.status = "PROCESSING" /\ mid.token = t
      /\ mid.lease = "late" /\ mid.claims = new
  <2> HIDE DEF new
  <2>. QED BY <1>1 DEF IsJob, SameJob
<1> HIDE DEF kept, made
<1>6. JobSound(mid)
  <2> DEFINE phase == IF doc.claims[t] = "working" THEN "gone" ELSE "printed"
  <2>1. mid.claims = [doc.claims EXCEPT ![t] = phase]
    BY <1>2, <1>5
  <2>2. phase \in {"gone", "printed"} /\ (doc.claims[t] = "printed" => phase = "printed")
    OBVIOUS
  <2> HIDE DEF mid, phase
  <2>. QED BY <1>1, <1>5, <2>1, <2>2, PaperPhase
<1>7. \A k \in DOMAIN mid.claims :
        /\ mid.claims[k] # "working"
        /\ outcome = "NOT_PRINTED" => mid.claims[k] # "printed"
  <2>1. \A k \in DOMAIN mid.claims : mid.claims[k] # "working"
    <3> HIDE DEF mid
    <3>. QED BY <1>5, <1>6 DEF JobSound
  <2>2. \A k \in DOMAIN doc.claims : k = t \/ doc.claims[k] = "gone"
    BY <1>1, PaperJob DEF JobSound
  <2>3. doc.claims[t] = "working" => mid.claims[t] = "gone"
    <3> HIDE DEF mid
    <3>. QED BY <1>2, <1>5
  <2>. QED BY <1>1, <1>2, <1>5, <2>1, <2>2, <2>3
<1>8. items \in [Paper!LineIds -> Nat]
  BY <1>1, PaperJob DEF Paper!Without
<1>9. CASE outcome = "UNKNOWN"
  <2>1. /\ row.kind = doc.kind /\ row.items = doc.items /\ row.of = doc.of
        /\ row.status = "REQUIRES_REVIEW" /\ row.device = doc.device /\ row.lease = "none"
        /\ row.token = t /\ row.claims = mid.claims /\ row.attempts = doc.attempts
        /\ IsJob(row)
    <3>1. mid.claims = kept.claims
      BY <1>3, <1>5
    <3> HIDE DEF mid
    <3>. QED BY <1>3, <1>4, <1>9, <3>1 DEF Paper!Recovered, IsJob, SameJob
  <2>2. row \in Paper!Job
    <3> HIDE DEF mid
    <3>1. mid.claims \in Seq(Paper!Phase)
      BY <1>6, PaperJob
    <3> HIDE DEF row
    <3>. QED BY <1>1, <2>1, <3>1 DEF Paper!Job, IsJob, Paper!JobStatus
  <2>3. JobSound(row)
    <3> HIDE DEF mid, row
    <3>1. row.token <= Len(row.claims)
      BY <1>5, <1>6, <2>1 DEF JobSound
    <3>. QED BY <1>5, <1>6, <1>7, <2>1, <2>2, <3>1, PaperWritten DEF SameJob
  <2>4. JobKept(doc, row) /\ JobPlaced(row)
    <3> HIDE DEF row
    <3>. QED BY <1>1, <2>1 DEF JobKept, JobPlaced
  <2> HIDE DEF row
  <2>. QED BY <1>1, <1>4, <2>3, <2>4, PaperRowStep
<1>10. CASE outcome = "NOT_PRINTED"
  <2> DEFINE status == IF doc.kind = "ticket" /\ items = Paper!NoItems THEN "CANCELLED"
                       ELSE IF doc.attempts >= MaxAttempts THEN "FAILED" ELSE "PENDING"
  <2>1. /\ row.kind = doc.kind /\ row.items = items /\ row.of = doc.of
        /\ row.status = status /\ row.device = doc.device /\ row.lease = "none"
        /\ row.token = 0 /\ row.claims = mid.claims /\ row.attempts = doc.attempts
        /\ IsJob(row)
    <3>1. mid.claims = kept.claims
      BY <1>3, <1>5
    <3>2. row = [kept EXCEPT !.items = items, !.lease = "none", !.token = 0,
                             !.status = status]
      BY <1>3, <1>4, <1>10 DEF Paper!NotPrinted, SameJob
    <3> HIDE DEF mid, row, items, status
    <3>. QED BY <1>3, <3>1, <3>2 DEF IsJob, SameJob
  <2>2. status \in {"CANCELLED", "FAILED", "PENDING"}
    OBVIOUS
  <2>3. row \in Paper!Job
    <3> HIDE DEF mid
    <3>1. 0 \in 0..MaxClaims /\ mid.claims \in Seq(Paper!Phase)
      BY <1>6, PaperJob, PaperNumbers
    <3> HIDE DEF mid, row, items, status
    <3>. QED BY <1>1, <1>8, <2>1, <2>2, <3>1 DEF Paper!Job, IsJob, Paper!JobStatus
  <2>4. JobSound(row)
    <3>1. Len(mid.claims) \in Nat
      BY <1>6, PaperJob
    <3>2. row.kind = "ticket" /\ row.status = "CANCELLED" => row.items = Paper!NoItems
      BY <2>1
    <3> HIDE DEF mid, row, items, status
    <3>. QED BY <1>5, <1>6, <1>7, <1>10, <2>1, <2>2, <2>3, <3>1, <3>2,
       PaperWritten DEF SameJob
  <2>5. JobKept(doc, row)
    <3> HIDE DEF row, status
    <3>. QED BY <1>1, <2>1 DEF JobKept
  <2>6. JobPlaced(row)
    <3> HIDE DEF row, status
    <3>. QED BY <1>1, <2>1, <2>2 DEF JobPlaced
  <2> HIDE DEF row
  <2>. QED BY <1>1, <1>4, <2>4, <2>5, <2>6, PaperRowStep
<1>. QED BY <1>9, <1>10

\* A doc is given to an agent: a new claim, after the old ones came to nothing.
LEMMA PaperClaimed ==
  ASSUME NEW doc, JobSound(doc), doc.status = "PENDING", doc.attempts < MaxAttempts,
         Len(doc.claims) < MaxClaims
  PROVE  LET row == [doc EXCEPT !.status = "PROCESSING", !.lease = "held",
                       !.attempts = @ + 1, !.token = Len(doc.claims) + 1,
                       !.claims = Append(@, "working")] IN
         /\ JobSound(row) /\ JobKept(doc, row) /\ row.device = doc.device
         /\ row.status = "PROCESSING"
<1> DEFINE new == Append(doc.claims, "working")
           n == Len(doc.claims) + 1
           tries == doc.attempts + 1
           row == [doc EXCEPT !.status = "PROCESSING", !.lease = "held",
                     !.attempts = @ + 1, !.token = n, !.claims = Append(@, "working")]
<1>1. /\ doc \in Paper!Job /\ doc.claims \in Seq(Paper!Phase) /\ Len(doc.claims) \in Nat
      /\ DOMAIN doc.claims = 1..Len(doc.claims)
      /\ \A t \in DOMAIN doc.claims : doc.claims[t] = "gone"
  <2>1. \A t \in DOMAIN doc.claims : doc.claims[t] \in Paper!Phase
    BY PaperJob
  <2>. QED BY <2>1, PaperJob DEF JobSound, Paper!Phase
<1>2. /\ new \in Seq(Paper!Phase) /\ Len(new) = n /\ DOMAIN new = 1..n /\ new[n] = "working"
      /\ \A t \in DOMAIN doc.claims : new[t] = doc.claims[t]
  BY <1>1 DEF Paper!Phase
<1>3. n \in 0..MaxClaims /\ n > 0 /\ tries \in 0..MaxAttempts
  BY <1>1, PaperNumbers, PaperJob
<1>4. row = [doc EXCEPT !.status = "PROCESSING", !.lease = "held", !.attempts = tries,
                        !.token = n, !.claims = new]
  BY <1>1 DEF Paper!Job
<1> HIDE DEF new, n, tries
<1>5. /\ row \in Paper!Job /\ row.kind = doc.kind /\ row.status = "PROCESSING"
      /\ row.device = doc.device /\ row.lease = "held" /\ row.token = n
      /\ row.items = doc.items /\ row.of = doc.of /\ row.claims = new
  <2> HIDE DEF row
  <2>. QED BY <1>1, <1>2, <1>3, <1>4 DEF Paper!Job, Paper!JobStatus
<1> HIDE DEF row
<1>6. \A t \in DOMAIN new : /\ t < Len(new) => new[t] = "gone"
                            /\ new[t] # "printed"
  <2>1. \A t \in 1..n : t \in DOMAIN doc.claims \/ t = n
    BY <1>1 DEF n
  <2>2. n \in Int
    BY <1>3
  <2>. QED BY <1>1, <1>2, <2>1, <2>2
<1>7. JobSound(row)
  <2>1. n \in Nat /\ ~(new[n] = "gone") /\ n <= n
    BY <1>2, <1>3
  <2>. QED BY <1>2, <1>3, <1>5, <1>6, <2>1 DEF JobSound
<1>8. JobKept(doc, row)
  BY <1>5 DEF JobKept
<1>. QED BY <1>5, <1>7, <1>8 DEF row, n

LEMMA PaperClaimStep ==
  ASSUME PaperInv, NEW d \in Devices, Paper!ClaimJobs(d)
  PROVE  PaperInv'
<1> DEFINE rows == Paper!RecoverExpiredJobs(jobs, {d})
<1>1. PICK j \in DOMAIN rows :
        /\ rows[j].device = d /\ rows[j].status = "PENDING" /\ rows[j].attempts < MaxAttempts
        /\ Len(jobs[j].claims) < MaxClaims
        /\ jobs' = [rows EXCEPT ![j].status = "PROCESSING", ![j].lease = "held",
                      ![j].attempts = @ + 1, ![j].token = Len(jobs[j].claims) + 1,
                      ![j].claims = Append(@, "working")]
        /\ UNCHANGED <<device, station, lines, invoice, chosen>> /\ Paper!Active(d)
  BY DEF Paper!ClaimJobs
<1>2. /\ rows = [k \in DOMAIN jobs |-> rows[k]]
      /\ \A k \in DOMAIN jobs :
              /\ JobSound(rows[k]) /\ JobKept(jobs[k], rows[k]) /\ rows[k].device = jobs[k].device
              /\ rows[k] = jobs[k]
                   \/ (jobs[k].status = "PROCESSING" /\ rows[k].status = "REQUIRES_REVIEW")
              /\ rows[k].claims = jobs[k].claims
  BY PaperRecoveredAll
<1> HIDE DEF rows
<1> DEFINE row == [jobs[j] EXCEPT !.status = "PROCESSING", !.lease = "held",
                     !.attempts = @ + 1, !.token = Len(jobs[j].claims) + 1,
                     !.claims = Append(@, "working")]
<1>3. j \in DOMAIN jobs /\ rows[j] = jobs[j] /\ DOMAIN rows = DOMAIN jobs
  BY <1>1, <1>2
<1>4. jobs[j] \in Paper!Job /\ JobSound(jobs[j])
  BY <1>2, <1>3 DEF JobSound
<1>5. /\ jobs' = [k \in DOMAIN jobs |-> jobs'[k]]
      /\ \A k \in DOMAIN jobs \ {j} : jobs'[k] = rows[k]
      /\ jobs'[j] = row
  BY <1>1, <1>2, <1>3, <1>4 DEF Paper!Job
<1>6. /\ JobSound(row) /\ JobKept(jobs[j], row) /\ row.device = jobs[j].device
      /\ row.status = "PROCESSING"
  BY <1>1, <1>3, <1>4, PaperClaimed
<1> HIDE DEF row
<1>7. \A k \in DOMAIN jobs : JobSound(jobs'[k]) /\ JobKept(jobs[k], jobs'[k])
  BY <1>2, <1>5, <1>6
<1>8. \A k \in DOMAIN jobs : JobPlaced(jobs'[k])
  <2>1. ASSUME NEW k \in DOMAIN jobs, k # j PROVE JobPlaced(rows[k])
    BY <1>2, <2>1 DEF PaperInv, PaperPlaced, JobPlaced, JobKept
  <2>2. JobPlaced(row)
    BY <1>1, <1>3, <1>6 DEF PaperInv, PaperPlaced, JobPlaced, JobKept
  <2>. QED BY <1>5, <2>1, <2>2
<1>9. PaperPlaced'
  <2>1. DOMAIN jobs' = DOMAIN jobs /\ UNCHANGED <<device, station, chosen>>
    BY <1>1, <1>5
  <2> HIDE <1>1
  <2>. QED BY <1>8, <2>1 DEF PaperInv, PaperPlaced, Paper!Defaults, Paper!Compatible,
     Paper!Active, JobPlaced
<1>. QED BY <1>1, <1>5, <1>7, <1>9, PaperRowsStep DEF PaperInv, Paper!TypeOK

-----------------------------------------------------------------------------
(* Printers and what waits for them.                                       *)

\* A new row of a printer: the default is one, on, and prints receipts.
LEMMA PaperDevice ==
  ASSUME PaperInv, NEW d \in Devices, NEW row \in Paper!Device,
         row.row \in {"ACTIVE", "INACTIVE"},
         row.isDefault => row.row = "ACTIVE" /\ row.type = "RECEIPT",
         device' = Paper!WithDevice(d, row)
  PROVE  /\ device' \in [Devices -> Paper!Device] /\ device'[d] = row
         /\ \A e \in Devices \ {d} : /\ device'[e].row = device[e].row
                                     /\ device'[e].type = device[e].type
                                     /\ device'[e].isDefault = (device[e].isDefault /\ ~row.isDefault)
         /\ \A e, f \in Paper!Defaults' : e = f
         /\ \A e \in Paper!Defaults' : device'[e].row = "ACTIVE" /\ device'[e].type = "RECEIPT"
<1>1. device \in [Devices -> Paper!Device]
  BY DEF PaperInv, Paper!TypeOK
<1>2. device'[d] = row /\ DOMAIN device' = Devices /\ device' = [e \in Devices |-> device'[e]]
  BY DEF Paper!WithDevice
<1>3. ASSUME NEW e \in Devices, e # d
      PROVE  /\ device'[e] \in Paper!Device /\ device'[e].row = device[e].row
             /\ device'[e].type = device[e].type
             /\ device'[e].isDefault = (device[e].isDefault /\ ~row.isDefault)
  <2>1. CASE row.isDefault
    <3>1. device'[e] = [device[e] EXCEPT !.isDefault = FALSE]
      BY <1>3, <2>1 DEF Paper!WithDevice
    <3>2. device'[e] \in Paper!Device /\ device'[e].row = device[e].row /\ device'[e].type = device[e].type
      BY <1>1, <3>1 DEF Paper!Device
    <3>3. device'[e].isDefault = FALSE
      BY <1>1, <3>1 DEF Paper!Device
    <3>. QED BY <2>1, <3>2, <3>3
  <2>2. CASE ~row.isDefault
    <3>1. device'[e] = device[e]
      BY <1>3, <2>2 DEF Paper!WithDevice
    <3>2. device[e].isDefault \in BOOLEAN
      BY <1>1 DEF Paper!Device
    <3>. QED BY <1>1, <2>2, <3>1, <3>2
  <2>. QED BY <2>1, <2>2
<1>4. \A e, f \in Paper!Defaults : e = f
  BY DEF PaperInv, PaperPlaced
<1>5. \A e \in Paper!Defaults : device[e].row = "ACTIVE" /\ device[e].type = "RECEIPT"
  BY DEF PaperInv, PaperPlaced, Paper!Compatible, Paper!Active, Paper!ExpectedType,
     Paper!Kitchen
<1>6. ASSUME NEW e \in Paper!Defaults'
      PROVE  \/ e = d /\ row.isDefault
             \/ e # d /\ e \in Paper!Defaults /\ ~row.isDefault
  <2>1. e \in Devices /\ device'[e].isDefault
    BY DEF Paper!Defaults
  <2>2. CASE e = d
    BY <1>2, <2>1, <2>2
  <2>3. CASE e # d
    <3>1. device'[e].isDefault = (device[e].isDefault /\ ~row.isDefault)
      BY <1>3, <2>1, <2>3
    <3>2. device[e].isDefault /\ ~row.isDefault
      BY <2>1, <3>1
    <3>. QED BY <2>1, <2>3, <3>2 DEF Paper!Defaults
  <2>. QED BY <2>2, <2>3
<1>7. \A e \in Paper!Defaults' : device'[e].row = "ACTIVE" /\ device'[e].type = "RECEIPT"
  <2> SUFFICES ASSUME NEW e \in Paper!Defaults' PROVE device'[e].row = "ACTIVE" /\ device'[e].type = "RECEIPT"
    OBVIOUS
  <2>1. e \in Devices
    BY DEF Paper!Defaults
  <2>2. CASE e = d /\ row.isDefault
    BY <1>2, <2>2
  <2>3. CASE e # d /\ e \in Paper!Defaults
    BY <1>3, <1>5, <2>1, <2>3
  <2>. QED BY <1>6, <2>2, <2>3
<1>8. \A e, f \in Paper!Defaults' : e = f
  BY <1>4, <1>6
<1>. QED BY <1>2, <1>3, <1>7, <1>8

\* A waiting doc goes to another printer, or to none.
LEMMA PaperMoved ==
  ASSUME NEW doc, JobSound(doc), doc.status = "PENDING", NEW e \in Devices \cup {NoDevice}
  PROVE  LET row == [doc EXCEPT !.device = e] IN
         /\ JobSound(row) /\ row.device = e /\ row.kind = doc.kind /\ row.status = "PENDING"
         /\ \A base : JobKept(base, doc) => JobKept(base, row)
<1> DEFINE row == [doc EXCEPT !.device = e]
<1>1. doc \in Paper!Job
  BY DEF JobSound
<1>2. /\ row \in Paper!Job /\ row.kind = doc.kind /\ row.status = doc.status /\ row.device = e
      /\ row.lease = doc.lease /\ row.token = doc.token /\ row.items = doc.items
      /\ row.of = doc.of /\ row.claims = doc.claims
  BY <1>1 DEF Paper!Job
<1> HIDE DEF row
<1>3. JobSound(row)
  BY <1>2 DEF JobSound
<1>4. \A base : JobKept(base, doc) => JobKept(base, row)
  BY <1>2 DEF JobKept
<1>. QED BY <1>2, <1>3, <1>4 DEF row

\* The rows of the jobs once expired leases were taken back, or as they are.
JobsLaid(rows) ==
  /\ rows = [j \in DOMAIN jobs |-> rows[j]]
  /\ \A j \in DOMAIN jobs :
       /\ JobSound(rows[j]) /\ JobKept(jobs[j], rows[j]) /\ rows[j].device = jobs[j].device
       /\ rows[j] = jobs[j]
            \/ (jobs[j].status = "PROCESSING" /\ rows[j].status = "REQUIRES_REVIEW")
LEMMA PaperLaid ==
  ASSUME PaperInv
  PROVE  JobsLaid(jobs) /\ \A ds : JobsLaid(Paper!RecoverExpiredJobs(jobs, ds))
<1>1. jobs = [j \in DOMAIN jobs |-> jobs[j]]
  BY DEF PaperInv, Paper!TypeOK
<1>2. \A j \in DOMAIN jobs : JobKept(jobs[j], jobs[j]) /\ JobSound(jobs[j])
  BY DEF PaperInv, JobKept
<1>3. ASSUME NEW ds PROVE JobsLaid(Paper!RecoverExpiredJobs(jobs, ds))
  <2> DEFINE rows == Paper!RecoverExpiredJobs(jobs, ds)
  <2>1. /\ rows = [j \in DOMAIN jobs |-> rows[j]]
        /\ \A j \in DOMAIN jobs :
              /\ JobSound(rows[j]) /\ JobKept(jobs[j], rows[j]) /\ rows[j].device = jobs[j].device
              /\ rows[j] = jobs[j]
                   \/ (jobs[j].status = "PROCESSING" /\ rows[j].status = "REQUIRES_REVIEW")
    BY PaperRecoveredAll
  <2> HIDE DEF rows
  <2>2. JobsLaid(rows)
    BY <2>1 DEF JobsLaid
  <2>. QED BY <2>2 DEF rows
<1>. QED BY <1>1, <1>2, <1>3 DEF JobsLaid

\* A step that changes printers, moves the waiting jobs S to e and leaves the
\* others where they may be.
JobsRearranged(rows, e, S) ==
  /\ UNCHANGED <<lines, invoice, chosen>>
  /\ device' \in [Devices -> Paper!Device] /\ station' \in Devices \cup {NoDevice}
  /\ JobsLaid(rows) /\ e \in Devices \cup {NoDevice}
  /\ jobs' = [j \in DOMAIN jobs |-> jobs'[j]]
  /\ \A j \in DOMAIN jobs :
       jobs'[j] = IF j \in S THEN [rows[j] EXCEPT !.device = e] ELSE rows[j]
  /\ \A j \in DOMAIN jobs : j \in S =>
       /\ rows[j].status = "PENDING"
       /\ e # NoDevice =>
            device'[e].row # "NONE" /\ device'[e].type = Paper!ExpectedType(rows[j].kind)
  /\ \A j \in DOMAIN jobs : j \notin S =>
       /\ rows[j].device # NoDevice =>
            /\ device'[rows[j].device].row # "NONE"
            /\ rows[j].kind # "receipt" =>
                 device'[rows[j].device].type = Paper!ExpectedType(rows[j].kind)
       /\ rows[j].status = "PROCESSING" =>
            rows[j].device \in Devices /\ device'[rows[j].device].row = "ACTIVE"
  /\ \A d, f \in Paper!Defaults' : d = f
  /\ \A d \in Paper!Defaults' : device'[d].row = "ACTIVE" /\ device'[d].type = "RECEIPT"
  /\ station' # NoDevice =>
       device'[station'].row # "NONE" /\ device'[station'].type = "KITCHEN"
  /\ chosen \in Devices => device'[chosen].row # "NONE"
LEMMA PaperDeviceStep ==
  ASSUME PaperInv, NEW rows, NEW e, NEW S, JobsRearranged(rows, e, S)
  PROVE  PaperInv'
<1>1. ASSUME NEW j \in DOMAIN jobs
      PROVE  /\ JobSound(jobs'[j]) /\ JobKept(jobs[j], jobs'[j])
             /\ jobs'[j].device # NoDevice =>
                  /\ device'[jobs'[j].device].row # "NONE"
                  /\ jobs'[j].kind # "receipt" =>
                       device'[jobs'[j].device].type = Paper!ExpectedType(jobs'[j].kind)
             /\ jobs'[j].status = "PROCESSING" =>
                  jobs'[j].device \in Devices /\ device'[jobs'[j].device].row = "ACTIVE"
  <2>0. JobSound(rows[j]) /\ JobKept(jobs[j], rows[j])
    BY DEF JobsLaid, JobsRearranged
  <2>1. CASE j \in S
    <3>1. /\ jobs'[j] = [rows[j] EXCEPT !.device = e] /\ rows[j].status = "PENDING"
          /\ e \in Devices \cup {NoDevice}
          /\ e # NoDevice =>
               device'[e].row # "NONE" /\ device'[e].type = Paper!ExpectedType(rows[j].kind)
      BY <2>1 DEF JobsRearranged
    <3> DEFINE row == [rows[j] EXCEPT !.device = e]
    <3>2. /\ JobSound(row) /\ row.device = e /\ row.kind = rows[j].kind
          /\ row.status = "PENDING"
          /\ \A base : JobKept(base, rows[j]) => JobKept(base, row)
      BY <2>0, <3>1, PaperMoved
    <3> HIDE DEF row
    <3>3. jobs'[j] = row
      BY <3>1 DEF row
    <3>4. JobKept(jobs[j], row)
      BY <2>0, <3>2
    <3>. QED BY <3>1, <3>2, <3>3, <3>4
  <2>2. CASE j \notin S
    BY <2>0, <2>2 DEF JobsRearranged
  <2>. QED BY <2>1, <2>2
<1>2. DOMAIN jobs' = DOMAIN jobs /\ jobs' = [j \in DOMAIN jobs |-> jobs'[j]]
  BY DEF JobsRearranged
<1>3. Paper!Defaults' \subseteq Devices
  BY DEF Paper!Defaults
<1>4. PaperPlaced'
  BY <1>1, <1>2, <1>3
  DEF PaperPlaced, JobPlaced, Paper!Active, Paper!Compatible, Paper!ExpectedType,
     Paper!Kitchen, JobsRearranged
<1>. QED BY <1>1, <1>2, <1>4, PaperRowsStep DEF JobsRearranged

\* What is where a printer was never registered: nothing.
LEMMA PaperCreateDevice ==
  ASSUME PaperInv, NEW d \in Devices, NEW type \in Paper!DeviceType,
         NEW asks \in {"unset", "yes", "no"}, Paper!CreateDevice(d, type, asks)
  PROVE  PaperInv'
<1> DEFINE isDefault == /\ type = "RECEIPT"
                        /\ asks = "yes" \/ (asks = "unset" /\ Paper!Defaults = {})
           row == [row |-> "ACTIVE", type |-> type, isDefault |-> isDefault]
           S == {j \in DOMAIN jobs :
                   isDefault /\ Paper!Unassigned(jobs[j]) /\ jobs[j].kind \notin Paper!Kitchen}
<1>1. /\ device[d].row = "NONE" /\ device' = Paper!WithDevice(d, row)
      /\ UNCHANGED <<station, lines, invoice, chosen>>
      /\ jobs' = IF isDefault THEN Paper!AssignPendingDefaultJobs(jobs, d) ELSE jobs
  BY DEF Paper!CreateDevice
<1>2. /\ row \in Paper!Device /\ row.row = "ACTIVE" /\ row.type = type
      /\ row.isDefault => row.type = "RECEIPT"
  BY DEF Paper!Device
<1>3. jobs = [j \in DOMAIN jobs |-> jobs[j]]
  BY DEF PaperInv, Paper!TypeOK
<1>4. /\ jobs' = [j \in DOMAIN jobs |-> jobs'[j]]
      /\ \A j \in DOMAIN jobs :
           jobs'[j] = IF j \in S THEN [jobs[j] EXCEPT !.device = d] ELSE jobs[j]
  <2>1. CASE isDefault
    BY <1>1, <2>1 DEF Paper!AssignPendingDefaultJobs
  <2>2. CASE ~isDefault
    BY <1>1, <1>3, <2>2
  <2>. QED BY <2>1, <2>2
<1>5. \A j \in DOMAIN jobs : j \in S =>
        jobs[j].status = "PENDING" /\ jobs[j].kind \notin Paper!Kitchen /\ type = "RECEIPT"
  BY DEF Paper!Unassigned
<1> HIDE DEF row, S, isDefault
<1>6. /\ device' \in [Devices -> Paper!Device] /\ device'[d] = row
      /\ \A e \in Devices \ {d} : /\ device'[e].row = device[e].row
                                  /\ device'[e].type = device[e].type
      /\ \A e, f \in Paper!Defaults' : e = f
      /\ \A e \in Paper!Defaults' : device'[e].row = "ACTIVE" /\ device'[e].type = "RECEIPT"
  BY <1>1, <1>2, PaperDevice
<1>7. \A j \in DOMAIN jobs : jobs[j].device \in Devices \cup {NoDevice} /\ jobs[j].device # d
  <2>1. \A j \in DOMAIN jobs : jobs[j].device \in Devices \cup {NoDevice}
    BY PaperJob DEF PaperInv
  <2>2. \A j \in DOMAIN jobs : jobs[j].device # d
    BY <1>1, PaperNumbers DEF PaperInv, PaperPlaced, JobPlaced
  <2>. QED BY <2>1, <2>2
<1>8. station # d /\ chosen # d /\ station \in Devices \cup {NoDevice}
  BY <1>1, PaperNumbers DEF PaperInv, PaperPlaced, Paper!TypeOK
<1>9. ASSUME NEW j \in DOMAIN jobs
      PROVE  /\ jobs[j].device # NoDevice =>
                  /\ device'[jobs[j].device].row # "NONE"
                  /\ jobs[j].kind # "receipt" =>
                       device'[jobs[j].device].type = Paper!ExpectedType(jobs[j].kind)
             /\ jobs[j].status = "PROCESSING" =>
                  jobs[j].device \in Devices /\ device'[jobs[j].device].row = "ACTIVE"
  <2>1. JobPlaced(jobs[j])
    BY DEF PaperInv, PaperPlaced
  <2>2. jobs[j].device # NoDevice =>
          /\ device'[jobs[j].device].row = device[jobs[j].device].row
          /\ device'[jobs[j].device].type = device[jobs[j].device].type
    BY <1>6, <1>7
  <2>. QED BY <2>1, <2>2, PaperNumbers DEF JobPlaced, Paper!Active
<1>10. station' # NoDevice =>
           device'[station'].row # "NONE" /\ device'[station'].type = "KITCHEN"
  BY <1>1, <1>6, <1>8 DEF PaperInv, PaperPlaced
<1>11. chosen \in Devices => device'[chosen].row # "NONE"
  BY <1>6, <1>8 DEF PaperInv, PaperPlaced
<1>12. \A j \in DOMAIN jobs : j \in S =>
         device'[d].row # "NONE" /\ device'[d].type = Paper!ExpectedType(jobs[j].kind)
  BY <1>2, <1>5, <1>6 DEF Paper!ExpectedType
<1>13. station' \in Devices \cup {NoDevice} /\ JobsLaid(jobs)
  BY <1>1, <1>8, PaperLaid
<1>14. JobsRearranged(jobs, d, S)
  BY <1>1, <1>4, <1>5, <1>6, <1>9, <1>10, <1>11, <1>12, <1>13 DEF JobsRearranged
<1>. QED BY <1>14, PaperDeviceStep


\* What a changed printer is: on unless it was switched off, and the default
\* only while it is on and prints receipts.
LEMMA PaperChangedRow ==
  ASSUME PaperInv, NEW d \in Devices, NEW dto \in Paper!DeviceChanges,
         device[d].row \in {"ACTIVE", "INACTIVE"}
  PROVE  LET row == Paper!ChangedRow(d, dto) IN
         /\ row \in Paper!Device /\ row.row \in {"ACTIVE", "INACTIVE"}
         /\ row.isDefault => row.row = "ACTIVE" /\ row.type = "RECEIPT"
         /\ device[d].row = "ACTIVE" /\ dto.active # "no" => row.row = "ACTIVE"
<1>1. dto.active \in {"yes", "no", "unset"} /\ dto.type \in Paper!DeviceType \cup {"unset"}
  BY DEF Paper!DeviceChanges
<1>2. device[d] \in Paper!Device
  BY DEF PaperInv, Paper!TypeOK
<1> DEFINE type == IF dto.type = "unset" THEN device[d].type ELSE dto.type
           isActive == dto.active = "yes" \/ (dto.active = "unset" /\ device[d].row = "ACTIVE")
           isDefault == /\ isActive /\ type = "RECEIPT"
                        /\ \/ dto.asks = "yes"
                           \/ /\ dto.asks = "unset" /\ type = device[d].type
                              /\ device[d].isDefault
           name == IF isActive THEN "ACTIVE" ELSE "INACTIVE"
<1>3. Paper!ChangedRow(d, dto) = [row |-> name, type |-> type, isDefault |-> isDefault]
  BY DEF Paper!ChangedRow
<1>4. type \in Paper!DeviceType /\ name \in {"ACTIVE", "INACTIVE"}
  BY <1>1, <1>2 DEF Paper!Device
<1>5. isDefault \in BOOLEAN /\ (isDefault => name = "ACTIVE" /\ type = "RECEIPT")
  OBVIOUS
<1>6. device[d].row = "ACTIVE" /\ dto.active # "no" => name = "ACTIVE"
  BY <1>1
<1> HIDE DEF name, type, isDefault
<1>. QED BY <1>3, <1>4, <1>5, <1>6 DEF Paper!Device

\* A printer is changed: not its kind while it has jobs, not off while one of
\* them is in an agent's hands.
LEMMA PaperUpdateDevice ==
  ASSUME PaperInv, NEW d \in Devices, NEW dto \in Paper!DeviceChanges, Paper!UpdateDevice(d, dto)
  PROVE  PaperInv'
<1> DEFINE row == Paper!ChangedRow(d, dto)
           off == dto.active = "no"
           rows == IF off THEN Paper!RecoverExpiredJobs(jobs, {d}) ELSE jobs
           e == IF off THEN NoDevice ELSE d
           S == IF off THEN {j \in DOMAIN jobs : rows[j].status = "PENDING" /\ rows[j].device = d}
                ELSE {j \in DOMAIN jobs :
                        row.isDefault /\ Paper!Unassigned(rows[j]) /\ rows[j].kind \notin Paper!Kitchen}
<1>1. /\ device[d].row \in {"ACTIVE", "INACTIVE"} /\ device' = Paper!WithDevice(d, row)
      /\ row.type # "KITCHEN" => station # d
      /\ row.type # device[d].type => \A j \in DOMAIN jobs : jobs[j].device # d
      /\ off => ~Paper!Leased(rows, d)
      /\ jobs' = IF off THEN Paper!DetachPending(rows, d)
                 ELSE IF row.isDefault THEN Paper!AssignPendingDefaultJobs(rows, d) ELSE rows
      /\ UNCHANGED <<station, lines, invoice, chosen>>
  BY DEF Paper!UpdateDevice
<1>2. /\ row \in Paper!Device /\ row.row \in {"ACTIVE", "INACTIVE"}
      /\ row.isDefault => row.row = "ACTIVE" /\ row.type = "RECEIPT"
      /\ device[d].row = "ACTIVE" /\ ~off => row.row = "ACTIVE"
  BY <1>1, PaperChangedRow
<1> HIDE DEF row
<1>3. JobsLaid(rows)
  BY PaperLaid
<1> HIDE DEF rows
<1>4. /\ rows = [j \in DOMAIN jobs |-> rows[j]] /\ DOMAIN rows = DOMAIN jobs
      /\ \A j \in DOMAIN jobs :
           /\ rows[j].device = jobs[j].device /\ rows[j].kind = jobs[j].kind
           /\ rows[j].status = "PROCESSING" => rows[j] = jobs[j]
           /\ jobs[j].device \in Devices \cup {NoDevice}
  BY <1>3, PaperJob DEF JobsLaid, JobKept, PaperInv
<1>5. /\ jobs' = [j \in DOMAIN jobs |-> jobs'[j]]
      /\ \A j \in DOMAIN jobs :
           jobs'[j] = IF j \in S THEN [rows[j] EXCEPT !.device = e] ELSE rows[j]
  <2>1. CASE off
    BY <1>1, <1>4, <2>1 DEF Paper!DetachPending
  <2>2. CASE ~off /\ row.isDefault
    BY <1>1, <1>4, <2>2 DEF Paper!AssignPendingDefaultJobs
  <2>3. CASE ~off /\ ~row.isDefault
    BY <1>1, <1>4, <2>3
  <2>. QED BY <2>1, <2>2, <2>3
<1>6. /\ device' \in [Devices -> Paper!Device] /\ device'[d] = row
      /\ \A f \in Devices \ {d} : /\ device'[f].row = device[f].row
                                  /\ device'[f].type = device[f].type
      /\ \A f, g \in Paper!Defaults' : f = g
      /\ \A f \in Paper!Defaults' : device'[f].row = "ACTIVE" /\ device'[f].type = "RECEIPT"
  BY <1>1, <1>2, PaperDevice
<1>7. ASSUME NEW j \in DOMAIN jobs, j \in S
      PROVE  /\ rows[j].status = "PENDING"
             /\ e # NoDevice =>
                  device'[e].row # "NONE" /\ device'[e].type = Paper!ExpectedType(rows[j].kind)
  <2>1. CASE off
    BY <1>7, <2>1
  <2>2. CASE ~off
    <3>1. row.isDefault /\ Paper!Unassigned(rows[j]) /\ rows[j].kind \notin Paper!Kitchen /\ e = d
      BY <1>7, <2>2
    <3> HIDE DEF e
    <3>. QED BY <1>2, <1>6, <3>1 DEF Paper!Unassigned, Paper!ExpectedType
  <2>. QED BY <2>1, <2>2
<1>8. ASSUME NEW j \in DOMAIN jobs
      PROVE  /\ rows[j].device # NoDevice =>
                  /\ device'[rows[j].device].row # "NONE"
                  /\ rows[j].kind # "receipt" =>
                       device'[rows[j].device].type = Paper!ExpectedType(rows[j].kind)
             /\ rows[j].status = "PROCESSING" =>
                  rows[j].device \in Devices /\ device'[rows[j].device].row = "ACTIVE"
  <2>1. /\ JobPlaced(jobs[j]) /\ rows[j].device = jobs[j].device /\ rows[j].kind = jobs[j].kind
        /\ rows[j].status = "PROCESSING" => jobs[j].status = "PROCESSING"
    BY <1>4 DEF PaperInv, PaperPlaced
  <2>2. CASE jobs[j].device # d
    <3>1. jobs[j].device # NoDevice =>
            /\ device'[jobs[j].device].row = device[jobs[j].device].row
            /\ device'[jobs[j].device].type = device[jobs[j].device].type
      BY <1>4, <1>6, <2>2
    <3>. QED BY <2>1, <3>1, PaperNumbers DEF JobPlaced, Paper!Active
  <2>3. CASE jobs[j].device = d
    <3>1. row.type = device[d].type /\ d # NoDevice
      BY <1>1, <2>3, PaperNumbers
    <3>2. rows[j].status = "PROCESSING" => ~off
      BY <1>1, <1>4, <2>1, <2>3 DEF Paper!Leased
    <3>3. rows[j].status = "PROCESSING" => device[d].row = "ACTIVE"
      BY <2>1, <2>3 DEF JobPlaced, Paper!Active
    <3>. QED BY <1>2, <1>6, <2>1, <2>3, <3>1, <3>2, <3>3 DEF JobPlaced
  <2>. QED BY <2>2, <2>3
<1>9. station' # NoDevice =>
        device'[station'].row # "NONE" /\ device'[station'].type = "KITCHEN"
  <2>1. station' = station /\ station \in Devices \cup {NoDevice}
    BY <1>1 DEF PaperInv, Paper!TypeOK
  <2>2. row.type \in Paper!DeviceType
    BY <1>2 DEF Paper!Device
  <2>. QED BY <1>1, <1>2, <1>6, <2>1, <2>2 DEF PaperInv, PaperPlaced, Paper!DeviceType
<1>10. chosen \in Devices => device'[chosen].row # "NONE"
  BY <1>2, <1>6 DEF PaperInv, PaperPlaced
<1>11. station' \in Devices \cup {NoDevice} /\ e \in Devices \cup {NoDevice}
  BY <1>1 DEF PaperInv, Paper!TypeOK
<1> HIDE DEF S, e
<1>12. JobsRearranged(rows, e, S)
  BY <1>1, <1>3, <1>5, <1>6, <1>7, <1>8, <1>9, <1>10, <1>11 DEF JobsRearranged
<1>. QED BY <1>12, PaperDeviceStep

\* A printer is deleted once no agent has a doc of it.
LEMMA PaperDeleteDevice ==
  ASSUME PaperInv, NEW d \in Devices, Paper!DeleteDevice(d)
  PROVE  PaperInv'
<1> DEFINE rows == Paper!RecoverExpiredJobs(jobs, {d})
           S == {j \in DOMAIN jobs : rows[j].status = "PENDING" /\ rows[j].device = d}
<1>1. /\ ~Paper!Leased(rows, d) /\ jobs' = Paper!DetachPending(rows, d)
      /\ station' = IF station = d THEN NoDevice ELSE station
      /\ device' = [device EXCEPT ![d].row = "DELETED", ![d].isDefault = FALSE]
      /\ UNCHANGED <<lines, invoice, chosen>>
  BY DEF Paper!DeleteDevice
<1>3. JobsLaid(rows)
  BY PaperLaid
<1> HIDE DEF rows
<1>4. /\ rows = [j \in DOMAIN jobs |-> rows[j]] /\ DOMAIN rows = DOMAIN jobs
      /\ \A j \in DOMAIN jobs :
           /\ rows[j].device = jobs[j].device /\ rows[j].kind = jobs[j].kind
           /\ rows[j].status = "PROCESSING" => rows[j] = jobs[j]
           /\ jobs[j].device \in Devices \cup {NoDevice}
  BY <1>3, PaperJob DEF JobsLaid, JobKept, PaperInv
<1>5. /\ jobs' = [j \in DOMAIN jobs |-> jobs'[j]]
      /\ \A j \in DOMAIN jobs :
           jobs'[j] = IF j \in S THEN [rows[j] EXCEPT !.device = NoDevice] ELSE rows[j]
  BY <1>1, <1>4 DEF Paper!DetachPending
<1>6. /\ device' \in [Devices -> Paper!Device] /\ device'[d].row = "DELETED"
      /\ device'[d].type = device[d].type /\ ~device'[d].isDefault
      /\ \A f \in Devices \ {d} : device'[f] = device[f]
  BY <1>1 DEF PaperInv, Paper!TypeOK, Paper!Device
<1>7. \A f \in Paper!Defaults' : f \in Paper!Defaults /\ f # d /\ device'[f] = device[f]
  BY <1>6 DEF Paper!Defaults
<1>8. ASSUME NEW j \in DOMAIN jobs
      PROVE  /\ rows[j].device # NoDevice =>
                  /\ device'[rows[j].device].row # "NONE"
                  /\ rows[j].kind # "receipt" =>
                       device'[rows[j].device].type = Paper!ExpectedType(rows[j].kind)
             /\ rows[j].status = "PROCESSING" =>
                  rows[j].device \in Devices /\ device'[rows[j].device].row = "ACTIVE"
  <2>1. /\ JobPlaced(jobs[j]) /\ rows[j].device = jobs[j].device /\ rows[j].kind = jobs[j].kind
        /\ rows[j].status = "PROCESSING" => jobs[j].status = "PROCESSING"
    BY <1>4 DEF PaperInv, PaperPlaced
  <2>2. CASE jobs[j].device # d
    <3>1. jobs[j].device # NoDevice =>
            device'[jobs[j].device] = device[jobs[j].device]
      BY <1>4, <1>6, <2>2
    <3>. QED BY <2>1, <3>1, PaperNumbers DEF JobPlaced, Paper!Active
  <2>3. CASE jobs[j].device = d
    <3>1. rows[j].status # "PROCESSING"
      BY <1>1, <1>4, <2>1, <2>3 DEF Paper!Leased
    <3>. QED BY <1>6, <2>1, <2>3, <3>1, PaperNumbers DEF JobPlaced
  <2>. QED BY <2>2, <2>3
<1>9. /\ \A f, g \in Paper!Defaults' : f = g
      /\ \A f \in Paper!Defaults' : device'[f].row = "ACTIVE" /\ device'[f].type = "RECEIPT"
  BY <1>7 DEF PaperInv, PaperPlaced, Paper!Compatible, Paper!Active, Paper!ExpectedType,
     Paper!Kitchen
<1>10. /\ station' \in Devices \cup {NoDevice}
       /\ station' # NoDevice =>
            device'[station'].row # "NONE" /\ device'[station'].type = "KITCHEN"
  <2>1. station \in Devices \cup {NoDevice}
    BY DEF PaperInv, Paper!TypeOK
  <2>2. station' # NoDevice => station' = station /\ station \in Devices \ {d}
    BY <1>1, <2>1
  <2>. QED BY <1>1, <1>6, <2>1, <2>2 DEF PaperInv, PaperPlaced
<1>11. chosen \in Devices => device'[chosen].row # "NONE"
  BY <1>6 DEF PaperInv, PaperPlaced
<1>12. \A j \in DOMAIN jobs : j \in S => rows[j].status = "PENDING"
  OBVIOUS
<1> HIDE DEF S
<1>13. JobsRearranged(rows, NoDevice, S)
  BY <1>1, <1>3, <1>5, <1>6, <1>8, <1>9, <1>10, <1>11, <1>12 DEF JobsRearranged
<1>. QED BY <1>13, PaperDeviceStep

LEMMA PaperAssignStation ==
  ASSUME PaperInv, NEW d \in Devices \cup {NoDevice}, Paper!AssignStation(d)
  PROVE  PaperInv'
<1>1. /\ d # NoDevice => Paper!Compatible(d, "ticket")
      /\ station' = d /\ UNCHANGED <<device, lines, jobs, invoice, chosen>>
  BY DEF Paper!AssignStation
<1>2. PaperPlaced'
  BY <1>1 DEF PaperInv, PaperPlaced, JobPlaced, Paper!Active, Paper!Compatible,
     Paper!Defaults, Paper!ExpectedType,
    Paper!Kitchen
<1>3. jobs = [j \in DOMAIN jobs |-> jobs[j]] /\ device \in [Devices -> Paper!Device]
  BY DEF PaperInv, Paper!TypeOK
<1>4. \A j \in DOMAIN jobs : JobSound(jobs[j]) /\ JobKept(jobs[j], jobs[j])
  BY DEF PaperInv, JobKept
<1>. QED BY <1>1, <1>2, <1>3, <1>4, PaperRowsStep

-----------------------------------------------------------------------------
(* Receipts.                                                               *)

\* One more document that carries no line.
LEMMA PaperAppend ==
  ASSUME PaperInv, NEW row, JobSound(row), JobPlaced(row), row.items = Paper!NoItems,
         jobs' = Append(jobs, row), Paper!Room(1), UNCHANGED <<device, station, lines, invoice>>,
         chosen' \in {chosen, "idle"},
         row.kind = "receipt" => chosen # "idle" /\ chosen' = "idle"
  PROVE  PaperInv'
<1>1. /\ jobs \in Seq(Paper!Job) /\ Len(jobs) \in Nat /\ DOMAIN jobs = 1..Len(jobs) /\ row \in Paper!Job
      /\ Len(jobs) + 1 <= MaxJobs
  BY DEF PaperInv, Paper!TypeOK, JobSound, Paper!Room
<1>2. /\ jobs' \in Seq(Paper!Job) /\ Len(jobs') = Len(jobs) + 1 /\ DOMAIN jobs' = 1..(Len(jobs) + 1)
      /\ jobs'[Len(jobs) + 1] = row /\ \A j \in DOMAIN jobs : jobs'[j] = jobs[j]
  BY <1>1
<1>3. \A j \in DOMAIN jobs' : j \in DOMAIN jobs \/ (j = Len(jobs) + 1 /\ j \notin DOMAIN jobs)
  BY <1>1, <1>2
<1>4. Paper!TypeOK'
  BY <1>1, <1>2 DEF PaperInv, Paper!TypeOK
<1>5. \A j \in DOMAIN jobs' : JobSound(jobs'[j]) /\ JobPlaced(jobs'[j])
  BY <1>2, <1>3 DEF PaperInv, PaperPlaced
<1>6. PaperPlaced'
  <2>1. /\ PaperPlaced /\ UNCHANGED <<device, station>>
        /\ chosen' \in Devices => chosen' = chosen
    BY PaperNumbers DEF PaperInv
  <2>. QED BY <1>5, <2>1 DEF PaperPlaced, Paper!Defaults, Paper!Compatible, Paper!Active,
     JobPlaced
<1>7. PaperReceipts'
  <2>1. ASSUME NEW j \in DOMAIN jobs', NEW k \in DOMAIN jobs',
               jobs'[j].kind = "receipt", jobs'[k].kind = "receipt"
        PROVE  j = k
    BY <1>2, <1>3, <2>1 DEF PaperInv, PaperReceipts
  <2>2. ASSUME chosen' # "idle", NEW j \in DOMAIN jobs' PROVE jobs'[j].kind # "receipt"
    BY <1>2, <1>3, <2>2 DEF PaperInv, PaperReceipts
  <2>. QED BY <2>1, <2>2 DEF PaperReceipts
<1>8. \A l \in Paper!LineIds : row.items[l] = 0
  BY DEF Paper!NoItems
<1>9. ASSUME NEW j \in DOMAIN jobs', NEW l \in Paper!LineIds, jobs'[j].items[l] > 0
      PROVE  j \in DOMAIN jobs /\ jobs'[j] = jobs[j]
  BY <1>2, <1>3, <1>8, <1>9
<1>10. PaperItems'
  <2>1. \A j \in DOMAIN jobs' : \A l \in Paper!LineIds :
          jobs'[j].items[l] > 0 => l \in DOMAIN lines
    BY <1>9 DEF PaperInv, PaperItems
  <2>2. \A j, k \in DOMAIN jobs' : \A l \in Paper!LineIds :
          jobs'[j].kind = "ticket" /\ jobs'[k].kind = "ticket" /\ jobs'[j].items[l] > 0
            /\ jobs'[k].items[l] > 0 => j = k
    BY <1>9 DEF PaperInv, PaperItems
  <2>3. ASSUME NEW j \in DOMAIN jobs', NEW l \in Paper!LineIds, jobs'[j].kind = "ticket",
               jobs'[j].items[l] > 0
        PROVE  IF lines[l].status = "CANCELLED"
               THEN jobs'[j].status = "FAILED"
                      \/ (~Paper!Unclaimed(jobs'[j])
                          /\ \E s \in DOMAIN jobs' :
                               /\ jobs'[s].kind = "slip" /\ jobs'[s].of = j
                               /\ jobs'[s].items[l] = jobs'[j].items[l])
               ELSE jobs'[j].items[l] = lines[l].quantity
    <3>1. j \in DOMAIN jobs /\ jobs'[j] = jobs[j]
      BY <1>9, <2>3
    <3>2. IF lines[l].status = "CANCELLED"
          THEN jobs[j].status = "FAILED" \/ (~Paper!Unclaimed(jobs[j]) /\ SlipRecalls(j, l))
          ELSE jobs[j].items[l] = lines[l].quantity
      BY <2>3, <3>1 DEF PaperInv, PaperItems
    <3>3. SlipRecalls(j, l) => \E s \in DOMAIN jobs' :
                               /\ jobs'[s].kind = "slip" /\ jobs'[s].of = j
                               /\ jobs'[s].items[l] = jobs'[j].items[l]
      BY <1>1, <1>2, <3>1 DEF SlipRecalls
    <3>. QED BY <3>1, <3>2, <3>3
  <2>. QED BY <2>1, <2>2, <2>3 DEF PaperItems, SlipRecalls, Paper!Unclaimed
<1>. QED BY <1>4, <1>5, <1>6, <1>7, <1>10 DEF PaperInv

\* The default printer prints receipts, and so does one that was asked for.
LEMMA PaperReceiptDevice ==
  ASSUME PaperInv, NEW d \in Devices \cup {NoDevice}, NEW kind \in {"reprint", "precheck"},
         d # Paper!DefaultDevice => Paper!Compatible(d, kind)
  PROVE  JobSound(Paper!NewJob(kind, d, Paper!NoItems)) /\ JobPlaced(Paper!NewJob(kind, d, Paper!NoItems))
<1> DEFINE doc == Paper!NewJob(kind, d, Paper!NoItems)
<1>1. 0 \in 0..MaxJobs /\ Paper!NoItems \in [Paper!LineIds -> Nat]
  BY PaperNumbers DEF Paper!NoItems
<1>2. /\ JobSound(doc) /\ doc.kind = kind /\ doc.device = d /\ doc.status = "PENDING"
  <2>1. kind \in Paper!Kitchen \cup {"receipt", "reprint", "precheck"}
    OBVIOUS
  <2>2. LET row == [doc EXCEPT !.of = 0] IN
          /\ JobSound(row) /\ row.kind = kind /\ row.device = d /\ row.status = "PENDING"
          /\ row = doc
    BY <1>1, <2>1, PaperNewJob
  <2>. QED BY <2>2
<1> HIDE DEF doc
<1>3. d # NoDevice => Paper!Compatible(d, kind)
  <2>1. CASE d = Paper!DefaultDevice /\ d # NoDevice
    <3>1. d \in Paper!Defaults
      BY <2>1 DEF Paper!DefaultDevice
    <3>. QED BY <3>1 DEF PaperInv, PaperPlaced, Paper!Compatible, Paper!ExpectedType,
       Paper!Kitchen
  <2>. QED BY <2>1
<1>4. JobPlaced(doc)
  BY <1>2, <1>3 DEF JobPlaced, Paper!Compatible, Paper!Active
<1>. QED BY <1>2, <1>4 DEF doc

LEMMA PaperReceiptSteps ==
  ASSUME PaperInv,
         \/ Paper!Pay \/ Paper!ReadReceiptDevice \/ Paper!CreateAutomaticReceipt
         \/ \E d \in Devices \cup {NoDevice} : Paper!ReprintReceipt(d) \/ Paper!CreatePrecheck(d)
  PROVE  PaperInv'
<1>0. /\ 0 \in 0..MaxJobs /\ Paper!NoItems \in [Paper!LineIds -> Nat]
      /\ chosen \in Devices \cup {NoDevice, "idle"}
  BY PaperNumbers DEF Paper!NoItems, PaperInv, Paper!TypeOK
<1>1. CASE Paper!Pay
  BY <1>1 DEF Paper!Pay, PaperInv, Paper!TypeOK, PaperPlaced, PaperReceipts, PaperItems,
     JobPlaced, Paper!Active,
    Paper!Defaults, Paper!Compatible, SlipRecalls
<1>2. CASE Paper!ReadReceiptDevice
  <2>1. /\ chosen' = Paper!DefaultDevice /\ UNCHANGED <<device, station, lines, jobs, invoice>>
        /\ \A j \in DOMAIN jobs : jobs[j].kind # "receipt"
    BY <1>2 DEF Paper!ReadReceiptDevice, Paper!NoReceiptYet, Paper!ReceiptJobs
  <2>2. Paper!DefaultDevice = NoDevice \/ Paper!DefaultDevice \in Paper!Defaults
    BY DEF Paper!DefaultDevice
  <2>3. /\ chosen' \in Devices \cup {NoDevice}
        /\ chosen' \in Devices => device[chosen'].row # "NONE"
    BY <2>1, <2>2, PaperNumbers DEF Paper!Defaults, PaperInv, PaperPlaced,
       Paper!Compatible, Paper!Active
  <2>4. PaperPlaced'
    BY <2>1, <2>3 DEF PaperInv, PaperPlaced, JobPlaced, Paper!Active, Paper!Defaults,
       Paper!Compatible
  <2>5. PaperReceipts' /\ PaperItems' /\ Paper!TypeOK'
    BY <2>1, <2>3 DEF PaperInv, PaperReceipts, PaperItems, Paper!TypeOK, SlipRecalls
  <2>. QED BY <2>1, <2>4, <2>5 DEF PaperInv
<1>3. CASE Paper!CreateAutomaticReceipt
  <2> DEFINE doc == Paper!NewJob("receipt", chosen, Paper!NoItems)
  <2>1. /\ chosen # "idle" /\ Paper!Room(1) /\ jobs' = Append(jobs, doc) /\ chosen' = "idle"
        /\ UNCHANGED <<device, station, lines, invoice>>
    BY <1>3 DEF Paper!CreateAutomaticReceipt
  <2>2. chosen \in Devices \cup {NoDevice}
    BY <1>0, <2>1
  <2>3. LET row == [doc EXCEPT !.of = 0] IN
          /\ JobSound(row) /\ row.kind = "receipt" /\ row.device = chosen
          /\ row.status = "PENDING" /\ row = doc /\ row.items = Paper!NoItems
    BY <1>0, <2>2, PaperNewJob
  <2>4. /\ JobSound(doc) /\ doc.kind = "receipt" /\ doc.device = chosen
        /\ doc.status = "PENDING" /\ doc.items = Paper!NoItems
    BY <2>3
  <2> HIDE DEF doc
  <2>5. JobPlaced(doc)
    BY <2>2, <2>4 DEF JobPlaced, PaperInv, PaperPlaced
  <2>. QED BY <2>1, <2>4, <2>5, PaperAppend
<1>4. ASSUME NEW d \in Devices \cup {NoDevice}, NEW kind \in {"reprint", "precheck"},
             d # Paper!DefaultDevice => Paper!Compatible(d, kind), Paper!Room(1),
             jobs' = Append(jobs, Paper!NewJob(kind, d, Paper!NoItems)),
             UNCHANGED <<device, station, lines, invoice, chosen>>
      PROVE  PaperInv'
  <2> DEFINE doc == Paper!NewJob(kind, d, Paper!NoItems)
  <2>1. JobSound(doc) /\ JobPlaced(doc)
    BY <1>4, PaperReceiptDevice
  <2>2. doc.items = Paper!NoItems /\ doc.kind = kind /\ jobs' = Append(jobs, doc)
    BY <1>4 DEF Paper!NewJob
  <2> HIDE DEF doc
  <2>. QED BY <1>4, <2>1, <2>2, PaperAppend
<1>5. ASSUME NEW d \in Devices \cup {NoDevice}, Paper!ReprintReceipt(d) PROVE PaperInv'
  BY <1>4, <1>5 DEF Paper!ReprintReceipt
<1>6. ASSUME NEW d \in Devices \cup {NoDevice}, Paper!CreatePrecheck(d) PROVE PaperInv'
  BY <1>4, <1>6 DEF Paper!CreatePrecheck
<1>. QED BY <1>1, <1>2, <1>3, <1>5, <1>6

-----------------------------------------------------------------------------
(* Tickets and slips.                                                      *)

\* One sequence after another.
LEMMA Concatenated ==
  ASSUME NEW S, NEW a \in Seq(S), NEW b \in Seq(S)
  PROVE  /\ a \o b \in Seq(S) /\ Len(a \o b) = Len(a) + Len(b)
         /\ DOMAIN a = 1..Len(a) /\ Len(a) \in Nat /\ DOMAIN b = 1..Len(b) /\ Len(b) \in Nat
         /\ DOMAIN (a \o b) = 1..(Len(a) + Len(b))
         /\ \A k \in 1..Len(a) : (a \o b)[k] = a[k]
         /\ \A k \in (Len(a) + 1)..(Len(a) + Len(b)) :
              k - Len(a) \in 1..Len(b) /\ (a \o b)[k] = b[k - Len(a)]
  OBVIOUS

LEMMA Joined ==
  ASSUME NEW S, NEW a \in Seq(S), NEW b \in Seq(S)
  PROVE  /\ a \o b \in Seq(S) /\ Len(a \o b) = Len(a) + Len(b)
         /\ DOMAIN a = 1..Len(a) /\ Len(a) \in Nat /\ DOMAIN b = 1..Len(b) /\ Len(b) \in Nat
         /\ \A k \in DOMAIN a : k \in DOMAIN (a \o b) /\ (a \o b)[k] = a[k]
         /\ \A k \in DOMAIN b : /\ Len(a) + k \in DOMAIN (a \o b) /\ Len(a) + k \notin DOMAIN a
                                /\ (a \o b)[Len(a) + k] = b[k]
         /\ \A k \in DOMAIN (a \o b) :
              \/ k \in DOMAIN a
              \/ /\ k \notin DOMAIN a /\ k \in Nat /\ k > Len(a)
                 /\ k - Len(a) \in DOMAIN b /\ (a \o b)[k] = b[k - Len(a)]
<1>1. /\ a \o b \in Seq(S) /\ Len(a \o b) = Len(a) + Len(b)
      /\ DOMAIN a = 1..Len(a) /\ Len(a) \in Nat /\ DOMAIN b = 1..Len(b) /\ Len(b) \in Nat
      /\ DOMAIN (a \o b) = 1..(Len(a) + Len(b))
      /\ \A k \in 1..Len(a) : (a \o b)[k] = a[k]
      /\ \A k \in (Len(a) + 1)..(Len(a) + Len(b)) :
           k - Len(a) \in 1..Len(b) /\ (a \o b)[k] = b[k - Len(a)]
  BY Concatenated
<1> DEFINE c == a \o b
           m == Len(a)
<1> HIDE DEF c
<1>2. /\ DOMAIN a = 1..m /\ m \in Nat /\ DOMAIN b = 1..Len(b) /\ Len(b) \in Nat
      /\ DOMAIN c = 1..(m + Len(b))
      /\ \A k \in 1..m : c[k] = a[k]
      /\ \A k \in (m + 1)..(m + Len(b)) : k - m \in 1..Len(b) /\ c[k] = b[k - m]
  BY <1>1 DEF c
<1> HIDE DEF m
<1>3. \A k \in DOMAIN a : k \in DOMAIN c /\ c[k] = a[k]
  BY <1>2
<1>4. ASSUME NEW k \in DOMAIN b
      PROVE  m + k \in DOMAIN c /\ m + k \notin DOMAIN a /\ c[m + k] = b[k]
  <2>1. k \in Nat /\ k >= 1 /\ k <= Len(b)
    BY <1>2
  <2>2. m + k \in (m + 1)..(m + Len(b)) /\ (m + k) - m = k
    BY <1>2, <2>1
  <2>. QED BY <1>2, <2>1, <2>2
<1>5. ASSUME NEW k \in DOMAIN c
      PROVE  \/ k \in DOMAIN a
             \/ /\ k \notin DOMAIN a /\ k \in Nat /\ k > m
                /\ k - m \in DOMAIN b /\ c[k] = b[k - m]
  <2>1. k \in Nat /\ k >= 1 /\ k <= m + Len(b)
    BY <1>2
  <2>2. CASE k > m
    <3>1. k \in (m + 1)..(m + Len(b))
      BY <1>2, <2>1, <2>2
    <3>. QED BY <1>2, <2>1, <2>2, <3>1
  <2>. QED BY <1>2, <2>1, <2>2
<1>. QED BY <1>1, <1>3, <1>4, <1>5 DEF c, m

\* New lines, and a ticket for them if the printer of the station is on.
LEMMA PaperTicketStep ==
  ASSUME PaperInv, NEW q \in Seq(Nat \ {0}), Paper!CreateTickets(q)
  PROVE  PaperInv'
<1> DEFINE old == Len(lines)
           new == [k \in DOMAIN q |-> [status |-> "PENDING", quantity |-> q[k]]]
           ordered == [l \in Paper!LineIds |->
             IF l \in (old + 1)..(old + Len(q)) THEN q[l - old] ELSE 0]
           doc == Paper!NewJob("ticket", station, ordered)
<1>1. /\ old + Len(q) <= MaxLines /\ lines' = lines \o new
      /\ UNCHANGED <<device, station, invoice, chosen>>
      /\ IF Paper!Active(station) THEN Paper!Room(1) /\ jobs' = Append(jobs, doc) ELSE UNCHANGED jobs
  BY DEF Paper!CreateTickets
<1>2. /\ lines \in Seq(Paper!Line) /\ old \in Nat /\ DOMAIN lines = 1..old
      /\ jobs \in Seq(Paper!Job) /\ Len(jobs) \in Nat /\ DOMAIN jobs = 1..Len(jobs)
      /\ Len(q) \in Nat /\ DOMAIN q = 1..Len(q) /\ \A k \in DOMAIN q : q[k] \in Nat \ {0}
  BY DEF PaperInv, Paper!TypeOK
<1>3. /\ new \in Seq(Paper!Line) /\ Len(new) = Len(q) /\ DOMAIN new = DOMAIN q
      /\ \A k \in DOMAIN q : new[k].status = "PENDING" /\ new[k].quantity = q[k]
  <2>1. new \in [1..Len(q) -> Paper!Line]
    BY <1>2 DEF Paper!Line
  <2>. QED BY <1>2, <2>1
<1>4. /\ ordered \in [Paper!LineIds -> Nat]
      /\ \A l \in Paper!LineIds : ordered[l] > 0 =>
           l \notin DOMAIN lines /\ l - old \in DOMAIN q /\ ordered[l] = q[l - old]
                /\ l = old + (l - old)
  <2>1. \A l \in Paper!LineIds : l \in (old + 1)..(old + Len(q)) =>
          l \notin DOMAIN lines /\ l - old \in DOMAIN q /\ l = old + (l - old)
    BY <1>2 DEF Paper!LineIds
  <2>2. \A l \in Paper!LineIds :
          ordered[l] = IF l \in (old + 1)..(old + Len(q)) THEN q[l - old] ELSE 0
    OBVIOUS
  <2>3. \A l \in Paper!LineIds : ordered[l] \in Nat
    BY <1>2, <2>1, <2>2
  <2>4. ordered = [l \in Paper!LineIds |-> ordered[l]]
    OBVIOUS
  <2> HIDE DEF ordered
  <2>. QED BY <2>1, <2>2, <2>3, <2>4
<1> HIDE DEF new, ordered
<1>5. /\ lines' \in Seq(Paper!Line) /\ Len(lines') = old + Len(q)
      /\ \A l \in DOMAIN lines : l \in DOMAIN lines' /\ lines'[l] = lines[l]
      /\ \A k \in DOMAIN q : /\ old + k \in DOMAIN lines'
                             /\ lines'[old + k].status = "PENDING"
                             /\ lines'[old + k].quantity = q[k]
  <2>1. lines \in Seq(Paper!Line) /\ new \in Seq(Paper!Line)
    BY <1>2, <1>3
  <2>2. /\ lines \o new \in Seq(Paper!Line) /\ Len(lines \o new) = Len(lines) + Len(new)
        /\ \A k \in DOMAIN lines :
             k \in DOMAIN (lines \o new) /\ (lines \o new)[k] = lines[k]
        /\ \A k \in DOMAIN new : /\ Len(lines) + k \in DOMAIN (lines \o new)
                                 /\ (lines \o new)[Len(lines) + k] = new[k]
    BY <2>1, Joined
  <2>3. /\ lines' \in Seq(Paper!Line) /\ Len(lines') = old + Len(new)
        /\ \A k \in DOMAIN lines : k \in DOMAIN lines' /\ lines'[k] = lines[k]
        /\ \A k \in DOMAIN new : old + k \in DOMAIN lines' /\ lines'[old + k] = new[k]
    BY <1>1, <2>2, Zenon
  <2>. QED BY <1>3, <2>3
<1>6. \A j \in DOMAIN jobs : \A l \in Paper!LineIds :
        jobs[j].items[l] > 0 => l \in DOMAIN lines /\ l \in DOMAIN lines' /\ lines'[l] = lines[l]
  BY <1>5 DEF PaperInv, PaperItems
<1>7. CASE ~Paper!Active(station)
  <2>1. jobs' = jobs
    BY <1>1, <1>7
  <2>2. Paper!TypeOK'
    BY <1>1, <1>2, <1>5, <2>1 DEF PaperInv, Paper!TypeOK
  <2>3. PaperPlaced' /\ PaperReceipts'
    BY <1>1, <2>1
    DEF PaperInv, PaperPlaced, PaperReceipts, JobPlaced, Paper!Active, Paper!Compatible,
       Paper!Defaults
  <2>4. PaperItems'
    BY <1>6, <2>1 DEF PaperInv, PaperItems, SlipRecalls, Paper!Unclaimed
  <2>5. \A j \in DOMAIN jobs' : JobSound(jobs'[j])
    BY <2>1 DEF PaperInv
  <2>. QED BY <2>2, <2>3, <2>4, <2>5 DEF PaperInv
<1>8. CASE Paper!Active(station)
  <2> DEFINE n == Len(jobs) + 1
  <2>1. n <= MaxJobs /\ jobs' = Append(jobs, doc)
    BY <1>1, <1>8 DEF Paper!Room
  <2>2. station \in Devices /\ station # NoDevice
    BY <1>8, PaperNumbers DEF Paper!Active
  <2>3. /\ JobSound(doc) /\ doc.kind = "ticket" /\ doc.device = station
        /\ doc.status = "PENDING" /\ doc.items = ordered
    <3>1. 0 \in 0..MaxJobs /\ "ticket" \in Paper!Kitchen \cup {"receipt", "reprint", "precheck"}
      BY PaperNumbers DEF Paper!Kitchen
    <3>2. LET row == [doc EXCEPT !.of = 0] IN
            /\ JobSound(row) /\ row.kind = "ticket" /\ row.device = station
            /\ row.status = "PENDING" /\ row = doc /\ row.items = ordered
      BY <1>4, <2>2, <3>1, PaperNewJob
    <3>. QED BY <3>2
  <2> HIDE DEF doc
  <2>4. /\ jobs' \in Seq(Paper!Job) /\ Len(jobs') = n /\ DOMAIN jobs' = 1..n
        /\ jobs'[n] = doc /\ n \notin DOMAIN jobs
        /\ \A j \in DOMAIN jobs : j \in DOMAIN jobs' /\ jobs'[j] = jobs[j]
        /\ \A j \in DOMAIN jobs' : j \in DOMAIN jobs \/ j = n
    BY <1>2, <2>1, <2>3 DEF JobSound
  <2> HIDE DEF n
  <2>5. JobPlaced(doc)
    BY <1>8, <2>2, <2>3
    DEF JobPlaced, PaperInv, PaperPlaced, Paper!Active, Paper!ExpectedType, Paper!Kitchen
  <2>6. \A j \in DOMAIN jobs' : JobSound(jobs'[j]) /\ JobPlaced(jobs'[j])
    BY <2>3, <2>4, <2>5 DEF PaperInv, PaperPlaced
  <2>7. PaperPlaced'
    <3>1. PaperPlaced /\ UNCHANGED <<device, station, chosen>>
      BY <1>1 DEF PaperInv
    <3>. QED BY <2>6, <3>1 DEF PaperPlaced, Paper!Defaults, Paper!Compatible,
       Paper!Active, JobPlaced
  <2>8. PaperReceipts'
    BY <1>1, <2>3, <2>4 DEF PaperInv, PaperReceipts
  <2>9. Paper!TypeOK'
    BY <1>1, <1>2, <1>5, <2>1, <2>4 DEF PaperInv, Paper!TypeOK
  <2>10. ASSUME NEW j \in DOMAIN jobs', NEW l \in Paper!LineIds, jobs'[j].items[l] > 0
         PROVE  \/ /\ j \in DOMAIN jobs /\ jobs'[j] = jobs[j] /\ l \in DOMAIN lines
                   /\ l \in DOMAIN lines' /\ lines'[l] = lines[l]
                \/ /\ j = n /\ l \notin DOMAIN lines /\ l \in DOMAIN lines'
                   /\ lines'[l].status = "PENDING" /\ jobs'[j].items[l] = lines'[l].quantity
    <3>1. CASE j \in DOMAIN jobs
      BY <1>6, <2>4, <2>10, <3>1
    <3>2. CASE j = n
      <4>1. ordered[l] > 0 /\ jobs'[j].items[l] = ordered[l]
        BY <2>3, <2>4, <2>10, <3>2
      <4>2. l \notin DOMAIN lines /\ l - old \in DOMAIN q /\ ordered[l] = q[l - old]
              /\ l = old + (l - old)
        BY <1>4, <4>1
      <4>3. l \in DOMAIN lines' /\ lines'[l].status = "PENDING" /\ lines'[l].quantity = q[l - old]
        BY <1>5, <4>2
      <4>. QED BY <3>2, <4>1, <4>2, <4>3
    <3>. QED BY <2>4, <3>1, <3>2
  <2>11. PaperItems'
    <3>1. \A j \in DOMAIN jobs' : \A l \in Paper!LineIds :
            jobs'[j].items[l] > 0 => l \in DOMAIN lines'
      BY <2>10
    <3>2. \A j, k \in DOMAIN jobs' : \A l \in Paper!LineIds :
            jobs'[j].kind = "ticket" /\ jobs'[k].kind = "ticket" /\ jobs'[j].items[l] > 0
              /\ jobs'[k].items[l] > 0 => j = k
      <4> SUFFICES ASSUME NEW j \in DOMAIN jobs', NEW k \in DOMAIN jobs', NEW l \in Paper!LineIds,
                          jobs'[j].kind = "ticket", jobs'[k].kind = "ticket",
                          jobs'[j].items[l] > 0, jobs'[k].items[l] > 0
                   PROVE  j = k
        OBVIOUS
      <4>. QED BY <2>10 DEF PaperInv, PaperItems
    <3>3. ASSUME NEW j \in DOMAIN jobs', NEW l \in Paper!LineIds, jobs'[j].kind = "ticket",
                 jobs'[j].items[l] > 0
          PROVE  IF lines'[l].status = "CANCELLED"
                 THEN jobs'[j].status = "FAILED"
                        \/ (~Paper!Unclaimed(jobs'[j])
                            /\ \E s \in DOMAIN jobs' :
                                 /\ jobs'[s].kind = "slip" /\ jobs'[s].of = j
                                 /\ jobs'[s].items[l] = jobs'[j].items[l])
                 ELSE jobs'[j].items[l] = lines'[l].quantity
      <4>1. CASE j \in DOMAIN jobs /\ jobs'[j] = jobs[j] /\ lines'[l] = lines[l]
        <5>1. IF lines[l].status = "CANCELLED"
              THEN jobs[j].status = "FAILED" \/ (~Paper!Unclaimed(jobs[j]) /\ SlipRecalls(j, l))
              ELSE jobs[j].items[l] = lines[l].quantity
          BY <3>3, <4>1 DEF PaperInv, PaperItems
        <5>2. SlipRecalls(j, l) => \E s \in DOMAIN jobs' :
                                  /\ jobs'[s].kind = "slip" /\ jobs'[s].of = j
                                  /\ jobs'[s].items[l] = jobs'[j].items[l]
          BY <2>4, <4>1 DEF SlipRecalls
        <5>. QED BY <4>1, <5>1, <5>2
      <4>2. CASE lines'[l].status = "PENDING" /\ jobs'[j].items[l] = lines'[l].quantity
        BY <4>2
      <4>. QED BY <2>10, <3>3, <4>1, <4>2
    <3>. QED BY <3>1, <3>2, <3>3 DEF PaperItems, SlipRecalls, Paper!Unclaimed
  <2>. QED BY <2>6, <2>7, <2>8, <2>9, <2>11 DEF PaperInv
<1>. QED BY <1>7, <1>8

\* The tickets that carry a line, and their order.
LEMMA PaperTickets ==
  ASSUME PaperInv, NEW S, NEW T \in SUBSET Paper!Tickets(S)
  PROVE  /\ InOrder(T) \in Seq(T) /\ DOMAIN InOrder(T) = 1..Len(InOrder(T))
         /\ Len(InOrder(T)) \in Nat
         /\ \A n \in DOMAIN InOrder(T) : InOrder(T)[n] \in T
         /\ \A n, m \in DOMAIN InOrder(T) : InOrder(T)[n] = InOrder(T)[m] => n = m
         /\ \A j \in T : \E n \in DOMAIN InOrder(T) : InOrder(T)[n] = j
<1>1. T \in SUBSET (1..Len(jobs)) /\ Len(jobs) \in Nat
  BY DEF PaperInv, Paper!TypeOK, Paper!Tickets
<1>2. /\ InOrder(T) \in Seq(T) /\ Len(InOrder(T)) = Cardinality(T) /\ Cardinality(T) \in Nat
      /\ DOMAIN InOrder(T) = 1..Cardinality(T)
      /\ \A n, m \in DOMAIN InOrder(T) : InOrder(T)[n] = InOrder(T)[m] => n = m
      /\ \A j \in T : \E n \in DOMAIN InOrder(T) : InOrder(T)[n] = j
  BY <1>1, OrderLists
<1>3. \A n \in DOMAIN InOrder(T) : InOrder(T)[n] \in T
  BY <1>2
<1>. QED BY <1>2, <1>3

\* Part of a line that waits becomes a line of its own, and so do its tickets.
LEMMA PaperSplitStep ==
  ASSUME PaperInv, NEW l \in DOMAIN lines, Paper!SplitLine(l)
  PROVE  PaperInv'
<1> DEFINE new == Len(lines) + 1
           T == Paper!Tickets({l})
           moved == InOrder(T)
           one == [Paper!NoItems EXCEPT ![new] = 1]
           part(n) == [jobs[moved[n]] EXCEPT !.items = one, !.attempts = 0, !.token = 0,
                                             !.claims = <<>>]
           rows == [j \in DOMAIN jobs |->
                      IF j \in T THEN [jobs[j] EXCEPT !.items[l] = @ - 1] ELSE jobs[j]]
           more == [n \in DOMAIN moved |-> part(n)]
           less == [lines[l] EXCEPT !.quantity = @ - 1]
           fresh == [status |-> "PENDING", quantity |-> 1]
           q == lines[l].quantity
<1>1. /\ lines[l].status = "PENDING" /\ q > 1 /\ new <= MaxLines /\ Paper!Room(Len(moved))
      /\ \A j \in T : jobs[j].items[l] = q /\ Paper!Unclaimed(jobs[j])
      /\ lines' = Append([lines EXCEPT ![l] = less], fresh)
      /\ jobs' = rows \o more
      /\ UNCHANGED <<device, station, invoice, chosen>>
  BY PaperSums DEF Paper!SplitLine
<1>2. /\ lines \in Seq(Paper!Line) /\ Len(lines) \in Nat /\ DOMAIN lines = 1..Len(lines)
      /\ jobs \in Seq(Paper!Job) /\ Len(jobs) \in Nat /\ DOMAIN jobs = 1..Len(jobs)
      /\ lines[l] \in Paper!Line /\ l # new /\ new \notin DOMAIN lines
      /\ \A j \in DOMAIN jobs : JobSound(jobs[j]) /\ jobs[j] \in Paper!Job
  BY DEF PaperInv, Paper!TypeOK, JobSound
<1>3. /\ new \in Paper!LineIds /\ l \in Paper!LineIds /\ q \in Nat /\ q - 1 \in Nat \ {0}
  <2>1. q \in Nat /\ q > 1
    BY <1>1, <1>2 DEF Paper!Line
  <2>2. l \in Nat /\ l >= 1 /\ l <= Len(lines) /\ Len(lines) + 1 <= MaxLines
    <3>1. DOMAIN lines = 1..Len(lines) /\ Len(lines) \in Nat /\ Len(lines) + 1 <= MaxLines
      BY <1>1, <1>2, Zenon
    <3>. QED BY <3>1
  <2>3. q - 1 \in Nat \ {0}
    <3> HIDE DEF q
    <3>. QED BY <2>1
  <2>4. Len(lines) \in Nat /\ MaxLines \in Nat
    BY <1>2, PaperNumbers
  <2>5. new \in Paper!LineIds /\ l \in Paper!LineIds
    BY <2>2, <2>4 DEF Paper!LineIds
  <2>. QED BY <2>1, <2>3, <2>5
<1>4. /\ less \in Paper!Line /\ less.quantity = q - 1 /\ less.status = "PENDING"
      /\ fresh \in Paper!Line /\ fresh.quantity = 1 /\ fresh.status = "PENDING"
  <2>1. \A k \in Nat \ {0} : [lines[l] EXCEPT !.quantity = k] \in Paper!Line
    BY <1>2 DEF Paper!Line
  <2>2. less.quantity = q - 1 /\ less.status = "PENDING"
    BY <1>1, <1>2 DEF Paper!Line
  <2>3. less \in Paper!Line
    BY <1>3, <2>1
  <2>. QED BY <2>2, <2>3 DEF Paper!Line
<1> HIDE DEF less, fresh
<1>5. /\ lines' \in Seq(Paper!Line) /\ Len(lines') = new /\ new \in DOMAIN lines'
      /\ lines'[l] = less /\ lines'[new] = fresh
      /\ \A k \in DOMAIN lines : k \in DOMAIN lines' /\ (k # l => lines'[k] = lines[k])
  <2> DEFINE mid == [lines EXCEPT ![l] = less]
  <2>1. /\ mid \in Seq(Paper!Line) /\ Len(mid) = Len(lines) /\ mid[l] = less
        /\ \A k \in DOMAIN lines \ {l} : mid[k] = lines[k]
    BY <1>2, <1>4
  <2>2. lines' = Append(mid, fresh)
    BY <1>1
  <2> HIDE DEF mid
  <2>. QED BY <1>2, <1>4, <2>1, <2>2
<1>6. /\ \A j \in T : /\ j \in DOMAIN jobs /\ jobs[j].kind = "ticket"
                      /\ jobs[j].status # "CANCELLED" /\ jobs[j].items[l] > 0
      /\ \A j, k \in T : j = k
      /\ \A j \in DOMAIN jobs : jobs[j].kind = "ticket" /\ jobs[j].items[l] > 0 => j \in T
  <2>1. \A j \in T : /\ j \in DOMAIN jobs /\ jobs[j].kind = "ticket"
                     /\ jobs[j].status # "CANCELLED" /\ jobs[j].items[l] > 0
    BY DEF Paper!Tickets, Paper!Carries
  <2>2. ASSUME NEW j \in DOMAIN jobs, jobs[j].kind = "ticket", jobs[j].items[l] > 0
        PROVE  j \in T
    <3>1. jobs[j].status # "CANCELLED"
      BY <1>2, <1>3, <2>2 DEF JobSound, Paper!NoItems
    <3>. QED BY <2>2, <3>1 DEF Paper!Tickets, Paper!Carries
  <2>3. \A j, k \in T : j = k
    BY <1>3, <2>1 DEF PaperInv, PaperItems
  <2>. QED BY <2>1, <2>2, <2>3
<1>7. /\ DOMAIN moved = 1..Len(moved) /\ Len(moved) \in Nat
      /\ \A n \in DOMAIN moved : moved[n] \in T
      /\ \A n, m \in DOMAIN moved : n = m
  <2>1. T \in SUBSET Paper!Tickets({l})
    OBVIOUS
  <2> HIDE DEF T
  <2>2. /\ DOMAIN moved = 1..Len(moved) /\ Len(moved) \in Nat
        /\ \A n \in DOMAIN moved : moved[n] \in T
        /\ \A n, m \in DOMAIN moved : moved[n] = moved[m] => n = m
    BY <2>1, PaperTickets
  <2> HIDE DEF moved
  <2>. QED BY <1>6, <2>2
<1> HIDE DEF T, moved, rows, more
<1>8. one \in [Paper!LineIds -> Nat] /\ \A k \in Paper!LineIds : one[k] = IF k = new THEN 1 ELSE 0
  BY <1>3 DEF Paper!NoItems
<1> HIDE DEF one
<1>9. ASSUME NEW j \in DOMAIN jobs
      PROVE  /\ rows[j].kind = jobs[j].kind /\ rows[j].status = jobs[j].status
             /\ rows[j].of = jobs[j].of /\ rows[j].device = jobs[j].device
             /\ JobSound(rows[j])
             /\ rows[j].items \in [Paper!LineIds -> Nat]
             /\ \A k \in Paper!LineIds :
                  rows[j].items[k] = IF j \in T /\ k = l THEN q - 1 ELSE jobs[j].items[k]
             /\ j \notin T => rows[j] = jobs[j]
  <2>1. CASE j \notin T
    <3>1. rows[j] = jobs[j]
      BY <2>1 DEF rows
    <3>. QED BY <1>2, <2>1, <3>1, PaperJob
  <2>2. CASE j \in T
    <3> DEFINE doc == jobs[j]
    <3>1. /\ doc \in Paper!Job /\ JobSound(doc) /\ doc.items \in [Paper!LineIds -> Nat]
          /\ doc.items[l] = q /\ Paper!Unclaimed(doc)
      BY <1>1, <1>2, <2>2, PaperJob
    <3>2. rows[j] = [doc EXCEPT !.items[l] = @ - 1]
      BY <2>2 DEF rows
    <3> DEFINE row == rows[j]
    <3>3. /\ IsJob(row) /\ row.kind = doc.kind /\ row.status = doc.status /\ row.of = doc.of
          /\ row.device = doc.device /\ row.lease = doc.lease /\ row.attempts = doc.attempts
          /\ row.token = doc.token /\ row.claims = doc.claims
          /\ row.items = [doc.items EXCEPT ![l] = @ - 1]
      BY <3>1, <3>2 DEF Paper!Job, IsJob
    <3>4. row.items \in [Paper!LineIds -> Nat] /\ \A k \in Paper!LineIds :
            row.items[k] = IF k = l THEN q - 1 ELSE doc.items[k]
      BY <1>3, <3>1, <3>3
    <3> HIDE DEF row
    <3>5. row \in Paper!Job
      BY <3>1, <3>3, <3>4 DEF Paper!Job, IsJob
    <3>6. JobSound(row)
      BY <3>1, <3>3, <3>5 DEF JobSound, Paper!Unclaimed
    <3>. QED BY <2>2, <3>3, <3>4, <3>6 DEF row
  <2>. QED BY <2>1, <2>2
<1>10. ASSUME NEW n \in DOMAIN moved
       PROVE  LET doc == jobs[moved[n]] IN
              /\ JobSound(part(n)) /\ part(n).kind = "ticket" /\ part(n).status = doc.status
              /\ part(n).status # "PROCESSING" /\ part(n).device = doc.device
              /\ part(n).items = one
  <2> DEFINE doc == jobs[moved[n]]
             row == [doc EXCEPT !.items = one, !.attempts = 0, !.token = 0, !.claims = <<>>]
  <2>1. /\ doc \in Paper!Job /\ JobSound(doc) /\ Paper!Unclaimed(doc) /\ doc.kind = "ticket"
    BY <1>1, <1>2, <1>6, <1>7
  <2>2. 0 \in 0..MaxAttempts /\ 0 \in 0..MaxClaims /\ <<>> \in Seq(Paper!Phase)
    BY PaperNumbers
  <2>3. /\ row \in Paper!Job /\ row.kind = doc.kind /\ row.status = doc.status /\ row.of = doc.of
        /\ row.device = doc.device /\ row.items = one /\ row.lease = doc.lease
        /\ row.token = 0 /\ row.claims = <<>>
    BY <1>8, <2>1, <2>2 DEF Paper!Job
  <2> HIDE DEF row
  <2>4. doc.lease = "none" /\ doc.status \in {"PENDING", "FAILED"}
    BY <2>1, PaperJob DEF JobSound, Paper!Unclaimed
  <2>5. JobSound(row)
    BY <2>1, <2>3, <2>4 DEF JobSound
  <2>. QED BY <2>1, <2>3, <2>4, <2>5 DEF row
<1>11. /\ rows \in Seq(Paper!Job) /\ Len(rows) = Len(jobs) /\ DOMAIN rows = DOMAIN jobs
       /\ more \in Seq(Paper!Job) /\ Len(more) = Len(moved) /\ DOMAIN more = DOMAIN moved
       /\ \A n \in DOMAIN moved : more[n] = part(n)
  <2>1. DOMAIN rows = DOMAIN jobs /\ \A j \in DOMAIN jobs : rows[j] \in Paper!Job
    BY <1>9 DEF rows, JobSound
  <2>2. rows \in [1..Len(jobs) -> Paper!Job]
    <3>1. rows = [j \in DOMAIN jobs |-> rows[j]]
      BY DEF rows
    <3>. QED BY <1>2, <2>1, <3>1
  <2>3. /\ more = [n \in DOMAIN moved |-> part(n)] /\ \A n \in DOMAIN moved : part(n) \in Paper!Job
    BY <1>10 DEF more, JobSound
  <2> HIDE DEF part
  <2>4. more \in [1..Len(moved) -> Paper!Job]
    BY <1>7, <2>3
  <2>. QED BY <1>2, <1>7, <2>1, <2>2, <2>3, <2>4
<1> HIDE DEF part
<1>12. /\ jobs' \in Seq(Paper!Job) /\ Len(jobs') = Len(jobs) + Len(moved)
       /\ \A j \in DOMAIN jobs : j \in DOMAIN jobs' /\ jobs'[j] = rows[j]
       /\ \A j \in DOMAIN jobs' :
            \/ j \in DOMAIN jobs
            \/ /\ j \notin DOMAIN jobs /\ j \in Nat /\ j - Len(jobs) \in DOMAIN moved
               /\ jobs'[j] = part(j - Len(jobs))
  <2>1. rows \in Seq(Paper!Job) /\ more \in Seq(Paper!Job)
    BY <1>11
  <2>2. /\ rows \o more \in Seq(Paper!Job) /\ Len(rows \o more) = Len(rows) + Len(more)
        /\ \A k \in DOMAIN rows : k \in DOMAIN (rows \o more) /\ (rows \o more)[k] = rows[k]
        /\ \A k \in DOMAIN (rows \o more) :
             \/ k \in DOMAIN rows
             \/ /\ k \notin DOMAIN rows /\ k \in Nat /\ k > Len(rows)
                /\ k - Len(rows) \in DOMAIN more
                /\ (rows \o more)[k] = more[k - Len(rows)]
    BY <2>1, Joined
  <2>3. /\ jobs' \in Seq(Paper!Job) /\ Len(jobs') = Len(rows) + Len(more)
        /\ \A k \in DOMAIN rows : k \in DOMAIN jobs' /\ jobs'[k] = rows[k]
        /\ \A k \in DOMAIN jobs' :
             \/ k \in DOMAIN rows
             \/ /\ k \notin DOMAIN rows /\ k \in Nat /\ k - Len(rows) \in DOMAIN more
                /\ jobs'[k] = more[k - Len(rows)]
    BY <1>1, <2>2, Zenon
  <2>. QED BY <1>11, <2>3
<1>13. Paper!TypeOK'
  BY <1>1, <1>2, <1>5, <1>12 DEF PaperInv, Paper!TypeOK, Paper!Room
<1>14. ASSUME NEW j \in DOMAIN jobs' PROVE JobSound(jobs'[j]) /\ JobPlaced(jobs'[j])
  <2>1. CASE j \in DOMAIN jobs
    BY <1>9, <1>12, <2>1 DEF PaperInv, PaperPlaced, JobPlaced
  <2>2. CASE j - Len(jobs) \in DOMAIN moved /\ jobs'[j] = part(j - Len(jobs))
    <3> DEFINE n == j - Len(jobs)
    <3>1. JobPlaced(jobs[moved[n]]) /\ jobs[moved[n]].kind = "ticket"
      BY <1>6, <1>7, <2>2 DEF PaperInv, PaperPlaced
    <3>. QED BY <1>10, <2>2, <3>1 DEF JobPlaced
  <2>. QED BY <1>12, <2>1, <2>2
<1>15. PaperPlaced'
  <2>1. PaperPlaced /\ UNCHANGED <<device, station, chosen>>
    BY <1>1 DEF PaperInv
  <2>. QED BY <1>14, <2>1 DEF PaperPlaced, Paper!Defaults, Paper!Compatible,
     Paper!Active, JobPlaced
<1>16. \A j \in DOMAIN jobs' : jobs'[j].kind = "receipt" => j \in DOMAIN jobs /\ jobs[j].kind = "receipt"
  BY <1>9, <1>10, <1>12
<1>17. PaperReceipts'
  BY <1>1, <1>16 DEF PaperInv, PaperReceipts
<1>18. ASSUME NEW j \in DOMAIN jobs', NEW k \in Paper!LineIds, jobs'[j].items[k] > 0
       PROVE  \/ /\ j \in DOMAIN jobs /\ jobs[j].items[k] > 0 /\ k \in DOMAIN lines /\ k # new
                 /\ jobs'[j].kind = jobs[j].kind /\ jobs'[j].status = jobs[j].status
                 /\ jobs'[j].items[k] = IF j \in T /\ k = l THEN q - 1 ELSE jobs[j].items[k]
              \/ /\ j \notin DOMAIN jobs /\ j \in Nat /\ j - Len(jobs) \in DOMAIN moved
                 /\ k = new /\ jobs'[j].items[k] = 1
  <2>1. CASE j \in DOMAIN jobs
    <3>1. jobs[j].items[k] > 0
      BY <1>1, <1>6, <1>9, <1>12, <1>18, <2>1
    <3>. QED BY <1>2, <1>9, <1>12, <2>1, <3>1 DEF PaperInv, PaperItems
  <2>2. CASE /\ j \notin DOMAIN jobs /\ j \in Nat /\ j - Len(jobs) \in DOMAIN moved
             /\ jobs'[j] = part(j - Len(jobs))
    BY <1>8, <1>10, <1>18, <2>2
  <2>. QED BY <1>12, <2>1, <2>2
<1>19. PaperItems'
  <2>1. \A j \in DOMAIN jobs' : \A k \in Paper!LineIds : jobs'[j].items[k] > 0 => k \in DOMAIN lines'
    BY <1>5, <1>18
  <2>2. ASSUME NEW i \in DOMAIN jobs', NEW j \in DOMAIN jobs', NEW k \in Paper!LineIds,
               jobs'[i].kind = "ticket", jobs'[j].kind = "ticket", jobs'[i].items[k] > 0,
               jobs'[j].items[k] > 0
        PROVE  i = j
    <3>1. CASE k # new
      BY <1>18, <2>2, <3>1 DEF PaperInv, PaperItems
    <3>2. CASE k = new
      <4>1. /\ i \in Nat /\ i - Len(jobs) \in DOMAIN moved
            /\ j \in Nat /\ j - Len(jobs) \in DOMAIN moved
        BY <1>18, <2>2, <3>2
      <4>2. i - Len(jobs) = j - Len(jobs)
        BY <1>7, <4>1
      <4>. QED BY <1>2, <4>1, <4>2
    <3>. QED BY <3>1, <3>2
  <2>3. ASSUME NEW j \in DOMAIN jobs', NEW k \in Paper!LineIds, jobs'[j].kind = "ticket",
               jobs'[j].items[k] > 0
        PROVE  IF lines'[k].status = "CANCELLED"
               THEN jobs'[j].status = "FAILED"
                      \/ (~Paper!Unclaimed(jobs'[j])
                          /\ \E s \in DOMAIN jobs' :
                               /\ jobs'[s].kind = "slip" /\ jobs'[s].of = j
                               /\ jobs'[s].items[k] = jobs'[j].items[k])
               ELSE jobs'[j].items[k] = lines'[k].quantity
    <3>1. CASE k = new
      <4>1. jobs'[j].items[k] = 1
        BY <1>18, <2>3, <3>1
      <4>. QED BY <1>4, <1>5, <3>1, <4>1
    <3>2. CASE k # new /\ k = l
      <4>1. jobs'[j].items[k] = q - 1
        BY <1>6, <1>18, <2>3, <3>2
      <4>. QED BY <1>4, <1>5, <3>2, <4>1
    <3>3. CASE k # new /\ k # l
      <4>1. /\ j \in DOMAIN jobs /\ jobs[j].items[k] > 0 /\ k \in DOMAIN lines
            /\ jobs[j].kind = "ticket" /\ jobs'[j].status = jobs[j].status
            /\ jobs'[j].items[k] = jobs[j].items[k] /\ lines'[k] = lines[k]
        BY <1>5, <1>18, <2>3, <3>3
      <4>2. IF lines[k].status = "CANCELLED"
            THEN jobs[j].status = "FAILED" \/ (~Paper!Unclaimed(jobs[j]) /\ SlipRecalls(j, k))
            ELSE jobs[j].items[k] = lines[k].quantity
        BY <4>1 DEF PaperInv, PaperItems
      <4>3. SlipRecalls(j, k) => \E s \in DOMAIN jobs' :
                                /\ jobs'[s].kind = "slip" /\ jobs'[s].of = j
                                /\ jobs'[s].items[k] = jobs'[j].items[k]
        <5>1. ASSUME NEW s \in DOMAIN jobs, jobs[s].kind = "slip"
              PROVE  s \in DOMAIN jobs' /\ jobs'[s] = jobs[s]
          BY <1>6, <1>9, <1>12, <5>1
        <5>. QED BY <4>1, <5>1 DEF SlipRecalls
      <4>. QED BY <4>1, <4>2, <4>3 DEF Paper!Unclaimed
    <3>. QED BY <3>1, <3>2, <3>3
  <2>. QED BY <2>1, <2>2, <2>3 DEF PaperItems, SlipRecalls, Paper!Unclaimed
<1>. QED BY <1>13, <1>14, <1>15, <1>17, <1>19 DEF PaperInv

\* What becomes of a waiting ticket when some of its lines are cancelled.
LEMMA PaperTrimmed ==
  ASSUME NEW doc, JobSound(doc), Paper!Unclaimed(doc), NEW S
  PROVE  LET row == Paper!Trimmed(doc, S) IN
         /\ JobSound(row) /\ row.kind = doc.kind /\ row.device = doc.device /\ row.of = doc.of
         /\ row.items = Paper!Without(doc.items, S)
         /\ row.status = (IF row.items = Paper!NoItems THEN "CANCELLED" ELSE doc.status)
<1> DEFINE row == Paper!Trimmed(doc, S)
           items == Paper!Without(doc.items, S)
<1>1. doc \in Paper!Job /\ doc.items \in [Paper!LineIds -> Nat] /\ doc.lease = "none"
  BY PaperJob DEF JobSound, Paper!Unclaimed
<1>2. items \in [Paper!LineIds -> Nat]
  BY <1>1 DEF Paper!Without
<1> HIDE DEF items
<1>3. /\ row \in Paper!Job /\ row.kind = doc.kind /\ row.device = doc.device /\ row.of = doc.of
      /\ row.items = items /\ row.lease = doc.lease /\ row.token = doc.token
      /\ row.claims = doc.claims
      /\ row.status = (IF items = Paper!NoItems THEN "CANCELLED" ELSE doc.status)
  BY <1>1, <1>2 DEF Paper!Trimmed, Paper!Job, Paper!JobStatus, items
<1> HIDE DEF row
<1>4. \A t \in DOMAIN doc.claims : doc.claims[t] # "working" /\ doc.claims[t] # "printed"
  BY <1>1 DEF JobSound, Paper!Unclaimed
<1>5. JobSound(row)
  BY <1>1, <1>3, <1>4 DEF JobSound, Paper!Unclaimed
<1>. QED BY <1>3, <1>5 DEF row, items

\* Lines are cancelled: the tickets nobody holds are rewritten, the others are
\* recalled by slips.
LEMMA PaperCancelStep ==
  ASSUME PaperInv, NEW S \in SUBSET DOMAIN lines, Paper!CancelLines(S)
  PROVE  PaperInv'
<1> DEFINE U == {j \in DOMAIN jobs : /\ Paper!Unclaimed(jobs[j]) /\ jobs[j].kind = "ticket"
                                     /\ Paper!Carries(jobs[j], S)}
           C == {j \in Paper!Tickets(S) : ~Paper!Unclaimed(jobs[j])}
           claimed == InOrder(C)
           slip(n) == [Paper!NewJob("slip", jobs[claimed[n]].device, Paper!Only(jobs[claimed[n]].items, S))
                         EXCEPT !.of = claimed[n]]
           rows == [j \in DOMAIN jobs |->
                      IF /\ Paper!Unclaimed(jobs[j]) /\ jobs[j].kind = "ticket"
                         /\ Paper!Carries(jobs[j], S)
                      THEN Paper!Trimmed(jobs[j], S) ELSE jobs[j]]
           more == [n \in DOMAIN claimed |-> slip(n)]
<1>1. /\ jobs' = rows \o more /\ Len(jobs') <= MaxJobs
      /\ UNCHANGED <<device, station, invoice, chosen>>
  BY PaperSums DEF Paper!CancelLines, Paper!CancelKitchenItems
<1>2. /\ lines \in Seq(Paper!Line) /\ Len(lines) \in Nat /\ DOMAIN lines = 1..Len(lines)
      /\ jobs \in Seq(Paper!Job) /\ Len(jobs) \in Nat /\ DOMAIN jobs = 1..Len(jobs)
      /\ Len(jobs) <= MaxJobs /\ DOMAIN lines \in SUBSET Paper!LineIds
      /\ \A j \in DOMAIN jobs : JobSound(jobs[j]) /\ jobs[j] \in Paper!Job
  BY PaperNumbers DEF PaperInv, Paper!TypeOK, JobSound, Paper!LineIds
<1>3. /\ lines' \in Seq(Paper!Line) /\ Len(lines') = Len(lines) /\ DOMAIN lines' = DOMAIN lines
      /\ \A k \in S : k \in DOMAIN lines /\ lines'[k].status = "CANCELLED"
      /\ \A k \in DOMAIN lines \ S : lines'[k] = lines[k]
  <2> DEFINE made(k) == IF k \in S THEN [lines[k] EXCEPT !.status = "CANCELLED"] ELSE lines[k]
  <2>1. lines' = [k \in DOMAIN lines |-> made(k)]
    BY DEF Paper!CancelLines
  <2>2. ASSUME NEW k \in DOMAIN lines
        PROVE  /\ made(k) \in Paper!Line
               /\ k \in S => made(k).status = "CANCELLED"
               /\ k \notin S => made(k) = lines[k]
    <3>1. lines[k] \in Paper!Line
      BY <1>2
    <3>2. LET row == [lines[k] EXCEPT !.status = "CANCELLED"] IN
          row \in Paper!Line /\ row.status = "CANCELLED"
      BY <3>1 DEF Paper!Line
    <3>. QED BY <3>1, <3>2, Zenon
  <2> HIDE DEF made
  <2>3. lines' \in [1..Len(lines) -> Paper!Line]
    BY <1>2, <2>1, <2>2
  <2>4. lines' \in Seq(Paper!Line) /\ Len(lines') = Len(lines) /\ DOMAIN lines' = DOMAIN lines
    BY <1>2, <2>3
  <2>. QED BY <2>1, <2>2, <2>4
<1>4. /\ \A j \in C : /\ j \in DOMAIN jobs /\ jobs[j].kind = "ticket"
                      /\ jobs[j].status # "CANCELLED" /\ ~Paper!Unclaimed(jobs[j])
      /\ \A j \in DOMAIN jobs : \A k \in S \cap Paper!LineIds :
           jobs[j].kind = "ticket" /\ jobs[j].items[k] > 0 => j \in U \/ j \in C
      /\ \A j \in U : j \in DOMAIN jobs /\ Paper!Unclaimed(jobs[j]) /\ jobs[j].kind = "ticket"
  <2>1. ASSUME NEW j \in DOMAIN jobs, NEW k \in S \cap Paper!LineIds,
               jobs[j].kind = "ticket", jobs[j].items[k] > 0
        PROVE  j \in U \/ j \in C
    <3>1. jobs[j].status # "CANCELLED"
      BY <1>2, <2>1 DEF JobSound, Paper!NoItems
    <3>. QED BY <2>1, <3>1 DEF Paper!Tickets, Paper!Carries
  <2>. QED BY <2>1 DEF Paper!Tickets
<1>5. /\ DOMAIN claimed = 1..Len(claimed) /\ Len(claimed) \in Nat
      /\ \A n \in DOMAIN claimed : claimed[n] \in C
      /\ \A j \in C : \E n \in DOMAIN claimed : claimed[n] = j
  <2>1. C \in SUBSET Paper!Tickets(S)
    OBVIOUS
  <2> HIDE DEF C
  <2>. QED BY <2>1, PaperTickets
<1> HIDE DEF C, claimed, rows, more
<1>6. ASSUME NEW j \in DOMAIN jobs
      PROVE  /\ rows[j].kind = jobs[j].kind /\ rows[j].of = jobs[j].of
             /\ rows[j].device = jobs[j].device /\ JobSound(rows[j])
             /\ j \notin U => rows[j] = jobs[j]
             /\ j \in U => /\ rows[j].items = Paper!Without(jobs[j].items, S)
                           /\ rows[j].status = IF rows[j].items = Paper!NoItems
                                               THEN "CANCELLED" ELSE jobs[j].status
  <2>1. CASE j \notin U
    <3>1. rows[j] = jobs[j]
      BY <2>1 DEF rows
    <3>. QED BY <1>2, <2>1, <3>1
  <2>2. CASE j \in U
    <3>1. rows[j] = Paper!Trimmed(jobs[j], S)
      BY <2>2 DEF rows
    <3>. QED BY <1>2, <1>4, <2>2, <3>1, PaperTrimmed
  <2>. QED BY <2>1, <2>2
<1> HIDE DEF U
<1>7. ASSUME NEW n \in DOMAIN claimed
      PROVE  /\ JobSound(slip(n)) /\ slip(n).kind = "slip" /\ slip(n).status = "PENDING"
             /\ slip(n).device = jobs[claimed[n]].device /\ slip(n).of = claimed[n]
             /\ slip(n).items = Paper!Only(jobs[claimed[n]].items, S)
  <2> DEFINE j == claimed[n]
             items == Paper!Only(jobs[j].items, S)
  <2>1. j \in DOMAIN jobs /\ j \in 0..MaxJobs
    <3>1. j \in DOMAIN jobs
      BY <1>4, <1>5
    <3> HIDE DEF j
    <3>. QED BY <1>2, <3>1, PaperNumbers
  <2>2. jobs[j].items \in [Paper!LineIds -> Nat] /\ jobs[j].device \in Devices \cup {NoDevice}
    BY <1>2, <2>1, PaperJob
  <2>3. items \in [Paper!LineIds -> Nat] /\ "slip" \in Paper!Kitchen \cup {"receipt", "reprint", "precheck"}
    BY <2>2 DEF Paper!Only, Paper!Kitchen
  <2> HIDE DEF j, items
  <2>4. slip(n) = [Paper!NewJob("slip", jobs[j].device, items) EXCEPT !.of = j]
    BY DEF j, items
  <2> HIDE DEF slip
  <2>5. /\ JobSound(slip(n)) /\ slip(n).kind = "slip" /\ slip(n).status = "PENDING"
        /\ slip(n).device = jobs[j].device /\ slip(n).of = j /\ slip(n).items = items
    <3> DEFINE d == jobs[j].device
    <3>1. d \in Devices \cup {NoDevice} /\ slip(n) = [Paper!NewJob("slip", d, items) EXCEPT !.of = j]
      BY <2>2, <2>4
    <3> HIDE DEF d
    <3>2. LET doc == [Paper!NewJob("slip", d, items) EXCEPT !.of = j] IN
          /\ JobSound(doc) /\ doc.kind = "slip" /\ doc.device = d /\ doc.items = items
          /\ doc.of = j /\ doc.status = "PENDING"
      BY <2>1, <2>3, <3>1, PaperNewJob
    <3>. QED BY <3>1, <3>2, Zenon DEF d
  <2>. QED BY <2>5 DEF j, items
<1>8. /\ rows \in Seq(Paper!Job) /\ Len(rows) = Len(jobs) /\ DOMAIN rows = DOMAIN jobs
      /\ more \in Seq(Paper!Job) /\ Len(more) = Len(claimed) /\ DOMAIN more = DOMAIN claimed
      /\ \A n \in DOMAIN claimed : more[n] = slip(n)
  <2>1. DOMAIN rows = DOMAIN jobs /\ \A j \in DOMAIN jobs : rows[j] \in Paper!Job
    BY <1>6 DEF rows, JobSound
  <2>2. rows \in [1..Len(jobs) -> Paper!Job]
    <3>1. rows = [j \in DOMAIN jobs |-> rows[j]]
      BY DEF rows
    <3>. QED BY <1>2, <2>1, <3>1
  <2>3. /\ more = [n \in DOMAIN claimed |-> slip(n)] /\ \A n \in DOMAIN claimed : slip(n) \in Paper!Job
    BY <1>7 DEF more, JobSound
  <2> HIDE DEF slip
  <2>4. more \in [1..Len(claimed) -> Paper!Job]
    BY <1>5, <2>3
  <2>. QED BY <1>2, <1>5, <2>1, <2>2, <2>3, <2>4
<1> HIDE DEF slip
<1>9. /\ jobs' \in Seq(Paper!Job) /\ Len(jobs') = Len(jobs) + Len(claimed)
      /\ \A j \in DOMAIN jobs : j \in DOMAIN jobs' /\ jobs'[j] = rows[j]
      /\ \A n \in DOMAIN claimed : /\ Len(jobs) + n \in DOMAIN jobs'
                                   /\ jobs'[Len(jobs) + n] = slip(n)
      /\ \A j \in DOMAIN jobs' :
           \/ j \in DOMAIN jobs
           \/ /\ j \notin DOMAIN jobs /\ j \in Nat /\ j - Len(jobs) \in DOMAIN claimed
              /\ jobs'[j] = slip(j - Len(jobs))
  <2>1. rows \in Seq(Paper!Job) /\ more \in Seq(Paper!Job)
    BY <1>8
  <2>2. /\ rows \o more \in Seq(Paper!Job) /\ Len(rows \o more) = Len(rows) + Len(more)
        /\ \A k \in DOMAIN rows : k \in DOMAIN (rows \o more) /\ (rows \o more)[k] = rows[k]
        /\ \A k \in DOMAIN more : /\ Len(rows) + k \in DOMAIN (rows \o more)
                                  /\ (rows \o more)[Len(rows) + k] = more[k]
        /\ \A k \in DOMAIN (rows \o more) :
             \/ k \in DOMAIN rows
             \/ /\ k \notin DOMAIN rows /\ k \in Nat /\ k > Len(rows)
                /\ k - Len(rows) \in DOMAIN more
                /\ (rows \o more)[k] = more[k - Len(rows)]
    BY <2>1, Joined
  <2>3. /\ jobs' \in Seq(Paper!Job) /\ Len(jobs') = Len(rows) + Len(more)
        /\ \A k \in DOMAIN rows : k \in DOMAIN jobs' /\ jobs'[k] = rows[k]
        /\ \A k \in DOMAIN more : /\ Len(rows) + k \in DOMAIN jobs'
                                  /\ jobs'[Len(rows) + k] = more[k]
        /\ \A k \in DOMAIN jobs' :
             \/ k \in DOMAIN rows
             \/ /\ k \notin DOMAIN rows /\ k \in Nat /\ k - Len(rows) \in DOMAIN more
                /\ jobs'[k] = more[k - Len(rows)]
    BY <1>1, <2>2, Zenon
  <2>. QED BY <1>8, <2>3
<1>10. Paper!TypeOK'
  BY <1>1, <1>3, <1>9 DEF PaperInv, Paper!TypeOK
<1>11. ASSUME NEW j \in DOMAIN jobs' PROVE JobSound(jobs'[j]) /\ JobPlaced(jobs'[j])
  <2>1. CASE j \in DOMAIN jobs
    <3>1. JobPlaced(jobs[j])
      BY <2>1 DEF PaperInv, PaperPlaced
    <3>2. rows[j].status = "PROCESSING" => jobs[j].status = "PROCESSING"
      BY <1>6, <2>1
    <3>. QED BY <1>6, <1>9, <2>1, <3>1, <3>2 DEF JobPlaced
  <2>2. CASE j - Len(jobs) \in DOMAIN claimed /\ jobs'[j] = slip(j - Len(jobs))
    <3> DEFINE n == j - Len(jobs)
    <3>1. JobPlaced(jobs[claimed[n]]) /\ jobs[claimed[n]].kind = "ticket"
      BY <1>4, <1>5, <2>2 DEF PaperInv, PaperPlaced
    <3>. QED BY <1>7, <2>2, <3>1 DEF JobPlaced, Paper!ExpectedType, Paper!Kitchen
  <2>. QED BY <1>9, <2>1, <2>2
<1>12. PaperPlaced'
  <2>1. PaperPlaced /\ UNCHANGED <<device, station, chosen>>
    BY <1>1 DEF PaperInv
  <2>. QED BY <1>11, <2>1 DEF PaperPlaced, Paper!Defaults, Paper!Compatible,
     Paper!Active, JobPlaced
<1>13. \A j \in DOMAIN jobs' : jobs'[j].kind = "receipt" => j \in DOMAIN jobs /\ jobs[j].kind = "receipt"
  BY <1>6, <1>7, <1>9
<1>14. PaperReceipts'
  BY <1>1, <1>13 DEF PaperInv, PaperReceipts
<1>15. ASSUME NEW j \in DOMAIN jobs, NEW k \in Paper!LineIds
       PROVE  /\ jobs[j].items[k] \in Nat /\ jobs'[j].kind = jobs[j].kind
              /\ jobs'[j].of = jobs[j].of
              /\ jobs'[j].items[k] > 0 =>
                   /\ jobs[j].items[k] > 0 /\ jobs'[j].items[k] = jobs[j].items[k]
                   /\ jobs'[j].status = jobs[j].status
                   /\ k \in S => j \notin U
              /\ j \notin U => jobs'[j] = jobs[j]
  <2>1. jobs[j].items \in [Paper!LineIds -> Nat] /\ jobs'[j] = rows[j]
    BY <1>2, <1>9, PaperJob
  <2>2. CASE j \notin U
    BY <1>6, <2>1, <2>2
  <2>3. CASE j \in U
    <3>1. rows[j].items[k] = IF k \in S THEN 0 ELSE jobs[j].items[k]
      <4>1. rows[j].items = Paper!Without(jobs[j].items, S)
        BY <1>6, <2>3
      <4>. QED BY <4>1 DEF Paper!Without
    <3>2. rows[j].items[k] > 0 => rows[j].items # Paper!NoItems
      BY DEF Paper!NoItems
    <3>. QED BY <1>6, <2>1, <2>3, <3>1, <3>2
  <2>. QED BY <2>2, <2>3
<1>16. ASSUME NEW j \in DOMAIN jobs', NEW k \in Paper!LineIds, j \notin DOMAIN jobs
       PROVE  LET n == j - Len(jobs) IN
              /\ n \in DOMAIN claimed /\ jobs'[j].kind = "slip" /\ jobs'[j].of = claimed[n]
              /\ jobs'[j].items[k] = IF k \in S THEN jobs[claimed[n]].items[k] ELSE 0
  <2> DEFINE n == j - Len(jobs)
  <2>1. n \in DOMAIN claimed /\ jobs'[j] = slip(n)
    BY <1>9, <1>16
  <2>2. /\ slip(n).kind = "slip" /\ slip(n).of = claimed[n]
        /\ slip(n).items = Paper!Only(jobs[claimed[n]].items, S)
    BY <1>7, <2>1
  <2> HIDE DEF n
  <2>3. slip(n).items[k] = IF k \in S THEN jobs[claimed[n]].items[k] ELSE 0
    BY <2>2 DEF Paper!Only
  <2>. QED BY <2>1, <2>2, <2>3 DEF n
<1>17. PaperItems'
  <2>1. ASSUME NEW j \in DOMAIN jobs', NEW k \in Paper!LineIds, jobs'[j].items[k] > 0
        PROVE  k \in DOMAIN lines'
    <3>1. CASE j \in DOMAIN jobs
      BY <1>3, <1>15, <2>1, <3>1 DEF PaperInv, PaperItems
    <3>2. CASE j \notin DOMAIN jobs
      BY <1>3, <1>16, <2>1, <3>2
    <3>. QED BY <3>1, <3>2
  <2>2. ASSUME NEW i \in DOMAIN jobs', NEW j \in DOMAIN jobs', NEW k \in Paper!LineIds,
               jobs'[i].kind = "ticket", jobs'[j].kind = "ticket", jobs'[i].items[k] > 0,
               jobs'[j].items[k] > 0
        PROVE  i = j
    <3>1. i \in DOMAIN jobs /\ j \in DOMAIN jobs
      BY <1>16, <2>2
    <3>. QED BY <1>15, <2>2, <3>1 DEF PaperInv, PaperItems
  <2>3. ASSUME NEW j \in DOMAIN jobs', NEW k \in Paper!LineIds, jobs'[j].kind = "ticket",
               jobs'[j].items[k] > 0
        PROVE  IF lines'[k].status = "CANCELLED"
               THEN jobs'[j].status = "FAILED"
                      \/ (~Paper!Unclaimed(jobs'[j])
                          /\ \E s \in DOMAIN jobs' :
                               /\ jobs'[s].kind = "slip" /\ jobs'[s].of = j
                               /\ jobs'[s].items[k] = jobs'[j].items[k])
               ELSE jobs'[j].items[k] = lines'[k].quantity
    <3>1. /\ j \in DOMAIN jobs /\ jobs[j].kind = "ticket" /\ jobs[j].items[k] > 0
          /\ jobs'[j].items[k] = jobs[j].items[k] /\ jobs'[j].status = jobs[j].status
          /\ k \in S => j \notin U
      BY <1>15, <1>16, <2>3
    <3>2. k \in DOMAIN lines
      BY <3>1 DEF PaperInv, PaperItems
    <3>3. CASE k \in S
      <4>1. j \in C /\ ~Paper!Unclaimed(jobs[j])
        BY <1>4, <3>1, <3>3
      <4>2. PICK n \in DOMAIN claimed : claimed[n] = j
        BY <1>5, <4>1
      <4>3. Len(jobs) + n \in DOMAIN jobs' /\ jobs'[Len(jobs) + n] = slip(n)
        BY <1>9
      <4>4. /\ slip(n).kind = "slip" /\ slip(n).of = j /\ slip(n).items[k] = jobs[j].items[k]
        BY <1>7, <3>3, <4>2 DEF Paper!Only
      <4>5. lines'[k].status = "CANCELLED" /\ ~Paper!Unclaimed(jobs'[j])
        BY <1>3, <3>1, <3>3, <4>1 DEF Paper!Unclaimed
      <4>. QED BY <3>1, <4>3, <4>4, <4>5
    <3>4. CASE k \notin S
      <4>1. lines'[k] = lines[k]
        BY <1>3, <3>2, <3>4
      <4>2. IF lines[k].status = "CANCELLED"
            THEN jobs[j].status = "FAILED" \/ (~Paper!Unclaimed(jobs[j]) /\ SlipRecalls(j, k))
            ELSE jobs[j].items[k] = lines[k].quantity
        BY <3>1 DEF PaperInv, PaperItems
      <4>3. SlipRecalls(j, k) => \E s \in DOMAIN jobs' :
                                /\ jobs'[s].kind = "slip" /\ jobs'[s].of = j
                                /\ jobs'[s].items[k] = jobs'[j].items[k]
        <5>1. ASSUME NEW s \in DOMAIN jobs, jobs[s].kind = "slip"
              PROVE  s \in DOMAIN jobs' /\ jobs'[s] = jobs[s]
          BY <1>4, <1>6, <1>9, <5>1
        <5>. QED BY <3>1, <5>1 DEF SlipRecalls
      <4>. QED BY <3>1, <4>1, <4>2, <4>3 DEF Paper!Unclaimed
    <3>. QED BY <3>3, <3>4
  <2>. QED BY <2>1, <2>2, <2>3 DEF PaperItems, SlipRecalls, Paper!Unclaimed
<1>. QED BY <1>10, <1>11, <1>12, <1>14, <1>17 DEF PaperInv

\* Every step of the printers, their agents and the kitchen keeps the invariant.
LEMMA PaperNext == ASSUME PaperInv, Paper!Next PROVE PaperInv'
<1>1. ASSUME NEW d \in Devices, NEW t \in Paper!DeviceType, NEW a \in {"unset", "yes", "no"},
             Paper!CreateDevice(d, t, a)
      PROVE  PaperInv'
  BY <1>1, PaperCreateDevice
<1>2. ASSUME NEW d \in Devices, NEW dto \in Paper!DeviceChanges, Paper!UpdateDevice(d, dto)
      PROVE  PaperInv'
  BY <1>2, PaperUpdateDevice
<1>3. ASSUME NEW d \in Devices, Paper!DeleteDevice(d) PROVE PaperInv'
  BY <1>3, PaperDeleteDevice
<1>4. ASSUME NEW d \in Devices \cup {NoDevice}, Paper!AssignStation(d) PROVE PaperInv'
  BY <1>4, PaperAssignStation
<1>5. ASSUME NEW q \in {<< 2 >>, <<1, 2>>}, Paper!CreateTickets(q) PROVE PaperInv'
  <2>1. << 2 >> \in Seq(Nat \ {0}) /\ <<1, 2>> \in Seq(Nat \ {0})
    OBVIOUS
  <2>2. q \in Seq(Nat \ {0})
    BY <2>1
  <2>. QED BY <1>5, <2>2, PaperTicketStep
<1>6. ASSUME NEW l \in DOMAIN lines, Paper!SplitLine(l) PROVE PaperInv'
  BY <1>6, PaperSplitStep
<1>7. ASSUME NEW S \in SUBSET DOMAIN lines, Paper!CancelLines(S) PROVE PaperInv'
  BY <1>7, PaperCancelStep
<1>8. ASSUME NEW d \in Devices \cup {NoDevice},
             \/ Paper!Pay \/ Paper!ReadReceiptDevice \/ Paper!CreateAutomaticReceipt
             \/ Paper!ReprintReceipt(d) \/ Paper!CreatePrecheck(d)
      PROVE  PaperInv'
  BY <1>8, PaperReceiptSteps
<1>9. ASSUME NEW d \in Devices, Paper!ClaimJobs(d) PROVE PaperInv'
  BY <1>9, PaperClaimStep
<1>10. ASSUME NEW j \in DOMAIN jobs, Paper!LeaseEnds(j) \/ Paper!PrintPaper(j) PROVE PaperInv'
  BY <1>10, PaperLeaseSteps
<1>11. ASSUME NEW j \in DOMAIN jobs, NEW t \in DOMAIN jobs[j].claims, Paper!CompleteJob(j, t)
       PROVE  PaperInv'
  BY <1>11, PaperCompleteStep
<1>12. ASSUME NEW j \in DOMAIN jobs, NEW t \in DOMAIN jobs[j].claims,
              NEW outcome \in {"NOT_PRINTED", "UNKNOWN"}, Paper!FailJob(j, t, outcome)
       PROVE  PaperInv'
  BY <1>12, PaperFailStep
<1>13. ASSUME Paper!RecoverExpiredLeases PROVE PaperInv'
  BY <1>13, PaperRecoverStep
<1>14. ASSUME NEW j \in DOMAIN jobs, Paper!ResolveJob(j) PROVE PaperInv'
  BY <1>14, PaperResolveStep
<1>15. ASSUME NEW j \in DOMAIN jobs, NEW d \in Devices \cup {NoDevice}, Paper!RetryJob(j, d)
       PROVE  PaperInv'
  BY <1>15, PaperRetryStep
<1>. QED
  BY <1>1, <1>2, <1>3, <1>4, <1>5, <1>6, <1>7, <1>8, <1>9, <1>10, <1>11, <1>12, <1>13,
     <1>14,
     <1>15 DEF Paper!Next

LEMMA PaperStay == ASSUME PaperInv, UNCHANGED paperVars PROVE PaperInv'
BY DEF paperVars, PaperInv, Paper!TypeOK, JobSound, PaperPlaced, JobPlaced,
   Paper!Defaults, Paper!Compatible, Paper!Active,
       PaperReceipts, PaperItems, SlipRecalls

\* Of one doc the last claim alone can have brought out paper.
LEMMA PaperOnce ==
  ASSUME NEW doc, JobSound(doc)
  PROVE  /\ Paper!Papers(doc) \in {0, 1}
         /\ doc.status = "PRINTED" => Paper!Papers(doc) = 1
         /\ Paper!Papers(doc) = 1 => doc.status \in {"PRINTED", "PROCESSING", "REQUIRES_REVIEW"}
<1> DEFINE out == {t \in DOMAIN doc.claims : doc.claims[t] = "printed"}
           n == Len(doc.claims)
<1>1. n \in Nat /\ DOMAIN doc.claims = 1..n
  BY PaperJob
<1>2. \A t \in out : t = n
  BY <1>1 DEF JobSound
<1>3. doc.status = "PRINTED" => n \in out
  BY <1>1 DEF JobSound
<1>4. \A t \in out : doc.status \in {"PRINTED", "PROCESSING", "REQUIRES_REVIEW"}
  BY DEF JobSound
<1>5. Paper!Papers(doc) = Cardinality(out)
  BY PaperSums DEF Paper!Papers
<1> HIDE DEF out
<1>6. out = {} \/ out = {n}
  BY <1>2
<1>7. Cardinality({}) = 0 /\ Cardinality({n}) = 1
  BY FS_EmptySet, FS_Singleton
<1>8. CASE out = {}
  BY <1>3, <1>5, <1>7, <1>8
<1>9. CASE out = {n}
  BY <1>4, <1>5, <1>7, <1>9
<1>. QED BY <1>6, <1>8, <1>9

\* A set in which all elements are equal counts one at most.
LEMMA OneAtMost == ASSUME NEW S, \A x, y \in S : x = y PROVE Cardinality(S) <= 1
<1>1. ASSUME NEW x \in S PROVE Cardinality(S) <= 1
  <2>1. S = {x}
    OBVIOUS
  <2>. QED BY <2>1, FS_Singleton
<1>2. CASE S = {}
  BY <1>2, FS_EmptySet
<1>. QED BY <1>1, <1>2

\* What the tickets say of a line: nothing, or the whole of it once.
LEMMA PaperCounts ==
  ASSUME PaperInv, NEW l \in DOMAIN lines \ Paper!Cancelled
  PROVE  Paper!OnTickets(l) \in {0, lines[l].quantity}
<1> DEFINE f == [j \in DOMAIN jobs |-> jobs[j].items[l]]
           T == {j \in DOMAIN jobs : jobs[j].kind = "ticket" /\ jobs[j].status # "CANCELLED"}
<1>1. /\ DOMAIN jobs = 1..Len(jobs) /\ Len(jobs) \in Nat
      /\ DOMAIN lines = 1..Len(lines) /\ Len(lines) \in Nat /\ l \in Paper!LineIds
      /\ \A j \in DOMAIN jobs : JobSound(jobs[j])
  BY PaperNumbers DEF PaperInv, Paper!TypeOK, Paper!LineIds
<1>2. T \in SUBSET (DOMAIN jobs) /\ IsFiniteSet(T)
  <2>1. IsFiniteSet(DOMAIN jobs)
    BY <1>1, FS_Interval
  <2>. QED BY <2>1, FS_Subset
<1>3. \A j \in T : f[j] = jobs[j].items[l] /\ f[j] \in Nat
  BY <1>1, PaperJob
<1>4. \A j \in T : f[j] > 0 => f[j] = lines[l].quantity
  BY <1>1, <1>3 DEF PaperInv, PaperItems, Paper!Cancelled
<1>5. \A i, j \in T : f[i] > 0 /\ f[j] > 0 => i = j
  BY <1>1, <1>3 DEF PaperInv, PaperItems
<1>6. Paper!OnTickets(l) = Total(f, T)
  BY PaperSums DEF Paper!OnTickets
<1> HIDE DEF f, T
<1>7. CASE \A j \in T : f[j] = 0
  <2>1. Total(f, T) = 0
    BY <1>2, <1>7, TotalZero
  <2>. QED BY <1>6, <2>1
<1>8. ASSUME NEW j \in T, f[j] > 0 PROVE Paper!OnTickets(l) = lines[l].quantity
  <2>1. \A i \in T \ {j} : f[i] = 0
    BY <1>3, <1>5, <1>8
  <2>2. IsFiniteSet(T \ {j})
    BY <1>2, FS_Subset
  <2>3. Total(f, T \ {j}) = 0
    BY <2>1, <2>2, TotalZero
  <2>4. Total(f, T) = f[j] + Total(f, T \ {j})
    <3>1. IsFiniteSet(T) /\ \A i \in T : f[i] \in Int
      BY <1>2, <1>3
    <3>. QED BY <1>8, <3>1, TotalRemove
  <2>. QED BY <1>3, <1>4, <1>6, <1>8, <2>3, <2>4
<1>9. \A j \in T : f[j] = 0 \/ f[j] > 0
  BY <1>3
<1>. QED BY <1>7, <1>8, <1>9

LEMMA PaperTrue == PaperInv => Paper!PaperIsAccounted /\ Paper!KitchenPaperTrue
<1> SUFFICES ASSUME PaperInv PROVE Paper!PaperIsAccounted /\ Paper!KitchenPaperTrue
  OBVIOUS
<1>1. Cardinality(Paper!Defaults) <= 1
  BY OneAtMost DEF PaperInv, PaperPlaced
<1>2. Paper!DevicesConsistent
  BY <1>1, PaperSums DEF PaperInv, PaperPlaced, JobPlaced, Paper!DevicesConsistent
<1>3. Cardinality({j \in DOMAIN jobs : jobs[j].kind = "receipt"}) <= 1
  <2> DEFINE R == {j \in DOMAIN jobs : jobs[j].kind = "receipt"}
  <2>1. \A i, j \in R : i = j
    BY DEF PaperInv, PaperReceipts
  <2> HIDE DEF R
  <2>2. Cardinality(R) <= 1
    BY <2>1, OneAtMost
  <2>. QED BY <2>2 DEF R
<1>4. \A j \in DOMAIN jobs :
        /\ Paper!Papers(jobs[j]) <= 1
        /\ jobs[j].status = "PRINTED" => Paper!Papers(jobs[j]) = 1
        /\ Paper!Papers(jobs[j]) = 1 =>
             jobs[j].status \in {"PRINTED", "PROCESSING", "REQUIRES_REVIEW"}
  <2>1. \A j \in DOMAIN jobs : JobSound(jobs[j])
    BY DEF PaperInv
  <2>. QED BY <2>1, PaperOnce
<1>5. Paper!PaperIsAccounted
  BY <1>2, <1>3, <1>4, PaperSums DEF Paper!PaperIsAccounted, PaperInv
<1>6. \A l \in Paper!Cancelled : l \in Paper!LineIds /\ l \in DOMAIN lines /\ lines[l].status = "CANCELLED"
  BY PaperNumbers DEF PaperInv, Paper!TypeOK, Paper!Cancelled, Paper!LineIds
<1>7. Paper!KitchenPaperTrue
  BY <1>6, PaperCounts DEF Paper!KitchenPaperTrue, PaperInv, PaperItems, SlipRecalls
<1>. QED BY <1>5, <1>7

\* The invariant holds in every behaviour of the service.
LEMMA PaperAlways == Spec => [](on = "paper" => PaperInv)
<1> DEFINE I == on = "paper" => PaperInv
<1>1. Init => I
  BY PaperStart DEF Init
<1>2. I /\ [Next]_vars => I'
  <2> SUFFICES ASSUME I, [Next]_vars, on' = "paper" PROVE PaperInv'
    OBVIOUS
  <2>1. PaperInv /\ (Paper!Next \/ UNCHANGED paperVars)
    BY Turn
  <2>. QED BY <2>1, PaperNext, PaperStay
<1>. QED BY <1>1, <1>2, PTL DEF Spec

\* One job brings out one paper at most, a job whose paper is out is never one
\* that can be claimed again, and jobs lie with printers that may have them,
\* for any number of printers, jobs, lines and claims.  (claimJobs,
\* completeJob, failJob, recoverExpiredJobs, updateDevice, deleteDevice.)
THEOREM PapersAreAccounted == Spec => []PaperIsAccounted
<1>1. (on = "paper" => PaperInv) => PaperIsAccounted
  BY PaperTrue DEF PaperIsAccounted
<1>. QED BY <1>1, PaperAlways, PTL

-----------------------------------------------------------------------------
(* The kitchen display.  A line is on one ticket, with its quantity; what  *)
(* is still to be made waits at a station that works.                      *)

\* What is assumed of the constants of the service.
LEMMA KitchenNumbers ==
  /\ None \notin Stations
  /\ Preparations \subseteq Nat /\ Pickups \subseteq Nat
  /\ Portions \subseteq Nat \ {0}
  /\ MaxOrdered \in Nat
BY KitchenConstants

\* The counts, sums and lists of the module are those of the theorems.
LEMMA KitchenSums ==
  /\ \A f, S : Kitchen!Total(f, S) = Total(f, S)
  /\ \A S : Kitchen!Cardinality(S) = Cardinality(S)
  /\ \A S : Kitchen!InOrder(S) = InOrder(S)
<1>1. \A f, S : Kitchen!Total(f, S) = Total(f, S)
  BY DEF Kitchen!Total, Total, Kitchen!MapThenSumSet, Kitchen!MapThenFoldSet, MapThenSumSet, MapThenFoldSet
<1>2. \A S : Kitchen!Cardinality(S) = Cardinality(S)
  BY DEF Kitchen!Cardinality, Cardinality
<1>3. \A S : Kitchen!InOrder(S) = InOrder(S)
  BY DEF Kitchen!InOrder, InOrder, Kitchen!Cardinality, Cardinality
<1>. QED BY <1>1, <1>2, <1>3

StationRow == [row : {"NONE", "ACTIVE", "INACTIVE", "DELETED"}, sla : Nat]
DishRow == [life : {"NONE", "LIVE", "DELETED"}, station : Stations \cup {None}]
VisitRow == [kind : Kitchen!Kinds, status : {"NONE", "ACTIVE", "COMPLETED", "CANCELLED"}]
LineRow ==
  [dish : Dishes, visit : 1..2, quantity : Nat \ {0},
   status : {"PENDING", "COOKING", "READY", "SERVED", "CANCELLED"},
   paid : BOOLEAN, readyAt : BOOLEAN, remadeAs : Nat, replaces : Nat]
TicketRow ==
  [station : Stations, due : Int, availableAt : Int, items : [1..MaxOrdered -> Nat]]
KitchenTyped ==
  /\ clock \in Nat
  /\ bar \in [Stations -> StationRow]
  /\ dish \in [Dishes -> DishRow]
  /\ visit \in [1..2 -> VisitRow]
  /\ line \in Seq(LineRow) /\ Len(line) <= MaxOrdered
  /\ ticket \in Seq(TicketRow)

KitchenInv ==
  /\ KitchenTyped
  /\ \A l \in DOMAIN line : /\ line[l].status \in Kitchen!Preparing => ~line[l].readyAt
                            /\ line[l].status = "READY" => line[l].readyAt
  /\ \A t \in DOMAIN ticket :
       /\ ticket[t].availableAt <= ticket[t].due
       /\ \A l \in 1..MaxOrdered : ticket[t].items[l] > 0 =>
            l \in DOMAIN line /\ ticket[t].items[l] = line[l].quantity
  /\ \A t, u \in DOMAIN ticket : \A l \in 1..MaxOrdered :
       ticket[t].items[l] > 0 /\ ticket[u].items[l] > 0 => t = u
  /\ \A t \in DOMAIN ticket : \A l \in DOMAIN line :
       ticket[t].items[l] > 0 /\ line[l].status \in Kitchen!Preparing => Kitchen!Working(ticket[t].station)
  /\ \A d \in Dishes : dish[d].life = "LIVE" /\ dish[d].station # None =>
       Kitchen!Exists(dish[d].station)

\* Nothing was built or ordered.
LEMMA KitchenStart == Kitchen!Init => KitchenInv
<1> SUFFICES ASSUME Kitchen!Init PROVE KitchenInv
  OBVIOUS
<1>1. KitchenTyped
  BY KitchenNumbers
  DEF Kitchen!Init, KitchenTyped, StationRow, DishRow, VisitRow, Kitchen!Kinds,
     Kitchen!NoStation, Kitchen!NoDish, Kitchen!NoVisit
<1>2. DOMAIN line = {} /\ DOMAIN ticket = {}
  BY DEF Kitchen!Init
<1>3. \A d \in Dishes : dish[d].life = "NONE"
  BY DEF Kitchen!Init, Kitchen!NoDish
<1>. QED BY <1>1, <1>2, <1>3 DEF KitchenInv

\* A step that changes no more than stations and routes.
LEMMA KitchenHouse ==
  ASSUME KitchenInv, UNCHANGED <<visit, line, ticket>>, clock' \in Nat,
         bar' \in [Stations -> StationRow], dish' \in [Dishes -> DishRow],
         \A t \in DOMAIN ticket : Kitchen!Open(t) => bar'[ticket[t].station].row = "ACTIVE",
         \A d \in Dishes : dish'[d].life = "LIVE" /\ dish'[d].station # None =>
           bar'[dish'[d].station].row \in {"ACTIVE", "INACTIVE"}
  PROVE  KitchenInv'
<1>1. KitchenTyped'
  BY DEF KitchenInv, KitchenTyped
<1>2. ASSUME NEW t \in DOMAIN ticket, NEW l \in DOMAIN line,
             ticket[t].items[l] > 0, line[l].status \in Kitchen!Preparing
      PROVE  bar'[ticket[t].station].row = "ACTIVE"
  <2>1. Kitchen!Open(t)
    BY <1>2 DEF Kitchen!Open, Kitchen!StatusesOf, Kitchen!ItemsOf
  <2>. QED BY <2>1
<1>. QED BY <1>1, <1>2 DEF KitchenInv, Kitchen!Working, Kitchen!Exists

\* Stations and routes: a station is not switched off or deleted while it has
\* work, nor deleted while a dish is made there.
LEMMA KitchenHouseSteps ==
  ASSUME KitchenInv,
         \/ Kitchen!Tick
         \/ \E s \in Stations, sla \in Preparations :
              Kitchen!CreateStation(s, sla) \/ \E row \in {"ACTIVE", "INACTIVE"} : Kitchen!UpdateStation(s, row, sla)
         \/ \E s \in Stations : Kitchen!DeleteStation(s)
         \/ \E d \in Dishes : Kitchen!DeleteDish(d) \/ \E s \in Stations \cup {None} : Kitchen!RouteDish(d, s)
  PROVE  KitchenInv'
<1>0. KitchenTyped
  BY DEF KitchenInv
<1>1. \A t \in DOMAIN ticket : /\ ticket[t].station \in Stations
                               /\ Kitchen!Open(t) => bar[ticket[t].station].row = "ACTIVE"
  <2>1. ASSUME NEW t \in DOMAIN ticket, Kitchen!Open(t) PROVE Kitchen!Working(ticket[t].station)
    <3>1. PICK l \in DOMAIN line : ticket[t].items[l] > 0 /\ line[l].status \in Kitchen!Preparing
      BY <2>1 DEF Kitchen!Open, Kitchen!StatusesOf, Kitchen!ItemsOf
    <3>. QED BY <3>1 DEF KitchenInv
  <2>2. \A t \in DOMAIN ticket : ticket[t] \in TicketRow
    BY <1>0 DEF KitchenTyped
  <2>. QED BY <2>1, <2>2 DEF TicketRow, Kitchen!Working
<1>2. \A d \in Dishes : dish[d].life = "LIVE" /\ dish[d].station # None =>
        dish[d].station \in Stations /\ bar[dish[d].station].row \in {"ACTIVE", "INACTIVE"}
  BY <1>0 DEF KitchenInv, KitchenTyped, DishRow, Kitchen!Exists
<1>3. CASE Kitchen!Tick
  BY <1>0, <1>1, <1>2, <1>3, KitchenHouse DEF Kitchen!Tick, KitchenTyped
<1>4. ASSUME NEW s \in Stations, NEW sla \in Preparations, Kitchen!CreateStation(s, sla)
      PROVE  KitchenInv'
  BY <1>0, <1>1, <1>2, <1>4, KitchenNumbers, KitchenHouse
  DEF Kitchen!CreateStation, KitchenTyped, StationRow
<1>5. ASSUME NEW s \in Stations, NEW sla \in Preparations,
             NEW row \in {"ACTIVE", "INACTIVE"}, Kitchen!UpdateStation(s, row, sla)
      PROVE  KitchenInv'
  BY <1>0, <1>1, <1>2, <1>5, KitchenNumbers, KitchenHouse
  DEF Kitchen!UpdateStation, KitchenTyped, StationRow, Kitchen!Working,
     Kitchen!AssertNoActiveTickets
<1>6. ASSUME NEW s \in Stations, Kitchen!DeleteStation(s)
      PROVE  KitchenInv'
  BY <1>0, <1>1, <1>2, <1>6, KitchenHouse
  DEF Kitchen!DeleteStation, KitchenTyped, StationRow, Kitchen!AssertNoActiveTickets
<1>7. ASSUME NEW d \in Dishes, Kitchen!DeleteDish(d)
      PROVE  KitchenInv'
  BY <1>0, <1>1, <1>2, <1>7, KitchenHouse DEF Kitchen!DeleteDish, KitchenTyped, DishRow
<1>8. ASSUME NEW d \in Dishes, NEW s \in Stations \cup {None}, Kitchen!RouteDish(d, s)
      PROVE  KitchenInv'
  BY <1>0, <1>1, <1>2, <1>8, KitchenHouse DEF Kitchen!RouteDish, KitchenTyped, DishRow,
     Kitchen!Working
<1>. QED BY <1>3, <1>4, <1>5, <1>6, <1>7, <1>8

\* A step that keeps the lines and their portions and puts none of them back
\* to work.
LEMMA KitchenSameLines ==
  ASSUME KitchenInv, UNCHANGED <<clock, bar, dish, ticket>>,
         visit' \in [1..2 -> VisitRow], line' = [l \in DOMAIN line |-> line'[l]],
         \A l \in DOMAIN line :
           /\ line'[l] \in LineRow
           /\ line'[l].quantity = line[l].quantity
           /\ line'[l].status \in Kitchen!Preparing => /\ line[l].status \in Kitchen!Preparing
                                                       /\ line'[l].readyAt = line[l].readyAt
           /\ line'[l].status = "READY" => line'[l].readyAt
  PROVE  KitchenInv'
<1>0. /\ DOMAIN line' = DOMAIN line /\ DOMAIN line = 1..Len(line) /\ Len(line) \in Nat
      /\ Len(line) <= MaxOrdered
  BY DEF KitchenInv, KitchenTyped
<1>1. KitchenTyped' /\ DOMAIN line' = DOMAIN line
  <2>1. line' \in [1..Len(line) -> LineRow]
    BY <1>0
  <2>2. line' \in Seq(LineRow) /\ Len(line') = Len(line)
    BY <1>0, <2>1
  <2>. QED BY <1>0, <2>2 DEF KitchenInv, KitchenTyped
<1>2. \A l \in DOMAIN line' : /\ line'[l].status \in Kitchen!Preparing => ~line'[l].readyAt
                              /\ line'[l].status = "READY" => line'[l].readyAt
  BY <1>1 DEF KitchenInv
<1>3. \A t \in DOMAIN ticket : \A l \in DOMAIN line' :
        ticket[t].items[l] > 0 /\ line'[l].status \in Kitchen!Preparing => Kitchen!Working(ticket[t].station)
  BY <1>1 DEF KitchenInv
<1>. QED BY <1>1, <1>2, <1>3 DEF KitchenInv, Kitchen!Working, Kitchen!Exists

\* What the guests, the kitchen and the till do to lines that are there.
LEMMA KitchenLineSteps ==
  ASSUME KitchenInv,
         \/ \E l \in DOMAIN line :
              \/ \E to \in {"COOKING", "READY", "SERVED"} : Kitchen!ChangeItemStatus(l, to)
              \/ Kitchen!CancelItem(l) \/ Kitchen!SplitTable(l, TRUE)
         \/ \E v \in 1..2 : Kitchen!CancelSession(v) \/ Kitchen!PayVisit(v) \/ Kitchen!Collect(v) \/ Kitchen!CompleteSession(v)
  PROVE  KitchenInv'
<1>0. KitchenTyped
  BY DEF KitchenInv
<1>1. /\ line \in Seq(LineRow) /\ visit \in [1..2 -> VisitRow]
      /\ \A l \in DOMAIN line : line[l] \in LineRow /\ (line[l].status = "READY" => line[l].readyAt)
  BY DEF KitchenInv, KitchenTyped
<1>2. ASSUME NEW l \in DOMAIN line, NEW to \in {"COOKING", "READY", "SERVED"},
             Kitchen!ChangeItemStatus(l, to)
      PROVE  KitchenInv'
  <2> DEFINE row == [line[l] EXCEPT !.status = to, !.readyAt = @ \/ to = "READY"]
  <2>1. line' = [line EXCEPT ![l] = row] /\ UNCHANGED <<clock, bar, dish, visit, ticket>>
    BY <1>2 DEF Kitchen!ChangeItemStatus
  <2>2. Kitchen!Transition(line[l].status, to)
    BY <1>2 DEF Kitchen!ChangeItemStatus
  <2>3. /\ row \in LineRow /\ row.quantity = line[l].quantity /\ row.status = to
        /\ to # "READY" => row.readyAt = line[l].readyAt
        /\ to = "READY" => row.readyAt
    BY <1>1 DEF LineRow
  <2>4. to \in Kitchen!Preparing => line[l].status \in Kitchen!Preparing
    BY <2>2 DEF Kitchen!Transition, Kitchen!Preparing
  <2> HIDE DEF row
  <2>. QED BY <1>1, <2>1, <2>3, <2>4, KitchenSameLines DEF Kitchen!Preparing
<1>3. ASSUME NEW l \in DOMAIN line, Kitchen!CancelItem(l)
      PROVE  KitchenInv'
  <2> DEFINE row == [line[l] EXCEPT !.status = "CANCELLED"]
  <2>1. line' = [line EXCEPT ![l] = row] /\ UNCHANGED <<clock, bar, dish, visit, ticket>>
    BY <1>3 DEF Kitchen!CancelItem
  <2>2. /\ row \in LineRow /\ row.quantity = line[l].quantity
        /\ row.status \notin Kitchen!Preparing \cup {"READY"}
    BY <1>1 DEF LineRow, Kitchen!Preparing
  <2> HIDE DEF row
  <2>. QED BY <1>1, <2>1, <2>2, KitchenSameLines
<1>4. ASSUME NEW l \in DOMAIN line, Kitchen!SplitTable(l, TRUE)
      PROVE  KitchenInv'
  <2> DEFINE row == [line[l] EXCEPT !.visit = 2]
  <2>1. /\ line' = [line EXCEPT ![l] = row]
        /\ visit' = [visit EXCEPT ![2] = [kind |-> "table", status |-> "ACTIVE"]]
        /\ UNCHANGED <<clock, bar, dish, ticket>>
    BY <1>4 DEF Kitchen!SplitTable
  <2>2. visit' \in [1..2 -> VisitRow]
    BY <1>1, <2>1 DEF VisitRow, Kitchen!Kinds
  <2>3. /\ row \in LineRow /\ row.quantity = line[l].quantity
        /\ row.status = line[l].status /\ row.readyAt = line[l].readyAt
    <3>1. \A v \in 1..2 : [line[l] EXCEPT !.visit = v] \in LineRow
      BY <1>1 DEF LineRow
    <3>2. /\ row.quantity = line[l].quantity /\ row.status = line[l].status
          /\ row.readyAt = line[l].readyAt
      BY <1>1 DEF LineRow
    <3>. QED BY <3>1, <3>2
  <2> HIDE DEF row
  <2>. QED BY <1>1, <2>1, <2>2, <2>3, KitchenSameLines
<1>5. ASSUME NEW v \in 1..2, Kitchen!CancelSession(v)
      PROVE  KitchenInv'
  <2>1. /\ line' = Kitchen!Cancelled(v) /\ visit' = [visit EXCEPT ![v].status = "CANCELLED"]
        /\ UNCHANGED <<clock, bar, dish, ticket>>
    BY <1>5 DEF Kitchen!CancelSession
  <2>2. visit' \in [1..2 -> VisitRow]
    BY <1>1, <2>1 DEF VisitRow
  <2>3. \A l \in DOMAIN line :
          line'[l] \in {line[l], [line[l] EXCEPT !.status = "CANCELLED"]}
    BY <2>1 DEF Kitchen!Cancelled
  <2>4. \A l \in DOMAIN line :
          LET row == [line[l] EXCEPT !.status = "CANCELLED"] IN
          row \in LineRow /\ row.quantity = line[l].quantity /\ row.status = "CANCELLED"
    BY <1>1 DEF LineRow
  <2>5. line' = [l \in DOMAIN line |-> line'[l]]
    BY <2>1 DEF Kitchen!Cancelled
  <2>. QED BY <1>1, <2>1, <2>2, <2>3, <2>4, <2>5, KitchenSameLines DEF Kitchen!Preparing
<1>6. ASSUME NEW v \in 1..2, Kitchen!PayVisit(v)
      PROVE  KitchenInv'
  <2>1. PICK owing :
          /\ line' = [l \in DOMAIN line |-> IF l \in owing
                        THEN [line[l] EXCEPT !.paid = TRUE] ELSE line[l]]
          /\ visit' = visit \/ visit' = [visit EXCEPT ![v].status = "COMPLETED"]
          /\ UNCHANGED <<clock, bar, dish, ticket>>
    BY <1>6 DEF Kitchen!PayVisit
  <2>2. visit' \in [1..2 -> VisitRow]
    BY <1>1, <2>1 DEF VisitRow
  <2>3. \A l \in DOMAIN line : line'[l] \in {line[l], [line[l] EXCEPT !.paid = TRUE]}
    BY <2>1
  <2>4. \A l \in DOMAIN line :
          LET row == [line[l] EXCEPT !.paid = TRUE] IN
          /\ row \in LineRow /\ row.quantity = line[l].quantity
          /\ row.status = line[l].status /\ row.readyAt = line[l].readyAt
    BY <1>1 DEF LineRow
  <2>5. line' = [l \in DOMAIN line |-> line'[l]]
    BY <2>1
  <2>. QED BY <1>1, <2>1, <2>2, <2>3, <2>4, <2>5, KitchenSameLines
<1>7. ASSUME NEW v \in 1..2, Kitchen!Collect(v)
      PROVE  KitchenInv'
  <2>1. /\ line' = [l \in DOMAIN line |-> IF line[l].visit = v
                      THEN [line[l] EXCEPT !.paid = TRUE, !.status = "SERVED"] ELSE line[l]]
        /\ visit' = [visit EXCEPT ![v].status = "COMPLETED"]
        /\ UNCHANGED <<clock, bar, dish, ticket>>
    BY <1>7 DEF Kitchen!Collect
  <2>2. visit' \in [1..2 -> VisitRow]
    BY <1>1, <2>1 DEF VisitRow
  <2>3. \A l \in DOMAIN line :
          line'[l] \in {line[l], [line[l] EXCEPT !.paid = TRUE, !.status = "SERVED"]}
    BY <2>1
  <2>4. \A l \in DOMAIN line :
          LET row == [line[l] EXCEPT !.paid = TRUE, !.status = "SERVED"] IN
          row \in LineRow /\ row.quantity = line[l].quantity /\ row.status = "SERVED"
    BY <1>1 DEF LineRow
  <2>5. line' = [l \in DOMAIN line |-> line'[l]]
    BY <2>1
  <2>. QED BY <1>1, <2>1, <2>2, <2>3, <2>4, <2>5, KitchenSameLines DEF Kitchen!Preparing
<1>8. ASSUME NEW v \in 1..2, Kitchen!CompleteSession(v)
      PROVE  KitchenInv'
  <2>1. visit' \in [1..2 -> VisitRow]
    BY <1>1, <1>8 DEF Kitchen!CompleteSession, VisitRow
  <2>. QED BY <1>1, <1>8, <2>1, KitchenSameLines DEF Kitchen!CompleteSession
<1>. QED BY <1>2, <1>3, <1>4, <1>5, <1>6, <1>7, <1>8

\* A portion of a line that waits goes to another table, on the same ticket.
LEMMA KitchenSplit ==
  ASSUME KitchenInv, NEW l \in DOMAIN line, Kitchen!SplitTable(l, FALSE)
  PROVE  KitchenInv'
<1> DEFINE n == Len(line) + 1
           less == [line[l] EXCEPT !.quantity = @ - 1]
           new == Kitchen!NewLine(line[l].dish, 2, 1)
           On(t) == ticket[t].items[l] > 0
<1>1. /\ line \in Seq(LineRow) /\ DOMAIN line = 1..Len(line) /\ Len(line) \in Nat
      /\ ticket \in Seq(TicketRow) /\ visit \in [1..2 -> VisitRow]
      /\ line[l] \in LineRow /\ l \in Nat /\ l # n
      /\ \A t \in DOMAIN ticket : ticket[t] \in TicketRow
  BY DEF KitchenInv, KitchenTyped
<1>2. /\ line[l].quantity > 1 /\ line[l].status = "PENDING" /\ n <= MaxOrdered
      /\ line' = Append([line EXCEPT ![l] = less], new)
      /\ ticket' = [t \in DOMAIN ticket |-> IF l \in Kitchen!ItemsOf(t)
           THEN [ticket[t] EXCEPT !.items = [@ EXCEPT ![l] = line[l].quantity - 1,
                                                      ![n] = 1]]
           ELSE ticket[t]]
      /\ visit' = [visit EXCEPT ![2] = [kind |-> "table", status |-> "ACTIVE"]]
      /\ UNCHANGED <<clock, bar, dish>>
  BY DEF Kitchen!SplitTable, Kitchen!Room
<1>3. /\ less \in LineRow /\ less.quantity = line[l].quantity - 1
      /\ less.status = "PENDING" /\ less.readyAt = line[l].readyAt
  <2>1. line[l].quantity - 1 \in Nat \ {0}
    BY <1>1, <1>2 DEF LineRow
  <2>2. \A q \in Nat \ {0} : [line[l] EXCEPT !.quantity = q] \in LineRow
    BY <1>1 DEF LineRow
  <2>3. less.quantity = line[l].quantity - 1
    BY <1>1 DEF LineRow
  <2>4. less.status = "PENDING" /\ less.readyAt = line[l].readyAt
    BY <1>1, <1>2 DEF LineRow
  <2>. QED BY <2>1, <2>2, <2>3, <2>4
<1>4. /\ new \in LineRow /\ new.quantity = 1
      /\ new.status = "PENDING" /\ ~new.readyAt
  BY <1>1 DEF LineRow, Kitchen!NewLine
<1> HIDE DEF less, new
<1>5. /\ line' \in Seq(LineRow) /\ Len(line') = n /\ DOMAIN line' = 1..n
      /\ line'[l] = less /\ line'[n] = new
      /\ \A k \in DOMAIN line \ {l} : line'[k] = line[k]
  BY <1>1, <1>2, <1>3, <1>4
<1>6. ASSUME NEW t \in DOMAIN ticket
      PROVE  /\ ticket'[t] \in TicketRow /\ ticket'[t].station = ticket[t].station
             /\ ticket'[t].due = ticket[t].due /\ ticket'[t].availableAt = ticket[t].availableAt
             /\ \A k \in 1..MaxOrdered :
                  ticket'[t].items[k] =
                    IF On(t) /\ k = l THEN line[l].quantity - 1
                    ELSE IF On(t) /\ k = n THEN 1 ELSE ticket[t].items[k]
  <2>1. l \in Kitchen!ItemsOf(t) <=> On(t)
    BY DEF Kitchen!ItemsOf
  <2>2. CASE ~On(t)
    BY <1>1, <1>2, <2>1, <2>2
  <2>3. CASE On(t)
    <3> DEFINE some == [ticket[t].items EXCEPT ![l] = line[l].quantity - 1, ![n] = 1]
    <3>1. ticket'[t] = [ticket[t] EXCEPT !.items = some]
      BY <1>2, <2>1, <2>3
    <3>2. ticket[t] \in TicketRow /\ ticket[t].items \in [1..MaxOrdered -> Nat]
      BY <1>1 DEF TicketRow
    <3>3. line[l].quantity - 1 \in Nat /\ l \in 1..MaxOrdered /\ n \in 1..MaxOrdered
      BY <1>1, <1>2, KitchenNumbers DEF LineRow
    <3>4. some \in [1..MaxOrdered -> Nat]
      BY <3>2, <3>3
    <3>5. \A k \in 1..MaxOrdered :
            some[k] = IF k = l THEN line[l].quantity - 1
                      ELSE IF k = n THEN 1 ELSE ticket[t].items[k]
      BY <1>1, <3>2, <3>3
    <3> HIDE DEF some
    <3>. QED BY <2>3, <3>1, <3>2, <3>4, <3>5 DEF TicketRow
  <2>. QED BY <2>2, <2>3
<1>7. ticket' \in Seq(TicketRow) /\ DOMAIN ticket' = DOMAIN ticket
  <2>1. DOMAIN ticket' = DOMAIN ticket /\ DOMAIN ticket = 1..Len(ticket) /\ Len(ticket) \in Nat
    BY <1>1, <1>2
  <2>2. ticket' \in [1..Len(ticket) -> TicketRow]
    BY <1>2, <1>6, <2>1
  <2>. QED BY <2>1, <2>2
<1>8. KitchenTyped'
  <2>1. visit' \in [1..2 -> VisitRow]
    BY <1>1, <1>2 DEF VisitRow, Kitchen!Kinds
  <2>. QED BY <1>2, <1>5, <1>7, <2>1 DEF KitchenInv, KitchenTyped
<1>9. \A k \in DOMAIN line' : /\ line'[k].status \in Kitchen!Preparing => ~line'[k].readyAt
                              /\ line'[k].status = "READY" => line'[k].readyAt
  <2>1. ~line[l].readyAt
    BY <1>2 DEF KitchenInv, Kitchen!Preparing
  <2>. QED BY <1>1, <1>3, <1>4, <1>5, <2>1 DEF KitchenInv, Kitchen!Preparing
<1>10. \A t \in DOMAIN ticket : \A k \in 1..MaxOrdered :
         ticket[t].items[k] \in Nat /\ (ticket[t].items[k] > 0 => k \in DOMAIN line)
  BY <1>1 DEF KitchenInv, TicketRow
<1>11. ASSUME NEW t \in DOMAIN ticket', NEW k \in 1..MaxOrdered, ticket'[t].items[k] > 0
       PROVE  /\ k \in DOMAIN line' /\ ticket'[t].items[k] = line'[k].quantity
              /\ IF k = n THEN On(t) ELSE ticket[t].items[k] > 0
  <2>1. CASE k = n
    <3>1. n \notin DOMAIN line
      BY <1>1
    <3>2. ticket'[t].items[k] = IF On(t) THEN 1 ELSE ticket[t].items[k]
      BY <1>1, <1>6, <1>7, <2>1
    <3>3. On(t)
      BY <1>7, <1>10, <1>11, <2>1, <3>1, <3>2
    <3>4. n \in DOMAIN line'
      BY <1>1, <1>5
    <3>. QED BY <1>4, <1>5, <2>1, <3>2, <3>3, <3>4
  <2>2. CASE k = l
    BY <1>1, <1>3, <1>5, <1>6, <1>7, <1>10, <1>11, <2>2
  <2>3. CASE k # n /\ k # l
    <3>1. ticket'[t].items[k] = ticket[t].items[k]
      BY <1>6, <1>7, <2>3
    <3>2. k \in DOMAIN line /\ ticket[t].items[k] = line[k].quantity
      BY <1>7, <1>11, <3>1 DEF KitchenInv
    <3>3. line'[k] = line[k]
      BY <1>5, <2>3, <3>2
    <3>4. k \in DOMAIN line'
      BY <1>1, <1>5, <3>2
    <3>. QED BY <1>11, <2>3, <3>1, <3>2, <3>3, <3>4
  <2>. QED BY <2>1, <2>2, <2>3
<1>12. \A t \in DOMAIN ticket' : ticket'[t].availableAt <= ticket'[t].due
  BY <1>6, <1>7 DEF KitchenInv
<1>13. l \in 1..MaxOrdered
  BY <1>1, <1>2, KitchenNumbers
<1>14. \A t, u \in DOMAIN ticket' : \A k \in 1..MaxOrdered :
         ticket'[t].items[k] > 0 /\ ticket'[u].items[k] > 0 => t = u
  BY <1>7, <1>11, <1>13 DEF KitchenInv
<1>15. ASSUME NEW t \in DOMAIN ticket', NEW k \in DOMAIN line',
              ticket'[t].items[k] > 0, line'[k].status \in Kitchen!Preparing
       PROVE  bar'[ticket'[t].station].row = "ACTIVE"
  <2>1. k \in 1..MaxOrdered
    BY <1>1, <1>2, <1>5, KitchenNumbers
  <2>2. IF k = n THEN On(t) ELSE ticket[t].items[k] > 0
    BY <1>11, <1>15, <2>1
  <2>3. \E m \in DOMAIN line : ticket[t].items[m] > 0 /\ line[m].status \in Kitchen!Preparing
    <3>1. CASE k = n
      BY <1>2, <2>2, <3>1 DEF Kitchen!Preparing
    <3>2. CASE k # n
      BY <1>1, <1>2, <1>5, <1>15, <2>2, <3>2 DEF Kitchen!Preparing
    <3>. QED BY <3>1, <3>2
  <2>4. Kitchen!Working(ticket[t].station)
    BY <1>7, <2>3 DEF KitchenInv
  <2>. QED BY <1>2, <1>6, <1>7, <2>4 DEF Kitchen!Working
<1>16. \A d \in Dishes : dish'[d].life = "LIVE" /\ dish'[d].station # None =>
         Kitchen!Exists(dish[d].station)'
  BY <1>2 DEF KitchenInv, Kitchen!Exists
<1>17. \A t \in DOMAIN ticket' : \A k \in 1..MaxOrdered : ticket'[t].items[k] > 0 =>
         k \in DOMAIN line' /\ ticket'[t].items[k] = line'[k].quantity
  BY <1>11
<1>18. \A t \in DOMAIN ticket' : \A k \in DOMAIN line' :
         ticket'[t].items[k] > 0 /\ line'[k].status \in Kitchen!Preparing =>
           bar'[ticket'[t].station].row = "ACTIVE"
  BY <1>15
<1>. QED BY <1>2, <1>8, <1>9, <1>12, <1>14, <1>16, <1>17, <1>18 DEF KitchenInv,
   Kitchen!Working

\* The tickets of new rows: one for each station they go to, which works; each
\* carries the rows for its station, and is due no earlier than available.
LEMMA KitchenTickets ==
  ASSUME KitchenInv, NEW rows \in Seq(LineRow), Len(rows) <= MaxOrdered,
         NEW n \in Nat \ {0}, NEW wanted \in Nat, wanted > 0 => wanted > clock,
         \A l \in n..Len(rows) : Kitchen!Orderable(rows[l].dish)
  PROVE  LET C == Kitchen!CreateTickets(rows, n, wanted) IN
         /\ C \in Seq(TicketRow)
         /\ \A k \in DOMAIN C :
              /\ Kitchen!Working(C[k].station) /\ C[k].availableAt <= C[k].due
              /\ \A l \in 1..MaxOrdered : C[k].items[l] > 0 =>
                   /\ l \in n..Len(rows) /\ C[k].items[l] = rows[l].quantity
                   /\ C[k].station = dish[rows[l].dish].station
         /\ \A j, k \in DOMAIN C : C[j].station = C[k].station => j = k
<1> DEFINE To(l) == dish[rows[l].dish].station
           firsts == {l \in n..Len(rows) : To(l) # None /\ \A k \in n..(l - 1) : To(k) # To(l)}
           ranks == InOrder(firsts)
           C == Kitchen!CreateTickets(rows, n, wanted)
<1>1. C = [k \in DOMAIN ranks |-> Kitchen!NewTicket(To(ranks[k]), rows, n, wanted)]
  BY KitchenSums DEF Kitchen!CreateTickets
<1>2. Len(rows) \in Nat /\ \A l \in n..Len(rows) : rows[l] \in LineRow /\ l \in 1..Len(rows)
  OBVIOUS
<1>3. ASSUME NEW l \in firsts
      PROVE  To(l) \in Stations /\ Kitchen!Working(To(l))
  <2>1. rows[l] \in LineRow /\ Kitchen!Orderable(rows[l].dish) /\ To(l) # None
    BY <1>2
  <2>2. rows[l].dish \in Dishes /\ dish[rows[l].dish] \in DishRow
    BY <2>1 DEF LineRow, KitchenInv, KitchenTyped
  <2>. QED BY <2>1, <2>2 DEF Kitchen!Orderable, DishRow
<1>4. \A l, m \in firsts : To(l) = To(m) => l = m
  <2> SUFFICES ASSUME NEW l \in firsts, NEW m \in firsts, l < m PROVE To(l) # To(m)
    <3>1. \A l \in firsts : l \in Int
      OBVIOUS
    <3>. QED BY <3>1
  <2>1. l \in n..(m - 1)
    OBVIOUS
  <2>. QED BY <2>1
<1>5. /\ DOMAIN ranks = 1..Cardinality(firsts) /\ Cardinality(firsts) \in Nat
      /\ \A k \in DOMAIN ranks : ranks[k] \in firsts
      /\ \A j, k \in DOMAIN ranks : ranks[j] = ranks[k] => j = k
  <2>1. firsts \in SUBSET (1..Len(rows))
    BY <1>2
  <2> HIDE DEF firsts
  <2>. QED BY <1>2, <2>1, OrderLists
<1>6. ASSUME NEW s \in Stations
      PROVE  LET T == Kitchen!NewTicket(s, rows, n, wanted) IN
             /\ T \in TicketRow /\ T.station = s /\ T.availableAt <= T.due
             /\ \A l \in 1..MaxOrdered : T.items[l] > 0 =>
                  /\ l \in n..Len(rows) /\ T.items[l] = rows[l].quantity /\ s = To(l)
  <2> DEFINE due == IF wanted > 0 THEN wanted ELSE clock + bar[s].sla
             start == due - bar[s].sla
             at == IF start > clock THEN start ELSE clock
             some == [l \in 1..MaxOrdered |->
               IF l \in n..Len(rows) /\ dish[rows[l].dish].station = s
               THEN rows[l].quantity ELSE 0]
  <2>1. Kitchen!NewTicket(s, rows, n, wanted) =
          [station |-> s, due |-> due, availableAt |-> at, items |-> some]
    BY DEF Kitchen!NewTicket
  <2>2. clock \in Nat /\ bar[s].sla \in Nat
    BY DEF KitchenInv, KitchenTyped, StationRow
  <2>3. due \in Int /\ at \in Int /\ at <= due
    BY <2>2
  <2>4. some \in [1..MaxOrdered -> Nat]
    BY <1>2 DEF LineRow
  <2>5. \A l \in 1..MaxOrdered : some[l] > 0 =>
          l \in n..Len(rows) /\ some[l] = rows[l].quantity /\ s = To(l)
    OBVIOUS
  <2> HIDE DEF due, at, some
  <2>. QED BY <2>1, <2>3, <2>4, <2>5 DEF TicketRow
<1> HIDE DEF firsts, ranks, C
<1>7. /\ DOMAIN C = DOMAIN ranks
      /\ \A k \in DOMAIN C : C[k] = Kitchen!NewTicket(To(ranks[k]), rows, n, wanted)
                             /\ To(ranks[k]) \in Stations /\ Kitchen!Working(To(ranks[k]))
  BY <1>1, <1>3, <1>5
<1>8. \A k \in DOMAIN C : C[k] \in TicketRow /\ C[k].station = To(ranks[k])
  BY <1>6, <1>7
<1>9. C \in Seq(TicketRow)
  <2>1. C \in [1..Cardinality(firsts) -> TicketRow]
    BY <1>1, <1>5, <1>7, <1>8
  <2>. QED BY <1>5, <2>1
<1>10. \A k \in DOMAIN C :
         /\ Kitchen!Working(C[k].station) /\ C[k].availableAt <= C[k].due
         /\ \A l \in 1..MaxOrdered : C[k].items[l] > 0 =>
              /\ l \in n..Len(rows) /\ C[k].items[l] = rows[l].quantity
              /\ C[k].station = To(l)
  BY <1>6, <1>7, <1>8
<1>11. \A j, k \in DOMAIN C : C[j].station = C[k].station => j = k
  BY <1>4, <1>5, <1>7, <1>8
<1>. QED BY <1>9, <1>10, <1>11 DEF C

\* New rows and their tickets.
LEMMA KitchenOrdered ==
  ASSUME KitchenInv, NEW rows \in Seq(LineRow), Len(rows) <= MaxOrdered,
         Len(rows) >= Len(line), NEW wanted \in Nat, wanted > 0 => wanted > clock,
         \A l \in DOMAIN line : /\ rows[l].quantity = line[l].quantity
                                /\ rows[l].status = line[l].status
                                /\ rows[l].readyAt = line[l].readyAt,
         \A l \in (Len(line) + 1)..Len(rows) :
           /\ rows[l].status = "PENDING" /\ ~rows[l].readyAt
           /\ Kitchen!Orderable(rows[l].dish),
         line' = rows, ticket' = ticket \o Kitchen!CreateTickets(rows, Len(line) + 1, wanted),
         visit' \in [1..2 -> VisitRow], UNCHANGED <<clock, bar, dish>>
  PROVE  KitchenInv'
<1> DEFINE n == Len(line) + 1
           C == Kitchen!CreateTickets(rows, n, wanted)
           old == Len(ticket)
<1>1. /\ line \in Seq(LineRow) /\ DOMAIN line = 1..Len(line) /\ Len(line) \in Nat
      /\ ticket \in Seq(TicketRow) /\ DOMAIN ticket = 1..old /\ old \in Nat
      /\ DOMAIN rows = 1..Len(rows) /\ Len(rows) \in Nat /\ n \in Nat \ {0}
      /\ MaxOrdered \in Nat
  BY KitchenNumbers DEF KitchenInv, KitchenTyped
<1>2. /\ C \in Seq(TicketRow)
      /\ \A k \in DOMAIN C :
           /\ Kitchen!Working(C[k].station) /\ C[k].availableAt <= C[k].due
           /\ \A l \in 1..MaxOrdered : C[k].items[l] > 0 =>
                /\ l \in n..Len(rows) /\ C[k].items[l] = rows[l].quantity
                /\ C[k].station = dish[rows[l].dish].station
      /\ \A j, k \in DOMAIN C : C[j].station = C[k].station => j = k
  BY <1>1, KitchenTickets
<1> HIDE DEF C
<1>3. ticket' = ticket \o C
  BY DEF C
<1>4. /\ ticket' \in Seq(TicketRow)
      /\ \A t \in DOMAIN ticket' : \/ t \in DOMAIN ticket /\ ticket'[t] = ticket[t]
                                   \/ t > old /\ t - old \in DOMAIN C /\ ticket'[t] = C[t - old]
      /\ \A t \in DOMAIN ticket' : t \in Nat
  <2>1. \A t \in 1..(old + Len(C)) : t \in 1..old \/ t \in (old + 1)..(old + Len(C))
    BY <1>1, <1>2
  <2>2. /\ ticket' \in Seq(TicketRow) /\ DOMAIN ticket' = 1..(old + Len(C))
        /\ DOMAIN C = 1..Len(C) /\ Len(C) \in Nat
        /\ \A t \in 1..old : ticket'[t] = ticket[t]
        /\ \A t \in (old + 1)..(old + Len(C)) :
             t - old \in 1..Len(C) /\ ticket'[t] = C[t - old]
    <3>0. ticket \in Seq(TicketRow) /\ C \in Seq(TicketRow)
      BY <1>1, <1>2
    <3>1. /\ ticket \o C \in Seq(TicketRow)
          /\ DOMAIN (ticket \o C) = 1..(Len(ticket) + Len(C))
          /\ DOMAIN C = 1..Len(C) /\ Len(C) \in Nat
          /\ \A t \in 1..Len(ticket) : (ticket \o C)[t] = ticket[t]
          /\ \A t \in (Len(ticket) + 1)..(Len(ticket) + Len(C)) :
               t - Len(ticket) \in 1..Len(C) /\ (ticket \o C)[t] = C[t - Len(ticket)]
      BY <3>0, Concatenated
    <3>. QED BY <1>3, <3>1, Zenon
  <2>3. \A t \in (old + 1)..(old + Len(C)) : t \in Nat /\ t > old
    BY <1>1, <2>2
  <2>4. \A t \in DOMAIN ticket' : t \in Nat
    BY <1>1, <2>2
  <2>5. ASSUME NEW t \in DOMAIN ticket'
        PROVE  \/ t \in DOMAIN ticket /\ ticket'[t] = ticket[t]
               \/ t > old /\ t - old \in DOMAIN C /\ ticket'[t] = C[t - old]
    <3>1. CASE t \in 1..old
      BY <1>1, <2>2, <3>1, Zenon
    <3>2. CASE t \in (old + 1)..(old + Len(C))
      BY <2>2, <2>3, <3>2, Zenon
    <3>. QED BY <2>1, <2>2, <3>1, <3>2, Zenon
  <2>. QED BY <2>2, <2>4, <2>5
<1>5. KitchenTyped'
  BY <1>4 DEF KitchenInv, KitchenTyped
<1>6. \A l \in DOMAIN rows : l \in DOMAIN line \/ l \in n..Len(rows)
  BY <1>1
<1>7. \A l \in DOMAIN line' : /\ line'[l].status \in Kitchen!Preparing => ~line'[l].readyAt
                              /\ line'[l].status = "READY" => line'[l].readyAt
  <2> SUFFICES ASSUME NEW l \in DOMAIN rows
               PROVE  /\ rows[l].status \in Kitchen!Preparing => ~rows[l].readyAt
                      /\ rows[l].status = "READY" => rows[l].readyAt
    OBVIOUS
  <2>1. CASE l \in DOMAIN line
    BY <2>1 DEF KitchenInv
  <2>2. CASE l \in n..Len(rows)
    BY <2>2
  <2>. QED BY <1>6, <2>1, <2>2
<1>8. \A t \in DOMAIN ticket' : ticket'[t].availableAt <= ticket'[t].due
  BY <1>2, <1>4 DEF KitchenInv
<1>9. ASSUME NEW t \in DOMAIN ticket', NEW l \in 1..MaxOrdered, ticket'[t].items[l] > 0
      PROVE  /\ l \in DOMAIN line' /\ ticket'[t].items[l] = line'[l].quantity
             /\ t \in DOMAIN ticket <=> l \in DOMAIN line
  <2>1. CASE t \in DOMAIN ticket /\ ticket'[t] = ticket[t]
    <3>1. l \in DOMAIN line /\ ticket[t].items[l] = line[l].quantity
      BY <1>9, <2>1 DEF KitchenInv
    <3>2. l \in DOMAIN line' /\ line'[l].quantity = line[l].quantity
      BY <1>1, <3>1
    <3>. QED BY <2>1, <3>1, <3>2
  <2>2. CASE t > old /\ t - old \in DOMAIN C /\ ticket'[t] = C[t - old]
    <3>1. l \in n..Len(rows) /\ C[t - old].items[l] = rows[l].quantity
      BY <1>2, <1>9, <2>2
    <3>. QED BY <1>1, <1>4, <2>2, <3>1
  <2>. QED BY <1>4, <2>1, <2>2
<1>10. ASSUME NEW t \in DOMAIN ticket', NEW u \in DOMAIN ticket', NEW l \in 1..MaxOrdered,
              ticket'[t].items[l] > 0, ticket'[u].items[l] > 0
       PROVE  t = u
  <2>1. t \in DOMAIN ticket <=> u \in DOMAIN ticket
    BY <1>9, <1>10
  <2>2. CASE t \in DOMAIN ticket
    <3>1. ticket'[t] = ticket[t] /\ ticket'[u] = ticket[u]
      BY <1>1, <1>4, <2>1, <2>2
    <3>. QED BY <1>10, <2>1, <2>2, <3>1 DEF KitchenInv
  <2>3. CASE t \notin DOMAIN ticket
    <3>1. /\ t - old \in DOMAIN C /\ ticket'[t] = C[t - old]
          /\ u - old \in DOMAIN C /\ ticket'[u] = C[u - old]
      BY <1>4, <2>1, <2>3
    <3>2. C[t - old].station = C[u - old].station
      <4>1. C[t - old].items[l] > 0 /\ C[u - old].items[l] > 0
        BY <1>10, <3>1
      <4>. QED BY <1>2, <3>1, <4>1
    <3>3. t - old = u - old /\ t \in Nat /\ u \in Nat
      BY <1>2, <1>4, <3>1, <3>2
    <3>. QED BY <1>1, <3>3
  <2>. QED BY <2>2, <2>3
<1>11. ASSUME NEW t \in DOMAIN ticket', NEW l \in DOMAIN line',
              ticket'[t].items[l] > 0, line'[l].status \in Kitchen!Preparing
       PROVE  Kitchen!Working(ticket'[t].station)
  <2>0. l \in 1..MaxOrdered
    BY <1>1
  <2>1. CASE t \in DOMAIN ticket /\ ticket'[t] = ticket[t]
    <3>1. l \in DOMAIN line
      BY <1>9, <1>11, <2>0, <2>1
    <3>2. line[l].status \in Kitchen!Preparing
      BY <1>11, <3>1
    <3>. QED BY <1>11, <2>1, <3>1, <3>2 DEF KitchenInv
  <2>2. CASE t - old \in DOMAIN C /\ ticket'[t] = C[t - old]
    BY <1>2, <2>2
  <2>. QED BY <1>4, <2>1, <2>2
<1>12. \A t \in DOMAIN ticket' : \A l \in 1..MaxOrdered : ticket'[t].items[l] > 0 =>
         l \in DOMAIN line' /\ ticket'[t].items[l] = line'[l].quantity
  BY <1>9
<1>13. \A t \in DOMAIN ticket' : \A l \in DOMAIN line' :
         ticket'[t].items[l] > 0 /\ line'[l].status \in Kitchen!Preparing =>
           bar'[ticket'[t].station].row = "ACTIVE"
  BY <1>11 DEF Kitchen!Working
<1>14. \A d \in Dishes : dish'[d].life = "LIVE" /\ dish'[d].station # None =>
         Kitchen!Exists(dish[d].station)'
  BY DEF KitchenInv, Kitchen!Exists
<1>15. \A t, u \in DOMAIN ticket' : \A l \in 1..MaxOrdered :
         ticket'[t].items[l] > 0 /\ ticket'[u].items[l] > 0 => t = u
  BY <1>10
<1>. QED BY <1>5, <1>7, <1>8, <1>12, <1>13, <1>14, <1>15 DEF KitchenInv, Kitchen!Working

\* Orders of guests and the dish that is made again.
LEMMA KitchenOrders ==
  ASSUME KitchenInv,
         \/ \E kind \in Kitchen!Kinds, q \in Portions, wanted \in Pickups, size \in 1..MaxOrdered :
              \E ds \in [1..size -> Dishes] : Kitchen!AddOrderItems(kind, ds, q, wanted)
         \/ \E l \in DOMAIN line : Kitchen!RemakeItem(l)
  PROVE  KitchenInv'
<1>1. /\ line \in Seq(LineRow) /\ DOMAIN line = 1..Len(line) /\ Len(line) \in Nat
      /\ visit \in [1..2 -> VisitRow] /\ \A l \in DOMAIN line : line[l] \in LineRow
  BY DEF KitchenInv, KitchenTyped
<1>2. ASSUME NEW kind \in Kitchen!Kinds, NEW q \in Portions, NEW wanted \in Pickups,
             NEW size \in 1..MaxOrdered, NEW ds \in [1..size -> Dishes],
             Kitchen!AddOrderItems(kind, ds, q, wanted)
      PROVE  KitchenInv'
  <2> DEFINE more == [k \in DOMAIN ds |-> Kitchen!NewLine(ds[k], 1, q)]
             rows == line \o more
  <2>1. /\ Len(line) + Len(ds) <= MaxOrdered
        /\ \A k \in DOMAIN ds : Kitchen!Orderable(ds[k])
        /\ wanted > 0 => wanted > clock
        /\ visit' = [visit EXCEPT ![1] = [kind |-> kind, status |-> "ACTIVE"]]
        /\ line' = rows /\ ticket' = ticket \o Kitchen!CreateTickets(rows, Len(line) + 1, wanted)
        /\ UNCHANGED <<clock, bar, dish>>
    BY <1>2 DEF Kitchen!AddOrderItems, Kitchen!Room
  <2>2. wanted \in Nat /\ q \in Nat \ {0} /\ size \in Nat
    BY KitchenNumbers
  <2>3. DOMAIN ds = 1..size /\ Len(ds) = size
    BY <2>2
  <2>4. \A d \in Dishes : LET row == Kitchen!NewLine(d, 1, q) IN
          /\ row \in LineRow /\ row.status = "PENDING" /\ ~row.readyAt /\ row.dish = d
    BY <2>2 DEF Kitchen!NewLine, LineRow
  <2>5. /\ more \in Seq(LineRow) /\ Len(more) = size
        /\ \A k \in 1..size : more[k] = Kitchen!NewLine(ds[k], 1, q)
    <3>1. more \in [1..size -> LineRow]
      BY <2>3, <2>4
    <3>. QED BY <2>2, <2>3, <3>1
  <2> HIDE DEF more
  <2>6. /\ rows \in Seq(LineRow) /\ Len(rows) = Len(line) + size
        /\ \A l \in DOMAIN line : rows[l] = line[l]
        /\ \A l \in (Len(line) + 1)..Len(rows) :
             l - Len(line) \in 1..size /\ rows[l] = Kitchen!NewLine(ds[l - Len(line)], 1, q)
    <3>1. /\ rows \in Seq(LineRow) /\ Len(rows) = Len(line) + size
          /\ \A l \in 1..Len(line) : rows[l] = line[l]
          /\ \A l \in (Len(line) + 1)..(Len(line) + size) :
               l - Len(line) \in 1..size /\ rows[l] = more[l - Len(line)]
      BY <1>1, <2>5, Concatenated
    <3> HIDE DEF rows
    <3>. QED BY <1>1, <2>5, <3>1
  <2> HIDE DEF rows
  <2>7. visit' \in [1..2 -> VisitRow]
    BY <1>1, <2>1 DEF VisitRow
  <2>8. \A l \in (Len(line) + 1)..Len(rows) :
          rows[l].status = "PENDING" /\ ~rows[l].readyAt /\ Kitchen!Orderable(rows[l].dish)
    <3> SUFFICES ASSUME NEW l \in (Len(line) + 1)..Len(rows)
                 PROVE  rows[l].status = "PENDING" /\ ~rows[l].readyAt /\ Kitchen!Orderable(rows[l].dish)
      OBVIOUS
    <3> DEFINE d == ds[l - Len(line)]
    <3>1. rows[l] = Kitchen!NewLine(d, 1, q) /\ d \in Dishes /\ Kitchen!Orderable(d)
      BY <2>1, <2>3, <2>6
    <3> HIDE DEF d
    <3>. QED BY <2>4, <3>1
  <2>9. Len(rows) <= MaxOrdered /\ Len(rows) >= Len(line)
    BY <1>1, <2>1, <2>2, <2>3, <2>6
  <2>. QED BY <2>1, <2>2, <2>6, <2>7, <2>8, <2>9, KitchenOrdered
<1>3. ASSUME NEW l \in DOMAIN line, Kitchen!RemakeItem(l)
      PROVE  KitchenInv'
  <2> DEFINE n == Len(line) + 1
             old == [line[l] EXCEPT !.remadeAs = n]
             again == [Kitchen!NewLine(line[l].dish, line[l].visit, line[l].quantity) EXCEPT
                         !.paid = TRUE, !.replaces = l]
             rows == Append([line EXCEPT ![l] = old], again)
  <2>1. /\ n <= MaxOrdered /\ Kitchen!Orderable(line[l].dish)
        /\ line' = rows /\ ticket' = ticket \o Kitchen!CreateTickets(rows, n, 0)
        /\ UNCHANGED <<clock, bar, dish, visit>>
    BY <1>3 DEF Kitchen!RemakeItem, Kitchen!Room
  <2>2. /\ old \in LineRow /\ old.quantity = line[l].quantity
        /\ old.status = line[l].status
    <3>1. \A m \in Nat : [line[l] EXCEPT !.remadeAs = m] \in LineRow
      BY <1>1 DEF LineRow
    <3>2. old.quantity = line[l].quantity /\ old.status = line[l].status
      BY <1>1 DEF LineRow
    <3>. QED BY <1>1, <3>1, <3>2
  <2>3. old.readyAt = line[l].readyAt
    BY <1>1 DEF LineRow
  <2>4. /\ again \in LineRow /\ again.status = "PENDING" /\ ~again.readyAt
        /\ again.dish = line[l].dish
    <3>1. line[l].dish \in Dishes /\ line[l].visit \in 1..2 /\ line[l].quantity \in Nat \ {0}
      BY <1>1 DEF LineRow
    <3>0. l \in Nat
      BY <1>1
    <3> DEFINE fresh == Kitchen!NewLine(line[l].dish, line[l].visit, line[l].quantity)
    <3>2. /\ fresh \in LineRow /\ fresh.status = "PENDING" /\ ~fresh.readyAt
          /\ fresh.dish = line[l].dish
      BY <3>1 DEF LineRow, Kitchen!NewLine
    <3>3. again = [fresh EXCEPT !.paid = TRUE, !.replaces = l]
      OBVIOUS
    <3> HIDE DEF fresh, again
    <3>4. again \in LineRow
      BY <3>0, <3>2, <3>3 DEF LineRow
    <3>5. again.status = fresh.status /\ again.dish = fresh.dish
      BY <3>2, <3>3 DEF LineRow
    <3>6. again.readyAt = fresh.readyAt
      BY <3>2, <3>3 DEF LineRow
    <3>. QED BY <3>2, <3>4, <3>5, <3>6
  <2> HIDE DEF old, again
  <2>5. /\ rows \in Seq(LineRow) /\ Len(rows) = n /\ rows[n] = again /\ rows[l] = old
        /\ \A k \in DOMAIN line \ {l} : rows[k] = line[k]
    BY <1>1, <2>2, <2>4
  <2> HIDE DEF rows
  <2>6. \A k \in DOMAIN line : /\ rows[k].quantity = line[k].quantity
                               /\ rows[k].status = line[k].status
                               /\ rows[k].readyAt = line[k].readyAt
    BY <2>2, <2>3, <2>5
  <2>7. \A k \in n..Len(rows) : k = n
    BY <1>1, <2>5
  <2>8. \A k \in n..Len(rows) :
          rows[k].status = "PENDING" /\ ~rows[k].readyAt /\ Kitchen!Orderable(rows[k].dish)
    BY <2>1, <2>4, <2>5, <2>7
  <2>9. Len(rows) >= Len(line) /\ Len(rows) <= MaxOrdered /\ 0 \in Nat /\ ~(0 > 0)
    BY <1>1, <2>1, <2>5
  <2>10. visit' \in [1..2 -> VisitRow]
    BY <1>1, <2>1
  <2>. QED BY <2>1, <2>5, <2>6, <2>8, <2>9, <2>10, KitchenOrdered
<1>. QED BY <1>2, <1>3

\* Every step keeps the kitchen's books.
LEMMA KitchenNext == KitchenInv /\ Kitchen!Next => KitchenInv'
<1> SUFFICES ASSUME KitchenInv, Kitchen!Next PROVE KitchenInv'
  OBVIOUS
<1>1. \A whole \in BOOLEAN : whole = TRUE \/ whole = FALSE
  OBVIOUS
<1>. QED BY <1>1, KitchenHouseSteps, KitchenLineSteps, KitchenSplit,
   KitchenOrders DEF Kitchen!Next

LEMMA KitchenStay == KitchenInv /\ UNCHANGED kitchenVars => KitchenInv'
BY DEF KitchenInv, KitchenTyped, kitchenVars, Kitchen!Working, Kitchen!Exists

\* What the screens say follows from the books.
LEMMA KitchenTrue == KitchenInv => Kitchen!KitchenSeesWork
<1> SUFFICES ASSUME KitchenInv PROVE Kitchen!KitchenSeesWork
  OBVIOUS
<1> DEFINE Stages == {"PENDING", "COOKING", "READY", "SERVED", "CANCELLED"}
<1>1. /\ DOMAIN line = 1..Len(line) /\ Len(line) \in Nat /\ Len(line) <= MaxOrdered
      /\ MaxOrdered \in Nat /\ clock \in Nat
      /\ \A l \in DOMAIN line : line[l] \in LineRow /\ l \in 1..MaxOrdered
      /\ \A t \in DOMAIN ticket : ticket[t] \in TicketRow
  BY KitchenNumbers DEF KitchenInv, KitchenTyped
<1>2. ASSUME NEW t \in DOMAIN ticket
      PROVE  /\ ticket[t].station \in Stations /\ ticket[t].due \in Int
             /\ ticket[t].availableAt \in Int /\ ticket[t].availableAt <= ticket[t].due
             /\ Kitchen!StatusesOf(t) \subseteq Stages
  <2>1. ticket[t] \in TicketRow
    BY <1>1
  <2>2. Kitchen!StatusesOf(t) \subseteq Stages
    BY <1>1 DEF Kitchen!StatusesOf, Kitchen!ItemsOf, LineRow
  <2>. QED BY <2>1, <2>2 DEF TicketRow, KitchenInv
<1>3. ASSUME NEW t \in DOMAIN ticket, Kitchen!Open(t) PROVE Kitchen!Working(ticket[t].station)
  <2>1. PICK l \in Kitchen!ItemsOf(t) : line[l].status \in Kitchen!Preparing
    BY <1>3 DEF Kitchen!Open, Kitchen!StatusesOf
  <2>. QED BY <2>1 DEF KitchenInv, Kitchen!ItemsOf
<1>4. ASSUME NEW t \in DOMAIN ticket, Kitchen!Open(t), Kitchen!Available(t)
      PROVE  Kitchen!Listed(t) /\ t \in Kitchen!Workload(ticket[t].station)
  BY <1>3, <1>4 DEF Kitchen!Listed, Kitchen!Workload, Kitchen!Open, Kitchen!Preparing,
     Kitchen!Working, Kitchen!Exists
<1>5. \A t \in DOMAIN ticket : \A l \in Kitchen!ItemsOf(t) : ticket[t].items[l] = line[l].quantity
  BY <1>1 DEF KitchenInv, Kitchen!ItemsOf
<1>6. ASSUME NEW t \in DOMAIN ticket
      PROVE  Kitchen!TicketState(t) \in {"PENDING", "IN_PROGRESS"} <=> Kitchen!Open(t)
  BY <1>2 DEF Kitchen!TicketState, Kitchen!Open, Kitchen!Preparing
<1>7. ASSUME NEW t \in DOMAIN ticket, Kitchen!Late(t) PROVE Kitchen!Available(t)
  BY <1>1, <1>2, <1>7 DEF Kitchen!Late, Kitchen!Available
<1>8. \A t \in DOMAIN ticket : Kitchen!IsOverdue(t) <=> Kitchen!Open(t) /\ Kitchen!Late(t)
  BY <1>6 DEF Kitchen!IsOverdue
<1>9. ASSUME NEW t \in Kitchen!SlaOverdue
      PROVE  Kitchen!IsOverdue(t) \/ \E l \in Kitchen!ItemsOf(t) : line[l].status = "SERVED" /\ ~line[l].readyAt
  <2>1. t \in DOMAIN ticket /\ Kitchen!Late(t)
    BY DEF Kitchen!SlaOverdue
  <2>2. PICK l \in Kitchen!ItemsOf(t) : line[l].status # "CANCELLED" /\ ~line[l].readyAt
    BY DEF Kitchen!SlaOverdue, Kitchen!Waiting
  <2>3. l \in DOMAIN line /\ line[l].status \in Stages /\ line[l].status # "READY"
    BY <1>1, <2>2 DEF Kitchen!ItemsOf, LineRow, KitchenInv
  <2>4. CASE line[l].status \in Kitchen!Preparing
    BY <1>8, <2>1, <2>4 DEF Kitchen!Open, Kitchen!StatusesOf
  <2>. QED BY <2>2, <2>3, <2>4 DEF Kitchen!Preparing
<1>10. ASSUME NEW l \in DOMAIN line
       PROVE  Cardinality({t \in DOMAIN ticket : l \in Kitchen!ItemsOf(t)}) <= 1
  <2> DEFINE On == {t \in DOMAIN ticket : l \in Kitchen!ItemsOf(t)}
  <2>1. \A t, u \in On : t = u
    BY <1>1 DEF KitchenInv, Kitchen!ItemsOf
  <2> HIDE DEF On
  <2>2. Cardinality(On) <= 1
    BY <2>1, OneAtMost
  <2>. QED BY <2>2 DEF On
<1>11. \A d \in Dishes : dish[d].life = "LIVE" /\ dish[d].station # None =>
         Kitchen!Exists(dish[d].station)
  BY DEF KitchenInv
<1>12. Kitchen!OverdueKitchen = {t \in DOMAIN ticket : Kitchen!Open(t) /\ Kitchen!Late(t)}
  BY <1>3, <1>7 DEF Kitchen!OverdueKitchen, Kitchen!Working, Kitchen!Exists
<1>13. {t \in DOMAIN ticket : Kitchen!IsOverdue(t)} = Kitchen!OverdueKitchen
  BY <1>8, <1>12
<1>14. Kitchen!OverdueKitchen = UNION {{t \in Kitchen!Workload(s) : Kitchen!Late(t)} : s \in Stations}
  <2>1. ASSUME NEW t \in Kitchen!OverdueKitchen
        PROVE  \E s \in Stations : t \in Kitchen!Workload(s) /\ Kitchen!Late(t)
    BY <1>2, <1>4, <1>7, <1>12
  <2>2. ASSUME NEW s \in Stations, NEW t \in Kitchen!Workload(s), Kitchen!Late(t)
        PROVE  t \in Kitchen!OverdueKitchen
    BY <1>12, <2>2 DEF Kitchen!Workload
  <2>. QED BY <2>1, <2>2
<1>15. Kitchen!OverdueKitchen \subseteq Kitchen!SlaOverdue
  <2> SUFFICES ASSUME NEW t \in Kitchen!OverdueKitchen PROVE t \in Kitchen!SlaOverdue
    OBVIOUS
  <2>1. t \in DOMAIN ticket /\ Kitchen!Late(t) /\ Kitchen!Open(t) /\ Kitchen!Available(t)
    BY <1>7, <1>12
  <2>2. PICK l \in Kitchen!ItemsOf(t) : line[l].status \in Kitchen!Preparing
    BY <2>1 DEF Kitchen!Open, Kitchen!StatusesOf
  <2>3. Kitchen!Waiting(l)
    BY <2>2 DEF Kitchen!Waiting, KitchenInv, Kitchen!ItemsOf, Kitchen!Preparing
  <2>. QED BY <2>1, <2>2, <2>3 DEF Kitchen!SlaOverdue
<1>16. \A t \in DOMAIN ticket : Kitchen!IsOverdue(t) => Kitchen!Listed(t)
  BY <1>4, <1>7, <1>8
<1>. QED
  BY <1>3, <1>4, <1>5, <1>9, <1>10, <1>11, <1>13, <1>14, <1>15,
     <1>16, KitchenSums DEF Kitchen!KitchenSeesWork

\* The invariant holds in every behaviour of the service.
LEMMA KitchenAlways == Spec => [](on = "kitchen" => KitchenInv)
<1> DEFINE I == on = "kitchen" => KitchenInv
<1>1. Init => I
  BY KitchenStart DEF Init
<1>2. I /\ [Next]_vars => I'
  <2> SUFFICES ASSUME I, [Next]_vars, on' = "kitchen" PROVE KitchenInv'
    OBVIOUS
  <2>1. KitchenInv /\ (Kitchen!Next \/ UNCHANGED kitchenVars)
    BY Turn
  <2>. QED BY <2>1, KitchenNext, KitchenStay
<1>. QED BY <1>1, <1>2, PTL DEF Spec

\* The papers and the screens of the kitchen say what the order lines say, and
\* what is still to be made waits where someone works, for any constants.
\* (cancelKitchenItems, splitKitchenItems, createTickets, deleteStation,
\* getOverdueKitchenTickets.)
THEOREM KitchenIsInformed == Spec => []KitchenInformed
<1>1. (on = "paper" => PaperInv) /\ (on = "kitchen" => KitchenInv) => KitchenInformed
  BY PaperTrue, KitchenTrue DEF KitchenInformed
<1>. QED BY <1>1, PaperAlways, KitchenAlways, PTL

-----------------------------------------------------------------------------
(* Pickup codes.  A code is known by its version, which only grows, and    *)
(* nothing but a new version changes when a code was issued.               *)

CounterInv ==
  /\ hours \in 0..MaxHours /\ pickup \in Counter!Pickup /\ opinion \in Counter!Opinion
  /\ opinion # Counter!NoOpinion => Counter!Collected

LEMMA CounterConstants ==
  MaxHours \in Nat /\ MaxPickupCodeVersion \in Nat /\ CodeTTL \in Nat
BY RecordsConstants

LEMMA CounterStart == Counter!Init => CounterInv
  BY CounterConstants
  DEF Counter!Init, CounterInv, Counter!Pickup, Counter!Null, Counter!Opinion

\* What a step does to the code, with the clock or with a new version.
LEMMA CounterCodes ==
  ASSUME CounterInv, Counter!Next \/ UNCHANGED counterVars
  PROVE  /\ hours' \in 0..MaxHours /\ pickup' \in Counter!Pickup
         /\ \A code \in 0..pickup.version : ~Counter!Verified(code) => ~Counter!Verified(code)'
<1>1. /\ hours \in 0..MaxHours /\ hours \in Nat /\ pickup \in Counter!Pickup
      /\ pickup.version \in 0..MaxPickupCodeVersion /\ pickup.issuedAt \in -1..MaxHours
  BY CounterConstants DEF CounterInv, Counter!Pickup, Counter!Null
<1>2. CASE \E at \in {hours, -1} :
             /\ hours' = hours /\ pickup.version < MaxPickupCodeVersion
             /\ pickup' = [pickup EXCEPT !.version = @ + 1, !.issuedAt = at]
  <2>1. PICK at \in {hours, -1} :
          pickup' = [pickup EXCEPT !.version = @ + 1, !.issuedAt = at]
    BY <1>2
  <2>2. pickup.version + 1 \in 0..MaxPickupCodeVersion /\ at \in -1..MaxHours
    BY <1>1, <1>2, CounterConstants
  <2>3. pickup' \in Counter!Pickup /\ pickup'.version = pickup.version + 1
    BY <1>1, <2>1, <2>2 DEF Counter!Pickup, Counter!Null
  <2>. QED BY <1>1, <1>2, <2>3, CounterConstants DEF Counter!Verified
<1>3. CASE /\ hours' = hours \/ (hours < MaxHours /\ hours' = hours + 1)
           /\ pickup' = pickup \/ pickup' = [pickup EXCEPT !.payment = "REFUNDED"]
  <2>1. /\ pickup' \in Counter!Pickup /\ pickup'.version = pickup.version
        /\ pickup'.issuedAt = pickup.issuedAt
    BY <1>1, <1>3 DEF Counter!Pickup
  <2>2. Counter!IssuedAt' = Counter!IssuedAt /\ Counter!IssuedAt \in Int
    BY <1>1, <2>1, CounterConstants DEF Counter!IssuedAt
  <2>3. ASSUME Counter!Unexpired' PROVE Counter!Unexpired
    BY <1>1, <1>3, <2>2, <2>3, CounterConstants DEF Counter!Unexpired, Counter!Null
  <2>. QED BY <1>1, <1>3, <2>1, <2>3, CounterConstants DEF Counter!Verified
<1>. QED
  BY <1>2, <1>3
  DEF Counter!Next, counterVars, Counter!Tick, Counter!IssuePickupCode, Counter!Refund,
      Counter!RotatePickupCode, Counter!RevokePickupCode, Counter!HandoffWithPickupCode,
      Counter!SubmitTakeawayFeedback, Counter!Finish, Counter!ServeAtCounter,
      Counter!ResolveTakeawayFeedback, Counter!NextVersion, Counter!MayRotate, Counter!Null

\* What a step does to the feedback and to the cups it speaks of.
LEMMA CounterFeedback ==
  ASSUME CounterInv, Counter!Next \/ UNCHANGED counterVars
  PROVE  /\ opinion' \in Counter!Opinion
         /\ opinion' # Counter!NoOpinion => Counter!Collected'
         /\ opinion # Counter!NoOpinion => opinion'.rating = opinion.rating
         /\ opinion.resolved # "no" => opinion' = opinion
<1>1. /\ opinion \in Counter!Opinion /\ Counter!NoOpinion.resolved = "no"
      /\ opinion # Counter!NoOpinion => Counter!Collected
  BY DEF CounterInv, Counter!NoOpinion
<1>2. Counter!Collected => Counter!Collected'
  BY DEF Counter!Collected, Counter!Next, counterVars, Counter!Tick, Counter!IssuePickupCode,
     Counter!Refund, Counter!RotatePickupCode, Counter!RevokePickupCode,
     Counter!HandoffWithPickupCode, Counter!SubmitTakeawayFeedback, Counter!Finish,
     Counter!ServeAtCounter, Counter!ResolveTakeawayFeedback
<1>3. CASE \E code \in Counter!Codes, rating \in Ratings :
             Counter!SubmitTakeawayFeedback(code, rating)
  <2>1. opinion' \in Counter!Opinion /\ Counter!Collected /\ opinion = Counter!NoOpinion
    BY <1>3 DEF Counter!SubmitTakeawayFeedback, Counter!Opinion
  <2>. QED BY <1>1, <1>2, <2>1
<1>4. CASE \E resolution \in Resolutions : Counter!ResolveTakeawayFeedback(resolution)
  <2>1. PICK resolution \in Resolutions :
          /\ opinion \in [rating : Ratings, resolved : {"no"} \cup Resolutions]
          /\ opinion.resolved = "no" /\ opinion # Counter!NoOpinion
          /\ opinion' = [opinion EXCEPT !.resolved = resolution]
    BY <1>1, <1>4 DEF Counter!ResolveTakeawayFeedback, Counter!Opinion
  <2>2. opinion' \in Counter!Opinion /\ opinion'.rating = opinion.rating
    BY <2>1 DEF Counter!Opinion
  <2>. QED BY <1>1, <1>2, <2>1, <2>2
<1>5. CASE UNCHANGED opinion
  BY <1>1, <1>2, <1>5
<1>. QED
  BY <1>3, <1>4, <1>5
  DEF Counter!Next, counterVars, Counter!Tick, Counter!IssuePickupCode, Counter!Refund,
      Counter!RotatePickupCode, Counter!RevokePickupCode, Counter!HandoffWithPickupCode,
      Counter!Finish, Counter!ServeAtCounter

\* A dead code stays dead, a complaint is resolved once.
LEMMA CounterDead ==
  ASSUME CounterInv, Counter!Next \/ UNCHANGED counterVars
  PROVE  CounterInv' /\ Counter!CodesStayDead
BY CounterCodes, CounterFeedback DEF CounterInv, Counter!CodesStayDead

\* The invariant holds in every behaviour of the service.
LEMMA CounterAlways == Spec => [](on = "counter" => CounterInv)
<1> DEFINE I == on = "counter" => CounterInv
<1>1. Init => I
  BY CounterStart DEF Init
<1>2. I /\ [Next]_vars => I'
  <2> SUFFICES ASSUME I, [Next]_vars, on' = "counter" PROVE CounterInv'
    OBVIOUS
  <2>1. CounterInv /\ (Counter!Next \/ UNCHANGED counterVars)
    BY Turn
  <2>. QED BY <2>1, CounterDead
<1>. QED BY <1>1, <1>2, PTL DEF Spec

-----------------------------------------------------------------------------
(* What was settled is not undone: whatever step would write a settled row *)
(* is refused by what its handler reads in the transaction of the write.   *)

\* A step leaves a decided reservation as it is, but for its session, and an
\* answered request.
LEMMA FloorFinal ==
  ASSUME FloorTypes, Floor!Next \/ UNCHANGED floorVars
  PROVE  Floor!DecisionsFinal
<1>1. DOMAIN booking = Bookings /\ DOMAIN asked = BookingRequests
  BY DEF FloorTypes
<1>2. \A row \in BookingRow :
        /\ row = [row EXCEPT !.session = row.session]
        /\ [row EXCEPT !.session = "ENDED"].session = "ENDED"
  BY DEF BookingRow
<1>3. ASSUME NEW b \in Bookings, Floor!Is(b, {"ARRIVED", "CANCELLED", "NO_SHOW"})
      PROVE  booking'[b] = [booking[b] EXCEPT !.session = booking'[b].session]
  <2>1. booking[b] \in BookingRow
    BY <1>3 DEF FloorTypes, Floor!Is, Floor!NoBooking
  <2>2. \/ booking'[b] = booking[b]
        \/ booking'[b] = [booking[b] EXCEPT !.session = "ENDED"]
    <3>1. ASSUME NEW c \in Bookings,
                 \/ \E t \in Tables, q \in BookingRequests : Floor!ApproveRequest(q, t, c)
                 \/ \E t \in Tables, w \in Floor!Window : Floor!Create(c, t, w)
                 \/ \E dto \in Floor!Changes : Floor!ReadForUpdate(c, dto)
                 \/ \E e \in edit[c] : Floor!WriteUpdate(c, e)
                 \/ Floor!Cancel(c) \/ Floor!CheckIn(c)
          PROVE  booking'[b] = booking[b]
      BY <1>1, <1>3, <3>1
      DEF Floor!ApproveRequest, Floor!Create, Floor!ReadForUpdate, Floor!WriteUpdate,
          Floor!Unmodified, Floor!Cancel, Floor!CheckIn, Floor!Is
    <3>2. CASE Floor!MarkOverdueNoShows \/ \E t \in Tables : Floor!EndSession(t)
      BY <1>3, <3>2 DEF Floor!MarkOverdueNoShows, Floor!EndSession, Floor!Is
    <3>3. CASE \/ UNCHANGED booking
               \/ \E q \in BookingRequests :
                    \/ \E w \in Floor!Window : Floor!CreatePublicRequest(q, w)
                    \/ Floor!CancelPublicRequest(q) \/ Floor!RejectRequest(q)
               \/ \E t \in Tables : Floor!SeatWalkIn(t) \/ Floor!DeleteTable(t)
               \/ Floor!MarkExpiredPublicRequests \/ Floor!TimePasses
      BY <3>3 DEF Floor!CreatePublicRequest, Floor!CancelPublicRequest, Floor!RejectRequest,
                  Floor!SeatWalkIn, Floor!DeleteTable, Floor!MarkExpiredPublicRequests,
                  Floor!TimePasses
    <3>. QED BY <3>1, <3>2, <3>3 DEF Floor!Next, floorVars
  <2>. QED BY <1>2, <2>1, <2>2
<1>4. ASSUME NEW q \in BookingRequests, asked[q].status \notin {"NONE", "PENDING"}
      PROVE  asked'[q] = asked[q]
  <2>1. CASE \E p \in BookingRequests :
               \/ \E w \in Floor!Window : Floor!CreatePublicRequest(p, w)
               \/ Floor!CancelPublicRequest(p) \/ Floor!RejectRequest(p)
               \/ \E t \in Tables, b \in Bookings : Floor!ApproveRequest(p, t, b)
    BY <1>1, <1>4, <2>1 DEF Floor!CreatePublicRequest, Floor!CancelPublicRequest,
                            Floor!RejectRequest, Floor!ApproveRequest
  <2>2. CASE Floor!MarkExpiredPublicRequests
    BY <1>4, <2>2 DEF Floor!MarkExpiredPublicRequests
  <2>3. CASE \/ UNCHANGED asked
             \/ \E b \in Bookings :
                  \/ \E t \in Tables, w \in Floor!Window : Floor!Create(b, t, w)
                  \/ \E dto \in Floor!Changes : Floor!ReadForUpdate(b, dto)
                  \/ \E e \in edit[b] : Floor!WriteUpdate(b, e)
                  \/ Floor!Cancel(b) \/ Floor!CheckIn(b)
             \/ \E t \in Tables :
                  Floor!SeatWalkIn(t) \/ Floor!EndSession(t) \/ Floor!DeleteTable(t)
             \/ Floor!MarkOverdueNoShows \/ Floor!TimePasses
    BY <2>3 DEF Floor!Create, Floor!ReadForUpdate, Floor!WriteUpdate, Floor!Cancel,
                Floor!CheckIn, Floor!SeatWalkIn, Floor!EndSession, Floor!DeleteTable,
                Floor!MarkOverdueNoShows, Floor!TimePasses
  <2>. QED BY <2>1, <2>2, <2>3 DEF Floor!Next, floorVars
<1>. QED BY <1>3, <1>4 DEF Floor!DecisionsFinal

\* A step leaves a posted or cancelled document as it is.
LEMMA StockFinal ==
  ASSUME DocumentTypes, Stock!Next \/ UNCHANGED stockVars
  PROVE  Stock!DocumentsFinal
<1>1. DOMAIN stocktake = Stocktakes /\ DOMAIN receipt = Receipts
  BY DEF DocumentTypes
<1>2. CASE \/ \E i \in Items, k \in Stocktakes : Stock!UpdateCount(k, i)
           \/ \E k \in Stocktakes : \/ \E S \in SUBSET Items : Stock!CreateStocktake(k, S)
                                    \/ Stock!PostStocktake(k) \/ Stock!CancelStocktake(k)
  BY <1>1, <1>2 DEF Stock!UpdateCount, Stock!CreateStocktake, Stock!PostStocktake,
                    Stock!CancelStocktake, Stock!Draft, Stock!DocumentsFinal
<1>3. CASE \E d \in Receipts :
             \/ \E goods \in Stock!ReceiptLines :
                  Stock!CreateReceipt(d, goods) \/ Stock!UpdateReceipt(d, goods)
             \/ Stock!Review(d) \/ Stock!PostReceipt(d) \/ Stock!CancelReceipt(d)
  BY <1>1, <1>3 DEF Stock!CreateReceipt, Stock!UpdateReceipt, Stock!Review, Stock!PostReceipt,
                    Stock!CancelReceipt, Stock!AsReviewed, Stock!Draft, Stock!DocumentsFinal
<1>4. CASE \/ UNCHANGED stockVars \/ Stock!RemoveSupplier
           \/ \E i \in Items :
                \/ \E q \in Quantities :
                     Stock!CreateItem(i, q) \/ Stock!ImportItem(i, q) \/ Stock!ExportItem(i, q)
                \/ Stock!RemoveItem(i) \/ Stock!Reserve(i) \/ Stock!Release(i)
                \/ Stock!Consume(i) \/ Stock!Spoil(i)
  <2>1. UNCHANGED <<stocktake, receipt>>
    BY <1>4 DEF stockVars, Stock!RemoveSupplier, Stock!CreateItem, Stock!ImportItem,
                Stock!ExportItem, Stock!RemoveItem, Stock!Reserve, Stock!Release,
                Stock!Consume, Stock!Spoil, Stock!documents
  <2>. QED BY <2>1 DEF Stock!DocumentsFinal
<1>. QED BY <1>2, <1>3, <1>4 DEF Stock!Next

\* A step leaves a used or expired reset link so, and gives an ended family no session.
LEMMA LoginFinal ==
  ASSUME LoginInv, Login!Next \/ UNCHANGED loginVars
  PROVE  Login!RevocationsFinal
<1>1. DOMAIN resetToken = 1..MaxTokens /\ DOMAIN issued = Families
  BY DEF LoginInv, LoginTypes
<1>0. \A S : \A t \in DOMAIN resetToken :
        Login!UsedUp(S)[t] \in {resetToken[t], "USED"}
          /\ DOMAIN Login!UsedUp(S) = DOMAIN resetToken
  BY DEF Login!UsedUp
<1>2. ASSUME NEW t \in DOMAIN resetToken, resetToken[t] \in {"EXPIRED", "USED"}
      PROVE  resetToken'[t] \in {"EXPIRED", "USED"}
  <2>1. CASE \E u \in DOMAIN resetToken :
               Login!RequestReset(u) \/ Login!IssueReset(u) \/ Login!TokenExpires(u)
                 \/ Login!ResetPassword(u)
    BY <1>0, <1>2, <2>1 DEF Login!RequestReset, Login!IssueReset, Login!TokenExpires,
       Login!ResetPassword, Login!Usable
  <2>2. CASE Login!CommitChange
    BY <1>0, <1>2, <2>2 DEF Login!CommitChange, Login!resets
  <2>3. CASE ~Login!CommitChange /\ ~\E u \in DOMAIN resetToken :
               Login!RequestReset(u) \/ Login!IssueReset(u) \/ Login!TokenExpires(u)
                 \/ Login!ResetPassword(u)
    <3>1. UNCHANGED resetToken
      BY <2>3 DEF Login!Next, loginVars, Login!sessions, Login!resets, Login!SignUp,
         Login!VerifyPassword, Login!VerifyGoogle, Login!SignInRefused, Login!CreateSession,
         Login!ConsumeToken, Login!ReuseToken, Login!CommitRotation, Login!AbortRotation,
         Login!RevokeFamily, Login!RevocationLost, Login!Logout, Login!LinkGoogle,
         Login!UnlinkGoogle, Login!BeginChange
    <3>. QED BY <1>2, <3>1
  <2>. QED BY <2>1, <2>2, <2>3
<1>3. ASSUME NEW f \in ended \ overlapped PROVE issued'[f] = issued[f]
  <2>1. f \in Families /\ ~Login!Fresh(f) /\ rotating[f] = 0
    BY <1>3 DEF LoginInv, LoginTypes, FamiliesFair, FamilyFair
  <2>2. CASE \E g \in Families : \/ \E s \in signingIn : Login!CreateSession(s, g)
                                 \/ Login!CommitRotation(g)
    BY <1>1, <2>1, <2>2 DEF Login!CreateSession, Login!CommitRotation
  <2>3. CASE ~\E g \in Families : \/ \E s \in signingIn : Login!CreateSession(s, g)
                                  \/ Login!CommitRotation(g)
    <3>1. UNCHANGED issued
      BY <2>3 DEF Login!Next, loginVars, Login!sessions, Login!SignUp, Login!VerifyPassword,
         Login!VerifyGoogle, Login!SignInRefused, Login!ConsumeToken,
         Login!ReuseToken, Login!AbortRotation, Login!RevokeFamily,
         Login!RevocationLost, Login!Logout, Login!RequestReset, Login!IssueReset, Login!TokenExpires,
         Login!ResetPassword, Login!LinkGoogle, Login!UnlinkGoogle, Login!BeginChange,
         Login!CommitChange
    <3>. QED BY <3>1
  <2>. QED BY <2>2, <2>3
<1>. QED BY <1>2, <1>3 DEF Login!RevocationsFinal

\* What an employee may do changes with the row of the employee or with a
\* role the employee has.
LEMMA StaffMay ==
  ASSUME StaffInv, NEW e \in People, staff'[e] = staff[e],
         \A r \in CustomRoles \ Staff!SystemRoles :
           r \in staff[e].roles => role'[r] = role[r]
  PROVE  Staff!Permissions(e)' = Staff!Permissions(e)
<1>1. staff[e].roles \cap Staff!LiveRoles' = staff[e].roles \cap Staff!LiveRoles
  BY DEF Staff!LiveRoles
<1>2. \A r \in staff[e].roles \cap Staff!LiveRoles : Staff!Grants(r)' = Staff!Grants(r)
  BY DEF Staff!Grants, Staff!LiveRoles
<1>3. Staff!RoleKeys(e)' = Staff!RoleKeys(e)
  BY <1>1, <1>2 DEF Staff!RoleKeys
<1>. QED BY <1>3 DEF Staff!Permissions, Staff!Active

\* A step gives or takes only what somebody else who asks for it has.
LEMMA StaffGranted ==
  ASSUME StaffInv, Staff!Next \/ UNCHANGED staffVars
  PROVE  Staff!AccessIsGranted
<1> SUFFICES ASSUME NEW e \in People,
                    Staff!Permissions(e) # Staff!Permissions(e)', staff[e].row # "NONE"
             PROVE  \E a \in People \ {e} :
                      /\ request[a] # "none" /\ request'[a] = "none"
                      /\ (Staff!Permissions(e) \ Staff!Permissions(e)')
                           \cup (Staff!Permissions(e)' \ Staff!Permissions(e))
                           \subseteq Staff!Permissions(a)
  BY DEF Staff!AccessIsGranted
<1> DEFINE before == Staff!Permissions(e)
           after == Staff!Permissions(e)'
<1>1. /\ DOMAIN staff = People /\ DOMAIN role = CustomRoles /\ DOMAIN request = People
      /\ staff[e].roles \subseteq Staff!LiveRoles
  BY DEF StaffInv, Staff!AccessSound
<1>2. \/ staff'[e] # staff[e]
      \/ \E r \in CustomRoles \ Staff!SystemRoles :
           r \in staff[e].roles /\ role'[r] # role[r]
  BY StaffMay
<1>3. ASSUME NEW a \in People, NEW r \in CustomRoles, Staff!DeleteRole(a, r) PROVE FALSE
  BY <1>1, <1>2, <1>3 DEF Staff!DeleteRole
<1>4. ASSUME NEW a \in People, NEW r \in CustomRoles, NEW template,
             Staff!CreateRole(a, r, template)
      PROVE  FALSE
  BY <1>1, <1>2, <1>4 DEF Staff!CreateRole, Staff!LiveRoles
<1>5. ASSUME NEW a \in People, NEW r \in CustomRoles, NEW keys,
             Staff!ReplaceRolePermissions(a, r, keys)
      PROVE  /\ a \in People \ {e} /\ request[a] # "none" /\ request'[a] = "none"
             /\ (before \ after) \cup (after \ before) \subseteq Staff!Permissions(a)
  <2>1. /\ staff' = staff /\ role[r].row = "LIVE"
        /\ role' = [role EXCEPT ![r].grants = keys]
        /\ role[r].grants \cup keys \subseteq Staff!Permissions(a) /\ r \notin staff[a].roles
    BY <1>5 DEF Staff!ReplaceRolePermissions, Staff!ManagesRole, Staff!CanGrant
  <2>2. r \in staff[e].roles /\ a # e
    BY <1>1, <1>2, <2>1
  <2>3. /\ Staff!LiveRoles' = Staff!LiveRoles
        /\ \A s \in Staff!LiveRoles \ {r} : Staff!Grants(s)' = Staff!Grants(s)
        /\ Staff!Grants(r)' = Staff!Grants(r)
             \/ (Staff!Grants(r) = role[r].grants /\ Staff!Grants(r)' = keys)
    <3>1. role \in [CustomRoles -> Staff!Role]
      BY DEF StaffInv, Staff!AccessSound
    <3>2. role'[r].row = "LIVE" /\ role'[r].grants = keys
          /\ \A s \in CustomRoles \ {r} : role'[s] = role[s]
      BY <2>1, <3>1 DEF Staff!Role
    <3>. QED BY <2>1, <3>2 DEF Staff!LiveRoles, Staff!Grants
  <2>4. ASSUME NEW key \in (before \ after) \cup (after \ before)
        PROVE  key \in Staff!Permissions(a)
    <3>1. key \in (Staff!RoleKeys(e) \ Staff!RoleKeys(e)')
                    \cup (Staff!RoleKeys(e)' \ Staff!RoleKeys(e))
      BY <2>1 DEF Staff!Permissions, Staff!Active
    <3>2. key \in role[r].grants \cup keys
      BY <2>1, <2>3, <3>1 DEF Staff!RoleKeys
    <3>. QED BY <2>1, <3>2
  <2>5. request[a] # "none" /\ request'[a] = "none"
    BY <1>1, <1>5 DEF Staff!ReplaceRolePermissions, Staff!Answer
  <2>. QED BY <2>2, <2>4, <2>5
<1>6. ASSUME NEW a \in People, NEW d \in People,
             \/ Staff!Activate(a, d) \/ Staff!Deactivate(a, d) \/ Staff!DeleteEmployee(a, d)
             \/ \E roles : Staff!ReplaceEmployeeRoles(a, d, roles)
      PROVE  /\ a \in People \ {e} /\ request[a] # "none" /\ request'[a] = "none"
             /\ (before \ after) \cup (after \ before) \subseteq Staff!Permissions(a)
  <2>1. d = e
    BY <1>1, <1>2, <1>6 DEF Staff!Activate, Staff!Deactivate, Staff!DeleteEmployee,
                            Staff!ReplaceEmployeeRoles
  <2>2. /\ UNCHANGED role /\ Staff!RoleKeys(e) \subseteq Staff!Permissions(a) /\ Staff!Active(a)
        /\ a # e
    BY <1>6, <2>1 DEF Staff!Activate, Staff!Deactivate, Staff!DeleteEmployee,
                      Staff!ReplaceEmployeeRoles, Staff!ManagesEmployee, Staff!CanGrant
  <2>3. Staff!LiveRoles' = Staff!LiveRoles /\ \A s : Staff!Grants(s)' = Staff!Grants(s)
    BY <2>2 DEF Staff!LiveRoles, Staff!Grants
  <2>4. before \subseteq Staff!Permissions(a)
    BY <2>2 DEF Staff!Permissions
  <2>5. after \subseteq Staff!Permissions(a)
    <3>1. staff \in [People -> Staff!Person]
      BY DEF StaffInv, Staff!AccessSound
    <3>2. CASE Staff!Activate(a, e)
      <4>1. staff'[e].roles = staff[e].roles
        BY <3>1, <3>2 DEF Staff!Activate, Staff!Person
      <4>2. Staff!RoleKeys(e)' = Staff!RoleKeys(e)
        BY <2>3, <4>1 DEF Staff!RoleKeys
      <4>. QED BY <2>2, <4>2 DEF Staff!Permissions
    <3>3. CASE Staff!Deactivate(a, e) \/ Staff!DeleteEmployee(a, e)
      <4>1. staff'[e].row \in {"INACTIVE", "DELETED"}
        BY <3>1, <3>3 DEF Staff!Deactivate, Staff!DeleteEmployee, Staff!Person
      <4>. QED BY <4>1 DEF Staff!Permissions, Staff!Active
    <3>4. ASSUME NEW roles, Staff!ReplaceEmployeeRoles(a, e, roles)
          PROVE  after \subseteq Staff!Permissions(a)
      <4>1. /\ staff'[e].roles = roles
            /\ UNION {Staff!Grants(r) : r \in roles} \subseteq Staff!Permissions(a)
        BY <3>1, <3>4 DEF Staff!ReplaceEmployeeRoles, Staff!Person, Staff!CanGrant
      <4>2. Staff!RoleKeys(e)' \subseteq UNION {Staff!Grants(r) : r \in roles}
        BY <2>3, <4>1 DEF Staff!RoleKeys
      <4>. QED BY <4>1, <4>2 DEF Staff!Permissions
    <3>. QED BY <1>6, <2>1, <3>2, <3>3, <3>4
  <2>6. request[a] # "none" /\ request'[a] = "none"
    <3>1. Staff!Answer(a, "EMPLOYEES")
      BY <1>6 DEF Staff!Activate, Staff!Deactivate, Staff!DeleteEmployee,
                  Staff!ReplaceEmployeeRoles
    <3>. QED BY <1>1, <3>1 DEF Staff!Answer
  <2>. QED BY <2>2, <2>4, <2>5, <2>6
<1>7. ASSUME NEW d \in People,
             \/ Staff!SignUp(d)
             \/ \E a \in People, p \in Positions : Staff!CreateEmployee(a, d, p)
      PROVE  FALSE
  BY <1>1, <1>2, <1>7 DEF Staff!SignUp, Staff!CreateEmployee
<1>8. ASSUME NEW a \in People, NEW d \in People, NEW p \in Positions, Staff!Move(a, d, p)
      PROVE  FALSE
  <2>1. staff \in [People -> Staff!Person]
    BY DEF StaffInv, Staff!AccessSound
  <2>2. /\ staff'[e].roles = staff[e].roles /\ staff'[e].row = staff[e].row
        /\ UNCHANGED role
    BY <1>8, <2>1 DEF Staff!Move, Staff!Person
  <2>. QED
    BY <2>2 DEF Staff!Permissions, Staff!Active, Staff!RoleKeys, Staff!LiveRoles, Staff!Grants
<1>9. ASSUME \/ UNCHANGED staffVars
             \/ \E a \in People :
                  \/ \E key \in {"ROLES", "EMPLOYEES"} : Staff!Admit(a, key)
                  \/ Staff!Refused(a)
                  \/ \E p \in Positions : Staff!CreatePosition(a, p) \/ Staff!DeletePosition(a, p)
      PROVE  FALSE
  BY <1>2, <1>9 DEF staffVars, Staff!Admit, Staff!Refused, Staff!CreatePosition,
                    Staff!DeletePosition
<1>. QED
  BY <1>3, <1>4, <1>5, <1>6, <1>7, <1>8, <1>9 DEF Staff!Next

\* A step leaves a decided insight as it is.
LEMMA AnalystFinal ==
  ASSUME AnalystInv, Analyst!Next \/ UNCHANGED analystVars
  PROVE  Analyst!OutcomesFinal
<1> SUFFICES ASSUME NEW i \in Insights, insight[i].status \in {"COMPLETED", "FAILED"}
             PROVE  /\ insight'[i].status = insight[i].status
                    /\ insight'[i].snapshot = insight[i].snapshot
  BY DEF Analyst!OutcomesFinal
<1>1. /\ DOMAIN insight = Insights /\ insight[i].status \notin Analyst!Open \cup {"NONE"}
      /\ insight[i] \in [status : Analyst!Open \cup {"NONE", "COMPLETED", "FAILED"},
                        period : Periods \cup {None}, snapshot : Figures \cup {None},
                        analysis : Figures \cup {None}, started : BOOLEAN]
  BY DEF AnalystInv, Analyst!InsightTypeOK, Analyst!Open
<1>2. CASE UNCHANGED insight
  BY <1>2
<1>3. CASE \E c \in creating, reached \in BOOLEAN : Analyst!Record(c, reached)
  BY <1>1, <1>3 DEF Analyst!Record, Analyst!StoredRow, Analyst!IsNew
<1>4. CASE \E w \in Workers : Analyst!Start(w) \/ Analyst!Complete(w)
  <2>1. insight'[i] = insight[i]
    BY <1>1, <1>4 DEF Analyst!Start, Analyst!Started, Analyst!Complete, Analyst!Completed
  <2>. QED BY <2>1
<1>5. CASE \E w \in Workers : Analyst!BeginProvider(w)
  <2>1. UNCHANGED insight \/ \E j : insight' = [insight EXCEPT ![j].started = TRUE]
    BY <1>5 DEF Analyst!BeginProvider
  <2>. QED BY <1>1, <2>1
<1>6. CASE \E w \in Workers : Analyst!ResetProvider(w)
  BY <1>1, <1>6 DEF Analyst!ResetProvider
<1>7. ASSUME NEW j, NEW terminal, insight' = Analyst!Failed(j, terminal)
      PROVE  /\ insight'[i].status = insight[i].status
             /\ insight'[i].snapshot = insight[i].snapshot
  BY <1>1, <1>7 DEF Analyst!Failed
<1>8. CASE \/ \E w \in Workers : Analyst!Catch(w)
           \/ \E j \in Insights : Analyst!OnFailed(j)
  BY <1>7, <1>8 DEF Analyst!Catch, Analyst!OnFailed
<1>. QED
  BY <1>2, <1>3, <1>4, <1>5, <1>6, <1>8
  DEF Analyst!Next, analystVars, Analyst!Admit, Analyst!CallerGone, Analyst!DeliverRequested,
      Analyst!TakeJob, Analyst!Capture, Analyst!Generate, Analyst!CallBudget,
      Analyst!StepFails, Analyst!JobCompletes, Analyst!JobFails, Analyst!Crash,
      Analyst!Stall, Analyst!LoseNotice, Analyst!faults, Analyst!askedFor

\* What the services whose steps must not undo what was settled know.
SettledInv ==
  /\ on = "floor" => FloorInv
  /\ on = "stock" => StockInv
  /\ on = "login" => LoginInv
  /\ on = "staff" => StaffInv
  /\ on = "counter" => CounterInv
  /\ on = "card" => CardInv
  /\ on = "analyst" => AnalystInv
  /\ on = "tools" => ToolInv
  /\ on = "config" => ConfigInv
  /\ on = "prices" => PriceInv

\* No step of any service undoes what was settled, for any constants.
\* (The guards of update, post, rotate, loadManagedEmployee,
\* provisionPickupCode, fail, transitionStatus, updateSetting, publish.)
THEOREM SettledStays == Spec => NothingSilentlyUndone
<1> DEFINE A == CASE on = "floor" -> Floor!DecisionsFinal
                  [] on = "stock" -> Stock!DocumentsFinal
                  [] on = "login" -> Login!RevocationsFinal
                  [] on = "staff" -> Staff!AccessIsGranted
                  [] on = "counter" -> Counter!CodesStayDead
                  [] on = "card" -> Card!EditsSeen
                  [] on = "analyst" -> Analyst!OutcomesFinal
                  [] on = "tools" -> Tools!LiquidatedIsFinal
                  [] on = "config" -> Config!ChangesSeen
                  [] on = "prices" -> Prices!PublishedKnowingly
                  [] OTHER -> TRUE
<1>1. SettledInv /\ [Next]_vars => A
  <2> SUFFICES ASSUME SettledInv, [Next]_vars PROVE A
    OBVIOUS
  <2>1. ASSUME on = "floor" PROVE Floor!DecisionsFinal
    <3>1. FloorInv /\ (Floor!Next \/ UNCHANGED floorVars)
      BY <2>1, Turn DEF SettledInv
    <3>. QED BY <3>1, FloorFinal DEF FloorInv
  <2>2. ASSUME on = "stock" PROVE Stock!DocumentsFinal
    <3>1. StockInv /\ (Stock!Next \/ UNCHANGED stockVars)
      BY <2>2, Turn DEF SettledInv
    <3>. QED BY <3>1, StockFinal DEF StockInv
  <2>3. ASSUME on = "login" PROVE Login!RevocationsFinal
    <3>1. LoginInv /\ (Login!Next \/ UNCHANGED loginVars)
      BY <2>3, Turn DEF SettledInv
    <3>. QED BY <3>1, LoginFinal
  <2>4. ASSUME on = "staff" PROVE Staff!AccessIsGranted
    <3>1. StaffInv /\ (Staff!Next \/ UNCHANGED staffVars)
      BY <2>4, Turn DEF SettledInv
    <3>. QED BY <3>1, StaffGranted
  <2>5. ASSUME on = "counter" PROVE Counter!CodesStayDead
    <3>1. CounterInv /\ (Counter!Next \/ UNCHANGED counterVars)
      BY <2>5, Turn DEF SettledInv
    <3>. QED BY <3>1, CounterDead
  <2>6. ASSUME on = "card" PROVE Card!EditsSeen
    <3>1. CardInv /\ (Card!Next \/ UNCHANGED cardVars)
      BY <2>6, Turn DEF SettledInv
    <3>. QED BY <3>1, CardSeen DEF CardInv
  <2>7. ASSUME on = "analyst" PROVE Analyst!OutcomesFinal
    <3>1. AnalystInv /\ (Analyst!Next \/ UNCHANGED analystVars)
      BY <2>7, Turn DEF SettledInv
    <3>. QED BY <3>1, AnalystFinal
  <2>8. ASSUME on = "tools" PROVE Tools!LiquidatedIsFinal
    <3>1. ToolInv /\ (Tools!Next \/ UNCHANGED toolVars)
      BY <2>8, Turn DEF SettledInv
    <3>. QED BY <3>1, ToolKept
  <2>9. ASSUME on = "config" PROVE Config!ChangesSeen
    <3>1. ConfigInv /\ (Config!Next \/ UNCHANGED configVars)
      BY <2>9, Turn DEF SettledInv
    <3>. QED BY <3>1, ConfigSeen
  <2>10. ASSUME on = "prices" PROVE Prices!PublishedKnowingly
    <3>1. PriceInv /\ (Prices!Next \/ UNCHANGED priceVars)
      BY <2>10, Turn DEF SettledInv
    <3>. QED BY <3>1, PriceShown
  <2>. QED BY <2>1, <2>2, <2>3, <2>4, <2>5, <2>6, <2>7, <2>8, <2>9, <2>10
<1>2. Spec => []SettledInv
  BY FloorAlways, StockAlways, LoginAlways, StaffAlways, CounterAlways, CardAlways,
     AnalystAlways, ToolAlways, ConfigAlways, PriceAlways, PTL DEF SettledInv
<1>3. Spec => [][A]_vars
  BY <1>1, <1>2, PTL DEF Spec
<1>. QED BY <1>3 DEF NothingSilentlyUndone
=============================================================================
