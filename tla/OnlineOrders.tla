---------------------------- MODULE OnlineOrders ----------------------------
(***************************************************************************)
(* Takeaway orders placed from the public page (online-orders.service.ts,  *)
(* online-order-intake.service.ts, pickup-schedule.ts): submission, review *)
(* by staff, preparation, and the three ways out: collection against cash, *)
(* cancellation and no-show.  Customers, staff, kitchen and the printer's  *)
(* agent act at any time; each transaction is serializable, hence one      *)
(* action, and what a call reads outside of it is an action of its own.    *)
(*                                                                         *)
(* Abstractions.  One menu item, one ingredient and one pickup slot stand  *)
(* for all; a line is one portion.  Time is the phase of the slot and one  *)
(* flag per deadline.  POS operations refuse these orders                  *)
(* (online-order-policy.ts) and are left out; so is the remake of a        *)
(* collected line (see Orders).  A refusal is a step not taken.            *)
(***************************************************************************)
EXTENDS Integers, FiniteSets, Sums

CONSTANTS Requests,  \* clientRequestId's
          Lines,     \* lines of every request
          Prices,    \* unit prices the menu item may have
          Capacity,  \* ONLINE_PICKUP_SLOT_CAPACITY
          MaxCalls,  \* bound: submissions of one request in progress
          Deliveries, \* quantities the shop buys
          MaxStock   \* bound: stock ever bought

ASSUME OnlineOrderConstants ==
  /\ IsFiniteSet(Requests) /\ IsFiniteSet(Lines) /\ Lines # {}
  /\ Prices \subseteq Nat \ {0}
  /\ Capacity \in Nat \ {0} /\ MaxCalls \in Nat
  /\ Deliveries \subseteq Nat /\ MaxStock \in Nat

VARIABLES row,       \* the OnlineOrderRequest rows
          calls,     \* submissions in progress, with what they read
          session,   \* the order session of an accepted request
          line,      \* its lines, each with its reservation and its waste
          job,       \* the print job of its kitchen ticket
          paid,      \* total of its paid invoice, 0 without one
          price,     \* the menu item's current price
          intake,    \* what the shop accepts now
          slot,      \* the time, relative to the pickup slot
          stock, reserved, bought

vars == <<row, calls, session, line, job, paid, price, intake, slot,
          stock, reserved, bought>>
store == <<stock, reserved, bought>>
shop == <<price, intake, slot>>

\* expired, closed: the review window and the customer's access have ended.
\* overdue: the grace period since the last line became ready has ended.
Request == [status : {"NONE", "PENDING", "ACCEPTED", "REJECTED", "CANCELLED"},
            scheduled : BOOLEAN, limit : Prices \cup {0}, quoted : Nat,
            reason : {"none", "customer", "staff", "noShow"},
            expired : BOOLEAN, closed : BOOLEAN, overdue : BOOLEAN]
NoRequest == [status |-> "NONE", scheduled |-> FALSE, limit |-> 0, quoted |-> 0,
              reason |-> "none", expired |-> FALSE, closed |-> FALSE,
              overdue |-> FALSE]
Call == [scheduled : BOOLEAN, limit : Prices, price : Prices]
Line == [status : {"NONE", "PENDING", "COOKING", "READY", "SERVED", "CANCELLED"},
         priceAtTime : Nat, held : BOOLEAN, used : BOOLEAN, wasted : BOOLEAN]
NoLine == [status |-> "NONE", priceAtTime |-> 0, held |-> FALSE, used |-> FALSE, wasted |-> FALSE]
\* TAKEN: PROCESSING, PRINTED or REQUIRES_REVIEW.  slip: a cancellation slip
\* follows it to the printer.
Job == [status : {"NONE", "PENDING", "TAKEN", "FAILED", "CANCELLED"}, slip : BOOLEAN]
NoJob == [status |-> "NONE", slip |-> FALSE]
SlotPhases == {"ahead", "prepare", "passed", "graceOver"}

Init ==
  /\ row = [r \in Requests |-> NoRequest]
  /\ calls = [r \in Requests |-> {}]
  /\ session = [r \in Requests |-> "NONE"]
  /\ line = [r \in Requests |-> [l \in Lines |-> NoLine]]
  /\ job = [r \in Requests |-> NoJob]
  /\ paid = [r \in Requests |-> 0]
  /\ price \in Prices
  /\ intake = "open"
  /\ slot = "ahead"
  /\ stock = 0 /\ reserved = 0 /\ bought = 0

Portions == Cardinality(Lines)
Quote(unit) == unit * Portions
Upcoming == slot \in {"ahead", "prepare"}
Booked == {r \in Requests : row[r].status = "ACCEPTED" /\ row[r].scheduled}
\* getPickupSlots: what the page shows for the slot.
Remaining == IF Capacity > Cardinality(Booked) THEN Capacity - Cardinality(Booked) ELSE 0
CanFulfill == stock - reserved >= Portions
Accepting(scheduled) == intake = "open" \/ (scheduled /\ intake = "scheduledOnly")

Pending(r) == row[r].status = "PENDING" /\ ~row[r].expired
LinesIn(r, statuses) == {l \in Lines : line[r][l].status \in statuses}
AllIn(r, statuses) == LinesIn(r, statuses) = Lines
\* All lines of r change in the same way.
EachLine(r, change(_)) == [line EXCEPT ![r] = [l \in Lines |-> change(line[r][l])]]

\* fulfillmentStatus
FulfillmentStatus(r) ==
  IF row[r].status # "ACCEPTED" THEN "null"
  ELSE IF AllIn(r, {"SERVED"}) THEN "COLLECTED"
  ELSE IF LinesIn(r, {"CANCELLED"}) # {} THEN "NEEDS_REVIEW"
  ELSE IF AllIn(r, {"READY", "SERVED"}) THEN "READY"
  ELSE IF LinesIn(r, {"READY", "SERVED"}) # {} THEN "PARTIALLY_READY"
  ELSE "PREPARING"

-----------------------------------------------------------------------------
(* The shop and the clock                                                  *)

PriceChanges(p) ==
  /\ p # price
  /\ price' = p
  /\ UNCHANGED <<row, calls, session, line, job, paid, intake, slot, store>>

\* OnlineOrderIntakeService.update, the end of a pause, opening and closing.
IntakeChanges(to) ==
  /\ to # intake
  /\ intake' = to
  /\ UNCHANGED <<row, calls, session, line, job, paid, price, slot, store>>

Restock(quantity) ==
  /\ bought + quantity <= MaxStock
  /\ stock' = stock + quantity /\ bought' = bought + quantity
  /\ UNCHANGED <<row, calls, session, line, job, paid, shop, reserved>>

TimePasses ==
  /\ slot' = CASE slot = "ahead" -> "prepare"
               [] slot = "prepare" -> "passed"
               [] slot = "passed" -> "graceOver"
               [] OTHER -> slot
  /\ slot' # slot
  /\ UNCHANGED <<row, calls, session, line, job, paid, price, intake, store>>

\* expiresAt: half an hour after the submission.  It matters to a pending
\* request only, as the customer's access does to an accepted one.
ReviewEnds(r) ==
  /\ Pending(r)
  /\ row' = [row EXCEPT ![r].expired = TRUE]
  /\ UNCHANGED <<calls, session, line, job, paid, shop, store>>

\* onlineOrderAccessExpiresAt: three days, or a day after the pickup.
AccessEnds(r) ==
  /\ session[r] = "ACTIVE" /\ ~row[r].closed
  /\ row[r].scheduled => slot = "graceOver"
  /\ row' = [row EXCEPT ![r].closed = TRUE]
  /\ UNCHANGED <<calls, session, line, job, paid, shop, store>>

\* An hour has passed since the later of the pickup and the last line ready.
GraceEnds(r) ==
  /\ session[r] = "ACTIVE" /\ AllIn(r, {"READY"}) /\ ~row[r].overdue
  /\ row[r].scheduled => slot = "graceOver"
  /\ row' = [row EXCEPT ![r].overdue = TRUE]
  /\ UNCHANGED <<calls, session, line, job, paid, shop, store>>

-----------------------------------------------------------------------------
(* Submission                                                              *)

\* createPublicRequest up to its transaction: the menu, the customer's
\* maxSubtotal and the stock are read outside of it.
ReadMenu(r, scheduled, limit) ==
  /\ row[r].status = "NONE"
  /\ Cardinality(calls[r]) < MaxCalls
  /\ scheduled => Upcoming
  /\ price <= limit
  /\ CanFulfill
  /\ calls' = [calls EXCEPT ![r] = @ \cup {[scheduled |-> scheduled, limit |-> limit,
                                            price |-> price]}]
  /\ UNCHANGED <<row, session, line, job, paid, shop, store>>

Submitted(c) ==
  [NoRequest EXCEPT !.status = "PENDING", !.scheduled = c.scheduled,
                    !.limit = c.limit, !.quoted = Quote(c.price)]
\* Mutant: the request is stored at the price of the moment.
SubmitAtCurrentPrice(r, c) ==
  /\ calls' = [calls EXCEPT ![r] = @ \ {c}]
  /\ row[r].status = "NONE" /\ Accepting(c.scheduled)
  /\ row' = [row EXCEPT ![r] = Submitted([c EXCEPT !.price = price])]
  /\ UNCHANGED <<session, line, job, paid, shop, store>>
\* Its transaction.
Submit(r, c) ==
  /\ calls' = [calls EXCEPT ![r] = @ \ {c}]
  /\ row[r].status = "NONE" /\ Accepting(c.scheduled)
  /\ row' = [row EXCEPT ![r] = Submitted(c)]
  /\ UNCHANGED <<session, line, job, paid, shop, store>>
\* It finds the request stored by another call, which it replays or, when the
\* order differs, refuses; or the shop no longer accepts.
AnswerSubmission(r, c) ==
  /\ calls' = [calls EXCEPT ![r] = @ \ {c}]
  /\ row[r].status # "NONE" \/ ~Accepting(c.scheduled)
  /\ UNCHANGED <<row, session, line, job, paid, shop, store>>

-----------------------------------------------------------------------------
(* Review                                                                  *)

\* accept, with the session, lines and reservations of
\* createOnlineTakeawaySession; prints: the kitchen station has a printer.
Accept(r, prints) ==
  /\ Pending(r)
  /\ row[r].scheduled => Upcoming /\ Remaining > 0
  /\ row[r].quoted = Quote(price)
  /\ CanFulfill
  /\ row' = [row EXCEPT ![r].status = "ACCEPTED"]
  /\ session' = [session EXCEPT ![r] = "ACTIVE"]
  /\ line' = EachLine(r, LAMBDA l : [l EXCEPT !.status = "PENDING", !.held = TRUE,
                                                !.priceAtTime = price])
  /\ reserved' = reserved + Portions
  /\ job' = [job EXCEPT ![r].status = IF prints THEN "PENDING" ELSE "NONE"]
  /\ UNCHANGED <<calls, paid, shop, stock, bought>>

Reject(r) ==
  /\ Pending(r)
  /\ row' = [row EXCEPT ![r].status = "REJECTED"]
  /\ UNCHANGED <<calls, session, line, job, paid, shop, store>>

\* cancelPublicRequest, its first statement.
Withdraw(r) ==
  /\ Pending(r)
  /\ row' = [row EXCEPT ![r].status = "CANCELLED", ![r].reason = "customer"]
  /\ UNCHANGED <<calls, session, line, job, paid, shop, store>>

-----------------------------------------------------------------------------
(* Preparation                                                             *)

\* changeItemStatus.  A scheduled ticket is not due before its preparation time.
Cook(r, l) ==
  /\ session[r] = "ACTIVE" /\ line[r][l].status = "PENDING"
  /\ row[r].scheduled => slot # "ahead"
  /\ line' = [line EXCEPT ![r][l].status = "COOKING", ![r][l].held = FALSE,
                          ![r][l].used = TRUE]
  /\ stock' = stock - 1 /\ reserved' = reserved - 1
  /\ UNCHANGED <<row, calls, session, job, paid, shop, bought>>
Finish(r, l) ==
  /\ session[r] = "ACTIVE" /\ line[r][l].status = "COOKING"
  /\ line' = [line EXCEPT ![r][l].status = "READY"]
  /\ UNCHANGED <<row, calls, session, job, paid, shop, store>>

\* The agent claims the ticket, and gives up on it (see Printing).
TakeTicket(r) ==
  /\ job[r].status = "PENDING"
  /\ row[r].scheduled => slot # "ahead"
  /\ job' = [job EXCEPT ![r].status = "TAKEN"]
  /\ UNCHANGED <<row, calls, session, line, paid, shop, store>>
TicketNotPrinted(r, status) ==
  /\ job[r].status = "TAKEN"
  /\ job' = [job EXCEPT ![r].status = IF session[r] = "CANCELLED" THEN "CANCELLED"
                                      ELSE status]
  /\ UNCHANGED <<row, calls, session, line, paid, shop, store>>

-----------------------------------------------------------------------------
(* Ways out                                                                *)

Subtotal(r) == Total([l \in Lines |-> line[r][l].priceAtTime], Lines)
\* collect; a repetition with its key finds the stored answer.
Collect(r) ==
  /\ row[r].status = "ACCEPTED" /\ session[r] = "ACTIVE" /\ ~row[r].closed
  /\ AllIn(r, {"READY"})
  /\ Subtotal(r) = row[r].quoted
  /\ paid' = [paid EXCEPT ![r] = Subtotal(r)]
  /\ line' = EachLine(r, LAMBDA l : [l EXCEPT !.status = "SERVED"])
  /\ session' = [session EXCEPT ![r] = "COMPLETED"]
  /\ UNCHANGED <<row, calls, job, shop, store>>

Held(r) == {l \in Lines : line[r][l].held}
Dropped(l) == [l EXCEPT !.status = "CANCELLED", !.held = FALSE]
\* Mutant: the print jobs are not looked at.
CancelUncooked(r) ==
  /\ row[r].status = "ACCEPTED" /\ session[r] = "ACTIVE" /\ ~row[r].closed
  /\ AllIn(r, {"PENDING"})
  /\ job' = [job EXCEPT ![r].status = IF @ = "PENDING" THEN "CANCELLED" ELSE @]
  /\ line' = EachLine(r, Dropped)
  /\ session' = [session EXCEPT ![r] = "CANCELLED"]
  /\ row' = [row EXCEPT ![r].status = "CANCELLED", ![r].reason = "customer"]
  /\ reserved' = reserved - Cardinality(Held(r))
  /\ UNCHANGED <<calls, paid, shop, stock, bought>>
\* cancelPublicRequest of an accepted order, its transaction.
CustomerCancel(r) ==
  /\ row[r].status = "ACCEPTED" /\ session[r] = "ACTIVE" /\ ~row[r].closed
  /\ AllIn(r, {"PENDING"})
  /\ job[r].status \in {"NONE", "PENDING"}
  /\ job' = [job EXCEPT ![r].status = IF @ = "PENDING" THEN "CANCELLED" ELSE @]
  /\ line' = EachLine(r, Dropped)
  /\ session' = [session EXCEPT ![r] = "CANCELLED"]
  /\ row' = [row EXCEPT ![r].status = "CANCELLED", ![r].reason = "customer"]
  /\ reserved' = reserved - Cardinality(Held(r))
  /\ UNCHANGED <<calls, paid, shop, stock, bought>>

\* isNoShowEligible
NoShowEligible(r) == AllIn(r, {"READY"}) /\ paid[r] = 0 /\ row[r].overdue
\* cancelKitchenItems, of every line of the ticket.
Recalled(ticket) ==
  CASE ticket.status \in {"PENDING", "FAILED"} -> [ticket EXCEPT !.status = "CANCELLED"]
    [] ticket.status = "TAKEN" -> [ticket EXCEPT !.slip = TRUE]
    [] OTHER -> ticket
\* Mutant: only what is ready is waste.
WasteReady(l) == IF l.status = "READY" THEN [l EXCEPT !.wasted = TRUE] ELSE l
\* recordWaste
Waste(l) == IF l.status \in {"COOKING", "READY"} THEN [l EXCEPT !.wasted = TRUE] ELSE l
\* cancelAcceptedRequest: cancelAccepted and markNoShow.
CancelAccepted(r, reason) ==
  /\ row[r].status = "ACCEPTED" /\ session[r] = "ACTIVE"
  /\ paid[r] = 0 /\ LinesIn(r, {"SERVED"}) = {}
  /\ reason = "noShow" => NoShowEligible(r)
  /\ line' = EachLine(r, LAMBDA l : Dropped(Waste(l)))
  /\ reserved' = reserved - Cardinality(Held(r))
  /\ job' = [job EXCEPT ![r] = Recalled(@)]
  /\ session' = [session EXCEPT ![r] = "CANCELLED"]
  /\ row' = [row EXCEPT ![r].status = "CANCELLED", ![r].reason = reason]
  /\ UNCHANGED <<calls, paid, shop, stock, bought>>

Next ==
  \/ \E p \in Prices : PriceChanges(p)
  \/ \E to \in {"open", "scheduledOnly", "paused"} : IntakeChanges(to)
  \/ \E quantity \in Deliveries : Restock(quantity)
  \/ TimePasses
  \/ \E r \in Requests :
       \/ ReviewEnds(r) \/ AccessEnds(r) \/ GraceEnds(r)
       \/ \E scheduled \in BOOLEAN, limit \in Prices : ReadMenu(r, scheduled, limit)
       \/ \E c \in calls[r] : Submit(r, c) \/ AnswerSubmission(r, c)
       \/ \E prints \in BOOLEAN : Accept(r, prints)
       \/ Reject(r) \/ Withdraw(r)
       \/ \E l \in Lines : Cook(r, l) \/ Finish(r, l)
       \/ TakeTicket(r)
       \/ \E status \in {"PENDING", "FAILED"} : TicketNotPrinted(r, status)
       \/ Collect(r) \/ CustomerCancel(r)
       \/ \E reason \in {"staff", "noShow"} : CancelAccepted(r, reason)

Spec == Init /\ [][Next]_vars

-----------------------------------------------------------------------------
TypeOK ==
  /\ row \in [Requests -> Request]
  /\ calls \in [Requests -> SUBSET Call]
  /\ session \in [Requests -> {"NONE", "ACTIVE", "COMPLETED", "CANCELLED"}]
  /\ line \in [Requests -> [Lines -> Line]]
  /\ job \in [Requests -> Job]
  /\ paid \in [Requests -> Nat]
  /\ price \in Prices /\ slot \in SlotPhases
  /\ intake \in {"open", "scheduledOnly", "paused"}
  /\ stock \in Nat /\ reserved \in Nat /\ bought \in Nat

\* fulfillmentWhere, of the overdue.
OnOverdueList(r) ==
  /\ row[r].status = "ACCEPTED"
  /\ IF row[r].scheduled THEN slot = "graceOver"
     ELSE AllIn(r, {"READY"}) /\ row[r].overdue /\ paid[r] = 0
  /\ LinesIn(r, {"PENDING", "COOKING", "READY"}) # {}

\* The request, its session, its lines, its invoice and its kitchen ticket
\* tell one story whoever came first: an accepted order is live or collected
\* and paid as a whole, a cancelled one is unpaid with no line left and no
\* paper in the kitchen that nothing recalls, no slot is overbooked, and
\* staff find every order they may declare a no-show.
\* (cancelPublicRequest against accept, cooking, printing and collect.)
OrderTellsOneStory ==
  /\ TypeOK
  /\ Cardinality(Booked) <= Capacity
  /\ \A r \in Requests :
       /\ row[r].status = "ACCEPTED" <=> session[r] \in {"ACTIVE", "COMPLETED"}
       /\ FulfillmentStatus(r) # "NEEDS_REVIEW"
       /\ session[r] = "COMPLETED" <=> FulfillmentStatus(r) = "COLLECTED"
       /\ paid[r] # 0 <=> session[r] = "COMPLETED"
       /\ row[r].status # "ACCEPTED" => LinesIn(r, {"PENDING", "COOKING", "READY"}) = {}
       /\ session[r] = "CANCELLED" =>
            job[r].status \in {"NONE", "CANCELLED"} \/ job[r].slip
       /\ session[r] = "ACTIVE" /\ NoShowEligible(r) => OnOverdueList(r)

\* Nobody pays anything but what was quoted to him, nor more than the most he
\* agreed to, though the menu's price moves between the quote, the submission,
\* the review and the pickup; and a customer who cancels leaves no paper and
\* no cooked portion behind.  (createPublicRequest, accept, collect.)
ChargedAsQuoted ==
  \A r \in Requests :
    /\ paid[r] # 0 => paid[r] = row[r].quoted
    /\ row[r].status # "NONE" => row[r].quoted <= Quote(row[r].limit)
    /\ row[r].reason = "customer" =>
         /\ \A l \in Lines : ~line[r][l].used
         /\ ~job[r].slip /\ job[r].status # "TAKEN"

\* Every portion bought is on the shelf or in a line; a reservation stands
\* behind each pending line and no other; what was cooked for a cancelled
\* order, and only that, is written off as waste.
\* (reservations and recordWaste across accept, cancel and no-show.)
IngredientsAccounted ==
  LET all == Requests \X Lines
      Sum(P(_)) == Cardinality({x \in all : P(line[x[1]][x[2]])})
  IN
  /\ stock + Sum(LAMBDA l : l.used) = bought
  /\ reserved = Sum(LAMBDA l : l.held) /\ reserved <= stock
  /\ \A x \in all :
       LET l == line[x[1]][x[2]] IN
       /\ l.held <=> l.status = "PENDING"
       /\ l.wasted <=> l.used /\ l.status = "CANCELLED"
=============================================================================
