------------------------------ MODULE Takeaway ------------------------------
(***************************************************************************)
(* Pickup codes, hand-over and feedback of one paid takeaway invoice       *)
(* (takeaway.service.ts, changeItemStatus of orders.service.ts).  Every    *)
(* operation is one serializable transaction; a code is known by the       *)
(* version it signs, 0 for the code of an invoice without a version.       *)
(***************************************************************************)
EXTENDS Integers

CONSTANTS Cups, CodeTTL, MaxPickupCodeVersion, Ratings, Resolutions,
          MaxHours \* bound

VARIABLES hours,   \* the time
          pickup,  \* the Invoice row, created at time 0
          cups,    \* serveStatus of its items
          opinion  \* the TakeawayFeedback row

vars == <<hours, pickup, cups, opinion>>

Null == -1
Pickup == [online : BOOLEAN, payment : {"PAID", "REFUNDED"},
           version : 0..MaxPickupCodeVersion, issuedAt : Null..MaxHours]
NoOpinion == [rating |-> 0, resolved |-> "no"]
Opinion == [rating : Ratings, resolved : {"no"} \cup Resolutions] \cup {NoOpinion}

Init ==
  /\ hours = 0
  /\ pickup \in [online : BOOLEAN, payment : {"PAID"}, version : {0}, issuedAt : {Null}]
  /\ cups = [c \in Cups |-> "COOKING"]
  /\ opinion = NoOpinion

Tick ==
  /\ hours < MaxHours
  /\ hours' = hours + 1
  /\ UNCHANGED <<pickup, cups, opinion>>

\* getPickupCodeExpiry: a code without a version counts from the invoice.
IssuedAt == IF pickup.version = 0 THEN 0 ELSE pickup.issuedAt
Unexpired == IssuedAt # Null /\ hours < IssuedAt + CodeTTL
\* verifyPickupCode
Verified(code) == Unexpired /\ code = pickup.version
\* assertPickupInvoice
Available == pickup.payment = "PAID"

\* Mutant: an expired code is made valid again instead of replaced.
RenewVersion == [pickup EXCEPT !.issuedAt = hours]
\* nextPickupCodeVersion, and the update of the row.
NextVersion == [pickup EXCEPT !.version = @ + 1, !.issuedAt = hours]
MayRotate == pickup.version < MaxPickupCodeVersion

\* provisionPickupCode without the current code, which answers it if it can.
IssuePickupCode ==
  /\ Available /\ ~Unexpired /\ MayRotate
  /\ pickup' = NextVersion
  /\ UNCHANGED <<hours, cups, opinion>>
RotatePickupCode(code) ==
  /\ Available /\ Verified(code) /\ MayRotate
  /\ pickup' = NextVersion
  /\ UNCHANGED <<hours, cups, opinion>>
RevokePickupCode(code) ==
  /\ Available /\ Verified(code) /\ MayRotate
  /\ pickup' = [pickup EXCEPT !.version = @ + 1, !.issuedAt = Null]
  /\ UNCHANGED <<hours, cups, opinion>>

-----------------------------------------------------------------------------
(* Hand-over                                                               *)

\* updateItemStatus, and handoffTakeawayItem for what is ready.
Finish(c) ==
  /\ cups[c] = "COOKING"
  /\ cups' = [cups EXCEPT ![c] = "READY"]
  /\ UNCHANGED <<hours, pickup, opinion>>
ServeAtCounter(c) ==
  /\ ~pickup.online /\ cups[c] \in {"COOKING", "READY"}
  /\ cups' = [cups EXCEPT ![c] = "SERVED"]
  /\ UNCHANGED <<hours, pickup, opinion>>
HandoffWithPickupCode(c, code) ==
  /\ Available /\ Verified(code) /\ cups[c] = "READY"
  /\ cups' = [cups EXCEPT ![c] = "SERVED"]
  /\ UNCHANGED <<hours, pickup, opinion>>

\* A refund of the invoice, cash or provider.
Refund ==
  /\ Available
  /\ pickup' = [pickup EXCEPT !.payment = "REFUNDED"]
  /\ UNCHANGED <<hours, cups, opinion>>

-----------------------------------------------------------------------------
(* Feedback                                                                *)

Collected == \A c \in Cups : cups[c] = "SERVED"
\* The unique invoiceId: a second submission answers the first, or conflicts.
SubmitTakeawayFeedback(code, rating) ==
  /\ Available /\ Verified(code) /\ Collected
  /\ opinion = NoOpinion
  /\ opinion' = [rating |-> rating, resolved |-> "no"]
  /\ UNCHANGED <<hours, pickup, cups>>
ResolveTakeawayFeedback(resolution) ==
  /\ opinion # NoOpinion /\ opinion.rating <= 2 /\ opinion.resolved = "no"
  /\ opinion' = [opinion EXCEPT !.resolved = resolution]
  /\ UNCHANGED <<hours, pickup, cups>>

Codes == 0..MaxPickupCodeVersion
Next ==
  \/ Tick \/ IssuePickupCode \/ Refund
  \/ \E code \in Codes :
       \/ RotatePickupCode(code) \/ RevokePickupCode(code)
       \/ \E c \in Cups : HandoffWithPickupCode(c, code)
       \/ \E rating \in Ratings : SubmitTakeawayFeedback(code, rating)
  \/ \E c \in Cups : Finish(c) \/ ServeAtCounter(c)
  \/ \E resolution \in Resolutions : ResolveTakeawayFeedback(resolution)

Spec == Init /\ [][Next]_vars

-----------------------------------------------------------------------------
\* A code that was replaced, revoked or has expired is not verified again,
\* whatever is issued later; feedback speaks of an order that is collected and
\* stays as the customer gave it, and a complaint is resolved once.
\* (provisionPickupCode, verifyPickupCode, submitTakeawayFeedback,
\* resolveTakeawayFeedback.)
CodesStayDead ==
  /\ pickup' \in Pickup /\ opinion' \in Opinion
  /\ \A code \in 0..pickup.version : ~Verified(code) => ~Verified(code)'
  /\ opinion' # NoOpinion => Collected'
  /\ opinion # NoOpinion => opinion'.rating = opinion.rating
  /\ opinion.resolved # "no" => opinion' = opinion
=============================================================================
