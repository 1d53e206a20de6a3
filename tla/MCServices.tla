----------------------------- MODULE MCServices -----------------------------
(***************************************************************************)
(* The instance of Services for TLC: what bounds each service, and values  *)
(* of the constants that a configuration cannot write.                     *)
(***************************************************************************)
EXTENDS Services, SequencesExt

(* Bounds, as TLC constraints; README gives the reason of each.            *)

AtMost(n, S) == Cardinality(S) <= n

FloorBound ==
  /\ AtMost(1, {t \in Tables : table[t] # "EMPTY"})
  /\ AtMost(1, {b \in Bookings : edit[b] # {}})
  /\ (\E b \in Bookings : edit[b] # {}) => now = 0
  /\ (\E q \in BookingRequests : asked[q].status # "NONE") =>
       \A b \in Bookings :
         edit[b] = {} /\ (Floor!Is(b, {"NONE"}) \/ booking[b].updatedAt = 0)
  /\ (\E q \in BookingRequests : asked[q].status # "NONE") =>
       \/ \E b \in Bookings : Floor!Is(b, {"NONE"})
       \/ \A t \in Tables : table[t] = "EMPTY"
  /\ now = 0 => \A t \in Tables : table[t] # "OCCUPIED"

StockBound ==
  (\E d \in Receipts : receipt[d].status # "NONE") =>
    AtMost(1, {k \in Stocktakes : stocktake[k].status # "NONE"})

NoToken == \A t \in DOMAIN resetToken : resetToken[t] = "NONE"
LoginBound ==
  /\ AtMost(1, signingIn) /\ AtMost(1, Login!Rotating)
  /\ AtMost(1, {f \in Families : issued[f] > 1})
  /\ employee.google > 0 => NoToken
  /\ reused # {} => signingIn = {} /\ employee.google = 0 /\ NoToken
  /\ (\E t \in DOMAIN resetToken : resetToken[t] = "ASKED") =>
       signingIn = {} /\ Login!Rotating = {} /\ AtMost(1, Login!Opened)

StaffBound ==
  /\ AtMost(2, {e \in People : request[e] # "none"})
  /\ (\E p \in Positions \ {Staff!FirstPosition} : position[p] # "NONE") =>
       \A r \in CustomRoles : role[r].row = "NONE"

NoticesBound ==
  /\ AtMost(1, ack)
  /\ Cardinality(handler) + Cardinality(ack) <= 2
  /\ Cardinality(handler) + Cardinality(event) <= 3
  /\ ack # {} => AtMost(2, event)
  /\ order # "PENDING" => "STAFF" \notin event
  /\ Notices!Remade # {} => Cardinality(handler) + Cardinality(event) <= 2
  /\ ~AtMost(1, Notices!Remade) =>
       unlucky = {} /\ AtMost(1, event) /\ event \cap (Drinks \cup {"ACCEPTED"}) = {}

CardBound ==
  /\ AtMost(1, {i \in MenuItems : menuItem[i].config # Card!NoItem.config})
  /\ (\E p \in Pictures : picture[p].status # "NONE") =>
       /\ \A e \in Employees : screen[e] = Card!NotOpen
       /\ \A i \in MenuItems : menuItem[i].config = Card!NoItem.config
       /\ AtMost(1, {c \in Categories : category[c] # "NONE"})
       /\ \A c \in Categories : category[c] # "DELETED"
  /\ (\E p \in Pictures : picture[p].claim > 1) =>
       AtMost(1, {p \in Pictures : picture[p].claim > 0})
  /\ (\E e \in Employees : screen[e] # Card!NotOpen) =>
       AtMost(1, {i \in MenuItems : menuItem[i].life # "NONE"})

Claims == FoldSeq(LAMBDA each, n : n + Len(each.claims), 0, jobs)
Retired == {d \in Devices : device[d].row \in {"INACTIVE", "DELETED"}}
CounterPaper ==
  /\ lines = <<>> /\ station = NoDevice
  /\ AtMost(1, Retired)
  /\ Len(jobs) <= 2 /\ Claims <= 1
KitchenPaper ==
  /\ \A j \in DOMAIN jobs : jobs[j].kind \in Paper!Kitchen
  /\ \A d \in Devices : device[d].row # "NONE" => device[d].type = "KITCHEN"
  /\ invoice = "UNPAID"
  /\ AtMost(IF Len(jobs) <= 2 THEN 1 ELSE 0, Retired)
  /\ Claims <= IF Len(jobs) <= 2 /\ Len(lines) <= 1 THEN 2 ELSE 1

Admitted == {i \in Insights : admitted[i] # None}
AnalystBound ==
  /\ (\E i \in Insights : job[i].state # "none") \/ posted # {} => AtMost(1, Admitted)
  /\ \A i \in posted : /\ job[i].state \in {"none", "waiting"}
                       /\ job[i].failures = 0 /\ ~job[i].stalled

ConfigBound ==
  (\E k \in Settings \ SystemOwned : setting[k].row # "NONE") =>
    /\ \A k \in SystemOwned : setting[k].version = 1
    /\ \A a \in Administrators : view[a].key \notin SystemOwned

Promised == {p \in Promotions : promotion[p].row # "NONE"}
NothingSold ==
  /\ \A c \in Cashiers : quote[c] = Prices!NoQuote
  /\ \A b \in Bills : bill[b] = Prices!NoBill
  /\ unbilled = [amount |-> 1, lines |-> 1]
PriceBound ==
  /\ ~AtMost(1, Promised) =>
       /\ NothingSold /\ day = 0
       /\ \A p, q \in Promised : promotion[p].terms = promotion[q].terms
  /\ (\E c \in Cashiers : shelfView[c].promotion # None) => NothingSold
  /\ ~AtMost(1, {b \in Bills : bill[b] # Prices!NoBill}) =>
       /\ unbilled.lines = 0
       /\ \A c \in Cashiers : quote[c] = Prices!NoQuote

\* Of two sales one is plain: billed, or paid and served, and no more.
Plain(i) ==
  /\ Books!Is(i, {"UNPAID", "PAID"}) /\ ~sale[i].straddled
  /\ sale[i].attempt = "NONE" /\ sale[i].again = "NONE" /\ sale[i].stamped = 0
  /\ sale[i].cup = (IF Books!Is(i, {"PAID"}) THEN "SERVED" ELSE "PENDING")
  /\ sale[i].refunds.count = 0
BooksBound ==
  (\A i \in Sales : ~Books!Is(i, {"NONE"})) => \E i \in Sales : Plain(i)

Known == {s \in Stations : bar[s].row # "NONE"}
Listings == {d \in Dishes : dish[d].life # "NONE"}
\* One station, which works, and all dishes are made there.
Calm ==
  /\ AtMost(1, Known)
  /\ \A s \in Known : Kitchen!Working(s)
  /\ \A d \in Listings : dish[d].life = "LIVE" /\ dish[d].station \in Known
KitchenBound ==
  /\ line = <<>> => clock = 0
  /\ clock > 0 => Calm
  /\ ~Calm => /\ AtMost(1, {l \in DOMAIN line : line[l].replaces = 0})
              /\ AtMost(1, Listings) /\ visit[2].status = "NONE"
  /\ Listings # {} => Known # {}
  /\ AtMost(1, {s \in Known : ~Kitchen!Working(s)})
  /\ ~AtMost(1, Listings) => visit[2].status = "NONE"
  /\ ~AtMost(1, DOMAIN ticket) => clock <= 1
  /\ \A t \in DOMAIN ticket : ticket[t].due <= MaxClock

Bounds ==
  CASE on = "floor" -> FloorBound
    [] on = "stock" -> StockBound
    [] on = "login" -> LoginBound
    [] on = "staff" -> StaffBound
    [] on = "notices" -> NoticesBound
    [] on = "card" -> CardBound
    [] on = "paper" -> CounterPaper \/ KitchenPaper
    [] on = "analyst" -> AnalystBound
    [] on = "config" -> ConfigBound
    [] on = "prices" -> PriceBound
    [] on = "books" -> BooksBound
    [] on = "kitchen" -> KitchenBound
    [] OTHER -> TRUE

\* Values of the constants that are tuples and records.
SomeValues == {<<"NUMBER", 1>>, <<"NUMBER", 2>>, <<"STRING", 1>>}
SomeTerms == {[type |-> "PERCENTAGE", value |-> 50, max |-> 0],
              [type |-> "PERCENTAGE", value |-> 50, max |-> 1],
              [type |-> "FIXED", value |-> 2, max |-> 0]}
SomeWindows == {<<0, 1>>, <<1, 2>>}

\* What may be exchanged within each service.
Symmetry ==
  Permutations(Tables) \cup Permutations(Bookings) \cup Permutations(Pictures)
    \cup Permutations(Categories) \cup Permutations(Remakes)
=============================================================================
