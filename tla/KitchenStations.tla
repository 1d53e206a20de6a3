--------------------------- MODULE KitchenStations ---------------------------
(***************************************************************************)
(* Kitchen stations (kitchen.service.ts), the dishes routed to them        *)
(* (menu.service.ts), the tickets orders leave there                       *)
(* (kitchen-routing.service.ts, orders.service.ts), and what the display,  *)
(* the workload, the exceptions and the SLA report say of those tickets.   *)
(*                                                                         *)
(* Every operation is one serializable transaction.  There is one guest:   *)
(* visit 1 is the session of the order, visit 2 the table a split makes;   *)
(* a bill is paid whole.  Names, codes and printers of stations are left   *)
(* out (Printing has the printers), and so are stock and the availability  *)
(* of dishes.                                                              *)
(***************************************************************************)
EXTENDS Integers, Sequences, FiniteSets, Sums

CONSTANTS Stations, Dishes, None,
          Preparations, \* values of prepSlaSeconds
          Portions,     \* quantities that are ordered
          Pickups,      \* pickup times, 0 for none
          MaxClock,     \* bound: time
          MaxOrdered    \* bound: order lines

VARIABLES clock,
          bar,     \* the KitchenStation rows
          dish,    \* the MenuItem rows: life and kitchenStationId
          visit,   \* the OrderSession rows
          line,    \* the OrderItem rows, oldest first
          ticket   \* the KitchenTicket rows with their items, oldest first

vars == <<clock, bar, dish, visit, line, ticket>>

Kinds == {"table", "takeaway", "online"}
Preparing == {"PENDING", "COOKING"}
NoStation == [row |-> "NONE", sla |-> 0]
NoDish == [life |-> "NONE", station |-> None]
NoVisit == [kind |-> "table", status |-> "NONE"]

Init ==
  /\ clock = 0
  /\ bar = [s \in Stations |-> NoStation]
  /\ dish = [d \in Dishes |-> NoDish]
  /\ visit = [v \in 1..2 |-> NoVisit]
  /\ line = <<>> /\ ticket = <<>>

Working(s) == bar[s].row = "ACTIVE"
Exists(s) == bar[s].row \in {"ACTIVE", "INACTIVE"}
ItemsOf(t) == {l \in DOMAIN line : ticket[t].items[l] > 0}
StatusesOf(t) == {line[l].status : l \in ItemsOf(t)}
Open(t) == StatusesOf(t) \cap Preparing # {}
Active(l) == visit[line[l].visit].status = "ACTIVE"

Tick ==
  /\ clock < MaxClock
  /\ clock' = clock + 1
  /\ UNCHANGED <<bar, dish, visit, line, ticket>>

-----------------------------------------------------------------------------
(* Stations and routes                                                     *)

AssertNoActiveTickets(s) ==
  \A t \in DOMAIN ticket : ticket[t].station = s => ~Open(t)

CreateStation(s, sla) ==
  /\ bar[s].row = "NONE"
  /\ bar' = [bar EXCEPT ![s] = [row |-> "ACTIVE", sla |-> sla]]
  /\ UNCHANGED <<clock, dish, visit, line, ticket>>
UpdateStation(s, row, sla) ==
  /\ Exists(s)
  /\ (row = "INACTIVE" /\ Working(s)) => AssertNoActiveTickets(s)
  /\ bar' = [bar EXCEPT ![s] = [row |-> row, sla |-> sla]]
  /\ UNCHANGED <<clock, dish, visit, line, ticket>>
\* Mutant: a station no dish is routed to is deleted whatever it is cooking.
DeleteUnassigned(s) ==
  /\ Exists(s)
  /\ \A d \in Dishes : dish[d].station = s => dish[d].life # "LIVE"
  /\ bar' = [bar EXCEPT ![s].row = "DELETED"]
  /\ UNCHANGED <<clock, dish, visit, line, ticket>>
DeleteStation(s) ==
  /\ Exists(s)
  /\ AssertNoActiveTickets(s)
  /\ \A d \in Dishes : dish[d].station = s => dish[d].life # "LIVE"
  /\ bar' = [bar EXCEPT ![s].row = "DELETED"]
  /\ UNCHANGED <<clock, dish, visit, line, ticket>>

\* createItem and updateItem, which sends its dish elsewhere or nowhere.
RouteDish(d, s) ==
  /\ dish[d].life \in {"NONE", "LIVE"}
  /\ s # None => Working(s)
  /\ dish' = [dish EXCEPT ![d] = [life |-> "LIVE", station |-> s]]
  /\ UNCHANGED <<clock, bar, visit, line, ticket>>
\* deleteItem: lines of sessions that are over do not keep a dish.
DeleteDish(d) ==
  /\ dish[d].life = "LIVE"
  /\ \A l \in DOMAIN line :
       line[l].dish = d /\ line[l].status \in Preparing => ~Active(l)
  /\ dish' = [dish EXCEPT ![d].life = "DELETED"]
  /\ UNCHANGED <<clock, bar, visit, line, ticket>>

-----------------------------------------------------------------------------
(* Orders                                                                  *)

Room(n) == Len(line) + n <= MaxOrdered
NewLine(d, v, q) ==
  [dish |-> d, visit |-> v, quantity |-> q, status |-> "PENDING", paid |-> FALSE,
   readyAt |-> FALSE, remadeAs |-> 0, replaces |-> 0]
Orderable(d) ==
  dish[d].life = "LIVE" /\ (dish[d].station # None => Working(dish[d].station))

\* The ticket of station s for the rows from n on; pickup is 0 without one.
NewTicket(s, rows, n, pickup) ==
  LET due == IF pickup > 0 THEN pickup ELSE clock + bar[s].sla
      start == due - bar[s].sla
  IN [station |-> s, due |-> due,
      availableAt |-> IF start > clock THEN start ELSE clock,
      items |-> [l \in 1..MaxOrdered |->
        IF l \in n..Len(rows) /\ dish[rows[l].dish].station = s
        THEN rows[l].quantity ELSE 0]]
\* createTickets: one for each station of the new rows, in their order.
CreateTickets(rows, n, pickup) ==
  LET To(l) == dish[rows[l].dish].station
      firsts == {l \in n..Len(rows) : To(l) # None /\ \A k \in n..(l - 1) : To(k) # To(l)}
      order == InOrder(firsts)
  IN [k \in DOMAIN order |-> NewTicket(To(order[k]), rows, n, pickup)]

\* addOrderItems, and createOnlineTakeawaySession once an online order is
\* accepted, with its pickup time if it is scheduled.
AddOrderItems(kind, ds, q, pickup) ==
  LET rows == line \o [k \in DOMAIN ds |-> NewLine(ds[k], 1, q)] IN
  /\ IF kind = "online" THEN visit[1].status = "NONE"
     ELSE visit[1].status = "NONE" \/ visit[1] = [kind |-> kind, status |-> "ACTIVE"]
  /\ Room(Len(ds))
  /\ \A k \in DOMAIN ds : Orderable(ds[k])
  /\ pickup > 0 => /\ kind = "online" /\ pickup > clock
                   /\ \A k \in DOMAIN ds : dish[ds[k]].station # None
  /\ visit' = [visit EXCEPT ![1] = [kind |-> kind, status |-> "ACTIVE"]]
  /\ line' = rows
  /\ ticket' = ticket \o CreateTickets(rows, Len(line) + 1, pickup)
  /\ UNCHANGED <<clock, bar, dish>>

Transition(from, to) ==
  <<from, to>> \in {<<"PENDING", "COOKING">>, <<"COOKING", "READY">>,
                    <<"COOKING", "SERVED">>, <<"READY", "SERVED">>}
Due(l) ==
  \A t \in DOMAIN ticket : l \in ItemsOf(t) => ticket[t].availableAt <= clock
\* The lines of an online order are served by Collect.
ServedAtCounter(l) ==
  visit[line[l].visit].kind = "online" => line[l].replaces > 0
ChangeItemStatus(l, to) ==
  /\ visit[line[l].visit].status # "CANCELLED"
  /\ visit[line[l].visit].status = "COMPLETED" => line[l].paid
  /\ Transition(line[l].status, to)
  /\ to = "READY" => visit[line[l].visit].kind # "table"
  /\ to = "COOKING" => Due(l)
  /\ to = "SERVED" => ServedAtCounter(l)
  /\ line' = [line EXCEPT ![l].status = to, ![l].readyAt = @ \/ to = "READY"]
  /\ UNCHANGED <<clock, bar, dish, visit, ticket>>

CancelItem(l) ==
  /\ line[l].status # "CANCELLED"
  /\ IF line[l].replaces = 0
     THEN /\ visit[line[l].visit].kind # "online"
          /\ ~line[l].paid /\ Active(l)
     ELSE /\ visit[line[l].visit].status # "CANCELLED" /\ line[l].status # "SERVED"
  /\ line' = [line EXCEPT ![l].status = "CANCELLED"]
  /\ UNCHANGED <<clock, bar, dish, visit, ticket>>

LinesOf(v) == {l \in DOMAIN line : line[l].visit = v}
Cancelled(v) ==
  [l \in DOMAIN line |-> IF line[l].visit = v /\ ~line[l].paid
                         THEN [line[l] EXCEPT !.status = "CANCELLED"] ELSE line[l]]
\* cancelSession; cancelAcceptedRequest, of an online order, even if prepared.
CancelSession(v) ==
  /\ visit[v].status = "ACTIVE"
  /\ \A l \in LinesOf(v) :
       /\ ~line[l].paid
       /\ line[l].status \in {"PENDING", "CANCELLED"}
            \/ (visit[v].kind = "online" /\ line[l].status # "SERVED")
  /\ line' = Cancelled(v)
  /\ visit' = [visit EXCEPT ![v].status = "CANCELLED"]
  /\ UNCHANGED <<clock, bar, dish, ticket>>

\* The whole bill is paid; closeSessionIfFullyPaid, for a takeaway.
PayVisit(v) ==
  LET owing == {l \in LinesOf(v) : ~line[l].paid /\ line[l].status # "CANCELLED"} IN
  /\ visit[v].status = "ACTIVE" /\ visit[v].kind # "online" /\ owing # {}
  /\ line' = [l \in DOMAIN line |-> IF l \in owing
                THEN [line[l] EXCEPT !.paid = TRUE] ELSE line[l]]
  /\ visit' = IF visit[v].kind = "table" THEN visit
              ELSE [visit EXCEPT ![v].status = "COMPLETED"]
  /\ UNCHANGED <<clock, bar, dish, ticket>>
\* collect, of an online order: it is paid and handed over at once.
Collect(v) ==
  /\ visit[v].status = "ACTIVE" /\ visit[v].kind = "online"
  /\ \A l \in LinesOf(v) : line[l].status = "READY"
  /\ line' = [l \in DOMAIN line |-> IF line[l].visit = v
                THEN [line[l] EXCEPT !.paid = TRUE, !.status = "SERVED"] ELSE line[l]]
  /\ visit' = [visit EXCEPT ![v].status = "COMPLETED"]
  /\ UNCHANGED <<clock, bar, dish, ticket>>
\* completeSession: the guests have left.
CompleteSession(v) ==
  /\ visit[v].status = "ACTIVE" /\ visit[v].kind = "table"
  /\ \A l \in LinesOf(v) : line[l].status # "CANCELLED" =>
       line[l].paid /\ line[l].status = "SERVED"
  /\ visit' = [visit EXCEPT ![v].status = "COMPLETED"]
  /\ UNCHANGED <<clock, bar, dish, line, ticket>>

\* splitTable: the whole line moves, or one portion of it, which is put on the
\* ticket of the other.
SplitTable(l, whole) ==
  LET v == line[l].visit  n == Len(line) + 1 IN
  /\ v = 1 /\ Active(l) /\ visit[1].kind # "online"
  /\ visit[2].status = "NONE"
  /\ ~line[l].paid /\ line[l].status # "CANCELLED"
  /\ visit' = [visit EXCEPT ![2] = [kind |-> "table", status |-> "ACTIVE"]]
  /\ IF whole
     THEN /\ line' = [line EXCEPT ![l].visit = 2]
          /\ UNCHANGED ticket
     ELSE /\ line[l].quantity > 1 /\ line[l].status = "PENDING" /\ Room(1)
          /\ line' = Append([line EXCEPT ![l].quantity = @ - 1],
                            NewLine(line[l].dish, 2, 1))
          /\ ticket' = [t \in DOMAIN ticket |-> IF l \in ItemsOf(t)
               THEN [ticket[t] EXCEPT !.items = [@ EXCEPT ![l] = line[l].quantity - 1,
                                                          ![n] = 1]]
               ELSE ticket[t]]
  /\ UNCHANGED <<clock, bar, dish>>

\* remakeItem: the dish as it is routed now.
RemakeItem(l) ==
  LET v == line[l].visit  n == Len(line) + 1
      again == [NewLine(line[l].dish, v, line[l].quantity) EXCEPT
                  !.paid = TRUE, !.replaces = l]
      rows == Append([line EXCEPT ![l].remadeAs = n], again)
  IN
  /\ line[l].paid /\ line[l].status = "SERVED"
  /\ visit[v].status # "CANCELLED"
  /\ visit[v].kind = "table" => visit[v].status = "ACTIVE"
  /\ line[l].remadeAs = 0 /\ line[l].replaces = 0
  /\ dish[line[l].dish].station # None /\ Orderable(line[l].dish)
  /\ Room(1)
  /\ line' = rows
  /\ ticket' = ticket \o CreateTickets(rows, n, 0)
  /\ UNCHANGED <<clock, bar, dish, visit>>

-----------------------------------------------------------------------------
(* What the screens say                                                    *)

\* ticketState and isOverdue of the display.
TicketState(t) ==
  CASE StatusesOf(t) \subseteq {"CANCELLED"} -> "CANCELLED"
    [] StatusesOf(t) \subseteq {"READY", "SERVED", "CANCELLED"}
         /\ ~(StatusesOf(t) \subseteq {"CANCELLED"}) -> "COMPLETED"
    [] Open(t) /\ StatusesOf(t) \cap {"COOKING", "READY", "SERVED"} # {} -> "IN_PROGRESS"
    [] OTHER -> "PENDING"
Late(t) == ticket[t].due < clock
Available(t) == ticket[t].availableAt <= clock
IsOverdue(t) == TicketState(t) \in {"PENDING", "IN_PROGRESS"} /\ Late(t)
\* getTickets without its options.
Listed(t) ==
  Available(t) /\ StatusesOf(t) \cap {"PENDING", "COOKING", "READY"} # {}
\* The open tickets getWorkload counts, for stations not deleted.
Workload(s) ==
  {t \in DOMAIN ticket : ticket[t].station = s /\ Exists(s) /\ Open(t) /\ Available(t)}
\* overdueKitchenWhere of the management exceptions.
OverdueKitchen ==
  {t \in DOMAIN ticket : Late(t) /\ Available(t) /\ Open(t) /\ Exists(ticket[t].station)}
\* overdueOpenCount of the SLA report: a line waits until it has a readyAt.
Waiting(l) == line[l].status # "CANCELLED" /\ ~line[l].readyAt
SlaOverdue ==
  {t \in DOMAIN ticket : Late(t) /\ Available(t) /\ \E l \in ItemsOf(t) : Waiting(l)}

Next ==
  \/ Tick
  \/ \E s \in Stations, sla \in Preparations :
       CreateStation(s, sla) \/ \E row \in {"ACTIVE", "INACTIVE"} : UpdateStation(s, row, sla)
  \/ \E s \in Stations : DeleteStation(s)
  \/ \E d \in Dishes : DeleteDish(d) \/ \E s \in Stations \cup {None} : RouteDish(d, s)
  \/ \E kind \in Kinds, q \in Portions, pickup \in Pickups, size \in 1..MaxOrdered :
       \E ds \in [1..size -> Dishes] : AddOrderItems(kind, ds, q, pickup)
  \/ \E l \in DOMAIN line :
       \/ \E to \in {"COOKING", "READY", "SERVED"} : ChangeItemStatus(l, to)
       \/ CancelItem(l) \/ RemakeItem(l)
       \/ \E whole \in BOOLEAN : SplitTable(l, whole)
  \/ \E v \in 1..2 : CancelSession(v) \/ PayVisit(v) \/ Collect(v) \/ CompleteSession(v)

Spec == Init /\ [][Next]_vars

-----------------------------------------------------------------------------
\* Work in the kitchen is where someone sees it: a line still to be made
\* waits at a station that works, with the portions the line has, and is
\* listed there once it is due; a dish is never routed to a deleted station;
\* the display, the workload and the exceptions find the same tickets late.
\* The SLA report finds them too, and beside them only tickets with a line
\* that was served without having been READY.
KitchenSeesWork ==
  /\ \A t \in DOMAIN ticket :
       /\ Open(t) => Working(ticket[t].station)
       /\ Open(t) /\ Available(t) => Listed(t) /\ t \in Workload(ticket[t].station)
       /\ \A l \in ItemsOf(t) : ticket[t].items[l] = line[l].quantity
       /\ IsOverdue(t) => Listed(t)
       /\ t \in SlaOverdue => IsOverdue(t) \/ \E l \in ItemsOf(t) :
                                line[l].status = "SERVED" /\ ~line[l].readyAt
  /\ \A l \in DOMAIN line : Cardinality({t \in DOMAIN ticket : l \in ItemsOf(t)}) <= 1
  /\ \A d \in Dishes : dish[d].life = "LIVE" /\ dish[d].station # None =>
       Exists(dish[d].station)
  /\ {t \in DOMAIN ticket : IsOverdue(t)} = OverdueKitchen
  /\ OverdueKitchen = UNION {{t \in Workload(s) : Late(t)} : s \in Stations}
  /\ OverdueKitchen \subseteq SlaOverdue
=============================================================================
