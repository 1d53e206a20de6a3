-------------------------- MODULE OnlineOrderProofs --------------------------
(***************************************************************************)
(* Proofs about takeaway orders from the public page, for any number of    *)
(* requests, lines and prices, any capacity of the slot and any deliveries.*)
(*                                                                         *)
(* The invariant says of every request in which chapter of its story it is *)
(* (its session: none, active, completed, cancelled), and what the row,    *)
(* the lines, the invoice and the ticket are in that chapter.              *)
(* Stock and reservations are compared with the lines by counting them, so *)
(* that a step of one request has to be followed through the count over    *)
(* all requests (SliceChange).                                             *)
(***************************************************************************)
EXTENDS OnlineOrders, FiniteSetTheorems, TLAPS

\* A line's reservation and its waste follow from its status.
LineOK(l) ==
    /\ l.held <=> l.status = "PENDING"
    /\ l.used <=> l.status \in {"COOKING", "READY", "SERVED"} \/ l.wasted
    /\ l.wasted => l.status = "CANCELLED"

\* A request q with session s, lines ls, ticket j and invoice p.
StoryOK(q, s, ls, j, p) ==
    /\ s = "NONE" => q.status # "ACCEPTED" /\ p = 0 /\ j = NoJob
                       /\ \A l \in Lines : ls[l].status = "NONE"
    /\ s = "ACTIVE" => q.status = "ACCEPTED" /\ p = 0 /\ ~j.slip
                         /\ \A l \in Lines : ls[l].status \in {"PENDING", "COOKING", "READY"}
    /\ s = "COMPLETED" => q.status = "ACCEPTED" /\ p = q.quoted
                            /\ \A l \in Lines : ls[l].status = "SERVED"
    /\ s = "CANCELLED" => q.status = "CANCELLED" /\ p = 0
                            /\ (j.status \in {"NONE", "CANCELLED"} \/ j.slip)
                            /\ \A l \in Lines : ls[l].status = "CANCELLED"
    /\ q.status = "NONE" => q = NoRequest
    /\ q.status \in {"NONE", "PENDING", "REJECTED"} => s = "NONE"
    /\ q.status # "NONE" => 0 < q.quoted /\ q.quoted <= Quote(q.limit)
    /\ q.reason = "customer" =>
         /\ q.status = "CANCELLED"
         /\ ~j.slip /\ j.status \in {"NONE", "CANCELLED"}
         /\ \A l \in Lines : ~ls[l].used

\* A scheduled order is overdue only when the slot is over.
OverdueOK(q, phase) == q.overdue /\ q.scheduled => phase = "graceOver"

Requested ==
    \A r \in Requests :
      /\ StoryOK(row[r], session[r], line[r], job[r], paid[r])
      /\ OverdueOK(row[r], slot)
      /\ \A l \in Lines : LineOK(line[r][l])
      /\ \A c \in calls[r] : c.price <= c.limit

\* The lines that hold a reservation, and those that took their portion.
Places == Requests \X Lines
Holds(lin) == {x \in Places : lin[x[1]][x[2]].held}
Uses(lin) == {x \in Places : lin[x[1]][x[2]].used}

Shelved ==
    /\ stock + Cardinality(Uses(line)) = bought
    /\ reserved = Cardinality(Holds(line))
    /\ reserved <= stock

Inv == TypeOK /\ Requested /\ Cardinality(Booked) <= Capacity /\ Shelved

-----------------------------------------------------------------------------
(* Counting lines.                                                         *)

\* There is a line, and their number is a number.
LEMMA PortionsNat == Portions \in Nat \ {0} /\ IsFiniteSet(Lines)
  BY OnlineOrderConstants, FS_CardinalityType, FS_EmptySet DEF Portions

\* Quotes grow with the price.
LEMMA QuoteGrows ==
  ASSUME NEW p \in Prices, NEW q \in Prices, p <= q
  PROVE  Quote(p) \in Nat /\ 0 < Quote(p) /\ Quote(p) <= Quote(q)
<1>1. p \in Nat \ {0} /\ q \in Nat \ {0}
  BY OnlineOrderConstants
<1>2. Portions \in Nat \ {0}
  BY PortionsNat
<1> DEFINE n == Portions
<1> HIDE DEF n
<1>3. n \in Nat \ {0}
  BY <1>2 DEF n
<1>4. p * n \in Nat /\ 0 < p * n
  BY ONLY <1>1, <1>3, SMT
<1>5. p * n <= q * n
  BY ONLY <1>1, <1>3, p <= q, SMT
<1>. QED BY <1>4, <1>5 DEF Quote, n

\* Places of one request, and sets that differ in these only.
Slice(A, r) == {l \in Lines : <<r, l>> \in A}
SameBut(r, A, B) == \A x \in Places : x[1] # r => (x \in A <=> x \in B)

\* The lines of one request in a count over all requests.
LEMMA SliceChange ==
  ASSUME NEW A \in SUBSET Places, NEW B \in SUBSET Places, NEW r \in Requests,
         SameBut(r, A, B)
  PROVE  /\ Cardinality(B) = Cardinality(A) - Cardinality(Slice(A, r)) + Cardinality(Slice(B, r))
         /\ Cardinality(A) \in Nat /\ Cardinality(Slice(A, r)) \in Nat
         /\ Cardinality(Slice(B, r)) \in Nat /\ Cardinality(Slice(A, r)) <= Cardinality(A)
<1> DEFINE a == Slice(A, r)
           b == Slice(B, r)
           rest == {x \in A : x[1] # r}
<1>1. /\ IsFiniteSet(Places) /\ IsFiniteSet(Lines) /\ IsFiniteSet({r}) /\ Cardinality({r}) = 1
  BY OnlineOrderConstants, FS_Product, FS_Singleton DEF Places
<1>2. /\ IsFiniteSet(a) /\ IsFiniteSet(b) /\ IsFiniteSet(rest) /\ IsFiniteSet(A) /\ IsFiniteSet(B)
  BY <1>1, FS_Subset DEF Slice
<1>3. /\ A = rest \cup ({r} \X a) /\ rest \cap ({r} \X a) = {}
      /\ B = rest \cup ({r} \X b) /\ rest \cap ({r} \X b) = {}
  BY DEF Places, Slice, SameBut
<1> HIDE DEF a, b, rest
<1>4. /\ IsFiniteSet({r} \X a) /\ Cardinality({r} \X a) = 1 * Cardinality(a)
      /\ IsFiniteSet({r} \X b) /\ Cardinality({r} \X b) = 1 * Cardinality(b)
  BY <1>1, <1>2, FS_Product
<1>5. /\ Cardinality(A) = Cardinality(rest) + Cardinality({r} \X a) - Cardinality({})
      /\ Cardinality(B) = Cardinality(rest) + Cardinality({r} \X b) - Cardinality({})
  <2> DEFINE pa == {r} \X a
             pb == {r} \X b
  <2>1. /\ IsFiniteSet(pa) /\ A = rest \cup pa /\ rest \cap pa = {}
        /\ IsFiniteSet(pb) /\ B = rest \cup pb /\ rest \cap pb = {}
    BY <1>3, <1>4
  <2> HIDE DEF pa, pb
  <2>2. Cardinality(rest \cup pa) = Cardinality(rest) + Cardinality(pa) - Cardinality(rest \cap pa)
    BY <1>2, <2>1, FS_Union
  <2>3. Cardinality(rest \cup pb) = Cardinality(rest) + Cardinality(pb) - Cardinality(rest \cap pb)
    BY <1>2, <2>1, FS_Union
  <2>. QED BY <2>1, <2>2, <2>3 DEF pa, pb
<1>6. /\ Cardinality(rest) \in Nat /\ Cardinality(a) \in Nat /\ Cardinality(b) \in Nat
      /\ Cardinality({}) = 0
  BY <1>2, FS_CardinalityType, FS_EmptySet
<1>. QED BY <1>4, <1>5, <1>6 DEF a, b

\* What Sum counts in IngredientsAccounted.
LEMMA Accounted ==
  ASSUME Inv PROVE IngredientsAccounted
<1>1. \A x \in Places : LineOK(line[x[1]][x[2]]) /\ line[x[1]][x[2]].held \in BOOLEAN
         /\ line[x[1]][x[2]].used \in BOOLEAN /\ line[x[1]][x[2]].wasted \in BOOLEAN
  BY DEF Inv, Requested, Places, TypeOK, Line
<1>2. Holds(line) = {x \in Requests \X Lines : line[x[1]][x[2]].held}
        /\ Uses(line) = {x \in Requests \X Lines : line[x[1]][x[2]].used}
  BY DEF Holds, Uses, Places
<1>. QED BY <1>1, <1>2 DEF IngredientsAccounted, Inv, Shelved, LineOK, Places

-----------------------------------------------------------------------------
(* Steps.                                                                  *)

\* The first state.
LEMMA InitInv == Init => Inv
<1> SUFFICES ASSUME Init PROVE Inv
  OBVIOUS
<1>1. TypeOK
  BY OnlineOrderConstants
  DEF Init, TypeOK, NoRequest, Request, NoLine, Line, NoJob, Job, SlotPhases
<1>2. Requested
  BY DEF Init, Requested, StoryOK, OverdueOK, LineOK, NoRequest, NoLine, NoJob
<1>3. Cardinality(Booked) <= Capacity
  <2>1. Booked = {}
    BY DEF Init, Booked, NoRequest
  <2>. QED BY <2>1, OnlineOrderConstants, FS_EmptySet
<1>4. Shelved
  <2>1. Holds(line) = {} /\ Uses(line) = {}
    BY DEF Init, Holds, Uses, Places, NoLine
  <2>2. Cardinality({}) = 0
    BY FS_EmptySet
  <2>3. stock = 0 /\ reserved = 0 /\ bought = 0
    BY DEF Init
  <2>. QED BY <2>1, <2>2, <2>3 DEF Shelved
<1>. QED BY <1>1, <1>2, <1>3, <1>4 DEF Inv

\* The slot is not overbooked by a request that had its place already, or for
\* which there was one left.
LEMMA BookedInv ==
  ASSUME Inv, NEW r \in Requests, NEW q \in Request, row' = [row EXCEPT ![r] = q],
         q.status = "ACCEPTED" /\ q.scheduled => r \in Booked \/ Cardinality(Booked) < Capacity
  PROVE  Cardinality(Booked') <= Capacity
<1>1. IsFiniteSet(Booked) /\ Cardinality(Booked) \in Nat /\ Capacity \in Nat
        /\ Cardinality(Booked) <= Capacity
  BY OnlineOrderConstants, FS_Subset, FS_CardinalityType DEF Booked, Inv
<1>2. row'[r] = q /\ \A o \in Requests \ {r} : row'[o] = row[o]
  BY DEF Inv, TypeOK
<1>3. CASE r \in Booked \/ ~(q.status = "ACCEPTED" /\ q.scheduled)
  <2>1. Booked' \subseteq Booked
    BY <1>2, <1>3 DEF Booked
  <2>2. Cardinality(Booked') <= Cardinality(Booked) /\ Cardinality(Booked') \in Nat
    BY <1>1, <2>1, FS_Subset, FS_CardinalityType
  <2>. QED BY <1>1, <2>2
<1>4. CASE r \notin Booked /\ Cardinality(Booked) < Capacity
  <2>1. Booked' = Booked \cup {r} \/ Booked' = Booked
    BY <1>2, <1>4 DEF Booked
  <2>2. Cardinality(Booked \cup {r}) = Cardinality(Booked) + 1
    BY <1>1, <1>4, FS_AddElement
  <2>. QED BY <1>1, <1>4, <2>1, <2>2
<1>. QED BY <1>3, <1>4

\* Steps on one request that leave its lines alone.
LEMMA RequestInv ==
  ASSUME Inv, NEW r \in Requests, NEW q \in Request, NEW j \in Job,
         row' = [row EXCEPT ![r] = q], job' = [job EXCEPT ![r] = j],
         StoryOK(q, session[r], line[r], j, paid[r]), OverdueOK(q, slot),
         q.status = "ACCEPTED" /\ q.scheduled => r \in Booked,
         calls' \in [Requests -> SUBSET Call],
         \A o \in Requests : \A c \in calls'[o] : c.price <= c.limit,
         UNCHANGED <<session, line, paid, shop, store>>
  PROVE  Inv'
<1>1. UNCHANGED <<session, line, paid, price, intake, slot, stock, reserved, bought>>
  BY DEF shop, store
<1>2. /\ row' \in [Requests -> Request] /\ job' \in [Requests -> Job]
      /\ row'[r] = q /\ job'[r] = j
      /\ \A o \in Requests \ {r} : row'[o] = row[o] /\ job'[o] = job[o]
  BY DEF Inv, TypeOK
<1>3. TypeOK'
  BY <1>1, <1>2 DEF Inv, TypeOK
<1>4. Requested'
  BY <1>1, <1>2 DEF Inv, Requested
<1>5. Cardinality(Booked') <= Capacity
  BY BookedInv
<1>6. Shelved'
  BY <1>1 DEF Inv, Shelved
<1>. QED BY <1>3, <1>4, <1>5, <1>6 DEF Inv

\* Steps on the lines of one request and the stock behind them.
LEMMA LinesInv ==
  ASSUME Inv, NEW r \in Requests, NEW q \in Request, NEW s, NEW j \in Job, NEW p \in Nat,
         NEW ls \in [Lines -> Line],
         s \in {"NONE", "ACTIVE", "COMPLETED", "CANCELLED"},
         row' = [row EXCEPT ![r] = q], session' = [session EXCEPT ![r] = s],
         job' = [job EXCEPT ![r] = j], paid' = [paid EXCEPT ![r] = p],
         line' = [line EXCEPT ![r] = ls],
         StoryOK(q, s, ls, j, p), OverdueOK(q, slot), \A l \in Lines : LineOK(ls[l]),
         q.status = "ACCEPTED" /\ q.scheduled => r \in Booked \/ Cardinality(Booked) < Capacity,
         stock' \in Nat, reserved' \in Nat, reserved' <= stock',
         stock' = stock + Cardinality({l \in Lines : line[r][l].used})
                        - Cardinality({l \in Lines : ls[l].used}),
         reserved' = reserved - Cardinality({l \in Lines : line[r][l].held})
                              + Cardinality({l \in Lines : ls[l].held}),
         UNCHANGED <<calls, shop, bought>>
  PROVE  Inv'
<1>1. UNCHANGED <<calls, price, intake, slot, bought>>
  BY DEF shop
<1>2. /\ row' \in [Requests -> Request] /\ job' \in [Requests -> Job]
      /\ row'[r] = q /\ job'[r] = j /\ session'[r] = s /\ paid'[r] = p /\ line'[r] = ls
      /\ session' \in [Requests -> {"NONE", "ACTIVE", "COMPLETED", "CANCELLED"}]
      /\ paid' \in [Requests -> Nat]
  BY DEF Inv, TypeOK
<1>3. /\ line \in [Requests -> [Lines -> Line]] /\ line' \in [Requests -> [Lines -> Line]]
      /\ \A o \in Requests \ {r} : /\ row'[o] = row[o] /\ job'[o] = job[o]
                                   /\ session'[o] = session[o] /\ paid'[o] = paid[o]
                                   /\ line'[o] = line[o]
  BY DEF Inv, TypeOK
<1>4. TypeOK'
  BY <1>1, <1>2, <1>3 DEF Inv, TypeOK
<1>5. Requested'
  <2>1. ASSUME NEW o \in Requests
        PROVE  /\ StoryOK(row'[o], session'[o], line'[o], job'[o], paid'[o])
               /\ OverdueOK(row'[o], slot)
               /\ \A l \in Lines : LineOK(line'[o][l])
               /\ \A c \in calls[o] : c.price <= c.limit
    BY <1>2, <1>3 DEF Inv, Requested
  <2>. QED BY <1>1, <2>1 DEF Requested
<1>6. Cardinality(Booked') <= Capacity
  BY BookedInv
<1>7. /\ Cardinality(Holds(line')) = Cardinality(Holds(line))
           - Cardinality({l \in Lines : line[r][l].held}) + Cardinality({l \in Lines : ls[l].held})
      /\ Cardinality(Holds(line)) \in Nat /\ Cardinality({l \in Lines : line[r][l].held}) \in Nat
      /\ Cardinality({l \in Lines : ls[l].held}) \in Nat
  <2>1. /\ Slice(Holds(line), r) = {l \in Lines : line[r][l].held}
        /\ Slice(Holds(line'), r) = {l \in Lines : ls[l].held}
    BY <1>2 DEF Holds, Places, Slice
  <2>2. Holds(line) \in SUBSET Places /\ Holds(line') \in SUBSET Places
    BY DEF Holds
  <2>3. SameBut(r, Holds(line), Holds(line'))
    BY <1>3 DEF Holds, Places, SameBut
  <2> DEFINE A == Holds(line)
             B == Holds(line')
  <2>4. A \in SUBSET Places /\ B \in SUBSET Places /\ SameBut(r, A, B)
    BY <2>2, <2>3
  <2> HIDE DEF A, B
  <2>5. /\ Cardinality(B) = Cardinality(A) - Cardinality(Slice(A, r)) + Cardinality(Slice(B, r))
        /\ Cardinality(A) \in Nat /\ Cardinality(Slice(A, r)) \in Nat
        /\ Cardinality(Slice(B, r)) \in Nat
    BY <2>4, SliceChange
  <2>. QED BY <2>1, <2>5 DEF A, B
<1>8. /\ Cardinality(Uses(line')) = Cardinality(Uses(line))
           - Cardinality({l \in Lines : line[r][l].used}) + Cardinality({l \in Lines : ls[l].used})
      /\ Cardinality(Uses(line)) \in Nat /\ Cardinality({l \in Lines : line[r][l].used}) \in Nat
      /\ Cardinality({l \in Lines : ls[l].used}) \in Nat
  <2>1. /\ Slice(Uses(line), r) = {l \in Lines : line[r][l].used}
        /\ Slice(Uses(line'), r) = {l \in Lines : ls[l].used}
    BY <1>2 DEF Uses, Places, Slice
  <2>2. Uses(line) \in SUBSET Places /\ Uses(line') \in SUBSET Places
    BY DEF Uses
  <2>3. SameBut(r, Uses(line), Uses(line'))
    BY <1>3 DEF Uses, Places, SameBut
  <2> DEFINE A == Uses(line)
             B == Uses(line')
  <2>4. A \in SUBSET Places /\ B \in SUBSET Places /\ SameBut(r, A, B)
    BY <2>2, <2>3
  <2> HIDE DEF A, B
  <2>5. /\ Cardinality(B) = Cardinality(A) - Cardinality(Slice(A, r)) + Cardinality(Slice(B, r))
        /\ Cardinality(A) \in Nat /\ Cardinality(Slice(A, r)) \in Nat
        /\ Cardinality(Slice(B, r)) \in Nat
    BY <2>4, SliceChange
  <2>. QED BY <2>1, <2>5 DEF A, B
<1>9. Shelved'
  <2> DEFINE ha == Cardinality({l \in Lines : line[r][l].held})
             hb == Cardinality({l \in Lines : ls[l].held})
             ua == Cardinality({l \in Lines : line[r][l].used})
             ub == Cardinality({l \in Lines : ls[l].used})
  <2>1. /\ stock' = stock + ua - ub /\ reserved' = reserved - ha + hb
        /\ Cardinality(Holds(line')) = Cardinality(Holds(line)) - ha + hb
        /\ Cardinality(Uses(line')) = Cardinality(Uses(line)) - ua + ub
        /\ Cardinality(Holds(line)) \in Nat /\ Cardinality(Uses(line)) \in Nat
        /\ ha \in Nat /\ hb \in Nat /\ ua \in Nat /\ ub \in Nat
    BY <1>7, <1>8
  <2> HIDE DEF ha, hb, ua, ub
  <2>2. /\ stock + Cardinality(Uses(line)) = bought /\ reserved = Cardinality(Holds(line))
        /\ stock \in Nat
    BY DEF Inv, Shelved, TypeOK
  <2>. QED BY <1>1, <2>1, <2>2 DEF Shelved
<1>. QED BY <1>4, <1>5, <1>6, <1>9 DEF Inv

\* Prices, the intake, deliveries and the clock.
LEMMA ShopInv ==
  ASSUME Inv,
         \/ \E p \in Prices : PriceChanges(p)
         \/ \E to \in {"open", "scheduledOnly", "paused"} : IntakeChanges(to)
         \/ \E quantity \in Deliveries : Restock(quantity)
         \/ TimePasses
  PROVE  Inv'
<1>0. /\ TypeOK /\ Requested /\ Cardinality(Booked) <= Capacity /\ Shelved
      /\ Deliveries \subseteq Nat
  BY OnlineOrderConstants DEF Inv
<1>1. ASSUME UNCHANGED <<row, calls, session, line, job, paid>>,
             slot' = slot \/ slot # "graceOver", TypeOK', Shelved'
      PROVE  Inv'
  <2>1. Requested'
    BY <1>0, <1>1 DEF Requested, OverdueOK
  <2>2. Booked' = Booked
    BY <1>1 DEF Booked
  <2>. QED BY <1>0, <1>1, <2>1, <2>2 DEF Inv
<1>2. ASSUME NEW p \in Prices, PriceChanges(p) PROVE Inv'
  <2>1. TypeOK' /\ Shelved'
    BY <1>0, <1>2 DEF PriceChanges, TypeOK, Shelved, store
  <2>. QED BY <1>1, <1>2, <2>1 DEF PriceChanges
<1>3. ASSUME NEW to \in {"open", "scheduledOnly", "paused"}, IntakeChanges(to) PROVE Inv'
  <2>1. TypeOK' /\ Shelved'
    BY <1>0, <1>3 DEF IntakeChanges, TypeOK, Shelved, store
  <2>. QED BY <1>1, <1>3, <2>1 DEF IntakeChanges
<1>4. ASSUME NEW quantity \in Deliveries, Restock(quantity) PROVE Inv'
  <2>1. TypeOK'
    BY <1>0, <1>4 DEF Restock, TypeOK, shop
  <2>2. Shelved'
    <3>1. Cardinality(Uses(line)) \in Nat
      BY OnlineOrderConstants, FS_Product, FS_Subset, FS_CardinalityType DEF Uses, Places
    <3>2. /\ stock' = stock + quantity /\ bought' = bought + quantity /\ reserved' = reserved
          /\ line' = line /\ quantity \in Nat
      BY <1>0, <1>4 DEF Restock
    <3>3. /\ stock + Cardinality(Uses(line)) = bought /\ reserved = Cardinality(Holds(line))
          /\ reserved <= stock /\ stock \in Nat /\ reserved \in Nat
      BY <1>0 DEF Shelved, TypeOK
    <3>4. /\ stock' + Cardinality(Uses(line)) = bought' /\ reserved' <= stock'
      BY <3>1, <3>2, <3>3
    <3>. QED BY <3>2, <3>3, <3>4 DEF Shelved
  <2>. QED BY <1>1, <1>4, <2>1, <2>2 DEF Restock, shop
<1>5. ASSUME TimePasses PROVE Inv'
  <2>1. TypeOK' /\ Shelved' /\ slot # "graceOver"
    BY <1>0, <1>5 DEF TimePasses, TypeOK, Shelved, store, SlotPhases
  <2>. QED BY <1>1, <1>5, <2>1 DEF TimePasses
<1>. QED BY <1>2, <1>3, <1>4, <1>5

\* Submissions, as far as they are still calls.
LEMMA CallsInv ==
  ASSUME Inv, NEW r \in Requests,
         \/ \E scheduled \in BOOLEAN, limit \in Prices : ReadMenu(r, scheduled, limit)
         \/ \E c \in calls[r] : Submit(r, c) \/ AnswerSubmission(r, c)
  PROVE  Inv'
<1>0. /\ row[r] \in Request /\ job[r] \in Job /\ calls \in [Requests -> SUBSET Call]
      /\ StoryOK(row[r], session[r], line[r], job[r], paid[r]) /\ OverdueOK(row[r], slot)
      /\ \A o \in Requests : \A c \in calls[o] : c.price <= c.limit
      /\ row \in [Requests -> Request] /\ job \in [Requests -> Job] /\ price \in Prices
      /\ row[r].status = "ACCEPTED" /\ row[r].scheduled => r \in Booked
  BY DEF Inv, Requested, TypeOK, Booked
<1>1. ASSUME UNCHANGED <<row, job>>, calls' \in [Requests -> SUBSET Call],
             \A o \in Requests : \A c \in calls'[o] : c.price <= c.limit,
             UNCHANGED <<session, line, paid, shop, store>>
      PROVE  Inv'
  <2>1. row' = [row EXCEPT ![r] = row[r]] /\ job' = [job EXCEPT ![r] = job[r]]
    BY <1>0, <1>1
  <2>. QED BY <1>0, <1>1, <2>1, RequestInv
<1>2. ASSUME NEW scheduled \in BOOLEAN, NEW limit \in Prices, ReadMenu(r, scheduled, limit)
      PROVE  Inv'
  <2> DEFINE c == [scheduled |-> scheduled, limit |-> limit, price |-> price]
  <2>1. /\ c \in Call /\ c.price <= c.limit
        /\ calls' = [calls EXCEPT ![r] = @ \cup {c}]
        /\ UNCHANGED <<row, job>> /\ UNCHANGED <<session, line, paid, shop, store>>
    BY <1>0, <1>2 DEF ReadMenu, Call
  <2> HIDE DEF c
  <2>2. /\ calls' \in [Requests -> SUBSET Call]
        /\ \A o \in Requests : \A d \in calls'[o] : d.price <= d.limit
    BY <1>0, <2>1
  <2>. QED BY <1>1, <2>1, <2>2
<1>3. ASSUME NEW c \in calls[r], calls' = [calls EXCEPT ![r] = @ \ {c}]
      PROVE  /\ calls' \in [Requests -> SUBSET Call]
             /\ \A o \in Requests : \A d \in calls'[o] : d.price <= d.limit
  BY <1>0, <1>3
<1>4. ASSUME NEW c \in calls[r], AnswerSubmission(r, c) PROVE Inv'
  <2>1. /\ calls' = [calls EXCEPT ![r] = @ \ {c}]
        /\ UNCHANGED <<row, job>> /\ UNCHANGED <<session, line, paid, shop, store>>
    BY <1>4 DEF AnswerSubmission
  <2>. QED BY <1>1, <1>3, <2>1
<1>5. ASSUME NEW c \in calls[r], Submit(r, c) PROVE Inv'
  <2> DEFINE q == Submitted(c)
             total == Quote(c.price)
  <2>1. /\ calls' = [calls EXCEPT ![r] = @ \ {c}] /\ row[r].status = "NONE"
        /\ row' = [row EXCEPT ![r] = q] /\ job' = job
        /\ UNCHANGED <<session, line, paid, shop, store>>
    BY <1>5 DEF Submit
  <2>2. c \in Call /\ c.price \in Prices /\ c.limit \in Prices /\ c.price <= c.limit
        /\ c.scheduled \in BOOLEAN
    BY <1>0 DEF Call
  <2>3. total \in Nat /\ 0 < total /\ total <= Quote(c.limit)
    BY <2>2, QuoteGrows
  <2> HIDE DEF total
  <2>4. /\ q \in Request /\ q.status = "PENDING" /\ q.scheduled = c.scheduled
        /\ q.limit = c.limit /\ q.quoted = total /\ q.reason = "none" /\ ~q.overdue
    BY <2>2, <2>3 DEF Submitted, NoRequest, Request, total
  <2> HIDE DEF q
  <2>5. job' = [job EXCEPT ![r] = job[r]]
    BY <1>0, <2>1
  <2>6. session[r] = "NONE"
    BY <1>0, <2>1 DEF StoryOK
  <2>7. StoryOK(q, session[r], line[r], job[r], paid[r]) /\ OverdueOK(q, slot)
    BY <1>0, <2>3, <2>4, <2>6 DEF StoryOK, OverdueOK
  <2>8. q.status = "ACCEPTED" /\ q.scheduled => r \in Booked
    BY <2>4
  <2>. QED BY <1>0, <1>3, <2>1, <2>4, <2>5, <2>7, <2>8, RequestInv
<1>. QED BY <1>2, <1>4, <1>5

\* Deadlines, refusals and the ticket's way to the printer.
LEMMA DeadlinesInv ==
  ASSUME Inv, NEW r \in Requests,
         \/ ReviewEnds(r) \/ AccessEnds(r) \/ GraceEnds(r) \/ Reject(r) \/ Withdraw(r)
         \/ TakeTicket(r)
         \/ \E status \in {"PENDING", "FAILED"} : TicketNotPrinted(r, status)
  PROVE  Inv'
<1>0. /\ row[r] \in Request /\ job[r] \in Job /\ calls \in [Requests -> SUBSET Call]
      /\ StoryOK(row[r], session[r], line[r], job[r], paid[r]) /\ OverdueOK(row[r], slot)
      /\ \A l \in Lines : LineOK(line[r][l])
      /\ \A o \in Requests : \A c \in calls[o] : c.price <= c.limit
      /\ row \in [Requests -> Request] /\ job \in [Requests -> Job]
      /\ line[r] \in [Lines -> Line]
      /\ row[r].status = "ACCEPTED" /\ row[r].scheduled => r \in Booked
  BY DEF Inv, Requested, TypeOK, Booked
<1>1. ASSUME NEW q \in Request, row' = [row EXCEPT ![r] = q],
             StoryOK(q, session[r], line[r], job[r], paid[r]), OverdueOK(q, slot),
             q.status = "ACCEPTED" /\ q.scheduled => r \in Booked,
             UNCHANGED <<calls, session, line, job, paid, shop, store>>
      PROVE  Inv'
  <2>1. job' = [job EXCEPT ![r] = job[r]] /\ calls' = calls
        /\ UNCHANGED <<session, line, paid, shop, store>>
    BY <1>0, <1>1
  <2>. QED BY <1>0, <1>1, <2>1, RequestInv
<1>2. ASSUME NEW st \in {"PENDING", "TAKEN", "FAILED", "CANCELLED"},
             job' = [job EXCEPT ![r].status = st], job[r].status \in {"PENDING", "TAKEN"},
             session[r] = "CANCELLED" => st = "CANCELLED" \/ job[r].slip,
             UNCHANGED <<row, calls, session, line, paid, shop, store>>
      PROVE  Inv'
  <2> DEFINE j == [job[r] EXCEPT !.status = st]
  <2>1. /\ row' = [row EXCEPT ![r] = row[r]] /\ job' = [job EXCEPT ![r] = j] /\ calls' = calls
        /\ UNCHANGED <<session, line, paid, shop, store>>
    BY <1>0, <1>2
  <2>2. j \in Job /\ j.status = st /\ j.slip = job[r].slip
    BY <1>0 DEF Job
  <2> HIDE DEF j
  <2>3. session[r] # "NONE" /\ row[r].reason # "customer"
    BY <1>0, <1>2 DEF StoryOK, NoJob
  <2>4. StoryOK(row[r], session[r], line[r], j, paid[r])
    BY <1>0, <1>2, <2>2, <2>3 DEF StoryOK
  <2>5. /\ row[r] \in Request /\ OverdueOK(row[r], slot) /\ calls' \in [Requests -> SUBSET Call]
        /\ row[r].status = "ACCEPTED" /\ row[r].scheduled => r \in Booked
        /\ \A o \in Requests : \A c \in calls'[o] : c.price <= c.limit
    BY <1>0, <2>1
  <2>. QED BY <2>1, <2>2, <2>4, <2>5, RequestInv
<1>3. ASSUME ReviewEnds(r) PROVE Inv'
  <2> DEFINE q == [row[r] EXCEPT !.expired = TRUE]
  <2>1. row' = [row EXCEPT ![r] = q] /\ row[r].status = "PENDING"
        /\ UNCHANGED <<calls, session, line, job, paid, shop, store>>
    BY <1>3 DEF ReviewEnds, Pending
  <2>2. /\ q \in Request /\ q.status = row[r].status /\ q.scheduled = row[r].scheduled
        /\ q.limit = row[r].limit /\ q.quoted = row[r].quoted /\ q.reason = row[r].reason
        /\ q.overdue = row[r].overdue
    BY <1>0 DEF Request
  <2> HIDE DEF q
  <2>3. StoryOK(q, session[r], line[r], job[r], paid[r]) /\ OverdueOK(q, slot)
    BY <1>0, <2>1, <2>2 DEF StoryOK, OverdueOK
  <2>. QED BY <1>0, <1>1, <2>1, <2>2, <2>3
<1>4. ASSUME AccessEnds(r) PROVE Inv'
  <2> DEFINE q == [row[r] EXCEPT !.closed = TRUE]
  <2>1. row' = [row EXCEPT ![r] = q] /\ session[r] = "ACTIVE"
        /\ UNCHANGED <<calls, session, line, job, paid, shop, store>>
    BY <1>4 DEF AccessEnds
  <2>2. /\ q \in Request /\ q.status = row[r].status /\ q.scheduled = row[r].scheduled
        /\ q.limit = row[r].limit /\ q.quoted = row[r].quoted /\ q.reason = row[r].reason
        /\ q.overdue = row[r].overdue
    BY <1>0 DEF Request
  <2> HIDE DEF q
  <2>3. StoryOK(q, session[r], line[r], job[r], paid[r]) /\ OverdueOK(q, slot)
    BY <1>0, <2>1, <2>2 DEF StoryOK, OverdueOK
  <2>. QED BY <1>0, <1>1, <2>1, <2>2, <2>3
<1>5. ASSUME GraceEnds(r) PROVE Inv'
  <2> DEFINE q == [row[r] EXCEPT !.overdue = TRUE]
  <2>1. row' = [row EXCEPT ![r] = q] /\ session[r] = "ACTIVE"
        /\ (row[r].scheduled => slot = "graceOver")
        /\ UNCHANGED <<calls, session, line, job, paid, shop, store>>
    BY <1>5 DEF GraceEnds
  <2>2. /\ q \in Request /\ q.status = row[r].status /\ q.scheduled = row[r].scheduled
        /\ q.limit = row[r].limit /\ q.quoted = row[r].quoted /\ q.reason = row[r].reason
    BY <1>0 DEF Request
  <2> HIDE DEF q
  <2>3. StoryOK(q, session[r], line[r], job[r], paid[r]) /\ OverdueOK(q, slot)
    BY <1>0, <2>1, <2>2 DEF StoryOK, OverdueOK
  <2>. QED BY <1>0, <1>1, <2>1, <2>2, <2>3
<1>6. ASSUME Reject(r) PROVE Inv'
  <2> DEFINE q == [row[r] EXCEPT !.status = "REJECTED"]
  <2>1. row' = [row EXCEPT ![r] = q] /\ row[r].status = "PENDING"
        /\ UNCHANGED <<calls, session, line, job, paid, shop, store>>
    BY <1>6 DEF Reject, Pending
  <2>2. /\ q \in Request /\ q.status = "REJECTED" /\ q.scheduled = row[r].scheduled
        /\ q.limit = row[r].limit /\ q.quoted = row[r].quoted /\ q.reason = row[r].reason
        /\ q.overdue = row[r].overdue
    BY <1>0 DEF Request
  <2> HIDE DEF q
  <2>3. StoryOK(q, session[r], line[r], job[r], paid[r]) /\ OverdueOK(q, slot)
    BY <1>0, <2>1, <2>2 DEF StoryOK, OverdueOK
  <2>. QED BY <1>0, <1>1, <2>1, <2>2, <2>3
<1>7. ASSUME Withdraw(r) PROVE Inv'
  <2> DEFINE q == [row[r] EXCEPT !.status = "CANCELLED", !.reason = "customer"]
  <2>1. row' = [row EXCEPT ![r] = q] /\ row[r].status = "PENDING"
        /\ UNCHANGED <<calls, session, line, job, paid, shop, store>>
    BY <1>7 DEF Withdraw, Pending
  <2>2. /\ q \in Request /\ q.status = "CANCELLED" /\ q.scheduled = row[r].scheduled
        /\ q.limit = row[r].limit /\ q.quoted = row[r].quoted /\ q.reason = "customer"
        /\ q.overdue = row[r].overdue
    BY <1>0 DEF Request
  <2> HIDE DEF q
  <2>3. session[r] = "NONE" /\ \A l \in Lines : ~line[r][l].used
    BY <1>0, <2>1 DEF StoryOK, LineOK, Line
  <2>4. StoryOK(q, session[r], line[r], job[r], paid[r]) /\ OverdueOK(q, slot)
    BY <1>0, <2>1, <2>2, <2>3 DEF StoryOK, OverdueOK, NoJob
  <2>. QED BY <1>0, <1>1, <2>1, <2>2, <2>4
<1>8. ASSUME TakeTicket(r) PROVE Inv'
  <2>1. job[r].status = "PENDING" /\ (session[r] = "CANCELLED" => job[r].slip)
    BY <1>0, <1>8 DEF TakeTicket, StoryOK
  <2>. QED BY <1>2, <1>8, <2>1 DEF TakeTicket
<1>9. ASSUME NEW status \in {"PENDING", "FAILED"}, TicketNotPrinted(r, status) PROVE Inv'
  <2> DEFINE st == IF session[r] = "CANCELLED" THEN "CANCELLED" ELSE status
  <2>1. /\ job[r].status = "TAKEN" /\ job' = [job EXCEPT ![r].status = st]
        /\ UNCHANGED <<row, calls, session, line, paid, shop, store>>
    BY <1>9 DEF TicketNotPrinted
  <2>2. st \in {"PENDING", "TAKEN", "FAILED", "CANCELLED"}
        /\ (session[r] = "CANCELLED" => st = "CANCELLED")
    OBVIOUS
  <2> HIDE DEF st
  <2>. QED BY <1>2, <2>1, <2>2
<1>. QED BY <1>3, <1>4, <1>5, <1>6, <1>7, <1>8, <1>9

\* What one request holds is among what is reserved.
LEMMA Counts ==
  ASSUME Inv, NEW r \in Requests
  PROVE  LET held == {l \in Lines : line[r][l].held}
             used == {l \in Lines : line[r][l].used}
         IN  /\ Cardinality(held) \in Nat /\ Cardinality(held) <= reserved
             /\ Cardinality(used) \in Nat /\ IsFiniteSet(held) /\ IsFiniteSet(used)
             /\ reserved \in Nat /\ stock \in Nat /\ reserved <= stock /\ bought \in Nat
<1> DEFINE held == {l \in Lines : line[r][l].held}
           used == {l \in Lines : line[r][l].used}
           A == Holds(line)
<1>1. held = Slice(A, r) /\ A \in SUBSET Places /\ SameBut(r, A, A)
  BY DEF Holds, Places, Slice, SameBut
<1>2. IsFiniteSet(held) /\ IsFiniteSet(used) /\ Cardinality(used) \in Nat
  BY OnlineOrderConstants, FS_Subset, FS_CardinalityType
<1>3. reserved = Cardinality(A) /\ reserved <= stock /\ reserved \in Nat /\ stock \in Nat
        /\ bought \in Nat
  BY DEF Inv, Shelved, TypeOK
<1> HIDE DEF A, held, used
<1>4. Cardinality(held) \in Nat /\ Cardinality(held) <= Cardinality(A)
  BY <1>1, SliceChange
<1>. QED BY <1>2, <1>3, <1>4 DEF held, used

\* accept: the session, its lines and their reservations come at once.
LEMMA AcceptInv ==
  ASSUME Inv, NEW r \in Requests, NEW prints \in BOOLEAN, Accept(r, prints)
  PROVE  Inv'
<1> DEFINE q == [row[r] EXCEPT !.status = "ACCEPTED"]
           j == [job[r] EXCEPT !.status = IF prints THEN "PENDING" ELSE "NONE"]
           ls == [l \in Lines |-> [line[r][l] EXCEPT !.status = "PENDING", !.held = TRUE,
                                                     !.priceAtTime = price]]
<1>0. /\ row[r] \in Request /\ job[r] \in Job /\ line[r] \in [Lines -> Line] /\ price \in Nat
      /\ row \in [Requests -> Request] /\ job \in [Requests -> Job]
      /\ paid \in [Requests -> Nat] /\ line \in [Requests -> [Lines -> Line]]
      /\ StoryOK(row[r], session[r], line[r], job[r], paid[r]) /\ OverdueOK(row[r], slot)
      /\ \A l \in Lines : LineOK(line[r][l])
  BY OnlineOrderConstants DEF Inv, Requested, TypeOK
<1>1. /\ row[r].status = "PENDING" /\ (row[r].scheduled => Remaining > 0) /\ CanFulfill
      /\ row' = [row EXCEPT ![r] = q] /\ job' = [job EXCEPT ![r] = j]
      /\ session' = [session EXCEPT ![r] = "ACTIVE"]
      /\ line' = [line EXCEPT ![r] = ls] /\ reserved' = reserved + Portions
      /\ UNCHANGED <<calls, paid, shop, stock, bought>>
  BY <1>0 DEF Accept, Pending, EachLine
<1>2. session[r] = "NONE"
  BY <1>0, <1>1 DEF StoryOK
<1>3. /\ q \in Request /\ q.status = "ACCEPTED" /\ q.scheduled = row[r].scheduled
      /\ q.limit = row[r].limit /\ q.quoted = row[r].quoted /\ q.reason = row[r].reason
      /\ q.overdue = row[r].overdue
  BY <1>0 DEF Request
<1>4. /\ ls \in [Lines -> Line]
      /\ \A l \in Lines : ls[l].status = "PENDING" /\ ls[l].held = TRUE
                            /\ ls[l].used = line[r][l].used /\ ls[l].wasted = line[r][l].wasted
  BY <1>0 DEF Line
<1>5. j \in Job
  BY <1>0 DEF Job
<1> HIDE DEF q, j, ls
<1>6. \A l \in Lines : line[r][l].held = FALSE /\ line[r][l].used = FALSE /\ line[r][l].wasted = FALSE
  BY <1>0, <1>2 DEF StoryOK, LineOK, Line
<1>7. StoryOK(q, "ACTIVE", ls, j, paid[r]) /\ OverdueOK(q, slot) /\ \A l \in Lines : LineOK(ls[l])
  <2>1. job[r] = NoJob
    BY <1>0, <1>2 DEF StoryOK
  <2>2. ~j.slip
    BY <2>1 DEF j, NoJob
  <2>3. StoryOK(q, "ACTIVE", ls, j, paid[r])
    BY <1>0, <1>1, <1>2, <1>3, <1>4, <2>2 DEF StoryOK
  <2>. QED BY <1>0, <1>3, <1>4, <1>6, <2>3 DEF OverdueOK, LineOK
<1>8. /\ {l \in Lines : line[r][l].held} = {} /\ {l \in Lines : line[r][l].used} = {}
      /\ {l \in Lines : ls[l].used} = {} /\ {l \in Lines : ls[l].held} = Lines
  BY <1>4, <1>6
<1>9. /\ stock' = stock /\ Cardinality({}) = 0 /\ Cardinality(Lines) \in Nat
      /\ stock \in Nat /\ reserved \in Nat /\ reserved <= stock
      /\ reserved' = reserved + Cardinality(Lines) /\ stock - reserved >= Cardinality(Lines)
  BY <1>1, Counts, PortionsNat, FS_EmptySet DEF CanFulfill, Portions
<1>10. /\ stock' \in Nat /\ reserved' \in Nat /\ reserved' <= stock'
       /\ stock' = stock + Cardinality({l \in Lines : line[r][l].used})
                         - Cardinality({l \in Lines : ls[l].used})
       /\ reserved' = reserved - Cardinality({l \in Lines : line[r][l].held})
                               + Cardinality({l \in Lines : ls[l].held})
  <2> DEFINE h0 == {l \in Lines : line[r][l].held} u0 == {l \in Lines : line[r][l].used}
             h1 == {l \in Lines : ls[l].held} u1 == {l \in Lines : ls[l].used}
  <2>1. h0 = {} /\ u0 = {} /\ u1 = {} /\ h1 = Lines
    BY <1>8
  <2> HIDE DEF h0, h1, u0, u1
  <2>2. /\ Cardinality(h0) = 0 /\ Cardinality(u0) = 0 /\ Cardinality(u1) = 0
        /\ Cardinality(h1) = Cardinality(Lines)
    BY <1>9, <2>1
  <2>3. /\ stock' \in Nat /\ reserved' \in Nat /\ reserved' <= stock'
        /\ stock' = stock + Cardinality(u0) - Cardinality(u1)
        /\ reserved' = reserved - Cardinality(h0) + Cardinality(h1)
    BY <1>9, <2>2
  <2>. QED BY <2>3 DEF h0, h1, u0, u1
<1>11. q.status = "ACCEPTED" /\ q.scheduled => r \in Booked \/ Cardinality(Booked) < Capacity
  <2>1. Cardinality(Booked) \in Nat /\ Capacity \in Nat
    BY OnlineOrderConstants, FS_Subset, FS_CardinalityType DEF Booked
  <2>. QED BY <1>1, <1>3, <2>1 DEF Remaining
<1>12. paid' = [paid EXCEPT ![r] = paid[r]] /\ UNCHANGED <<calls, shop, bought>> /\ paid[r] \in Nat
  BY <1>0, <1>1
<1>. QED BY <1>1, <1>3, <1>4, <1>5, <1>7, <1>10, <1>11, <1>12, LinesInv

\* changeItemStatus: a line is cooked with its portion, or finished.
LEMMA CookInv ==
  ASSUME Inv, NEW r \in Requests, NEW l \in Lines, Cook(r, l) \/ Finish(r, l)
  PROVE  Inv'
<1>0. /\ row[r] \in Request /\ job[r] \in Job /\ line[r] \in [Lines -> Line]
      /\ row \in [Requests -> Request] /\ job \in [Requests -> Job]
      /\ session \in [Requests -> {"NONE", "ACTIVE", "COMPLETED", "CANCELLED"}]
      /\ paid \in [Requests -> Nat] /\ line \in [Requests -> [Lines -> Line]]
      /\ StoryOK(row[r], session[r], line[r], job[r], paid[r]) /\ OverdueOK(row[r], slot)
      /\ \A k \in Lines : LineOK(line[r][k])
      /\ row[r].status = "ACCEPTED" /\ row[r].scheduled => r \in Booked
  BY DEF Inv, Requested, TypeOK, Booked
<1> DEFINE held == {k \in Lines : line[r][k].held}
           used == {k \in Lines : line[r][k].used}
<1>1. /\ Cardinality(held) \in Nat /\ Cardinality(held) <= reserved
      /\ Cardinality(used) \in Nat /\ IsFiniteSet(held) /\ IsFiniteSet(used)
      /\ reserved \in Nat /\ stock \in Nat /\ reserved <= stock
  BY Counts
<1>2. ASSUME NEW x \in Line, session[r] = "ACTIVE",
             x.status \in {"COOKING", "READY"}, LineOK(x), line' = [line EXCEPT ![r][l] = x],
             UNCHANGED <<row, calls, session, job, paid, shop, bought>>,
             stock' \in Nat, reserved' \in Nat, reserved' <= stock',
             stock' = stock + Cardinality(used)
                            - Cardinality(IF x.used THEN used \cup {l} ELSE used \ {l}),
             reserved' = reserved - Cardinality(held)
                           + Cardinality(IF x.held THEN held \cup {l} ELSE held \ {l})
      PROVE  Inv'
  <2> DEFINE ls == [line[r] EXCEPT ![l] = x]
  <2>1. /\ ls \in [Lines -> Line] /\ ls[l] = x /\ \A k \in Lines \ {l} : ls[k] = line[r][k]
        /\ line' = [line EXCEPT ![r] = ls]
    BY <1>0, <1>2
  <2> HIDE DEF ls
  <2>2. row[r].reason # "customer"
    BY <1>0, <1>2 DEF StoryOK
  <2>3. StoryOK(row[r], session[r], ls, job[r], paid[r]) /\ \A k \in Lines : LineOK(ls[k])
    BY <1>0, <1>2, <2>1, <2>2 DEF StoryOK
  <2>4. /\ {k \in Lines : ls[k].used} = (IF x.used THEN used \cup {l} ELSE used \ {l})
        /\ {k \in Lines : ls[k].held} = (IF x.held THEN held \cup {l} ELSE held \ {l})
    BY <2>1
  <2>5. /\ row' = [row EXCEPT ![r] = row[r]] /\ session' = [session EXCEPT ![r] = session[r]]
        /\ job' = [job EXCEPT ![r] = job[r]] /\ paid' = [paid EXCEPT ![r] = paid[r]]
        /\ UNCHANGED <<calls, shop, bought>> /\ paid[r] \in Nat
        /\ session[r] \in {"NONE", "ACTIVE", "COMPLETED", "CANCELLED"}
    BY <1>0, <1>2
  <2>6. row[r].status = "ACCEPTED" /\ row[r].scheduled => r \in Booked \/ Cardinality(Booked) < Capacity
    BY <1>0
  <2>7. /\ stock' = stock + Cardinality({k \in Lines : line[r][k].used})
                          - Cardinality({k \in Lines : ls[k].used})
        /\ reserved' = reserved - Cardinality({k \in Lines : line[r][k].held})
                                + Cardinality({k \in Lines : ls[k].held})
        /\ stock' \in Nat /\ reserved' \in Nat /\ reserved' <= stock'
    BY <1>2, <2>4
  <2>8. row[r] \in Request /\ job[r] \in Job /\ OverdueOK(row[r], slot)
    BY <1>0
  <2>. QED BY <2>1, <2>3, <2>5, <2>6, <2>7, <2>8, LinesInv
<1>3. CASE Cook(r, l)
  <2> DEFINE x == [line[r][l] EXCEPT !.status = "COOKING", !.held = FALSE, !.used = TRUE]
  <2>1. /\ session[r] = "ACTIVE" /\ line[r][l].status = "PENDING"
        /\ line' = [line EXCEPT ![r][l] = x] /\ stock' = stock - 1 /\ reserved' = reserved - 1
        /\ UNCHANGED <<row, calls, session, job, paid, shop, bought>>
    BY <1>3 DEF Cook
  <2>2. /\ x \in Line /\ x.status = "COOKING" /\ x.held = FALSE /\ x.used = TRUE
        /\ x.wasted = line[r][l].wasted
    BY <1>0 DEF Line
  <2> HIDE DEF x
  <2>3. LineOK(x) /\ l \in held /\ l \notin used
    BY <1>0, <2>1, <2>2 DEF LineOK, Line
  <2> HIDE DEF held, used
  <2>4. /\ Cardinality(used \cup {l}) = Cardinality(used) + 1
        /\ Cardinality(held \ {l}) = Cardinality(held) - 1
    BY <1>1, <2>3, FS_AddElement, FS_RemoveElement
  <2>5. /\ stock' \in Nat /\ reserved' \in Nat /\ reserved' <= stock'
        /\ stock' = stock + Cardinality(used) - Cardinality(used \cup {l})
        /\ reserved' = reserved - Cardinality(held) + Cardinality(held \ {l})
    <3>1. Cardinality(held) >= 1
      <4>1. Cardinality(held \ {l}) \in Nat
        BY <1>1, FS_RemoveElement, FS_CardinalityType
      <4>. QED BY <1>1, <2>4, <4>1
    <3>. QED BY <1>1, <2>1, <2>4, <3>1
  <2>6. /\ stock' = stock + Cardinality(used)
                      - Cardinality(IF x.used THEN used \cup {l} ELSE used \ {l})
        /\ reserved' = reserved - Cardinality(held)
                         + Cardinality(IF x.held THEN held \cup {l} ELSE held \ {l})
    BY <2>2, <2>5
  <2>. QED BY <1>2, <2>1, <2>2, <2>3, <2>5, <2>6
<1>4. CASE Finish(r, l)
  <2> DEFINE x == [line[r][l] EXCEPT !.status = "READY"]
  <2>1. /\ session[r] = "ACTIVE" /\ line[r][l].status = "COOKING"
        /\ line' = [line EXCEPT ![r][l] = x] /\ UNCHANGED <<stock, reserved>>
        /\ UNCHANGED <<row, calls, session, job, paid, shop, bought>>
    BY <1>4 DEF Finish, store
  <2>2. /\ x \in Line /\ x.status = "READY" /\ x.held = line[r][l].held
        /\ x.used = line[r][l].used /\ x.wasted = line[r][l].wasted
    BY <1>0 DEF Line
  <2> HIDE DEF x
  <2>3. LineOK(x) /\ ~x.held /\ x.used /\ l \notin held /\ l \in used
    BY <1>0, <2>1, <2>2 DEF LineOK, Line
  <2> HIDE DEF held, used
  <2>4. used \cup {l} = used /\ held \ {l} = held
    BY <2>3
  <2>5. /\ stock' = stock + Cardinality(used)
                      - Cardinality(IF x.used THEN used \cup {l} ELSE used \ {l})
        /\ reserved' = reserved - Cardinality(held)
                         + Cardinality(IF x.held THEN held \cup {l} ELSE held \ {l})
        /\ stock' \in Nat /\ reserved' \in Nat /\ reserved' <= stock'
    <3> DEFINE u == IF x.used THEN used \cup {l} ELSE used \ {l}
               h == IF x.held THEN held \cup {l} ELSE held \ {l}
    <3>1. u = used /\ h = held
      BY <2>3, <2>4
    <3> HIDE DEF u, h
    <3>2. /\ stock' = stock + Cardinality(used) - Cardinality(u)
          /\ reserved' = reserved - Cardinality(held) + Cardinality(h)
          /\ stock' \in Nat /\ reserved' \in Nat /\ reserved' <= stock'
      BY <1>1, <2>1, <3>1
    <3>. QED BY <3>2 DEF u, h
  <2>. QED BY <1>2, <2>1, <2>2, <2>3, <2>5
<1>. QED BY <1>3, <1>4

\* The ways out: what was reserved and not cooked goes back.
LEMMA LeaveInv ==
  ASSUME Inv, NEW r \in Requests, NEW q \in Request, NEW s, NEW j \in Job, NEW p \in Nat,
         NEW ls \in [Lines -> Line], s \in {"COMPLETED", "CANCELLED"},
         row' = [row EXCEPT ![r] = q], session' = [session EXCEPT ![r] = s],
         job' = [job EXCEPT ![r] = j], paid' = [paid EXCEPT ![r] = p],
         line' = [line EXCEPT ![r] = ls],
         StoryOK(q, s, ls, j, p), OverdueOK(q, slot), \A l \in Lines : LineOK(ls[l]),
         q.status = "ACCEPTED" /\ q.scheduled => r \in Booked,
         \A l \in Lines : ls[l].used = line[r][l].used /\ ls[l].held = FALSE,
         reserved' = reserved - Cardinality(Held(r)),
         UNCHANGED <<calls, shop, stock, bought>>
  PROVE  Inv'
<1> DEFINE h0 == {l \in Lines : line[r][l].held}
           u0 == {l \in Lines : line[r][l].used}
           h1 == {l \in Lines : ls[l].held}
           u1 == {l \in Lines : ls[l].used}
<1>1. /\ Cardinality(h0) \in Nat /\ Cardinality(h0) <= reserved /\ Cardinality(u0) \in Nat
      /\ reserved \in Nat /\ stock \in Nat /\ reserved <= stock
  BY Counts
<1>2. h1 = {} /\ u1 = u0 /\ Held(r) = h0
  BY DEF Held
<1> HIDE DEF h0, u0, h1, u1
<1>3. stock' = stock /\ Cardinality(h1) = 0
  BY <1>2, FS_EmptySet
<1>4. /\ stock' \in Nat /\ reserved' \in Nat /\ reserved' <= stock'
      /\ stock' = stock + Cardinality(u0) - Cardinality(u1)
      /\ reserved' = reserved - Cardinality(h0) + Cardinality(h1)
  BY <1>1, <1>2, <1>3
<1>5. /\ stock' \in Nat /\ reserved' \in Nat /\ reserved' <= stock'
      /\ stock' = stock + Cardinality({l \in Lines : line[r][l].used})
                        - Cardinality({l \in Lines : ls[l].used})
      /\ reserved' = reserved - Cardinality({l \in Lines : line[r][l].held})
                              + Cardinality({l \in Lines : ls[l].held})
  BY <1>4 DEF h0, u0, h1, u1
<1>6. s \in {"NONE", "ACTIVE", "COMPLETED", "CANCELLED"} /\ UNCHANGED <<calls, shop, bought>>
  OBVIOUS
<1>7. q.status = "ACCEPTED" /\ q.scheduled => r \in Booked \/ Cardinality(Booked) < Capacity
  OBVIOUS
<1>. QED BY <1>5, <1>6, <1>7, LinesInv

\* collect and the two cancellations of an accepted order.
LEMMA WaysOutInv ==
  ASSUME Inv, NEW r \in Requests,
         \/ Collect(r) \/ CustomerCancel(r)
         \/ \E reason \in {"staff", "noShow"} : CancelAccepted(r, reason)
  PROVE  Inv'
<1>0. /\ row[r] \in Request /\ job[r] \in Job /\ line[r] \in [Lines -> Line]
      /\ row \in [Requests -> Request] /\ job \in [Requests -> Job]
      /\ paid \in [Requests -> Nat] /\ line \in [Requests -> [Lines -> Line]]
      /\ StoryOK(row[r], session[r], line[r], job[r], paid[r]) /\ OverdueOK(row[r], slot)
      /\ \A l \in Lines : LineOK(line[r][l]) /\ line[r][l] \in Line
      /\ row[r].status = "ACCEPTED" /\ row[r].scheduled => r \in Booked
      /\ reserved \in Nat /\ paid[r] \in Nat
  BY DEF Inv, Requested, TypeOK, Booked
<1>1. CASE Collect(r)
  <2> DEFINE ls == [l \in Lines |-> [line[r][l] EXCEPT !.status = "SERVED"]]
             p == Subtotal(r)
  <2>1. /\ session[r] = "ACTIVE" /\ AllIn(r, {"READY"}) /\ p = row[r].quoted
        /\ row[r].status = "ACCEPTED" /\ paid' = [paid EXCEPT ![r] = p]
        /\ line' = [line EXCEPT ![r] = ls] /\ session' = [session EXCEPT ![r] = "COMPLETED"]
        /\ row' = row /\ job' = job /\ reserved' = reserved
        /\ UNCHANGED <<calls, shop, stock, bought>>
    BY <1>1 DEF Collect, EachLine, store
  <2>2. /\ ls \in [Lines -> Line]
        /\ \A l \in Lines : /\ ls[l].status = "SERVED" /\ ls[l].held = line[r][l].held
                            /\ ls[l].used = line[r][l].used /\ ls[l].wasted = line[r][l].wasted
    BY <1>0 DEF Line
  <2> HIDE DEF ls, p
  <2>3. \A l \in Lines : /\ line[r][l].status = "READY" /\ line[r][l].held = FALSE
                         /\ line[r][l].used = TRUE /\ line[r][l].wasted = FALSE
    BY <1>0, <2>1 DEF AllIn, LinesIn, LineOK, Line
  <2>4. \A l \in Lines : LineOK(ls[l]) /\ ls[l].used = line[r][l].used /\ ls[l].held = FALSE
    BY <2>2, <2>3 DEF LineOK
  <2>5. row[r].reason # "customer" /\ row[r].status # "NONE" /\ p \in Nat
    BY <1>0, <2>1 DEF StoryOK, Request
  <2>6. StoryOK(row[r], "COMPLETED", ls, job[r], p)
    BY <1>0, <2>1, <2>2, <2>5 DEF StoryOK
  <2>7. row' = [row EXCEPT ![r] = row[r]] /\ job' = [job EXCEPT ![r] = job[r]]
    BY <1>0, <2>1
  <2>8. reserved' = reserved - Cardinality(Held(r))
    <3>1. Held(r) = {}
      BY <2>3 DEF Held
    <3>2. Cardinality(Held(r)) = 0
      BY <3>1, FS_EmptySet
    <3>. QED BY <1>0, <2>1, <3>2
  <2>9. /\ row[r] \in Request /\ job[r] \in Job /\ OverdueOK(row[r], slot)
        /\ row[r].status = "ACCEPTED" /\ row[r].scheduled => r \in Booked
    BY <1>0
  <2>10. /\ "COMPLETED" \in {"COMPLETED", "CANCELLED"} /\ UNCHANGED <<calls, shop, stock, bought>>
         /\ line' = [line EXCEPT ![r] = ls] /\ session' = [session EXCEPT ![r] = "COMPLETED"]
         /\ paid' = [paid EXCEPT ![r] = p]
    BY <2>1
  <2>. QED BY <2>2, <2>4, <2>5, <2>6, <2>7, <2>8, <2>9, <2>10, LeaveInv
<1>2. ASSUME NEW ls \in [Lines -> Line], NEW j \in Job, NEW reason \in {"customer", "staff", "noShow"},
             row[r].status = "ACCEPTED", session[r] = "ACTIVE",
             \A l \in Lines : ls[l].status = "CANCELLED" /\ ls[l].used = line[r][l].used
                                /\ ls[l].held = FALSE /\ LineOK(ls[l]),
             j.status \in {"NONE", "CANCELLED"} \/ j.slip,
             reason = "customer" => /\ ~j.slip /\ j.status \in {"NONE", "CANCELLED"}
                                    /\ \A l \in Lines : line[r][l].used = FALSE,
             line' = [line EXCEPT ![r] = ls], job' = [job EXCEPT ![r] = j],
             reserved' = reserved - Cardinality(Held(r)),
             session' = [session EXCEPT ![r] = "CANCELLED"],
             row' = [row EXCEPT ![r].status = "CANCELLED", ![r].reason = reason],
             UNCHANGED <<calls, paid, shop, stock, bought>>
      PROVE  Inv'
  <2> DEFINE q == [row[r] EXCEPT !.status = "CANCELLED", !.reason = reason]
  <2>1. /\ q \in Request /\ q.status = "CANCELLED" /\ q.reason = reason
        /\ q.limit = row[r].limit /\ q.quoted = row[r].quoted
        /\ q.scheduled = row[r].scheduled /\ q.overdue = row[r].overdue
        /\ row' = [row EXCEPT ![r] = q]
    BY <1>0, <1>2 DEF Request
  <2> HIDE DEF q
  <2>2. StoryOK(q, "CANCELLED", ls, j, paid[r]) /\ OverdueOK(q, slot)
    BY <1>0, <1>2, <2>1 DEF StoryOK, OverdueOK
  <2>3. /\ paid' = [paid EXCEPT ![r] = paid[r]] /\ UNCHANGED <<calls, shop, stock, bought>>
        /\ paid[r] \in Nat /\ "CANCELLED" \in {"COMPLETED", "CANCELLED"}
    BY <1>0, <1>2
  <2>4. q.status = "ACCEPTED" /\ q.scheduled => r \in Booked
    BY <2>1
  <2>5. /\ \A l \in Lines : LineOK(ls[l])
        /\ \A l \in Lines : ls[l].used = line[r][l].used /\ ls[l].held = FALSE
    BY <1>2
  <2>6. /\ line' = [line EXCEPT ![r] = ls] /\ job' = [job EXCEPT ![r] = j]
        /\ reserved' = reserved - Cardinality(Held(r))
        /\ session' = [session EXCEPT ![r] = "CANCELLED"]
    BY <1>2
  <2>. QED BY <2>1, <2>2, <2>3, <2>4, <2>5, <2>6, LeaveInv
<1>3. CASE CustomerCancel(r)
  <2> DEFINE st == IF job[r].status = "PENDING" THEN "CANCELLED" ELSE job[r].status
             j == [job[r] EXCEPT !.status = st]
             ls == [l \in Lines |-> Dropped(line[r][l])]
  <2>1. /\ row[r].status = "ACCEPTED" /\ session[r] = "ACTIVE" /\ AllIn(r, {"PENDING"})
        /\ job[r].status \in {"NONE", "PENDING"} /\ job' = [job EXCEPT ![r] = j]
        /\ line' = [line EXCEPT ![r] = ls] /\ session' = [session EXCEPT ![r] = "CANCELLED"]
        /\ row' = [row EXCEPT ![r].status = "CANCELLED", ![r].reason = "customer"]
        /\ reserved' = reserved - Cardinality(Held(r))
        /\ UNCHANGED <<calls, paid, shop, stock, bought>>
    BY <1>0, <1>3 DEF CustomerCancel, EachLine
  <2>2. /\ ls \in [Lines -> Line]
        /\ \A l \in Lines : /\ ls[l].status = "CANCELLED" /\ ls[l].held = FALSE
                            /\ ls[l].used = line[r][l].used /\ ls[l].wasted = line[r][l].wasted
    BY <1>0 DEF Line, Dropped
  <2>3. /\ j \in Job /\ j.slip = job[r].slip /\ j.status \in {"NONE", "CANCELLED"}
    BY <1>0, <2>1 DEF Job
  <2> HIDE DEF ls, j, st
  <2>4. \A l \in Lines : line[r][l].used = FALSE /\ line[r][l].wasted = FALSE
    BY <1>0, <2>1 DEF AllIn, LinesIn, LineOK, Line
  <2>5. \A l \in Lines : LineOK(ls[l])
    BY <2>2, <2>4 DEF LineOK
  <2>6. ~job[r].slip
    BY <1>0, <2>1 DEF StoryOK
  <2>. QED BY <1>2, <2>1, <2>2, <2>3, <2>4, <2>5, <2>6
<1>4. ASSUME NEW reason \in {"staff", "noShow"}, CancelAccepted(r, reason) PROVE Inv'
  <2> DEFINE j == Recalled(job[r])
             ls == [l \in Lines |-> Dropped(Waste(line[r][l]))]
  <2>1. /\ row[r].status = "ACCEPTED" /\ session[r] = "ACTIVE"
        /\ job' = [job EXCEPT ![r] = j]
        /\ line' = [line EXCEPT ![r] = ls] /\ session' = [session EXCEPT ![r] = "CANCELLED"]
        /\ row' = [row EXCEPT ![r].status = "CANCELLED", ![r].reason = reason]
        /\ reserved' = reserved - Cardinality(Held(r))
        /\ UNCHANGED <<calls, paid, shop, stock, bought>>
    BY <1>0, <1>4 DEF CancelAccepted, EachLine
  <2>2. ASSUME NEW l \in Lines
        PROVE  /\ ls[l] \in Line /\ ls[l].status = "CANCELLED" /\ ls[l].held = FALSE
               /\ ls[l].used = line[r][l].used
               /\ ls[l].wasted = (line[r][l].status \in {"COOKING", "READY"} \/ line[r][l].wasted)
    <3>1. Waste(line[r][l]) \in Line /\ Waste(line[r][l]).used = line[r][l].used
            /\ Waste(line[r][l]).wasted = (line[r][l].status \in {"COOKING", "READY"} \/ line[r][l].wasted)
      BY <1>0 DEF Line, Waste
    <3>. QED BY <3>1 DEF Line, Dropped
  <2>3. /\ j \in Job /\ (j.status \in {"NONE", "CANCELLED"} \/ j.slip)
    BY <1>0 DEF Job, Recalled
  <2>4. ls \in [Lines -> Line]
    BY <2>2
  <2> HIDE DEF ls, j
  <2>5. \A l \in Lines : LineOK(ls[l])
    BY <1>0, <2>1, <2>2 DEF LineOK, StoryOK, Line
  <2>. QED BY <1>2, <2>1, <2>2, <2>3, <2>4, <2>5
<1>. QED BY <1>1, <1>3, <1>4

\* Every step keeps the invariant.
LEMMA NextInv ==
  ASSUME Inv, [Next]_vars PROVE Inv'
<1>1. CASE UNCHANGED vars
  <2>1. UNCHANGED <<row, calls, session, line, job, paid, price, intake, slot,
                    stock, reserved, bought>>
    BY <1>1 DEF vars
  <2>. QED BY <2>1 DEF Inv, TypeOK, Requested, Booked, Shelved
<1>2. CASE Next
  <2>. QED BY <1>2, ShopInv, CallsInv, DeadlinesInv, AcceptInv, CookInv, WaysOutInv DEF Next
<1>. QED BY <1>1, <1>2

-----------------------------------------------------------------------------
(* What holds in every reachable state.                                    *)

\* In every reachable state each request is in one chapter of its story, and
\* stock and reservations agree with the lines.  (All of online-orders.)
THEOREM InvHolds == Spec => []Inv
<1>1. Init => Inv
  BY InitInv
<1>2. Inv /\ [Next]_vars => Inv'
  BY NextInv
<1>. QED BY <1>1, <1>2, PTL DEF Spec

\* Portions bought are on the shelf or in lines, and each pending line has
\* its reservation, however requests, cooking and cancellations interleave.
THEOREM IngredientsAreAccounted == Spec => []IngredientsAccounted
<1>1. Inv => IngredientsAccounted
  BY Accounted
<1>. QED BY <1>1, InvHolds, PTL

\* The invariant, read as the three parts of the order that the shop looks at.
LEMMA StoryTold ==
  ASSUME Inv PROVE OrderTellsOneStory
<1>1. Lines # {}
  BY OnlineOrderConstants
<1>2. ASSUME NEW r \in Requests
      PROVE  /\ row[r].status = "ACCEPTED" <=> session[r] \in {"ACTIVE", "COMPLETED"}
             /\ FulfillmentStatus(r) # "NEEDS_REVIEW"
             /\ session[r] = "COMPLETED" <=> FulfillmentStatus(r) = "COLLECTED"
             /\ paid[r] # 0 <=> session[r] = "COMPLETED"
             /\ row[r].status # "ACCEPTED" => LinesIn(r, {"PENDING", "COOKING", "READY"}) = {}
             /\ session[r] = "CANCELLED" =>
                  job[r].status \in {"NONE", "CANCELLED"} \/ job[r].slip
             /\ session[r] = "ACTIVE" /\ NoShowEligible(r) => OnOverdueList(r)
  <2>1. /\ StoryOK(row[r], session[r], line[r], job[r], paid[r]) /\ OverdueOK(row[r], slot)
        /\ session[r] \in {"NONE", "ACTIVE", "COMPLETED", "CANCELLED"}
        /\ row[r] \in Request /\ paid[r] \in Nat
    BY <1>2 DEF Inv, Requested, TypeOK
  <2>2. row[r].quoted \in Nat
    BY <2>1 DEF Request
  <2>3. CASE session[r] = "NONE"
    BY <1>1, <2>1, <2>3 DEF StoryOK, FulfillmentStatus, AllIn, LinesIn
  <2>4. CASE session[r] = "ACTIVE"
    <3>1. /\ row[r].status = "ACCEPTED" /\ paid[r] = 0
          /\ \A l \in Lines : line[r][l].status \in {"PENDING", "COOKING", "READY"}
      BY <2>1, <2>4 DEF StoryOK
    <3>2. ~AllIn(r, {"SERVED"}) /\ LinesIn(r, {"CANCELLED"}) = {}
      BY <1>1, <3>1 DEF AllIn, LinesIn
    <3>3. LinesIn(r, {"PENDING", "COOKING", "READY"}) # {}
      BY <1>1, <3>1 DEF LinesIn
    <3>4. FulfillmentStatus(r) \notin {"NEEDS_REVIEW", "COLLECTED"}
      BY <3>1, <3>2 DEF FulfillmentStatus
    <3>5. NoShowEligible(r) => OnOverdueList(r)
      BY <2>1, <3>1, <3>3 DEF NoShowEligible, OnOverdueList, OverdueOK, Request
    <3>. QED BY <2>4, <3>1, <3>4, <3>5
  <2>5. CASE session[r] = "COMPLETED"
    <3>1. /\ row[r].status = "ACCEPTED" /\ paid[r] = row[r].quoted /\ 0 < row[r].quoted
          /\ \A l \in Lines : line[r][l].status = "SERVED"
      BY <2>1, <2>5 DEF StoryOK
    <3>2. AllIn(r, {"SERVED"})
      BY <3>1 DEF AllIn, LinesIn
    <3>3. FulfillmentStatus(r) = "COLLECTED"
      BY <3>1, <3>2 DEF FulfillmentStatus
    <3>. QED BY <2>2, <2>5, <3>1, <3>3
  <2>6. CASE session[r] = "CANCELLED"
    <3>1. /\ row[r].status = "CANCELLED" /\ paid[r] = 0
          /\ job[r].status \in {"NONE", "CANCELLED"} \/ job[r].slip
          /\ \A l \in Lines : line[r][l].status = "CANCELLED"
      BY <2>1, <2>6 DEF StoryOK
    <3>2. LinesIn(r, {"PENDING", "COOKING", "READY"}) = {}
      BY <3>1 DEF LinesIn
    <3>3. FulfillmentStatus(r) = "null"
      BY <3>1 DEF FulfillmentStatus
    <3>. QED BY <2>6, <3>1, <3>2, <3>3
  <2>. QED BY <2>1, <2>3, <2>4, <2>5, <2>6
<1>3. TypeOK /\ Cardinality(Booked) <= Capacity
  BY DEF Inv
<1>. QED BY <1>2, <1>3 DEF OrderTellsOneStory

\* An accepted order is live, or collected and paid as a whole; a cancelled one
\* leaves nothing behind; the slot is never overbooked.  (accept, collect,
\* cancelPublicRequest, cancelAcceptedRequest, in any order.)
THEOREM OrdersTellOneStory == Spec => []OrderTellsOneStory
<1>1. Inv => OrderTellsOneStory
  BY StoryTold
<1>. QED BY <1>1, InvHolds, PTL

\* A customer pays what he was quoted, however the menu's price moves, and one
\* who cancels leaves nothing cooked.  (createPublicRequest, accept, collect.)
THEOREM ChargesAsQuoted == Spec => []ChargedAsQuoted
<1>1. Inv => ChargedAsQuoted
  <2> SUFFICES ASSUME Inv PROVE ChargedAsQuoted
    OBVIOUS
  <2>1. ASSUME NEW r \in Requests
        PROVE  /\ paid[r] # 0 => paid[r] = row[r].quoted
               /\ row[r].status # "NONE" => row[r].quoted <= Quote(row[r].limit)
               /\ row[r].reason = "customer" =>
                    /\ \A l \in Lines : ~line[r][l].used
                    /\ ~job[r].slip /\ job[r].status # "TAKEN"
    <3>1. /\ StoryOK(row[r], session[r], line[r], job[r], paid[r])
          /\ session[r] \in {"NONE", "ACTIVE", "COMPLETED", "CANCELLED"}
      BY <2>1 DEF Inv, Requested, TypeOK
    <3>. QED BY <3>1 DEF StoryOK
  <2>. QED BY <2>1 DEF ChargedAsQuoted
<1>. QED BY <1>1, InvHolds, PTL
=============================================================================
