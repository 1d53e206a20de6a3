---------------------------- MODULE Reservations ----------------------------
(***************************************************************************)
(* Table reservations and the requests guests send from the public page    *)
(* (reservations.service.ts, checkInReservation of orders.service.ts).     *)
(* Staff, guests, the minute's sweep and deletions of tables act at any    *)
(* time.  Only check-in is serializable: an update is two actions, its     *)
(* read and its guarded write.  One time unit is the no-show grace period. *)
(***************************************************************************)
EXTENDS Integers, FiniteSets

CONSTANTS Tables,
          BookingRequests, \* public requests, by their access token
          Bookings,        \* reservations the shop may have
          Starts, Ends,    \* times reservations may begin and end at
          MinDuration, MaxDuration,
          CheckInEarly,    \* RESERVATION_CHECK_IN_EARLY_MS
          Grace,           \* RESERVATION_NO_SHOW_GRACE_MS
          MaxTime, MaxRevision, MaxEdits \* bounds; edits: of one row at a time

VARIABLES now,
          table,    \* DiningTable rows
          asked,    \* ReservationRequest rows
          booking,  \* Reservation rows
          edit      \* updates between their read and their write

vars == <<now, table, asked, booking, edit>>

Absent == "none"
Window == {w \in [startsAt : Starts, endsAt : Ends] :
             w.endsAt - w.startsAt \in MinDuration..MaxDuration}
AskedStatus == {"NONE", "PENDING", "APPROVED", "REJECTED", "CANCELLED", "EXPIRED"}
NotAsked == [status |-> "NONE"]
BookingStatus == {"NONE", "PENDING", "ARRIVED", "CANCELLED", "NO_SHOW"}
NoBooking == [status |-> "NONE"]
\* updatedAt counts the revisions of the row; at: checkedInAt or noShowAt;
\* session: its order session.
NewBooking(t, w) ==
  [status |-> "PENDING", tableId |-> t, startsAt |-> w.startsAt, endsAt |-> w.endsAt,
   updatedAt |-> 0, at |-> 0, session |-> "none"]

Init ==
  /\ now = 0
  /\ table = [t \in Tables |-> "EMPTY"]
  /\ asked = [q \in BookingRequests |-> NotAsked]
  /\ booking = [b \in Bookings |-> NoBooking]
  /\ edit = [b \in Bookings |-> {}]

Is(b, statuses) == booking[b].status \in statuses
assertActiveTable(t) == table[t] # "DELETED"
Overlap(v, w) == v.startsAt < w.endsAt /\ w.startsAt < v.endsAt
\* Reservation_no_overlapping_active_slots, when b gets row.
SlotFree(b, row) ==
  \A c \in Bookings \ {b} :
    Is(c, {"PENDING", "ARRIVED"}) /\ booking[c].tableId = row.tableId
      => ~Overlap(booking[c], row)
assertValidWindow(w, future) ==
  /\ future => w.startsAt > now
  /\ w.endsAt - w.startsAt \in MinDuration..MaxDuration
  /\ w.endsAt > now

-----------------------------------------------------------------------------
(* Requests of the public                                                  *)

\* A repetition with the same token finds this row and is answered from it.
CreatePublicRequest(q, w) ==
  /\ asked[q].status = "NONE"
  /\ assertValidWindow(w, TRUE)
  /\ asked' = [asked EXCEPT ![q] = [status |-> "PENDING", startsAt |-> w.startsAt,
                                    endsAt |-> w.endsAt, reservationId |-> Absent]]
  /\ UNCHANGED <<now, table, booking, edit>>

CancelPublicRequest(q) ==
  /\ asked[q].status = "PENDING" /\ asked[q].startsAt > now
  /\ asked' = [asked EXCEPT ![q].status = "CANCELLED"]
  /\ UNCHANGED <<now, table, booking, edit>>

ApproveRequest(q, t, b) ==
  /\ asked[q].status = "PENDING" /\ assertValidWindow(asked[q], TRUE)
  /\ assertActiveTable(t)
  /\ Is(b, {"NONE"}) /\ SlotFree(b, NewBooking(t, asked[q]))
  /\ booking' = [booking EXCEPT ![b] = NewBooking(t, asked[q])]
  /\ asked' = [asked EXCEPT ![q].status = "APPROVED", ![q].reservationId = b]
  /\ UNCHANGED <<now, table, edit>>

RejectRequest(q) ==
  /\ asked[q].status = "PENDING"
  /\ asked' = [asked EXCEPT ![q].status = "REJECTED"]
  /\ UNCHANGED <<now, table, booking, edit>>

-----------------------------------------------------------------------------
(* Reservations                                                            *)

Create(b, t, w) ==
  /\ Is(b, {"NONE"})
  /\ assertValidWindow(w, TRUE) /\ assertActiveTable(t)
  /\ SlotFree(b, NewBooking(t, w))
  /\ booking' = [booking EXCEPT ![b] = NewBooking(t, w)]
  /\ UNCHANGED <<now, table, asked, edit>>

\* update: the row is read and the changes are validated against it.  dto
\* names a new start, a new end or a new table.
ReadForUpdate(b, dto) ==
  /\ Is(b, {"PENDING"}) /\ booking[b].updatedAt < MaxRevision
  /\ Cardinality(edit[b]) < MaxEdits
  /\ LET w == [startsAt |-> IF "startsAt" \in DOMAIN dto THEN dto.startsAt
                            ELSE booking[b].startsAt,
               endsAt |-> IF "endsAt" \in DOMAIN dto THEN dto.endsAt
                          ELSE booking[b].endsAt]
     IN assertValidWindow(w, FALSE)
  /\ "tableId" \in DOMAIN dto /\ dto.tableId # booking[b].tableId
       => assertActiveTable(dto.tableId)
  /\ edit' = [edit EXCEPT ![b] = @ \cup {[dto |-> dto, seen |-> booking[b].updatedAt]}]
  /\ UNCHANGED <<now, table, asked, booking>>
Changed(row, dto) ==
  [f \in DOMAIN row |-> IF f \in DOMAIN dto THEN dto[f] ELSE row[f]]
\* Mutant: the write does not compare the revision.
SameRow(b, e) == Is(b, {"PENDING"})
Unmodified(b, e) == Is(b, {"PENDING"}) /\ booking[b].updatedAt = e.seen
\* The guarded updateMany; when it finds no row the update is refused.
WriteUpdate(b, e) ==
  LET row == [Changed(booking[b], e.dto) EXCEPT !.updatedAt = @ + 1]
  IN
  /\ edit' = [edit EXCEPT ![b] = @ \ {e}]
  /\ IF Unmodified(b, e) /\ SlotFree(b, row)
     THEN booking' = [booking EXCEPT ![b] = row]
     ELSE UNCHANGED booking
  /\ UNCHANGED <<now, table, asked>>

Cancel(b) ==
  /\ Is(b, {"PENDING"})
  /\ booking' = [booking EXCEPT ![b].status = "CANCELLED"]
  /\ UNCHANGED <<now, table, asked, edit>>

\* checkInReservation, with createOrderSession.
CheckIn(b) ==
  /\ Is(b, {"PENDING"}) /\ booking[b].session = "none"
  /\ now >= booking[b].startsAt - CheckInEarly
  /\ now < booking[b].startsAt + Grace
  /\ table[booking[b].tableId] = "EMPTY"
  /\ table' = [table EXCEPT ![booking[b].tableId] = "OCCUPIED"]
  /\ booking' = [booking EXCEPT ![b].status = "ARRIVED", ![b].at = now,
                                ![b].session = "ACTIVE"]
  /\ UNCHANGED <<now, asked, edit>>

\* refreshNoShows: two statements, of which either may fail.
MarkOverdueNoShows ==
  LET overdue == {b \in Bookings : Is(b, {"PENDING"}) /\ booking[b].startsAt <= now - Grace}
  IN
  /\ overdue # {}
  /\ booking' = [b \in Bookings |->
       IF b \in overdue THEN [booking[b] EXCEPT !.status = "NO_SHOW", !.at = now]
       ELSE booking[b]]
  /\ UNCHANGED <<now, table, asked, edit>>
MarkExpiredPublicRequests ==
  LET expired == {q \in BookingRequests : asked[q].status = "PENDING" /\ asked[q].startsAt <= now}
  IN
  /\ expired # {}
  /\ asked' = [q \in BookingRequests |->
       IF q \in expired THEN [asked[q] EXCEPT !.status = "EXPIRED"] ELSE asked[q]]
  /\ UNCHANGED <<now, table, booking, edit>>

-----------------------------------------------------------------------------
(* The floor (see Orders) and the clock                                    *)

SeatWalkIn(t) ==
  /\ table[t] = "EMPTY"
  /\ table' = [table EXCEPT ![t] = "OCCUPIED"]
  /\ UNCHANGED <<now, asked, booking, edit>>
EndSession(t) ==
  /\ table[t] = "OCCUPIED"
  /\ table' = [table EXCEPT ![t] = "EMPTY"]
  /\ booking' = [b \in Bookings |->
       IF Is(b, {"ARRIVED"}) /\ booking[b].tableId = t
       THEN [booking[b] EXCEPT !.session = "ENDED"] ELSE booking[b]]
  /\ UNCHANGED <<now, asked, edit>>
\* deleteTable looks at sessions only, not at reservations.
DeleteTable(t) ==
  /\ table[t] = "EMPTY"
  /\ table' = [table EXCEPT ![t] = "DELETED"]
  /\ UNCHANGED <<now, asked, booking, edit>>
TimePasses ==
  /\ now < MaxTime
  /\ now' = now + 1
  /\ UNCHANGED <<table, asked, booking, edit>>

Changes == [startsAt : Starts] \cup [endsAt : Ends] \cup [tableId : Tables]

Next ==
  \/ \E q \in BookingRequests :
       \/ \E w \in Window : CreatePublicRequest(q, w)
       \/ CancelPublicRequest(q) \/ RejectRequest(q)
       \/ \E t \in Tables, b \in Bookings : ApproveRequest(q, t, b)
  \/ \E b \in Bookings :
       \/ \E t \in Tables, w \in Window : Create(b, t, w)
       \/ \E dto \in Changes : ReadForUpdate(b, dto)
       \/ \E e \in edit[b] : WriteUpdate(b, e)
       \/ Cancel(b) \/ CheckIn(b)
  \/ \E t \in Tables : SeatWalkIn(t) \/ EndSession(t) \/ DeleteTable(t)
  \/ MarkOverdueNoShows \/ MarkExpiredPublicRequests \/ TimePasses

Spec == Init /\ [][Next]_vars

-----------------------------------------------------------------------------
\* The guests of a reservation sit at its table.
Seated(b) == Is(b, {"ARRIVED"}) /\ booking[b].session = "ACTIVE"
\* No two parties are promised one table at one time, nor seated there
\* together; every reservation keeps a legal length, though its start and its
\* end are edited from two screens; a request is approved if and only if one
\* reservation is its own; nobody is checked in outside the check-in window
\* and nobody is a no-show before its end.
\* (approveRequest, update, checkInReservation and the sweep.)
BookingsHonoured ==
  /\ \A b \in Bookings : Is(b, {"PENDING", "ARRIVED"}) => SlotFree(b, booking[b])
  /\ \A b \in Bookings : ~Is(b, {"NONE"}) =>
       booking[b].endsAt - booking[b].startsAt \in MinDuration..MaxDuration
  /\ \A q \in BookingRequests :
       /\ asked[q].status \in AskedStatus
       /\ asked[q].status = "APPROVED" =>
            /\ ~Is(asked[q].reservationId, {"NONE"})
            /\ \A p \in BookingRequests \ {q} :
                 asked[p].status = "APPROVED" => asked[p].reservationId # asked[q].reservationId
       /\ asked[q].status \notin {"NONE", "APPROVED"} => asked[q].reservationId = Absent
  /\ \A b \in Bookings :
       /\ Is(b, {"ARRIVED"}) =>
            /\ booking[b].session # "none"
            /\ booking[b].at \in booking[b].startsAt - CheckInEarly
                                   ..booking[b].startsAt + Grace - 1
       /\ Is(b, {"PENDING", "CANCELLED", "NO_SHOW"}) => booking[b].session = "none"
       /\ Is(b, {"NO_SHOW"}) => booking[b].at >= booking[b].startsAt + Grace
  /\ \A b \in Bookings : Seated(b) =>
       /\ table[booking[b].tableId] = "OCCUPIED"
       /\ \A c \in Bookings \ {b} : Seated(c) => booking[c].tableId # booking[b].tableId

\* What has been decided stays decided: a reservation that was kept, cancelled
\* or missed, and a request that was answered, withdrawn or expired, never
\* changes again.
DecisionsFinal ==
  /\ \A b \in Bookings : Is(b, {"ARRIVED", "CANCELLED", "NO_SHOW"}) =>
       booking'[b] = [booking[b] EXCEPT !.session = booking'[b].session]
  /\ \A q \in BookingRequests :
       asked[q].status \notin {"NONE", "PENDING"} => asked'[q] = asked[q]
=============================================================================
