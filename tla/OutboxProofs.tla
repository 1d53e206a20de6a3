---------------------------- MODULE OutboxProofs ----------------------------
(***************************************************************************)
(* Proofs about the outbox for every number of events, processes, worker   *)
(* slots and every budget: the type invariant, PublishedWasHandled,        *)
(* BudgetLeft, FencedOutcome, NoDuplicateWithoutFault, and that Outbox     *)
(* implements OutboxContract.                                              *)
(*                                                                         *)
(* None of the invariants is inductive alone.  Inv adds what a delivery    *)
(* knows between its awaits: an acknowledged publish really succeeded, and *)
(* as long as the row carries the delivery's own lease, its attempts are   *)
(* the ones the delivery read; and that no batch UUID is ever an execution *)
(* lease, so that a dispatcher cannot release a running delivery.          *)
(***************************************************************************)
EXTENDS Outbox, TLAPS

WorkerInv(d) ==
    /\ d.pc # "idle" => d.event \in Events
    /\ d.pc = "read" => d.status \in {"ENQUEUED", "PENDING"}
    /\ d.pc = "ack" => d.event \in handled
    /\ d.pc # "exhausted"
    /\ d.pc \in Leased =>
         /\ d.lockedBy \in Lease
         /\ row[d.event].status # "NONE"
         /\ row[d.event].status = "PROCESSING" /\ row[d.event].lockedBy = d.lockedBy
              => d.attempts = row[d.event].attempts

RowInv(r) ==
    /\ r.status = "NONE" => r.attempts = 0
    /\ r.status \in Live => r.attempts < MAX_ATTEMPTS
    /\ r.status = "PROCESSING" =>
         /\ r.lockedBy \in Lease
         /\ \A p \in Processes : dispatcher[p].lockedBy # r.lockedBy

Inv ==
    /\ TypeOK
    /\ \A e \in Events : RowInv(row[e])
    /\ \A p \in Processes : dispatcher[p].pc = "act" => dispatcher[p].event \in Events
    /\ \A w \in Workers : WorkerInv(delivery[w])
    /\ PublishedWasHandled

\* randomUUID() returns a UUID nothing refers to.
LEMMA FreshLease ==
    ASSUME LeaseAvailable
    PROVE  randomUUID \in Lease /\ randomUUID \notin LeasesInUse
BY DEF LeaseAvailable, randomUUID

\* What the rewrite of availableAt does to the deliveries in progress.
LEMMA RescheduledOnlyStales ==
    ASSUME TypeOK, NEW es, NEW w \in Workers
    PROVE  /\ Rescheduled(es) \in [Workers -> Delivery]
           /\ \/ Rescheduled(es)[w] = delivery[w]
              \/ /\ delivery[w].pc = "read"
                 /\ Rescheduled(es)[w] = [delivery[w] EXCEPT !.pc = "stale"]
BY DEF Rescheduled, TypeOK, Delivery

\* The updates of a row that the actions make keep it a row.
LEMMA RowFlag ==
    ASSUME NEW r \in OutboxEvent, NEW b \in BOOLEAN
    PROVE  [r EXCEPT !.due = b] \in OutboxEvent /\ [r EXCEPT !.expired = b] \in OutboxEvent
BY DEF OutboxEvent

LEMMA RowUpdate ==
    ASSUME NEW r \in OutboxEvent, NEW s \in Status, NEW l \in Lease \cup {NoLease}
    PROVE  [r EXCEPT !.status = s, !.lockedBy = l, !.expired = FALSE] \in OutboxEvent
BY DEF OutboxEvent

LEMMA InitInv == ASSUME Init PROVE Inv
BY OutboxConstants DEF Init, Inv, TypeOK, NoRow, NoJob, IdleDispatcher,
   IdleDelivery, OutboxEvent, Job, Dispatcher, Delivery, Status, JobState, Live,
   RowInv, WorkerInv, PublishedWasHandled, Leased, Outcomes

\* Most steps change rows, dispatchers and deliveries only in ways that
\* cannot disturb the invariant: they create no execution lease.
QuietRow(e) ==
    \/ /\ row'[e].status = row[e].status
       /\ row'[e].lockedBy = row[e].lockedBy
       /\ row'[e].attempts = row[e].attempts
    \/ /\ row'[e].status \notin {"NONE", "PROCESSING"}
       /\ row'[e].status \in Live => row'[e].attempts < MAX_ATTEMPTS
       /\ row'[e].status \in {"PUBLISHED", "DELETED"} => e \in handled'

QuietDispatcher(p) ==
    /\ dispatcher'[p].lockedBy \in {dispatcher[p].lockedBy, NoLease}
    /\ dispatcher'[p].pc = "act" => dispatcher'[p].event \in Events

QuietDelivery(w) ==
    LET d == delivery[w]
        n == delivery'[w]
    IN  \/ n = d
        \/ /\ n.pc # "idle" => n.event \in Events
           /\ n.pc = "read" => n.status \in {"ENQUEUED", "PENDING"}
           /\ n.pc = "ack" => n.event \in handled'
           /\ n.pc # "exhausted"
           /\ n.pc \in Leased =>
                /\ d.pc \in Leased
                /\ n.event = d.event
                /\ n.lockedBy = d.lockedBy
                /\ n.attempts = d.attempts

LEMMA QuietInv ==
    ASSUME Inv, TypeOK', handled \subseteq handled',
           \A e \in Events : QuietRow(e),
           \A p \in Processes : QuietDispatcher(p),
           \A w \in Workers : QuietDelivery(w)
    PROVE  Inv'
<1>1. ASSUME NEW e \in Events PROVE RowInv(row[e])'
  BY <1>1, OutboxConstants DEF Inv, RowInv, QuietRow, QuietDispatcher
<1>2. ASSUME NEW w \in Workers PROVE WorkerInv(delivery[w])'
  <2>1. QuietDelivery(w) /\ WorkerInv(delivery[w])
    BY <1>2 DEF Inv
  <2>2. CASE delivery'[w].pc \in Leased
    <3>1. delivery[w].pc \in Leased /\ delivery[w].event \in Events
      BY <2>1, <2>2 DEF QuietDelivery, WorkerInv, Leased, Outcomes
    <3>2. QuietRow(delivery[w].event)
      BY <3>1
    <3> QED BY <2>1, <2>2, <3>1, <3>2 DEF QuietDelivery, WorkerInv, QuietRow
  <2>3. CASE delivery'[w].pc \notin Leased
    BY <2>1, <2>3 DEF QuietDelivery, WorkerInv
  <2> QED BY <2>2, <2>3
<1>3. PublishedWasHandled'
  BY DEF Inv, PublishedWasHandled, QuietRow
<1> QED BY <1>1, <1>2, <1>3 DEF Inv, QuietDispatcher

LEMMA EnqueueInv == ASSUME Inv, NEW e \in Events, Enqueue(e) PROVE Inv'
<1>1. TypeOK'
  <2>1. "PENDING" \in Status
    BY DEF Status
  <2>2. [row[e] EXCEPT !.status = "PENDING", !.due = TRUE] \in OutboxEvent
    <3>1. row[e] \in OutboxEvent
      BY DEF Inv, TypeOK
    <3> QED BY <2>1, <3>1 DEF OutboxEvent
  <2>3. row' \in [Events -> OutboxEvent]
    BY <2>2 DEF Enqueue, Inv, TypeOK
  <2> QED BY <2>3 DEF Enqueue, Inv, TypeOK
<1>2. \A f \in Events : QuietRow(f)
  BY OutboxConstants DEF Enqueue, Inv, TypeOK, OutboxEvent, QuietRow, Live, RowInv
<1>3. /\ \A p \in Processes : QuietDispatcher(p)
      /\ \A w \in Workers : QuietDelivery(w)
  BY DEF Enqueue, Inv, QuietDispatcher, QuietDelivery
<1> QED BY <1>1, <1>2, <1>3, QuietInv DEF Enqueue

LEMMA DeletePublishedInv == ASSUME Inv, NEW e \in Events, DeletePublished(e) PROVE Inv'
<1>1. TypeOK'
  BY OutboxConstants DEF DeletePublished, Inv, TypeOK, OutboxEvent, Status
<1>2. \A f \in Events : QuietRow(f)
  BY OutboxConstants DEF DeletePublished, Inv, TypeOK, OutboxEvent, QuietRow, Live, RowInv, PublishedWasHandled
<1>3. \A q \in Processes : QuietDispatcher(q)
  BY DEF DeletePublished, Inv, TypeOK, Dispatcher, QuietDispatcher
<1>4. \A v \in Workers : QuietDelivery(v)
  BY DEF DeletePublished, Inv, QuietDelivery
<1> QED BY <1>1, <1>2, <1>3, <1>4, QuietInv DEF DeletePublished

LEMMA BecomeDueInv == ASSUME Inv, NEW e \in Events, BecomeDue(e) PROVE Inv'
<1>1. TypeOK'
  <2>0. row[e] \in OutboxEvent
    BY DEF Inv, TypeOK
  <2>1. [row[e] EXCEPT !.due = TRUE] \in OutboxEvent
    BY <2>0, RowFlag
  <2>2. row' \in [Events -> OutboxEvent]
    BY <2>1 DEF BecomeDue, Inv, TypeOK
  <2> QED BY <2>2 DEF BecomeDue, Inv, TypeOK
<1>2. \A f \in Events : QuietRow(f)
  BY OutboxConstants DEF BecomeDue, Inv, TypeOK, OutboxEvent, QuietRow, Live, RowInv
<1>3. \A q \in Processes : QuietDispatcher(q)
  BY DEF BecomeDue, Inv, TypeOK, Dispatcher, QuietDispatcher
<1>4. \A v \in Workers : QuietDelivery(v)
  BY DEF BecomeDue, Inv, QuietDelivery
<1> QED BY <1>1, <1>2, <1>3, <1>4, QuietInv DEF BecomeDue

LEMMA RecoverAbandonedEventsInv == ASSUME Inv, NEW p \in Processes, RecoverAbandonedEvents(p) PROVE Inv'
<1>1. TypeOK'
  <2>0. "PENDING" \in Status
    BY DEF Status
  <2>1. \A e \in Events : [row[e] EXCEPT !.status = "PENDING", !.lockedBy = NoLease,
                                         !.expired = FALSE] \in OutboxEvent
    BY <2>0, RowUpdate DEF Inv, TypeOK
  <2>2. row' \in [Events -> OutboxEvent]
    BY <2>1 DEF RecoverAbandonedEvents, RecoverRows, Inv, TypeOK
  <2> QED
    BY <2>2 DEF RecoverAbandonedEvents, RecoverRows, Inv, TypeOK
<1>2. \A f \in Events : QuietRow(f)
  <2> TAKE f \in Events
  <2>1. CASE f \in Abandoned
    <3>1. row[f].status \in Live /\ row[f].attempts < MAX_ATTEMPTS
      BY <2>1 DEF Abandoned, Locked, Live, Inv, RowInv
    <3>2. row'[f].status = "PENDING" /\ row'[f].attempts = row[f].attempts
      BY <2>1 DEF RecoverAbandonedEvents, RecoverRows, Inv, TypeOK, OutboxEvent
    <3> QED BY <3>1, <3>2 DEF QuietRow
  <2>2. CASE f \notin Abandoned
    BY <2>2 DEF RecoverAbandonedEvents, RecoverRows, QuietRow
  <2> QED BY <2>1, <2>2
<1>3. \A q \in Processes : QuietDispatcher(q)
  BY DEF RecoverAbandonedEvents, Inv, TypeOK, Dispatcher, QuietDispatcher, RecoverRows
<1>4. \A v \in Workers : QuietDelivery(v)
  BY DEF RecoverAbandonedEvents, Inv, QuietDelivery, RecoverRows
<1> QED BY <1>1, <1>2, <1>3, <1>4, QuietInv DEF RecoverAbandonedEvents, RecoverRows

LEMMA LeaseExpiresInv == ASSUME Inv, NEW e \in Events, LeaseExpires(e) PROVE Inv'
<1>1. TypeOK'
  <2>. row[e] \in OutboxEvent
    BY DEF Inv, TypeOK
  <2>0. [row[e] EXCEPT !.expired = TRUE] \in OutboxEvent
    BY RowFlag
  <2>1. row' \in [Events -> OutboxEvent]
    BY <2>0 DEF LeaseExpires, Inv, TypeOK
  <2>2. faults' \in 0 .. MaxFaults /\ delays' \in 0 .. MaxDelays
    BY OutboxConstants DEF LeaseExpires, Inv, TypeOK, Fault, Delay
  <2> QED BY <2>1, <2>2 DEF LeaseExpires, Inv, TypeOK
<1>2. \A f \in Events : QuietRow(f)
  BY OutboxConstants DEF LeaseExpires, Inv, TypeOK, OutboxEvent, QuietRow, Live, RowInv
<1>3. \A q \in Processes : QuietDispatcher(q)
  BY DEF LeaseExpires, Inv, TypeOK, Dispatcher, QuietDispatcher
<1>4. \A v \in Workers : QuietDelivery(v)
  BY DEF LeaseExpires, Inv, QuietDelivery
<1> QED BY <1>1, <1>2, <1>3, <1>4, QuietInv DEF LeaseExpires

LEMMA JobRemovedInv == ASSUME Inv, NEW e \in Events, JobRemoved(e) PROVE Inv'
<1>1. TypeOK'
  BY OutboxConstants DEF JobRemoved, Inv, TypeOK, Job, NoJob, JobState, Fault
<1>2. \A f \in Events : QuietRow(f)
  BY OutboxConstants DEF JobRemoved, Inv, TypeOK, OutboxEvent, QuietRow, Live, RowInv
<1>3. \A q \in Processes : QuietDispatcher(q)
  BY DEF JobRemoved, Inv, TypeOK, Dispatcher, QuietDispatcher
<1>4. \A v \in Workers : QuietDelivery(v)
  BY DEF JobRemoved, Inv, QuietDelivery
<1> QED BY <1>1, <1>2, <1>3, <1>4, QuietInv DEF JobRemoved

LEMMA JobStallsInv == ASSUME Inv, NEW e \in Events, NEW next, JobStalls(e, next) PROVE Inv'
<1>1. TypeOK'
  <2>1. job' \in [Events -> Job]
    <3>0. job[e] \in Job /\ next \in JobState
      BY DEF JobStalls, Inv, TypeOK, JobState
    <3>1. [job[e] EXCEPT !.state = next, !.owner = NoWorker] \in Job
      BY <3>0 DEF Job
    <3> QED BY <3>1 DEF JobStalls, Inv, TypeOK
  <2>2. faults' \in 0 .. MaxFaults
    BY OutboxConstants DEF JobStalls, Inv, TypeOK, Fault
  <2> QED BY <2>1, <2>2 DEF JobStalls, Inv, TypeOK
<1>2. \A f \in Events : QuietRow(f)
  BY OutboxConstants DEF JobStalls, Inv, TypeOK, OutboxEvent, QuietRow, Live, RowInv
<1>3. \A q \in Processes : QuietDispatcher(q)
  BY DEF JobStalls, Inv, TypeOK, Dispatcher, QuietDispatcher
<1>4. \A v \in Workers : QuietDelivery(v)
  BY DEF JobStalls, Inv, QuietDelivery
<1> QED BY <1>1, <1>2, <1>3, <1>4, QuietInv DEF JobStalls

LEMMA InspectJobInv == ASSUME Inv, NEW p \in Processes, NEW e \in Events, InspectJob(p, e) PROVE Inv'
<1>1. TypeOK'
  <2>1. dispatcher' \in [Processes -> Dispatcher]
    <3>1. job[e].state \in JobState
      BY DEF Inv, TypeOK, Job
    <3>2. [dispatcher[p] EXCEPT !.pc = "act", !.event = e, !.seen = job[e].state]
            \in Dispatcher
      BY <3>1 DEF Inv, TypeOK, Dispatcher
    <3> QED BY <3>2 DEF InspectJob, Inv, TypeOK
  <2> QED BY <2>1 DEF InspectJob, Inv, TypeOK
<1>2. \A f \in Events : QuietRow(f)
  BY OutboxConstants DEF InspectJob, Inv, TypeOK, OutboxEvent, QuietRow, Live, RowInv
<1>3. \A q \in Processes : QuietDispatcher(q)
  BY DEF InspectJob, Inv, TypeOK, Dispatcher, QuietDispatcher
<1>4. \A v \in Workers : QuietDelivery(v)
  BY DEF InspectJob, Inv, QuietDelivery
<1> QED BY <1>1, <1>2, <1>3, <1>4, QuietInv DEF InspectJob

LEMMA BatchDoneInv == ASSUME Inv, NEW p \in Processes, BatchDone(p) PROVE Inv'
<1>1. TypeOK'
  BY OutboxConstants DEF BatchDone, Inv, TypeOK, Dispatcher, IdleDispatcher, JobState
<1>2. \A f \in Events : QuietRow(f)
  BY OutboxConstants DEF BatchDone, Inv, TypeOK, OutboxEvent, QuietRow, Live, RowInv
<1>3. \A q \in Processes : QuietDispatcher(q)
  BY DEF BatchDone, Inv, TypeOK, Dispatcher, QuietDispatcher, IdleDispatcher
<1>4. \A v \in Workers : QuietDelivery(v)
  BY DEF BatchDone, Inv, QuietDelivery
<1> QED BY <1>1, <1>2, <1>3, <1>4, QuietInv DEF BatchDone

LEMMA ReleaseUnqueuedFailsInv == ASSUME Inv, NEW p \in Processes, ReleaseUnqueuedFails(p) PROVE Inv'
<1>1. TypeOK'
  BY OutboxConstants DEF ReleaseUnqueuedFails, Inv, TypeOK, Dispatcher, IdleDispatcher, JobState, Fault
<1>2. \A f \in Events : QuietRow(f)
  BY OutboxConstants DEF ReleaseUnqueuedFails, Inv, TypeOK, OutboxEvent, QuietRow, Live, RowInv
<1>3. \A q \in Processes : QuietDispatcher(q)
  BY DEF ReleaseUnqueuedFails, Inv, TypeOK, Dispatcher, QuietDispatcher, IdleDispatcher
<1>4. \A v \in Workers : QuietDelivery(v)
  BY DEF ReleaseUnqueuedFails, Inv, QuietDelivery
<1> QED BY <1>1, <1>2, <1>3, <1>4, QuietInv DEF ReleaseUnqueuedFails

LEMMA InterruptBatchInv == ASSUME Inv, NEW p \in Processes, InterruptBatch(p) PROVE Inv'
<1>1. TypeOK'
  BY OutboxConstants DEF InterruptBatch, Inv, TypeOK, Dispatcher, IdleDispatcher, JobState, Fault
<1>2. \A f \in Events : QuietRow(f)
  BY OutboxConstants DEF InterruptBatch, Inv, TypeOK, OutboxEvent, QuietRow, Live, RowInv
<1>3. \A q \in Processes : QuietDispatcher(q)
  BY DEF InterruptBatch, Inv, TypeOK, Dispatcher, QuietDispatcher
<1>4. \A v \in Workers : QuietDelivery(v)
  BY DEF InterruptBatch, Inv, QuietDelivery
<1> QED BY <1>1, <1>2, <1>3, <1>4, QuietInv DEF InterruptBatch

LEMMA AddJobInv == ASSUME Inv, NEW p \in Processes, AddJob(p) PROVE Inv'
<1>1. TypeOK'
  BY OutboxConstants DEF AddJob, Inv, TypeOK, Dispatcher, IdleDispatcher, JobState, Job, NextInBatch
<1>2. \A f \in Events : QuietRow(f)
  BY OutboxConstants DEF AddJob, Inv, TypeOK, OutboxEvent, QuietRow, Live, RowInv
<1>3. \A q \in Processes : QuietDispatcher(q)
  BY DEF AddJob, Inv, TypeOK, Dispatcher, QuietDispatcher, NextInBatch
<1>4. \A v \in Workers : QuietDelivery(v)
  BY DEF AddJob, Inv, QuietDelivery
<1> QED BY <1>1, <1>2, <1>3, <1>4, QuietInv DEF AddJob

LEMMA LeaveToWaitingJobInv == ASSUME Inv, NEW p \in Processes, LeaveToWaitingJob(p) PROVE Inv'
<1>1. TypeOK'
  BY OutboxConstants DEF LeaveToWaitingJob, Inv, TypeOK, Dispatcher, IdleDispatcher, JobState, Job, NextInBatch
<1>2. \A f \in Events : QuietRow(f)
  BY OutboxConstants DEF LeaveToWaitingJob, Inv, TypeOK, OutboxEvent, QuietRow, Live, RowInv
<1>3. \A q \in Processes : QuietDispatcher(q)
  BY DEF LeaveToWaitingJob, Inv, TypeOK, Dispatcher, QuietDispatcher, NextInBatch
<1>4. \A v \in Workers : QuietDelivery(v)
  BY DEF LeaveToWaitingJob, Inv, QuietDelivery
<1> QED BY <1>1, <1>2, <1>3, <1>4, QuietInv DEF LeaveToWaitingJob

LEMMA RetryRetainedJobInv == ASSUME Inv, NEW p \in Processes, RetryRetainedJob(p) PROVE Inv'
<1>1. TypeOK'
  BY OutboxConstants DEF RetryRetainedJob, Inv, TypeOK, Dispatcher, IdleDispatcher, JobState, Job, NextInBatch, NoJob
<1>2. \A f \in Events : QuietRow(f)
  BY OutboxConstants DEF RetryRetainedJob, Inv, TypeOK, OutboxEvent, QuietRow, Live, RowInv
<1>3. \A q \in Processes : QuietDispatcher(q)
  BY DEF RetryRetainedJob, Inv, TypeOK, Dispatcher, QuietDispatcher, NextInBatch
<1>4. \A v \in Workers : QuietDelivery(v)
  BY DEF RetryRetainedJob, Inv, QuietDelivery
<1> QED BY <1>1, <1>2, <1>3, <1>4, QuietInv DEF RetryRetainedJob

LEMMA RenewLeaseInv == ASSUME Inv, NEW w \in Workers, RenewLease(w) PROVE Inv'
<1>1. TypeOK'
  <2>1. row' \in [Events -> OutboxEvent]
    <3>1. delivery[w].event \in Events
      BY DEF RenewLease, Inv, WorkerInv, Leased, Outcomes
    <3>0. row[delivery[w].event] \in OutboxEvent
      BY <3>1 DEF Inv, TypeOK
    <3>2. [row[delivery[w].event] EXCEPT !.expired = FALSE] \in OutboxEvent
      BY <3>0, RowFlag
    <3> QED BY <3>1, <3>2 DEF RenewLease, Inv, TypeOK
  <2> QED BY <2>1 DEF RenewLease, Inv, TypeOK
<1>2. \A f \in Events : QuietRow(f)
  BY OutboxConstants DEF RenewLease, Inv, TypeOK, OutboxEvent, QuietRow, Live, RowInv, WorkerInv, Leased, Outcomes
<1>3. \A q \in Processes : QuietDispatcher(q)
  BY DEF RenewLease, Inv, TypeOK, Dispatcher, QuietDispatcher
<1>4. \A v \in Workers : QuietDelivery(v)
  BY DEF RenewLease, Inv, QuietDelivery
<1> QED BY <1>1, <1>2, <1>3, <1>4, QuietInv DEF RenewLease

LEMMA BeginType ==
    ASSUME TypeOK, NEW w \in Workers, NEW e \in Events,
           NEW lastTry \in BOOLEAN, Begin(w, e, lastTry)
    PROVE  delivery' \in [Workers -> Delivery]
<1>1. [delivery[w] EXCEPT !.pc = "fetch", !.event = e, !.lastTry = lastTry]
        \in Delivery
  BY DEF TypeOK, Delivery
<1> QED BY <1>1 DEF Begin, TypeOK

LEMMA ProcessJobInv == ASSUME Inv, NEW w \in Workers, NEW e \in Events, ProcessJob(w, e) PROVE Inv'
<1>1. TypeOK'
  <2>1. job' \in [Events -> Job]
    BY DEF ProcessJob, Inv, TypeOK, Job, JobState
  <2>2. delivery' \in [Workers -> Delivery]
    <3>1. (job[e].attemptsMade + 1 >= MAX_ATTEMPTS) \in BOOLEAN
      OBVIOUS
    <3> QED BY <3>1, BeginType DEF ProcessJob, Inv
  <2> QED BY <2>1, <2>2 DEF ProcessJob, Inv, TypeOK
<1>2. \A f \in Events : QuietRow(f)
  BY OutboxConstants DEF ProcessJob, Inv, TypeOK, OutboxEvent, QuietRow, Live, RowInv
<1>3. \A q \in Processes : QuietDispatcher(q)
  BY DEF ProcessJob, Inv, TypeOK, Dispatcher, QuietDispatcher
<1>4. \A v \in Workers : QuietDelivery(v)
  BY DEF ProcessJob, Inv, QuietDelivery, TypeOK, Delivery, Begin, Leased, Outcomes
<1> QED BY <1>1, <1>2, <1>3, <1>4, QuietInv DEF ProcessJob

LEMMA DeliverWithoutRedisInv == ASSUME Inv, NEW w \in Workers, NEW e \in Events, DeliverWithoutRedis(w, e) PROVE Inv'
<1>1. TypeOK'
  <2>1. delivery' \in [Workers -> Delivery]
    BY BeginType DEF DeliverWithoutRedis, Inv
  <2> QED BY <2>1 DEF DeliverWithoutRedis, Inv, TypeOK
<1>2. \A f \in Events : QuietRow(f)
  BY OutboxConstants DEF DeliverWithoutRedis, Inv, TypeOK, OutboxEvent, QuietRow, Live, RowInv
<1>3. \A q \in Processes : QuietDispatcher(q)
  BY DEF DeliverWithoutRedis, Inv, TypeOK, Dispatcher, QuietDispatcher
<1>4. \A v \in Workers : QuietDelivery(v)
  BY DEF DeliverWithoutRedis, Inv, QuietDelivery, TypeOK, Delivery, Begin, Leased, Outcomes
<1> QED BY <1>1, <1>2, <1>3, <1>4, QuietInv DEF DeliverWithoutRedis

LEMMA ReleasedType ==
    ASSUME NEW r \in OutboxEvent
    PROVE  /\ Released(r) \in OutboxEvent
           /\ Released(r).status = "PENDING"
           /\ Released(r).attempts = r.attempts
BY DEF Released, OutboxEvent, Status

LEMMA RescheduledQuiet ==
    ASSUME Inv, NEW es, delivery' = Rescheduled(es)
    PROVE  /\ delivery' \in [Workers -> Delivery]
           /\ \A w \in Workers : QuietDelivery(w)
<1>1. delivery' \in [Workers -> Delivery]
  BY DEF Inv, TypeOK, Delivery, Rescheduled
<1>2. ASSUME NEW w \in Workers PROVE QuietDelivery(w)
  <2>1. CASE delivery'[w] = delivery[w]
    BY <2>1 DEF QuietDelivery
  <2>2. CASE delivery[w].pc = "read"
             /\ delivery'[w] = [delivery[w] EXCEPT !.pc = "stale"]
    <3>1. /\ delivery'[w].pc = "stale"
          /\ delivery'[w].event = delivery[w].event
      BY <2>2 DEF Inv, TypeOK, Delivery
    <3>2. delivery[w].event \in Events
      BY <2>2 DEF Inv, WorkerInv
    <3> QED BY <3>1, <3>2 DEF QuietDelivery, Leased, Outcomes
  <2> QED BY <2>1, <2>2, RescheduledOnlyStales DEF Inv
<1> QED BY <1>1, <1>2

\* release() by a dispatcher never touches a running delivery: no execution
\* lease is the UUID of a batch.
LEMMA ReleaseClaimQuiet ==
    ASSUME Inv, NEW p \in Processes, NEW e \in Events, ReleaseClaim(p, e)
    PROVE  /\ row' \in [Events -> OutboxEvent]
           /\ delivery' \in [Workers -> Delivery]
           /\ \A f \in Events : QuietRow(f)
           /\ \A w \in Workers : QuietDelivery(w)
<1>1. CASE Holds(e, dispatcher[p].lockedBy)
  <2>1. row' = [row EXCEPT ![e] = Released(@)] /\ delivery' = Rescheduled({e})
    BY <1>1 DEF ReleaseClaim
  <2>2. Released(row[e]) \in OutboxEvent
    BY ReleasedType DEF Inv, TypeOK
  <2>3. row[e].status \in Locked
    BY <1>1 DEF Holds
  <2>4. row' \in [Events -> OutboxEvent] /\ QuietRow(e)
    BY <2>1, <2>2, <2>3, ReleasedType DEF Inv, TypeOK, RowInv, QuietRow, Locked, Live
  <2>5. ASSUME NEW f \in Events, f # e PROVE QuietRow(f)
    BY <2>1, <2>5 DEF Inv, TypeOK, QuietRow
  <2> QED BY <2>1, <2>4, <2>5, RescheduledQuiet
<1>2. CASE ~Holds(e, dispatcher[p].lockedBy)
  BY <1>2 DEF ReleaseClaim, Inv, TypeOK, QuietRow, QuietDelivery
<1> QED BY <1>1, <1>2

\* Leaving the event at hand keeps the dispatcher's UUID.
LEMMA NextInBatchQuiet ==
    ASSUME Inv, NEW p \in Processes, NEW pc \in {"loop", "finally"},
           NextInBatch(p, pc)
    PROVE  /\ dispatcher' \in [Processes -> Dispatcher]
           /\ \A q \in Processes : QuietDispatcher(q)
<1> DEFINE d == [dispatcher[p] EXCEPT
                   !.pc = pc, !.batch = @ \ {dispatcher[p].event},
                   !.event = NoEvent, !.seen = "none"]
<1>1. dispatcher' = [dispatcher EXCEPT ![p] = d]
  BY DEF NextInBatch, Inv, TypeOK, Dispatcher
<1>2. d \in Dispatcher /\ d.pc # "act" /\ d.lockedBy = dispatcher[p].lockedBy
  BY DEF Inv, TypeOK, Dispatcher, JobState
<1> HIDE DEF d
<1> QED BY <1>1, <1>2 DEF Inv, TypeOK, QuietDispatcher

LEMMA ReleaseBehindActiveJobInv ==
    ASSUME Inv, NEW p \in Processes, ReleaseBehindActiveJob(p)
    PROVE  Inv'
<1>1. dispatcher[p].event \in Events
  BY DEF ReleaseBehindActiveJob, Inv
<1>2. TypeOK'
  BY <1>1, ReleaseClaimQuiet, NextInBatchQuiet DEF ReleaseBehindActiveJob, Inv, TypeOK
<1> QED BY <1>1, <1>2, ReleaseClaimQuiet, NextInBatchQuiet, QuietInv
        DEF ReleaseBehindActiveJob

LEMMA RetryRefusedInv ==
    ASSUME Inv, NEW p \in Processes, RetryRefused(p)
    PROVE  Inv'
<1>1. dispatcher[p].event \in Events
  BY DEF RetryRefused, Inv
<1>2. TypeOK'
  BY <1>1, ReleaseClaimQuiet, NextInBatchQuiet
     DEF RetryRefused, AbandonEnqueue, Inv, TypeOK
<1> QED BY <1>1, <1>2, ReleaseClaimQuiet, NextInBatchQuiet, QuietInv
        DEF RetryRefused, AbandonEnqueue

LEMMA EnqueueFailsInv ==
    ASSUME Inv, NEW p \in Processes, EnqueueFails(p)
    PROVE  Inv'
<1>1. dispatcher[p].event \in Events
  BY DEF EnqueueFails, Inv
<1>2. job' \in [Events -> Job]
  BY <1>1 DEF EnqueueFails, Inv, TypeOK, Job, NoJob, JobState
<1>3. faults' \in 0 .. MaxFaults
  BY OutboxConstants DEF EnqueueFails, Fault, Inv, TypeOK
<1>4. TypeOK'
  BY <1>1, <1>2, <1>3, ReleaseClaimQuiet, NextInBatchQuiet
     DEF EnqueueFails, AbandonEnqueue, Inv, TypeOK
<1> QED BY <1>1, <1>4, ReleaseClaimQuiet, NextInBatchQuiet, QuietInv
        DEF EnqueueFails, AbandonEnqueue

LEMMA ReleaseUnqueuedInv ==
    ASSUME Inv, NEW p \in Processes, ReleaseUnqueued(p)
    PROVE  Inv'
<1> DEFINE mine == {e \in dispatcher[p].batch :
                      /\ row[e].status = "ENQUEUED"
                      /\ row[e].lockedBy = dispatcher[p].lockedBy}
<1>1. \A e \in mine : row[e].status = "ENQUEUED"
  OBVIOUS
<1>2. /\ row' = [e \in Events |-> IF e \in mine THEN Released(row[e]) ELSE row[e]]
      /\ delivery' = Rescheduled(mine)
      /\ dispatcher' = [dispatcher EXCEPT ![p] = IdleDispatcher]
      /\ UNCHANGED <<job, handled, faults, delays>>
  BY DEF ReleaseUnqueued
<1> HIDE DEF mine
<1>3. \A e \in Events : Released(row[e]) \in OutboxEvent
  BY ReleasedType DEF Inv, TypeOK
<1>4. row' \in [Events -> OutboxEvent]
  BY <1>2, <1>3 DEF Inv, TypeOK
<1>5. /\ delivery' \in [Workers -> Delivery]
      /\ \A w \in Workers : QuietDelivery(w)
  BY <1>2, RescheduledQuiet
<1>6. dispatcher' \in [Processes -> Dispatcher]
  BY <1>2 DEF Inv, TypeOK, Dispatcher, IdleDispatcher, JobState
<1>7. TypeOK'
  BY <1>2, <1>4, <1>5, <1>6 DEF Inv, TypeOK
<1>8. \A f \in Events : QuietRow(f)
  <2> TAKE f \in Events
  <2>1. CASE f \in mine
    <3>1. row[f].attempts < MAX_ATTEMPTS
      BY <1>1, <2>1 DEF Inv, RowInv, Live
    <3>2. row'[f].status = "PENDING" /\ row'[f].attempts = row[f].attempts
      BY <1>2, <2>1 DEF Inv, TypeOK, OutboxEvent, Released
    <3> QED BY <3>1, <3>2 DEF QuietRow
  <2>2. CASE f \notin mine
    BY <1>2, <2>2 DEF QuietRow
  <2> QED BY <2>1, <2>2
<1>9. \A q \in Processes : QuietDispatcher(q)
  BY <1>2 DEF Inv, TypeOK, QuietDispatcher, IdleDispatcher
<1> QED BY <1>2, <1>5, <1>7, <1>8, <1>9, QuietInv

LEMMA RetryOutboxEventInv ==
    ASSUME Inv, NEW e \in Events, RetryOutboxEvent(e)
    PROVE  Inv'
<1>1. row' \in [Events -> OutboxEvent]
  <2>1. [status |-> "PENDING", attempts |-> 0, due |-> TRUE,
         lockedBy |-> NoLease, expired |-> FALSE] \in OutboxEvent
    BY OutboxConstants DEF OutboxEvent, Status
  <2> QED BY <2>1 DEF RetryOutboxEvent, Inv, TypeOK
<1>2. /\ delivery' \in [Workers -> Delivery]
      /\ \A w \in Workers : QuietDelivery(w)
  BY RescheduledQuiet DEF RetryOutboxEvent
<1>3. faults' \in 0 .. MaxFaults
  BY OutboxConstants DEF RetryOutboxEvent, Fault, Inv, TypeOK
<1>4. TypeOK'
  BY <1>1, <1>2, <1>3 DEF RetryOutboxEvent, Inv, TypeOK
<1>5. \A f \in Events : QuietRow(f)
  BY OutboxConstants DEF RetryOutboxEvent, Inv, TypeOK, OutboxEvent, QuietRow, Live
<1>6. \A q \in Processes : QuietDispatcher(q)
  BY DEF RetryOutboxEvent, Inv, QuietDispatcher
<1> QED BY <1>2, <1>4, <1>5, <1>6, QuietInv DEF RetryOutboxEvent

LEMMA CrashInv == ASSUME Inv, NEW p \in Processes, Crash(p) PROVE Inv'
<1>1. IdleDispatcher \in Dispatcher /\ IdleDelivery \in Delivery
  BY OutboxConstants DEF IdleDispatcher, Dispatcher, JobState, IdleDelivery,
     Delivery, Status
<1>2. faults' \in 0 .. MaxFaults
  BY OutboxConstants DEF Crash, Fault, Inv, TypeOK
<1>3. TypeOK'
  BY <1>1, <1>2 DEF Crash, Inv, TypeOK
<1>4. /\ \A f \in Events : QuietRow(f)
      /\ \A q \in Processes : QuietDispatcher(q)
  BY DEF Crash, Inv, TypeOK, QuietRow, QuietDispatcher, IdleDispatcher
<1>5. \A w \in Workers : QuietDelivery(w)
  BY DEF Crash, Inv, TypeOK, QuietDelivery, IdleDelivery, Leased, Outcomes
<1> QED BY <1>3, <1>4, <1>5, QuietInv DEF Crash

\* What every return from deliver() does, whatever became of the row.
OnlyStales(others) ==
    /\ others \in [Workers -> Delivery]
    /\ \A v \in Workers : \/ others[v] = delivery[v]
                          \/ /\ delivery[v].pc = "read"
                             /\ others[v] = [delivery[v] EXCEPT !.pc = "stale"]

LEMMA ReturnQuiet ==
    ASSUME Inv, NEW w \in Workers, NEW ok \in BOOLEAN, NEW others,
           delivery[w].event \in Events, OnlyStales(others),
           Return(w, ok, others)
    PROVE  /\ job' \in [Events -> Job]
           /\ dispatcher' \in [Processes -> Dispatcher]
           /\ delivery' \in [Workers -> Delivery]
           /\ \A p \in Processes : QuietDispatcher(p)
           /\ \A v \in Workers : QuietDelivery(v)
<1> DEFINE e == delivery[w].event
           p == Home[w]
<1>1. Home[w] \in Processes
  BY OutboxConstants
<1>2. /\ delivery' = [others EXCEPT ![w] = IdleDelivery]
      /\ job' = IF job[e].owner = w THEN [job EXCEPT ![e] = Settled(@, ok)] ELSE job
      /\ dispatcher' =
           IF UseRedis THEN dispatcher
           ELSE IF ok THEN [dispatcher EXCEPT ![p].batch = @ \ {e}]
           ELSE [dispatcher EXCEPT ![p].pc = "finally"]
  BY DEF Return
<1>3. ASSUME NEW j \in Job PROVE Settled(j, ok) \in Job
  <2> DEFINE s == IF ok THEN "completed"
                  ELSE IF j.attemptsMade + 1 < MAX_ATTEMPTS
                  THEN "waiting" ELSE "failed"
             a == IF ok THEN j.attemptsMade ELSE j.attemptsMade + 1
  <2>1. Settled(j, ok) = [j EXCEPT !.state = s, !.attemptsMade = a, !.owner = NoWorker]
    BY DEF Settled, Job
  <2>2. s \in JobState
    BY DEF JobState
  <2>3. a \in Nat
    BY <1>3 DEF Job
  <2> HIDE DEF s, a
  <2> QED BY <1>3, <2>1, <2>2, <2>3 DEF Job
<1>4. job' \in [Events -> Job]
  BY <1>2, <1>3 DEF Inv, TypeOK
<1>5. dispatcher' \in [Processes -> Dispatcher]
  BY <1>1, <1>2 DEF Inv, TypeOK, Dispatcher
<1>6. \A q \in Processes : QuietDispatcher(q)
  BY <1>1, <1>2 DEF Inv, TypeOK, Dispatcher, QuietDispatcher
<1>7. delivery' \in [Workers -> Delivery]
  BY <1>2, OutboxConstants DEF OnlyStales, IdleDelivery, Delivery, Status
<1>8. ASSUME NEW v \in Workers PROVE QuietDelivery(v)
  <2>1. CASE v = w
    BY <1>2, <2>1 DEF OnlyStales, QuietDelivery, IdleDelivery, Leased, Outcomes
  <2>2. CASE v # w /\ others[v] = delivery[v]
    BY <1>2, <2>2 DEF OnlyStales, QuietDelivery
  <2>3. CASE v # w /\ delivery[v].pc = "read"
             /\ others[v] = [delivery[v] EXCEPT !.pc = "stale"]
    <3>1. /\ delivery'[v].pc = "stale"
          /\ delivery'[v].event = delivery[v].event
      BY <1>2, <2>3 DEF OnlyStales, Inv, TypeOK, Delivery
    <3>2. delivery[v].event \in Events
      BY <2>3 DEF Inv, WorkerInv
    <3> QED BY <3>1, <3>2 DEF QuietDelivery, Leased, Outcomes
  <2> QED BY <2>1, <2>2, <2>3 DEF OnlyStales
<1> QED BY <1>4, <1>5, <1>6, <1>7, <1>8

LEMMA ReturnPlain ==
    ASSUME Inv, NEW w \in Workers, NEW ok \in BOOLEAN,
           delivery[w].event \in Events, Return(w, ok, delivery)
    PROVE  /\ job' \in [Events -> Job]
           /\ dispatcher' \in [Processes -> Dispatcher]
           /\ delivery' \in [Workers -> Delivery]
           /\ \A p \in Processes : QuietDispatcher(p)
           /\ \A v \in Workers : QuietDelivery(v)
<1>1. OnlyStales(delivery)
  BY DEF OnlyStales, Inv, TypeOK
<1> QED BY <1>1, ReturnQuiet

LEMMA ReturnRescheduling ==
    ASSUME Inv, NEW w \in Workers, NEW ok \in BOOLEAN, NEW es,
           delivery[w].event \in Events, Return(w, ok, Rescheduled(es))
    PROVE  /\ job' \in [Events -> Job]
           /\ dispatcher' \in [Processes -> Dispatcher]
           /\ delivery' \in [Workers -> Delivery]
           /\ \A p \in Processes : QuietDispatcher(p)
           /\ \A v \in Workers : QuietDelivery(v)
<1>1. OnlyStales(Rescheduled(es))
  BY RescheduledOnlyStales DEF Inv, OnlyStales, Rescheduled
<1> QED BY <1>1, ReturnQuiet

LEMMA ReadEventInv == ASSUME Inv, NEW w \in Workers, ReadEvent(w) PROVE Inv'
<1> DEFINE e == delivery[w].event
<1>1. e \in Events /\ UNCHANGED <<row, handled, faults, delays>>
  BY DEF ReadEvent, Inv, WorkerInv
<1>2. \A f \in Events : QuietRow(f)
  BY <1>1 DEF QuietRow
<1>3. CASE row[e].status \in {"ENQUEUED", "PENDING"}
  <2>1. /\ UNCHANGED <<job, dispatcher>>
        /\ delivery' = [delivery EXCEPT ![w] =
                          [delivery[w] EXCEPT !.pc = "read",
                                              !.status = row[e].status,
                                              !.attempts = row[e].attempts,
                                              !.lockedBy = row[e].lockedBy]]
    BY <1>3 DEF ReadEvent, Inv, TypeOK
  <2>2. [delivery[w] EXCEPT !.pc = "read", !.status = row[e].status,
                            !.attempts = row[e].attempts,
                            !.lockedBy = row[e].lockedBy] \in Delivery
    BY <1>1 DEF Inv, TypeOK, OutboxEvent, Delivery
  <2>3. TypeOK'
    BY <1>1, <2>1, <2>2 DEF Inv, TypeOK
  <2>4. QuietDelivery(w)
    BY <1>1, <1>3, <2>1 DEF Inv, TypeOK, Delivery, QuietDelivery, Leased, Outcomes
  <2>5. \A v \in Workers \ {w} : QuietDelivery(v)
    BY <2>1 DEF Inv, TypeOK, QuietDelivery
  <2>6. \A q \in Processes : QuietDispatcher(q)
    BY <2>1 DEF Inv, QuietDispatcher
  <2> QED BY <1>1, <1>2, <2>3, <2>4, <2>5, <2>6, QuietInv
<1>4. CASE row[e].status \notin {"ENQUEUED", "PENDING"}
  <2>1. Return(w, TRUE, delivery)
    BY <1>4 DEF ReadEvent
  <2>2. TypeOK'
    BY <1>1, <2>1, ReturnPlain DEF Inv, TypeOK
  <2> QED BY <1>1, <1>2, <2>1, <2>2, ReturnPlain, QuietInv
<1> QED BY <1>3, <1>4

LEMMA ClaimMissedInv == ASSUME Inv, NEW w \in Workers, ClaimMissed(w) PROVE Inv'
<1>1. /\ delivery[w].event \in Events
      /\ Return(w, TRUE, delivery)
      /\ UNCHANGED <<row, handled, faults, delays>>
  BY DEF ClaimMissed, Inv, WorkerInv
<1>2. TypeOK'
  BY <1>1, ReturnPlain DEF Inv, TypeOK
<1>3. \A f \in Events : QuietRow(f)
  BY <1>1 DEF QuietRow
<1> QED BY <1>1, <1>2, <1>3, ReturnPlain, QuietInv

LEMMA PublishInv ==
    ASSUME Inv, NEW w \in Workers, NEW outcome \in Outcomes, Publish(w, outcome)
    PROVE  Inv'
<1> DEFINE d == [delivery[w] EXCEPT !.pc = outcome]
<1>1. /\ delivery[w].pc = "publish" /\ delivery[w].event \in Events
      /\ delivery' = [delivery EXCEPT ![w] = d]
      /\ UNCHANGED <<row, job, dispatcher, delays>>
  BY DEF Publish, Inv, WorkerInv, TypeOK
<1>2. /\ d \in Delivery /\ d.pc = outcome /\ d.event = delivery[w].event
      /\ d.lockedBy = delivery[w].lockedBy /\ d.attempts = delivery[w].attempts
  BY DEF Inv, TypeOK, Delivery, Leased
<1> HIDE DEF d
<1>3. /\ handled \subseteq handled' /\ handled' \in SUBSET Events
      /\ outcome = "ack" => delivery[w].event \in handled'
  BY <1>1 DEF Publish, Inv, TypeOK
<1>4. faults' \in 0 .. MaxFaults
  BY OutboxConstants DEF Publish, Fault, Inv, TypeOK
<1>5. TypeOK'
  BY <1>1, <1>2, <1>3, <1>4 DEF Inv, TypeOK
<1>6. QuietDelivery(w)
  BY <1>1, <1>2, <1>3 DEF Inv, TypeOK, QuietDelivery, Leased, Outcomes
<1>7. \A v \in Workers \ {w} : QuietDelivery(v)
  BY <1>1 DEF Inv, TypeOK, QuietDelivery
<1>8. /\ \A f \in Events : QuietRow(f)
      /\ \A q \in Processes : QuietDispatcher(q)
  BY <1>1 DEF Inv, QuietRow, QuietDispatcher
<1> QED BY <1>3, <1>5, <1>6, <1>7, <1>8, QuietInv

LEMMA MarkPublishedInv ==
    ASSUME Inv, NEW w \in Workers, MarkPublished(w)
    PROVE  Inv'
<1> DEFINE e == delivery[w].event
<1>1. /\ e \in Events /\ e \in handled
      /\ Return(w, TRUE, delivery)
      /\ UNCHANGED <<handled, faults, delays>>
  BY DEF MarkPublished, Inv, WorkerInv
<1>2. row' \in [Events -> OutboxEvent]
  <2>1. "PUBLISHED" \in Status
    BY DEF Status
  <2>2. [row[e] EXCEPT !.status = "PUBLISHED", !.lockedBy = NoLease,
                       !.expired = FALSE] \in OutboxEvent
    BY <1>1, <2>1, RowUpdate DEF Inv, TypeOK
  <2> QED BY <1>1, <2>2 DEF MarkPublished, Inv, TypeOK
<1>3. TypeOK'
  BY <1>1, <1>2, ReturnPlain DEF Inv, TypeOK
<1>4. \A f \in Events : QuietRow(f)
  <2>1. \A f \in Events : \/ row'[f] = row[f]
                          \/ f = e /\ row'[f].status = "PUBLISHED"
    BY <1>1 DEF MarkPublished, Inv, TypeOK, OutboxEvent
  <2> QED BY <1>1, <2>1 DEF QuietRow, Live
<1> QED BY <1>1, <1>3, <1>4, ReturnPlain, QuietInv

LEMMA ReleaseDeferredInv ==
    ASSUME Inv, NEW w \in Workers, ReleaseDeferred(w)
    PROVE  Inv'
<1> DEFINE e == delivery[w].event
<1>1. e \in Events /\ UNCHANGED <<handled, faults, delays>>
  BY DEF ReleaseDeferred, Inv, WorkerInv
<1>2. CASE Holds(e, delivery[w].lockedBy)
  <2>1. /\ row' = [row EXCEPT ![e] = Released(@)]
        /\ Return(w, TRUE, Rescheduled({e}))
    BY <1>2 DEF ReleaseDeferred
  <2>2. row[e].status \in Locked
    BY <1>2 DEF Holds
  <2>3. row' \in [Events -> OutboxEvent]
    BY <1>1, <2>1, ReleasedType DEF Inv, TypeOK
  <2>4. TypeOK'
    BY <1>1, <2>1, <2>3, ReturnRescheduling DEF Inv, TypeOK
  <2>5. \A f \in Events : QuietRow(f)
    BY <1>1, <2>1, <2>2, ReleasedType DEF Inv, TypeOK, RowInv, QuietRow, Locked, Live
  <2> QED BY <1>1, <2>1, <2>4, <2>5, ReturnRescheduling, QuietInv
<1>3. CASE ~Holds(e, delivery[w].lockedBy)
  <2>1. UNCHANGED row /\ Return(w, TRUE, delivery)
    BY <1>3 DEF ReleaseDeferred
  <2>2. TypeOK'
    BY <1>1, <2>1, ReturnPlain DEF Inv, TypeOK
  <2>3. \A f \in Events : QuietRow(f)
    BY <2>1 DEF QuietRow
  <2> QED BY <1>1, <2>1, <2>2, <2>3, ReturnPlain, QuietInv
<1> QED BY <1>2, <1>3

\* A delivery that still holds its lease charges one attempt more than the
\* row has, and the last one makes a dead letter.
LEMMA RecordFailureRow ==
    ASSUME Inv, NEW w \in Workers, RecordFailure(w), HoldsLease(w)
    PROVE  LET e == delivery[w].event IN
           /\ row' \in [Events -> OutboxEvent]
           /\ \A f \in Events \ {e} : row'[f] = row[f]
           /\ row'[e].attempts = row[e].attempts + 1
           /\ \/ row'[e].status = "DEAD_LETTER"
              \/ row'[e].status = "PENDING" /\ row'[e].attempts < MAX_ATTEMPTS
<1> DEFINE e == delivery[w].event
           dead == [row[e] EXCEPT !.status = "DEAD_LETTER",
                                  !.lockedBy = NoLease, !.expired = FALSE]
           n == row[e].attempts + 1
<1>1. /\ e \in Events /\ row[e].status = "PROCESSING"
      /\ delivery[w].attempts = row[e].attempts
      /\ delivery[w].pc \in {"error", "permanent"}
  BY DEF RecordFailure, HoldsLease, Inv, WorkerInv, Leased, Outcomes
<1>2. FailedAttempts(w) = n /\ n \in 0 .. MAX_ATTEMPTS
  <2>1. row[e].attempts \in 0 .. MAX_ATTEMPTS /\ row[e].attempts < MAX_ATTEMPTS
    BY <1>1 DEF Inv, TypeOK, OutboxEvent, RowInv, Live
  <2>2. delivery[w].pc # "exhausted"
    BY <1>1
  <2> QED BY <1>1, <2>1, <2>2, OutboxConstants DEF FailedAttempts
<1>3. row' = [row EXCEPT ![e] = [IF DeadLetters(w) THEN dead ELSE Released(row[e])
                                  EXCEPT !.attempts = n]]
  BY <1>2 DEF RecordFailure
<1>4. row[e] \in OutboxEvent
  BY <1>1 DEF Inv, TypeOK
<1>5. dead \in OutboxEvent /\ dead.status = "DEAD_LETTER"
  BY <1>4 DEF OutboxEvent, Status
<1>6. ~DeadLetters(w) => n < MAX_ATTEMPTS
  BY <1>1, <1>2, OutboxConstants DEF DeadLetters, Inv, TypeOK, OutboxEvent
<1> HIDE DEF dead, n
<1>7. \A r \in OutboxEvent : /\ [r EXCEPT !.attempts = n] \in OutboxEvent
                             /\ [r EXCEPT !.attempts = n].attempts = n
                             /\ [r EXCEPT !.attempts = n].status = r.status
  BY <1>2 DEF OutboxEvent
<1>8. CASE DeadLetters(w)
  BY <1>1, <1>3, <1>4, <1>5, <1>7, <1>8 DEF Inv, TypeOK, n
<1>9. CASE ~DeadLetters(w)
  BY <1>1, <1>3, <1>4, <1>6, <1>7, <1>9, ReleasedType DEF Inv, TypeOK, n
<1> QED BY <1>8, <1>9

LEMMA RecordFailureInv ==
    ASSUME Inv, NEW w \in Workers, RecordFailure(w)
    PROVE  Inv'
<1> DEFINE e == delivery[w].event
           ok == ~UseRedis \/ delivery[w].pc # "error"
<1>1. e \in Events /\ UNCHANGED <<handled, faults, delays>>
  BY DEF RecordFailure, Inv, WorkerInv
<1>2. \/ Return(w, ok, delivery)
      \/ Return(w, ok, Rescheduled({e}))
  BY DEF RecordFailure
<1>3. ok \in BOOLEAN
  OBVIOUS
<1> HIDE DEF ok
<1>4. CASE HoldsLease(w)
  <2>1. \A f \in Events : QuietRow(f)
    BY <1>1, <1>4, RecordFailureRow DEF QuietRow, Live
  <2>2. row' \in [Events -> OutboxEvent]
    BY <1>4, RecordFailureRow
  <2>3. TypeOK'
    BY <1>1, <1>2, <1>3, <2>2, ReturnPlain, ReturnRescheduling DEF Inv, TypeOK
  <2> QED BY <1>1, <1>2, <1>3, <2>1, <2>3, ReturnPlain, ReturnRescheduling, QuietInv
<1>5. CASE ~HoldsLease(w)
  <2>1. UNCHANGED row
    BY <1>5 DEF RecordFailure
  <2>2. TypeOK'
    BY <1>1, <1>2, <1>3, <2>1, ReturnPlain, ReturnRescheduling DEF Inv, TypeOK
  <2>3. \A f \in Events : QuietRow(f)
    BY <2>1 DEF QuietRow
  <2> QED BY <1>1, <1>2, <1>3, <2>2, <2>3, ReturnPlain, ReturnRescheduling, QuietInv
<1> QED BY <1>4, <1>5

LEMMA DatabaseErrorInv ==
    ASSUME Inv, NEW w \in Workers, DatabaseError(w)
    PROVE  Inv'
<1>1. delivery[w].event \in Events /\ UNCHANGED <<row, handled, delays>>
  BY DEF DatabaseError, Inv, WorkerInv
<1>2. faults' \in 0 .. MaxFaults
  BY OutboxConstants DEF DatabaseError, Fault, Inv, TypeOK
<1>3. \A f \in Events : QuietRow(f)
  BY <1>1 DEF QuietRow
<1>4. CASE delivery[w].pc = "ack"
  <2>1. /\ delivery' = [delivery EXCEPT ![w] = [delivery[w] EXCEPT !.pc = "error"]]
        /\ UNCHANGED <<job, dispatcher>>
    BY <1>4 DEF DatabaseError, Inv, TypeOK
  <2>2. [delivery[w] EXCEPT !.pc = "error"] \in Delivery
    BY DEF Inv, TypeOK, Delivery, Leased, Outcomes
  <2>3. TypeOK'
    BY <1>1, <1>2, <2>1, <2>2 DEF Inv, TypeOK
  <2>4. QuietDelivery(w)
    BY <1>1, <1>4, <2>1 DEF Inv, TypeOK, Delivery, QuietDelivery, Leased, Outcomes
  <2>5. /\ \A v \in Workers \ {w} : QuietDelivery(v)
        /\ \A q \in Processes : QuietDispatcher(q)
    BY <2>1 DEF Inv, TypeOK, QuietDelivery, QuietDispatcher
  <2> QED BY <1>1, <1>3, <2>3, <2>4, <2>5, QuietInv
<1>5. CASE delivery[w].pc # "ack"
  <2>1. Return(w, FALSE, delivery)
    BY <1>5 DEF DatabaseError
  <2>2. TypeOK'
    BY <1>1, <1>2, <2>1, ReturnPlain DEF Inv, TypeOK
  <2> QED BY <1>1, <1>3, <2>1, <2>2, ReturnPlain, QuietInv
<1> QED BY <1>4, <1>5

\* A batch UUID is fresh, so no execution lease equals it.
LEMMA ClaimBatchInv == ASSUME Inv, NEW p \in Processes, ClaimBatch(p) PROVE Inv'
<1> DEFINE u == randomUUID
           es == OldestCandidates
<1>1. u \in Lease /\ u \notin LeasesInUse
  BY FreshLease DEF ClaimBatch
<1>2. /\ row' = [e \in Events |->
                  IF e \in es
                  THEN [row[e] EXCEPT !.status = "ENQUEUED", !.lockedBy = u,
                                      !.expired = FALSE]
                  ELSE row[e]]
      /\ dispatcher' = [dispatcher EXCEPT ![p] =
                          [IdleDispatcher EXCEPT !.pc = "loop", !.batch = es,
                                                 !.lockedBy = u]]
      /\ UNCHANGED <<job, delivery, handled, faults, delays>>
  BY DEF ClaimBatch
<1>3. es \subseteq Events /\ \A e \in es : row[e].status = "PENDING"
  BY DEF OldestCandidates, Candidates
<1>4. u # NoLease /\ \A e \in Events : row[e].lockedBy # u
  BY <1>1, OutboxConstants DEF LeasesInUse
<1> HIDE DEF u, es
<1>5. \A e \in Events : \/ row'[e] = row[e]
                        \/ /\ row[e].status = "PENDING"
                           /\ row'[e].status = "ENQUEUED"
                           /\ row'[e].attempts = row[e].attempts
  BY <1>2, <1>3 DEF Inv, TypeOK, OutboxEvent
<1>6. TypeOK'
  <2>0. "ENQUEUED" \in Status
    BY DEF Status
  <2>1. row' \in [Events -> OutboxEvent]
    <3>1. \A f \in Events : [row[f] EXCEPT !.status = "ENQUEUED", !.lockedBy = u,
                                           !.expired = FALSE] \in OutboxEvent
      BY <1>1, <2>0, RowUpdate DEF Inv, TypeOK
    <3> QED BY <1>2, <3>1 DEF Inv, TypeOK
  <2>2. dispatcher' \in [Processes -> Dispatcher]
    BY <1>1, <1>2, <1>3 DEF Inv, TypeOK, Dispatcher, IdleDispatcher, JobState
  <2> QED BY <1>2, <2>1, <2>2 DEF Inv, TypeOK
<1>7. \A e \in Events : RowInv(row[e])'
  <2>1. \A q \in Processes : dispatcher'[q].lockedBy \in {dispatcher[q].lockedBy, u}
    BY <1>2 DEF Inv, TypeOK, IdleDispatcher
  <2> QED BY <1>4, <1>5, <2>1 DEF Inv, RowInv, Live
<1>8. \A q \in Processes : dispatcher'[q].pc = "act" => dispatcher'[q].event \in Events
  BY <1>2 DEF Inv, TypeOK, IdleDispatcher
<1>9. ASSUME NEW w \in Workers PROVE WorkerInv(delivery[w])'
  <2>1. WorkerInv(delivery[w]) /\ delivery'[w] = delivery[w] /\ handled' = handled
    BY <1>2 DEF Inv
  <2>2. CASE delivery[w].pc \in Leased
    <3>1. delivery[w].event \in Events
      BY <2>1, <2>2 DEF WorkerInv, Leased, Outcomes
    <3> QED BY <1>5, <2>1, <2>2, <3>1 DEF WorkerInv
  <2>3. CASE delivery[w].pc \notin Leased
    BY <2>1, <2>3 DEF WorkerInv
  <2> QED BY <2>2, <2>3
<1>10. PublishedWasHandled'
  BY <1>2, <1>5 DEF Inv, PublishedWasHandled
<1> QED BY <1>6, <1>7, <1>8, <1>9, <1>10 DEF Inv

\* An execution lease is fresh, so no other delivery and no batch holds it,
\* and the attempts read are still those of the row.
LEMMA ClaimLeaseInv == ASSUME Inv, NEW w \in Workers, ClaimLease(w) PROVE Inv'
<1> DEFINE u == randomUUID
           e == delivery[w].event
<1>1. u \in Lease /\ u \notin LeasesInUse
  BY FreshLease DEF ClaimLease
<1>2. /\ u # NoLease
      /\ \A p \in Processes : dispatcher[p].lockedBy # u
      /\ \A v \in Workers : delivery[v].lockedBy # u
  BY <1>1, OutboxConstants DEF LeasesInUse
<1>3. /\ delivery[w].pc = "read" /\ e \in Events
      /\ row[e].status \in {"ENQUEUED", "PENDING"}
      /\ row[e].attempts = delivery[w].attempts
  BY DEF ClaimLease, ClaimMatches, Inv, WorkerInv
<1>4. row[e].attempts < MAX_ATTEMPTS /\ row[e].attempts \in 0 .. MAX_ATTEMPTS
  BY <1>3 DEF Inv, RowInv, Live, TypeOK, OutboxEvent
<1>5. ~(delivery[w].attempts >= MAX_ATTEMPTS)
  BY <1>3, <1>4, OutboxConstants
<1>6. /\ row' = [row EXCEPT ![e] = [row[e] EXCEPT !.status = "PROCESSING",
                                                 !.lockedBy = u,
                                                 !.expired = FALSE]]
      /\ delivery' = [delivery EXCEPT ![w] = [delivery[w] EXCEPT
                                                !.pc = "publish", !.lockedBy = u]]
      /\ UNCHANGED <<job, dispatcher, handled, faults, delays>>
  BY <1>3, <1>5 DEF ClaimLease, Inv, TypeOK
<1> HIDE DEF u
<1>7. [row[e] EXCEPT !.status = "PROCESSING", !.lockedBy = u, !.expired = FALSE]
        \in OutboxEvent
  <2>1. row[e] \in OutboxEvent /\ "PROCESSING" \in Status
    BY <1>3 DEF Inv, TypeOK, Status
  <2> QED BY <1>1, <2>1 DEF OutboxEvent
<1>8. [delivery[w] EXCEPT !.pc = "publish", !.lockedBy = u] \in Delivery
  BY <1>1 DEF Inv, TypeOK, Delivery, Leased
<1>9. TypeOK'
  BY <1>6, <1>7, <1>8 DEF Inv, TypeOK
<1>10. /\ row'[e].status = "PROCESSING" /\ row'[e].lockedBy = u
       /\ row'[e].attempts = row[e].attempts
       /\ \A f \in Events \ {e} : row'[f] = row[f]
  BY <1>3, <1>6 DEF Inv, TypeOK, OutboxEvent
<1>11. \A f \in Events : RowInv(row[f])'
  BY <1>1, <1>2, <1>4, <1>6, <1>10 DEF Inv, RowInv, Live
<1>12. ASSUME NEW v \in Workers PROVE WorkerInv(delivery[v])'
  <2>1. CASE v = w
    <3>1. /\ delivery'[v].pc = "publish" /\ delivery'[v].event = e
          /\ delivery'[v].lockedBy = u
          /\ delivery'[v].attempts = delivery[w].attempts
      BY <1>6, <2>1 DEF Inv, TypeOK, Delivery
    <3> QED BY <1>1, <1>3, <1>10, <3>1 DEF WorkerInv
  <2>2. CASE v # w
    <3>1. /\ delivery'[v] = delivery[v] /\ WorkerInv(delivery[v])
          /\ delivery[v].lockedBy # u /\ handled' = handled
      BY <1>2, <1>6, <2>2 DEF Inv, TypeOK
    <3>2. CASE delivery[v].pc \in Leased
      <4>1. delivery[v].event \in Events
        BY <3>1, <3>2 DEF WorkerInv, Leased, Outcomes
      <4> QED BY <1>10, <3>1, <3>2, <4>1 DEF WorkerInv
    <3>3. CASE delivery[v].pc \notin Leased
      BY <3>1, <3>3 DEF WorkerInv
    <3> QED BY <3>2, <3>3
  <2> QED BY <2>1, <2>2
<1>13. PublishedWasHandled'
  BY <1>6, <1>10 DEF Inv, PublishedWasHandled
<1> QED BY <1>6, <1>9, <1>11, <1>12, <1>13 DEF Inv

LEMMA NextInv == ASSUME Inv, [Next]_vars PROVE Inv'
<1>1. ASSUME NEW p \in Processes, DispatcherStep(p) \/ Crash(p) PROVE Inv'
  BY <1>1, RecoverAbandonedEventsInv, ClaimBatchInv, InspectJobInv,
     RetryRetainedJobInv, ReleaseBehindActiveJobInv, LeaveToWaitingJobInv,
     AddJobInv, RetryRefusedInv, EnqueueFailsInv, InterruptBatchInv,
     ReleaseUnqueuedInv, ReleaseUnqueuedFailsInv, BatchDoneInv, CrashInv
     DEF DispatcherStep
<1>2. ASSUME NEW w \in Workers, DeliveryStep(w) PROVE Inv'
  BY <1>2, ProcessJobInv, DeliverWithoutRedisInv, ReadEventInv, ClaimLeaseInv,
     ClaimMissedInv, PublishInv, MarkPublishedInv, ReleaseDeferredInv,
     RecordFailureInv, DatabaseErrorInv, RenewLeaseInv
     DEF DeliveryStep
<1>3. ASSUME NEW e \in Events, EventStep(e) PROVE Inv'
  BY <1>3, EnqueueInv, RetryOutboxEventInv, DeletePublishedInv, BecomeDueInv,
     LeaseExpiresInv, JobStallsInv, JobRemovedInv
     DEF EventStep
<1>4. CASE UNCHANGED vars
  BY <1>4 DEF vars, Inv, TypeOK, RowInv, WorkerInv, PublishedWasHandled
<1> QED BY <1>1, <1>2, <1>3, <1>4 DEF Next

\* The inductive invariant holds in every reachable state.
THEOREM InvHolds == Spec => []Inv
BY InitInv, NextInv, PTL DEF Spec

\* Every variable keeps its type, and no retry count exceeds MAX_ATTEMPTS.
THEOREM TypeCorrect == Spec => []TypeOK
<1>1. Inv => TypeOK
  BY DEF Inv
<1> QED BY <1>1, InvHolds, PTL

\* markPublished and retention only ever see events whose listeners succeeded.
THEOREM AtLeastOnce == Spec => []PublishedWasHandled
<1>1. Inv => PublishedWasHandled
  BY DEF Inv
<1> QED BY <1>1, InvHolds, PTL

\* deliver() never meets a row whose budget is spent: the branch 'Retry budget
\* exhausted' is only a defence.
THEOREM BudgetNeverOverdrawn == Spec => []BudgetLeft
<1>1. Inv => BudgetLeft
  BY DEF Inv, RowInv, BudgetLeft
<1> QED BY <1>1, InvHolds, PTL

\* A row in PROCESSING is changed by its lease holder or by recovery only.
LEMMA StepFenced ==
    ASSUME Inv, [Next]_vars, NEW e \in Events, row[e].status = "PROCESSING",
           row'[e] # [row[e] EXCEPT !.expired = row'[e].expired]
    PROVE  \/ row[e].expired /\ row'[e].status = "PENDING"
                 /\ row'[e].attempts = row[e].attempts
           \/ \E w \in Workers :
                 /\ delivery[w].pc \in Leased
                 /\ delivery[w].event = e
                 /\ delivery[w].lockedBy = row[e].lockedBy
                 /\ delivery'[w].pc = "idle"
<1> DEFINE Fenced ==
             \/ row[e].expired /\ row'[e].status = "PENDING"
                   /\ row'[e].attempts = row[e].attempts
             \/ \E w \in Workers :
                   /\ delivery[w].pc \in Leased
                   /\ delivery[w].event = e
                   /\ delivery[w].lockedBy = row[e].lockedBy
                   /\ delivery'[w].pc = "idle"
<1>1. row[e] \in OutboxEvent /\ row \in [Events -> OutboxEvent]
  BY DEF Inv, TypeOK
<1>2. row'[e] # row[e]
  <2>1. row[e] = [row[e] EXCEPT !.expired = row[e].expired]
    BY <1>1 DEF OutboxEvent
  <2> QED BY <2>1
<1>3. ASSUME NEW f \in Events, EventStep(f) PROVE Fenced
  <2>1. CASE LeaseExpires(f)
    <3>1. row' = [row EXCEPT ![f].expired = TRUE]
      BY <2>1 DEF LeaseExpires
    <3>2. row'[e] = [row[e] EXCEPT !.expired = TRUE]
      BY <1>1, <1>2, <3>1
    <3>3. row'[e].expired = TRUE
      BY <1>1, <3>2 DEF OutboxEvent
    <3> QED BY <3>2, <3>3
  <2>2. CASE ~LeaseExpires(f)
    BY <1>1, <1>2, <1>3, <2>2
       DEF EventStep, Enqueue, RetryOutboxEvent, DeletePublished, BecomeDue,
           JobStalls, JobRemoved
  <2> QED BY <2>1, <2>2
<1>4. ASSUME NEW p \in Processes, DispatcherStep(p) \/ Crash(p) PROVE Fenced
  <2>1. CASE RecoverAbandonedEvents(p)
    BY <1>1, <1>2, <2>1 DEF RecoverAbandonedEvents, RecoverRows, Abandoned, OutboxEvent
  <2>2. CASE ClaimBatch(p)
    BY <1>2, <2>2 DEF ClaimBatch, OldestCandidates, Candidates
  <2>3. CASE ReleaseUnqueued(p)
    BY <1>2, <2>3 DEF ReleaseUnqueued
  <2>4. ASSUME ReleaseClaim(p, dispatcher[p].event), dispatcher[p].event \in Events
        PROVE  FALSE
    BY <1>1, <1>2, <2>4 DEF ReleaseClaim, Holds, Inv, RowInv
  <2>5. CASE ReleaseBehindActiveJob(p)
    BY <2>4, <2>5 DEF ReleaseBehindActiveJob, Inv
  <2>6. CASE RetryRefused(p) \/ EnqueueFails(p)
    BY <2>4, <2>6 DEF RetryRefused, EnqueueFails, AbandonEnqueue, Inv
  <2>7. UNCHANGED row => Fenced
    BY <1>2
  <2> QED BY <1>4, <2>1, <2>2, <2>3, <2>5, <2>6, <2>7
          DEF DispatcherStep, InspectJob, RetryRetainedJob, LeaveToWaitingJob,
              AddJob, InterruptBatch, ReleaseUnqueuedFails, BatchDone, Crash
<1>5. ASSUME NEW w \in Workers, DeliveryStep(w) PROVE Fenced
  <2>1. ASSUME NEW ok, NEW others, others \in [Workers -> Delivery],
               Return(w, ok, others)
        PROVE  delivery'[w].pc = "idle"
    BY <2>1 DEF Return, IdleDelivery
  <2>2. delivery \in [Workers -> Delivery]
        /\ \A es : Rescheduled(es) \in [Workers -> Delivery]
    BY DEF Inv, TypeOK, Delivery, Rescheduled
  <2>3. delivery[w].pc # "idle" => delivery[w].event \in Events
    BY DEF Inv, WorkerInv
  <2>4. CASE ClaimLease(w)
    BY <1>2, <2>3, <2>4 DEF ClaimLease, ClaimMatches, Inv, WorkerInv, TypeOK
  <2>5. CASE RenewLease(w)
    <3>1. row' = [row EXCEPT ![delivery[w].event].expired = FALSE]
      BY <2>5 DEF RenewLease
    <3>2. row'[e] = [row[e] EXCEPT !.expired = FALSE]
      BY <1>1, <1>2, <3>1
    <3>3. row'[e].expired = FALSE
      BY <1>1, <3>2 DEF OutboxEvent
    <3> QED BY <3>2, <3>3
  <2>6. CASE MarkPublished(w)
    BY <1>1, <1>2, <2>1, <2>2, <2>6 DEF MarkPublished, HoldsLease, Leased, Outcomes
  <2>7. CASE ReleaseDeferred(w)
    BY <1>1, <1>2, <2>1, <2>2, <2>7 DEF ReleaseDeferred, Holds, Leased, Outcomes
  <2>8. CASE RecordFailure(w)
    BY <1>1, <1>2, <2>1, <2>2, <2>8 DEF RecordFailure, HoldsLease, Leased, Outcomes
  <2>9. UNCHANGED row => Fenced
    BY <1>2
  <2> QED BY <1>5, <2>4, <2>5, <2>6, <2>7, <2>8, <2>9
          DEF DeliveryStep, ProcessJob, DeliverWithoutRedis, ReadEvent,
              ClaimMissed, Publish, DatabaseError
<1>6. CASE UNCHANGED vars
  BY <1>2, <1>6 DEF vars
<1> QED BY <1>3, <1>4, <1>5, <1>6 DEF Next

\* Fencing, for any number of processes, workers, faults and delays.
THEOREM Fencing == Spec => FencedOutcome
<1>1. Inv /\ [Next]_vars =>
        [\A e \in Events :
         row[e].status = "PROCESSING" /\ row'[e] # [row[e] EXCEPT !.expired = row'[e].expired]
           => \/ row[e].expired /\ row'[e].status = "PENDING"
                 /\ row'[e].attempts = row[e].attempts
              \/ \E w \in Workers :
                    /\ delivery[w].pc \in Leased
                    /\ delivery[w].event = e
                    /\ delivery[w].lockedBy = row[e].lockedBy
                    /\ delivery'[w].pc = "idle"]_vars
  BY StepFenced
<1> QED BY <1>1, InvHolds, PTL DEF Spec, FencedOutcome

-----------------------------------------------------------------------------
(* Without faults an event is executed by one delivery at a time *)

\* What no crash, failed command or manual retry disturbs: every delivery that
\* claimed a row still has its lease on it, unexpired, it is the only one, and
\* an event whose listeners succeeded is recorded as PUBLISHED or about to be.
OneExecution ==
    /\ \A w \in Workers : delivery[w].pc \in Leased =>
          HoldsLease(w) /\ ~row[delivery[w].event].expired
    /\ \A v, w \in Workers :
          /\ delivery[v].pc \in Leased /\ delivery[w].pc \in Leased
          /\ delivery[v].event = delivery[w].event
          => v = w
    /\ \A e \in handled :
          \/ row[e].status \in {"PUBLISHED", "DELETED"}
          \/ \E w \in Workers : delivery[w].pc = "ack" /\ delivery[w].event = e

\* Faults are only counted up, so this is an invariant of every behaviour.
FaultFreeInv == faults = 0 => OneExecution

\* A row under execution stays as it is, and a published one stays published.
Undisturbed(e) ==
    \/ row'[e] = row[e]
    \/ /\ row[e].status # "PROCESSING" \/ row[e].expired
       /\ row[e].status \in {"PUBLISHED", "DELETED"}
            => row'[e].status \in {"PUBLISHED", "DELETED"}

\* No lease is taken and no outcome is given up.
SameExecution(w) ==
    LET d == delivery[w]
        n == delivery'[w]
    IN  \/ d.pc \notin Leased /\ n.pc \notin Leased
        \/ n = d

LEMMA UndisturbedExecution ==
    ASSUME Inv, OneExecution, handled' = handled,
           \A e \in Events : Undisturbed(e),
           \A w \in Workers : SameExecution(w)
    PROVE  OneExecution'
<1>1. ASSUME NEW w \in Workers, delivery'[w].pc \in Leased
      PROVE  /\ delivery[w].pc \in Leased /\ delivery'[w] = delivery[w]
             /\ delivery[w].event \in Events
             /\ row'[delivery[w].event] = row[delivery[w].event]
  <2>1. delivery[w].pc \in Leased /\ delivery'[w] = delivery[w]
    BY <1>1 DEF SameExecution
  <2>2. delivery[w].event \in Events
    BY <2>1 DEF Inv, WorkerInv, Leased, Outcomes
  <2>3. /\ row[delivery[w].event].status = "PROCESSING"
        /\ ~row[delivery[w].event].expired
    BY <2>1 DEF OneExecution, HoldsLease
  <2> QED BY <2>1, <2>2, <2>3 DEF Undisturbed
<1>2. \A w \in Workers : delivery'[w].pc \in Leased =>
         HoldsLease(w)' /\ ~row'[delivery'[w].event].expired
  BY <1>1 DEF OneExecution, HoldsLease
<1>3. \A v, w \in Workers :
         /\ delivery'[v].pc \in Leased /\ delivery'[w].pc \in Leased
         /\ delivery'[v].event = delivery'[w].event
         => v = w
  BY <1>1 DEF OneExecution
<1>4. ASSUME NEW e \in handled'
      PROVE  \/ row'[e].status \in {"PUBLISHED", "DELETED"}
             \/ \E w \in Workers : delivery'[w].pc = "ack" /\ delivery'[w].event = e
  <2>1. CASE row[e].status \in {"PUBLISHED", "DELETED"}
    <3>1. e \in Events
      BY <1>4 DEF Inv, TypeOK
    <3> QED BY <2>1, <3>1 DEF Undisturbed
  <2>2. ASSUME NEW w \in Workers, delivery[w].pc = "ack", delivery[w].event = e
        PROVE  delivery'[w] = delivery[w]
    BY <2>2 DEF SameExecution, Leased, Outcomes
  <2> QED BY <1>4, <2>1, <2>2 DEF OneExecution
<1> QED BY <1>2, <1>3, <1>4 DEF OneExecution

\* The row of a leased delivery when its step ends the execution.
LEMMA EndOfExecution ==
    ASSUME Inv, OneExecution, NEW w \in Workers, handled' = handled,
           delivery[w].pc \in Leased, delivery'[w].pc \notin Leased,
           \A v \in Workers \ {w} : SameExecution(v),
           \A e \in Events \ {delivery[w].event} : row'[e] = row[e],
           \/ row'[delivery[w].event].status = "PUBLISHED"
           \/ delivery[w].pc # "ack"
    PROVE  OneExecution'
<1>1. delivery[w].event \in Events /\ row[delivery[w].event].status = "PROCESSING"
  BY DEF Inv, WorkerInv, Leased, Outcomes, OneExecution, HoldsLease
<1>2. ASSUME NEW v \in Workers, delivery'[v].pc \in Leased
      PROVE  /\ v # w /\ delivery[v].pc \in Leased /\ delivery'[v] = delivery[v]
             /\ row'[delivery[v].event] = row[delivery[v].event]
  <2>1. v # w /\ delivery[v].pc \in Leased /\ delivery'[v] = delivery[v]
    BY <1>2 DEF SameExecution
  <2>2. delivery[v].event \in Events \ {delivery[w].event}
    BY <2>1 DEF Inv, WorkerInv, Leased, Outcomes, OneExecution
  <2> QED BY <2>1, <2>2
<1>3. \A v \in Workers : delivery'[v].pc \in Leased =>
         HoldsLease(v)' /\ ~row'[delivery'[v].event].expired
  BY <1>2 DEF OneExecution, HoldsLease
<1>4. \A u, v \in Workers :
         /\ delivery'[u].pc \in Leased /\ delivery'[v].pc \in Leased
         /\ delivery'[u].event = delivery'[v].event
         => u = v
  BY <1>2 DEF OneExecution
<1>5. ASSUME NEW e \in handled'
      PROVE  \/ row'[e].status \in {"PUBLISHED", "DELETED"}
             \/ \E v \in Workers : delivery'[v].pc = "ack" /\ delivery'[v].event = e
  <2>1. e \in Events
    BY <1>5 DEF Inv, TypeOK
  <2>2. CASE row[e].status \in {"PUBLISHED", "DELETED"}
    BY <1>1, <2>1, <2>2
  <2>3. ASSUME NEW v \in Workers, delivery[v].pc = "ack", delivery[v].event = e
        PROVE  \/ row'[e].status \in {"PUBLISHED", "DELETED"}
               \/ delivery'[v] = delivery[v]
    <3>1. CASE v = w
      BY <2>3, <3>1
    <3>2. CASE v # w
      BY <2>3, <3>2 DEF SameExecution, Leased, Outcomes
    <3> QED BY <3>1, <3>2
  <2> QED BY <1>5, <2>2, <2>3 DEF OneExecution
<1> QED BY <1>3, <1>4, <1>5 DEF OneExecution

LEMMA DispatcherKeepsExecution ==
    ASSUME Inv, OneExecution, NEW p \in Processes, DispatcherStep(p) \/ Crash(p),
           faults = 0, faults' = 0
    PROVE  OneExecution'
<1>1. row \in [Events -> OutboxEvent] /\ delivery \in [Workers -> Delivery]
  BY DEF Inv, TypeOK
<1>2. ~Fault
  BY DEF Fault
<1>3. \A es : \A w \in Workers : delivery' = Rescheduled(es) => SameExecution(w)
  BY <1>1 DEF Rescheduled, SameExecution, Delivery, Leased, Outcomes
<1>4. delivery' = delivery => \A w \in Workers : SameExecution(w)
  BY DEF SameExecution
<1>5. CASE RecoverAbandonedEvents(p)
  <2>1. \A e \in Events : Undisturbed(e)
    BY <1>1, <1>5 DEF RecoverAbandonedEvents, RecoverRows, Abandoned, Undisturbed, Locked
  <2> QED BY <1>4, <1>5, <2>1, UndisturbedExecution DEF RecoverAbandonedEvents, RecoverRows
<1>6. CASE ClaimBatch(p)
  <2>1. \A e \in Events : Undisturbed(e)
    BY <1>1, <1>6 DEF ClaimBatch, OldestCandidates, Candidates, Undisturbed
  <2> QED BY <1>4, <1>6, <2>1, UndisturbedExecution DEF ClaimBatch
<1>7. CASE ReleaseUnqueued(p)
  <2>1. \A e \in Events : Undisturbed(e)
    BY <1>1, <1>7 DEF ReleaseUnqueued, Undisturbed
  <2> QED BY <1>3, <1>7, <2>1, UndisturbedExecution DEF ReleaseUnqueued
<1>8. ASSUME ReleaseClaim(p, dispatcher[p].event), dispatcher[p].event \in Events,
             handled' = handled
      PROVE  OneExecution'
  <2>1. \A e \in Events : Undisturbed(e)
    <3>1. row[dispatcher[p].event].status = "PROCESSING"
            => ~Holds(dispatcher[p].event, dispatcher[p].lockedBy)
      BY <1>8 DEF Inv, RowInv, Holds
    <3>2. Holds(dispatcher[p].event, dispatcher[p].lockedBy)
            => row[dispatcher[p].event].status \in Locked
      BY DEF Holds
    <3> QED BY <1>1, <1>8, <3>1, <3>2 DEF ReleaseClaim, Undisturbed, Locked
  <2> QED BY <1>3, <1>4, <1>8, <2>1, UndisturbedExecution DEF ReleaseClaim
<1>9. CASE ReleaseBehindActiveJob(p) \/ RetryRefused(p)
  BY <1>8, <1>9 DEF ReleaseBehindActiveJob, RetryRefused, AbandonEnqueue, Inv
<1>10. CASE UNCHANGED <<row, delivery, handled>>
  BY <1>4, <1>10, UndisturbedExecution DEF Undisturbed
<1> QED BY <1>2, <1>5, <1>6, <1>7, <1>9, <1>10
        DEF DispatcherStep, InspectJob, RetryRetainedJob, LeaveToWaitingJob, AddJob,
            EnqueueFails, InterruptBatch, ReleaseUnqueuedFails, BatchDone, Crash

LEMMA EventKeepsExecution ==
    ASSUME Inv, OneExecution, NEW e \in Events, EventStep(e), faults = 0, faults' = 0
    PROVE  OneExecution'
<1>1. row \in [Events -> OutboxEvent]
  BY DEF Inv, TypeOK
<1>2. ~Fault
  BY DEF Fault
<1>3. CASE LeaseExpires(e)
  <2>1. \A w \in Workers : delivery[w].pc \in Leased => delivery[w].event # e
    BY <1>2, <1>3 DEF LeaseExpires, OneExecution
  <2>2. row' = [row EXCEPT ![e].expired = TRUE] /\ UNCHANGED <<delivery, handled>>
    BY <1>3 DEF LeaseExpires
  <2>3. /\ \A f \in Events : row'[f].status = row[f].status
        /\ \A f \in Events \ {e} : row'[f] = row[f]
    BY <1>1, <2>2 DEF OutboxEvent
  <2>4. \A w \in Workers : delivery[w].pc \in Leased =>
           row'[delivery[w].event] = row[delivery[w].event]
    BY <2>1, <2>3 DEF Inv, WorkerInv, Leased, Outcomes
  <2>5. handled \subseteq Events
    BY DEF Inv, TypeOK
  <2>6. ASSUME NEW w \in Workers, delivery'[w].pc \in Leased
        PROVE  HoldsLease(w)' /\ ~row'[delivery'[w].event].expired
    <3>1. /\ delivery'[w] = delivery[w] /\ row'[delivery[w].event] = row[delivery[w].event]
          /\ HoldsLease(w) /\ ~row[delivery[w].event].expired
      BY <2>2, <2>4, <2>6 DEF OneExecution
    <3> QED BY <3>1 DEF HoldsLease
  <2>7. \A f \in handled' :
           \/ row'[f].status \in {"PUBLISHED", "DELETED"}
           \/ \E w \in Workers : delivery'[w].pc = "ack" /\ delivery'[w].event = f
    BY <2>2, <2>3, <2>5 DEF OneExecution
  <2> QED BY <2>2, <2>6, <2>7 DEF OneExecution
<1>4. CASE UNCHANGED <<row, delivery, handled>>
  BY <1>4, UndisturbedExecution DEF Undisturbed, SameExecution
<1>5. CASE Enqueue(e) \/ DeletePublished(e) \/ BecomeDue(e)
  <2>1. \A f \in Events : Undisturbed(f)
    <3>1. CASE Enqueue(e)
      BY <1>1, <3>1 DEF Enqueue, Undisturbed
    <3>2. CASE DeletePublished(e)
      <4>1. row'[e].status = "DELETED" /\ row[e].status = "PUBLISHED"
        BY <1>1, <3>2 DEF DeletePublished, OutboxEvent
      <4>2. \A f \in Events \ {e} : row'[f] = row[f]
        BY <1>1, <3>2 DEF DeletePublished
      <4> QED BY <4>1, <4>2 DEF Undisturbed
    <3>3. CASE BecomeDue(e)
      BY <1>1, <3>3 DEF BecomeDue, Undisturbed
    <3> QED BY <1>5, <3>1, <3>2, <3>3
  <2>2. UNCHANGED <<delivery, handled>>
    BY <1>5 DEF Enqueue, DeletePublished, BecomeDue
  <2> QED BY <2>1, <2>2, UndisturbedExecution DEF SameExecution
<1> QED BY <1>2, <1>3, <1>4, <1>5
        DEF EventStep, RetryOutboxEvent, JobStalls, JobRemoved

LEMMA DeliveryKeepsExecution ==
    ASSUME Inv, OneExecution, NEW w \in Workers, DeliveryStep(w),
           faults = 0, faults' = 0
    PROVE  OneExecution'
<1> DEFINE e == delivery[w].event
<1>1. /\ row \in [Events -> OutboxEvent] /\ delivery \in [Workers -> Delivery]
      /\ handled \subseteq Events
      /\ delivery[w].pc # "idle" => e \in Events
      /\ delivery[w].pc = "read" => delivery[w].status \in {"ENQUEUED", "PENDING"}
  BY DEF Inv, TypeOK, WorkerInv
<1>2. ~Fault
  BY DEF Fault
<1>3. \A es : \A v \in Workers \ {w} :
         /\ delivery' = [Rescheduled(es) EXCEPT ![w] = IdleDelivery] => SameExecution(v)
         /\ delivery' = [delivery EXCEPT ![w] = IdleDelivery] => SameExecution(v)
  BY <1>1 DEF Rescheduled, SameExecution, Delivery, Leased, Outcomes
<1>4. \A es : delivery' \in {[Rescheduled(es) EXCEPT ![w] = IdleDelivery],
                             [delivery EXCEPT ![w] = IdleDelivery]}
         => delivery'[w].pc \notin Leased
  BY <1>1 DEF Rescheduled, IdleDelivery, Leased, Outcomes
<1>5. CASE delivery[w].pc \notin Leased /\ UNCHANGED <<row, handled>>
  <2>1. \A v \in Workers : SameExecution(v)
    <3>1. ASSUME NEW f, NEW b, Begin(w, f, b), delivery[w].pc = "idle"
          PROVE  \A v \in Workers : SameExecution(v)
      BY <1>1, <3>1 DEF Begin, SameExecution, Leased, Outcomes
    <3>2. ASSUME NEW f \in Events, ProcessJob(w, f)
          PROVE  \A v \in Workers : SameExecution(v)
      BY <3>1, <3>2 DEF ProcessJob
    <3>3. ASSUME NEW f \in Events, DeliverWithoutRedis(w, f)
          PROVE  \A v \in Workers : SameExecution(v)
      BY <3>1, <3>3 DEF DeliverWithoutRedis
    <3>4. CASE Return(w, TRUE, delivery)
      BY <1>3, <1>4, <1>5, <3>4 DEF Return, SameExecution
    <3>5. CASE ReadEvent(w)
      <4>1. CASE row[e].status \in {"ENQUEUED", "PENDING"}
        <5>1. \A v \in Workers \ {w} : delivery'[v] = delivery[v]
          BY <1>1, <3>5, <4>1 DEF ReadEvent
        <5>2. delivery'[w].pc = "read"
          BY <1>1, <3>5, <4>1 DEF ReadEvent, Delivery
        <5> QED BY <1>5, <5>1, <5>2 DEF SameExecution, Leased, Outcomes
      <4>2. CASE row[e].status \notin {"ENQUEUED", "PENDING"}
        BY <3>4, <3>5, <4>2 DEF ReadEvent
      <4> QED BY <4>1, <4>2
    <3>6. CASE ClaimMissed(w)
      BY <3>4, <3>6 DEF ClaimMissed
    <3>7. ~ClaimLease(w)
      <4>1. SUFFICES ASSUME ClaimLease(w) PROVE FALSE
        OBVIOUS
      <4>2. e \in Events /\ row[e].status \in {"ENQUEUED", "PENDING"}
        BY <1>1, <4>1 DEF ClaimLease, ClaimMatches
      <4>3. row'[e].status = "PROCESSING"
        BY <1>1, <4>1, <4>2 DEF ClaimLease, OutboxEvent
      <4> QED BY <1>5, <4>2, <4>3
    <3> QED BY <1>2, <1>5, <3>2, <3>3, <3>5, <3>6, <3>7
            DEF DeliveryStep, Publish, MarkPublished, ReleaseDeferred, RecordFailure,
                DatabaseError, RenewLease, Leased, Outcomes
  <2> QED BY <1>5, <2>1, UndisturbedExecution DEF Undisturbed
<1>6. CASE ClaimLease(w)
  <2>1. e \in Events /\ row[e].status \in {"ENQUEUED", "PENDING"}
    BY <1>1, <1>6 DEF ClaimLease, ClaimMatches
  <2>2. /\ row'[e].status = "PROCESSING" /\ row'[e].lockedBy = randomUUID
        /\ row'[e].expired = FALSE
        /\ \A f \in Events \ {e} : row'[f] = row[f]
    BY <1>1, <1>6, <2>1 DEF ClaimLease, OutboxEvent
  <2>3. /\ delivery'[w].lockedBy = randomUUID /\ delivery'[w].event = e
        /\ delivery'[w].pc \in {"publish", "exhausted"}
        /\ \A v \in Workers \ {w} : delivery'[v] = delivery[v]
    BY <1>1, <1>6 DEF ClaimLease, Delivery
  <2>4. \A v \in Workers : delivery[v].pc \in Leased =>
           v # w /\ delivery[v].event \in Events \ {e}
    BY <1>6, <2>1 DEF ClaimLease, ClaimMatches, Leased, Outcomes, OneExecution,
       HoldsLease, Inv, WorkerInv
  <2>5. ASSUME NEW v \in Workers, delivery'[v].pc \in Leased
        PROVE  HoldsLease(v)' /\ ~row'[delivery'[v].event].expired
    <3>1. CASE v = w
      BY <2>2, <2>3, <3>1 DEF HoldsLease
    <3>2. CASE v # w
      <4>1. /\ delivery'[v] = delivery[v] /\ row'[delivery[v].event] = row[delivery[v].event]
            /\ HoldsLease(v) /\ ~row[delivery[v].event].expired
        BY <2>2, <2>3, <2>4, <2>5, <3>2 DEF OneExecution
      <4> QED BY <4>1 DEF HoldsLease
    <3> QED BY <3>1, <3>2
  <2>6. \A u, v \in Workers :
           /\ delivery'[u].pc \in Leased /\ delivery'[v].pc \in Leased
           /\ delivery'[u].event = delivery'[v].event
           => u = v
    BY <2>3, <2>4 DEF OneExecution
  <2>7. ASSUME NEW f \in handled'
        PROVE  \/ row'[f].status \in {"PUBLISHED", "DELETED"}
               \/ \E v \in Workers : delivery'[v].pc = "ack" /\ delivery'[v].event = f
    <3>1. f \in handled /\ f \in Events
      BY <1>1, <1>6, <2>7 DEF ClaimLease
    <3>2. CASE row[f].status \in {"PUBLISHED", "DELETED"}
      BY <2>1, <2>2, <3>1, <3>2
    <3>3. ASSUME NEW v \in Workers, delivery[v].pc = "ack", delivery[v].event = f
          PROVE  delivery'[v] = delivery[v]
      BY <2>3, <2>4, <3>3 DEF Leased, Outcomes
    <3> QED BY <3>1, <3>2, <3>3 DEF OneExecution
  <2> QED BY <2>5, <2>6, <2>7 DEF OneExecution
<1>7. ASSUME NEW o \in Outcomes, Publish(w, o) PROVE OneExecution'
  <2>1. /\ delivery[w].pc = "publish" /\ UNCHANGED row
        /\ delivery'[w].pc = o /\ delivery'[w].event = e
        /\ delivery'[w].lockedBy = delivery[w].lockedBy
        /\ \A v \in Workers \ {w} : delivery'[v] = delivery[v]
    BY <1>1, <1>7 DEF Publish, Delivery
  <2>2. handled' = IF o = "ack" THEN handled \cup {e} ELSE handled
    BY <1>7 DEF Publish
  <2>3. \A v \in Workers :
           /\ delivery'[v].event = delivery[v].event
           /\ delivery'[v].lockedBy = delivery[v].lockedBy
           /\ delivery'[v].pc \in Leased <=> delivery[v].pc \in Leased
           /\ delivery[v].pc = "ack" => delivery'[v].pc = "ack"
    BY <1>7, <2>1 DEF Leased
  <2>4. \A v \in Workers : delivery'[v].pc \in Leased =>
           HoldsLease(v)' /\ ~row'[delivery'[v].event].expired
    BY <2>1, <2>3 DEF OneExecution, HoldsLease
  <2>5. \A u, v \in Workers :
           /\ delivery'[u].pc \in Leased /\ delivery'[v].pc \in Leased
           /\ delivery'[u].event = delivery'[v].event
           => u = v
    BY <2>3 DEF OneExecution
  <2>6. \A f \in handled' :
           \/ row'[f].status \in {"PUBLISHED", "DELETED"}
           \/ \E v \in Workers : delivery'[v].pc = "ack" /\ delivery'[v].event = f
    BY <2>1, <2>2, <2>3 DEF OneExecution
  <2> QED BY <2>4, <2>5, <2>6 DEF OneExecution
<1>8. CASE RenewLease(w)
  BY <1>8, UndisturbedExecution DEF RenewLease, OneExecution, HoldsLease
<1>9. CASE MarkPublished(w)
  <2>1. /\ delivery[w].pc = "ack" /\ HoldsLease(w) /\ e \in Events
        /\ delivery[w].pc \in Leased
    BY <1>1, <1>9 DEF MarkPublished, OneExecution, Leased, Outcomes
  <2>2. /\ row'[e].status = "PUBLISHED"
        /\ \A f \in Events \ {e} : row'[f] = row[f]
    BY <1>1, <1>9, <2>1 DEF MarkPublished, OutboxEvent
  <2>3. handled' = handled /\ delivery' = [delivery EXCEPT ![w] = IdleDelivery]
    BY <1>9 DEF MarkPublished, Return
  <2> QED BY <1>3, <1>4, <2>1, <2>2, <2>3, EndOfExecution
<1>10. CASE ReleaseDeferred(w)
  <2>1. /\ delivery[w].pc # "ack" /\ delivery[w].pc \in Leased
        /\ \A f \in Events \ {e} : row'[f] = row[f]
    BY <1>1, <1>10 DEF ReleaseDeferred, Leased, Outcomes
  <2>2. /\ handled' = handled
        /\ delivery' \in {[Rescheduled({e}) EXCEPT ![w] = IdleDelivery],
                          [delivery EXCEPT ![w] = IdleDelivery]}
    BY <1>10 DEF ReleaseDeferred, Return
  <2>3. (\A v \in Workers \ {w} : SameExecution(v)) /\ delivery'[w].pc \notin Leased
    BY <1>3, <1>4, <2>2
  <2> QED BY <2>1, <2>2, <2>3, EndOfExecution
<1>11. CASE RecordFailure(w)
  <2>1. /\ delivery[w].pc # "ack" /\ delivery[w].pc \in Leased
        /\ \A f \in Events \ {e} : row'[f] = row[f]
    BY <1>1, <1>11 DEF RecordFailure, Leased, Outcomes
  <2>2. /\ handled' = handled
        /\ delivery' \in {[Rescheduled({e}) EXCEPT ![w] = IdleDelivery],
                          [delivery EXCEPT ![w] = IdleDelivery]}
    BY <1>11 DEF RecordFailure, Return
  <2>3. (\A v \in Workers \ {w} : SameExecution(v)) /\ delivery'[w].pc \notin Leased
    BY <1>3, <1>4, <2>2
  <2> QED BY <2>1, <2>2, <2>3, EndOfExecution
<1>12. DatabaseError(w) => Fault
  BY DEF DatabaseError
<1>13. CASE \E f \in Events : ProcessJob(w, f) \/ DeliverWithoutRedis(w, f)
  BY <1>5, <1>13 DEF ProcessJob, DeliverWithoutRedis, Leased, Outcomes
<1>14. CASE ReadEvent(w) \/ ClaimMissed(w)
  BY <1>5, <1>14 DEF ReadEvent, ClaimMissed, Leased, Outcomes
<1> QED BY <1>2, <1>6, <1>7, <1>8, <1>9, <1>10, <1>11, <1>12, <1>13, <1>14
        DEF DeliveryStep

LEMMA StepKeepsExecution ==
    ASSUME Inv, FaultFreeInv, [Next]_vars
    PROVE  FaultFreeInv'
<1>1. SUFFICES ASSUME faults' = 0 PROVE OneExecution'
  BY DEF FaultFreeInv
<1>2. faults \in Nat /\ MaxFaults \in Nat
  BY OutboxConstants DEF Inv, TypeOK
<1>3. Fault => faults' # 0
  BY <1>2 DEF Fault
<1>4. UNCHANGED faults \/ Fault
  <2>1. ASSUME NEW p \in Processes, DispatcherStep(p) \/ Crash(p)
        PROVE  UNCHANGED faults \/ Fault
    BY <2>1 DEF DispatcherStep, Crash, RecoverAbandonedEvents, RecoverRows, ClaimBatch,
       InspectJob, RetryRetainedJob, ReleaseBehindActiveJob, LeaveToWaitingJob, AddJob,
       RetryRefused, EnqueueFails, InterruptBatch, ReleaseUnqueued,
       ReleaseUnqueuedFails, BatchDone
  <2>2. ASSUME NEW w \in Workers, DeliveryStep(w) PROVE UNCHANGED faults \/ Fault
    BY <2>2 DEF DeliveryStep, ProcessJob, DeliverWithoutRedis, ReadEvent, ClaimLease,
       ClaimMissed, Publish, MarkPublished, ReleaseDeferred, RecordFailure,
       DatabaseError, RenewLease
  <2>3. ASSUME NEW e \in Events, EventStep(e) PROVE UNCHANGED faults \/ Fault
    BY <2>3 DEF EventStep, Enqueue, RetryOutboxEvent, DeletePublished, BecomeDue,
       LeaseExpires, JobStalls, JobRemoved
  <2> QED BY <2>1, <2>2, <2>3 DEF Next, vars
<1>5. faults = 0 /\ OneExecution
  BY <1>1, <1>3, <1>4 DEF FaultFreeInv
<1>6. CASE UNCHANGED vars
  BY <1>5, <1>6 DEF vars, OneExecution, HoldsLease
<1> QED BY <1>1, <1>5, <1>6, DispatcherKeepsExecution, DeliveryKeepsExecution,
           EventKeepsExecution DEF Next

THEOREM FaultFreeHolds == Spec => []FaultFreeInv
<1>1. Init => FaultFreeInv
  BY DEF Init, FaultFreeInv, OneExecution, IdleDelivery, Leased, Outcomes
<1> QED BY <1>1, InvHolds, StepKeepsExecution, PTL DEF Spec

\* Slow queues, expired claims, reused job ids and any number of processes and
\* workers never make an event's listeners succeed twice: only a fault can.
THEOREM OnceWithoutFault == Spec => NoDuplicateWithoutFault
<1>1. Inv /\ FaultFreeInv =>
        [\A w \in Workers :
           faults = 0 /\ delivery[w].pc = "publish" /\ delivery'[w].pc = "ack"
             => delivery[w].event \notin handled]_vars
  <2>1. SUFFICES ASSUME Inv, FaultFreeInv, NEW w \in Workers, faults = 0,
                        delivery[w].pc = "publish"
                 PROVE  delivery[w].event \notin handled
    OBVIOUS
  <2>2. OneExecution /\ HoldsLease(w)
    BY <2>1 DEF FaultFreeInv, OneExecution, Leased
  <2> QED BY <2>1, <2>2 DEF OneExecution, HoldsLease, Leased, Outcomes
<1> QED BY <1>1, InvHolds, FaultFreeHolds, PTL DEF NoDuplicateWithoutFault

-----------------------------------------------------------------------------
(* Refinement *)

\* What a step does to a row, as the contract sees it.
Abstracts(e) ==
    LET r == row[e]
        n == row'[e]
    IN  \/ /\ ContractState(n.status) = ContractState(r.status)
           /\ n.attempts = r.attempts
        \/ /\ r.status = "NONE" /\ n.status = "PENDING"
           /\ n.attempts = r.attempts
        \/ /\ r.status = "PROCESSING" /\ n.status = "PUBLISHED"
           /\ e \in handled /\ n.attempts = r.attempts
        \/ /\ r.status = "PROCESSING" /\ n.attempts = r.attempts + 1
           /\ \/ n.status = "DEAD_LETTER"
              \/ n.status = "PENDING" /\ n.attempts < MAX_ATTEMPTS
        \/ /\ r.status = "DEAD_LETTER" /\ n.status = "PENDING"
           /\ n.attempts = 0
        \/ /\ r.status = "PUBLISHED" /\ n.status = "DELETED"
           /\ n.attempts = r.attempts

LEMMA ContractStates ==
    /\ ContractState("NONE") = "none"
    /\ \A x \in Live : ContractState(x) = "accepted"
    /\ ContractState("PUBLISHED") = "published"
    /\ ContractState("DEAD_LETTER") = "dead"
    /\ ContractState("DELETED") = "purged"
BY DEF ContractState, Live

\* A step that changes at most the row of e is a step of the contract.
LEMMA RowStepRefines ==
    ASSUME Inv, handled' = handled, NEW e \in Events, Abstracts(e),
           \A f \in Events \ {e} :
              /\ ContractState(row'[f].status) = ContractState(row[f].status)
              /\ row'[f].attempts = row[f].attempts
    PROVE  [Contract!Next]_(Contract!vars)
<1> DEFINE st == [f \in Events |-> ContractState(row[f].status)]
           at == [f \in Events |-> row[f].attempts]
<1>1. /\ st' = [st EXCEPT ![e] = ContractState(row'[e].status)]
      /\ at' = [at EXCEPT ![e] = row'[e].attempts]
  OBVIOUS
<1>2. st[e] = ContractState(row[e].status) /\ at[e] = row[e].attempts
  OBVIOUS
<1>3. row'[e].attempts = row[e].attempts => at' = at
  OBVIOUS
<1>4. ContractState(row'[e].status) = ContractState(row[e].status) => st' = st
  OBVIOUS
<1> HIDE DEF st, at
<1>5. CASE /\ ContractState(row'[e].status) = ContractState(row[e].status)
           /\ row'[e].attempts = row[e].attempts
  BY <1>3, <1>4, <1>5 DEF Contract!vars, st, at
<1>6. CASE /\ row[e].status = "NONE" /\ row'[e].status = "PENDING"
           /\ row'[e].attempts = row[e].attempts
  <2>1. st[e] = "none" /\ st' = [st EXCEPT ![e] = "accepted"] /\ at' = at
    BY <1>1, <1>2, <1>3, <1>6, ContractStates DEF Live
  <2>2. Contract!Accept(e)
    BY <2>1 DEF Contract!Accept, st, at
  <2> QED BY <2>2 DEF Contract!Next
<1>7. CASE /\ row[e].status = "PROCESSING" /\ row'[e].status = "PUBLISHED"
           /\ e \in handled /\ row'[e].attempts = row[e].attempts
  <2>1. st[e] = "accepted" /\ st' = [st EXCEPT ![e] = "published"] /\ at' = at
    BY <1>1, <1>2, <1>3, <1>7, ContractStates DEF Live
  <2>2. Contract!Publish(e)
    BY <1>7, <2>1 DEF Contract!Publish, st, at
  <2> QED BY <2>2 DEF Contract!Next
<1>8. CASE /\ row[e].status = "PROCESSING"
           /\ row'[e].attempts = row[e].attempts + 1
           /\ \/ row'[e].status = "DEAD_LETTER"
              \/ row'[e].status = "PENDING" /\ row'[e].attempts < MAX_ATTEMPTS
  <2>1. /\ st[e] = "accepted" /\ at' = [at EXCEPT ![e] = @ + 1]
        /\ \/ st' = [st EXCEPT ![e] = "dead"]
           \/ at[e] + 1 < MAX_ATTEMPTS /\ st' = st
    <3>1. CASE row'[e].status = "DEAD_LETTER"
      BY <1>1, <1>2, <1>8, <3>1, ContractStates DEF Live
    <3>2. CASE row'[e].status = "PENDING" /\ row'[e].attempts < MAX_ATTEMPTS
      BY <1>1, <1>2, <1>4, <1>8, <3>2, ContractStates DEF Live
    <3> QED BY <1>8, <3>1, <3>2
  <2>2. Contract!Fail(e)
    BY <2>1 DEF Contract!Fail, st, at
  <2> QED BY <2>2 DEF Contract!Next
<1>9. CASE /\ row[e].status = "DEAD_LETTER" /\ row'[e].status = "PENDING"
           /\ row'[e].attempts = 0
  <2>1. /\ st[e] = "dead" /\ st' = [st EXCEPT ![e] = "accepted"]
        /\ at' = [at EXCEPT ![e] = 0]
    BY <1>1, <1>2, <1>9, ContractStates DEF Live
  <2>2. Contract!Reopen(e)
    BY <2>1 DEF Contract!Reopen, st, at
  <2> QED BY <2>2 DEF Contract!Next
<1>10. CASE /\ row[e].status = "PUBLISHED" /\ row'[e].status = "DELETED"
            /\ row'[e].attempts = row[e].attempts
  <2>1. st[e] = "published" /\ st' = [st EXCEPT ![e] = "purged"] /\ at' = at
    BY <1>1, <1>2, <1>3, <1>10, ContractStates
  <2>2. Contract!Purge(e)
    BY <2>1 DEF Contract!Purge, st, at
  <2> QED BY <2>2 DEF Contract!Next
<1> QED BY <1>5, <1>6, <1>7, <1>8, <1>9, <1>10 DEF Abstracts

\* Claims, releases, recoveries and clocks: nothing the contract can see.
LEMMA InvisibleRefines ==
    ASSUME handled' = handled,
           \A f \in Events :
              /\ ContractState(row'[f].status) = ContractState(row[f].status)
              /\ row'[f].attempts = row[f].attempts
    PROVE  [Contract!Next]_(Contract!vars)
BY DEF Contract!vars

LEMMA DispatcherRefines ==
    ASSUME Inv, NEW p \in Processes, DispatcherStep(p) \/ Crash(p)
    PROVE  [Contract!Next]_(Contract!vars)
<1>1. row \in [Events -> OutboxEvent]
  BY DEF Inv, TypeOK
<1>2. \A f \in Events : \/ row'[f] = row[f]
                        \/ /\ row[f].status \in Live /\ row'[f].status \in Live
                           /\ row'[f].attempts = row[f].attempts
  <2>1. CASE RecoverAbandonedEvents(p)
    BY <1>1, <2>1 DEF RecoverAbandonedEvents, RecoverRows, Abandoned, OutboxEvent,
       Locked, Live
  <2>2. CASE ClaimBatch(p)
    BY <1>1, <2>2 DEF ClaimBatch, OldestCandidates, Candidates, OutboxEvent, Live
  <2>3. CASE ReleaseUnqueued(p)
    BY <1>1, <2>3, ReleasedType DEF ReleaseUnqueued, Live
  <2>4. ASSUME ReleaseClaim(p, dispatcher[p].event), dispatcher[p].event \in Events,
               NEW f \in Events
        PROVE  \/ row'[f] = row[f]
               \/ /\ row[f].status \in Live /\ row'[f].status \in Live
                  /\ row'[f].attempts = row[f].attempts
    BY <1>1, <2>4, ReleasedType DEF ReleaseClaim, Holds, Locked, Live
  <2>5. CASE ReleaseBehindActiveJob(p)
    BY <2>4, <2>5 DEF ReleaseBehindActiveJob, Inv
  <2>6. CASE RetryRefused(p) \/ EnqueueFails(p)
    BY <2>4, <2>6 DEF RetryRefused, EnqueueFails, AbandonEnqueue, Inv
  <2> QED BY <1>1, <2>1, <2>2, <2>3, <2>5, <2>6
          DEF DispatcherStep, InspectJob, RetryRetainedJob, LeaveToWaitingJob,
              AddJob, InterruptBatch, ReleaseUnqueuedFails, BatchDone, Crash
<1>3. handled' = handled
  BY DEF DispatcherStep, InspectJob, RetryRetainedJob, LeaveToWaitingJob, AddJob,
     InterruptBatch, ReleaseUnqueuedFails, BatchDone, Crash, ReleaseUnqueued,
     RecoverAbandonedEvents, RecoverRows, ClaimBatch, ReleaseBehindActiveJob,
     RetryRefused, EnqueueFails, AbandonEnqueue
<1> QED BY <1>2, <1>3, InvisibleRefines, ContractStates

LEMMA EventRefines ==
    ASSUME Inv, NEW e \in Events, EventStep(e)
    PROVE  [Contract!Next]_(Contract!vars)
<1>1. row \in [Events -> OutboxEvent]
  BY DEF Inv, TypeOK
<1>2. handled' = handled /\ \A f \in Events \ {e} : row'[f] = row[f]
  BY <1>1 DEF EventStep, Enqueue, RetryOutboxEvent, DeletePublished, BecomeDue,
     LeaseExpires, JobStalls, JobRemoved
<1>3. Abstracts(e)
  <2>1. CASE Enqueue(e)
    BY <1>1, <2>1 DEF Enqueue, Abstracts, OutboxEvent
  <2>2. CASE RetryOutboxEvent(e)
    BY <1>1, <2>2 DEF RetryOutboxEvent, Abstracts, OutboxEvent
  <2>3. CASE DeletePublished(e)
    BY <1>1, <2>3 DEF DeletePublished, Abstracts, OutboxEvent
  <2>4. CASE BecomeDue(e)
    BY <1>1, <2>4 DEF BecomeDue, Abstracts, OutboxEvent
  <2>5. CASE LeaseExpires(e)
    BY <1>1, <2>5 DEF LeaseExpires, Abstracts, OutboxEvent
  <2>6. CASE UNCHANGED row
    BY <2>6 DEF Abstracts
  <2> QED BY <2>1, <2>2, <2>3, <2>4, <2>5, <2>6 DEF EventStep, JobStalls, JobRemoved
<1> QED BY <1>2, <1>3, RowStepRefines

LEMMA DeliveryRefines ==
    ASSUME Inv, NEW w \in Workers, DeliveryStep(w)
    PROVE  [Contract!Next]_(Contract!vars)
<1> DEFINE e == delivery[w].event
<1>1. /\ row \in [Events -> OutboxEvent] /\ WorkerInv(delivery[w])
      /\ delivery[w].pc # "idle" => e \in Events
  BY DEF Inv, TypeOK, WorkerInv
<1>2. CASE ClaimLease(w)
  <2>1. e \in Events /\ row[e].status \in {"ENQUEUED", "PENDING"}
    BY <1>1, <1>2 DEF ClaimLease, ClaimMatches, WorkerInv
  <2>2. handled' = handled /\ \A f \in Events \ {e} : row'[f] = row[f]
    BY <1>1, <1>2 DEF ClaimLease
  <2>3. row'[e].status = "PROCESSING" /\ row'[e].attempts = row[e].attempts
    BY <1>1, <1>2, <2>1 DEF ClaimLease, OutboxEvent
  <2>4. ContractState(row'[e].status) = ContractState(row[e].status)
    BY <2>1, <2>3, ContractStates DEF Live
  <2> QED BY <2>1, <2>2, <2>3, <2>4, InvisibleRefines
<1>3. CASE RenewLease(w)
  <2>1. e \in Events
    BY <1>1, <1>3 DEF RenewLease, Leased, Outcomes
  <2>2. handled' = handled /\ \A f \in Events : row'[f].status = row[f].status
                                              /\ row'[f].attempts = row[f].attempts
    BY <1>1, <1>3, <2>1 DEF RenewLease, OutboxEvent
  <2> QED BY <2>2, InvisibleRefines
<1>4. CASE MarkPublished(w)
  <2>1. e \in Events /\ e \in handled /\ handled' = handled
    BY <1>1, <1>4 DEF MarkPublished, WorkerInv
  <2>2. \A f \in Events \ {e} : row'[f] = row[f]
    BY <1>1, <1>4 DEF MarkPublished
  <2>3. Abstracts(e)
    BY <1>1, <1>4, <2>1 DEF MarkPublished, HoldsLease, Abstracts, OutboxEvent
  <2> QED BY <2>1, <2>2, <2>3, RowStepRefines
<1>5. CASE ReleaseDeferred(w)
  <2>1. e \in Events /\ handled' = handled
    BY <1>1, <1>5 DEF ReleaseDeferred
  <2>2. \A f \in Events : \/ row'[f] = row[f]
                          \/ /\ row[f].status \in Live /\ row'[f].status \in Live
                             /\ row'[f].attempts = row[f].attempts
    <3>1. CASE Holds(e, delivery[w].lockedBy)
      <4>1. row' = [row EXCEPT ![e] = Released(row[e])] /\ row[e].status \in Live
        BY <1>5, <3>1 DEF ReleaseDeferred, Holds, Locked, Live
      <4>2. row[e] \in OutboxEvent
        BY <1>1, <2>1
      <4> QED BY <1>1, <2>1, <4>1, <4>2, ReleasedType DEF Live
    <3>2. CASE ~Holds(e, delivery[w].lockedBy)
      BY <1>5, <3>2 DEF ReleaseDeferred
    <3> QED BY <3>1, <3>2
  <2> QED BY <2>1, <2>2, InvisibleRefines, ContractStates
<1>6. CASE RecordFailure(w) /\ HoldsLease(w)
  <2>1. e \in Events /\ handled' = handled /\ row[e].status = "PROCESSING"
    BY <1>1, <1>6 DEF RecordFailure, HoldsLease
  <2>2. Abstracts(e)
    BY <1>6, <2>1, RecordFailureRow DEF Abstracts
  <2>3. \A f \in Events \ {e} : row'[f] = row[f]
    BY <1>6, RecordFailureRow
  <2> QED BY <2>1, <2>2, <2>3, RowStepRefines
<1>7. CASE RecordFailure(w) /\ ~HoldsLease(w)
  <2>1. UNCHANGED <<row, handled>>
    BY <1>7 DEF RecordFailure
  <2> QED BY <2>1, InvisibleRefines
<1>8. ASSUME NEW o \in Outcomes, Publish(w, o)
      PROVE  [Contract!Next]_(Contract!vars)
  <2>1. e \in Events /\ row[e].status # "NONE" /\ UNCHANGED row
    BY <1>1, <1>8 DEF Publish, WorkerInv, Leased
  <2>2. row[e].status \in Status
    BY <1>1, <2>1 DEF OutboxEvent
  <2>3. ContractState(row[e].status) # "none"
    BY <2>1, <2>2, ContractStates DEF Status, Live
  <2>4. handled' = handled \/ handled' = handled \cup {e}
    BY <1>8 DEF Publish
  <2>5. CASE handled' = handled
    BY <2>1, <2>5, InvisibleRefines
  <2>6. CASE handled' = handled \cup {e}
    <3>1. Contract!Handle(e)
      BY <2>1, <2>3, <2>6 DEF Contract!Handle
    <3> QED BY <2>1, <3>1 DEF Contract!Next
  <2> QED BY <2>4, <2>5, <2>6
<1>9. CASE UNCHANGED <<row, handled>>
  BY <1>9, InvisibleRefines
<1> QED BY <1>2, <1>3, <1>4, <1>5, <1>6, <1>7, <1>8, <1>9
        DEF DeliveryStep, ProcessJob, DeliverWithoutRedis, ReadEvent, ClaimMissed,
            DatabaseError

\* The dispatchers, workers, BullMQ and crashes together keep the promise the
\* outbox makes to the transactions that write to it.
THEOREM Refinement == Spec => ImplementsContract
<1>1. Init => Contract!Init
  BY ContractStates DEF Init, NoRow, Contract!Init
<1>2. Inv /\ [Next]_vars => [Contract!Next]_(Contract!vars)
  <2>1. SUFFICES ASSUME Inv, [Next]_vars PROVE [Contract!Next]_(Contract!vars)
    OBVIOUS
  <2>2. CASE UNCHANGED vars
    BY <2>2, InvisibleRefines DEF vars
  <2> QED BY <2>1, <2>2, DispatcherRefines, DeliveryRefines, EventRefines DEF Next
<1> QED BY <1>1, <1>2, InvHolds, PTL DEF Spec, ImplementsContract, Contract!Spec
=============================================================================
