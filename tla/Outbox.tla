------------------------------- MODULE Outbox -------------------------------
(***************************************************************************)
(* The transactional outbox (src/app/durable): a business transaction      *)
(* inserts an OutboxEvent row, every API process runs a dispatcher that    *)
(* claims due rows and hands them to BullMQ, and a worker per process      *)
(* re-reads the row, takes an execution lease on it and calls the event    *)
(* listeners.  Without REDIS_URL the dispatcher delivers directly.         *)
(*                                                                         *)
(* One action is one database statement, one Redis command or one call of  *)
(* the listeners: everything between two awaits.  Time is two facts about  *)
(* a row: due (availableAt has passed) and expired (lockedAt is older than *)
(* LOCK_TIMEOUT_MS); both become true by actions of the environment.       *)
(***************************************************************************)
EXTENDS Naturals, FiniteSets

CONSTANTS
    Events,         \* ids of outbox rows, naturals in the order of occurredAt
    Processes,      \* API processes, each with one dispatcher
    Workers,        \* BullMQ worker slots (concurrency of the Worker)
    Home,           \* the process a worker slot runs in
    Lease,          \* the UUIDs that randomUUID() can return
    NoLease,        \* lockedBy = NULL
    NoEvent,
    NoWorker,
    MAX_ATTEMPTS,   \* retry budget of a row and of a BullMQ job
    BATCH_SIZE,     \* rows claimed by one claimBatch
    UseRedis,       \* REDIS_URL is configured
    MaxFaults,      \* bound: crashes, failed commands, deferrals, manual retries
    MaxDelays       \* bound: claims that expire while being worked on

ASSUME OutboxConstants ==
    /\ Events \subseteq Nat
    /\ Home \in [Workers -> Processes]
    /\ NoLease \notin Lease
    /\ NoEvent \notin Events
    /\ NoWorker \notin Workers
    /\ MAX_ATTEMPTS \in Nat \ {0}
    /\ BATCH_SIZE \in Nat \ {0}
    /\ UseRedis \in BOOLEAN
    /\ MaxFaults \in Nat
    /\ MaxDelays \in Nat

VARIABLES
    row,          \* the OutboxEvent table
    job,          \* the BullMQ job with jobId = event id
    dispatcher,   \* per process: the dispatchBatch in progress
    delivery,     \* per worker slot: the deliver() in progress
    handled,      \* events whose listeners all succeeded in some publish()
    faults,       \* how many of the bounded faults have happened
    delays        \* how many of the bounded delays have happened

vars == <<row, job, dispatcher, delivery, handled, faults, delays>>

-----------------------------------------------------------------------------
(* Types *)

Status == {"NONE", "PENDING", "ENQUEUED", "PROCESSING", "PUBLISHED",
           "DEAD_LETTER", "DELETED"}
Live == {"PENDING", "ENQUEUED", "PROCESSING"}
Locked == {"ENQUEUED", "PROCESSING"}

OutboxEvent == [status : Status, attempts : 0 .. MAX_ATTEMPTS, due : BOOLEAN,
                lockedBy : Lease \cup {NoLease}, expired : BOOLEAN]
NoRow == [status |-> "NONE", attempts |-> 0, due |-> FALSE,
          lockedBy |-> NoLease, expired |-> FALSE]

JobState == {"none", "waiting", "active", "completed", "failed"}
Job == [state : JobState, attemptsMade : Nat, owner : Workers \cup {NoWorker}]
NoJob == [state |-> "none", attemptsMade |-> 0, owner |-> NoWorker]

Dispatcher == [pc : {"idle", "loop", "act", "finally"}, batch : SUBSET Events,
               lockedBy : Lease \cup {NoLease},
               event : Events \cup {NoEvent}, seen : JobState]
IdleDispatcher == [pc |-> "idle", batch |-> {}, lockedBy |-> NoLease,
                   event |-> NoEvent, seen |-> "none"]

\* The local variables of deliver(): status, attempts and lockedBy are those
\* of the row as it was read; lockedBy becomes the execution lease.  lastTry:
\* the BullMQ job was on its last attempt when the worker received it.
\* "read": the row was read; "stale": its availableAt was rewritten since.
\* "publish", "ack", "error", "permanent", "deferred", "exhausted": the row
\* was claimed, and the listeners are running or have given this outcome.
Outcomes == {"ack", "error", "permanent", "deferred"}
Leased == {"publish", "exhausted"} \cup Outcomes
Delivery == [pc : {"idle", "fetch", "read", "stale"} \cup Leased,
             event : Events \cup {NoEvent}, status : Status,
             attempts : 0 .. MAX_ATTEMPTS, lockedBy : Lease \cup {NoLease},
             lastTry : BOOLEAN]
IdleDelivery == [pc |-> "idle", event |-> NoEvent, status |-> "NONE",
                 attempts |-> 0, lockedBy |-> NoLease, lastTry |-> FALSE]

\* No counter exceeds its budget, and every local variable has its type.
TypeOK ==
    /\ row \in [Events -> OutboxEvent]
    /\ job \in [Events -> Job]
    /\ dispatcher \in [Processes -> Dispatcher]
    /\ delivery \in [Workers -> Delivery]
    /\ handled \in SUBSET Events
    /\ faults \in 0 .. MaxFaults
    /\ delays \in 0 .. MaxDelays

Init ==
    /\ row = [e \in Events |-> NoRow]
    /\ job = [e \in Events |-> NoJob]
    /\ dispatcher = [p \in Processes |-> IdleDispatcher]
    /\ delivery = [w \in Workers |-> IdleDelivery]
    /\ handled = {}
    /\ faults = 0
    /\ delays = 0

-----------------------------------------------------------------------------
(* Helpers *)

Fault ==
    /\ faults < MaxFaults
    /\ faults' = faults + 1

Delay ==
    /\ delays < MaxDelays
    /\ delays' = delays + 1

\* Every UUID some row, batch or delivery still refers to.
LeasesInUse ==
    {row[e].lockedBy : e \in Events}
        \cup {dispatcher[p].lockedBy : p \in Processes}
        \cup {delivery[w].lockedBy : w \in Workers}

\* randomUUID(): a value nothing refers to.
randomUUID == CHOOSE l \in Lease : l \notin LeasesInUse
LeaseAvailable == \E l \in Lease : l \notin LeasesInUse

\* Back to PENDING with a new availableAt in the future (release, and the
\* release of unqueued claims in dispatchBatch).
Released(r) == [r EXCEPT !.status = "PENDING", !.due = FALSE,
                         !.lockedBy = NoLease, !.expired = FALSE]

\* availableAt of the events in es is rewritten: a delivery that read one of
\* them before can no longer match it in its claim.
Rescheduled(es) ==
    [w \in Workers |->
        IF delivery[w].pc = "read" /\ delivery[w].event \in es
        THEN [delivery[w] EXCEPT !.pc = "stale"]
        ELSE delivery[w]]

\* release(): only the claim or lease that lockedBy names is given back.
Holds(e, lockedBy) == row[e].status \in Locked /\ row[e].lockedBy = lockedBy

-----------------------------------------------------------------------------
(* Producers, manual retry and retention *)

\* OutboxService.enqueue, as part of a committed business transaction.
Enqueue(e) ==
    /\ row[e].status = "NONE"
    /\ \A f \in Events : f < e => row[f].status # "NONE"
    /\ row' = [row EXCEPT ![e].status = "PENDING", ![e].due = TRUE]
    /\ UNCHANGED <<job, dispatcher, delivery, handled, faults, delays>>

\* ManagementExceptionsService.retryOutboxEvent: the manager saw the current
\* row (expectedAvailableAt) and gives a dead letter a new retry budget.
RetryOutboxEvent(e) ==
    /\ row[e].status = "DEAD_LETTER"
    /\ Fault
    /\ row' = [row EXCEPT ![e] = [status |-> "PENDING", attempts |-> 0,
                                  due |-> TRUE, lockedBy |-> NoLease,
                                  expired |-> FALSE]]
    /\ delivery' = Rescheduled({e})
    /\ UNCHANGED <<job, dispatcher, handled, delays>>

\* Mutant: retention also removes dead letters.
DeleteSettled(e) ==
    /\ row[e].status \in {"PUBLISHED", "DEAD_LETTER"}
    /\ row' = [row EXCEPT ![e].status = "DELETED"]
    /\ UNCHANGED <<job, dispatcher, delivery, handled, faults, delays>>

\* runHousekeepingIfNeeded: PUBLISHED rows older than 30 days are deleted.
DeletePublished(e) ==
    /\ row[e].status = "PUBLISHED"
    /\ row' = [row EXCEPT ![e].status = "DELETED"]
    /\ UNCHANGED <<job, dispatcher, delivery, handled, faults, delays>>

-----------------------------------------------------------------------------
(* The dispatcher of process p: dispatchBatch *)

Abandoned == {e \in Events : row[e].status \in Locked /\ row[e].expired}

\* Back to PENDING, due as before; no attempt is spent.
RecoverRows(p, es) ==
    /\ dispatcher[p].pc = "idle"
    /\ es # {}
    /\ row' = [e \in Events |->
                 IF e \in es
                 THEN [row[e] EXCEPT !.status = "PENDING",
                                     !.lockedBy = NoLease, !.expired = FALSE]
                 ELSE row[e]]
    /\ UNCHANGED <<job, dispatcher, delivery, handled, faults, delays>>

\* Mutants: the age of the lock is not tested; only executions are recovered.
RecoverLocked(p) == RecoverRows(p, {e \in Events : row[e].status \in Locked})
RecoverProcessing(p) ==
    RecoverRows(p, {e \in Abandoned : row[e].status = "PROCESSING"})

\* recoverAbandonedEvents: one updateMany over every expired claim and lease.
RecoverAbandonedEvents(p) == RecoverRows(p, Abandoned)

\* The BATCH_SIZE oldest rows that are PENDING and due.
Candidates == {e \in Events : row[e].status = "PENDING" /\ row[e].due}
OldestCandidates ==
    {e \in Candidates : Cardinality({f \in Candidates : f < e}) < BATCH_SIZE}

\* claimBatch: one UPDATE ... FOR UPDATE SKIP LOCKED, one UUID for the batch.
ClaimBatch(p) ==
    /\ dispatcher[p].pc = "idle"
    /\ OldestCandidates # {}
    /\ LeaseAvailable
    /\ row' = [e \in Events |->
                 IF e \in OldestCandidates
                 THEN [row[e] EXCEPT !.status = "ENQUEUED",
                                     !.lockedBy = randomUUID,
                                     !.expired = FALSE]
                 ELSE row[e]]
    /\ dispatcher' = [dispatcher EXCEPT ![p] =
                        [IdleDispatcher EXCEPT !.pc = "loop",
                                               !.batch = OldestCandidates,
                                               !.lockedBy = randomUUID]]
    /\ UNCHANGED <<job, delivery, handled, faults, delays>>

\* enqueue, first half: getJob and getState.
InspectJob(p, e) ==
    /\ UseRedis
    /\ dispatcher[p].pc = "loop"
    /\ e \in dispatcher[p].batch
    /\ dispatcher' = [dispatcher EXCEPT ![p].pc = "act", ![p].event = e,
                                        ![p].seen = job[e].state]
    /\ UNCHANGED <<row, job, delivery, handled, faults, delays>>

\* The event at hand has left the batch; nextIndex++.
NextInBatch(p, pc) ==
    dispatcher' = [dispatcher EXCEPT
                     ![p].pc = pc, ![p].batch = @ \ {dispatcher[p].event},
                     ![p].event = NoEvent, ![p].seen = "none"]

\* release(event, ...) of the claim held under this batch's UUID.
ReleaseClaim(p, e) ==
    IF Holds(e, dispatcher[p].lockedBy)
    THEN /\ row' = [row EXCEPT ![e] = Released(@)]
         /\ delivery' = Rescheduled({e})
    ELSE UNCHANGED <<row, delivery>>

\* The failed or completed job retained under this id is retried.
RetryRetainedJob(p) ==
    LET e == dispatcher[p].event
    IN  /\ dispatcher[p].pc = "act"
        /\ dispatcher[p].seen \in {"completed", "failed"}
        /\ job[e].state = dispatcher[p].seen
        /\ job' = [job EXCEPT ![e] = [NoJob EXCEPT !.state = "waiting"]]
        /\ NextInBatch(p, "loop")
        /\ UNCHANGED <<row, delivery, handled, faults, delays>>

\* An older job for the event is running: give the claim back.
ReleaseBehindActiveJob(p) ==
    /\ dispatcher[p].pc = "act"
    /\ dispatcher[p].seen = "active"
    /\ ReleaseClaim(p, dispatcher[p].event)
    /\ NextInBatch(p, "loop")
    /\ UNCHANGED <<job, handled, faults, delays>>

\* A job for the event already waits (or backs off): it will deliver it.
LeaveToWaitingJob(p) ==
    /\ dispatcher[p].pc = "act"
    /\ dispatcher[p].seen = "waiting"
    /\ NextInBatch(p, "loop")
    /\ UNCHANGED <<row, job, delivery, handled, faults, delays>>

\* queue.add: BullMQ ignores an add under an id that exists by now.
AddJob(p) ==
    LET e == dispatcher[p].event
    IN  /\ dispatcher[p].pc = "act"
        /\ dispatcher[p].seen = "none"
        /\ job' = IF job[e].state = "none"
                  THEN [job EXCEPT ![e].state = "waiting"] ELSE job
        /\ NextInBatch(p, "loop")
        /\ UNCHANGED <<row, delivery, handled, faults, delays>>

\* enqueue's catch: release the event, then leave the loop.
AbandonEnqueue(p) ==
    /\ ReleaseClaim(p, dispatcher[p].event)
    /\ NextInBatch(p, "finally")
    /\ UNCHANGED <<handled, delays>>

\* BullMQ refuses to retry a job that is no longer in the state seen.
RetryRefused(p) ==
    /\ dispatcher[p].pc = "act"
    /\ dispatcher[p].seen \in {"completed", "failed"}
    /\ job[dispatcher[p].event].state # dispatcher[p].seen
    /\ AbandonEnqueue(p)
    /\ UNCHANGED <<job, faults>>

\* A Redis command fails, or times out although it took effect.
EnqueueFails(p) ==
    /\ dispatcher[p].pc = "act"
    /\ Fault
    /\ \/ UNCHANGED job
       \/ /\ dispatcher[p].seen \in {"none", "completed", "failed"}
          /\ job[dispatcher[p].event].state = dispatcher[p].seen
          /\ job' = [job EXCEPT ![dispatcher[p].event] =
                                  [NoJob EXCEPT !.state = "waiting"]]
    /\ AbandonEnqueue(p)

\* The loop ends early: shutdown was requested, or a release threw too.
InterruptBatch(p) ==
    /\ dispatcher[p].pc \in {"loop", "act"}
    /\ dispatcher[p].batch # {}
    /\ \A w \in Workers : Home[w] = p /\ ~UseRedis => delivery[w].pc = "idle"
    /\ Fault
    /\ dispatcher' = [dispatcher EXCEPT ![p].pc = "finally"]
    /\ UNCHANGED <<row, job, delivery, handled, delays>>

\* finally: the claims not handed over go back, if they are still ours.
ReleaseUnqueued(p) ==
    LET mine == {e \in dispatcher[p].batch :
                    /\ row[e].status = "ENQUEUED"
                    /\ row[e].lockedBy = dispatcher[p].lockedBy}
    IN  /\ dispatcher[p].pc = "finally"
        /\ row' = [e \in Events |->
                     IF e \in mine THEN Released(row[e]) ELSE row[e]]
        /\ delivery' = Rescheduled(mine)
        /\ dispatcher' = [dispatcher EXCEPT ![p] = IdleDispatcher]
        /\ UNCHANGED <<job, handled, faults, delays>>

\* That update fails too: the claims stay until their lease expires. Not charged
\* to MaxFaults, for only an interrupted batch comes here.
ReleaseUnqueuedFails(p) ==
    /\ dispatcher[p].pc = "finally"
    /\ dispatcher[p].batch # {}
    /\ dispatcher' = [dispatcher EXCEPT ![p] = IdleDispatcher]
    /\ UNCHANGED <<row, job, delivery, handled, faults, delays>>

BatchDone(p) ==
    /\ dispatcher[p].pc = "loop"
    /\ dispatcher[p].batch = {}
    /\ dispatcher' = [dispatcher EXCEPT ![p] = IdleDispatcher]
    /\ UNCHANGED <<row, job, delivery, handled, faults, delays>>

-----------------------------------------------------------------------------
(* deliver(), on worker slot w *)

Begin(w, e, lastTry) ==
    delivery' = [delivery EXCEPT ![w].pc = "fetch", ![w].event = e,
                                 ![w].lastTry = lastTry]

\* BullMQ hands a waiting job to a free slot: processJob.
ProcessJob(w, e) ==
    /\ UseRedis
    /\ delivery[w].pc = "idle"
    /\ job[e].state = "waiting"
    /\ job' = [job EXCEPT ![e].state = "active", ![e].owner = w]
    /\ Begin(w, e, job[e].attemptsMade + 1 >= MAX_ATTEMPTS)
    /\ UNCHANGED <<row, dispatcher, handled, faults, delays>>

\* deliverWithoutRedis: awaited by the dispatcher, one event at a time.
DeliverWithoutRedis(w, e) ==
    /\ ~UseRedis
    /\ \A v \in Workers : Home[v] = Home[w] => delivery[v].pc = "idle"
    /\ dispatcher[Home[w]].pc = "loop"
    /\ e \in dispatcher[Home[w]].batch
    /\ Begin(w, e, FALSE)
    /\ UNCHANGED <<row, job, dispatcher, handled, faults, delays>>

\* What the caller of deliver() sees.  BullMQ completes the job, or retries
\* it while attemptsMade is within budget, unless it took the job away
\* (stalled); the dispatcher goes on with the batch, or leaves the loop.
Settled(j, ok) ==
    [j EXCEPT !.state = IF ok THEN "completed"
                        ELSE IF j.attemptsMade + 1 < MAX_ATTEMPTS
                        THEN "waiting" ELSE "failed",
              !.attemptsMade = IF ok THEN @ ELSE @ + 1,
              !.owner = NoWorker]
Return(w, ok, others) ==
    LET e == delivery[w].event
        p == Home[w]
    IN  /\ delivery' = [others EXCEPT ![w] = IdleDelivery]
        /\ job' = IF job[e].owner = w
                  THEN [job EXCEPT ![e] = Settled(@, ok)] ELSE job
        /\ dispatcher' =
             IF UseRedis THEN dispatcher
             ELSE IF ok THEN [dispatcher EXCEPT ![p].batch = @ \ {e}]
             ELSE [dispatcher EXCEPT ![p].pc = "finally"]

\* findUnique: only ENQUEUED and PENDING rows are delivered.
ReadEvent(w) ==
    LET e == delivery[w].event
    IN  /\ delivery[w].pc = "fetch"
        /\ IF row[e].status \in {"ENQUEUED", "PENDING"}
           THEN /\ delivery' = [delivery EXCEPT
                                   ![w].pc = "read",
                                   ![w].status = row[e].status,
                                   ![w].attempts = row[e].attempts,
                                   ![w].lockedBy = row[e].lockedBy]
                /\ UNCHANGED <<job, dispatcher>>
           ELSE Return(w, TRUE, delivery)
        /\ UNCHANGED <<row, handled, faults, delays>>

\* The conditional update that takes the execution lease.
ClaimMatches(w) ==
    LET r == row[delivery[w].event]
        s == delivery[w]
    IN  /\ delivery[w].pc = "read"
        /\ r.status = s.status
        /\ r.lockedBy = s.lockedBy
        /\ r.attempts = s.attempts
        /\ r.due

ClaimLease(w) ==
    /\ ClaimMatches(w)
    /\ LeaseAvailable
    /\ row' = [row EXCEPT ![delivery[w].event].status = "PROCESSING",
                          ![delivery[w].event].lockedBy = randomUUID,
                          ![delivery[w].event].expired = FALSE]
    /\ delivery' = [delivery EXCEPT
                      ![w].pc = IF delivery[w].attempts >= MAX_ATTEMPTS
                                THEN "exhausted" ELSE "publish",
                      ![w].lockedBy = randomUUID]
    /\ UNCHANGED <<job, dispatcher, handled, faults, delays>>

\* claimed.count !== 1: someone else has it.
ClaimMissed(w) ==
    /\ delivery[w].pc \in {"read", "stale"}
    /\ ~ClaimMatches(w)
    /\ Return(w, TRUE, delivery)
    /\ UNCHANGED <<row, handled, faults, delays>>

\* Mutant: the results of Promise.allSettled are not inspected.
PublishIgnoringRejections(w, outcome) ==
    /\ delivery[w].pc = "publish"
    /\ outcome \in Outcomes
    /\ handled' = IF outcome = "ack" THEN handled \cup {delivery[w].event}
                  ELSE handled
    /\ delivery' = [delivery EXCEPT ![w].pc = "ack"]
    /\ UNCHANGED <<row, job, dispatcher, faults, delays>>

\* eventBus.publish: all listeners ran; any rejection fails the publish.
Publish(w, outcome) ==
    /\ delivery[w].pc = "publish"
    /\ outcome \in Outcomes
    /\ IF outcome = "deferred" THEN Fault ELSE UNCHANGED faults
    /\ handled' = IF outcome = "ack" THEN handled \cup {delivery[w].event}
                  ELSE handled
    /\ delivery' = [delivery EXCEPT ![w].pc = outcome]
    /\ UNCHANGED <<row, job, dispatcher, delays>>

\* Mutant: an outcome is recorded without looking at lockedBy.
HoldsAnyLease(w) == row[delivery[w].event].status = "PROCESSING"

HoldsLease(w) ==
    /\ row[delivery[w].event].status = "PROCESSING"
    /\ row[delivery[w].event].lockedBy = delivery[w].lockedBy

MarkPublished(w) ==
    LET e == delivery[w].event
    IN  /\ delivery[w].pc = "ack"
        /\ row' = IF HoldsLease(w)
                  THEN [row EXCEPT ![e].status = "PUBLISHED",
                                   ![e].lockedBy = NoLease,
                                   ![e].expired = FALSE]
                  ELSE row
        /\ Return(w, TRUE, delivery)
        /\ UNCHANGED <<handled, faults, delays>>

\* OutboxDeferredError: release without spending an attempt.
ReleaseDeferred(w) ==
    LET e == delivery[w].event
    IN  /\ delivery[w].pc = "deferred"
        /\ IF Holds(e, delivery[w].lockedBy)
           THEN /\ row' = [row EXCEPT ![e] = Released(@)]
                /\ Return(w, TRUE, Rescheduled({e}))
           ELSE /\ UNCHANGED row
                /\ Return(w, TRUE, delivery)
        /\ UNCHANGED <<handled, faults, delays>>

\* recordFailure: a dead letter when the error is permanent or a budget (the
\* row's or the job's) is spent, otherwise PENDING with a backoff.
FailedAttempts(w) ==
    IF delivery[w].pc = "exhausted" THEN delivery[w].attempts
    ELSE delivery[w].attempts + 1

\* Mutant: only BullMQ's own budget is looked at.
DeadLettersOnLastTry(w) ==
    delivery[w].pc \in {"permanent", "exhausted"} \/ delivery[w].lastTry

DeadLetters(w) ==
    \/ delivery[w].pc \in {"permanent", "exhausted"}
    \/ FailedAttempts(w) >= MAX_ATTEMPTS
    \/ delivery[w].lastTry

RecordFailure(w) ==
    LET e == delivery[w].event
        failed == IF DeadLetters(w)
                  THEN [row[e] EXCEPT !.status = "DEAD_LETTER",
                                      !.lockedBy = NoLease, !.expired = FALSE]
                  ELSE Released(row[e])
    IN  /\ delivery[w].pc \in {"error", "permanent", "exhausted"}
        /\ row' = IF HoldsLease(w)
                  THEN [row EXCEPT ![e] = [failed EXCEPT
                                             !.attempts = FailedAttempts(w)]]
                  ELSE row
        /\ Return(w, ~UseRedis \/ delivery[w].pc # "error",
                  IF HoldsLease(w) /\ ~DeadLetters(w)
                  THEN Rescheduled({e}) ELSE delivery)
        /\ UNCHANGED <<handled, faults, delays>>

\* A statement of deliver() throws.  markPublished is inside the try, so its
\* failure counts as a failed delivery; any other one leaves deliver().
DatabaseError(w) ==
    /\ delivery[w].pc \notin {"idle", "publish"}
    /\ Fault
    /\ IF delivery[w].pc = "ack"
       THEN /\ delivery' = [delivery EXCEPT ![w].pc = "error"]
            /\ UNCHANGED <<job, dispatcher>>
       ELSE Return(w, FALSE, delivery)
    /\ UNCHANGED <<row, handled, delays>>

\* The renewal timer of withDeliveryLease.
RenewLease(w) ==
    LET e == delivery[w].event
    IN  /\ delivery[w].pc \in Leased
        /\ HoldsLease(w)
        /\ row[e].expired
        /\ row' = [row EXCEPT ![e].expired = FALSE]
        /\ UNCHANGED <<job, dispatcher, delivery, handled, faults, delays>>

-----------------------------------------------------------------------------
(* Environment: time, crashes, BullMQ *)

BecomeDue(e) ==
    /\ row[e].status = "PENDING"
    /\ ~row[e].due
    /\ row' = [row EXCEPT ![e].due = TRUE]
    /\ UNCHANGED <<job, dispatcher, delivery, handled, faults, delays>>

\* Somebody still works on the claim or lease that is on the row: the
\* dispatcher has it in its batch, a job waits or runs, or a delivery is on
\* its way.
InHand(e) ==
    \/ job[e].state = "waiting"
    \/ \E p \in Processes : e \in dispatcher[p].batch
    \/ \E w \in Workers : delivery[w].event = e

\* LOCK_TIMEOUT_MS pass since lockedAt.  A claim expires in hand when Redis or
\* the workers are slow (a delay); a running delivery renews its lease every
\* LEASE_RENEW_INTERVAL_MS, so it expires only when renewals fail (a fault).
LeaseExpires(e) ==
    /\ row[e].status \in Locked
    /\ ~row[e].expired
    /\ IF \E w \in Workers : delivery[w].event = e /\ delivery[w].pc \in Leased
                              /\ HoldsLease(w)
       THEN Fault /\ UNCHANGED delays
       ELSE IF InHand(e) THEN Delay /\ UNCHANGED faults
       ELSE UNCHANGED <<faults, delays>>
    /\ row' = [row EXCEPT ![e].expired = TRUE]
    /\ UNCHANGED <<job, dispatcher, delivery, handled>>

\* The process dies and is restarted: its batch and deliveries are gone.
Crash(p) ==
    /\ Fault
    /\ dispatcher' = [dispatcher EXCEPT ![p] = IdleDispatcher]
    /\ delivery' = [w \in Workers |->
                      IF Home[w] = p THEN IdleDelivery ELSE delivery[w]]
    /\ UNCHANGED <<row, job, handled, delays>>

\* The worker of an active job is gone, or too slow to keep the job's lock:
\* BullMQ queues the job again or fails it.
JobStalls(e, next) ==
    /\ job[e].state = "active"
    /\ next \in {"waiting", "failed"}
    /\ IF job[e].owner # NoWorker /\ delivery[job[e].owner].event = e
       THEN Fault ELSE UNCHANGED faults
    /\ job' = [job EXCEPT ![e].state = next, ![e].owner = NoWorker]
    /\ UNCHANGED <<row, dispatcher, delivery, handled, delays>>

\* removeOnComplete / removeOnFail, or a waiting job lost with Redis.
JobRemoved(e) ==
    /\ job[e].state \in {"completed", "failed", "waiting"}
    /\ IF job[e].state = "waiting" THEN Fault ELSE UNCHANGED faults
    /\ job' = [job EXCEPT ![e] = NoJob]
    /\ UNCHANGED <<row, dispatcher, delivery, handled, delays>>

-----------------------------------------------------------------------------
DispatcherStep(p) ==
    \/ RecoverAbandonedEvents(p)
    \/ ClaimBatch(p)
    \/ \E e \in Events : InspectJob(p, e)
    \/ RetryRetainedJob(p)
    \/ ReleaseBehindActiveJob(p)
    \/ LeaveToWaitingJob(p)
    \/ AddJob(p)
    \/ RetryRefused(p)
    \/ EnqueueFails(p)
    \/ InterruptBatch(p)
    \/ ReleaseUnqueued(p)
    \/ ReleaseUnqueuedFails(p)
    \/ BatchDone(p)

DeliveryStep(w) ==
    \/ \E e \in Events : ProcessJob(w, e) \/ DeliverWithoutRedis(w, e)
    \/ ReadEvent(w)
    \/ ClaimLease(w)
    \/ ClaimMissed(w)
    \/ \E o \in Outcomes : Publish(w, o)
    \/ MarkPublished(w)
    \/ ReleaseDeferred(w)
    \/ RecordFailure(w)
    \/ DatabaseError(w)
    \/ RenewLease(w)

EventStep(e) ==
    \/ Enqueue(e)
    \/ RetryOutboxEvent(e)
    \/ DeletePublished(e)
    \/ BecomeDue(e)
    \/ LeaseExpires(e)
    \/ \E next \in {"waiting", "failed"} : JobStalls(e, next)
    \/ JobRemoved(e)

Next ==
    \/ \E p \in Processes : DispatcherStep(p) \/ Crash(p)
    \/ \E w \in Workers : DeliveryStep(w)
    \/ \E e \in Events : EventStep(e)

Spec == Init /\ [][Next]_vars

\* setInterval calls drainOnce for ever and every drain runs to its end; the
\* first drain after RECOVERY_INTERVAL_MS starts with the recovery (strong
\* fairness: a drain in progress only delays it).  BullMQ serves its queue,
\* deliveries return, and clocks advance.  Nothing is assumed about faults
\* and delays except that they are finitely many.
DispatcherFairness(p) ==
    /\ SF_vars(RecoverAbandonedEvents(p))
    /\ WF_vars(ClaimBatch(p))
    /\ \A e \in Events : WF_vars(InspectJob(p, e))
    /\ WF_vars(\/ RetryRetainedJob(p) \/ ReleaseBehindActiveJob(p)
               \/ LeaveToWaitingJob(p) \/ AddJob(p) \/ RetryRefused(p))
    /\ WF_vars(ReleaseUnqueued(p) \/ BatchDone(p))

DeliveryFairness(w) ==
    /\ WF_vars(\E e \in Events : ProcessJob(w, e) \/ DeliverWithoutRedis(w, e))
    /\ WF_vars(\/ ReadEvent(w) \/ ClaimLease(w) \/ ClaimMissed(w)
               \/ \E o \in Outcomes \ {"deferred"} : Publish(w, o)
               \/ MarkPublished(w) \/ ReleaseDeferred(w) \/ RecordFailure(w))

ClockFairness(e) ==
    /\ WF_vars(BecomeDue(e))
    /\ WF_vars(LeaseExpires(e) /\ UNCHANGED <<faults, delays>>)
    /\ WF_vars(\E next \in {"waiting", "failed"} :
                  JobStalls(e, next) /\ UNCHANGED faults)

FairSpec ==
    /\ Spec
    /\ \A p \in Processes : DispatcherFairness(p)
    /\ \A w \in Workers : DeliveryFairness(w)
    /\ \A e \in Events : ClockFairness(e)

-----------------------------------------------------------------------------
(* Properties *)

\* At least once: a row is marked PUBLISHED (and later removed by retention)
\* only after a publish in which every listener succeeded, whatever crashed,
\* expired, stalled or was delivered twice on the way.
PublishedWasHandled ==
    \A e \in Events : row[e].status \in {"PUBLISHED", "DELETED"} => e \in handled

\* A row that can still be claimed has budget left: the last failure always
\* dead-letters it, also when a BullMQ job with a budget of its own, a
\* recovered lease or a manual retry interfered.
BudgetLeft ==
    /\ TypeOK
    /\ \A e \in Events : row[e].status \in Live => row[e].attempts < MAX_ATTEMPTS

\* Fencing: a row leaves PROCESSING only by the delivery whose lease is on
\* it, or by the recovery of an expired lease, which spends no attempt.  The
\* late outcome of a delivery that lost its lease changes nothing.
FencedOutcome ==
    [][\A e \in Events :
         row[e].status = "PROCESSING" /\ row'[e] # [row[e] EXCEPT !.expired = row'[e].expired]
           => \/ row[e].expired /\ row'[e].status = "PENDING"
                 /\ row'[e].attempts = row[e].attempts
              \/ \E w \in Workers :
                    /\ delivery[w].pc \in Leased
                    /\ delivery[w].event = e
                    /\ delivery[w].lockedBy = row[e].lockedBy
                    /\ delivery'[w].pc = "idle"]_vars

\* While nothing crashed, failed, stalled or was retried by hand, no event
\* has its listeners run to success twice: slow queues, expired claims and
\* reused job ids alone never duplicate a delivery.
NoDuplicateWithoutFault ==
    [][\A w \in Workers :
         faults = 0 /\ delivery[w].pc = "publish" /\ delivery'[w].pc = "ack"
           => delivery[w].event \notin handled]_vars

\* Every accepted event is eventually published or visible as a dead letter.
EventuallySettled ==
    \A e \in Events :
        row[e].status \in Live
            ~> row[e].status \in {"PUBLISHED", "DEAD_LETTER", "DELETED"}

-----------------------------------------------------------------------------
(* The contract, and the mapping of rows to it *)

ContractState(status) ==
    CASE status = "NONE" -> "none"
      [] status \in Live -> "accepted"
      [] status = "PUBLISHED" -> "published"
      [] status = "DEAD_LETTER" -> "dead"
      [] status = "DELETED" -> "purged"

Contract == INSTANCE OutboxContract WITH
    state <- [e \in Events |-> ContractState(row[e].status)],
    attempts <- [e \in Events |-> row[e].attempts]

\* Every step of dispatchers, workers, BullMQ, clocks and crashes is a step
\* of the contract or invisible to it: claims, releases, recoveries and Redis
\* failures neither settle an event nor spend its budget.
ImplementsContract == Contract!Spec
=============================================================================
