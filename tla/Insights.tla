------------------------------ MODULE Insights ------------------------------
(***************************************************************************)
(* AI reports on the business figures (business-insights.service.ts,       *)
(* business-insight-history.service.ts): a request is admitted by Redis,   *)
(* recorded in the database with an outbox event, and worked on as a       *)
(* BullMQ job that asks a paid provider.  The row and the job are written  *)
(* by different steps; workers crash, and lose the lock of a job while     *)
(* they still work on it.  The retention of days is not modelled.          *)
(***************************************************************************)
EXTENDS Integers, FiniteSets

CONSTANTS Insights, Periods, Workers,
          Figures,         \* what a snapshot may say
          Empty,           \* a snapshot without a paid invoice
          DailyLimit,      \* of requests, and of calls of the provider
          Attempts,        \* of a job
          None

VARIABLES insight,    \* the BusinessInsight rows
          admitted,   \* Redis: the period each request was admitted for
          admissions, \* Redis: the requests admitted this day
          calls,      \* Redis: the calls granted this day
          creating,   \* create calls between admission and record
          posted,     \* outbox events not yet handled
          job,        \* the BullMQ jobs
          work,       \* what each worker is doing
          notices,    \* jobs whose failed event has still to be handled
          forgotten,  \* ghost: jobs whose failed event was lost
          doubtful    \* ghost: insights whose caller died during the call

vars == <<insight, admitted, admissions, calls, creating, posted, job, work,
          notices, forgotten, doubtful>>
askedFor == <<admitted, admissions, creating, posted>>
faults == <<notices, forgotten, doubtful>>

Open == {"QUEUED", "PROCESSING"}
NoInsight == [status |-> "NONE", period |-> None, snapshot |-> None,
              analysis |-> None, started |-> FALSE]
NoJob == [state |-> "none", holder |-> None, snapshot |-> None,
          failures |-> 0, stalled |-> FALSE]
Idle == [at |-> "idle", id |-> None, snapshot |-> None, failures |-> 0, final |-> FALSE]

InsightTypeOK ==
  /\ insight \in [Insights ->
       [status : Open \cup {"NONE", "COMPLETED", "FAILED"}, period : Periods \cup {None},
        snapshot : Figures \cup {None}, analysis : Figures \cup {None}, started : BOOLEAN]]
  /\ admitted \in [Insights -> Periods \cup {None}]
  /\ admissions \in 0..DailyLimit /\ calls \in 0..DailyLimit
  /\ creating \subseteq [id : Insights, period : Periods]
  /\ job \in [Insights ->
       [state : {"none", "waiting", "active", "completed", "failed"},
        holder : Workers \cup {None}, snapshot : Figures \cup {None},
        failures : 0..Attempts, stalled : BOOLEAN]]
  /\ work \in [Workers ->
       [at : {"idle", "reading", "captured", "budget", "begin", "asking", "reset",
              "complete", "catch", "return", "throw"},
        id : Insights \cup {None}, snapshot : Figures \cup {None},
        failures : 0..Attempts, final : BOOLEAN]]
  /\ posted \subseteq Insights /\ notices \subseteq Insights
  /\ forgotten \subseteq Insights /\ doubtful \subseteq Insights

Init ==
  /\ insight = [i \in Insights |-> NoInsight]
  /\ admitted = [i \in Insights |-> None] /\ admissions = 0 /\ calls = 0
  /\ creating = {} /\ posted = {}
  /\ job = [i \in Insights |-> NoJob]
  /\ work = [w \in Workers |-> Idle]
  /\ notices = {} /\ forgotten = {} /\ doubtful = {}

-----------------------------------------------------------------------------
(* Requests *)

\* ADMIT_SCRIPT: a request that was admitted before does not count again.
MayAdmit(i, period) ==
  IF admitted[i] = None THEN admissions < DailyLimit ELSE admitted[i] = period

\* create up to the answer of the script.
Admit(i, period) ==
  /\ insight[i].status = "NONE" /\ job[i].state = "none"
  /\ MayAdmit(i, period)
  /\ admissions' = IF admitted[i] = None THEN admissions + 1 ELSE admissions
  /\ admitted' = [admitted EXCEPT ![i] = period]
  /\ creating' = creating \cup {[id |-> i, period |-> period]}
  /\ UNCHANGED <<insight, calls, posted, job, work, faults>>

\* dispatch: a job that exists under this id is left as it is.
Dispatched(i, row) ==
  IF row.status \notin Open \/ job[i].state # "none" THEN job
  ELSE [job EXCEPT ![i] = [NoJob EXCEPT !.state = "waiting", !.snapshot = row.snapshot]]

\* record: the row that is there stays.
IsNew(c) == insight[c.id].status = "NONE"
StoredRow(c) ==
  IF IsNew(c) THEN [NoInsight EXCEPT !.status = "QUEUED", !.period = c.period]
  ELSE insight[c.id]

\* record, with the outbox event, then dispatch unless Redis is out of reach.
Record(c, reached) ==
  LET stored == StoredRow(c) IN
  /\ c \in creating
  /\ insight' = [insight EXCEPT ![c.id] = stored]
  /\ posted' = IF IsNew(c) THEN posted \cup {c.id} ELSE posted
  /\ job' = IF reached /\ stored.period = c.period THEN Dispatched(c.id, stored) ELSE job
  /\ creating' = creating \ {c}
  /\ UNCHANGED <<admitted, admissions, calls, work, faults>>

\* The process ends, or the database is out of reach, before the record.
CallerGone(c) ==
  /\ c \in creating
  /\ creating' = creating \ {c}
  /\ UNCHANGED <<insight, admitted, admissions, calls, posted, job, work, faults>>

\* The outbox delivers at least once.
DeliverRequested(i, again) ==
  /\ i \in posted
  /\ job' = Dispatched(i, insight[i])
  /\ posted' = IF again THEN posted ELSE posted \ {i}
  /\ UNCHANGED <<insight, admitted, admissions, calls, creating, work, faults>>

-----------------------------------------------------------------------------
(* A worker: process.  The queue lets one job be active at a time; each    *)
(* step below is one call of the database, of Redis or of the provider.    *)

Works(w, at) == work[w].at = at
Step(w, at) == work' = [work EXCEPT ![w].at = at]
\* An error that ends the job (UnrecoverableError), or one to try again after.
Throws(w, final) == work' = [work EXCEPT ![w].at = "catch", ![w].final = final]

\* The job is taken and its row read, or not: what is read here is used until
\* the end, and a failure to read it passes the catch block by.
TakeJob(w, i, read) ==
  LET row == insight[i]
      snapshot == IF row.snapshot # None THEN row.snapshot ELSE job[i].snapshot
      at == IF ~read THEN "throw"
            ELSE IF row.status = "COMPLETED" THEN "return"
            ELSE IF row.status = "FAILED" THEN "throw"
            ELSE IF row.started THEN "catch"
            ELSE IF snapshot = None THEN "reading" ELSE "captured"
  IN
  /\ Works(w, "idle") /\ job[i].state = "waiting"
  /\ \A j \in Insights : job[j].state # "active"
  /\ job' = [job EXCEPT ![i].state = "active", ![i].holder = w]
  /\ work' = [work EXCEPT ![w] =
       [at |-> at, id |-> i, snapshot |-> snapshot, failures |-> job[i].failures,
        final |-> read /\ at \in {"catch", "throw"}]]
  /\ UNCHANGED <<insight, calls, askedFor, faults>>

Capture(w, figures) ==
  /\ Works(w, "reading")
  /\ job' = [job EXCEPT ![work[w].id].snapshot = figures]
  /\ work' = [work EXCEPT ![w].at = "captured", ![w].snapshot = figures]
  /\ UNCHANGED <<insight, calls, askedFor, faults>>

\* start
Started(i, snapshot) ==
  [insight EXCEPT ![i] =
     IF @.status \in Open
     THEN [@ EXCEPT !.status = "PROCESSING", !.snapshot = snapshot] ELSE @]
\* Without a paid invoice there is nothing to ask.
Start(w) ==
  /\ Works(w, "captured")
  /\ insight' = Started(work[w].id, work[w].snapshot)
  /\ Step(w, IF work[w].snapshot = Empty THEN "complete" ELSE "budget")
  /\ UNCHANGED <<calls, job, askedFor, faults>>

\* CALL_BUDGET_SCRIPT
CallBudget(w) ==
  /\ Works(w, "budget")
  /\ IF calls < DailyLimit THEN calls' = calls + 1 /\ Step(w, "begin")
                           ELSE calls' = calls /\ Throws(w, TRUE)
  /\ UNCHANGED <<insight, job, askedFor, faults>>

\* Mutant: the call is claimed without looking for another one.
StillProcessing(i) == insight[i].status = "PROCESSING"
MayAsk(i) == insight[i].status = "PROCESSING" /\ ~insight[i].started
BeginProvider(w) ==
  /\ Works(w, "begin")
  /\ IF MayAsk(work[w].id)
     THEN insight' = [insight EXCEPT ![work[w].id].started = TRUE] /\ Step(w, "asking")
     ELSE insight' = insight /\ Throws(w, TRUE)
  /\ UNCHANGED <<calls, job, askedFor, faults>>

\* The provider answers, is unavailable, or rejects the question (or its
\* answer is invalid).
Generate(w, outcome) ==
  /\ Works(w, "asking")
  /\ work' = [work EXCEPT ![w].at = IF outcome = "answer" THEN "complete" ELSE "reset",
                          ![w].final = outcome = "rejected"]
  /\ UNCHANGED <<insight, calls, job, askedFor, faults>>

ResetProvider(w) ==
  /\ Works(w, "reset")
  /\ insight' = [insight EXCEPT ![work[w].id].started = @ /\
                   insight[work[w].id].status # "PROCESSING"]
  /\ Step(w, "catch")
  /\ UNCHANGED <<calls, job, askedFor, faults>>

\* complete
Completed(i, snapshot) ==
  [insight EXCEPT ![i] =
     IF @.status \in Open
     THEN [@ EXCEPT !.status = "COMPLETED", !.snapshot = snapshot, !.analysis = snapshot]
     ELSE @]
Complete(w) ==
  /\ Works(w, "complete")
  /\ insight' = Completed(work[w].id, work[w].snapshot)
  /\ Step(w, "return")
  /\ UNCHANGED <<calls, job, askedFor, faults>>

\* fail: ends an insight that is still open, or queues it again.
Failed(i, terminal) ==
  [insight EXCEPT ![i].status =
     IF @ \notin Open THEN @ ELSE IF terminal THEN "FAILED" ELSE "QUEUED"]

\* The catch block, with the attempts the job had when it was taken.
Catch(w) ==
  /\ Works(w, "catch")
  /\ insight' = Failed(work[w].id, work[w].final \/ work[w].failures + 1 >= Attempts)
  /\ Step(w, "throw")
  /\ UNCHANGED <<calls, job, askedFor, faults>>

\* The database or Redis fails a step.  What fails in the catch block leaves
\* the row as it is.
StepFails(w) ==
  /\ work[w].at \in {"reading", "captured", "budget", "begin", "reset", "complete", "catch"}
  /\ IF Works(w, "catch") THEN Step(w, "throw") ELSE Throws(w, FALSE)
  /\ UNCHANGED <<insight, calls, job, askedFor, faults>>

Holds(w) == job[work[w].id].holder = w

\* BullMQ: the result is kept if the worker has not lost its lock.
JobCompletes(w) ==
  /\ Works(w, "return")
  /\ job' = IF Holds(w) THEN [job EXCEPT ![work[w].id].state = "completed",
                                         ![work[w].id].holder = None] ELSE job
  /\ work' = [work EXCEPT ![w] = Idle]
  /\ UNCHANGED <<insight, calls, askedFor, faults>>

JobFails(w) ==
  LET i == work[w].id
      ends == work[w].final \/ job[i].failures + 1 >= Attempts
  IN
  /\ Works(w, "throw")
  /\ job' = IF Holds(w) THEN [job EXCEPT ![i].state = IF ends THEN "failed" ELSE "waiting",
                                         ![i].holder = None, ![i].failures = @ + 1]
                        ELSE job
  /\ notices' = IF Holds(w) /\ ends THEN notices \cup {i} ELSE notices
  /\ work' = [work EXCEPT ![w] = Idle]
  /\ UNCHANGED <<insight, calls, askedFor, forgotten, doubtful>>

\* BullMQ: the lock of an active job expired, whether its worker is dead or
\* slow.  The second time ends the job.
Stall(i) ==
  /\ job[i].state = "active"
  /\ job' = [job EXCEPT ![i].state = IF job[i].stalled THEN "failed" ELSE "waiting",
                        ![i].holder = None, ![i].stalled = TRUE]
  /\ notices' = IF job[i].stalled THEN notices \cup {i} ELSE notices
  /\ UNCHANGED <<insight, calls, work, askedFor, forgotten, doubtful>>

\* worker.on('failed'), for a job that has ended.
OnFailed(i) ==
  /\ i \in notices
  /\ insight' = Failed(i, TRUE)
  /\ notices' = notices \ {i}
  /\ UNCHANGED <<calls, job, work, askedFor, forgotten, doubtful>>

-----------------------------------------------------------------------------
(* Faults *)

Crash(w) ==
  /\ ~Works(w, "idle")
  /\ doubtful' = IF Works(w, "asking") THEN doubtful \cup {work[w].id} ELSE doubtful
  /\ work' = [work EXCEPT ![w] = Idle]
  /\ UNCHANGED <<insight, calls, job, askedFor, notices, forgotten>>

\* The process ends before it handles the event, or its write fails.
LoseNotice(i) ==
  /\ i \in notices
  /\ notices' = notices \ {i} /\ forgotten' = forgotten \cup {i}
  /\ UNCHANGED <<insight, calls, job, work, askedFor, doubtful>>

-----------------------------------------------------------------------------
Next ==
  \/ \E i \in Insights, period \in Periods : Admit(i, period)
  \/ \E c \in creating : (\E reached \in BOOLEAN : Record(c, reached)) \/ CallerGone(c)
  \/ \E i \in Insights, again \in BOOLEAN : DeliverRequested(i, again)
  \/ \E w \in Workers, i \in Insights, read \in BOOLEAN : TakeJob(w, i, read)
  \/ \E w \in Workers, figures \in Figures : Capture(w, figures)
  \/ \E w \in Workers, outcome \in {"answer", "unavailable", "rejected"} :
       Generate(w, outcome)
  \/ \E w \in Workers :
       \/ Start(w) \/ CallBudget(w) \/ BeginProvider(w) \/ ResetProvider(w)
       \/ Complete(w) \/ Catch(w) \/ StepFails(w) \/ JobCompletes(w) \/ JobFails(w)
       \/ Crash(w)
  \/ \E i \in Insights : Stall(i) \/ OnFailed(i) \/ LoseNotice(i)

Spec == Init /\ [][Next]_vars

-----------------------------------------------------------------------------
Asking(i) == {w \in Workers : work[w].id = i /\ Works(w, "asking")}
Recorded == {i \in Insights : insight[i].status # "NONE"}

\* The provider is asked for an insight by one worker at a time, and never
\* again once a worker died during its call: nobody knows whether that call
\* was charged (beginProvider, AI_OUTCOME_UNKNOWN).  An insight that is
\* recorded and not decided has an event, a job or a failed job's notice that
\* will decide it, unless that notice was lost.  The day's limit bounds the
\* insights recorded, each for the period that was admitted, and the analysis
\* of a completed one is of the figures it shows.
InsightsTrue ==
  /\ InsightTypeOK
  /\ \A i \in Insights : Cardinality(Asking(i)) <= 1
  /\ \A i \in doubtful : Asking(i) = {}
  /\ \A i \in Insights : insight[i].status \in Open =>
       \/ i \in posted \cup notices \cup forgotten
       \/ job[i].state \in {"waiting", "active"}
  /\ Cardinality(Recorded) <= admissions
  /\ \A i \in Recorded : insight[i].period = admitted[i]
  /\ \A i \in Insights :
       insight[i].analysis = IF insight[i].status = "COMPLETED" THEN insight[i].snapshot
                             ELSE None

\* An insight that was completed or failed stays as it is, whatever a worker
\* that lost its job still writes.
OutcomesFinal ==
  \A i \in Insights : insight[i].status \in {"COMPLETED", "FAILED"} =>
    insight'[i].status = insight[i].status /\ insight'[i].snapshot = insight[i].snapshot
=============================================================================
