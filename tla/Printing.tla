------------------------------ MODULE Printing ------------------------------
(***************************************************************************)
(* Print devices, print jobs and their agents (printing.service.ts), the   *)
(* kitchen tickets of one station (kitchen-routing.service.ts) and what    *)
(* happens to them when order lines are split or cancelled.  An agent      *)
(* takes jobs under a lease; what it did is known only from what it says,  *)
(* and it may be late, repeat itself or never come back.                   *)
(***************************************************************************)
EXTENDS Integers, Sequences, FiniteSets, Sums

CONSTANTS Devices,      \* printers that may be registered
          NoDevice,     \* deviceId = null
          MaxAttempts,  \* maxAttempts of a job
          MaxJobs,      \* bound: jobs ever queued
          MaxLines,     \* bound: kitchen lines ever ordered
          MaxClaims     \* bound: claims of one job

VARIABLES device,    \* the PrintDevice rows
          station,   \* printDeviceId of the kitchen station
          lines,     \* the order lines routed to the station, oldest first
          jobs,      \* the PrintJob rows, oldest first
          invoice,   \* one invoice: is it paid
          chosen     \* the printer read for its automatic receipt, or "idle"

vars == <<device, station, lines, jobs, invoice, chosen>>

DeviceType == {"KITCHEN", "RECEIPT"}
Device == [row : {"NONE", "ACTIVE", "INACTIVE", "DELETED"}, type : DeviceType,
           isDefault : BOOLEAN]
NoRow == [row |-> "NONE", type |-> "RECEIPT", isDefault |-> FALSE]
JobStatus == {"PENDING", "PROCESSING", "PRINTED", "FAILED", "REQUIRES_REVIEW",
              "CANCELLED"}
\* What the agent of a claim did: it is at it, it gave up with no paper out
\* (but may say so late), or the paper came out.
Phase == {"working", "gone", "printed"}
LineIds == 1..MaxLines
Kitchen == {"ticket", "slip"}
\* token: the claim whose token hash the row keeps, 0 for null; items: the
\* quantities the document carries; of: the ticket a cancellation slip is for.
Job == [kind : Kitchen \cup {"receipt", "reprint", "precheck"}, status : JobStatus,
        device : Devices \cup {NoDevice}, attempts : 0..MaxAttempts,
        lease : {"none", "held", "late"}, token : 0..MaxClaims,
        items : [LineIds -> Nat], of : 0..MaxJobs,
        claims : Seq(Phase)]
Line == [status : {"PENDING", "CANCELLED"}, quantity : Nat \ {0}]

Init ==
  /\ device = [d \in Devices |-> NoRow]
  /\ station = NoDevice
  /\ lines = <<>>
  /\ jobs = <<>>
  /\ invoice = "UNPAID"
  /\ chosen = "idle"

Active(d) == d \in Devices /\ device[d].row = "ACTIVE"
Defaults == {d \in Devices : device[d].isDefault}
NoItems == [l \in LineIds |-> 0]
NewJob(kind, d, items) ==
  [kind |-> kind, status |-> "PENDING", device |-> d, attempts |-> 0,
   lease |-> "none", token |-> 0, items |-> items, of |-> 0, claims |-> <<>>]
Room(n) == Len(jobs) + n <= MaxJobs
ExpectedType(kind) == IF kind \in Kitchen THEN "KITCHEN" ELSE "RECEIPT"
Compatible(d, kind) == Active(d) /\ device[d].type = ExpectedType(kind)
Cancelled == {l \in DOMAIN lines : lines[l].status = "CANCELLED"}
Without(items, S) == [l \in LineIds |-> IF l \in S THEN 0 ELSE items[l]]
Only(items, S) == [l \in LineIds |-> IF l \in S THEN items[l] ELSE 0]
Carries(job, S) == \E l \in S : job.items[l] > 0

-----------------------------------------------------------------------------
(* Leases                                                                  *)

Recovered(job) == [job EXCEPT !.status = "REQUIRES_REVIEW", !.lease = "none"]
\* recoverExpiredJobs, of all devices or of one.
RecoverExpiredJobs(rows, ds) ==
  [j \in DOMAIN rows |->
     IF rows[j].status = "PROCESSING" /\ rows[j].lease = "late" /\ rows[j].device \in ds
     THEN Recovered(rows[j]) ELSE rows[j]]

\* Agents print nothing once their lease has ended.
LeaseEnds(j) ==
  /\ jobs[j].lease = "held"
  /\ jobs' = [jobs EXCEPT ![j].lease = "late",
                          ![j].claims[jobs[j].token] = IF @ = "working" THEN "gone" ELSE @]
  /\ UNCHANGED <<device, station, lines, invoice, chosen>>

\* PrintLeaseRecoveryService.run, every 15 seconds.
RecoverExpiredLeases ==
  /\ RecoverExpiredJobs(jobs, Devices) # jobs
  /\ jobs' = RecoverExpiredJobs(jobs, Devices)
  /\ UNCHANGED <<device, station, lines, invoice, chosen>>

-----------------------------------------------------------------------------
(* Devices and the station                                                 *)

\* clearDefault, then the row itself.
WithDevice(d, row) ==
  [e \in Devices |->
     IF e = d THEN row
     ELSE IF row.isDefault THEN [device[e] EXCEPT !.isDefault = FALSE]
     ELSE device[e]]
Unassigned(job) == job.status = "PENDING" /\ job.device = NoDevice
\* assignPendingDefaultJobs
AssignPendingDefaultJobs(rows, d) ==
  [j \in DOMAIN rows |->
     IF Unassigned(rows[j]) /\ rows[j].kind \notin Kitchen
     THEN [rows[j] EXCEPT !.device = d] ELSE rows[j]]
DetachPending(rows, d) ==
  [j \in DOMAIN rows |->
     IF rows[j].status = "PENDING" /\ rows[j].device = d
     THEN [rows[j] EXCEPT !.device = NoDevice] ELSE rows[j]]
Leased(rows, d) ==
  \E j \in DOMAIN rows : rows[j].device = d /\ rows[j].status = "PROCESSING"

\* asks: dto.isDefault, when it is given.
CreateDevice(d, type, asks) ==
  /\ device[d].row = "NONE"
  /\ ~(type = "KITCHEN" /\ asks = "yes")
  /\ LET isDefault == /\ type = "RECEIPT"
                      /\ asks = "yes" \/ (asks = "unset" /\ Defaults = {})
     IN
     /\ device' = WithDevice(d, [row |-> "ACTIVE", type |-> type,
                                 isDefault |-> isDefault])
     /\ jobs' = IF isDefault THEN AssignPendingDefaultJobs(jobs, d) ELSE jobs
  /\ UNCHANGED <<station, lines, invoice, chosen>>

\* The bodies an update may have: dto.isActive, dto.isDefault, dto.type.
DeviceChanges ==
  [active : {"yes", "no"}, asks : {"unset"}, type : {"unset"}]
  \cup [active : {"unset", "yes"}, asks : {"yes", "no"}, type : {"unset"}]
  \cup [active : {"unset"}, asks : {"unset"}, type : DeviceType]

ChangedRow(d, dto) ==
  LET type == IF dto.type = "unset" THEN device[d].type ELSE dto.type
      isActive == dto.active = "yes"
                    \/ (dto.active = "unset" /\ device[d].row = "ACTIVE")
  IN [row |-> IF isActive THEN "ACTIVE" ELSE "INACTIVE",
      type |-> type,
      isDefault |-> /\ isActive /\ type = "RECEIPT"
                    /\ \/ dto.asks = "yes"
                       \/ /\ dto.asks = "unset" /\ type = device[d].type
                          /\ device[d].isDefault]

UpdateDevice(d, dto) ==
  /\ device[d].row \in {"ACTIVE", "INACTIVE"}
  /\ LET row == ChangedRow(d, dto)
         rows == IF dto.active = "no" THEN RecoverExpiredJobs(jobs, {d}) ELSE jobs
     IN
     /\ ~(row.type = "KITCHEN" /\ dto.asks = "yes")
     /\ row.type # "KITCHEN" => station # d
     /\ row.type # device[d].type => \A j \in DOMAIN jobs : jobs[j].device # d
     /\ dto.active = "no" => ~Leased(rows, d)
     /\ device' = WithDevice(d, row)
     /\ jobs' = IF dto.active = "no" THEN DetachPending(rows, d)
                ELSE IF row.isDefault THEN AssignPendingDefaultJobs(rows, d) ELSE rows
  /\ UNCHANGED <<station, lines, invoice, chosen>>

DeleteDevice(d) ==
  /\ device[d].row \in {"ACTIVE", "INACTIVE"}
  /\ LET rows == RecoverExpiredJobs(jobs, {d}) IN
     /\ ~Leased(rows, d)
     /\ jobs' = DetachPending(rows, d)
  /\ station' = IF station = d THEN NoDevice ELSE station
  /\ device' = [device EXCEPT ![d].row = "DELETED", ![d].isDefault = FALSE]
  /\ UNCHANGED <<lines, invoice, chosen>>

\* createStation, updateStation and deleteStation: a kitchen printer or none.
AssignStation(d) ==
  /\ d # station
  /\ d # NoDevice => Compatible(d, "ticket")
  /\ station' = d
  /\ UNCHANGED <<device, lines, jobs, invoice, chosen>>

-----------------------------------------------------------------------------
(* Kitchen lines and their tickets                                         *)

\* createTickets: a ticket for new lines; paper too if the printer is active.
CreateTickets(quantities) ==
  LET old == Len(lines)
      ordered == [l \in LineIds |->
        IF l \in old + 1..old + Len(quantities) THEN quantities[l - old] ELSE 0]
  IN
  /\ old + Len(quantities) <= MaxLines
  /\ lines' = lines \o [k \in DOMAIN quantities |->
                          [status |-> "PENDING", quantity |-> quantities[k]]]
  /\ IF Active(station)
     THEN /\ Room(1)
          /\ jobs' = Append(jobs, NewJob("ticket", station, ordered))
     ELSE UNCHANGED jobs
  /\ UNCHANGED <<device, station, invoice, chosen>>

Tickets(S) ==
  {j \in DOMAIN jobs : /\ jobs[j].kind = "ticket" /\ jobs[j].status # "CANCELLED"
                       /\ Carries(jobs[j], S)}
Unclaimed(job) == job.status \in {"PENDING", "FAILED"}

\* splitKitchenItems, with the quantities split moves: part of one line.
SplitLine(l) ==
  LET new == Len(lines) + 1
      moved == InOrder(Tickets({l}))
      part(n) == [jobs[moved[n]] EXCEPT
        !.items = [NoItems EXCEPT ![new] = 1], !.attempts = 0, !.token = 0,
        !.claims = <<>>]
  IN
  /\ lines[l].status = "PENDING" /\ lines[l].quantity > 1
  /\ new <= MaxLines /\ Room(Len(moved))
  /\ \A j \in Tickets({l}) : jobs[j].items[l] = lines[l].quantity /\ Unclaimed(jobs[j])
  /\ lines' = Append([lines EXCEPT ![l].quantity = @ - 1],
                     [status |-> "PENDING", quantity |-> 1])
  /\ jobs' = [j \in DOMAIN jobs |->
                IF j \in Tickets({l})
                THEN [jobs[j] EXCEPT !.items[l] = @ - 1] ELSE jobs[j]]
               \o [n \in DOMAIN moved |-> part(n)]
  /\ UNCHANGED <<device, station, invoice, chosen>>

Trimmed(job, S) ==
  LET items == Without(job.items, S) IN
  [job EXCEPT !.items = items,
              !.status = IF items = NoItems THEN "CANCELLED" ELSE job.status]
\* Mutant: only a printed ticket is recalled, not one in an agent's hands.
RecallPrinted(S) ==
  LET claimed == InOrder({j \in Tickets(S) : jobs[j].status = "PRINTED"})
  IN
  [j \in DOMAIN jobs |->
     IF Unclaimed(jobs[j]) /\ jobs[j].kind = "ticket" /\ Carries(jobs[j], S)
     THEN Trimmed(jobs[j], S) ELSE jobs[j]]
    \o [n \in DOMAIN claimed |->
          [NewJob("slip", jobs[claimed[n]].device, Only(jobs[claimed[n]].items, S))
             EXCEPT !.of = claimed[n]]]
\* cancelKitchenItems: a ticket nobody has claimed is rewritten, any other is
\* followed by a cancellation slip to the same printer.
CancelKitchenItems(S) ==
  LET claimed == InOrder({j \in Tickets(S) : ~Unclaimed(jobs[j])})
  IN
  [j \in DOMAIN jobs |->
     IF Unclaimed(jobs[j]) /\ jobs[j].kind = "ticket" /\ Carries(jobs[j], S)
     THEN Trimmed(jobs[j], S) ELSE jobs[j]]
    \o [n \in DOMAIN claimed |->
          [NewJob("slip", jobs[claimed[n]].device, Only(jobs[claimed[n]].items, S))
             EXCEPT !.of = claimed[n]]]

\* A line, or all that is left of a session, is cancelled.
CancelLines(S) ==
  /\ S # {} /\ S \cap Cancelled = {}
  /\ Len(CancelKitchenItems(S)) <= MaxJobs
  /\ lines' = [l \in DOMAIN lines |->
                 IF l \in S THEN [lines[l] EXCEPT !.status = "CANCELLED"] ELSE lines[l]]
  /\ jobs' = CancelKitchenItems(S)
  /\ UNCHANGED <<device, station, invoice, chosen>>

-----------------------------------------------------------------------------
(* Receipts                                                                *)

\* resolveReceiptDevice without a request.
DefaultDevice == IF Defaults = {} THEN NoDevice ELSE CHOOSE d \in Defaults : TRUE
ReceiptJobs == {j \in DOMAIN jobs : jobs[j].kind \in {"receipt", "reprint"}}
NoReceiptYet == \A j \in ReceiptJobs : jobs[j].kind # "receipt"

Pay ==
  /\ invoice = "UNPAID"
  /\ invoice' = "PAID"
  /\ UNCHANGED <<device, station, lines, jobs, chosen>>

\* createAutomaticReceipt, for each delivery of the event: the printer is read
\* in a transaction that does not lock it.
ReadReceiptDevice ==
  /\ invoice = "PAID" /\ chosen = "idle" /\ NoReceiptYet
  /\ chosen' = DefaultDevice
  /\ UNCHANGED <<device, station, lines, jobs, invoice>>
CreateAutomaticReceipt ==
  /\ chosen # "idle" /\ Room(1)
  /\ jobs' = Append(jobs, NewJob("receipt", chosen, NoItems))
  /\ chosen' = "idle"
  /\ UNCHANGED <<device, station, lines, invoice>>

\* reprintReceipt, to the default printer or to d.
ReprintReceipt(d) ==
  /\ invoice = "PAID" /\ Room(1)
  /\ d # DefaultDevice => Compatible(d, "reprint")
  /\ \A j \in ReceiptJobs : jobs[j].status # "REQUIRES_REVIEW"
  /\ jobs' = Append(jobs, NewJob("reprint", d, NoItems))
  /\ UNCHANGED <<device, station, lines, invoice, chosen>>
CreatePrecheck(d) ==
  /\ invoice = "UNPAID" /\ Room(1)
  /\ d # DefaultDevice => Compatible(d, "precheck")
  /\ jobs' = Append(jobs, NewJob("precheck", d, NoItems))
  /\ UNCHANGED <<device, station, lines, invoice, chosen>>

-----------------------------------------------------------------------------
(* Agents                                                                  *)

\* claimJobs: expired leases of the printer first, then one job, any of those
\* whose time has come.
ClaimJobs(d) ==
  LET rows == RecoverExpiredJobs(jobs, {d})
      candidates == {j \in DOMAIN rows : /\ rows[j].device = d
                                         /\ rows[j].status = "PENDING"
                                         /\ rows[j].attempts < MaxAttempts}
  IN
  /\ Active(d)
  /\ \E j \in candidates :
       /\ Len(jobs[j].claims) < MaxClaims
       /\ jobs' = [rows EXCEPT ![j].status = "PROCESSING", ![j].lease = "held",
                     ![j].attempts = @ + 1, ![j].token = Len(jobs[j].claims) + 1,
                     ![j].claims = Append(@, "working")]
  /\ UNCHANGED <<device, station, lines, invoice, chosen>>

\* The paper comes out, while the agent holds the lease.
PrintPaper(j) ==
  /\ jobs[j].lease = "held" /\ jobs[j].claims[jobs[j].token] = "working"
  /\ jobs' = [jobs EXCEPT ![j].claims[jobs[j].token] = "printed"]
  /\ UNCHANGED <<device, station, lines, invoice, chosen>>

\* completeJob for claim t, also after its lease, and as often as the answer
\* is lost.
CompleteJob(j, t) ==
  /\ jobs[j].claims[t] = "printed"
  /\ Active(jobs[j].device)
  /\ jobs[j].status \in {"PROCESSING", "REQUIRES_REVIEW"} /\ jobs[j].token = t
  /\ jobs' = [jobs EXCEPT ![j].status = "PRINTED", ![j].lease = "none"]
  /\ UNCHANGED <<device, station, lines, invoice, chosen>>

\* failJob with NOT_PRINTED.
NotPrinted(job) ==
  LET items == IF job.kind = "ticket" THEN Without(job.items, Cancelled) ELSE job.items
  IN [job EXCEPT !.items = items, !.lease = "none", !.token = 0,
        !.status = IF job.kind = "ticket" /\ items = NoItems THEN "CANCELLED"
                   ELSE IF job.attempts >= MaxAttempts THEN "FAILED" ELSE "PENDING"]
\* Mutant: a late report is believed whichever claim it speaks for.
ReportAnyClaim(j, t) == jobs[j].status = "PROCESSING" /\ jobs[j].lease = "held"
HoldsLease(j, t) ==
  jobs[j].status = "PROCESSING" /\ jobs[j].lease = "held" /\ jobs[j].token = t
\* failJob for claim t: the agent knows that nothing came out, or is not sure.
FailJob(j, t, outcome) ==
  LET told == [jobs EXCEPT ![j].claims[t] = IF @ = "working" THEN "gone" ELSE @]
  IN
  /\ jobs[j].claims[t] = "printed" => outcome = "UNKNOWN"
  /\ Active(jobs[j].device)
  /\ HoldsLease(j, t)
  /\ jobs' = IF outcome = "UNKNOWN" THEN [told EXCEPT ![j] = Recovered(@)]
             ELSE [told EXCEPT ![j] = NotPrinted(@)]
  /\ UNCHANGED <<device, station, lines, invoice, chosen>>

-----------------------------------------------------------------------------
(* Operators                                                               *)

Papers(job) ==
  Cardinality({t \in DOMAIN job.claims : job.claims[t] = "printed"})

\* resolveJob, by an operator who has looked for the paper.
ResolveJob(j) ==
  /\ jobs[j].status = "REQUIRES_REVIEW"
  /\ Papers(jobs[j]) > 0 => jobs[j].device # NoDevice
  /\ jobs' = [jobs EXCEPT
       ![j].status = IF Papers(jobs[j]) > 0 THEN "PRINTED" ELSE "FAILED",
       ![j].token = 0]
  /\ UNCHANGED <<device, station, lines, invoice, chosen>>

\* retryJob, on the printer it has or on d.
RetryJob(j, d) ==
  LET items == IF jobs[j].kind = "ticket" THEN Without(jobs[j].items, Cancelled)
               ELSE jobs[j].items
      row == [jobs[j] EXCEPT !.status = "PENDING", !.device = d, !.attempts = 0,
                             !.items = items]
  IN
  /\ Unclaimed(jobs[j])
  /\ d # NoDevice => Compatible(d, jobs[j].kind)
  /\ jobs[j].kind = "ticket" => items # NoItems
  /\ jobs' = [jobs EXCEPT ![j] = row]
  /\ jobs' # jobs
  /\ UNCHANGED <<device, station, lines, invoice, chosen>>

-----------------------------------------------------------------------------
Next ==
  \/ \E d \in Devices, t \in DeviceType, a \in {"unset", "yes", "no"} :
       CreateDevice(d, t, a)
  \/ \E d \in Devices, dto \in DeviceChanges : UpdateDevice(d, dto)
  \/ \E d \in Devices : DeleteDevice(d)
  \/ \E d \in Devices \cup {NoDevice} : AssignStation(d)
  \/ \E q \in {<<2>>, <<1, 2>>} : CreateTickets(q)
  \/ \E l \in DOMAIN lines : SplitLine(l)
  \/ \E S \in SUBSET DOMAIN lines : CancelLines(S)
  \/ Pay
  \/ ReadReceiptDevice
  \/ CreateAutomaticReceipt
  \/ \E d \in Devices \cup {NoDevice} : ReprintReceipt(d)
  \/ \E d \in Devices \cup {NoDevice} : CreatePrecheck(d)
  \/ \E d \in Devices : ClaimJobs(d)
  \/ \E j \in DOMAIN jobs : PrintPaper(j)
  \/ \E j \in DOMAIN jobs : \E t \in DOMAIN jobs[j].claims : CompleteJob(j, t)
  \/ \E j \in DOMAIN jobs : \E t \in DOMAIN jobs[j].claims :
       \E outcome \in {"NOT_PRINTED", "UNKNOWN"} : FailJob(j, t, outcome)
  \/ \E j \in DOMAIN jobs : LeaseEnds(j)
  \/ RecoverExpiredLeases
  \/ \E j \in DOMAIN jobs : ResolveJob(j)
  \/ \E j \in DOMAIN jobs, d \in Devices \cup {NoDevice} : RetryJob(j, d)

Spec == Init /\ [][Next]_vars

-----------------------------------------------------------------------------
TypeOK ==
  /\ device \in [Devices -> Device]
  /\ station \in Devices \cup {NoDevice}
  /\ lines \in Seq(Line) /\ Len(lines) <= MaxLines
  /\ jobs \in Seq(Job) /\ Len(jobs) <= MaxJobs
  /\ invoice \in {"UNPAID", "PAID"}
  /\ chosen \in Devices \cup {NoDevice, "idle"}

\* Devices, their jobs and the station agree at every moment: one default
\* printer at most, and it is an active receipt printer; no lease on a printer
\* that is off; no document with a printer of the other kind (but for a
\* receipt, whose printer is read unlocked).
DevicesConsistent ==
  /\ Cardinality(Defaults) <= 1
  /\ \A d \in Defaults : Compatible(d, "receipt")
  /\ \A j \in DOMAIN jobs : jobs[j].status = "PROCESSING" => Active(jobs[j].device)
  /\ \A j \in DOMAIN jobs : jobs[j].device # NoDevice /\ jobs[j].kind # "receipt" =>
       device[jobs[j].device].type = ExpectedType(jobs[j].kind)
  /\ station # NoDevice => device[station].type = "KITCHEN"

\* "Uncertain paper output needs operator review, not a blind reprint"
\* (deploy/observability/README.md:56): one print job brings out one paper at
\* most, whatever its agents do and however often it is claimed, and a job
\* whose paper is out is printed, in an agent's hands or under review, never
\* one that can be claimed again or that was given up; and the jobs lie with
\* printers that may have them.
PaperIsAccounted ==
  /\ TypeOK /\ DevicesConsistent
  /\ \A j \in DOMAIN jobs :
       /\ Papers(jobs[j]) <= 1
       /\ jobs[j].status = "PRINTED" => Papers(jobs[j]) = 1
       /\ Papers(jobs[j]) = 1 =>
            jobs[j].status \in {"PRINTED", "PROCESSING", "REQUIRES_REVIEW"}
  /\ Cardinality({j \in DOMAIN jobs : jobs[j].kind = "receipt"}) <= 1

OnTickets(l) ==
  Total([j \in DOMAIN jobs |-> jobs[j].items[l]],
        {j \in DOMAIN jobs : jobs[j].kind = "ticket" /\ jobs[j].status # "CANCELLED"})

\* The kitchen's paper says what was ordered: through retries, splits and
\* requeues a live line that was ticketed is on the tickets once, with its
\* quantity; a cancelled line is on no ticket waiting for a printer, and every
\* ticket that may have come out with it is followed by a slip that recalls it
\* (cancelKitchenItems, retryJob, failJob).
KitchenPaperTrue ==
  /\ \A l \in DOMAIN lines \ Cancelled :
       OnTickets(l) \in {0, lines[l].quantity}
  /\ \A j \in DOMAIN jobs : \A l \in Cancelled :
       jobs[j].kind = "ticket" /\ jobs[j].items[l] > 0 =>
         \/ jobs[j].status = "FAILED"
         \/ /\ ~Unclaimed(jobs[j])
            /\ \E s \in DOMAIN jobs : /\ jobs[s].kind = "slip" /\ jobs[s].of = j
                                      /\ jobs[s].items[l] = jobs[j].items[l]
=============================================================================
