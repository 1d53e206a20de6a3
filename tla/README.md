# Coffee shop backend: TLA+ models, model checking and proofs

The repository is a NestJS backend for one coffee shop: point of sale, kitchen,
stock, online payment, online ordering and back office, on PostgreSQL (through
Prisma) with optional Redis/BullMQ. This directory holds TLA+ models of its
services, the TLC configurations that check them, and proofs about the outbox,
payments, refunds, orders, the cash desk, online orders and fifteen more services:
every safety property the runs check is also proved for all constants.
`PROJECT.json` maps every definition to the lines it translates and lists
components, runs, mutants, hazards and theorems.

    tlc -workers 2 -config Orders.cfg MCOrders          # one of the runs
    tlapm OrdersProofs.tla                              # the proofs about one module

## 1. Inventory

| Component | State | Operations | What is hard | Correct when |
|---|---|---|---|---|
| Transactional outbox (`durable/`) | `OutboxEvent` rows, BullMQ jobs, batches and deliveries in memory | `enqueue`, claim, hand to BullMQ, deliver, mark, fail, recover, purge, manual retry | two processes, leases that expire, Redis commands that time out, retained jobs, crashes | every event is handled or visibly dead-lettered; only the lease holder writes an outcome |
| Online payments (`payments/payments`) | `PaymentAttempt`, `PaymentWebhookEvent`, incidents | create, present, three notification handlers | notifications lost, repeated, reordered, contradictory; payment at the counter meanwhile | transfer on an invoice = money captured, once |
| Reconciliation (`payments/payment-reconciliation`) | locks, due times and query counts of attempts, incidents | scheduled, manual and webhook-driven query; incident resolution | answers applied after the state they were asked for changed; locks taken over; lost notifications | every attempt is settled or shown to a person |
| Refunds (`payments/payment-refunds`) | `PaymentRefund`, incidents | create, submit, apply answer, recover | requests that time out and are carried out later | never more than was captured; books follow the bank |
| Orders and sessions (`orders/`) | `OrderSession`, `OrderItem`, remakes | open, add, change status, cancel, remake, transfer, merge, split, complete, clear | screens out of date with each other; long sequences of legal calls | tables, sessions, lines and bills agree |
| Dining tables | table status | create, rename, delete | deletion against transfer and opening | occupied exactly while somebody sits there |
| Invoices | `Invoice`, link from lines | create, check out, pay, complete online, void | voiding and splitting against cooking and paying | lines and bill are paid together |
| Inventory consumption, movements | stock, reserved stock, reservations, snapshots, waste | reserve, release, consume, waste, import, export | what is promised to one line is taken by another | stock balances; what is paid can be cooked |
| Stock catalogue, purchasing, stocktakes | receipts, stocktake drafts, items | draft, post, reverse, cancel | counts posted against a stale snapshot | posting never takes promised stock |
| Idempotent requests (`durable/idempotency`) | request keys with fingerprints and responses | execute, replay, collide, expire | a retry while the first attempt runs | a key takes effect once |
| Online orders, pickup (`online-orders/`, `orders/takeaway`) | requests, slots, pickup codes | intake, accept, reject, cancel, prepare, collect | customer cancels while staff accept or cook; slot capacity | capacity and stock return exactly once |
| Printing | print jobs, agents, kitchen slips | lease, acknowledge, fail, recover, cancel, split | agents that lose a lease and answer late | no ticket lost, none printed for what is cancelled |
| Kitchen stations and display (`kitchen/`) | stations, routes of dishes, tickets with due times | create, switch off, delete, route; list, workload, late tickets | a station or route changes while its tickets wait; four screens judge one ticket | work waits where somebody sees it, and the screens agree on what is late |
| Cashier shifts, handovers, funds, cash refunds, bank matching | shifts, ledger entries, handovers | open, record, request, close, hand over, settle, refund, import, match | a handover into a drawer in use, a payment confirmed after the close, a deposit settled twice | the books add up to the drawer; no money is lost on its way to the bank |
| Reservations | reservations with time slots | request, approve, check in, cancel, no-show | overlap, deletion of the table | no table promised twice |
| Authentication | sessions, refresh tokens, reset tokens | login, rotate, revoke, reset | a rotated token used twice | a stolen token ends the family |
| Roles, employees, positions | employees with roles, roles with permissions | create, grant, assign, move, deactivate, delete | a request let in by the guard and carried out after its actor lost the right; owners who remove each other | an owner remains; rights change only by somebody who has them |
| Telegram (`online-orders/telegram-*`) | linked chat, outbox events, handlers | link, acknowledge, notify, defer, stop | messages and links overtake each other; sends whose outcome is unknown | a linked customer is told what the order's state owes them |
| Menu and pictures (`menu/`) | categories, items, recipes, uploads, objects in the store | edit from two screens, upload, attach, clean up | calls to the object store between transactions, uploads that arrive late | every picture shown exists; every object can be removed |
| Business insights (`reports/business-insight*`) | insight rows, Redis admissions, jobs | admit, record, dispatch, capture, ask the provider, complete, fail | workers that lose a job while they hold a paid call; crash during the call | the provider is asked once; every insight is decided |
| Promotions and prices (`promotions/`, quotes of `invoices/`) | promotions, quotes, invoice amounts | create, change, remove, restore, publish, quote, bill | changes between the quote and the bill; rounding | charged as quoted and as promised |
| Equipment, system settings | rows with a history | create, edit, change status, remove | rows read outside the transaction that writes them | the history tells every state the row had |
| Daily sales close (`reports/daily-sales-close`) | one snapshot per business day | close, read with the refunds since | payments, refunds and remakes that are decided around and after midnight | a closed day differs from its snapshot by the refunds shown, and by nothing else that was sold |
| Customers, reports, recommendations | rows | sign-in, queries | little protocol state | - |

**Interaction.** Services call each other inside one serializable transaction
(`common/prisma/transaction.util.ts` retries a serialization failure up to three
times). Side effects outside the database go through the outbox: the transaction
writes an `OutboxEvent`, and listeners (printing, realtime feed, Telegram, the
PayOS query) run after the commit, possibly late and more than once. Schedulers
run payment reconciliation, refund recovery and print lease recovery. Payment
providers are called between transactions, never within one.

## 2. Modules

| Module | Models | Role |
|---|---|---|
| `Outbox` | dispatcher, BullMQ worker, housekeeping, manual retry | detailed specification |
| `OutboxContract` | what the outbox promises its users | abstract specification |
| `OutboxProofs` | proofs about `Outbox`, including the refinement | TLAPS |
| `Sums` | sums over rows, as SQL computes them, and rows in the order of their numbers | used by refunds, orders, the cash desk, printing, kitchen and the daily close |
| `SumTheorems` | what the sums compute, and that the order lists each row once | TLAPS |
| `PaymentAttempts` | payments, reconciliation, payment at the counter | detailed specification |
| `PaymentRefunds` | VNPay refunds and their recovery | detailed specification |
| `Orders` | tables, sessions, lines, bills, reservations, stock | composition: these components share transactions |
| `CashDesk` | cashier shifts, expense requests, cash refunds, funds, handovers, bank statements | composition: all of them move the balance of a fund |
| `OnlineOrders` | requests from the public page until collection, cancellation or no-show | composition: request, session, lines, ticket, invoice and stock change in one transaction |
| `Idempotency` | requests with an idempotency key, on the retried serializable transaction | detailed specification |
| `Reservations` | reservations, public requests, tables | detailed specification |
| `StockRoom` | stocktakes, receipts, items, suppliers | detailed specification |
| `AuthSessions` | sign-in, refresh tokens, revocation, password reset | detailed specification |
| `Access` | roles, permissions, employees, positions | detailed specification |
| `Takeaway` | pickup codes, hand-over, feedback | detailed specification |
| `TelegramNotices` | messages to customers and staff | detailed specification |
| `Menu` | menu, recipes, pictures | detailed specification |
| `Printing` | printers, jobs, leases, kitchen tickets and slips | detailed specification |
| `Insights` | AI reports | detailed specification |
| `Equipment`, `SystemSettings`, `Pricing` | registers with a history, promotions and amounts | detailed specifications |
| `KitchenStations` | stations, routes, tickets and the screens that show them | detailed specification |
| `DailyClose` | the close of a business day and what goes on around it | detailed specification |
| `MCOutbox`, `MCPaymentAttempts`, `MCOrders`, `MCCashDesk`, `MCOnlineOrders` | bounds and symmetry for TLC | model checking |
| `Services` | fifteen services that share no state, one per behaviour | composition, with the assumptions on their constants |
| `MCServices` | bounds and symmetry of `Services` for TLC | model checking |
| `PaymentProofs` | proofs about `PaymentAttempts` and `PaymentRefunds` | TLAPS |
| `OrdersProofs`, `CashDeskProofs`, `OnlineOrderProofs` | proofs about the module of that name | TLAPS |
| `ServicesProofs` | proofs about ten services of `Services`: requests, access, reservations, stock documents, sessions, Telegram, insights, menu, equipment, settings | TLAPS |
| `RecordsProofs` | proofs about the other five: promotions, the daily close, printing, kitchen stations, pickup codes; the records of all four record services; and the action property of all | TLAPS |

### How state and actions correspond to the code

*Granularity.* A serializable transaction is one action: PostgreSQL guarantees
that committed transactions are equivalent to some serial order, and a
transaction that is refused or gives up after its retries changes nothing, which
is a step not taken. Code that awaits something else between two statements is
split there: every statement, Redis command and listener call of the outbox is
an action, and a provider query or refund call lies between two actions, so that
anything may happen meanwhile. `deleteTable` does not run serializable; it is one
guarded `UPDATE`, and row locks order it with the transactions that claim tables.

*Time.* A clock appears as the comparisons the code makes with it. A row of the
outbox is `due` and its lease `expired`; an attempt is `past` its expiry, its
next query is due `now` or `later`; a lock is `held` or `stale`. They change by
environment actions, so every order of timeouts and answers is covered.

*Outbox.* `row` is the table and `job` the BullMQ job with the event's id.
`dispatcher[p]` is the batch a process works through, `delivery[w]` the
`deliver()` of a worker slot with what it read (`attempts`, `status`) before its
awaits. `handled` is a history variable: the events whose listeners have all
succeeded at least once. `faults` and `delays` count bounded misfortunes.

*PaymentAttempts.* `invoice`, `attempt`, `incident` and `recorded` are rows;
`captured`, `declined` and `sent` are the provider's side, from which
notifications and truthful answers are drawn; `worker[r]` is a query in flight,
with the answer that will be applied when the database gets to it.

*PaymentRefunds.* One payment with several refunds. `call` is the submission in
the process, `bank` what VNPay did with the requests that reached it: a request
may be carried out although its caller saw a timeout.

*Orders.* `item[i]` joins an `OrderItem` with its reservation (`held`), its
ingredient snapshot (`used`), its waste record and its place in a remake.
`moved` is a history variable: imports less exports that no order caused. One
ingredient stands for all.

*CashDesk.* Rows are joined as far as the drawer needs: `shift[s].manual` is the
sum of the shift's manual movements, `refunded[i][s]` what shift `s` paid back on
invoice `i`, `invoice[i].unresolved` and `failed` the shifts of its payment
attempts. What a handover copies from its closed shift (source, counted and
expected cash) is read there: a closed shift never changes. `checkoutInvoice` is
`CreateInvoice` followed by `UpdatePayment`. `received` is a history variable:
money from outside less money paid out, counting differences included. A bank
reference stands for the reference with its evidence.
`createImport` reads the fund before its transaction (`FindBankFund`), and a
refused settlement marks its entry in a later statement (`MarkForReview`).

*OnlineOrders.* `row` is the request, `session`, `line`, `job` and `paid` what
acceptance creates. `createPublicRequest` reads menu and intake before its
transaction, so it is `ReadMenu` and `Submit`; `calls` are the submissions in
between, several of one request where the customer repeats it. Time is the phase
of the pickup slot and one flag for each deadline.

*Idempotency.* Here the statements of the transaction interleave: `keyHolder` is
the call whose insert is not yet committed, which makes every other insert of the
key wait; `keyEffects` is a history variable, what the operation really did.

*Reservations.* `create` and `approve` are one action each: the exclusion constraint
of the database (`SlotFree`) and the guarded update of the request decide at the
write, and the table they read before may as well be deleted right after. `update`
is a read (`ReadForUpdate`) and a guarded write, with two edits of one row in flight.

*StockRoom.* `shelf` and `missing` are the world: what is really there, and what
vanished unnoticed. A count is taken from the shelf when it is entered and booked
when it is posted. `cameBack` marks the one case the snapshot cannot tell, an item
that moved and came back to the same figure. Orders appear as `Reserve`, `Release`
and `Consume`.

*AuthSessions.* A family is a sign-in with its chain of sessions. Rotation,
logout and administration are serializable; sign-in and reset are not, and are
two actions where that shows. `overlapped` marks the families a revocation could
not see because they were inserted by a transaction it overlapped. `requestReset`
reads whether the employee is active (`RequestReset`) before the transaction that
issues the link (`IssueReset`), which does not ask again. `missed` marks the links that
were asked for, or issued since the administrator's snapshot, when he deactivated or
deleted the employee: such a link stays usable, opens nothing while the employee is
inactive (`ResetPassword` asks), and is good again once he is reactivated.

*Access.* `request[e]` is what the permission guard has let in and no transaction
has carried out. *Takeaway.* A code is the version it signs. *TelegramNotices.*
`event` is the outbox, `handler` an event with the chat its handler has read, and
`drink` the lines of the order's session: `Drinks` were ordered, `Remakes` are added to
the accepted request after collection, go through COOKING and READY (or from COOKING
straight to the customer, `TAKEN`) and may be cancelled. `readyQueued` is
`telegramReadyQueuedAt`, set once and never reset; it keeps which remakes there were.

*Menu.* `bucket` is the object store, `late` the uploads given up that may still
arrive there, `cleaning` the removals under way. *Printing.* `claims` of a job
are its leases with what the agent really did, which the database learns only
from reports that may be late; `chosen` is the printer read for an automatic
receipt before its transaction. *Insights.* Redis counters, row, event, job and
worker are separate variables, because separate steps write them. *Equipment* and
*SystemSettings* split an operation where it reads the row outside of the
transaction that writes it. *Pricing* keeps amounts as integers with the rounding
and clamping of the calculator.

*KitchenStations.* One guest: `visit` 1 is the session of the order, 2 the table a
split makes. `ticket[t].items` joins the ticket with its items, a quantity for each
line. The clock is a number here, because due times are computed from it. What the
screens compute (`TicketState`, `Listed`, `Workload`, `OverdueKitchen`, `SlaOverdue`)
are operators of the state, compared by the property. The SLA report counts a ticket
as open until all its lines have a `readyAt`; a line at a table is served without
ever being READY, so its ticket counts as late and open for ever after its due time.
The property names exactly that difference between the report and the other screens.

*DailyClose.* `sale[i]` joins an invoice with its one line, the line's replacement,
its payment attempt and its refund under way; `closing[d]` is the snapshot.
`cup` COOKING stands for COOKING and READY, which the close treats alike.
A write-off has the day of its insert (`RemakeItem`, `DiscardReplacement` set
`stamped`) and counts from its commit (`CommitWriteOff`), which may come after midnight
and after the close, or never (`AbortWriteOff`). `straddled`, `late` and `redone` are
history variables for the three ways in which a closed day may differ: the insert of an
unpaid invoice, or of a write-off, that was not committed when the day closed, and
remakes. A replacement still to be made does not hold the close up (the
count of unfinished lines joins on the line's own invoice, which a replacement does
not have), so the cost of the day may still move by it.

## 3. Runs

| Run | Instance | Shows |
|---|---|---|
| `outbox_redis` | 1 event, 2 processes with a worker each, 2 attempts, 1 fault, 1 delay | `PublishedWasHandled`, `BudgetLeft`, `NoDuplicateWithoutFault` |
| `outbox_direct` | 2 events in batches of 2, no Redis | `FencedOutcome`, `ImplementsContract` |
| `outbox_live` | 1 event, 2 processes, 1 fault | `EventuallySettled` |
| `payment_ipn` | 2 attempts on 1 invoice, 2 transaction numbers, VNPay and MoMo, 2 notifications each | `TransferMatchesCapture`, `ReportedCaptureAccounted` |
| `payment_overlap` | 1 attempt, a scheduled and a manual query at once | `ReviewIsVisible`, `SettlementFinal` |
| `payment_live` | 1 attempt, VNPay or PayOS, 2 faults, scheduled and webhook query | `AttemptSettles`, `CaptureNoticed` |
| `refunds` | 3 refunds of a payment of 2 | `RefundWithinCapture`, `BooksMatchBank`, `DoubtIsVisible`, `RefundSettles` |
| `orders` | 2 tables, 3 sessions, 2 lines of up to 2, 2 bills, recipes of 0 or 1, stock up to 2 | `TableMatchesSessions`, `SessionsEndClean`, `BillsMatchLines`, `StockBalances`, `KitchenKeepsPromise` |
| `cash_drawer` | 2 drawers, 2 shifts, 2 employees, 1 invoice, 1 handover, amounts 1 and 2, counts up to 1 | `DrawerMatchesBooks`, `ClosedShiftFinal` |
| `cash_bank` | 2 funds, CASH or BANK, 1 shift, 1 expense request, 1 handover, 2 statement entries, amount 1, counts up to 2 | `MoneyConserved`, `StatementsMatchSettlements` |
| `online_orders` | 2 requests of 2 lines, 2 prices, a slot for 1, 2 submissions at once | `OrderTellsOneStory`, `ChargedAsQuoted`, `IngredientsAccounted` |
| `services` | fifteen services, each from its own initial state | `EffectOncePerKey`, `BookingsHonoured`, `StockAccounted`, `SessionsEntitled`, `AccessSound`, `CustomerIsTold`, `MenuSound`, `PaperIsAccounted`, `KitchenInformed`, `InsightsTrue`, `RecordsTrue`, `NothingSilentlyUndone` |

A property is the conjunction of what belongs together, the types of its module
included: `BudgetLeft`, `StockBalances`, `BooksMatchBank`, `DrawerMatchesBooks` and
`OrderTellsOneStory` contain `TypeOK`; `StockBalances` contains `BilledIsReserved`,
`KitchenKeepsPromise` is `PaidIsCookable` and `WasteRecorded`, `BooksMatchBank`
contains `InvoiceMatchesRefunds`, `MoneyConserved` contains `HandoverFundsHold`,
`PaperIsAccounted` contains `DevicesConsistent`. `RecordsTrue` is `LifeIsTold` of
`Equipment`, `RevisionsTellAll` of `SystemSettings`, `ChargedAsPromised` of `Pricing`
and `ClosedDayStands` of `DailyClose`. `KitchenInformed` is `KitchenPaperTrue` of
`Printing` and `KitchenSeesWork` of `KitchenStations`. `NothingSilentlyUndone` is one action property per service: a decision
on a reservation, a posted stock document, a revocation, a dead pickup code, an
insight's outcome and a liquidation are final; rights are given and taken only by
somebody who has them at that moment; a screen overwrites only what it showed.

*`Services`.* The fifteen services share nothing but the employees who use
them, so a behaviour of all of them at once shows nothing that one at a time does
not. `on` chooses the service, the variables of the others stay `"off"`. `MCServices`
adds the sets and bounds of the run.

*Why the bounds are enough.* Two processes are the smallest number that can
disagree on a lease, and one more than the number of faults is never needed to
lose it; two attempts are the smallest budget with a last one and one before it;
six leases are never used up in two batches. Two attempts on one invoice are the
conflict that `confirm` must exclude, a second transaction number is what makes
two reports contradict each other, and two queries at once are the overlap that
the stale lock permits. Three refunds of a payment of two contain a partial
refund, a full one, and one that must be refused because of another in doubt.
Three sessions on two tables allow a merge, then a split into a new session;
two lines allow a divided line, a remake and competition for stock; stock 2 is
one line of quantity 2 and no more. Two shifts in two drawers are
a closed one that is handed over and an open one that receives; amounts 1 and 2 of
`cash_drawer` make a partial refund, counts up to 2 of `cash_bank` a surplus beside a
shortage and a deposit of another amount than its statement;
two statement entries are what can claim one deposit twice. `MaxCash` bounds the
money in the shop and `MaxCount` the count at closing. The type OTHER of a fund
differs from BANK only in needing no settlement, which CASH does not either.

*Constraints.* Where the product of everything would only repeat itself, a TLC
`CONSTRAINT` cuts it, and each names what it gives up:

* `MCOrders`: the whole floor while nothing needs stock (`Floor`), the kitchen with
  its stock on one table (`Kitchen`). Tables and stock meet only in lines, and both
  parts have all operations on lines.
* `MCOnlineOrders`: requests are submitted one after the other, while nothing is
  prepared; intake and price change only while an unreviewed request can notice; one
  kitchen ticket at a time is out of the queue; one customer agrees to more than the
  lowest price.
* `FloorBound`: one table at a time is occupied or deleted; rows are edited before
  time passes and without a public request, from two screens at once but one row at
  a time. `StockBound`: two
  stocktakes, or one and a receipt. `LoginBound`: one sign-in and one rotation under
  way, resets apart from Google links and from reuse. A link is asked for while
  no sign-in or rotation is under way and one family at most is open: `requestReset`
  touches no session. `StaffBound`: two admitted
  requests, a second position or a custom role. `NoticesBound`: two handlers or one
  with an acknowledgement, which looks at up to two events; two handlers and events
  together once there is a remake, and a second remake when the news of the order itself
  is out. `CardBound`: pictures, configurations and categories are
  exercised apart, since an edit of a recipe never reads a picture.
* `CounterPaper`, `KitchenPaper`: two receipts with one lease, or three kitchen
  jobs, with two leases where there are two jobs; they meet only in the printer. One
  printer at most is switched off or deleted, and none while three kitchen jobs queue.
* `AnalystBound`: two requests compete for admission, then one is worked on by two
  workers. `ConfigBound`: a seeded setting or one created by hand. `PriceBound`: two
  promotions compete for a name before anything is sold; two bills after all is quoted.
* `BooksBound`: of two sales one is plain (unpaid, or paid at once and served); two
  are needed so that a day has a sale that is final beside one that is not. The plain
  one has no remake, hence no write-off: waste is summed over days, sale by sale.
  `KitchenBound`: time passes while one station makes everything (`Calm`); stations
  and routes change around one order line and its replacement.

*Symmetry.* Rows of one kind are interchangeable where no operator chooses among
them. In `Services.cfg` one model value stands for things of different services
(`x1` is a table, a family, a printer...), so permuting `x1` and `x2` permutes them
in the one service that moves. Employees of `Menu` and owners other than the
founder are permuted along with them. `Positions` are not: the first is seeded.

*What the properties except.* The code has the following windows. TLC reaches each of
them in the run, so that the exceptions are needed; each is recorded by a history
variable or read off the rows, and the property claims everything else.

* `SessionsEntitled`: a sign-in or rotation that overlaps the transaction that revokes
  it (`overlapped`) is not ended; a reset link under way when its employee was
  deactivated or deleted (`missed`) stays usable, and somebody inactive has it.
  That one link at most is usable holds without exception.
* `StockAccounted`: an item that comes back to the figure of its snapshot (`cameBack`).
* `RecordsTrue`: a day with an unpaid invoice inserted before midnight and committed
  after its close (`straddled`) has figures that were never true. Of every other closed
  day, the waste is what was kept unless a write-off was stamped with it and committed
  after its close (`late`), and then it is more; the cost of ingredients is what was
  kept unless a line of it was made again since (`redone`).
* `CustomerIsTold`: READY is queued once per request. A customer is not told of a remake that
  becomes READY after READY was queued for the order, because its event finds
  `telegramReadyQueuedAt` set (unless he links then, and the acknowledgement says so);
  nor is he told when a remake was handed over before it was READY, because an event of
  SERVED does not count (`Announced` names both). A
  remake that was cancelled keeps `queueReady` from finding all lines ready. What is
  promised of READY concerns the drinks of the order, whose remakes may be COOKING then.

*A limit of the close.* `close()` refuses while an attempt of the shift is
unresolved, and a FAILED attempt is not. A late success of a failed attempt on a
bill still unpaid is booked on the attempt's shift, closed or not: non-cash sales
of a closed shift may grow that way, and `ClosedShiftFinal` says that they grow in
no other. The drawer is not touched (`DrawerMatchesBooks`).

*Deadlock.* `CHECK_DEADLOCK FALSE` everywhere: rows are bounded, so a behaviour
ends when all are used up; the running system only waits for requests there.

*Mutants.* Each checked property has a mutant, an operator next to the one it
replaces, with a bug that code could have; TLC finds the property violated.

### Fairness

* Outbox: `setInterval` drains for ever and a drain runs to its end (weak
  fairness of its steps); recovery starts the first drain after its interval,
  and a drain in progress only delays it (strong fairness). BullMQ serves its
  queue, re-runs stalled jobs, listeners return, clocks advance. Faults are
  finitely many; no fairness is assumed of them.
* Payments: the scheduler queries what is due; provider calls have a timeout, so
  a query ends, with an answer or without; expiry, due time and lock age pass.
  Nothing is assumed of customers, staff or notifications. `CaptureNoticed` is
  checked with `LateCapture = FALSE`: a provider that reports failure does not
  take the money afterwards. No query is due for a FAILED attempt, so without
  this assumption only a notification can reveal such money.
* Refunds: the scheduler submits and recovers, locks age. VNPay may never answer.

## 4. Proofs

Every theorem below holds for all values of the constants that satisfy the
assumptions its module names. The assumptions say that sets of rows are finite where
they are summed or counted, that amounts, quantities and bounds are numbers, and that
what stands for nobody is not one of the somebodies; TLC evaluates them in the runs.
The bounds of the runs (`MaxFaults`, `MaxQuantity`, ...) are such constants too, so
they can be as large as one likes.

Each proof has one inductive invariant, in the module's comment and named `Inv`
(`RefundInv`; `KeysInv`, `StaffInv`, ... for the services), a lemma that it holds initially, lemmas
that the actions preserve it, and `InvHolds`; the properties follow from it. TLC
checked each invariant on the instance of its run before it was proved.

| Module | Theorems | Property |
|---|---|---|
| `OutboxProofs` | `TypeCorrect`, `AtLeastOnce`, `BudgetNeverOverdrawn`, `Fencing`, `OnceWithoutFault`, `Refinement` | `TypeOK`, `PublishedWasHandled`, `BudgetLeft`, `FencedOutcome`, `NoDuplicateWithoutFault`, `ImplementsContract` |
| `PaymentProofs` | `TransfersMatchCaptures`, `CapturesAccounted`, `ReviewsVisible`, `SettlementsFinal`, `RefundsWithinCapture`, `BooksMatch`, `DoubtVisible` | `TransferMatchesCapture`, `ReportedCaptureAccounted`, `ReviewIsVisible`, `SettlementFinal`, `RefundWithinCapture`, `BooksMatchBank`, `DoubtIsVisible` |
| `OrdersProofs` | `TablesMatchSessions`, `SessionsClean`, `BillsAgree`, `StockIsBalanced`, `KitchenPromise` | `TableMatchesSessions`, `SessionsEndClean`, `BillsMatchLines`, `StockBalances`, `KitchenKeepsPromise` |
| `CashDeskProofs` | `DrawersMatchBooks`, `MoneyIsConserved`, `StatementsMatch`, `ClosedShiftsFinal` | `DrawerMatchesBooks`, `MoneyConserved`, `StatementsMatchSettlements`, `ClosedShiftFinal` |
| `OnlineOrderProofs` | `OrdersTellOneStory`, `ChargesAsQuoted`, `IngredientsAreAccounted` | `OrderTellsOneStory`, `ChargedAsQuoted`, `IngredientsAccounted` |
| `ServicesProofs` | `EffectsOncePerKey`, `AccessIsSound`, `BookingsAreHonoured`, `StockAgrees`, `SessionsAreEntitled`, `CustomersAreTold`, `ProviderAskedOnce`, `PicturesServed` | `EffectOncePerKey`, `AccessSound`, `BookingsHonoured`, `StockAccounted`, `SessionsEntitled`, `CustomerIsTold`, `InsightsTrue`, `MenuSound` |
| `RecordsProofs` | `RecordsAreTrue`, `PapersAreAccounted`, `KitchenIsInformed`, `SettledStays` | `RecordsTrue`, `PaperIsAccounted`, `KitchenInformed`, `NothingSilentlyUndone` |

*Outbox* (`OutboxConstants`). None of the properties is inductive, because a delivery
acts on what it read before an await. `Inv` adds that knowledge: a delivery about to
acknowledge has seen its listeners succeed; while the row still carries the delivery's
lease, its attempts are the ones that were read; a row in PROCESSING carries a lease
that no dispatcher's batch has, hence a dispatcher that releases its batch cannot
release a running delivery. The proof has a lemma per action and one, `QuietInv`, for
the steps that touch neither rows nor leases. `Refinement` maps every step to a step of
`OutboxContract` or to a stutter. `OnceWithoutFault` has an invariant of its own beside
`Inv` (`FaultFreeInv`): while no fault was counted, every claimed delivery still holds a
lease that has not expired and is alone for its event, and an event that was handled is
PUBLISHED or DELETED, or its one delivery is about to mark it.

*Sums.* A sum is a fold in the order of CHOOSE. `SumTheorems` shows that the fold
exists, is unique and does not depend on the order, then what one changed, added or
removed row does to it. Induction over finite sets takes an operator as a parameter,
which the provers cannot instantiate; the proofs look for a smallest counterexample
instead (`SmallestSubset`), which needs only that strict inclusion is well-founded.
`OrderLists` shows the same way that `InOrder` lists every number of a finite set
exactly once.

*Payments* (`PaymentConstants`). That a confirmation is backed by money holds because
notifications on their way and answers not yet applied were true when they were given,
and captures are never undone (`Honest`, `Working`); that no report is dropped needs
every handler to work on a row that exists (`Known`).

*Refunds* (`RefundConstants`). VNPay gives back no more than it took because
`createRefund` counts every refund that may still be carried out: `RefundInv` bounds the sum
of the reserved amounts, follows each request through the bank (it is there at most
once, and a final status is the one it was given there), and knows that a call under
way belongs to a refund nobody has settled.

*Orders* (`OrderConstants`). The properties lean on each other: that a paid line can
be cooked rests on its reservation, this on its bill, the bill on the session it stays
in. `Inv` states them one line at a time (`LineOK` of its row, and how it stands to its
session and to its bill), says that unused rows are blank and that free replacements
are the only paid lines without a bill, and ties the rows to the stock by their sums.

*Cash desk* (`CashDeskConstants`). A drawer's books are four columns, two of them sums
over invoices, compared with a fund other rows refer to as well. `Inv` says who may
touch it: an open shift has its CASH fund to itself, a pending handover forbids a shift
on its source, a deposit on its way goes to a BANK fund. `MoneyConserved` needs the sum
over handovers of what each closed shift counted less what was retained.

*Online orders* (`OnlineOrderConstants`). `Inv` says of every request in which chapter
of its story it is (its session: none, active, completed, cancelled) and what row,
lines, invoice and ticket are in that chapter. Stock is compared with lines by counting
them over all requests (`SliceChange`: a step of one request changes its slice only).

*Services* (`ServicesConstants`, `RecordsConstants`, `KitchenConstants`). A behaviour of `Services` is one service's; `Turn`
turns a step into a step of that service, and each has an invariant of its own:

* Idempotent requests: a call holds the insert of the key exactly while it is in its
  operation, and no row is committed meanwhile; so the call that commits is the first
  to have an effect since the key was free.
* Access: `AccessSound` is inductive but for the type of the positions: whoever may
  remove an owner looks for another one in the transaction that does it, whatever the
  guard saw before.
* Reservations: a write that finds the revision it has read is the change it validated
  (`EditsLegal`), which is why two screens never mix their changes.
* Stock documents: `CountTrue`: what was counted and what the count found missing are,
  together, the stock of the snapshot, as long as nothing has moved.
* Sessions: whoever changes a credential ends every family it can see, and what it
  cannot see is marked as overlapped (`ChangeFair`, `FamilyFair`). A family that rotates
  has no live session but the one it rotates. `employee.google` counts links and
  unlinks, so that what a Google sign-in was proved by is odd, and stale once it was
  unlinked (`SignInsFair`). Of the links, an administrator's snapshot has those that are
  usable, or they are newer, which `missed` will record; a link whose request marks a row
  of the snapshot sends the administrator back (`Contended`).
* Telegram: what a customer is owed was said, or missed by a chat that an
  acknowledgement or a dead letter did not reach, or is on its way: as an acknowledgement
  that has yet to look, or as an event no handler has read for another chat (`Awaited`).
  A remake that became READY owes its event to him until READY is queued.
* Insights: at most one worker is at the provider for an insight (`AnalystInv`), because
  `beginProvider` starts a row once and only who was refused for certain resets it; a
  row in doubt was started and is nobody's call (`AnalystDoubt`); the requests admitted
  are counted by the insights they became (`AnalystRequests`).

* Menu (`CardInv`): a card shows a picture only if the picture's row says that it is
  attached to that item, and an attached picture is in the bucket; whoever removes an
  object has claimed its row before (`CardCleaning`), and a claimed row is never
  attached again.
* Equipment (`ToolInv`): whoever is about to write a transition has read a status the
  row still has, or will be refused. Settings (`ConfigInv`): the log of a key has one
  revision for each version, and what a screen holds is one of them.
* Promotions (`PriceInv`): the terms a bill was charged by belong to a promotion that is
  used, and a used promotion cannot change its terms.
* Daily close (`BookInv`): the kept figures are sums and counts over the sales of the
  day; no step changes the part of a sale that was counted, but for the refunds the
  delta adds, a remake (`redone`), and an invoice or a write-off inserted before and
  committed after the close (`straddled`, `late`).
* Printing (`PaperInv`): each job by itself (`JobSound`: it has the lease of its last
  claim or none, and earlier claims left no paper), where it lies (`JobPlaced`), one
  automatic receipt at most, even while its printer has been read and its job is not
  yet written (`PaperReceipts`), and what tickets say of a line (`PaperItems`: a live
  line is on one ticket, with its quantity; a cancelled one only on a ticket that
  failed, or one that somebody had claimed and a slip recalls). The actions on several
  jobs are lemmas over `JobKept`, what a step may do to a job that is there.
* Kitchen stations (`KitchenInv`): a ticket's station exists and works while a line of
  it is to be made, a line is on one ticket with its quantity, and a row that has not
  been made has no `readyAt`; from this the four screens are computed to agree
  (`KitchenTrue`).
* `NothingSilentlyUndone` needs what the services know (`SettledInv`): a step that
  writes a settled row is refused by what it reads, whatever was read before. For
  `PublishedKnowingly` and `EditsSeen` this is the revision the screen holds, for
  `AccessIsGranted` the rights read again in the transaction, for `CodesStayDead` that
  the version of a code only grows (`CounterInv`).

Only model-checked: liveness (`EventuallySettled`, `AttemptSettles`, `CaptureNoticed`,
`RefundSettles`), which is beyond the prover. Every other property of the runs, 36 of
40, has a theorem.

## 5. What is not modelled

Within the modelled components: numbering and document snapshots of invoices;
signatures and message formats of providers; notes, logging, metrics and tracing;
costs of stock; rows from before recipe snapshots; `startingCash` as counted by
the cashier, which enters no balance, and the refusal to close a shift with active
sessions (the model closes more often); `expectedTotal` of an online order, the keys
of reorders and the version of the intake setting; heartbeats, key rotation of print
agents and `cancelPendingReceiptJobs`; names of kitchen stations and the realtime feed,
which repeats committed rows; discounts, tax and rounding in the figures of a closed day; the catalogue of permissions; retention of insights,
jobs from before their migration and prompt versions; hashing and cookies.

Components without a module: *reports and recommendations* (other than the daily
close and the SLA report) are aggregates and
rankings over committed rows, where a mistake would be one of arithmetic over much
data, not of steps; *customers* are single-row writes; *platform* is configuration
and health checks, except for the retry of transactions, which `Idempotency` models.

A hazard no property covers: a provider that takes the money after it reported the
payment as failed, with the notification lost (`payments.service.ts:522`). No query
is due for a FAILED attempt; `CaptureNoticed` assumes the report to be final.
`createAutomaticReceipt` reads its default printer before its transaction: `Printing`
models the window (`ReadReceiptDevice`), and the job may go to a printer that stopped
being the default meanwhile.

## 6. Plan

Done, in this order: outbox with contract and proofs; payment attempts with
reconciliation; refunds; orders with tables, bills and stock; the cash desk;
online orders; the services that share no state, from idempotent requests and
printing to prices, kitchen stations and the daily close.

Proofs, in this order: the outbox with its refinement, payments and refunds, orders, the
cash desk, online orders, seven services, then menu, records, printing and kitchen with
the action property of all fifteen. No safety property is left without a proof.

What could be added: the calculation of reports, with a model of the queries rather
than of steps; the numbering of invoices.
