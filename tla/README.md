# Formal model of naicha-backend

naicha-backend is the server of a tea shop: a FastAPI application over PostgreSQL, with
Celery workers, Redis and two outside services, WeChat Pay and a cloud printer. This
directory holds TLA+ modules translated from `src/app`, the TLC configurations that check
them on small instances, and the TLAPS proofs of what they promise for every instance.

- [1. The system](#1-the-system)
- [2. Modules](#2-modules)
- [3. Runs](#3-runs)
- [4. Fairness](#4-fairness)
- [5. Proofs](#5-proofs)
- [6. Where code and documents disagree](#6-where-code-and-documents-disagree)
- [7. Not modelled](#7-not-modelled)
- [8. Plan](#8-plan)

## 1. The system

| component | state | operations | correct when |
|---|---|---|---|
| order service (`services/orders.py`) | `orders`, `order_items`, `idempotency_keys` | `create_order` (app and POS), replay of a stored answer, `initiate_wechat_*_payment`, `cancel_stale_pending_orders` | one order for each key; an order goes through its states and is resolved |
| inventory (`services/inventory.py`) | `products.stock_quantity`, `.inventory_status` | deduct, `restore_from_order_items`, manual status | no cup is created or lost |
| reservations (`services/reservations.py`) | `reservation_slots`, columns of `orders` | `plan`, `reserve`, `release_slot`, reminders, activation | the count is the number of holders, within capacity; a time is moved to the next opening; paid reservations are produced |
| loyalty (`services/loyalty.py`) | `users.loyalty_points`, `loyalty_transactions`, `coupons` | `award_on_payment`, `use_coupon` | balance, ledger and coupons agree; a coupon is spent once |
| payment callback (`services/payments.py`) | `payment_records`, order, print job | `handle_wechat_notification` | money taken is booked, and booked once |
| payment match (`services/payment_match.py`, `utils/distributed_lock.py`) | `payment_records`, order, a lock in Redis or PostgreSQL | automatic and manual match of static-code payments | an order is paid once, a payment pays one order, whatever becomes of the distributed lock |
| print jobs (`workers/print_jobs.py`) | `print_jobs` | enqueue, claim, call, retry, recover | the printer is called a bounded number of times, results mean what they say, no waiting job is forgotten |
| Celery tasks (`workers/`) | broker messages, Redis task locks | periodic tasks, print jobs, side effects | locked runs of a task do not overlap |
| maintenance jobs (`services/maintenance.py`) | `maintenance_jobs` | enqueue, acquire, execute | a job is executed once; a cleanup left to the table is carried out |
| merchant notifier (`ws/manager.py`, `api/routes/ws`) | queues per screen, a Redis channel | register, snapshot, broadcast, fan-out | a screen misses no order but those its queue, its process or Redis lost |
| menu (`services/menu.py`) | caches in the process and in Redis, a version | fill, check, invalidate | a change is served after a bounded time |
| advertisements (`services/advertisement.py`) | rows, a cache in each process | answer with a version, edit | nothing is shown before its start or after its end |
| configuration (`services/config.py`) | file, flags, Redis | answer, set a flag | an answer has every flag that was set before |
| dashboard (`services/dashboard.py`) | a cache in the process | sections of sums, cleared by POS orders and matches | the numbers belong together and are not old |
| prices (`calculate_price_only`, `create_order`) | products, wallet | quote, order | the order costs what was quoted |
| reconciliation (`services/reconciliation.py`) | a report for each day | daily run, repeated run | every gap is on the report of its day |
| addresses (`services/user.py`) | `user_addresses` | create, change, delete | one default address |
| users and guests (`services/auth.py`, `guest.py`) | `users`, guest sessions | login, issue and renew a session | a token is accepted, a session lasts as long as was answered |
| shop, wish counter, operations route | | | section 7 |

How they interact. A request runs in one database session. `create_order` locks, in this order, its
idempotency key, the reservation slot, the products and the coupon, and writes all of them in one
transaction; the broadcast, the metrics and the print message of a POS order come after the commit.
The WeChat callback locks the order, writes its payment columns, the payment record and the print
job, commits, and then sends two Celery messages: print the receipt, award the points. Celery beat
starts the cleanup of unpaid orders, the reminders, the activation of reservations and the recovery
of print jobs. The match of a payment sends the same messages as the callback, after its own
transaction; the worker that awards the points also broadcasts the order to the screens, through
Redis. Nothing but the database, these messages and Redis connects the parts, so that their row
locks, the version column of `orders`, the unique indexes and the order of their commits and
messages are what correctness rests on.

What is hard: sessions that interleave statement by statement; tasks that read rows without a lock
and write them later; two opposite lock orders; a message that is lost after the commit it belongs
to, or delivered twice; WeChat repeating a callback at any later time, even when the order has been
cancelled or is being made; a worker that dies between two commits; caches that are filled and
invalidated in any order, before or after the commit they belong to; locks that run out or that two
processes take in different places; and a session that nobody commits, because who began its
transaction was somebody else. PROJECT.json lists these hazards, each at its line, with the
properties that cover it.

## 2. Modules

| module | lines it stands for | how |
|---|---|---|
| `OrderLifecycle` | orders, inventory, reservations, coupons, callback, cleanup | one action for each committed transaction |
| `OrderTransactions` | the same transactions, one locking statement at a time | EXTENDS `OrderLifecycle` and refines it |
| `PrintJobs` | `workers/print_jobs.py`, the callback's part in it | one action for each commit or message |
| `PaymentEffects` | side effects of a payment, `award_on_payment` | one action for each statement that locks or commits |
| `Maintenance` | Redis task lock, cleanup task, `services/maintenance.py`, its runners | one action for each commit, lock operation or phase of a task |
| `PaymentMatch` | `services/payment_match.py`, `utils/distributed_lock.py` | one action for each statement that locks, each commit and each use of the lock |
| `PaymentLedger` | | what `PaymentMatch` promises; `PaymentMatch` refines it |
| `MerchantNotifier` | `ws/manager.py`, the gateway of the screens | one action for each message moved, connection and failure |
| `MenuCache` | `services/menu.py`, the hooks of `models/catalog.py` | one action for each call of Redis or of the database |
| `PublicConfig`, `Advertisements`, `Dashboard` | `services/config.py`, `advertisement.py`, `dashboard.py` | one action for each read, write and invalidation |
| `ReservationPlan` | `plan()` of `services/reservations.py`, the opening hours | operators, and requests with the seats they take |
| `Pricing` | both price calculations of `services/orders.py` | operators, and the quote followed by the order |
| `Reconciliation` | `services/reconciliation.py` and its script | one action for each order, payment and run |
| `UserAddresses` | `services/user.py` | one action for each statement other requests can come between |
| `Customers` | `services/auth.py`, `services/guest.py`, `api/dependencies/auth.py` | one action for each read and commit |
| `MCShopServices` | | `PaymentEffects` and the eleven modules from `PaymentMatch` on, but `PaymentLedger`, side by side |
| `...Proofs` | | theorems, checked by TLAPS |
| `MC...` | | definitions that give TLC its small instances |

Definitions whose name says what they lack (`LockOrdersNot`, `LockProductUnlocked`,
`NotifyIfPending`, ...) are plausible mistakes in the code. They are used by no
specification; PROJECT.json pairs each with the property it breaks. They stand above the
definition they could replace.

### OrderLifecycle

The order number, the price and the delivery address decide nothing here and are left out.
An order is a number in `1..MaxOrders`, given out in the order of creation, so that the age
of an order is its number: `cutoff` says up to which order `created_at` is older than the
time-out. `request[o]` is the payload with the user: it stands for the immutable rows of
`order_items` and for the coupon.

| variable | column or service |
|---|---|
| `status`, `payment` | `orders.status`, `orders.payment_status` |
| `slotOf`, `reminded` | `orders.reservation_slot_id` with `is_scheduled`, `reminder_sent_at` |
| `cancelLog` | rows `order.auto_cancel` of `audit_logs` |
| `stock`, `inventory` | `products.stock_quantity`, `products.inventory_status` |
| `couponUse` | `coupons.used_in_order_id` |
| `reserved` | `reservation_slots.reserved_count` |
| `snapshot` | `idempotency_keys.response_snapshot` |
| `answers` | what the clients have been told: an answer may be lost |
| `recorded` | orders with a row in `payment_records` |
| `trade` | WeChat's view of the order (external) |
| `phase`, `cutoff` | the clock against the slot's time and the pending time-out |

Orders end at `in_production`: no code of the repository writes `ready_for_pickup`,
`completed` or a refund. The capacity of a slot is the setting or one, whichever is more.
`SetInventoryStatus` is the service; that the session of the administration route does not
always commit it adds no behaviour, since a lost edit is a step that does not happen.

The action of a batch task takes a set of orders, because one transaction writes them all:
a run of the cleanup task takes at most `BatchLimit` orders, and it may take fewer than
there are because an order it selected has been paid when it gets the lock.

### OrderTransactions

Here each transaction is a session (`Client`, `Sweeper`, `Callback`, `Batcher`) that runs
one statement at a time. `owner` is the lock table, `view` what a session has read and not
yet committed, and a commit applies it to the variables of `OrderLifecycle` in one step.

- A client locks the key, the slot (or inserts its row, in which case the unique index can
  make it fail), then the products in any order - `_load_products_with_groups` asks for them
  with `IN` and no `ORDER BY` - and the coupon.
- The sweeper selects without a lock, then takes each order, checks it again, restores its
  products and releases its seat. It keeps all these locks to the end of its batch.
- A batcher reads without a lock. `outdated` holds the orders that have changed since: the
  flush checks `orders.version` and the whole batch fails on one mismatch. Its UPDATEs go out
  in the order of the primary key and wait for the locks of other sessions.
- `Deadlocked` and `Refused` stand for PostgreSQL's deadlock detector and for the errors the
  code raises: the session rolls back.

The refinement mapping is the identity on the variables of `OrderLifecycle`:
`ImplementsLifecycle` is `Spec`. What makes it worth checking is that the commits use the
values of `view`, not the current ones: a read that was not protected shows up as a commit
that no transaction of the abstract module could make.

### PrintJobs

One order and its job. A `process_print_job` message carries how often Celery has retried
it; a message beyond `MaxMessages` is lost, as is any message whose enqueueing fails. The
worker commits the claim, calls the printer, and commits the result without a lock; `printed`
counts what the printer has acknowledged, so that a receipt printed behind a time-out does not
make "done" true. The callback reads the job and writes it in two steps. `next_try_at` is kept
as NULL, due or later. Each worker has its own settings: one that is not in `WithPrinter` has no
`printer_webhook_url`, which is the default (`settings.py:96`). It claims the job, calls nobody, logs a
warning and marks the job as done (`PassOver`); `passedOver` records that.

### PaymentEffects

The orders of one customer (`Purchase`), with the points each earns (`PointsOf`, cups times
`loyalty_points_ratio`, rounded down). A worker acknowledges the message before the task, locks
the row of the user, and commits balance, ledger row and coupons together. A failed or
interrupted task is not retried. `MatchPayment` leaves the order as it is: the session of the
administration route has begun a transaction when it authenticates, the match runs in a
savepoint of it, nobody commits the outer transaction (`db/session.py:35-37`), and the
effects are sent nevertheless.

### Maintenance

Who starts the cleanup of unpaid orders, and when; what it does to orders is `CancelBatch` of
`OrderLifecycle`. `lock` is whose token the Redis key holds. A worker that finds it free sets
it; one that meets a Redis error runs without it (`degraded`), and asks for a second run through
the job table when it is done, as does a run that failed. Asking is two steps, the search for a
waiting row and the insertion. `expired` and `owed` are bookkeeping for the properties: whose
lock ran out, and whether a cleanup was left to the table and none of its jobs has begun since. A
runner is one process of `scripts/run_maintenance_jobs.py`: it selects waiting rows, skipping
locked ones, commits them as running, and executes them one after the other. A runner may stop
at any point. One way is in the code: an error of the database aborts the transaction in which
`fail_job` would write, so that the exception leaves `run_jobs` (`maintenance.py:187-194`) and
the rest of the batch stays `running`. The number of jobs is bounded by `MaxJobs`; a worker that
would need one more can only fail. Only the order of `scheduled_at` matters, which is the order of
the job numbers here, and a job is due when it is written.

### PaymentMatch and PaymentLedger

`PaymentLedger` has two actions: a payment is booked on an order that is not paid, or the order
is paid elsewhere; a payment that has been booked is never booked again. `PaymentMatch` has the
sessions of `match_payment`: the distributed lock (Redis with a token and a time-out, or the
advisory lock of PostgreSQL where Redis fails), the search of the record, by its transaction or
among similar ones, its insertion behind a unique index, the lock of all pending orders in the
window or of the forced one, and the commit. `Inherited` sessions are in a transaction already:
their block is a savepoint, whose writes and locks stay pending until the session is closed, which
undoes them. A key of Redis may run out, be left behind by a request that could not delete it
(`Gone`), or belong to a process that died. The callback and the cleanup of unpaid orders write
the same orders in between (`PaidElsewhere`, `Cancelled`).

The refinement mapping takes the orders that are paid, and for each the payment of the record
that names it: its transaction number, or the record itself if it has none.

### MerchantNotifier

A notifier of a process is down, local, or connected to Redis; its listener is subscribed or not.
Only API processes start one. `order` is the life of a broadcast, which may fail after Redis has
taken the message, so that the fallback shows it twice. `missedBy` and `dropped` are bookkeeping:
which processes a broadcast did not reach, what a full queue lost. A screen registers, is sent
the recent orders, and from then on depends on its queue.

### The caches: MenuCache, PublicConfig, Advertisements, Dashboard

A content is told apart by how many changes it shows (`menu`, `file`, `flag`), and `changed` and
`deployed` say when each was made, so that the age of an answer can be stated. Times are ticks.
The time a request takes is bounded (`BuildTime`, `AnswerTime`, `ReadTime`): a request that hangs
for longer is ended by its client or the server. Each bound appears in the property.

- The menu is invalidated when the attribute is set, before the commit, and in Redis by a task of
  its own, which the end of a Celery task's event loop can cancel (`LoseTask`). An error of Redis
  makes a process do without it for good (`Disable`).
- The configuration merges the flags of the table into whatever it finds in Redis. That makes the
  race between a fill and an invalidation harmless for flags, and the file is only as old as the
  time to live allows.
- An advertisement's version is the second of the latest update, start or end. `top` and `reused`
  record when a change did not raise it. `Commits` says whether an edit is committed; the routes
  of the administration leave it uncommitted.
- The dashboard reads its sections in statements of their own. A sale belongs to the day of its
  last update; `writing` is an update whose time stamp is taken and which is not committed yet.
  The routes of the till and of the match clear the cache of their process when they are done
  (`api/routes/admin/__init__.py:317`, `:365`), whether or not an order was paid: `InvalidateBoard`
  has no guard, and `cleared` records when it was. A request under way keeps, afterwards, what it
  read before, and a payment that arrives by the callback clears nothing; `BoardIsTrue` says how
  old an answer can be for either reason.

### Pricing

`Quote` is `calculate_price_only`, `OrderQuoted` the part of `create_order` that decides whether the
cart is taken and what it costs. The two share no code: the order knows no points, no delivery fee
and, of the coupons, only the free drink. Options add to the price of a line, are allowed by the
groups of its product, and may be sold out by a clerk (`EditOption`). `QuoteIsKept` says exactly
where they differ. Amounts are cents; half a cent is rounded up as `ROUND_HALF_UP` does.

### ReservationPlan

`AlignToOpenHours` is `_align_to_open_hours`, and `Openings` its reference: the times of the same and
the next day at which the shop is open. A range that cannot be parsed is left out of `openHours`; a
day without a range has those of all others, so that the opening hours cannot say that the shop is
closed on a Sunday. A range that ends before it begins is accepted and never open; its start is
planned all the same, and `PlansFit` leaves such hours out (`RegularHours`). The comment at
`reservations.py:285` lends a day without a range those of the first entry only; `PlansFit` speaks of
the hours that mean the same in both readings (`OneReading`). Times are parts of an
hour of the shop's own clock, which is taken to have no summer time. `OrderLifecycle` knows one of the
slots; here they are rows by their start, and `ReleaseSeat` is the cancellation.

### Reconciliation

Days are numbers. An order belongs to the day it was created, a payment to the day it was paid,
and it may be received on any later day. The callback stores the record of a payment with its
order, also of one that is paid already (at the till, or by another transaction) or cancelled
(`payments.py:110-128`, `:320-331`), and stores nothing for an order it does not find (`:95-104`). A
record without an order comes from the import of static-code payments, which
`payment_match.py:286-304` looks for and doc/runbook.md:378 describes; no code here writes it, and
`ImportReceipt` is external. The match that would give it an order is not committed (section 6, 2), so
that it keeps none. `report[d]` is what the last run for day d found, with the day of the run (`made`)
and the records that had been received by then.

### UserAddresses and Customers

Statements of concurrent requests of one customer, without a lock: `written` is what a request has
written and not committed. A login inserts the user and commits nothing (`AnswerLogin`); a guest
session is committed, and its renewal works out the expiry before it writes it.

### MCShopServices

These parts share no state with each other. `focus` names the one that moves; the others stay as
they begin. One run of TLC explores the sum of their states, not the product.

## 3. Runs

All runs end in less than five minutes on two workers.

| run | configuration | shows |
|---|---|---|
| `lifecycle_safety` | 3 orders, 3 keys, 2 products (3 and 1 cups), 1 slot with 1 seat, 1 coupon, batches of 2 | stock, seats, coupons, keys, money and the columns of an order stay accounted for |
| `lifecycle_liveness` | 2 orders, batches of 1 | unpaid orders are resolved, paid reservations produced, payments booked |
| `transactions_orders` | 2 clients, 1 sweeper, 1 callback, 2 products | what a session read under a lock is current; the commits are steps of `OrderLifecycle` |
| `transactions_tasks` | 1 client, 1 sweeper, 1 callback, 2 batchers, a slot of 2 seats | overlapping reminders and activations never overwrite another transaction |
| `transactions_waits` | 2 clients, 1 sweeper, a slot without a row | every session ends, whatever waits on whatever |
| `print_jobs` | 2 workers with a printer, 1 without, 2 callbacks, 2 attempts, 1 crash | calls are bounded, results are true, waiting jobs are taken up |
| `maintenance` | 2 workers, 2 runners, 2 jobs, 2 jobs for each runner | which runs overlap, no job is executed twice, what was left to the table is carried out |
| `services` | below | the parts of `MCShopServices`, each in focus |
| `lifecycle_oversold`, `match_answers`, `screens_silent`, `login_lost` | small instances of the same modules | section 6 |

In `services`:

| part | instance | property |
|---|---|---|
| screens | one API process with a screen, a Celery worker, 2 messages, queues of 1, all faults | `NoGap`; queues stay bounded (`ServicesTypeOK`) |
| menu | 2 processes with a reader each, 1 change, 3 ticks | `ChangeIsServed` |
| advertisements | 1 creative, 2 schedules, 1 client, 2 processes, 1 edit, committed or not, 8 ticks | `ShownIsActive` |
| addresses | 2 concurrent requests, 3 addresses | `AloneRepairs` |
| reservations | days of 3 hours with 4 parts each, slots of half an hour with 1 seat, 7 sets of opening hours, 2 requests for 8 times | `PlansFit` |
| prices | 2 products of 2 prices, an option, 3 carts, 5 coupons, points | `QuoteIsKept` |
| configuration | 2 readers, 1 editor, 1 deployment, 4 ticks | `ConfigIsCurrent` |
| reconciliation | 2 orders, 2 payments, 2 days | `GapsAreReported` |
| guests | 1 session, 2 concurrent requests, 5 minutes | `GuestKeepsSession` |
| match | 2 sessions with transactions of their own, 2 orders, 2 records, 3 payloads | `BooksAgree`, `LocksExclude`, `ImplementsLedger` |
| effects | 3 orders (13, 6 and 0 points), 2 workers, 2 messages for each order | `LedgerBalances`, `AwardPerDispatch` |
| dashboard | 1 order, 2 requests, 2 sections, days of 3 ticks, a board kept for 3 | `BoardIsTrue` |

Why these bounds are enough. The requests of `MCOrderLifecycle` are chosen so that they compete for
everything there is: three cups of tea, one of milk, one seat, one coupon. Three orders let one be
cancelled, its cups and seat be taken by the second, the first be paid late, and a third meet what
is left. Two keys and a replay are enough for duplicates, since a key only relates to its own order.
In `OrderTransactions` two clients are the least that can race on one row, and with a sweeper the
least that can wait in a circle through the slot; two products are the least that can be locked in
opposite orders. A job is shared by two workers at most at any point that matters: one that claims
while another calls; the third has no printer. Two attempts are the least that distinguish first,
last and retried; the default of the code is five. Thirteen points give a coupon and a rest, six
more a second coupon only together with that rest. Two sessions of a match are the least that
compete for a payment, with or without a common lock; of the two orders one is outside the window of
one payload, so that "exactly one candidate" is sometimes true. In `match_answers` every session is
inherited, as that of the route is; in `services` none is, because an inherited one writes nothing
and would only hide what the commits do. A queue of one overflows with the second message, a time to
live of one tick ends while a request is under way, and two requests for a cached content let one
fill it with what it read before the other's. A dashboard is kept for three ticks, long enough to
outlast the requests that were under way at an invalidation, and the clock runs until an answer
could be older than the bound. Three addresses let a default be deleted with two successors. The
sets of opening hours have a day with two ranges, a range of one moment, days without ranges and a
range over midnight, and the clock runs far enough for a time of tomorrow to come within 24 hours.
Two jobs and two runners let a job be inserted while another is running, and one runner stop with a
job it has not begun.

Symmetry is used for keys, clients, batchers, workers, and in `services` for the requests and tasks of
the parts, which the configuration calls by the same two names; only in runs without liveness
properties. `services` tells states apart by the part in focus (`VIEW InFocus`): the others begin in
one state and never move. Deadlock is checked wherever the system may not stop; in `print_jobs`, `services`,
`screens_silent` and `login_lost` it may, when callbacks, messages, ticks or numbers are used up.
Each module has a type invariant, and all of them are proved (section 5). The run of the services
checks theirs as well (`ServicesTypeOK`), because they protect the bounds of the queues.

What the runs establish beyond a test. `transactions_orders` and `transactions_tasks` show that the
locking discipline is exactly sufficient: dropping the re-check under the lock in
`cancel_pending_order`, the `FOR UPDATE` on products, or the version column each breaks a property.
`transactions_waits` shows that the opposite lock orders of `create_order` and
`cancel_pending_order` cost a rollback and no more. `print_jobs` shows that, although workers write
results over each other, "done" is never written for a receipt that was not printed, unless a worker
without a webhook passed it over (section 6, 13), and "failed" without a next time is never silent;
it also shows what a crash costs: `SettlesUnlessCrashed` carries the word "unless" because a job
left in `processing` by a dead worker is selected by no recovery run. `maintenance` shows that the
search for a waiting row needs neither a lock nor a unique index, as long as it looks for `pending`
and not for running ones too: whoever takes the row begins its cleanup afterwards. Two rows may be
inserted at once, which costs a cleanup that finds nothing to do. `services` shows that the match of
payments does not need its distributed lock at all: the row locks and the unique index are enough
(`ImplementsLedger`), while two sessions do meet in the critical section when the lock runs out or
is taken in two places (`LocksExclude` says so and no more). `UserAddresses` shows that concurrent
requests leave two defaults or none, and that the next request that runs alone repairs it.
`GapsAreReported` says what the report of a finished day leaves out: an order that was paid later,
by a payment that arrived after the run. It does not find an order that was paid twice: both records
name it, and neither side of the comparison misses the other. `OwedIsDone` carries "unless" for the
same reason as `SettlesUnlessCrashed`: what a stopped runner leaves in `running` stays there.

## 4. Fairness

- `CancelStale`, activation, and the recovery of print jobs are weakly or strongly fair
  because Celery beat starts them again and again (`workers/celery_app.py:29-76`). Activation
  is fair for each order: a run takes all that are due. The cleanup is fair as a whole only,
  since its batches are limited; that no order starves is a result (`PendingResolved`), which
  rests on the order of the batches not mattering once an order can only leave the queue.
- `Notify` is weakly fair because WeChat repeats a notification until it is acknowledged.
- Recovery is strongly fair together with delivery: not every message it sends is lost.
- In `OrderTransactions` a session that can take its next statement does, and a session that
  waits in a circle is rolled back by the deadlock detector.
- In `Maintenance` a runner that lives goes on, and runners are started again, because cron
  starts them (doc/runbook.md:700). Committing what was selected is strongly fair: not every
  runner dies before its first commit.
- In `screens_silent` every step of the notifier is weakly fair (`NotifierFairness`): the tasks of
  an event loop and the requests under way run on. Nothing fails in that run, so that the missing
  startup alone keeps the order from the screen.
- Nothing is assumed of customers, merchants, clients or crashes.

## 5. Proofs

TLAPS proves these for every value of the constants that satisfies the named assumptions.

| theorem | says |
|---|---|
| `OrderLifecycleProofs`: `TypeCorrect`, `RowsAgreeAlways`, `StockConservedAlways`, `SlotAccountingAlways`, `CouponSpentOnceAlways`, `OneOrderPerKeyAlways`, `PaymentsBackedAlways`, `PaidSticksAlways` | every property of `lifecycle_safety`, for any number of orders, any products, slots, coupons, payloads and capacities |
| `OrderTransactionsProofs`: `TxTypeCorrect`, `ReadsAreCurrentAlways`, `StatementsImplementTransactions`, `AccountsUnderInterleaving` | for any sessions and batches: what is read under a lock is current, every commit is a transaction of `OrderLifecycle` and every other statement a stutter, so that stock, seats, coupons, keys and payments are accounted for under interleaving too |
| `PrintJobsProofs`: `TypeCorrect`, `CallsBoundedAlways`, `DoneMeansPrintedAlways`, `AbandonedIsReportedAlways` | every invariant of `print_jobs`, for any number of workers, callbacks, messages and crashes |
| `MaintenanceProofs`: `TypeCorrect`, `LockedRunsExcludeAlways`, `JobExecutedOnceAlways`, `OwedIsAheadAlways` | every invariant of `maintenance`, for any number of workers, runners and jobs and any limit |
| `PaymentProofs`, the match: `MatchTypeCorrect`, `BooksAgreeAlways`, `ImplementsLedgerAlways`, `LocksExcludeAlways` | for any sessions, inherited or not, any payments, orders, windows and payloads: the books agree, and every match is a step of `PaymentLedger` |
| `PaymentProofs`, the effects: `EffectsTypeCorrect`, `LedgerBalancesAlways`, `AwardPerDispatchAlways` | for any orders, points and workers |
| `CacheProofs`: `ConfigTypeCorrect`, `ConfigIsCurrentAlways`, `MenuTypeCorrect`, `ChangeIsServedAlways`, `DashboardTypeCorrect`, `BoardIsTrueAlways` | for any processes and requests, any times to live and any history |
| `ServicesProofs`, guests and reconciliation: `CustomersTypeCorrect`, `GuestKeepsSessionAlways`, `ReconciliationTypeCorrect`, `GapsAreReportedAlways` | for any sessions, concurrent requests and times; any orders, payments and days |
| `ServicesProofs`, screens: `NotifierTypeCorrect`, `NoGapAlways` | for any processes, screens, messages and lengths of the queues, with every fault |
| `ServicesProofs`, reservations: `PlanTypeCorrect`, `PlansFitAlways` | for any opening hours, slot lengths, seats and limits |
| `ServicesProofs`, addresses: `AddressTypeCorrect`, `AloneRepairsAlways` | for any concurrent requests and addresses |
| `ServicesProofs`, advertisements: `AdTypeCorrect`, `ShownIsActiveAlways` | for any creatives, schedules, clients, processes and edits |
| `ServicesProofs`, prices: `PricingTypeCorrect`, `QuoteIsKeptAlways` | for any products, options, carts, coupons and points |
| `MCShopServicesProofs`: `PartsBehave`, `ServicesTypeCorrect` | the services side by side behave as each alone, so that the theorems about the parts are theorems about what the run `services` explores |

Arguments.

- *Order life cycle.* The properties of `lifecycle_safety` are inductive together, and the
  proofs show on what each one leans. Type correctness needs no other property, except that
  stock stays a natural number because `Purchasable` guards the deduction. `RowsAgree` needs
  the types; stock, seats and coupons need both, because a cancellation returns exactly what
  `RowsAgree` says the order still holds: an order in `cancelLog` is never pending again, so it
  is never returned twice. Counting is done on sets: `Cups(p, S)` has one element for each cup,
  so that adding or removing orders is the union or difference of finite sets and the
  cardinality theorems of the library apply; no recursive sum is needed.
- *Statements and transactions.* `TxInv` says of every session which rows it has locked and that
  what it has read of them is what they hold (`ReadsAreCurrent`); that a row has one owner; and that
  a batch, which locks nothing until it writes, knows from the version column whether its rows are
  still those it has read. A step of one session changes only rows that it owns, and this is what
  keeps the reads of the others (`Frame`, `Kept`). The proof has one lemma for each statement; a
  commit then is one action of `OrderLifecycle`, whose guards hold because they were checked on what
  is current. `SessionsAssumption` says that the four kinds of sessions are different processes: one
  session that were a client and a sweeper at once would own its rows twice.
- *Print jobs.* `CallsBounded` counts the calls made together with the workers about to call:
  the claim raises `try_count` before its worker joins them. It is inductive with the types.
  `DoneMeansPrinted` and `AbandonedIsReported` need what a worker carries between its two commits:
  one that holds "ok" has printed or passed the job over, one that holds "refused" was refused
  (`ResultsTrue`). Where `WithPrinter = Worker`, nobody passes a job over and done means printed.
- *Payment effects.* `LedgerBalances` is not inductive: an award writes what it read. The
  strengthening `WorkersAgree` says that a worker past the lock owns the row of the user and
  has read the current balance; it is the reason why the `FOR UPDATE` is needed.
  `AwardPerDispatch` counts awards, messages and workers together.
- *Maintenance.* `LockedRunsExclude` follows from `LockAgrees`: the key names a run whose time is
  not over, which the token check of `_release_task_lock` preserves. `JobInv` relates the rows to
  the runners: a selected row is pending, a taken one running and not executed, and no two
  runners hold the same row, because a row is either locked or no longer pending.
  `JobExecutedOnce` is a part of it, and `OwedIsAhead` is inductive with it.
- *Payment match.* The distributed lock is not cited anywhere: `MatchInv` puts together that a
  session owns the rows it has locked and has read what they hold (`SessionIsSafe`), that two
  pending insertions and two committed records differ in their transaction (`InsertsDiffer`,
  `TxnsAreUnique`, the unique index) and `BooksAgree`. A commit is then one step of
  `PaymentLedger`, and everything else, what inherited sessions write and lose included, is a
  stutter. `MatchAssumption` says that the imported records are unique too. `LocksExclude` has an
  argument of its own, `LockIsMine`: a lock that has not run out names the session that has it.
- *Caches.* What is stored or on its way carries when it was read. For the configuration,
  `StoredIsRecent` and `AskingIsRecent` bound how far the file of an entry may lie behind; for the
  menu, `FreshIn` bounds the age of an entry by its remaining time, and the two times to live add
  up where an entry of Redis is copied into a process; for the dashboard, `TrueBoard` says that the
  sections of an entry hold what was at rest before it was read and nothing of the days before, and
  `SaleClock` that a transaction under way stamps its rows at most `CommitTime` before it is seen.
  An entry that is kept after an invalidation was put there by a request that was under way then,
  and so began at most `ReadTime` before it (`KeptIsTrue`).
- *Screens.* `NothingLost` follows an order from the commit to the screen: it is owed to a screen
  only if it is on its way somewhere, in a task, in Redis, in a queue or in the hands of the
  sender, or one of the three losses is on record. Every step moves it to the next place or
  writes the record.
- *Reservations.* `AlignToOpenHours` is not an enumeration, and `AlignIsNext` shows that it returns
  the least of `Openings`: the rest of the range that is open, the first range of today that has
  not begun, or the first of tomorrow, where every regular day has one. `SlotsDivideTime` shows that
  two starts of slots are equal or a slot apart if the length divides an hour; `PlanInv` adds that
  seats are counted up to the capacity.
- *Addresses.* `AloneRepairs` is about one request from its beginning to its commit. `OnTheWay` says what
  its statements have done so far of what it will have done, provided that nobody else has written since
  it began, and `Repaired` is what remains at the commit.
- *Advertisements.* The version is the latest time stamp of the table, and deletions and two changes
  in one second do not raise it. `VersionsTell` holds until that happens (`reused`): entries and
  clients of one version then come from one table, so that "nothing has changed" is true.
- *Prices.* `QuoteIsSound` relates the quote to its parts: discounts never exceed what is left of
  the price. `QuoteIsCurrent` says that, until something changes, the quote is what `Quote` says
  of the present rows, and the order is compared to that. Both sides add up their lines with the
  same fold, which expands to a recursive function on finite sets; that it stays a natural number
  (`SumOfNumbers`) is shown by a set that is the least without that property.
- *Guests.* What is stored ends at most `RequestTime` before what any answer has promised
  (`PromisesKept`), since what a request is about to write was worked out when it began
  (`VisitsFresh`).
- *Reconciliation.* Orders are not unpaid and records neither removed nor changed, so that what a run
  found stays true (`KnowledgeLasts`, `UnreceivedIsBlank`). Only a new record pays an order that exists,
  and a new record was known to no run: it explains why its order is not on the report
  (`MissingIsPaid`). An order made today is on the report of no finished day.

- *The services side by side.* A step of one part leaves the variables of the others alone, so that a
  behaviour of `MCShopServices` is one of every part (`PartsBehave`), and their type invariants hold
  there. These invariants are not inductive alone: a queue is bounded because its sender is
  (`NotifierInv`), entries name times and contents there have been (`ConfigBounds`,
  `MenuBounds`, `BoardBounds`), the lock of a match names a session that has it (`LockHolders`).

Every strengthening was first given to TLC as an invariant of the configuration that checks its
module. A few assumptions on constants are named for the proofs (`...Assumption` in each module) and
say what the code says: capacities and prices are numbers, sets of rows and requests are finite
where something is counted or summed, sessions of different kinds are different.

Left to TLC. Every invariant and every safety property of a passing run is proved. What is not is
liveness under fairness, which needs ENABLED and is out of this prover's reach: `PendingResolved`,
`ReservationProduced` and `MoneyHonoured` of the life cycle, `TransactionsEnd` of the statements,
`WaitingIsTakenUp` and `SettlesUnlessCrashed` of print jobs, `OwedIsDone` of maintenance. Nor are the runs that
find a disagreement (section 6): they are about one small instance by their nature.

## 6. Where code and documents disagree

With a run that finds the disagreement:

1. *More cups paid than there were* (`lifecycle_oversold`). doc/并发安全与流程审计报告.md:31 and
   :271 call overselling fixed. It is, at creation; but cancellation returns the cups, another
   order buys them, and the late payment of the first is accepted without deducting again.
2. *A match that is answered and lost* (`match_answers`). The session of the route has begun a
   transaction when it authenticates the clerk, so that the match runs in a savepoint
   (`payment_match.py:118-137`), nobody commits, and `db/session.py:35-37` rolls back. doc/api.md:1559
   promises the rows. The tests share one session with the route and do not see it.
3. *Silent screens* (`screens_silent`). The Celery worker that announces a paid order has a notifier
   that was never started (`main.py:28` is the only place that does), so that it has no publisher
   and falls back to its own screens, of which it has none. doc/150并发流程审计报告.md:255 draws
   the broadcast from Celery.
4. *Logins that are not stored* (`login_lost`). The user a first login writes is flushed and rolled
   back with the session; doc/api.md:107 says the login writes `users`.

Met while modelling, without a run of its own:

5. *The state machine runs backwards.* readme.md:54 draws pending_payment, paid, in_production, ...
   The callback sets `paid` on any order that is not `paid` (`payments.py:110-118`): a repetition
   takes an order that is being made back to `paid`, and a late payment turns a cancelled order into
   a paid one.
6. *A receipt printed twice.* doc/并发安全与流程审计报告.md:120 calls double printing fixed. The
   callback locks the order and not the job: it writes `pending` over a `done` it has not seen
   (`payments.py:206`).
7. *Points awarded twice.* The same report (:123, :139) relies on a check inside the worker. The
   worker skips it (`tasks.py:422`), and the callback sends the effects again for an order in
   production.
8. *Edits that are not stored.* Edits of advertisements and of the inventory status, the cleanup
   started by hand (`ops.py:49`) and wishes (`want.py:83`) end in a transaction nobody commits,
   for the reason of 2 and 4.
9. *The age of a menu.* doc/150并发流程审计报告-最终版.md:549 gives the time to live as the longest
   time a change takes to be seen. The times of the two caches add up, and the time of a build
   (`ChangeIsServed`).
10. *The second connection of a screen.* doc/api.md:1346 says that it ends the first. The notifier
    keeps both.
11. *The lock of a match.* The docstring of `match_payment` (:62-70) says that a failing Redis is
    answered with 503. It is not: the advisory lock takes over (`distributed_lock.py:86`).
12. *The time of a reservation.* doc/api.md:1120 says that a time outside the opening hours, or not
    of the same day, is refused with 422, and :1139 allows the same day only. The code moves it to
    the next opening, takes any time within 24 hours, and refuses with 400 (`reservations.py:58-67`,
    `api/routes/orders`). The comment at `reservations.py:285` says that a day without ranges falls
    back to the first entry; the loop under it takes the ranges of all entries.
13. *Done without a print.* doc/150并发流程审计报告-最终版.md:412 and doc/m0-m3-analysis.md:303 draw the
    request to the printer as part of every job. Without `PRINTER_WEBHOOK_URL`, the default and what
    `.env` leaves empty, `dispatch` returns as after a print (`print_jobs.py:232-237`), and the job is done.

The invariants were written so that they say what the code does keep in the same situations:
`PaymentsBacked`, `StockConserved`, `AwardPerDispatch`, `BooksAgree` and `AloneRepairs` hold of the
behaviours above.

## 7. Not modelled

- *Shop* reads opening hours and the delivery area; no code writes them but for a default row that
  is rolled back. What reservations make of the opening hours is in `ReservationPlan`; no order is
  checked against the delivery area.
- *Wish counter* and *operations route* write rows in a transaction that nobody commits, so that a
  model of them has nothing to say that `AnswerIsStored` and `TokenIsAccepted` do not say.
- *Listings and reports* of customers and clerks, metrics, logging, limits of requests, migrations
  and scripts for tests and seeds change no state that another part reads.
- *Within modelled parts*: signatures and amounts of a callback refuse it and change nothing; the
  order number, delivery addresses, statistics of advertisements, the
  layout of the menu and heartbeats are left out.
- *Time* is ticks, and requests have a longest duration in the caches; a request that hangs for ever
  is left out there.

## 8. Plan

What is left:

1. Both transactions that write `payment_records`, the match and the callback, in one module with the
   unique index between them; here the callback only takes the order away.
2. The locks that `create_order` takes on options, after those on products.
