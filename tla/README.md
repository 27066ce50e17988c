# Verification of the inventory reservation and order processing service

TLA+ models of the service in `src/`, the TLC runs that check them, and proofs checked by
TLAPS. Paths below are relative to `src/src/` unless they start with `docs/` or `README`.

- [1. The system](#1-the-system)
- [2. Modules](#2-modules)
- [3. Runs](#3-runs)
- [4. Fairness](#4-fairness)
- [5. Proofs](#5-proofs)
- [6. Where the code departs from its documentation](#6-where-the-code-departs-from-its-documentation)
- [7. What is not modelled](#7-what-is-not-modelled)
- [8. Plan](#8-plan)

To repeat a check, in this directory: `tlc -config OrderLifecycle.cfg MCOrderLifecycle.tla`
for a run, `tlapm OrderLifecycle_proofs.tla` for a proof module.

## 1. The system

A FastAPI application, Celery workers, Celery Beat and an outbox relay share one PostgreSQL
database and a Redis broker. Clients order products; each line is reserved in one warehouse;
a worker charges the payment later and completes or fails the order; reservations expire.

| Component | State it keeps | Operations |
|---|---|---|
| Order creation (`services/order_service.py: create_order`) | `orders`, `order_items`, `inventory_reservations`, one outbox event | choose a warehouse and reserve each line, or nothing; one transaction |
| Order cancellation (`cancel_order`) | the same | RESERVED to CANCELLED, reservations released, under the order's row lock |
| Order worker (`workers/order_processor.py`) | `orders.status`, `processing_attempts`, `dead_letter_orders`; its local `attempt` | claim (RESERVED to PROCESSING), charge, then complete, put back for a retry, or fail; dead letter; self.retry |
| Reservation sweep (`workers/reservation_cleanup.py`) | reservations, orders, inventory rows | releases due ACTIVE reservations in batches, expires orders still RESERVED |
| Outbox relay (`workers/outbox_relay.py`) | `outbox_events.status` | replicas lock batches of PENDING events, send a Celery message for each, mark and commit |
| Inventory rows (`services/inventory_service.py`, `repositories/inventory_repository.py`, `services/low_stock_service.py`) | `available_quantity`, `reserved_quantity`, threshold and `is_low_stock`; alerts; audit log | adjust, reserve, release, consume, set threshold; low-stock check and audit record in the same transaction |
| Idempotency keys (`services/idempotency_service.py`) | `idempotency_keys` | claim in a savepoint, replay, reject another body, complete |
| Catalogue (`services/product_service.py`, `services/warehouse_service.py`) | products, warehouses | create, guarded by the unique SKU |
| Users (`services/auth_service.py`, `bootstrap.py`) | users | register, default admin at start, guarded by the unique email; login |
| Queries | none | reads |

**How they interact.** Creation inserts the order, its reservations and the outbox event
together. The relay turns the event into a Celery message, at least once. A worker takes the
message and works in two or three transactions with the charge, a retry or a crash between
them. Cancellation, the worker and the sweep meet at the `orders.status` column and at the
reservations' ACTIVE status; everything that moves stock meets at the inventory row, whose
counters are changed by guarded UPDATEs (`WHERE available_quantity >= q`).

**What is hard.**

- The worker holds no lock during the charge. It looks at the order again afterwards without
  testing its status ("Only this worker acts on PROCESSING orders"): right only if no duplicate
  message, redelivery, cancellation or sweep interferes.
- The sweep selects reservations by deadline and status, whatever the status of their order,
  so it does interfere: with the reservations of an order being charged.
- Messages are lost (a failed task is acknowledged), duplicated (relay, redelivery), delayed
  (retries) and reordered. Workers die between transactions.
- A batch of the sweep can split the reservations of one order.
- Creation at READ COMMITTED: the warehouse is chosen by a SELECT and reserved by a later
  UPDATE; row locks last to the end of the transaction, so that orders with the same products
  in opposite order can deadlock, and so can a creation and the settling of an order that
  update the same rows.
- Cancellation and worker lock the order and then its reservations, the sweep reservations and
  then their orders: they deadlock, and the worker that PostgreSQL aborts loses its message.
- Sending a message is final and marking its event is not: a batch of the relay that fails
  half-way has sent some messages and marked nothing.
- Products, users and the first inventory row of a pair are inserted after a check that another
  request may pass as well.
- Two requests with one Idempotency-Key: the second must wait for, and then replay, the first.
- The low-stock flag, the alerts and the audit log are kept by hand on every path.

**What makes each component correct.** Creation: all lines or nothing, never more than the
stock. Lifecycle: reserved counters equal the ACTIVE reservations; no unit lost or made up; a
terminal order stays as it is; each order is charged by one worker at a time and within its
budget, and paid once at most; its messages do not multiply; stock is not held for orders that are over, and is held until the deadline for those
that are not; due stock is freed; orders settle. Inventory row: the audit log explains it; low
stock is flagged; one alert per crossing. Idempotency: one order per key, replies that match
the key and body, no key blocked by a failed attempt, every request answered. Relay: no event is
put aside unsent, few duplicates, every event handled. Row locks: the interleaved statements add
up to the atomic steps the other properties are about, deadlocks have the shapes that the lock orders
explain, and every transaction ends. Catalogue,
users, first rows: what is stored is what was acknowledged.

## 2. Modules

| Module | Models |
|---|---|
| `OrderLifecycle` | the life of an order over API, relay, broker, workers and sweep |
| `OrderContract` | what an order and its stock may do, for someone who sees neither messages nor workers; `OrderLifecycle` implements it |
| `MCOrderLifecycle` | its small instances |
| `StockReservation` | `create_order` statement by statement against other transactions on the rows |
| `StockAllocation` | the abstract promise of order creation |
| `StockRows` | the inventory rows and order lines both speak of |
| `MCStockReservation` | small instances of `StockReservation` |
| `StockLedger`, `MCStockLedger` | one inventory row with its flag, alerts and audit log |
| `Idempotency` | the Idempotency-Key protocol |
| `RowLocks` | cancellation, the worker's second transaction and the sweep, statement by statement; extends `OrderLifecycle` and implements it |
| `Outbox`, `MCOutbox` | relay replicas, batches, failures; at the other end the tasks |
| `OutboxPromise` | the abstract promise of the outbox |
| `Catalog`, `MCCatalog` | requests that insert products, warehouses, users and first inventory rows |
| `OrderLifecycle_proofs`, `OrderLifecycle_promises` | theorems of `OrderLifecycle` |
| `StockLedger_proofs`, `StockReservation_proofs`, `Idempotency_proofs`, `RowLocks_proofs`, `Outbox_proofs`, `Catalog_proofs` | theorems of the others |

### OrderLifecycle

Each action is one committed transaction or one step on the queue. A rolled-back transaction
changes nothing and is not a step. State and code:

- `available`, `reserved`: the counters of an inventory row; `stocked`: what the adjustments
  added up to, the only history the model keeps.
- `status`, `token`, `attempts`, `line`, `resv`, `due`, `dead`: an order's columns, its lines,
  the statuses of its reservations, whether `expires_at` has passed (the lines of an order share
  one, computed at `services/order_service.py:91`), and its dead letters.
- `outbox`, `queue`: the ORDER_RESERVED event, and the copies of the message in the broker. `SENT` is
  an event whose message is out and whose mark is not committed: PENDING to everybody but the relay
  that has it locked. `RelaySend` and `RelayCommit` are two steps, so that a worker can take the message in
  between. A
  delayed retry is a message like any other: delivery may take any time, and a duplicate may
  overtake it.
- `pc`, `job`, `attempt`: a worker in `process_order`. `charging` is after the first
  transaction; `retrying` before `self.retry`; `deadletter` before the third transaction;
  `acking` before the acknowledgement (`task_acks_late`).
- Faults, each kind switched on by `FaultKinds`: `crash` (the worker dies; the broker delivers
  again), `redeliver` (the broker gives up on a worker that still runs), `error` (a
  transaction or broker call raises; the failed task is acknowledged and its message is gone),
  `relay` (the relay dies, or a later event of its batch fails, between sending and the commit: any set of SENT
  events is PENDING again at once, `RelayInterrupted(S)`).

`Qty` sums quantities by counting units `<<order, i>>` with `i <= line`, which needs no
recursion and can be proved about. The `>=` guards of `Release` and `Consume` are the WHERE
clauses of the UPDATEs, whose row count the code ignores; `ReservedMatchesHolds` shows that
they never fail.

### OrderContract

The same orders, lines, reservations and stock, without outbox, queue, workers, attempts and reserved counters. An order
is placed as a whole or not at all (`Place`); payment begins or is put off (`Move`); it is sold (`Sell`), or cancelled
or failed (`CallOff`), with everything it holds at that moment; lines past their deadline come back in any number
(`Expire`) and take with them the orders that are still RESERVED. `Intact` is what a client may count on at each of these
steps: before the deadline nothing that was granted is missing. After the deadline it may be, and 6.2 is what that
leads to. The mapping is by name: `KeepsContract` hides the variables `OrderContract` does not have.

### StockReservation, StockAllocation

`StockAllocation` is what clients are promised: one step grants all lines, each whole from one
warehouse, from stock that is there; or the request is refused. `StockReservation` is the
transaction: `Choose` (`find_best_warehouse`), `Reserve`/`Wait`/`Resume`/`LoseRace` (the guarded
UPDATE: it takes the row, waits for its lock, or matches no row), `Commit`, and the rollbacks
`NoWarehouse`, `LoseRace`, `DeadlockVictim`, `Abort`. `available` is the committed counter; a
running creation has locked exactly the rows it has taken from. Under the refinement mapping
a running creation has an `open` outcome and holds nothing; its commit is `Grant`.
`OrderLifecycle` creates orders in one step: this refinement is what justifies it.

The order is settled later, by a cancellation, the worker or the sweep: `BeginSettling`, then one UPDATE of an
inventory row for each of its reservations (`MoveRow`, in any order, since the SELECT has no ORDER BY), then
`CommitReturn` (the units are available again) or `CommitConsume`. `moved[t]` is the rows it has updated, and so
locked. `SettlingVictim` and `SettlingFails` roll it back, and it may begin again. Only the locks on inventory rows
are here; who may settle the order is in `RowLocks` and `OrderLifecycle`, and an order is settled as a whole here: the
batch of the sweep that takes a part of it is in `OrderLifecycle`. A manual adjustment updates one row and commits.
`beaten` is history: the requests whose chosen row has lost committed stock since they chose it.

### StockLedger

One row. Each action is what one transaction does to it, including
`_check_low_stock_transition` and the audit record where the code calls them, and their absence
where it does not: the sweep (`ExpireReservation`) repeats `release_reservation`'s statements
but not the check. `CreateRow` and `SetThreshold` insert a missing row. SQL's NULL threshold is
`NoThreshold` and compares as false.

### Idempotency

A request is one run of `create_order`; a client's retry is another request. The claim is
uncommitted until the order commits, so `claimant[k]` is the lock on the unique index entry; an
INSERT of the same key waits. An empty key is no key for the claim (`if idempotency_key:`,
`services/order_service.py:65`), and a key for the unique index on `orders` (line 144): `Duplicate`. Creation succeeds or fails as a whole, since it is the subject of
the other modules.

### RowLocks

The variables of `OrderLifecycle` are the committed database, the broker and the workers; a session
(a cancellation, a worker's second transaction, a run of the sweep) adds its next statement
(`at`), its order (`doing`), the reservations it has read and not handled (`todo`, `cur`), what it has
written and not committed (`marked`, `expiring`) and the rows it has locked (`held`). A statement
runs when nobody else holds its row (`Runs`). `List` takes no lock, as in the code; `BeginSweep` passes
over locked reservations (SKIP LOCKED). A circle of waiting sessions is broken by aborting one of
them: a client gets an error, Beat starts the sweep again, and a worker's task raises and is
acknowledged (`AbortWorker`). The commits write what OrderLifecycle's atomic actions write. The
other transactions stay atomic and wait for the rows they write; the statements of creation, and the deadlocks
over inventory rows that they take part in, are the subject of `StockReservation`. `SettlesAtomically` is OrderLifecycle's own `Spec`: the variables have the same
names, so the refinement mapping is the identity and the lock variables are hidden by it.

### Outbox, OutboxPromise

`status` is the committed row, `queue` the messages in the broker, `handled` the runs of the task. A relay
claims the oldest unlocked events up to `BatchSize` (`created_at` is when the emitting transaction
began, so an older event may appear later), sends and marks one after the other, and commits. `Abort` is
an exception or a crash anywhere in the batch; the broker may have taken the message whose call failed.
`OutboxPromise` knows no relays and no locks: only sent events are marked PUBLISHED.

### Catalog

Each request is one transaction: the reads and the decision of its service, the INSERT or UPDATE, the
commit, and the refresh for the response. `pending` is what it has written and not committed, and is
at the same time the lock: an INSERT of the same unique key, or an UPDATE of the same row, waits for it.
A flush that finds the key committed raises IntegrityError, which no service catches at that place.
A fault may hit any statement, the refresh after the commit included: then the change is made and the
client is told INTERNAL_ERROR. A request about a product or warehouse that is not there names an id
nobody has.

## 3. Runs

| Run | Expected | Question and answer |
|---|---|---|
| `order_lifecycle` | pass | Do statuses, reservations, counters and the retry budget stay consistent under any interleaving and a fault, are lines held until the deadline, does every customer pay once at most, are there never more messages for an order than one and the faults, is no RESERVED order forgotten, and do clients see the service of `OrderContract`? |
| `order_liveness` | pass | Is due stock always freed; do orders settle and dead letters get written while nothing fails; and does a fault lose more than one order? |
| `worker_crash` | violation | Does every PROCESSING order leave PROCESSING? No, see 6.1. |
| `completed_unconsumed` | violation | Does COMPLETED consume every line? No, see 6.2. |
| `due_unexpired` | violation | Does a RESERVED order past its deadline leave RESERVED? No, see 6.3. |
| `row_locks` | pass | Do the statements of cancellation, worker and sweep add up to their atomic steps, rest on decisions that still hold at the commit, deadlock only in the way `DeadlocksKnown` says (nobody in a circle still waits for his order; one who waits for a reservation waits for a sweep), end nevertheless, and free the stock? |
| `stock_reservation` | pass | Does creation implement `StockAllocation` and refuse only those whose stock is not there or who were beaten to their row, and do all transactions, creating or settling, end? |
| `stock_ledger` | pass | Is the row explained by its log, low stock flagged, every alert a crossing? |
| `missed_alert` | violation | Does each crossing raise an alert? No, see 6.4. |
| `idempotency` | pass | One order per key, faithful replays, no poisoned key, every request answered? |
| `outbox` | pass | Do relay replicas keep the promise of the outbox, send no more duplicates than there are failures, and get every event handled? |
| `catalog` | pass | Do racing inserts store what was acknowledged, refuse for committed rows only, and all get an answer? |

**Bounds, and why they are enough.**

- `order_lifecycle`: two orders and two workers, so that every pair of operations on one order,
  or on the row two orders share, can interleave (three workers or orders add no new pair);
  two attempts, so that one payment is put off and one is final (budgets of any size are the proofs' matter); two products and
  `BatchSize = 1`, the smallest instance in which a batch splits an order and an order is EXPIRED
  with reservations left; a stock of two, so that orders compete; one fault, of any kind but
  `error`: a task that raises loses its message, and `ReservedHasTrigger` is then false (6.3 shows
  where that leads). The other invariants are proved for any number of faults of every kind.
- `order_liveness`: liveness is checked without symmetry, hence one unit per line, two attempts
  and one fault. `StockFreed` holds whatever the fault; the other two are stated up to the first fault. Crash, redelivery and
  `error`: this is the run in which an order can be lost, so `LossesBounded` is checked here. Faults of the relay are in
  `order_lifecycle` (`ReservedHasTrigger`) and `outbox`, and in the theorem for all kinds, `FaultsLoseOneEach`.
- `stock_reservation`: two requests, two lines, two products, two warehouses: the smallest
  instance with opposite lock orders (creation against creation, and against the settling of an order), a choice of
  warehouse and a partial order to roll back. A write-off of one unit; stock comes back with the orders.
- `stock_ledger`: quantities and adjustments of up to three units around thresholds 0 to 2: each
  comparison is tried below, at and above its boundary. The log's sums are bounded by `MaxLogged`.
- `idempotency`: three requests, two keys, the empty one and none, two bodies: a claim, a waiting request, and a third
  that arrives after either.
- `row_locks`: one order of two lines, a worker, a cancellation and two sweeps with
  `BatchSize = 1`: each sweep can hold one of the order's reservations while another session holds
  the order, which gives circles of two and three sessions, and SKIP LOCKED something to skip. Circles of settlers
  over inventory rows need two orders; `DeadlocksAreKnown` has them, and with creations `stock_reservation`. Two
  attempts: one that is retried and one that is not. Two faults (error, crash), so that the worker can be
  the victim. Liveness, so no symmetry.
- `outbox`: two relays and batches of two over three events, two of them of the same moment: batches
  of one relay that are full and not full, an event left for the other relay, ties in the order. Two
  faults, so that an event's second sending can fail as well.
- `catalog`: three requests of any kind and amount for one SKU, email and pair, over any products and
  warehouses already there: a winner, a waiting loser, and a third that comes before, between or after.
  Adjustments of 2, -1 and -2, so that a removal is refused, partial or complete. One fault.

No run checks for states without a successor: orders end and requests are answered, so every model
may stop. What
must not stop is stated as liveness.

Every passing property has a mutant in `PROJECT.json`: a change to one definition, as a bug in
the mapped code would make it, under which the run fails.

## 4. Fairness

- `RelayStep(o)`: weak, for sending and for the commit. `run_forever` polls without end, and its loop survives exceptions.
- `WorkerStep(w)`: weak. A Celery worker waits for messages and runs what it takes. Since a
  worker's steps are one action, no message is promised to be taken while others come; messages
  are finitely many, so each is.
- `DeadlinePasses(o)`: weak. Time passes.
- `Sweep`: weak. Beat schedules the task without end (`workers/celery_app.py`). It is one action
  over all batches: no reservation is promised to be in the next batch, but a batch only takes ACTIVE
  reservations and makes them RELEASED, so each is reached.
- No fairness for clients (create, cancel, adjust) or for faults.
- `StockReservation`: strong for the steps of each creation and of each settling that has begun, its being chosen as the
  victim when it is in a circle included (PostgreSQL's deadlock detector runs after `deadlock_timeout`). Strong, because an
  order can be settled again and again by transactions that fail, each locking and freeing the row another waits for: a
  waiting UPDATE is in the row's queue, so it gets the lock if the row is free again and again. None for `BeginSettling`,
  `SettlingFails`, `Abort` and adjustments.
- `RowLocks`: strong for the statements of a transaction that has begun, for the same reason. Weak for `DeadlockEnds`, the detector. None for beginning a cancellation.
- `Outbox`: weak for a relay's claim, sending and commit, and for the workers. Nobody promises to start a
  relay that has stopped (`docker-compose.yml` has no restart policy), so `EventsHandled` is stated for
  behaviours in which some relay keeps running.
- `Catalog`: weak for each request's steps; requests are finitely many, so each waits for finitely many.
- `Idempotency`: weak for the thread that serves a request. `Fail` is not fair: a request is
  answered without it.

## 5. Proofs

TLC checks small instances; the theorems hold for every value of the constants that satisfies
the modules' assumptions: finitely many orders, at least one attempt, batches of at least one, quantities integers, and
the bounds natural numbers. Products, warehouses, workers, keys and bodies may be any sets; `Catalog` has finitely
many requests, whose number is not fixed. Every safety property of a passing run is a theorem.

**OrderLifecycle.** The core is `OwnInv` in `OrderLifecycle_proofs`: the types, `BusyHasJob` (a
worker that is not idle has an order), `Unborn` (an order that does not exist has no
attempt, deadline, line or reservation) and `ChargingOwnsOrder`. The last is inductive only with the
others: a claim needs RESERVED, so two workers cannot claim one order; cancellation and the sweep
change RESERVED orders only, so neither touches a PROCESSING one. From it:

- `ChargingIsExclusive`, `TerminalStays`;
- `ReservedIsExact` and `StockIsConserved`, by counting units: settling a
  set of reservations moves their units from one finite set to a disjoint one, so cardinalities add
  up, and the guarded UPDATEs match;
- in `OrderLifecycle_promises`: `BudgetKept`, `NothingHeldInVain`, `PromiseKept`, `LettersJustified`;
  and `NoOrderForgotten`, which assumes `"error" \notin FaultKinds`: crashes, redeliveries and a
  dying relay lose no RESERVED order, a task that raises can;
- `CustomersPayOnce`. `PaidOnce` alone is not inductive: when the worker completes an order it tests neither its status nor its
  attempts, so `PaidInv` adds that a PROCESSING order has been charged. With `ChargingOwnsOrder` the order is PROCESSING
  at that moment, and if its token is good this was its first attempt. A cancelled, expired or retried
  order is RESERVED before the step and so was never charged with a good token;
- `MessagesDoNotMultiply`. `InFlight(o)` counts the event until it is sent (a SENT one has its
  message, although its row is not marked yet), the messages and the workers that have not finished. A
  retry replaces its worker by a message, a delivery a message by a worker, the relay's sending the event by a
  message; a redelivery, an interrupted relay and the crash of a worker that had only to acknowledge add one. `MessageInv` adds what the counting needs: nothing is in
  flight for an order that does not exist (so a new event is the first), an idle worker has no job (so it is
  not counted twice), and the busy workers of an order are finitely many, though the workers may be any set;
- `FaultsLoseOneEach`, which assumes nothing of the faults. `Lost` names the orders nothing will act on any more:
  RESERVED without event, message or retry, PROCESSING without a worker, FAILED on the last attempt without its dead
  letter. Each step is shown to add no order to them, and a fault at most the one order it is about
  (for a crash or an error, the worker's job), so their number stays below the number of faults. That a step
  without a fault adds none rests on `OwnInv`: only the owner of an order leaves PROCESSING, and it goes on to the
  retry or to the dead letter;
- `ContractIsKept`, the refinement `Spec => Contract!Spec`, from the conjunction of the stock and the life
  invariants. Each step of the API, the worker's transactions and the sweep is one step of `OrderContract`, each step on
  the queue a stutter. The stock invariant makes the guarded UPDATEs match, so units move as the contract says;
  `HeldUntilDeadline` gives `Intact`; `ChargingOwnsOrder` gives the status that `Sell` and `CallOff` require and
  that the worker does not test.

**StockReservation.** `ReservationInv` adds to the types and to `LockedUnitsAreThere` that a request
holds exactly the lines it has passed, each in one row (`HoldsReached`), and that it reserves a
row of the product it is at. At the commit all lines are passed, so what it holds serves the order,
and `LockedUnitsAreThere` gives the stock. `ReservationKeepsPromise` is the refinement
theorem `Spec => Promise!Spec`; `LockedUnits` follows from the same invariant, which holds for the rows of settling
transactions as well. `RefusalsExplained` needs one more fact, `SawStock`: whoever has chosen a row and is not `beaten` finds
there at least the units he asked for. It is kept because the committed stock of a row falls in two steps only, a commit
and a write-off, both of which beat him; so `LoseRace` without being beaten is impossible, and the stock is really missing
when `NoWarehouse` refuses. `CommitIsPlacing`
ties the transaction to the order's life: seen through the mapping in `StockReservation_proofs`, a commit is the step
`Place` of `OrderContract`, with one of the baskets `OrderLifecycle!CreateOrder` ranges over.

**StockLedger.** `LedgerInv` is the audit equation, the flag's one-sided guarantee, and that a row that
does not exist is empty (`AbsentRow`), without which the first adjustment could contradict both.

**Idempotency.** `KeyInv`: the claim of a key is held by exactly the one request that is creating with it,
over an absent row; a committed row names the order made with its key and body, and conversely; an empty key,
which has neither, is on one order at most by the unique index.
`FailuresFreeTheKey` includes that the 409 for a key in progress is never answered. `WaitingIsOneDeep` is the safety half of
`RequestsAnswered`: whoever cannot go on waits for the claimant of his key, whose creation nothing blocks.

**RowLocks.** `LockInv` relates locks, statements and the committed database: a settler past its first statement
holds its order's row and the rows of what it has marked; no row has two holders; what is listed or marked is
ACTIVE; what a settler has handled and has left is together every ACTIVE reservation of its order, unless the
order is retried; what a sweep has claimed is due, and it holds and expires the RESERVED orders among the
handled ones. That a listed reservation stays ACTIVE although `List` takes no lock is the delicate part: only a sweep could
settle it, and a sweep must lock the order before it commits. From it follow `DecisionsAreKept` and
`StatementsSettleAtomically`, which is `LSpec => Spec`: every safety theorem of `OrderLifecycle` carries over. Two are
drawn: `StatementsKeepStock` and `StatementsKeepContract`, by which the interleaved statements, two refinements down, keep
`OrderContract`. `DeadlocksAreKnown` adds to the invariant that a settler holds nothing before its order and no reservation of another one:
two settlers that met at a reservation would both hold its order's row. The proof assumes that products and warehouses are finitely many.

**Outbox.** The inductive invariant is the types, that no event is in two batches, that a locked event is PENDING and a marked one
was sent, and `DuplicatesBounded`. `PromiseIsKept` is the refinement `Spec => Promise!Spec`; an `Abort` that got its
message out is a `Send` of the promise, every other `Abort` a stutter.

The types of `Outbox`, `StockReservation`, `StockLedger`, `Idempotency` and `RowLocks` are proved and, holding little of their own,
not listed in the runs.

**Catalog.** `EffectsMatchAnswers` says that some set `S` of interrupted requests, the same for every key, explains what
is stored. That is preserved only together with the discipline of `CatalogInv`: a request has a row pending exactly between its write and
its commit, and no two have one on the same key (`OneWriter`); the pending row is the committed one with this request's
change made, or a new one where none is committed (`NothingLost`: an UPDATE locks the row it read, so nobody changes it in
between); an UPDATE's row exists, a request is answered when it is done, and an interrupted one is told INTERNAL_ERROR
(`Answers`). A commit then adds one request's units to sets it was not in; the quantities are sums of units, added and
removed, as in `Qty`. A fault after the commit puts the request into `S`, one before it does not.
`RefusalsNameARow` needs that rows are never deleted (`RowStays`) and that a row's `by` is a request that took effect.

Only model-checked: what is under fairness (`StockFreed`, `OrdersSettle`, `ExhaustedGetsDeadLetter`,
`RequestsAnswered` of `Idempotency` and of `Catalog`, `TransactionsEnd` of `StockReservation` and of `RowLocks`,
`EventsHandled`), since liveness and ENABLED are
beyond the proof system.

## 6. Where the code departs from its documentation

Each of the first four has a run whose counterexample is the behaviour.

1. **An order stays PROCESSING for ever when its worker dies** (`worker_crash`). The claim is
   committed before the charge; the redelivered message finds PROCESSING and returns
   (`workers/order_processor.py:56`). `workers/celery_app.py:30-32` counts on redelivery. Its stock
   is freed by the sweep at the deadline, the order is not.
2. **A COMPLETED order that consumed nothing** (`completed_unconsumed`). The sweep releases the
   reservations of an order being charged (`repositories/reservation_repository.py:79`); the worker
   completes it with no ACTIVE reservation left. The customer has paid, the stock is free again.
3. **A RESERVED order nothing will end** (`due_unexpired`). Swept while PROCESSING, put back to RESERVED
   for a retry, and the retry lost: an order is only expired together with a reservation.
4. **A crossing without an alert** (`missed_alert`). The sweep does not call the low-stock check
   (`workers/reservation_cleanup.py:61`): the flag stays up over a row that recovered.

Met while modelling, without a run of their own:

- An order may be refused while another warehouse has the stock: the loser of a race for a row does not look
  further. The comment at `services/order_service.py:107-110` calls this refusal correct;
  `RefusedOnlyIfBeaten` states what does hold: the row must really have lost committed stock since it was chosen.
- A second order with an empty `Idempotency-Key` header gets INTERNAL_ERROR: no claim is made for it, and the unique index on
  `orders.idempotency_key` rejects the INSERT.
- A client who is told INTERNAL_ERROR for an adjustment may repeat it and add the stock twice, if the failure was the
  refresh after the commit (`services/inventory_service.py:102`). `EffectsMatchAnswers` bounds what may be stored without an
  acknowledgement, the change of an interrupted request, whole and once; that its repetition adds again is not excluded.
- A deadlock strands an order without any crash: when PostgreSQL aborts the worker that waits for the sweep, its
  task raises, is acknowledged, and the order stays PROCESSING (6.1 reaches the same state by a crash).
- Two requests that create one SKU at the same time: the loser gets INTERNAL_ERROR. The flush at
  `services/product_service.py:26` raises before the try block that would turn it into DUPLICATE_SKU. It is safe: one row,
  one acknowledgement. The same holds of users and first inventory rows.
- Two API containers that start at once on an empty database: one's `bootstrap.py`, "safe to run on every container
  start", may fail on the unique email, and with it the container's start command.
- The `WHERE status = 'ACTIVE'` guard of `mark_released` and `mark_consumed` never fails: the order's lock suffices (`DecisionsHold`).
- A crash between `_fail_order`'s commit and the dead-letter transaction loses the dead letter: the
  redelivered message finds FAILED. `ExhaustedGetsDeadLetter` is therefore stated up to the first fault.
- A duplicate message is processed at once although a retry with backoff is pending.
- `models/audit_log.py:23-24` describes `change` as the change to `available_quantity`; ORDER_COMPLETED
  logs `-quantity`, which did not move. `AuditReconstructsRow` states what the log does determine.
- `repositories/inventory_repository.py:32-33` speaks of locks held for a single statement; they last to
  the commit, hence the deadlocks in `StockReservation`.
- The 409 branch of `idempotency_service.begin` cannot be reached: an uncommitted claim is
  invisible, and a second INSERT waits.

## 7. What is not modelled

- **32-bit counters.** A column near 2^31 makes the UPDATE raise and its transaction roll back.
- **Prices, ownership checks, login, tokens, passwords and roles, queries and pagination, HTTP, logging,
  configuration.** No state that the properties speak of, or pure I/O.
- **Events without a handler.** The relay would skip them and leave them PENDING; the code emits none.
- **Circles of creations, settlers and sweeps at once.** A creation that waits for the inventory row of a cancellation that
  waits for the reservation of a sweep that waits for the creation's inventory row is in neither `RowLocks`, where creation
  is one step, nor `StockReservation`, where settling has inventory rows only. The database breaks it like the others.
- **The ORM's identity map.** It matters to the wording of a refusal only (`services/order_service.py:177`).
- **Lengths of columns.** An adjustment's `reason` may have 255 characters and is stored in a column of 64: the INSERT
  raises and the adjustment is rolled back, which `Catalog` has as a fault like any other.

## 8. Plan

Done, with proofs of all their safety properties: `OrderLifecycle`, `OrderContract`, `StockLedger`, `StockRows`,
`StockAllocation`, `StockReservation`, `Idempotency`, `RowLocks`, `Outbox`, `OutboxPromise`, `Catalog`. Left:

1. The composition of `Idempotency` with `StockReservation`: requests that wait for a key hold no row locks, so the
   two kinds of waiting form no circle. `WaitingIsOneDeep` and the statement order of `create_order` are the argument today.
2. `StockReservation` has the inventory rows of creation and settling, `RowLocks` the orders, reservations and inventory rows
   of settling alone; one module with the statements of all four transactions would have their common circles too (a creation
   that waits for a cancellation that waits for a sweep).
