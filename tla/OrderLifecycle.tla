--------------------------- MODULE OrderLifecycle ---------------------------
(***************************************************************************)
(* The life of an order, at the grain of the database transactions and of  *)
(* the message steps between them: creation, cancellation, the outbox      *)
(* relay, the Celery workers that charge the payment, the sweep that       *)
(* expires reservations, and manual stock adjustments.                     *)
(*                                                                         *)
(* Each action is one committed transaction (a rolled-back one changes     *)
(* nothing and is no step) or one step on the message queue.  A worker's   *)
(* run is several actions, so everything may happen between them.          *)
(*                                                                         *)
(* Abstracted: prices, users and ownership checks, ids, timestamps (a      *)
(* deadline has passed or not), audit rows and low-stock flags (module     *)
(* StockLedger), idempotency keys (module Idempotency), how a transaction  *)
(* is made of statements and row locks (for creation, StockReservation).   *)
(***************************************************************************)
EXTENDS Integers, FiniteSets

CONSTANTS
    Orders,       \* order ids; an id is used for at most one order
    Products,
    Warehouses,
    Workers,      \* Celery worker processes
    NoOrder,      \* the job of an idle worker
    MaxAttempts,  \* settings.payment_max_attempts
    BatchSize,    \* reservation_cleanup.BATCH_SIZE
    Deltas,       \* the manual adjustments tried
    MaxQty,       \* bound: units per order line
    MaxStock,     \* bound: units ever stocked in a row
    FaultKinds,   \* the kinds of fault considered, of "crash", "error", "redeliver", "relay"
    MaxFaults     \* bound: number of faults

ASSUME OrdersAssumption == IsFiniteSet(Orders) /\ NoOrder \notin Orders
ASSUME BoundsAssumption ==
    /\ MaxAttempts \in Nat \ {0}
    /\ BatchSize \in Nat \ {0}
    /\ MaxQty \in Nat \ {0}
    /\ MaxStock \in Nat
    /\ MaxFaults \in Nat
    /\ Deltas \subseteq Int

Rows == Products \X Warehouses     \* the inventory rows

VARIABLES
    available,  \* available[k], reserved[k]: the two counters of inventory row k
    reserved,
    stocked,    \* stocked[k]: net effect of the adjustments (STOCK_ADDED/STOCK_REMOVED audit rows)
    status,     \* status[o], "NONE" before the order exists
    token,      \* token[o]: payment_token
    attempts,   \* attempts[o]: processing_attempts
    line,       \* line[o][k]: units of row k the order reserved, 0 for none
    resv,       \* resv[o][k]: status of that reservation, "NONE" when there is no line
    due,        \* due[o]: expires_at has passed (one value for the whole order)
    dead,       \* dead[o]: number of dead_letter_orders rows
    outbox,     \* outbox[o]: status of the ORDER_RESERVED event
    queue,      \* queue[o]: copies of the message in the broker, delayed retries included
    pc,         \* pc[w], job[w], attempt[w]: where worker w is in process_order, its
    job,        \*   order_id, and its local variable `attempt`
    attempt,
    faults      \* number of faults so far

stockVars  == <<available, reserved, stocked>>
orderVars  == <<status, token, attempts, line, resv, due, dead>>
workerVars == <<pc, job, attempt>>
vars == <<stockVars, orderVars, outbox, queue, workerVars, faults>>

\* What an order may ask: some lines, at most one per product, each served by one
\* warehouse.
Baskets ==
    {b \in [Rows -> 0 .. MaxQty] :
        /\ \E k \in Rows : b[k] > 0
        /\ \A k, l \in Rows : k # l /\ b[k] > 0 /\ b[l] > 0 => k[1] # l[1]}

\* What a client sees of orders and stock.
Contract == INSTANCE OrderContract

Statuses == {"RESERVED", "PROCESSING", "COMPLETED", "FAILED", "CANCELLED", "EXPIRED"}
Terminal == {"COMPLETED", "FAILED", "CANCELLED", "EXPIRED"}
Tokens == {"success", "fail", "fail_retryable"}
Steps == {"idle", "charging", "retrying", "deadletter", "acking"}

-----------------------------------------------------------------------------
(* Reservations and the inventory counters                                 *)

\* The quantities of a set R of reservations <<o, k>>, summed at row k by counting
\* their units.
Units(R, k) == {u \in Orders \X (1 .. MaxQty) : <<u[1], k>> \in R /\ u[2] <= line[u[1]][k]}
Qty(R, k) == Cardinality(Units(R, k))

\* Mutant: leaves the reservations past their deadline to the sweep.
ActiveOfNotDue(o) == {r \in {o} \X Rows : resv[o][r[2]] = "ACTIVE" /\ ~due[o]}

ActiveOf(o) == {r \in {o} \X Rows : resv[o][r[2]] = "ACTIVE"}

\* mark_released, mark_consumed, and the UPDATE of claim_expired_batch. The ACTIVE guard of
\* the first two is the choice of R, which the transaction's locks keep true.
Settle(R, to) ==
    resv' = [o \in Orders |-> [k \in Rows |-> IF <<o, k>> \in R THEN to ELSE resv[o][k]]]

\* inventory_repository.release and consume: one guarded UPDATE per reservation.
Release(R) ==
    /\ available' = [k \in Rows |-> IF reserved[k] >= Qty(R, k)
                                    THEN available[k] + Qty(R, k) ELSE available[k]]
    /\ reserved' = [k \in Rows |-> IF reserved[k] >= Qty(R, k)
                                   THEN reserved[k] - Qty(R, k) ELSE reserved[k]]

\* Mutant: takes the units from the available counter too.
ConsumeTwice(R) ==
    /\ available' = [k \in Rows |-> available[k] - Qty(R, k)]
    /\ reserved' = [k \in Rows |-> reserved[k] - Qty(R, k)]

Consume(R) ==
    /\ reserved' = [k \in Rows |-> IF reserved[k] >= Qty(R, k)
                                   THEN reserved[k] - Qty(R, k) ELSE reserved[k]]
    /\ UNCHANGED available

-----------------------------------------------------------------------------
(* The API                                                                 *)

\* Mutant: reserves without checking the stock.
InStockUnchecked(b) == TRUE

InStock(b) == \A k \in Rows : available[k] >= b[k]

CreateOrder(o, b, t) ==
    /\ status[o] = "NONE"
    /\ InStock(b)
    /\ available' = [k \in Rows |-> available[k] - b[k]]
    /\ reserved' = [k \in Rows |-> reserved[k] + b[k]]
    /\ status' = [status EXCEPT ![o] = "RESERVED"]
    /\ token' = [token EXCEPT ![o] = t]
    /\ line' = [line EXCEPT ![o] = b]
    /\ resv' = [resv EXCEPT ![o] = [k \in Rows |-> IF b[k] > 0 THEN "ACTIVE" ELSE "NONE"]]
    /\ outbox' = [outbox EXCEPT ![o] = "PENDING"]
    /\ UNCHANGED <<stocked, attempts, due, dead, queue, workerVars, faults>>

\* Mutant: cancels an order whose payment has begun.
CancellableProcessing(o) == status[o] \in {"RESERVED", "PROCESSING"}

\* CANCELLABLE_ORDER_STATUSES; no code path creates a PENDING order.
Cancellable(o) == status[o] = "RESERVED"

CancelOrder(o) ==
    /\ Cancellable(o)
    /\ Settle(ActiveOf(o), "RELEASED")
    /\ Release(ActiveOf(o))
    /\ status' = [status EXCEPT ![o] = "CANCELLED"]
    /\ UNCHANGED <<stocked, token, attempts, line, due, dead, outbox, queue, workerVars, faults>>

AdjustStock(k, d) ==
    /\ d # 0
    /\ available[k] + d >= 0
    /\ stocked[k] + d <= MaxStock
    /\ available' = [available EXCEPT ![k] = @ + d]
    /\ stocked' = [stocked EXCEPT ![k] = @ + d]
    /\ UNCHANGED <<reserved, orderVars, outbox, queue, workerVars, faults>>

-----------------------------------------------------------------------------
(* The outbox relay: send the message, mark the row, and commit at the end *)
(* of the batch.  A "SENT" row is still PENDING to everybody else, and     *)
(* locked, so that the other replicas skip it.                             *)

RelaySend(o) ==
    /\ outbox[o] = "PENDING"
    /\ outbox' = [outbox EXCEPT ![o] = "SENT"]
    /\ queue' = [queue EXCEPT ![o] = @ + 1]
    /\ UNCHANGED <<stockVars, orderVars, workerVars, faults>>

RelayCommit(o) ==
    /\ outbox[o] = "SENT"
    /\ outbox' = [outbox EXCEPT ![o] = "PUBLISHED"]
    /\ UNCHANGED <<stockVars, orderVars, queue, workerVars, faults>>

RelayStep(o) == RelaySend(o) \/ RelayCommit(o)

\* A fault of a kind the model considers, within the bound.
Fault(kind) ==
    /\ kind \in FaultKinds
    /\ faults < MaxFaults
    /\ faults' = faults + 1

\* Mutant: the rows are marked, and committed, before their messages are sent.
RelayInterruptedAfterMark(S) ==
    /\ Fault("relay")
    /\ S # {} /\ \A o \in S : outbox[o] = "PENDING"
    /\ outbox' = [o \in Orders |-> IF o \in S THEN "PUBLISHED" ELSE outbox[o]]
    /\ UNCHANGED <<stockVars, orderVars, queue, workerVars>>

\* The relay dies, or a later event of its batch fails: the marks of the events S of the
\* batch that were sent are rolled back, all at once.
RelayInterrupted(S) ==
    /\ Fault("relay")
    /\ S # {} /\ \A o \in S : outbox[o] = "SENT"
    /\ outbox' = [o \in Orders |-> IF o \in S THEN "PENDING" ELSE outbox[o]]
    /\ UNCHANGED <<stockVars, orderVars, queue, workerVars>>

-----------------------------------------------------------------------------
(* The order worker: process_order and its Celery task                     *)

Goto(w, step) ==
    /\ pc' = [pc EXCEPT ![w] = step]
    /\ UNCHANGED <<job, attempt>>

Stop(w) ==
    /\ pc' = [pc EXCEPT ![w] = "idle"]
    /\ job' = [job EXCEPT ![w] = NoOrder]
    /\ attempt' = [attempt EXCEPT ![w] = 0]

Deliver(w, o) ==
    /\ pc[w] = "idle"
    /\ queue[o] > 0
    /\ queue' = [queue EXCEPT ![o] = @ - 1]

\* Mutant: picks up orders that are already PROCESSING.
ProcessableAgain(o) == status[o] \in {"RESERVED", "PROCESSING"}

Processable(o) == status[o] = "RESERVED"

\* First transaction: take the order from RESERVED to PROCESSING.
Claim(w, o) ==
    /\ Deliver(w, o)
    /\ Processable(o)
    /\ attempts' = [attempts EXCEPT ![o] = @ + 1]
    /\ status' = [status EXCEPT ![o] = "PROCESSING"]
    /\ pc' = [pc EXCEPT ![w] = "charging"]
    /\ job' = [job EXCEPT ![w] = o]
    /\ attempt' = [attempt EXCEPT ![w] = attempts[o] + 1]
    /\ UNCHANGED <<stockVars, token, line, resv, due, dead, outbox, faults>>

\* The early return, and the acknowledgement of the message.
Skip(w, o) ==
    /\ Deliver(w, o)
    /\ ~Processable(o)
    /\ UNCHANGED <<stockVars, orderVars, outbox, workerVars, faults>>

\* payment_service.charge, as the worker uses it.
Approved(w) == token[job[w]] = "success"
\* Mutant: one attempt too many.
RetryAllowedOnceMore(w) == token[job[w]] = "fail_retryable" /\ attempt[w] <= MaxAttempts

RetryAllowed(w) == token[job[w]] = "fail_retryable" /\ attempt[w] < MaxAttempts

\* Second transaction, one of three: _complete_order, back to RESERVED, _fail_order.
\* None of them looks at the order's status again.
Complete(w) ==
    /\ pc[w] = "charging"
    /\ Approved(w)
    /\ Settle(ActiveOf(job[w]), "CONSUMED")
    /\ Consume(ActiveOf(job[w]))
    /\ status' = [status EXCEPT ![job[w]] = "COMPLETED"]
    /\ Goto(w, "acking")
    /\ UNCHANGED <<stocked, token, attempts, line, due, dead, outbox, queue, faults>>

\* Mutant: schedules the retry without putting the order back into RESERVED.
PutBackForgotten(w) ==
    /\ pc[w] = "charging"
    /\ RetryAllowed(w)
    /\ Goto(w, "retrying")
    /\ UNCHANGED <<stockVars, orderVars, outbox, queue, faults>>

PutBack(w) ==
    /\ pc[w] = "charging"
    /\ RetryAllowed(w)
    /\ status' = [status EXCEPT ![job[w]] = "RESERVED"]
    /\ Goto(w, "retrying")
    /\ UNCHANGED <<stockVars, token, attempts, line, resv, due, dead, outbox, queue, faults>>

\* Mutants: the dead-letter test dropped, and one too high.
BudgetSpentUntested(w) == TRUE
BudgetSpentLate(w) == attempt[w] > MaxAttempts

BudgetSpent(w) == attempt[w] >= MaxAttempts

Fail(w) ==
    /\ pc[w] = "charging"
    /\ ~Approved(w)
    /\ ~RetryAllowed(w)
    /\ Settle(ActiveOf(job[w]), "RELEASED")
    /\ Release(ActiveOf(job[w]))
    /\ status' = [status EXCEPT ![job[w]] = "FAILED"]
    /\ Goto(w, IF BudgetSpent(w) THEN "deadletter" ELSE "acking")
    /\ UNCHANGED <<stocked, token, attempts, line, due, dead, outbox, queue, faults>>

\* Mutant: the task that sent the retry ends without acknowledging its own message.
EnqueueRetryUnacked(w) ==
    /\ pc[w] = "retrying"
    /\ queue' = [queue EXCEPT ![job[w]] = @ + 2]
    /\ Stop(w)
    /\ UNCHANGED <<stockVars, orderVars, outbox, faults>>

\* self.retry: a new, delayed message for the same order.
EnqueueRetry(w) ==
    /\ pc[w] = "retrying"
    /\ queue' = [queue EXCEPT ![job[w]] = @ + 1]
    /\ Goto(w, "acking")
    /\ UNCHANGED <<stockVars, orderVars, outbox, faults>>

\* Third transaction, after the one that failed the order.
WriteDeadLetter(w) ==
    /\ pc[w] = "deadletter"
    /\ dead' = [dead EXCEPT ![job[w]] = @ + 1]
    /\ Goto(w, "acking")
    /\ UNCHANGED <<stockVars, status, token, attempts, line, resv, due, outbox, queue, faults>>

\* task_acks_late: the message is acknowledged when the task has finished.
Ack(w) ==
    /\ pc[w] = "acking"
    /\ Stop(w)
    /\ UNCHANGED <<stockVars, orderVars, outbox, queue, faults>>

\* The worker process dies: the broker delivers the unacknowledged message again.
WorkerCrash(w) ==
    /\ Fault("crash")
    /\ pc[w] # "idle"
    /\ queue' = [queue EXCEPT ![job[w]] = @ + 1]
    /\ Stop(w)
    /\ UNCHANGED <<stockVars, orderVars, outbox>>

\* The broker stops waiting for the acknowledgement while the worker still runs.
Redeliver(w) ==
    /\ Fault("redeliver")
    /\ pc[w] # "idle"
    /\ queue' = [queue EXCEPT ![job[w]] = @ + 1]
    /\ UNCHANGED <<stockVars, orderVars, outbox, workerVars>>

\* The next transaction or broker call raises: rollback, and the failed task is acknowledged.
WorkerError(w) ==
    /\ Fault("error")
    /\ pc[w] \in {"charging", "retrying", "deadletter"}
    /\ Stop(w)
    /\ UNCHANGED <<stockVars, orderVars, outbox, queue>>

\* The same in the first transaction.
ClaimError(w, o) ==
    /\ Fault("error")
    /\ Deliver(w, o)
    /\ UNCHANGED <<stockVars, orderVars, outbox, workerVars>>

-----------------------------------------------------------------------------
(* The reservation sweep                                                   *)

\* Time passes expires_at.
DeadlinePasses(o) ==
    /\ status[o] # "NONE"
    /\ ~due[o]
    /\ due' = [due EXCEPT ![o] = TRUE]
    /\ UNCHANGED <<stockVars, status, token, attempts, line, resv, dead, outbox, queue, workerVars, faults>>

\* Mutants: claims settled reservations, reservations not yet due, or only those of
\* RESERVED orders.
ClaimableSettled ==
    {r \in Orders \X Rows : due[r[1]] /\ resv[r[1]][r[2]] \in {"ACTIVE", "RELEASED", "CONSUMED"}}
ClaimableEarly == {r \in Orders \X Rows : resv[r[1]][r[2]] = "ACTIVE"}
ClaimableReserved ==
    {r \in Orders \X Rows :
        due[r[1]] /\ resv[r[1]][r[2]] = "ACTIVE" /\ status[r[1]] = "RESERVED"}

\* The rows claim_expired_batch may return: a batch of due ACTIVE reservations, without
\* those another transaction has locked (SKIP LOCKED).
Claimable == {r \in Orders \X Rows : due[r[1]] /\ resv[r[1]][r[2]] = "ACTIVE"}
Batches == {R \in SUBSET Claimable : R # {} /\ Cardinality(R) <= BatchSize}

\* Mutant: overwrites the status of any order.
ExpirableAny(o) == status[o] # "NONE"

\* An order is expired with its reservations only if it is still RESERVED.
Expirable(o) == status[o] = "RESERVED"

ExpireReservations(R) ==
    /\ Settle(R, "RELEASED")
    /\ Release(R)
    /\ status' = [o \in Orders |-> IF Expirable(o) /\ \E k \in Rows : <<o, k>> \in R
                                   THEN "EXPIRED" ELSE status[o]]
    /\ UNCHANGED <<stocked, token, attempts, line, due, dead, outbox, queue, workerVars, faults>>

Sweep == \E R \in Batches : ExpireReservations(R)

-----------------------------------------------------------------------------
Init ==
    /\ available = [k \in Rows |-> 0]
    /\ reserved = [k \in Rows |-> 0]
    /\ stocked = [k \in Rows |-> 0]
    /\ status = [o \in Orders |-> "NONE"]
    /\ token = [o \in Orders |-> "success"]
    /\ attempts = [o \in Orders |-> 0]
    /\ line = [o \in Orders |-> [k \in Rows |-> 0]]
    /\ resv = [o \in Orders |-> [k \in Rows |-> "NONE"]]
    /\ due = [o \in Orders |-> FALSE]
    /\ dead = [o \in Orders |-> 0]
    /\ outbox = [o \in Orders |-> "NONE"]
    /\ queue = [o \in Orders |-> 0]
    /\ pc = [w \in Workers |-> "idle"]
    /\ job = [w \in Workers |-> NoOrder]
    /\ attempt = [w \in Workers |-> 0]
    /\ faults = 0

\* What a worker does without a fault.
WorkerStep(w) ==
    \/ \E o \in Orders : Claim(w, o) \/ Skip(w, o)
    \/ Complete(w) \/ PutBack(w) \/ Fail(w)
    \/ EnqueueRetry(w) \/ WriteDeadLetter(w) \/ Ack(w)

WorkerFault(w) ==
    \/ WorkerCrash(w) \/ Redeliver(w) \/ WorkerError(w)
    \/ \E o \in Orders : ClaimError(w, o)

Next ==
    \/ \E o \in Orders, b \in Baskets, t \in Tokens : CreateOrder(o, b, t)
    \/ \E o \in Orders : CancelOrder(o) \/ DeadlinePasses(o)
    \/ \E o \in Orders : RelayStep(o)
    \/ \E S \in SUBSET Orders : RelayInterrupted(S)
    \/ \E k \in Rows, d \in Deltas : AdjustStock(k, d)
    \/ \E w \in Workers : WorkerStep(w) \/ WorkerFault(w)
    \/ Sweep

Spec == Init /\ [][Next]_vars

\* The relay polls for ever, the workers take messages and finish what they begin,
\* time passes, and Celery Beat runs the sweep for ever. Clients need do nothing.
Fairness ==
    /\ \A o \in Orders : WF_vars(RelayStep(o)) /\ WF_vars(DeadlinePasses(o))
    /\ \A w \in Workers : WF_vars(WorkerStep(w))
    /\ WF_vars(Sweep)

FairSpec == Spec /\ Fairness

-----------------------------------------------------------------------------
(* Properties                                                              *)

\* Every variable keeps its type (the tables' columns, the worker's locals).
TypeOK ==
    /\ available \in [Rows -> Nat]
    /\ reserved \in [Rows -> Nat]
    /\ stocked \in [Rows -> Int]
    /\ status \in [Orders -> Statuses \cup {"NONE"}]
    /\ token \in [Orders -> Tokens]
    /\ attempts \in [Orders -> Nat]
    /\ line \in [Orders -> [Rows -> 0 .. MaxQty]]
    /\ resv \in [Orders -> [Rows -> {"NONE", "ACTIVE", "RELEASED", "CONSUMED"}]]
    /\ due \in [Orders -> BOOLEAN]
    /\ dead \in [Orders -> Nat]
    /\ outbox \in [Orders -> {"NONE", "PENDING", "SENT", "PUBLISHED"}]
    /\ queue \in [Orders -> Nat]
    /\ pc \in [Workers -> Steps]
    /\ job \in [Workers -> Orders \cup {NoOrder}]
    /\ attempt \in [Workers -> Nat]
    /\ faults \in Nat

Having(s) == {r \in Orders \X Rows : resv[r[1]][r[2]] = s}

\* The reserved counter of a row is the sum of the reservations that hold it: no path
\* settles a reservation without its counter, or the counter twice (cancellation, sweep,
\* completion and failure racing for the same reservation).
ReservedMatchesHolds == \A k \in Rows : reserved[k] = Qty(Having("ACTIVE"), k)

\* No unit is lost or made up: what was stocked is available, reserved, or consumed by a
\* completed order.
StockConserved ==
    \A k \in Rows : available[k] + reserved[k] + Qty(Having("CONSUMED"), k) = stocked[k]

\* While a worker charges an order, the order is PROCESSING, at the attempt the worker
\* remembers, and no other worker charges it: what the second transaction relies on when
\* it looks at the order again without checking it ("Only this worker acts on PROCESSING
\* orders"), duplicated and redelivered messages included.
ChargingOwnsOrder ==
    \A w \in Workers : pc[w] = "charging" =>
        /\ status[job[w]] = "PROCESSING"
        /\ attempts[job[w]] = attempt[w]
        /\ \A v \in Workers : pc[v] = "charging" /\ job[v] = job[w] => v = w

\* The retry budget: no order is charged more than MaxAttempts times, however often its
\* message is delivered, and an order that waits for a retry has an attempt left.
RetryBudget ==
    \A o \in Orders :
        /\ attempts[o] <= MaxAttempts
        /\ status[o] = "RESERVED" => attempts[o] < MaxAttempts

\* A customer pays once and for something: an order whose payment is approved is charged one
\* time, by one worker, and after that it can only be completed; whatever is delivered again,
\* it is not cancelled, expired, failed or put back. Only paid orders are completed, though
\* the second transaction looks neither at the status nor at the attempts
\* (order_processor.py:63-80, order_service.py:261, reservation_cleanup.py:74).
PaidOnce ==
    \A o \in Orders :
        /\ token[o] = "success" /\ attempts[o] > 0 =>
              attempts[o] = 1 /\ status[o] \in {"PROCESSING", "COMPLETED"}
        /\ status[o] = "COMPLETED" => token[o] = "success" /\ attempts[o] = 1

\* Stock is not held for an order that is over: a completed, failed or cancelled order has
\* no ACTIVE reservation; an expired one only reservations that are due and that the sweep,
\* which works in batches, has yet to reach. Only completed orders consume stock.
SettledOrdersHoldNothing ==
    \A o \in Orders, k \in Rows :
        /\ resv[o][k] = "ACTIVE" =>
              \/ status[o] \in {"RESERVED", "PROCESSING"}
              \/ status[o] = "EXPIRED" /\ due[o]
        /\ resv[o][k] = "CONSUMED" => status[o] = "COMPLETED"

\* The promise of a reservation: until its deadline, an order that may still be completed
\* holds every line it was granted, and one that has been completed consumed them all.
HeldUntilDeadline ==
    \A o \in Orders, k \in Rows : ~due[o] /\ line[o][k] > 0 =>
        /\ status[o] \in {"RESERVED", "PROCESSING"} => resv[o][k] = "ACTIVE"
        /\ status[o] = "COMPLETED" => resv[o][k] = "CONSUMED"

\* A dead letter is written at most once for an order, and only for one that failed with
\* its retry budget spent.
DeadLetterJustified ==
    \A o \in Orders : dead[o] > 0 =>
        dead[o] = 1 /\ status[o] = "FAILED" /\ attempts[o] = MaxAttempts

At(o, step) == \E w \in Workers : job[w] = o /\ pc[w] = step

HasTrigger(o) == outbox[o] = "PENDING" \/ queue[o] > 0 \/ At(o, "retrying")

Busy(o) == {w \in Workers : job[w] = o /\ pc[w] # "acking"}

\* What can still bring the order to a worker or make one go on with it: its event, unless
\* it has been sent, the messages, and the workers that have not finished.
InFlight(o) == (IF outbox[o] = "PENDING" THEN 1 ELSE 0) + queue[o] + Cardinality(Busy(o))

\* Messages do not multiply: there is one for an order, and one more for each fault, however
\* often it is retried, by whichever of its copies, also while the relay has sent the
\* message and not committed its mark (outbox_relay.py:49-71,
\* order_processor.py:129-137, celery_app.py:24-35).
MessagesBounded == \A o \in Orders : InFlight(o) <= 1 + faults

\* An order waiting to be processed is not forgotten: its event is pending, its message is
\* in the broker, or a worker is about to send or will return it. Holds when
\* workers die and the broker redelivers; a task that raises loses the message.
ReservedHasTrigger == \A o \in Orders : status[o] = "RESERVED" => HasTrigger(o)

\* No worker will do anything more for the order, though it is not done: the message or the
\* worker it waits for is gone, or nobody writes its dead letter.
Lost(o) ==
    \/ status[o] = "RESERVED" /\ ~HasTrigger(o)
    \/ status[o] = "PROCESSING" /\ ~At(o, "charging")
    \/ /\ status[o] = "FAILED" /\ attempts[o] = MaxAttempts /\ dead[o] = 0
       /\ ~At(o, "deadletter")

\* A fault loses at most one order, the one it hits: whatever is duplicated or interleaved,
\* no order is lost without a fault, and no fault of one worker, message or relay loses
\* another's order (order_processor.py:46-126, celery_app.py:24-35).
LossesBounded == Cardinality({o \in Orders : Lost(o)}) <= faults

\* enums.py: a terminal order never transitions again.
TerminalIsFinal == [][\A o \in Orders : status[o] \in Terminal => status'[o] = status[o]]_vars

\* What becomes of the messages, the workers and the sweep's batches does not show: to a
\* client who sees orders and stock, the service is the one of OrderContract. A worker that
\* was paid sells everything the order was granted, a cancellation and a failure give it all
\* back, once, and only after its deadline may an order find some of its lines gone.
KeepsContract == Contract!Spec

\* Stock whose reservation is past its deadline is freed or consumed in the end, whatever
\* fails.
StockFreed ==
    \A o \in Orders, k \in Rows :
        (due[o] /\ resv[o][k] = "ACTIVE") ~> (resv[o][k] # "ACTIVE")

\* Every order comes to an end, as long as nothing fails.
OrdersSettle ==
    \A o \in Orders : (status[o] # "NONE") ~> (status[o] \in Terminal \/ faults > 0)

\* dead_letter.py: an order that fails with its retry budget exhausted gets a dead letter,
\* as long as nothing fails between the two transactions.
ExhaustedGetsDeadLetter ==
    \A o \in Orders :
        (status[o] = "FAILED" /\ attempts[o] = MaxAttempts) ~> (dead[o] = 1 \/ faults > 0)

\* architecture.md, step 5: the worker that picks an order up finalizes it (or puts it back
\* for a retry): no order stays PROCESSING.
ProcessingEnds == \A o \in Orders : (status[o] = "PROCESSING") ~> (status[o] # "PROCESSING")

\* architecture.md, step 6: a RESERVED order past its deadline is marked EXPIRED, if nothing
\* else ends it.
DueOrdersLeaveReserved ==
    \A o \in Orders : (status[o] = "RESERVED" /\ due[o]) ~> (status[o] # "RESERVED")

\* README: COMPLETED permanently consumes the reservation of every line.
CompletedConsumesAll ==
    \A o \in Orders, k \in Rows :
        status[o] = "COMPLETED" /\ line[o][k] > 0 => resv[o][k] = "CONSUMED"

=============================================================================
