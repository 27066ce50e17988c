------------------------------ MODULE RowLocks ------------------------------
(***************************************************************************)
(* Cancellation, the worker's second transaction and the sweep statement   *)
(* by statement, under the row locks of PostgreSQL at READ COMMITTED.  The *)
(* first two lock the order and then its reservations; the sweep locks     *)
(* reservations and then their orders; all three then move the stock.      *)
(* OrderLifecycle takes each of them as one step: the refinement           *)
(* SettlesAtomically is what justifies it.                                 *)
(*                                                                         *)
(* The variables of OrderLifecycle are the committed database, the broker  *)
(* and the workers.  What a transaction has written and not committed is   *)
(* in `marked` and `expiring`; nobody else sees it, and a rollback forgets *)
(* it.  The other transactions stay the atomic steps of OrderLifecycle,    *)
(* which wait for the rows they write.  Creation is one of them: how it    *)
(* locks inventory rows line by line, and deadlocks over them with other   *)
(* creations and with these three transactions, is in StockReservation.    *)
(***************************************************************************)
EXTENDS OrderLifecycle

CONSTANTS
    Cancels,    \* cancellation requests, each made at most once
    Sweeps      \* runs of the reservation cleanup task

Settlers == Workers \cup Cancels
Sessions == Settlers \cup Sweeps

ASSUME SessionsAssumption ==
    Workers \cap Cancels = {} /\ Workers \cap Sweeps = {} /\ Cancels \cap Sweeps = {}
ASSUME RowsAssumption == IsFiniteSet(Products) /\ IsFiniteSet(Warehouses)

VARIABLES
    at,         \* at[s]: the next statement of s's transaction
    doing,      \* doing[s]: the order a cancellation or a worker settles
    todo,       \* todo[s]: the reservations s has listed or claimed and not handled
    cur,        \* cur[s]: the one it is at, if any
    marked,     \* marked[s]: the reservations it has marked, uncommitted
    expiring,   \* expiring[s]: the orders the sweep s has set to EXPIRED, uncommitted
    held        \* held[s]: the rows it has locked

lockVars == <<at, doing, todo, cur, marked, expiring, held>>
allVars == <<vars, lockVars>>

Statements == {"none", "order", "list", "mark", "stock", "expire", "commit", "done"}

-----------------------------------------------------------------------------
(* Row locks                                                               *)

OrderRow(o) == <<"order", o>>
ResvRow(r) == <<"resv", r>>
StockRow(k) == <<"stock", k>>
TableRows == {OrderRow(o) : o \in Orders} \cup {ResvRow(r) : r \in Orders \X Rows}
                                        \cup {StockRow(k) : k \in Rows}

\* The row that the next statement of s locks: FOR UPDATE of the order, or an UPDATE.
Needs(s) ==
    CASE at[s] = "order"  -> {OrderRow(doing[s])}
      [] at[s] = "mark"   -> {ResvRow(r) : r \in cur[s]}
      [] at[s] = "stock"  -> {StockRow(r[2]) : r \in cur[s]}
      [] at[s] = "expire" -> {OrderRow(r[1]) : r \in cur[s]}
      [] OTHER            -> {}

Free(x) == \A u \in Sessions : x \notin held[u]

\* Mutant: the order is read without FOR UPDATE.
ReadsOnly(s, stmt) ==
    /\ at[s] = stmt
    /\ stmt = "order" \/ \A u \in Sessions \ {s} : Needs(s) \cap held[u] = {}
    /\ held' = [held EXCEPT ![s] = IF stmt = "order" THEN @ ELSE @ \cup Needs(s)]

\* The statement stmt of s runs, as soon as nobody else holds its row; the row is then
\* read as it was last committed, and stays locked to the end of the transaction.
Runs(s, stmt) ==
    /\ at[s] = stmt
    /\ \A u \in Sessions \ {s} : Needs(s) \cap held[u] = {}
    /\ held' = [held EXCEPT ![s] = @ \cup Needs(s)]

Waits(s, u) == s # u /\ Needs(s) \cap held[u] # {}

\* Mutant: nobody looks for circles.
DeadlockedNever(s) == FALSE

\* Each of C waits for another one of them, and another one waits for it.
Circle(C) == \A u \in C : \E v, t \in C : Waits(u, v) /\ Waits(t, u)

Deadlocked(s) == \E C \in SUBSET Sessions : s \in C /\ Circle(C)

\* COMMIT or ROLLBACK: the locks go.
Close(s) ==
    /\ at' = [at EXCEPT ![s] = IF s \in Cancels THEN "done" ELSE "none"]
    /\ doing' = [doing EXCEPT ![s] = NoOrder]
    /\ todo' = [todo EXCEPT ![s] = {}]
    /\ cur' = [cur EXCEPT ![s] = {}]
    /\ marked' = [marked EXCEPT ![s] = {}]
    /\ expiring' = [expiring EXCEPT ![s] = {}]
    /\ held' = [held EXCEPT ![s] = {}]

\* On to some reservation of R, with the statement stmt; after the last one, to the commit.
GoOn(s, R, stmt) ==
    /\ todo' = [todo EXCEPT ![s] = R]
    /\ \/ /\ R = {}
          /\ cur' = [cur EXCEPT ![s] = {}]
          /\ at' = [at EXCEPT ![s] = "commit"]
       \/ \E r \in R :
          /\ cur' = [cur EXCEPT ![s] = {r}]
          /\ at' = [at EXCEPT ![s] = stmt]

-----------------------------------------------------------------------------
(* Cancellation and the worker: the order, its reservations, the stock     *)

Begin(s, o) ==
    /\ at[s] = "none"
    /\ at' = [at EXCEPT ![s] = "order"]
    /\ doing' = [doing EXCEPT ![s] = o]
    /\ UNCHANGED <<vars, todo, cur, marked, expiring, held>>

BeginCancel(c, o) == status[o] # "NONE" /\ Begin(c, o)

\* After the charge.
BeginSettle(w) == pc[w] = "charging" /\ Begin(w, job[w])

LockOrder(s, next) ==
    /\ Runs(s, "order")
    /\ at' = [at EXCEPT ![s] = next]
    /\ UNCHANGED <<vars, doing, todo, cur, marked, expiring>>

LockToCancel(c) == LockOrder(c, "list") /\ Cancellable(doing[c])

\* The order is past cancelling: 409, and a rollback.
RejectCancel(c) ==
    /\ at[c] = "order"
    /\ Free(OrderRow(doing[c]))
    /\ ~Cancellable(doing[c])
    /\ Close(c)
    /\ UNCHANGED vars

\* The worker trusts the status; an order to be retried keeps its reservations.
LockToSettle(w) ==
    \/ LockOrder(w, "list") /\ ~RetryAllowed(w)
    \/ LockOrder(w, "commit") /\ RetryAllowed(w)

\* Mutant: leaves the reservations past their deadline to the sweep.
ListNotDue(s) ==
    /\ at[s] = "list"
    /\ GoOn(s, IF due[doing[s]] THEN {} ELSE ActiveOf(doing[s]), "mark")
    /\ UNCHANGED <<vars, doing, marked, expiring, held>>

\* list_active_for_order takes no lock and reads what is committed.
List(s) ==
    /\ at[s] = "list"
    /\ GoOn(s, ActiveOf(doing[s]), "mark")
    /\ UNCHANGED <<vars, doing, marked, expiring, held>>

StillActive(r) == resv[r[1]][r[2]] = "ACTIVE"

\* mark_released, mark_consumed: UPDATE ... WHERE status = 'ACTIVE'. If no row is updated,
\* no stock moves.
Mark(s) ==
    /\ Runs(s, "mark")
    /\ \E r \in cur[s] :
          IF StillActive(r)
          THEN /\ marked' = [marked EXCEPT ![s] = @ \cup {r}]
               /\ at' = [at EXCEPT ![s] = "stock"]
               /\ UNCHANGED <<todo, cur>>
          ELSE GoOn(s, todo[s] \ {r}, "mark") /\ UNCHANGED marked
    /\ UNCHANGED <<vars, doing, expiring>>

\* inventory_repository.release or consume.
MoveStock(s) ==
    /\ Runs(s, "stock")
    /\ GoOn(s, todo[s] \ cur[s], "mark")
    /\ UNCHANGED <<vars, doing, marked, expiring>>

CommitCancel(c) ==
    /\ at[c] = "commit"
    /\ Settle(marked[c], "RELEASED")
    /\ Release(marked[c])
    /\ status' = [status EXCEPT ![doing[c]] = "CANCELLED"]
    /\ Close(c)
    /\ UNCHANGED <<stocked, token, attempts, line, due, dead, outbox, queue, workerVars, faults>>

CommitComplete(w) ==
    /\ at[w] = "commit"
    /\ Approved(w)
    /\ Settle(marked[w], "CONSUMED")
    /\ Consume(marked[w])
    /\ status' = [status EXCEPT ![doing[w]] = "COMPLETED"]
    /\ Goto(w, "acking")
    /\ Close(w)
    /\ UNCHANGED <<stocked, token, attempts, line, due, dead, outbox, queue, faults>>

CommitPutBack(w) == at[w] = "commit" /\ PutBack(w) /\ Close(w)

CommitFail(w) ==
    /\ at[w] = "commit"
    /\ ~Approved(w)
    /\ ~RetryAllowed(w)
    /\ Settle(marked[w], "RELEASED")
    /\ Release(marked[w])
    /\ status' = [status EXCEPT ![doing[w]] = "FAILED"]
    /\ Goto(w, IF BudgetSpent(w) THEN "deadletter" ELSE "acking")
    /\ Close(w)
    /\ UNCHANGED <<stocked, token, attempts, line, due, dead, outbox, queue, faults>>

-----------------------------------------------------------------------------
(* The sweep: reservations, then stock and order of each                   *)

\* Mutant: leaves out the orders that are being charged.
UnlockedOfReserved == {r \in Claimable : Free(ResvRow(r)) /\ status[r[1]] = "RESERVED"}

\* The due ACTIVE reservations that SKIP LOCKED leaves.
Unlocked == {r \in Claimable : Free(ResvRow(r))}

Least(m, n) == IF m <= n THEN m ELSE n

\* claim_expired_batch: the SELECT locks a batch, the UPDATE marks it at once.
BeginSweep(s) ==
    /\ at[s] = "none"
    /\ \E R \in SUBSET Unlocked :
          /\ R # {}
          /\ Cardinality(R) = Least(BatchSize, Cardinality(Unlocked))
          /\ marked' = [marked EXCEPT ![s] = R]
          /\ held' = [held EXCEPT ![s] = {ResvRow(r) : r \in R}]
          /\ GoOn(s, R, "stock")
    /\ UNCHANGED <<vars, doing, expiring>>

\* inventory_repository.release, for one claimed reservation.
ReturnStock(s) ==
    /\ Runs(s, "stock")
    /\ at' = [at EXCEPT ![s] = "expire"]
    /\ UNCHANGED <<vars, doing, todo, cur, marked, expiring>>

\* Its order is locked and, if still RESERVED, expired.
ExpireOrder(s) ==
    /\ Runs(s, "expire")
    /\ \E r \in cur[s] :
          /\ expiring' = [expiring EXCEPT ![s] = IF Expirable(r[1]) THEN @ \cup {r[1]} ELSE @]
          /\ GoOn(s, todo[s] \ {r}, "stock")
    /\ UNCHANGED <<vars, doing, marked>>

CommitSweep(s) ==
    /\ at[s] = "commit"
    /\ Settle(marked[s], "RELEASED")
    /\ Release(marked[s])
    /\ status' = [o \in Orders |-> IF o \in expiring[s] THEN "EXPIRED" ELSE status[o]]
    /\ Close(s)
    /\ UNCHANGED <<stocked, token, attempts, line, due, dead, outbox, queue, workerVars, faults>>

-----------------------------------------------------------------------------
(* Deadlocks                                                               *)

\* PostgreSQL aborts a transaction of the circle. A client gets an error; the sweep's task
\* fails, and Beat starts another.
AbortSession(s) ==
    /\ Deadlocked(s)
    /\ Close(s)
    /\ UNCHANGED vars

\* The worker's task raises, is acknowledged, and is not run again.
AbortWorker(w) ==
    /\ Deadlocked(w)
    /\ WorkerError(w)
    /\ Close(w)

-----------------------------------------------------------------------------
(* The other transactions, between which the settling ones run             *)

Create(o, b, t) ==
    /\ \A k \in Rows : b[k] > 0 => Free(StockRow(k))
    /\ CreateOrder(o, b, t)
    /\ UNCHANGED lockVars

Adjust(k, d) == Free(StockRow(k)) /\ AdjustStock(k, d) /\ UNCHANGED lockVars

\* The worker's first transaction locks the order only.
Take(w, o) == Free(OrderRow(o)) /\ (Claim(w, o) \/ Skip(w, o)) /\ UNCHANGED lockVars

\* What a worker does outside transactions on these rows.
Follow(w) == (EnqueueRetry(w) \/ WriteDeadLetter(w) \/ Ack(w)) /\ UNCHANGED lockVars

\* Its process dies: its transaction, if any, is rolled back.
Crash(w) == WorkerCrash(w) /\ Close(w)

-----------------------------------------------------------------------------
LInit ==
    /\ Init
    /\ at = [s \in Sessions |-> "none"]
    /\ doing = [s \in Sessions |-> NoOrder]
    /\ todo = [s \in Sessions |-> {}]
    /\ cur = [s \in Sessions |-> {}]
    /\ marked = [s \in Sessions |-> {}]
    /\ expiring = [s \in Sessions |-> {}]
    /\ held = [s \in Sessions |-> {}]

SettlerStep(s) == List(s) \/ Mark(s) \/ MoveStock(s)

\* A cancellation that has begun.
CancelStep(c) == LockToCancel(c) \/ RejectCancel(c) \/ SettlerStep(c) \/ CommitCancel(c)

SettleStep(w) ==
    \/ BeginSettle(w) \/ LockToSettle(w) \/ SettlerStep(w)
    \/ CommitComplete(w) \/ CommitPutBack(w) \/ CommitFail(w)

TakeStep(w) == \E o \in Orders : Take(w, o)

SweepStep(s) == ReturnStock(s) \/ ExpireOrder(s) \/ CommitSweep(s)

DeadlockEnds ==
    \/ \E s \in Cancels \cup Sweeps : AbortSession(s)
    \/ \E w \in Workers : AbortWorker(w)

LNext ==
    \/ \E c \in Cancels : CancelStep(c) \/ \E o \in Orders : BeginCancel(c, o)
    \/ \E w \in Workers : SettleStep(w) \/ TakeStep(w) \/ Follow(w) \/ Crash(w)
    \/ \E s \in Sweeps : BeginSweep(s) \/ SweepStep(s)
    \/ DeadlockEnds
    \/ \E o \in Orders, b \in Baskets, t \in Tokens : Create(o, b, t)
    \/ \E k \in Rows, d \in Deltas : Adjust(k, d)
    \/ \E o \in Orders : (RelayStep(o) \/ DeadlinePasses(o)) /\ UNCHANGED lockVars

LSpec == LInit /\ [][LNext]_allVars

\* The fairness of OrderLifecycle, statement by statement. A statement that waits is in the
\* row's queue, so it gets the lock if the row is free again and again (SF), and PostgreSQL
\* breaks a circle. Clients need not cancel, but are served if they do.
LFairSpec ==
    /\ LSpec
    /\ \A o \in Orders : WF_vars(RelayStep(o)) /\ WF_vars(DeadlinePasses(o))
    /\ \A c \in Cancels : SF_allVars(CancelStep(c))
    /\ \A w \in Workers : SF_allVars(SettleStep(w)) /\ WF_allVars(TakeStep(w)) /\ WF_allVars(Follow(w))
    /\ \A s \in Sweeps : WF_allVars(BeginSweep(s)) /\ SF_allVars(SweepStep(s))
    /\ WF_allVars(DeadlockEnds)

-----------------------------------------------------------------------------
(* Properties                                                              *)

\* Every lock variable keeps its type; a session handles one reservation at a time, one
\* of those it has left.
LTypeOK ==
    /\ at \in [Sessions -> Statements]
    /\ doing \in [Sessions -> Orders \cup {NoOrder}]
    /\ todo \in [Sessions -> SUBSET (Orders \X Rows)]
    /\ cur \in [Sessions -> SUBSET (Orders \X Rows)]
    /\ marked \in [Sessions -> SUBSET (Orders \X Rows)]
    /\ expiring \in [Sessions -> SUBSET Orders]
    /\ held \in [Sessions -> SUBSET TableRows]
    /\ \A s \in Sessions : cur[s] \subseteq todo[s] /\ \A q, r \in cur[s] : q = r

\* What a transaction has read and decided on is still so when it commits: the
\* reservations it has listed or marked are ACTIVE, so that the guard of the UPDATE never
\* fails, no two transactions have marked the same one, the order to be cancelled and the
\* orders to be expired are RESERVED.
DecisionsHold ==
    /\ \A s \in Sessions : \A r \in marked[s] \cup todo[s] : StillActive(r)
    /\ \A s, u \in Sessions : s # u => marked[s] \cap marked[u] = {}
    /\ \A c \in Cancels : at[c] \notin {"none", "order", "done"} => status[doing[c]] = "RESERVED"
    /\ \A s \in Sweeps : \A o \in expiring[s] : status[o] = "RESERVED"

\* Which lock orders cross: a request or a task that still waits for its order is in nobody's
\* way, and cancellations and workers deadlock among themselves over inventory rows only.
\* One that waits for a reservation waits for a sweep, and it is with the sweep, which
\* locks reservations first, that a deadlock is about the order.
DeadlocksKnown ==
    \A C \in SUBSET Sessions : Circle(C) => \A s \in C :
        /\ at[s] # "order"
        /\ at[s] = "mark" => \E u \in C \cap Sweeps : Waits(s, u)

\* Statements, waits, SKIP LOCKED, lost UPDATEs and aborts add up to the atomic steps of
\* OrderLifecycle: a cancellation or a worker settles every ACTIVE reservation of its
\* order with the order's status, and a sweep a batch of due ones with theirs.
SettlesAtomically == Spec

\* No transaction waits for ever, though the sweep locks in the opposite order.
TransactionsEnd == \A s \in Sessions : (at[s] # "none") ~> (at[s] \in {"none", "done"})

=============================================================================
