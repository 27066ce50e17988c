-------------------------- MODULE StockReservation --------------------------
(***************************************************************************)
(* order_service.create_order, statement by statement, and the settling of *)
(* its order (cancelled, failed, expired or completed), row by row: the    *)
(* transactions that lock several inventory rows, in orders of their own.  *)
(*                                                                         *)
(* PostgreSQL at READ COMMITTED: a statement reads what was committed when *)
(* it began, and what its own transaction wrote; an UPDATE that finds its  *)
(* row locked waits for the other transaction to end, then evaluates its   *)
(* WHERE clause again; row locks last until COMMIT or ROLLBACK; of the     *)
(* transactions that wait for one another in a circle, one is aborted.     *)
(*                                                                         *)
(* `available` is the committed value.  `taken` of a running creation is   *)
(* what it has written and not committed, `moved` the rows a settling      *)
(* transaction has updated: each holds the locks of exactly those rows.    *)
(* What the transactions write elsewhere (order, reservations, audit,      *)
(* outbox) is part of their COMMIT here; RowLocks has the locks there.     *)
(***************************************************************************)
EXTENDS StockRows

VARIABLES
    available,  \* available[k]: the committed available_quantity of row k
    want,       \* want[t]: payload.items of request t
    taken,      \* taken[t][k]: units of row k that t has reserved
    step,       \* step[t]: where t is in _create_order_impl, and its order after that
    line,       \* line[t]: the line it is working on
    chosen,     \* chosen[t]: the row of its next UPDATE, a set with at most one row
    moved,      \* moved[t]: the rows that the settling of t's order has updated
    beaten      \* history: the requests whose chosen row lost stock since they chose it

vars == <<available, want, taken, step, line, chosen, moved, beaten>>

\* The creation is under way; the order exists, and is being settled.
Running == {"choosing", "reserving", "waiting", "committing"}
Settling == {"settling", "closing"}

\* "refused" is INSUFFICIENT_INVENTORY, "aborted" any other failure.
Outcome(t) ==
    CASE step[t] \in Running -> "open"
      [] step[t] \in {"refused", "aborted"} -> "refused"
      [] step[t] = "returned" -> "returned"
      [] OTHER -> "granted"

Settled(t) ==
    IF step[t] \in Running THEN Nothing ELSE taken[t]

Promise == INSTANCE StockAllocation WITH
    outcome <- [t \in Requests |-> Outcome(t)],
    taken <- [t \in Requests |-> Settled(t)]

-----------------------------------------------------------------------------
(* Row locks                                                               *)

Holds(t, k) ==
    \/ step[t] \in Running /\ taken[t][k] > 0
    \/ k \in moved[t]
Free(k) == ~ \E t \in Requests : Holds(t, k)

\* t waits for a row of s.
Blocks(s, t) == step[t] \in {"waiting", "settling"} /\ \E k \in chosen[t] : Holds(s, k)

\* Mutant: the database does not look for circles.
DeadlockedNever(t) == FALSE

\* Nobody in T can go on before another member of T does: t is one of a circle.
Deadlocked(t) ==
    \E T \in SUBSET Requests :
        /\ t \in T
        /\ \A u \in T : \E v \in T : Blocks(u, v)
        /\ \A u \in T : \E v \in T : Blocks(v, u)

-----------------------------------------------------------------------------
(* The transaction                                                         *)

Product(t) == want[t][line[t]][1]
Quantity(t) == want[t][line[t]][2]

\* Mutant: rolls back without undoing the lines already reserved.
RollbackKeepsLines(t, why) ==
    /\ step' = [step EXCEPT ![t] = why]
    /\ chosen' = [chosen EXCEPT ![t] = {}]
    /\ beaten' = beaten \ {t}
    /\ UNCHANGED <<available, want, taken, line, moved>>

Rollback(t, why) ==
    /\ step' = [step EXCEPT ![t] = why]
    /\ taken' = [taken EXCEPT ![t] = Nothing]
    /\ chosen' = [chosen EXCEPT ![t] = {}]
    /\ beaten' = beaten \ {t}
    /\ UNCHANGED <<available, want, line, moved>>

\* Mutant: passes over the rows that another transaction has locked.
CandidatesUnlocked(t) == {k \in RowsOf(Product(t)) : available[k] >= Quantity(t) /\ Free(k)}

Candidates(t) == {k \in RowsOf(Product(t)) : available[k] >= Quantity(t)}

\* find_best_warehouse: a row with the most stock among those that can serve the line.
Choose(t) ==
    /\ step[t] = "choosing"
    /\ \E k \in Candidates(t) :
          /\ \A l \in Candidates(t) : available[l] <= available[k]
          /\ chosen' = [chosen EXCEPT ![t] = {k}]
    /\ step' = [step EXCEPT ![t] = "reserving"]
    /\ UNCHANGED <<available, want, taken, line, moved, beaten>>

\* No row can: rollback.
NoWarehouse(t) ==
    /\ step[t] = "choosing"
    /\ Candidates(t) = {}
    /\ Rollback(t, "refused")

\* The UPDATE matched: the line is reserved, and the row is locked.
Take(t, k) ==
    /\ taken' = [taken EXCEPT ![t][k] = Quantity(t)]
    /\ chosen' = [chosen EXCEPT ![t] = {}]
    /\ line' = [line EXCEPT ![t] = IF @ < Len(want[t]) THEN @ + 1 ELSE @]
    /\ step' = [step EXCEPT ![t] = IF line[t] < Len(want[t]) THEN "choosing" ELSE "committing"]
    /\ beaten' = beaten \ {t}
    /\ UNCHANGED <<available, want, moved>>

\* Mutant: the WHERE clause is not evaluated again after the wait.
MatchesStale(t, k) == step[t] = "waiting" \/ available[k] >= Quantity(t)

\* try_reserve's WHERE clause.
Matches(t, k) == available[k] >= Quantity(t)

\* try_reserve begins, on a row nobody has locked.
Reserve(t) ==
    /\ step[t] = "reserving"
    /\ \E k \in chosen[t] : Matches(t, k) /\ Free(k) /\ Take(t, k)

\* try_reserve begins on a row that matches and is locked.
Wait(t) ==
    /\ step[t] = "reserving"
    /\ \E k \in chosen[t] : Matches(t, k) /\ ~Free(k)
    /\ step' = [step EXCEPT ![t] = "waiting"]
    /\ UNCHANGED <<available, want, taken, line, chosen, moved, beaten>>

\* The wait is over: the WHERE clause is evaluated again.
Resume(t) ==
    /\ step[t] = "waiting"
    /\ \E k \in chosen[t] : Free(k) /\ Matches(t, k) /\ Take(t, k)

\* Zero rows matched, at once or after a wait: someone else took the stock.
LoseRace(t) ==
    /\ step[t] \in {"reserving", "waiting"}
    /\ \E k \in chosen[t] : ~Matches(t, k) /\ (step[t] = "waiting" => Free(k))
    /\ Rollback(t, "refused")

\* The committed stock of the rows R falls: who has chosen one of them is beaten to it.
Beats(R) ==
    beaten' = beaten \cup
        {t \in Requests : step[t] \in {"reserving", "waiting"} /\ chosen[t] \cap R # {}}

Commit(t) ==
    /\ step[t] = "committing"
    /\ available' = [k \in Rows |-> available[k] - taken[t][k]]
    /\ step' = [step EXCEPT ![t] = "granted"]
    /\ Beats({k \in Rows : taken[t][k] > 0})
    /\ UNCHANGED <<want, taken, line, chosen, moved>>

\* The database aborts one transaction of a circle.
DeadlockVictim(t) ==
    /\ step[t] = "waiting"
    /\ Deadlocked(t)
    /\ Rollback(t, "aborted")

\* The API process dies, or a statement fails: the database rolls back.
Abort(t) ==
    /\ step[t] \in Running
    /\ Rollback(t, "aborted")

-----------------------------------------------------------------------------
(* Settling the order: one UPDATE of an inventory row for each reservation, *)
(* in the order the SELECT happens to give them, then COMMIT.              *)

\* The rows of t's reservations.
RowsHeld(t) == {k \in Rows : taken[t][k] > 0}

\* On to some row that is left; after the last one, to the commit.
GoOn(t, left) ==
    \/ /\ left = {}
       /\ step' = [step EXCEPT ![t] = "closing"]
       /\ chosen' = [chosen EXCEPT ![t] = {}]
    \/ \E k \in left :
          /\ step' = [step EXCEPT ![t] = "settling"]
          /\ chosen' = [chosen EXCEPT ![t] = {k}]

\* cancel_order, the worker or the sweep has the order's reservations.
BeginSettling(t) ==
    /\ step[t] = "granted"
    /\ GoOn(t, RowsHeld(t))
    /\ UNCHANGED <<available, want, taken, line, moved, beaten>>

\* inventory_repository.release or consume, as soon as nobody else has the row.
MoveRow(t) ==
    /\ step[t] = "settling"
    /\ \E k \in chosen[t] :
          /\ Free(k)
          /\ moved' = [moved EXCEPT ![t] = @ \cup {k}]
          /\ GoOn(t, RowsHeld(t) \ (moved[t] \cup {k}))
    /\ UNCHANGED <<available, want, taken, line, beaten>>

\* The order is cancelled, failed or expired: its units go back.
CommitReturn(t) ==
    /\ step[t] = "closing"
    /\ available' = [k \in Rows |-> IF k \in moved[t] THEN available[k] + taken[t][k] ELSE available[k]]
    /\ taken' = [taken EXCEPT ![t] = [k \in Rows |-> IF k \in moved[t] THEN 0 ELSE @[k]]]
    /\ step' = [step EXCEPT ![t] = "returned"]
    /\ moved' = [moved EXCEPT ![t] = {}]
    /\ UNCHANGED <<want, line, chosen, beaten>>

\* The order is completed: the available stock was taken when it was reserved.
CommitConsume(t) ==
    /\ step[t] = "closing"
    /\ step' = [step EXCEPT ![t] = "consumed"]
    /\ moved' = [moved EXCEPT ![t] = {}]
    /\ UNCHANGED <<available, want, taken, line, chosen, beaten>>

\* The settling transaction is rolled back: a client, Celery or Beat may try again.
UndoSettling(t) ==
    /\ step' = [step EXCEPT ![t] = "granted"]
    /\ chosen' = [chosen EXCEPT ![t] = {}]
    /\ moved' = [moved EXCEPT ![t] = {}]
    /\ UNCHANGED <<available, want, taken, line, beaten>>

SettlingVictim(t) ==
    /\ step[t] = "settling"
    /\ Deadlocked(t)
    /\ UndoSettling(t)

SettlingFails(t) ==
    /\ step[t] \in Settling
    /\ UndoSettling(t)

\* A manual adjustment locks its one row.
Adjust(k, d) ==
    /\ Free(k)
    /\ available[k] + d \in 0 .. MaxStock
    /\ available' = [available EXCEPT ![k] = @ + d]
    /\ Beats(IF d < 0 THEN {k} ELSE {})
    /\ UNCHANGED <<want, taken, step, line, chosen, moved>>

-----------------------------------------------------------------------------
Init ==
    /\ available \in [Rows -> 0 .. MaxStock]
    /\ want \in [Requests -> Wishes]
    /\ taken = [t \in Requests |-> Nothing]
    /\ step = [t \in Requests |-> "choosing"]
    /\ line = [t \in Requests |-> 1]
    /\ chosen = [t \in Requests |-> {}]
    /\ moved = [t \in Requests |-> {}]
    /\ beaten = {}

\* What t and the database do without a failure of the process.
Advance(t) ==
    \/ Choose(t) \/ NoWarehouse(t)
    \/ Reserve(t) \/ Wait(t) \/ Resume(t) \/ LoseRace(t)
    \/ Commit(t)
    \/ DeadlockVictim(t)

\* What is done to settle its order, once that has begun.
Settle(t) == MoveRow(t) \/ CommitReturn(t) \/ CommitConsume(t) \/ SettlingVictim(t)

Next ==
    \/ \E t \in Requests : Advance(t) \/ Abort(t)
    \/ \E t \in Requests : BeginSettling(t) \/ Settle(t) \/ SettlingFails(t)
    \/ \E k \in Rows, d \in Deltas : Adjust(k, d)

Spec == Init /\ [][Next]_vars

\* Each transaction goes on as long as the database lets it; an UPDATE that waits is in the
\* row's queue, so it gets the lock if the row is free again and again (SF).
FairSpec == Spec /\ \A t \in Requests : SF_vars(Advance(t) \/ Settle(t))

-----------------------------------------------------------------------------
(* Properties                                                              *)

\* Every variable keeps its type; a statement works on a line of its own order, and the
\* stock of a row never goes below zero.
TypeOK ==
    /\ available \in [Rows -> Nat]
    /\ want \in [Requests -> Wishes]
    /\ taken \in [Requests -> [Rows -> Nat]]
    /\ step \in [Requests -> Running \cup Settling
                             \cup {"granted", "refused", "aborted", "returned", "consumed"}]
    /\ \A t \in Requests : line[t] \in DOMAIN want[t]
    /\ chosen \in [Requests -> SUBSET Rows]
    /\ moved \in [Requests -> SUBSET Rows]
    /\ beaten \subseteq Requests

\* What a running creation has reserved so far is committed stock that only it can take: if
\* it commits now, no row goes below zero and no unit is promised twice. No two
\* transactions, creating or settling, have updated the same row.
LockedUnitsAreThere ==
    \A t \in Requests, k \in Rows : Holds(t, k) =>
        /\ step[t] \in Running => taken[t][k] <= available[k]
        /\ \A s \in Requests : Holds(s, k) => s = t

\* The whole transaction looks atomic: every order gets all its lines, each from one
\* warehouse, in one step that the stock covers, or nothing, and gives all of them back in
\* one step; whatever the order of the statements, waits, lost races, aborts and rollbacks.
KeepsPromise == Promise!Spec

\* create_order refuses an order only if no warehouse has the stock for one of its lines, or
\* if it was really beaten to the row it had chosen: another order was committed or stock
\* was written off there after its SELECT. Waiting for others, their rollbacks and what they
\* have reserved and not committed never cost an order.
RefusedOnlyIfBeaten ==
    [][\A t \in Requests : step[t] \in Running /\ step'[t] = "refused" /\ t \notin beaten =>
          \E i \in DOMAIN want[t] :
              \A k \in RowsOf(want[t][i][1]) : available[k] < want[t][i][2]]_vars

\* Every transaction ends, those that lock the same rows in opposite orders included: two
\* creations, or a creation and the settling of an order.
TransactionsEnd ==
    \A t \in Requests : step[t] \in Running \cup Settling ~> step[t] \notin Running \cup Settling
=============================================================================
