---------------------- MODULE OrderLifecycle_promises -----------------------
(***************************************************************************)
(* Proofs of what an order promises its client: what it holds and until    *)
(* when, how often it is charged, its dead letter, and that it is not      *)
(* forgotten while it waits.                                               *)
(***************************************************************************)
EXTENDS OrderLifecycle_proofs

\* Only the worker that failed an order for good is about to write its dead letter.
LetterPending ==
    \A w \in Workers : pc[w] = "deadletter" =>
        /\ status[job[w]] = "FAILED"
        /\ attempts[job[w]] = MaxAttempts
        /\ dead[job[w]] = 0
        /\ \A v \in Workers : pc[v] = "deadletter" /\ job[v] = job[w] => v = w

Promises ==
    /\ RetryBudget
    /\ SettledOrdersHoldNothing
    /\ HeldUntilDeadline
    /\ DeadLetterJustified
    /\ LetterPending

LifeInv == OwnInv /\ Promises

LEMMA InitLifeInv == Init => LifeInv
  BY InitOwnInv, BoundsAssumption
  DEF Init, LifeInv, Promises, RetryBudget, SettledOrdersHoldNothing, HeldUntilDeadline,
      DeadLetterJustified, LetterPending

LEMMA CreatePromises ==
    ASSUME LifeInv, NEW o \in Orders, NEW b \in Baskets, NEW t \in Tokens,
           CreateOrder(o, b, t)
    PROVE  Promises'
<1> USE DEF LifeInv, OwnInv, TypeInv, Promises
<1>1. RetryBudget'
  BY BoundsAssumption DEF CreateOrder, RetryBudget, Unborn, TypeOK
<1>2. b \in [Rows -> 0 .. MaxQty]
  BY DEF Baskets
<1>3. SettledOrdersHoldNothing'
  BY <1>2 DEF CreateOrder, SettledOrdersHoldNothing, TypeOK
<1>4. HeldUntilDeadline'
  BY <1>2 DEF CreateOrder, HeldUntilDeadline, TypeOK
<1>5. DeadLetterJustified'
  BY DEF CreateOrder, DeadLetterJustified, TypeOK
<1>6. LetterPending'
  BY DEF CreateOrder, LetterPending, BusyHasJob, TypeOK, workerVars
<1> QED
  BY <1>1, <1>3, <1>4, <1>5, <1>6

LEMMA ApiPromises ==
    ASSUME LifeInv, NEW o \in Orders, CancelOrder(o) \/ DeadlinePasses(o)
    PROVE  Promises'
<1> USE DEF LifeInv, OwnInv, TypeInv, Promises
<1>1. CASE CancelOrder(o)
  <2>1. RetryBudget'
    BY <1>1 DEF CancelOrder, RetryBudget, TypeOK
  <2>2. SettledOrdersHoldNothing'
    BY <1>1 DEF CancelOrder, Cancellable, Settle, ActiveOf, SettledOrdersHoldNothing, TypeOK
  <2>3. HeldUntilDeadline'
    BY <1>1 DEF CancelOrder, Settle, ActiveOf, HeldUntilDeadline, TypeOK
  <2>4. DeadLetterJustified'
    BY <1>1 DEF CancelOrder, Cancellable, DeadLetterJustified, TypeOK
  <2>5. LetterPending'
    BY <1>1 DEF CancelOrder, Cancellable, LetterPending, BusyHasJob, TypeOK, workerVars
  <2> QED
    BY <2>1, <2>2, <2>3, <2>4, <2>5
<1>2. CASE DeadlinePasses(o)
  BY <1>2 DEF DeadlinePasses, RetryBudget, SettledOrdersHoldNothing, HeldUntilDeadline,
              DeadLetterJustified, LetterPending, TypeOK, workerVars
<1> QED
  BY <1>1, <1>2

LEMMA SweepPromises ==
    ASSUME LifeInv, Sweep
    PROVE  Promises'
<1> USE DEF LifeInv, OwnInv, TypeInv, Promises
<1>1. PICK R \in Batches : ExpireReservations(R)
  BY DEF Sweep
<1>2. \A o \in Orders, k \in Rows : <<o, k>> \in R => due[o] /\ resv[o][k] = "ACTIVE"
  BY DEF Batches, Claimable
<1>3. \A o \in Orders, k \in Rows :
        resv'[o][k] = IF <<o, k>> \in R THEN "RELEASED" ELSE resv[o][k]
  BY <1>1 DEF ExpireReservations, Settle
<1>4. \A o \in Orders :
        \/ status'[o] = status[o]
        \/ status[o] = "RESERVED" /\ status'[o] = "EXPIRED" /\ due[o]
  BY <1>1, <1>2 DEF ExpireReservations, Expirable
<1>5. UNCHANGED <<attempts, line, due, dead, pc, job>>
  BY <1>1 DEF ExpireReservations, workerVars
<1>6. RetryBudget'
  BY <1>4, <1>5 DEF RetryBudget
<1>7. SettledOrdersHoldNothing'
  <2> SUFFICES ASSUME NEW o \in Orders, NEW k \in Rows
               PROVE  /\ resv'[o][k] = "ACTIVE" =>
                            \/ status'[o] \in {"RESERVED", "PROCESSING"}
                            \/ status'[o] = "EXPIRED" /\ due'[o]
                      /\ resv'[o][k] = "CONSUMED" => status'[o] = "COMPLETED"
    BY DEF SettledOrdersHoldNothing
  <2>1. CASE <<o, k>> \in R
    BY <1>2, <1>3, <1>4, <1>5, <2>1 DEF SettledOrdersHoldNothing
  <2>2. CASE <<o, k>> \notin R
    BY <1>3, <1>4, <1>5, <2>2 DEF SettledOrdersHoldNothing
  <2> QED
    BY <2>1, <2>2
<1>8. HeldUntilDeadline'
  <2> SUFFICES ASSUME NEW o \in Orders, NEW k \in Rows, ~due'[o] /\ line'[o][k] > 0
               PROVE  /\ status'[o] \in {"RESERVED", "PROCESSING"} => resv'[o][k] = "ACTIVE"
                      /\ status'[o] = "COMPLETED" => resv'[o][k] = "CONSUMED"
    BY DEF HeldUntilDeadline
  <2>1. <<o, k>> \notin R
    BY <1>2, <1>5
  <2> QED
    BY <1>3, <1>4, <1>5, <2>1 DEF HeldUntilDeadline
<1>9. DeadLetterJustified'
  BY <1>4, <1>5 DEF DeadLetterJustified
<1>10. LetterPending'
  BY <1>4, <1>5 DEF LetterPending, BusyHasJob
<1> QED
  BY <1>6, <1>7, <1>8, <1>9, <1>10

\* The end of a charge: the order was PROCESSING, at this worker's attempt.
LEMMA Charged ==
    ASSUME LifeInv, NEW w \in Workers, pc[w] = "charging"
    PROVE  /\ job[w] \in Orders
           /\ status[job[w]] = "PROCESSING"
           /\ attempts[job[w]] = attempt[w]
           /\ attempt[w] <= MaxAttempts
           /\ dead[job[w]] = 0
           /\ \A v \in Workers : pc[v] = "deadletter" => job[v] # job[w]
<1>1. job[w] \in Orders /\ status[job[w]] = "PROCESSING" /\ attempts[job[w]] = attempt[w]
  BY DEF LifeInv, OwnInv, TypeInv, BusyHasJob, ChargingOwnsOrder
<1>2. dead[job[w]] \in Nat
  BY <1>1 DEF LifeInv, OwnInv, TypeInv, TypeOK
<1> QED
  BY <1>1, <1>2 DEF LifeInv, Promises, RetryBudget, DeadLetterJustified, LetterPending

LEMMA WorkerPromises ==
    ASSUME LifeInv, NEW w \in Workers, WorkerStep(w)
    PROVE  Promises'
<1> USE DEF LifeInv, OwnInv, TypeInv, Promises
<1>1. ASSUME NEW o \in Orders, Claim(w, o) PROVE Promises'
  <2>1. RetryBudget'
    BY <1>1, BoundsAssumption DEF Claim, Processable, RetryBudget, TypeOK
  <2>2. SettledOrdersHoldNothing' /\ HeldUntilDeadline'
    BY <1>1 DEF Claim, Processable, SettledOrdersHoldNothing, HeldUntilDeadline, TypeOK
  <2>3. DeadLetterJustified'
    BY <1>1 DEF Claim, Processable, DeadLetterJustified, TypeOK
  <2>4. LetterPending'
    BY <1>1 DEF Claim, Deliver, Processable, LetterPending, BusyHasJob, TypeOK
  <2> QED
    BY <2>1, <2>2, <2>3, <2>4
<1>2. ASSUME NEW o \in Orders, Skip(w, o) PROVE Promises'
  BY <1>2 DEF Skip, RetryBudget, SettledOrdersHoldNothing, HeldUntilDeadline,
              DeadLetterJustified, LetterPending, orderVars, workerVars
<1>3. CASE Complete(w)
  <2>1. RetryBudget' /\ DeadLetterJustified'
    BY <1>3, Charged DEF Complete, RetryBudget, DeadLetterJustified, TypeOK
  <2>2. \A o \in Orders, k \in Rows :
          resv'[o][k] = IF o = job[w] /\ resv[o][k] = "ACTIVE" THEN "CONSUMED" ELSE resv[o][k]
    BY <1>3 DEF Complete, Settle, ActiveOf
  <2>3. SettledOrdersHoldNothing' /\ HeldUntilDeadline'
    BY <1>3, <2>2, Charged DEF Complete, SettledOrdersHoldNothing, HeldUntilDeadline, TypeOK
  <2>4. LetterPending'
    BY <1>3, Charged DEF Complete, Goto, LetterPending, BusyHasJob, TypeOK
  <2> QED
    BY <2>1, <2>3, <2>4
<1>4. CASE PutBack(w)
  <2>1. RetryBudget' /\ DeadLetterJustified'
    BY <1>4, Charged DEF PutBack, RetryAllowed, RetryBudget, DeadLetterJustified, TypeOK
  <2>2. SettledOrdersHoldNothing' /\ HeldUntilDeadline'
    BY <1>4, Charged DEF PutBack, SettledOrdersHoldNothing, HeldUntilDeadline, TypeOK
  <2>3. LetterPending'
    BY <1>4, Charged DEF PutBack, Goto, LetterPending, BusyHasJob, TypeOK
  <2> QED
    BY <2>1, <2>2, <2>3
<1>5. CASE Fail(w)
  <2>1. RetryBudget' /\ DeadLetterJustified'
    BY <1>5, Charged DEF Fail, RetryBudget, DeadLetterJustified, TypeOK
  <2>2. \A o \in Orders, k \in Rows :
          resv'[o][k] = IF o = job[w] /\ resv[o][k] = "ACTIVE" THEN "RELEASED" ELSE resv[o][k]
    BY <1>5 DEF Fail, Settle, ActiveOf
  <2>3. /\ job[w] \in Orders /\ status[job[w]] = "PROCESSING"
        /\ status' = [status EXCEPT ![job[w]] = "FAILED"] /\ UNCHANGED <<line, due>>
    BY <1>5, Charged DEF Fail
  <2>4. attempt[w] >= MaxAttempts => attempts[job[w]] = MaxAttempts
    <3>1. pc[w] = "charging"
      BY <1>5 DEF Fail
    <3>2. attempt[w] <= MaxAttempts /\ attempts[job[w]] = attempt[w] /\ attempt[w] \in Nat
      BY <3>1, Charged DEF TypeOK
    <3> QED
      BY <3>2, BoundsAssumption
  <2>6. SettledOrdersHoldNothing' /\ HeldUntilDeadline'
    <3>1. \A o \in Orders : status'[o] = IF o = job[w] THEN "FAILED" ELSE status[o]
      BY <2>3 DEF TypeOK
    <3>2. SettledOrdersHoldNothing'
      BY <2>2, <2>3, <3>1 DEF SettledOrdersHoldNothing
    <3>3. HeldUntilDeadline'
      BY <2>2, <2>3, <3>1 DEF HeldUntilDeadline
    <3> QED
      BY <3>2, <3>3
  <2>5. LetterPending'
    BY <1>5, <2>4, Charged DEF Fail, Goto, BudgetSpent, LetterPending, BusyHasJob, TypeOK
  <2> QED
    BY <2>1, <2>5, <2>6
<1>6. CASE EnqueueRetry(w) \/ Ack(w)
  <2>1. UNCHANGED <<status, attempts, line, resv, due, dead>>
    BY <1>6 DEF EnqueueRetry, Ack, orderVars
  <2>2. \A v \in Workers : pc'[v] = "deadletter" => pc[v] = "deadletter" /\ job'[v] = job[v]
    BY <1>6 DEF EnqueueRetry, Ack, Goto, Stop, TypeOK
  <2>3. LetterPending'
    BY <2>1, <2>2 DEF LetterPending
  <2> QED
    BY <2>1, <2>3 DEF RetryBudget, SettledOrdersHoldNothing, HeldUntilDeadline, DeadLetterJustified
<1>7. CASE WriteDeadLetter(w)
  <2>1. UNCHANGED <<status, attempts, line, resv, due, job>>
    BY <1>7 DEF WriteDeadLetter, Goto
  <2>2. job[w] \in Orders /\ dead' = [dead EXCEPT ![job[w]] = @ + 1] /\ dead[job[w]] = 0
    BY <1>7 DEF WriteDeadLetter, BusyHasJob, LetterPending
  <2>3. DeadLetterJustified'
    BY <1>7, <2>1, <2>2 DEF WriteDeadLetter, LetterPending, DeadLetterJustified, TypeOK
  <2>4. LetterPending'
    BY <1>7, <2>1, <2>2 DEF WriteDeadLetter, Goto, LetterPending, BusyHasJob, TypeOK
  <2> QED
    BY <2>1, <2>3, <2>4 DEF RetryBudget, SettledOrdersHoldNothing, HeldUntilDeadline
<1> QED
  BY <1>1, <1>2, <1>3, <1>4, <1>5, <1>6, <1>7 DEF WorkerStep

LEMMA OtherPromises ==
    ASSUME LifeInv,
           \/ UNCHANGED vars
           \/ \E o \in Orders : RelayStep(o)
           \/ \E S \in SUBSET Orders : RelayInterrupted(S)
           \/ \E k \in Rows, d \in Deltas : AdjustStock(k, d)
           \/ \E w \in Workers : WorkerFault(w)
    PROVE  Promises'
<1> USE DEF LifeInv, OwnInv, TypeInv, Promises
<1>1. UNCHANGED orderVars
  BY DEF vars, RelayStep, RelaySend, RelayCommit,
         RelayInterrupted, AdjustStock, WorkerFault, WorkerCrash,
         Redeliver, WorkerError, ClaimError
<1>2. CASE UNCHANGED workerVars
  BY <1>1, <1>2 DEF RetryBudget, SettledOrdersHoldNothing, HeldUntilDeadline,
                    DeadLetterJustified, LetterPending, orderVars, workerVars
<1>3. ASSUME NEW w \in Workers, Stop(w) PROVE Promises'
  <2>1. \A v \in Workers : pc'[v] = "deadletter" => pc[v] = "deadletter" /\ job'[v] = job[v]
    BY <1>3 DEF Stop, TypeOK
  <2>2. LetterPending'
    BY <1>1, <2>1 DEF LetterPending, orderVars
  <2> QED
    BY <1>1, <2>2 DEF RetryBudget, SettledOrdersHoldNothing, HeldUntilDeadline,
                      DeadLetterJustified, orderVars
<1>4. UNCHANGED workerVars \/ \E w \in Workers : Stop(w)
  BY DEF vars, RelayStep, RelaySend, RelayCommit,
         RelayInterrupted, AdjustStock, WorkerFault, WorkerCrash,
         Redeliver, WorkerError, ClaimError
<1> QED
  BY <1>2, <1>3, <1>4

LEMMA NextLifeInv == LifeInv /\ [Next]_vars => LifeInv'
<1> SUFFICES ASSUME LifeInv, [Next]_vars PROVE LifeInv'
  OBVIOUS
<1>1. OwnInv'
  BY NextOwnInv DEF LifeInv
<1>2. Promises'
  BY CreatePromises, ApiPromises, SweepPromises, WorkerPromises, OtherPromises DEF Next
<1> QED
  BY <1>1, <1>2 DEF LifeInv

LEMMA LifeInvariant == Spec => []LifeInv
  BY InitLifeInv, NextLifeInv, PTL DEF Spec

-----------------------------------------------------------------------------
(* The theorems                                                            *)

\* No order is charged more often than payment_max_attempts, whatever is redelivered.
THEOREM BudgetKept == Spec => []RetryBudget
<1>1. LifeInv => RetryBudget
  BY DEF LifeInv, Promises
<1> QED
  BY <1>1, LifeInvariant, PTL

\* Settled orders hold no stock, but for due reservations of an expired order that the sweep
\* has yet to reach; only completed orders consume any.
THEOREM NothingHeldInVain == Spec => []SettledOrdersHoldNothing
<1>1. LifeInv => SettledOrdersHoldNothing
  BY DEF LifeInv, Promises
<1> QED
  BY <1>1, LifeInvariant, PTL

\* Until its deadline an order keeps every line it was granted, or has consumed it.
THEOREM PromiseKept == Spec => []HeldUntilDeadline
<1>1. LifeInv => HeldUntilDeadline
  BY DEF LifeInv, Promises
<1> QED
  BY <1>1, LifeInvariant, PTL

\* A dead letter is written at most once, for an order that failed with its budget spent.
THEOREM LettersJustified == Spec => []DeadLetterJustified
<1>1. LifeInv => DeadLetterJustified
  BY DEF LifeInv, Promises
<1> QED
  BY <1>1, LifeInvariant, PTL

\* If no task raises, a RESERVED order always has something that will bring it to a worker:
\* its outbox event, a message, or the worker that is about to send its retry. Worker
\* crashes, redeliveries and interrupted relay batches do not break this.
THEOREM NoOrderForgotten ==
    ASSUME "error" \notin FaultKinds
    PROVE  Spec => []ReservedHasTrigger
<1>1. Init => ReservedHasTrigger
  BY DEF Init, ReservedHasTrigger
<1>2. OwnInv /\ ReservedHasTrigger /\ [Next]_vars => ReservedHasTrigger'
  <2> SUFFICES ASSUME OwnInv, ReservedHasTrigger, [Next]_vars PROVE ReservedHasTrigger'
    OBVIOUS
  <2> USE DEF OwnInv, TypeInv, HasTrigger, At
  <2>1. ASSUME NEW o \in Orders, NEW b \in Baskets, NEW t \in Tokens, CreateOrder(o, b, t)
        PROVE  ReservedHasTrigger'
    BY <2>1 DEF CreateOrder, ReservedHasTrigger, TypeOK, workerVars
  <2>2. ASSUME NEW o \in Orders, CancelOrder(o) PROVE ReservedHasTrigger'
    BY <2>2 DEF CancelOrder, ReservedHasTrigger, TypeOK, workerVars
  <2>3. ASSUME NEW R \in Batches, ExpireReservations(R) PROVE ReservedHasTrigger'
    BY <2>3 DEF ExpireReservations, ReservedHasTrigger, TypeOK, workerVars
  <2>4. ASSUME NEW o \in Orders, RelayStep(o) PROVE ReservedHasTrigger'
    <3>1. /\ UNCHANGED <<status, pc, job>>
          /\ \A p \in Orders : outbox[p] = "PENDING" => outbox'[p] = "PENDING" \/ queue'[p] > 0
          /\ \A p \in Orders : queue[p] > 0 => queue'[p] > 0
      <4>1. CASE RelaySend(o)
        BY <4>1 DEF RelaySend, TypeOK, orderVars, workerVars
      <4>2. CASE RelayCommit(o)
        BY <4>2 DEF RelayCommit, TypeOK, orderVars, workerVars
      <4> QED
        BY <2>4, <4>1, <4>2 DEF RelayStep
    <3> QED
      BY <3>1 DEF ReservedHasTrigger
  <2>14. ASSUME NEW S \in SUBSET Orders, RelayInterrupted(S) PROVE ReservedHasTrigger'
    <3>1. /\ UNCHANGED <<status, queue, pc, job>>
          /\ \A p \in Orders : outbox[p] = "PENDING" => outbox'[p] = "PENDING"
      BY <2>14 DEF RelayInterrupted, orderVars, workerVars
    <3> QED
      BY <3>1 DEF ReservedHasTrigger
  <2>5. ASSUME NEW w \in Workers, NEW o \in Orders, Claim(w, o) PROVE ReservedHasTrigger'
    BY <2>5 DEF Claim, Deliver, ReservedHasTrigger, TypeOK
  <2>6. ASSUME NEW w \in Workers, NEW o \in Orders, Skip(w, o) PROVE ReservedHasTrigger'
    BY <2>6 DEF Skip, Deliver, Processable, ReservedHasTrigger, TypeOK, orderVars, workerVars
  <2>7. ASSUME NEW w \in Workers, Complete(w) \/ PutBack(w) \/ Fail(w)
        PROVE  ReservedHasTrigger'
    <3>1. job[w] \in Orders
      BY <2>7 DEF Complete, PutBack, Fail, BusyHasJob
    <3>2. UNCHANGED <<outbox, queue, job>>
      BY <2>7 DEF Complete, PutBack, Fail, Goto
    <3>3. \A p \in Orders : status'[p] = "RESERVED" =>
             status[p] = "RESERVED" \/ (p = job[w] /\ pc'[w] = "retrying")
      BY <2>7, <3>1 DEF Complete, PutBack, Fail, Goto, TypeOK
    <3>4. \A v \in Workers : pc[v] = "retrying" => pc'[v] = "retrying"
      BY <2>7 DEF Complete, PutBack, Fail, Goto, TypeOK
    <3> QED
      BY <3>2, <3>3, <3>4 DEF ReservedHasTrigger
  <2>8. ASSUME NEW w \in Workers, EnqueueRetry(w) \/ WorkerCrash(w) PROVE ReservedHasTrigger'
    <3>1. job[w] \in Orders /\ queue' = [queue EXCEPT ![job[w]] = @ + 1]
      BY <2>8 DEF EnqueueRetry, WorkerCrash, BusyHasJob
    <3>2. UNCHANGED <<status, outbox>>
      BY <2>8 DEF EnqueueRetry, WorkerCrash, orderVars
    <3>3. \A v \in Workers : v # w => pc'[v] = pc[v] /\ job'[v] = job[v]
      BY <2>8 DEF EnqueueRetry, WorkerCrash, Goto, Stop, TypeOK
    <3>4. queue'[job[w]] > 0 /\ \A p \in Orders : queue[p] > 0 => queue'[p] > 0
      BY <3>1 DEF TypeOK
    <3> QED
      BY <3>1, <3>2, <3>3, <3>4 DEF ReservedHasTrigger
  <2>9. ASSUME NEW w \in Workers, WriteDeadLetter(w) \/ Ack(w) PROVE ReservedHasTrigger'
    <3>1. UNCHANGED <<status, outbox, queue>>
      BY <2>9 DEF WriteDeadLetter, Ack, orderVars
    <3>2. \A v \in Workers : pc[v] = "retrying" => pc'[v] = "retrying" /\ job'[v] = job[v]
      BY <2>9 DEF WriteDeadLetter, Ack, Goto, Stop, TypeOK
    <3> QED
      BY <3>1, <3>2 DEF ReservedHasTrigger
  <2>10. ASSUME NEW w \in Workers, Redeliver(w) PROVE ReservedHasTrigger'
    <3>1. job[w] \in Orders /\ queue' = [queue EXCEPT ![job[w]] = @ + 1]
      BY <2>10 DEF Redeliver, BusyHasJob
    <3>2. UNCHANGED <<status, outbox, pc, job>>
      BY <2>10 DEF Redeliver, orderVars, workerVars
    <3> QED
      BY <3>1, <3>2 DEF ReservedHasTrigger, TypeOK
  <2>11. CASE UNCHANGED <<status, outbox, queue, pc, job>>
    BY <2>11 DEF ReservedHasTrigger
  <2>12. \A w \in Workers : /\ ~ WorkerError(w)
                            /\ \A o \in Orders : ~ ClaimError(w, o)
    BY DEF WorkerError, ClaimError, Fault
  <2>13. \/ UNCHANGED vars
         \/ \E o \in Orders : DeadlinePasses(o)
         \/ \E k \in Rows, d \in Deltas : AdjustStock(k, d)
         => UNCHANGED <<status, outbox, queue, pc, job>>
    BY DEF vars, DeadlinePasses, AdjustStock, orderVars, workerVars
  <2> QED
    BY <2>1, <2>2, <2>3, <2>4, <2>5, <2>6, <2>7, <2>8, <2>9, <2>10, <2>11, <2>12, <2>13, <2>14
    DEF Next, WorkerStep, WorkerFault, Sweep
<1> QED
  BY <1>1, <1>2, OwnInvariant, PTL DEF Spec

-----------------------------------------------------------------------------
(* How many orders the faults may lose                                     *)

\* A step that leaves an order alone does not lose it.
LEMMA NotLost ==
    ASSUME NEW o \in Orders, UNCHANGED <<status[o], attempts[o], dead[o]>>,
           status[o] = "RESERVED" /\ HasTrigger(o) => HasTrigger(o)',
           status[o] = "PROCESSING" /\ At(o, "charging") => At(o, "charging")',
           status[o] = "FAILED" /\ At(o, "deadletter") => At(o, "deadletter")'
    PROVE  Lost(o)' => Lost(o)
  BY DEF Lost

\* The other workers stay where they are when one moves.
LEMMA OthersStay ==
    ASSUME NEW w \in Workers, NEW o, NEW step, job[w] # o \/ pc[w] # step,
           \A v \in Workers \ {w} : pc'[v] = pc[v] /\ job'[v] = job[v]
    PROVE  At(o, step) => At(o, step)'
  BY DEF At

LEMMA TriggerStays ==
    ASSUME TypeOK, NEW w \in Workers, NEW o \in Orders, job[w] # o \/ pc[w] # "retrying",
           \A v \in Workers \ {w} : pc'[v] = pc[v] /\ job'[v] = job[v],
           outbox'[o] = outbox[o], queue'[o] = queue[o] \/ queue'[o] = queue[o] + 1
    PROVE  HasTrigger(o) => HasTrigger(o)'
<1>1. queue[o] > 0 => queue'[o] > 0
  BY DEF TypeOK
<1>2. At(o, "retrying") => At(o, "retrying")'
  BY OthersStay
<1> QED
  BY <1>1, <1>2 DEF HasTrigger

\* An action of worker w, whose order is job[w], leaves the other orders alone.
LEMMA OtherOrders ==
    ASSUME TypeOK, NEW w \in Workers, NEW o \in Orders, job[w] # o,
           \A v \in Workers \ {w} : pc'[v] = pc[v] /\ job'[v] = job[v],
           UNCHANGED <<status[o], attempts[o], dead[o]>>,
           outbox'[o] = outbox[o], queue'[o] = queue[o] \/ queue'[o] = queue[o] + 1
    PROVE  Lost(o)' => Lost(o)
  BY NotLost, OthersStay, TriggerStays

\* What happens outside the workers loses no order.
LEMMA OutsideLosesNone ==
    ASSUME LifeInv, UNCHANGED workerVars, NEW o \in Orders, NEW p \in Orders,
           \/ \E b \in Baskets, t \in Tokens : CreateOrder(p, b, t)
           \/ CancelOrder(p) \/ DeadlinePasses(p) \/ RelayStep(p)
           \/ \E S \in SUBSET Orders : RelayInterrupted(S)
           \/ \E k \in Rows, d \in Deltas : AdjustStock(k, d)
           \/ \E R \in Batches : ExpireReservations(R)
           \/ UNCHANGED vars
    PROVE  Lost(o)' => Lost(o)
<1> USE DEF LifeInv, OwnInv, TypeInv
<1>1. \A step : At(o, step)' <=> At(o, step)
  BY DEF At, workerVars
<1>2. CASE UNCHANGED <<status, attempts, dead, outbox, queue>>
  BY <1>1, <1>2 DEF Lost, HasTrigger
<1>3. ASSUME NEW b \in Baskets, NEW t \in Tokens, CreateOrder(p, b, t) PROVE Lost(o)' => Lost(o)
  <2>1. o = p => status'[o] = "RESERVED" /\ outbox'[o] = "PENDING"
    BY <1>3 DEF CreateOrder, TypeOK
  <2>2. o # p => UNCHANGED <<status[o], outbox[o]>>
    BY <1>3 DEF CreateOrder, TypeOK
  <2>3. UNCHANGED <<attempts, dead, queue>>
    BY <1>3 DEF CreateOrder
  <2> QED
    BY <1>1, <2>1, <2>2, <2>3 DEF Lost, HasTrigger
<1>4. CASE CancelOrder(p) \/ \E R \in Batches : ExpireReservations(R)
  <2>1. status'[o] = status[o] \/ status'[o] \in {"CANCELLED", "EXPIRED"}
    BY <1>4 DEF CancelOrder, ExpireReservations, TypeOK
  <2>2. UNCHANGED <<attempts, dead, outbox, queue>>
    BY <1>4 DEF CancelOrder, ExpireReservations
  <2> QED
    BY <1>1, <2>1, <2>2 DEF Lost, HasTrigger
<1>5. CASE RelayStep(p)
  <2>1. /\ UNCHANGED <<status, attempts, dead>>
        /\ outbox[o] = "PENDING" => outbox'[o] = "PENDING" \/ queue'[o] > 0
        /\ queue[o] > 0 => queue'[o] > 0
    BY <1>5 DEF RelayStep, RelaySend, RelayCommit, TypeOK, orderVars
  <2> QED
    BY <1>1, <2>1, NotLost DEF HasTrigger
<1>7. ASSUME NEW S \in SUBSET Orders, RelayInterrupted(S) PROVE Lost(o)' => Lost(o)
  <2>1. /\ UNCHANGED <<status, attempts, dead, queue>>
        /\ outbox[o] = "PENDING" => outbox'[o] = "PENDING"
    BY <1>7 DEF RelayInterrupted, orderVars
  <2> QED
    BY <1>1, <2>1, NotLost DEF HasTrigger
<1>6. \/ DeadlinePasses(p) \/ UNCHANGED vars
      \/ \E k \in Rows, d \in Deltas : AdjustStock(k, d)
      => UNCHANGED <<status, attempts, dead, outbox, queue>>
  BY DEF DeadlinePasses, AdjustStock, vars, orderVars
<1> QED
  BY <1>2, <1>3, <1>4, <1>5, <1>6, <1>7

\* A worker that is not interrupted loses no order, neither its own nor another's.
LEMMA WorkerLosesNone ==
    ASSUME LifeInv, NEW w \in Workers, WorkerStep(w), NEW o \in Orders
    PROVE  Lost(o)' => Lost(o)
<1> USE DEF LifeInv, OwnInv, TypeInv
<1>1. ASSUME NEW p \in Orders, Claim(w, p) PROVE Lost(o)' => Lost(o)
  <2>1. /\ pc[w] = "idle" /\ pc'[w] = "charging" /\ job'[w] = p
        /\ \A v \in Workers \ {w} : pc'[v] = pc[v] /\ job'[v] = job[v]
    BY <1>1 DEF Claim, Deliver, TypeOK
  <2>2. CASE o = p
    BY <1>1, <2>1, <2>2 DEF Claim, Lost, At, TypeOK
  <2>3. CASE o # p
    <3>1. UNCHANGED <<status[o], attempts[o], dead[o], outbox[o], queue[o]>>
      BY <1>1, <2>3 DEF Claim, Deliver, TypeOK
    <3> QED
      BY <2>1, <3>1, NotLost, OthersStay, TriggerStays
  <2> QED
    BY <2>2, <2>3
<1>2. ASSUME NEW p \in Orders, Skip(w, p) PROVE Lost(o)' => Lost(o)
  <2>1. UNCHANGED <<status, attempts, dead, outbox, pc, job>>
    BY <1>2 DEF Skip, orderVars, workerVars
  <2>2. status[o] = "RESERVED" => queue'[o] = queue[o]
    BY <1>2 DEF Skip, Deliver, Processable, TypeOK
  <2>3. \A step : At(o, step)' <=> At(o, step)
    BY <2>1 DEF At
  <2> QED
    BY <2>1, <2>2, <2>3 DEF Lost, HasTrigger
<1>3. CASE Complete(w) \/ PutBack(w) \/ Fail(w)
  <2>1. /\ pc[w] = "charging" /\ job' = job /\ UNCHANGED <<attempts, dead, outbox, queue>>
        /\ \A v \in Workers \ {w} : pc'[v] = pc[v] /\ job'[v] = job[v]
    BY <1>3 DEF Complete, PutBack, Fail, Goto, TypeOK
  <2>2. CASE o # job[w]
    <3>1. UNCHANGED status[o]
      BY <1>3, <2>2 DEF Complete, PutBack, Fail, TypeOK
    <3> QED
      BY <2>1, <2>2, <3>1, OtherOrders
  <2>3. CASE o = job[w]
    <3>1. CASE Complete(w)
      BY <2>3, <3>1 DEF Complete, Lost, TypeOK
    <3>2. CASE PutBack(w)
      <4>1. status'[o] = "RESERVED" /\ pc'[w] = "retrying" /\ job'[w] = o
        BY <2>1, <2>3, <3>2 DEF PutBack, Goto, TypeOK
      <4> QED
        BY <4>1 DEF Lost, HasTrigger, At
    <3>3. CASE Fail(w)
      <4>1. attempts[o] = attempt[w]
        BY <2>1, <2>3, Charged
      <4>2. attempts'[o] = MaxAttempts => pc'[w] = "deadletter"
        BY <2>1, <3>3, <4>1, BoundsAssumption DEF Fail, BudgetSpent, Goto, TypeOK
      <4>3. status'[o] = "FAILED" /\ job'[w] = o
        BY <2>1, <2>3, <3>3 DEF Fail, TypeOK
      <4> QED
        BY <4>2, <4>3 DEF Lost, At
    <3> QED
      BY <1>3, <3>1, <3>2, <3>3
  <2> QED
    BY <2>2, <2>3
<1>4. CASE EnqueueRetry(w) \/ Ack(w)
  <2>1. /\ pc[w] \in {"retrying", "acking"} /\ UNCHANGED <<status, attempts, dead, outbox>>
        /\ \A v \in Workers \ {w} : pc'[v] = pc[v] /\ job'[v] = job[v]
    BY <1>4 DEF EnqueueRetry, Ack, Goto, Stop, orderVars, TypeOK
  <2>2. /\ pc[w] = "retrying" /\ job[w] = o => queue'[o] > 0
        /\ queue'[o] = queue[o] \/ queue'[o] = queue[o] + 1
    BY <1>4 DEF EnqueueRetry, Ack, TypeOK
  <2>3. HasTrigger(o) => HasTrigger(o)'
    BY <2>1, <2>2, TriggerStays DEF HasTrigger
  <2> QED
    BY <2>1, <2>3, NotLost, OthersStay
<1>5. CASE WriteDeadLetter(w)
  <2>1. /\ pc[w] = "deadletter" /\ UNCHANGED <<status, attempts, outbox, queue>>
        /\ \A v \in Workers \ {w} : pc'[v] = pc[v] /\ job'[v] = job[v]
    BY <1>5 DEF WriteDeadLetter, Goto, TypeOK
  <2>2. CASE o # job[w]
    <3>1. UNCHANGED dead[o]
      BY <1>5, <2>2 DEF WriteDeadLetter, TypeOK
    <3> QED
      BY <2>1, <2>2, <3>1, OtherOrders
  <2>3. CASE o = job[w]
    <3>1. status[o] = "FAILED" /\ dead'[o] = 1
      BY <1>5, <2>1, <2>3 DEF WriteDeadLetter, Promises, LetterPending, TypeOK
    <3> QED
      BY <2>1, <3>1 DEF Lost
  <2> QED
    BY <2>2, <2>3
<1> QED
  BY <1>1, <1>2, <1>3, <1>4, <1>5 DEF WorkerStep

\* A fault of a worker loses its own order, or the one whose message it took.
LEMMA FaultLosesOne ==
    ASSUME LifeInv, NEW w \in Workers, WorkerFault(w)
    PROVE  \E p \in Orders : \A o \in Orders \ {p} : Lost(o)' => Lost(o)
<1> USE DEF LifeInv, OwnInv, TypeInv
<1>1. CASE WorkerCrash(w) \/ Redeliver(w) \/ WorkerError(w)
  <2>1. job[w] \in Orders
    BY <1>1 DEF WorkerCrash, Redeliver, WorkerError, BusyHasJob
  <2>2. /\ UNCHANGED <<status, attempts, dead, outbox>>
        /\ \A v \in Workers \ {w} : pc'[v] = pc[v] /\ job'[v] = job[v]
    BY <1>1 DEF WorkerCrash, Redeliver, WorkerError, Stop, orderVars, workerVars, TypeOK
  <2>3. \A o \in Orders \ {job[w]} : queue'[o] = queue[o]
    BY <1>1 DEF WorkerCrash, Redeliver, WorkerError, TypeOK
  <2>4. \A o \in Orders \ {job[w]} : Lost(o)' => Lost(o)
    BY <2>2, <2>3, OtherOrders
  <2> QED
    BY <2>1, <2>4
<1>2. ASSUME NEW p \in Orders, ClaimError(w, p)
      PROVE  \A o \in Orders \ {p} : Lost(o)' => Lost(o)
  <2>1. UNCHANGED <<status, attempts, dead, outbox, pc, job>>
    BY <1>2 DEF ClaimError, orderVars, workerVars
  <2>2. \A o \in Orders \ {p} : queue'[o] = queue[o]
    BY <1>2 DEF ClaimError, Deliver, TypeOK
  <2> QED
    BY <2>1, <2>2 DEF Lost, HasTrigger, At
<1> QED
  BY <1>1, <1>2 DEF WorkerFault

LEMMA LostStep ==
    ASSUME LifeInv, [Next]_vars
    PROVE  \/ faults' \in {faults, faults + 1} /\ \A o \in Orders : Lost(o)' => Lost(o)
           \/ /\ faults' = faults + 1
              /\ \E p \in Orders : \A o \in Orders \ {p} : Lost(o)' => Lost(o)
<1>1. ASSUME NEW w \in Workers, WorkerFault(w)
      PROVE  /\ faults' = faults + 1
             /\ \E p \in Orders : \A o \in Orders \ {p} : Lost(o)' => Lost(o)
  <2>1. faults' = faults + 1
    BY <1>1 DEF WorkerFault, WorkerCrash, Redeliver, WorkerError, ClaimError, Fault
  <2> QED
    BY <1>1, <2>1, FaultLosesOne
<1>2. ASSUME NEW w \in Workers, WorkerStep(w)
      PROVE  faults' = faults /\ \A o \in Orders : Lost(o)' => Lost(o)
  <2>1. faults' = faults
    BY <1>2 DEF WorkerStep, Claim, Skip, Complete, PutBack, Fail, EnqueueRetry,
                WriteDeadLetter, Ack
  <2> QED
    BY <1>2, <2>1, WorkerLosesNone
<1>3. ASSUME NEW p \in Orders,
             \/ \E b \in Baskets, t \in Tokens : CreateOrder(p, b, t)
             \/ CancelOrder(p) \/ DeadlinePasses(p) \/ RelayStep(p)
      PROVE  faults' \in {faults, faults + 1} /\ \A o \in Orders : Lost(o)' => Lost(o)
  <2>1. UNCHANGED workerVars /\ faults' \in {faults, faults + 1}
    BY <1>3 DEF CreateOrder, CancelOrder, DeadlinePasses, RelayStep, RelaySend, RelayCommit
  <2> QED
    BY <1>3, <2>1, OutsideLosesNone
<1>4. CASE \/ \E k \in Rows, d \in Deltas : AdjustStock(k, d)
           \/ Sweep \/ UNCHANGED vars
  <2>1. UNCHANGED workerVars /\ faults' = faults
    BY <1>4 DEF AdjustStock, Sweep, ExpireReservations, vars
  <2>2. ASSUME NEW o \in Orders PROVE Lost(o)' => Lost(o)
    BY <1>4, <2>1, OutsideLosesNone DEF Sweep
  <2> QED
    BY <2>1, <2>2
<1>5. ASSUME NEW S \in SUBSET Orders, RelayInterrupted(S)
      PROVE  faults' = faults + 1 /\ \A o \in Orders : Lost(o)' => Lost(o)
  <2>1. UNCHANGED workerVars /\ faults' = faults + 1
    BY <1>5 DEF RelayInterrupted, Fault
  <2>2. ASSUME NEW o \in Orders PROVE Lost(o)' => Lost(o)
    BY <1>5, <2>1, OutsideLosesNone
  <2> QED
    BY <2>1, <2>2
<1> QED
  BY <1>1, <1>2, <1>3, <1>4, <1>5 DEF Next

\* Every fault costs at most one order, for any number of orders, workers and faults of all
\* kinds, also those that lose messages.
THEOREM FaultsLoseOneEach == Spec => []LossesBounded
<1> DEFINE L == {o \in Orders : Lost(o)}
<1>1. IsFiniteSet(L) /\ Cardinality(L) \in Nat
  BY OrdersAssumption, FS_Subset, FS_CardinalityType
<1>2. Init => LossesBounded
  <2> SUFFICES ASSUME Init PROVE LossesBounded
    OBVIOUS
  <2>1. {o \in Orders : Lost(o)} = {}
    BY DEF Init, Lost
  <2>2. Cardinality({o \in Orders : Lost(o)}) = 0 /\ faults = 0
    BY <2>1, FS_EmptySet DEF Init
  <2> QED
    BY <2>2 DEF LossesBounded
<1>3. LifeInv /\ LossesBounded /\ [Next]_vars => LossesBounded'
  <2> SUFFICES ASSUME LifeInv, LossesBounded, [Next]_vars PROVE LossesBounded'
    OBVIOUS
  <2>1. faults \in Nat /\ Cardinality(L) <= faults
    BY DEF LifeInv, OwnInv, TypeInv, TypeOK, LossesBounded
  <2>2. CASE faults' \in {faults, faults + 1} /\ \A o \in Orders : Lost(o)' => Lost(o)
    <3>1. L' \in SUBSET L
      BY <2>2
    <3>2. Cardinality(L') <= Cardinality(L) /\ Cardinality(L') \in Nat
      BY <1>1, <3>1, FS_Subset, FS_CardinalityType
    <3>3. Cardinality(L') <= faults'
      <4> HIDE DEF L
      <4> QED
        BY <1>1, <2>1, <2>2, <3>2
    <3> QED
      BY <3>3 DEF LossesBounded
  <2>3. ASSUME NEW p \in Orders, faults' = faults + 1,
               \A o \in Orders \ {p} : Lost(o)' => Lost(o)
        PROVE  LossesBounded'
    <3>1. L' \in SUBSET (L \cup {p})
      BY <2>3
    <3>2. IsFiniteSet(L \cup {p}) /\ Cardinality(L \cup {p}) <= Cardinality(L) + 1
          /\ Cardinality(L \cup {p}) \in Nat
      <4>1. Cardinality(L \cup {p}) = IF p \in L THEN Cardinality(L) ELSE Cardinality(L) + 1
        BY <1>1, FS_AddElement
      <4>2. IsFiniteSet(L \cup {p})
        BY <1>1, FS_AddElement
      <4> HIDE DEF L
      <4> QED
        BY <1>1, <4>1, <4>2
    <3>3. Cardinality(L') <= Cardinality(L \cup {p}) /\ Cardinality(L') \in Nat
      BY <3>1, <3>2, FS_Subset, FS_CardinalityType
    <3>4. Cardinality(L') <= faults'
      <4> HIDE DEF L
      <4> QED
        BY <1>1, <2>1, <2>3, <3>2, <3>3
    <3> QED
      BY <3>4 DEF LossesBounded
  <2> QED
    BY <2>2, <2>3, LostStep
<1> QED
  BY <1>2, <1>3, LifeInvariant, PTL DEF Spec

-----------------------------------------------------------------------------
(* Payments                                                                *)

\* PaidOnce is inductive once it is said that a PROCESSING order was charged.
PaidInv == PaidOnce /\ \A o \in Orders : status[o] = "PROCESSING" => attempts[o] > 0

LEMMA WorkerPays ==
    ASSUME OwnInv, PaidInv, NEW w \in Workers, WorkerStep(w)
    PROVE  PaidInv'
<1> USE DEF OwnInv, TypeInv, PaidInv
<1>1. ASSUME NEW o \in Orders, Claim(w, o) PROVE PaidInv'
  <2>1. /\ status[o] = "RESERVED" /\ status' = [status EXCEPT ![o] = "PROCESSING"]
        /\ attempts' = [attempts EXCEPT ![o] = @ + 1] /\ UNCHANGED token
    BY <1>1 DEF Claim, Processable
  <2>2. token[o] = "success" => attempts[o] = 0
    <3>1. attempts[o] \in Nat
      BY DEF TypeOK
    <3>2. ~(token[o] = "success" /\ attempts[o] > 0)
      BY <2>1 DEF PaidOnce
    <3> QED
      BY <3>1, <3>2
  <2> QED
    BY <2>1, <2>2 DEF PaidOnce, TypeOK
<1>2. CASE Complete(w) \/ PutBack(w) \/ Fail(w)
  <2>1. /\ job[w] \in Orders /\ status[job[w]] = "PROCESSING"
        /\ UNCHANGED <<token, attempts>>
    BY <1>2 DEF Complete, PutBack, Fail, BusyHasJob, ChargingOwnsOrder
  <2>2. CASE Complete(w)
    <3>1. token[job[w]] = "success" /\ status' = [status EXCEPT ![job[w]] = "COMPLETED"]
      BY <2>2 DEF Complete, Approved
    <3>2. attempts[job[w]] = 1
      BY <2>1, <3>1 DEF PaidOnce
    <3> QED
      BY <2>1, <3>1, <3>2 DEF PaidOnce, TypeOK
  <2>3. CASE PutBack(w) \/ Fail(w)
    <3>1. /\ token[job[w]] # "success"
          /\ \E s \in {"RESERVED", "FAILED"} : status' = [status EXCEPT ![job[w]] = s]
      BY <2>3 DEF PutBack, Fail, Approved, RetryAllowed
    <3> QED
      BY <2>1, <3>1 DEF PaidOnce, TypeOK
  <2> QED
    BY <1>2, <2>2, <2>3
<1>3. CASE \/ \E o \in Orders : Skip(w, o)
           \/ EnqueueRetry(w) \/ WriteDeadLetter(w) \/ Ack(w)
  <2>1. UNCHANGED <<status, token, attempts>>
    BY <1>3 DEF Skip, EnqueueRetry, WriteDeadLetter, Ack, orderVars
  <2> QED
    BY <2>1 DEF PaidOnce
<1> QED
  BY <1>1, <1>2, <1>3 DEF WorkerStep

\* No customer is charged twice or pays for an order that ends otherwise than COMPLETED, for
\* any number of workers, attempts and faults.
THEOREM CustomersPayOnce == Spec => []PaidOnce
<1>1. Init => PaidInv
  BY DEF Init, PaidInv, PaidOnce
<1>2. OwnInv /\ PaidInv /\ [Next]_vars => PaidInv'
  <2> SUFFICES ASSUME OwnInv, PaidInv, [Next]_vars PROVE PaidInv'
    OBVIOUS
  <2> USE DEF OwnInv, TypeInv, PaidInv
  <2>1. ASSUME NEW o \in Orders, NEW b \in Baskets, NEW t \in Tokens, CreateOrder(o, b, t)
        PROVE  PaidInv'
    <3>1. /\ attempts[o] = 0 /\ UNCHANGED attempts
          /\ status' = [status EXCEPT ![o] = "RESERVED"] /\ token' = [token EXCEPT ![o] = t]
      BY <2>1 DEF CreateOrder, Unborn
    <3> QED
      BY <3>1 DEF PaidOnce, TypeOK
  <2>2. ASSUME NEW o \in Orders, CancelOrder(o) PROVE PaidInv'
    BY <2>2 DEF CancelOrder, Cancellable, PaidOnce, TypeOK
  <2>3. ASSUME NEW R \in Batches, ExpireReservations(R) PROVE PaidInv'
    BY <2>3 DEF ExpireReservations, Expirable, PaidOnce, TypeOK
  <2>4. ASSUME NEW w \in Workers, WorkerStep(w) PROVE PaidInv'
    BY <2>4, WorkerPays
  <2>5. CASE UNCHANGED <<status, token, attempts>>
    BY <2>5 DEF PaidOnce
  <2>6. \/ UNCHANGED vars
        \/ \E o \in Orders : DeadlinePasses(o) \/ RelayStep(o)
        \/ \E S \in SUBSET Orders : RelayInterrupted(S)
        \/ \E k \in Rows, d \in Deltas : AdjustStock(k, d)
        \/ \E w \in Workers : WorkerFault(w)
        => UNCHANGED <<status, token, attempts>>
    BY DEF vars, DeadlinePasses, RelayStep, RelaySend, RelayCommit,
         RelayInterrupted, AdjustStock,
           WorkerFault, WorkerCrash, Redeliver, WorkerError, ClaimError, orderVars
  <2> QED
    BY <2>1, <2>2, <2>3, <2>4, <2>5, <2>6 DEF Next, Sweep
<1>3. PaidInv => PaidOnce
  BY DEF PaidInv
<1> QED
  BY <1>1, <1>2, <1>3, OwnInvariant, PTL DEF Spec

-----------------------------------------------------------------------------
(* Messages                                                                *)

\* No message, event or worker is about an order that does not exist.
NoneInFlight ==
    \A o \in Orders : status[o] = "NONE" =>
        outbox[o] = "NONE" /\ queue[o] = 0 /\ \A w \in Workers : job[w] # o

IdleHasNone == \A w \in Workers : pc[w] = "idle" => job[w] = NoOrder

MessageInv ==
    /\ \A o \in Orders : IsFiniteSet(Busy(o))
    /\ NoneInFlight
    /\ IdleHasNone
    /\ MessagesBounded

Pending(o) == IF outbox[o] = "PENDING" THEN 1 ELSE 0

\* What a step may add to the messages of an order: nothing, or one with a fault.
Adds(o) == InFlight(o)' <= InFlight(o) + (faults' - faults) \/ InFlight(o)' <= 1

LEMMA CountTypes ==
    ASSUME TypeOK, NEW o \in Orders, IsFiniteSet(Busy(o))
    PROVE  queue[o] \in Nat /\ Pending(o) \in {0, 1} /\ faults \in Nat
           /\ Cardinality(Busy(o)) \in Nat
           /\ InFlight(o) = Pending(o) + queue[o] + Cardinality(Busy(o))
<1>1. Cardinality(Busy(o)) \in Nat
  BY FS_CardinalityType
<1> QED
  BY <1>1 DEF TypeOK, Pending, InFlight

\* The same workers are busy.
LEMMA SameBusy ==
    ASSUME TypeOK, TypeOK', NEW o \in Orders, IsFiniteSet(Busy(o)), Busy(o)' = Busy(o),
           Pending(o)' + queue'[o] <= Pending(o) + queue[o] + (faults' - faults)
    PROVE  IsFiniteSet(Busy(o))' /\ Adds(o)
<1>1. IsFiniteSet(Busy(o))'
  OBVIOUS
<1>2. /\ InFlight(o) = Pending(o) + queue[o] + Cardinality(Busy(o))
      /\ queue[o] \in Nat /\ Pending(o) \in {0, 1} /\ faults \in Nat
      /\ Cardinality(Busy(o)) \in Nat
  BY CountTypes
<1>3. /\ InFlight(o)' = Pending(o)' + queue'[o] + Cardinality(Busy(o))
      /\ queue'[o] \in Nat /\ Pending(o)' \in {0, 1} /\ faults' \in Nat
  BY <1>1, CountTypes DEF TypeOK, Pending, InFlight
<1> QED
  BY <1>1, <1>2, <1>3 DEF Adds

\* A busy worker has finished or is gone.
LEMMA OneLess ==
    ASSUME TypeOK, TypeOK', NEW o \in Orders, IsFiniteSet(Busy(o)),
           NEW w \in Busy(o), Busy(o)' = Busy(o) \ {w},
           Pending(o)' + queue'[o] <= Pending(o) + queue[o] + 1 + (faults' - faults)
    PROVE  IsFiniteSet(Busy(o))' /\ Adds(o)
<1>1. IsFiniteSet(Busy(o))' /\ Cardinality(Busy(o))' = Cardinality(Busy(o)) - 1
  BY FS_RemoveElement
<1>2. /\ InFlight(o) = Pending(o) + queue[o] + Cardinality(Busy(o))
      /\ queue[o] \in Nat /\ Pending(o) \in {0, 1} /\ faults \in Nat
      /\ Cardinality(Busy(o)) \in Nat
  BY CountTypes
<1>3. /\ InFlight(o)' = Pending(o)' + queue'[o] + (Cardinality(Busy(o)) - 1)
      /\ queue'[o] \in Nat /\ Pending(o)' \in {0, 1} /\ faults' \in Nat
  BY <1>1 DEF TypeOK, Pending, InFlight
<1> QED
  BY <1>1, <1>2, <1>3 DEF Adds

\* A worker has taken a message.
LEMMA OneMore ==
    ASSUME TypeOK, TypeOK', NEW o \in Orders, IsFiniteSet(Busy(o)),
           NEW w, w \notin Busy(o), Busy(o)' = Busy(o) \cup {w},
           Pending(o)' + queue'[o] + 1 <= Pending(o) + queue[o], faults' = faults
    PROVE  IsFiniteSet(Busy(o))' /\ Adds(o)
<1>1. IsFiniteSet(Busy(o))' /\ Cardinality(Busy(o))' = Cardinality(Busy(o)) + 1
  BY FS_AddElement
<1>2. /\ InFlight(o) = Pending(o) + queue[o] + Cardinality(Busy(o))
      /\ queue[o] \in Nat /\ Pending(o) \in {0, 1} /\ faults \in Nat
      /\ Cardinality(Busy(o)) \in Nat
  BY CountTypes
<1>3. /\ InFlight(o)' = Pending(o)' + queue'[o] + (Cardinality(Busy(o)) + 1)
      /\ queue'[o] \in Nat /\ Pending(o)' \in {0, 1} /\ faults' \in Nat
  BY <1>1 DEF TypeOK, Pending, InFlight
<1> QED
  BY <1>1, <1>2, <1>3 DEF Adds

LEMMA OutsideAdds ==
    ASSUME OwnInv, MessageInv, TypeOK', NEW o \in Orders, NEW p \in Orders,
           \/ \E b \in Baskets, t \in Tokens : CreateOrder(p, b, t)
           \/ CancelOrder(p) \/ DeadlinePasses(p) \/ RelayStep(p)
           \/ \E S \in SUBSET Orders : RelayInterrupted(S)
           \/ \E k \in Rows, d \in Deltas : AdjustStock(k, d)
           \/ \E R \in Batches : ExpireReservations(R)
           \/ UNCHANGED vars
    PROVE  IsFiniteSet(Busy(o))' /\ Adds(o)
<1> USE DEF OwnInv, TypeInv, MessageInv
<1>1. UNCHANGED workerVars
  BY DEF CreateOrder, CancelOrder, DeadlinePasses, RelayStep, RelaySend, RelayCommit,
         RelayInterrupted,
         AdjustStock, ExpireReservations, vars
<1>2. Busy(o)' = Busy(o)
  BY <1>1 DEF Busy, workerVars
<1>3. queue[o] \in Nat /\ faults \in Nat /\ Pending(o) \in {0, 1}
  BY DEF TypeOK, Pending
<1>4. CASE UNCHANGED <<outbox[o], queue[o], faults>>
  <2>1. Pending(o)' + queue'[o] <= Pending(o) + queue[o] + (faults' - faults)
    BY <1>3, <1>4 DEF Pending
  <2> QED
    BY <1>2, <2>1, SameBusy
<1>5. ASSUME NEW b \in Baskets, NEW t \in Tokens, CreateOrder(p, b, t), o = p
      PROVE  IsFiniteSet(Busy(o))' /\ Adds(o)
  <2>1. queue[o] = 0 /\ \A w \in Workers : job[w] # o
    BY <1>5 DEF CreateOrder, NoneInFlight
  <2>2. Busy(o)' = {}
    BY <1>2, <2>1 DEF Busy
  <2>3. Cardinality(Busy(o))' = 0 /\ IsFiniteSet(Busy(o))'
    BY <2>2, FS_EmptySet
  <2>4. queue'[o] = 0 /\ outbox'[o] = "PENDING"
    BY <1>5, <2>1 DEF CreateOrder, TypeOK
  <2>5. InFlight(o)' = 1
    BY <2>3, <2>4 DEF InFlight
  <2> QED
    BY <2>3, <2>5 DEF Adds
<1>6. CASE RelayStep(p) /\ o = p
  <2>1. \/ outbox[o] = "PENDING" /\ outbox'[o] = "SENT" /\ queue'[o] = queue[o] + 1
        \/ outbox[o] = "SENT" /\ outbox'[o] = "PUBLISHED" /\ queue'[o] = queue[o]
    BY <1>6 DEF RelayStep, RelaySend, RelayCommit, TypeOK
  <2>2. faults' = faults
    BY <1>6 DEF RelayStep, RelaySend, RelayCommit
  <2>3. Pending(o)' + queue'[o] <= Pending(o) + queue[o] + (faults' - faults)
    BY <1>3, <2>1, <2>2 DEF Pending
  <2> QED
    BY <1>2, <2>3, SameBusy
<1>7. ASSUME NEW S \in SUBSET Orders, RelayInterrupted(S) PROVE IsFiniteSet(Busy(o))' /\ Adds(o)
  <2>1. /\ outbox'[o] \in {outbox[o], "PENDING"} /\ queue' = queue /\ faults' = faults + 1
    BY <1>7 DEF RelayInterrupted, Fault
  <2>2. Pending(o)' + queue'[o] <= Pending(o) + queue[o] + (faults' - faults)
    BY <1>3, <2>1 DEF Pending
  <2> QED
    BY <1>2, <2>2, SameBusy
<1>8. \/ o # p /\ \E b \in Baskets, t \in Tokens : CreateOrder(p, b, t)
      \/ o # p /\ RelayStep(p)
      \/ CancelOrder(p) \/ DeadlinePasses(p)
      \/ \E k \in Rows, d \in Deltas : AdjustStock(k, d)
      \/ \E R \in Batches : ExpireReservations(R)
      \/ UNCHANGED vars
      => UNCHANGED <<outbox[o], queue[o], faults>>
  BY DEF CreateOrder, RelayStep, RelaySend, RelayCommit, CancelOrder, DeadlinePasses, AdjustStock,
         ExpireReservations, vars, TypeOK
<1> QED
  BY <1>4, <1>5, <1>6, <1>7, <1>8

LEMMA WorkerAdds ==
    ASSUME OwnInv, MessageInv, TypeOK', NEW o \in Orders, NEW w \in Workers,
           WorkerStep(w) \/ WorkerFault(w)
    PROVE  IsFiniteSet(Busy(o))' /\ Adds(o)
<1> USE DEF OwnInv, TypeInv, MessageInv
<1>1. queue[o] \in Nat /\ faults \in Nat /\ Pending(o) \in {0, 1}
  BY DEF TypeOK, Pending
<1>2. pc[w] # "idle" => job[w] \in Orders
  BY DEF BusyHasJob
<1>3. ASSUME NEW p \in Orders, Claim(w, p) PROVE IsFiniteSet(Busy(o))' /\ Adds(o)
  <2>1. /\ UNCHANGED <<outbox, faults>> /\ queue' = [queue EXCEPT ![p] = @ - 1]
        /\ queue[p] > 0 /\ pc[w] = "idle"
        /\ pc' = [pc EXCEPT ![w] = "charging"] /\ job' = [job EXCEPT ![w] = p]
    BY <1>3 DEF Claim, Deliver
  <2>2. CASE o = p /\ job[w] # o
    <3>1. w \notin Busy(o) /\ Busy(o)' = Busy(o) \cup {w}
      BY <2>1, <2>2 DEF Busy, TypeOK
    <3>2. Pending(o)' + queue'[o] + 1 <= Pending(o) + queue[o]
      BY <1>1, <2>1, <2>2 DEF Pending, TypeOK
    <3> QED
      BY <2>1, <3>1, <3>2, OneMore
  <2>3. CASE o # p /\ job[w] # o
    <3>1. Busy(o)' = Busy(o)
      BY <2>1, <2>3 DEF Busy, TypeOK
    <3>2. Pending(o)' + queue'[o] <= Pending(o) + queue[o] + (faults' - faults)
      BY <1>1, <2>1, <2>3 DEF Pending, TypeOK
    <3> QED
      BY <3>1, <3>2, SameBusy
  <2>4. job[w] # o
    BY <2>1, OrdersAssumption DEF IdleHasNone
  <2> QED
    BY <2>2, <2>3, <2>4
<1>4. ASSUME NEW p \in Orders, Skip(w, p) \/ ClaimError(w, p)
      PROVE  IsFiniteSet(Busy(o))' /\ Adds(o)
  <2>1. /\ UNCHANGED <<outbox, pc, job>> /\ queue' = [queue EXCEPT ![p] = @ - 1]
        /\ faults' \in {faults, faults + 1}
    BY <1>4 DEF Skip, ClaimError, Deliver, Fault, workerVars
  <2>2. Pending(o)' + queue'[o] <= Pending(o) + queue[o] + (faults' - faults)
    BY <1>1, <2>1 DEF Pending, TypeOK
  <2>3. Busy(o)' = Busy(o)
    BY <2>1 DEF Busy
  <2> QED
    BY <2>2, <2>3, SameBusy
<1>5. ASSUME UNCHANGED <<outbox, queue, job>>, pc[w] \notin {"idle", "acking"},
             NEW step \in Steps, pc' = [pc EXCEPT ![w] = step], faults' = faults
      PROVE  IsFiniteSet(Busy(o))' /\ Adds(o)
  <2>1. Pending(o)' + queue'[o] <= Pending(o) + queue[o] + (faults' - faults)
    BY <1>1, <1>5 DEF Pending
  <2>2. CASE job[w] = o /\ step = "acking"
    <3>1. w \in Busy(o) /\ Busy(o)' = Busy(o) \ {w}
      BY <1>5, <2>2 DEF Busy, TypeOK
    <3>2. Pending(o)' + queue'[o] <= Pending(o) + queue[o] + 1 + (faults' - faults)
      BY <1>1, <1>5 DEF Pending
    <3> QED
      BY <3>1, <3>2, OneLess
  <2>3. CASE job[w] # o \/ step # "acking"
    <3>1. Busy(o)' = Busy(o)
      BY <1>5, <2>3 DEF Busy, TypeOK
    <3> QED
      BY <2>1, <3>1, SameBusy
  <2> QED
    BY <2>2, <2>3
<1>6. Complete(w) \/ PutBack(w) \/ Fail(w) \/ WriteDeadLetter(w) =>
        /\ UNCHANGED <<outbox, queue, job>> /\ pc[w] \notin {"idle", "acking"}
        /\ faults' = faults /\ \E step \in Steps : pc' = [pc EXCEPT ![w] = step]
  BY DEF Complete, PutBack, Fail, WriteDeadLetter, Goto, Steps
<1>7. CASE EnqueueRetry(w)
  <2>1. /\ UNCHANGED <<outbox, faults, job>> /\ queue' = [queue EXCEPT ![job[w]] = @ + 1]
        /\ pc[w] = "retrying" /\ pc' = [pc EXCEPT ![w] = "acking"]
    BY <1>7 DEF EnqueueRetry, Goto
  <2>2. CASE job[w] = o
    <3>1. w \in Busy(o) /\ Busy(o)' = Busy(o) \ {w}
      BY <2>1, <2>2 DEF Busy, TypeOK
    <3>2. Pending(o)' + queue'[o] <= Pending(o) + queue[o] + 1 + (faults' - faults)
      BY <1>1, <2>1, <2>2 DEF Pending, TypeOK
    <3> QED
      BY <3>1, <3>2, OneLess
  <2>3. CASE job[w] # o
    <3>1. Busy(o)' = Busy(o)
      BY <2>1, <2>3 DEF Busy, TypeOK
    <3>2. Pending(o)' + queue'[o] <= Pending(o) + queue[o] + (faults' - faults)
      BY <1>1, <1>2, <2>1, <2>3 DEF Pending, TypeOK
    <3> QED
      BY <3>1, <3>2, SameBusy
  <2> QED
    BY <2>2, <2>3
<1>8. CASE Ack(w) \/ WorkerCrash(w) \/ WorkerError(w)
  <2>1. /\ UNCHANGED outbox /\ Stop(w) /\ pc[w] # "idle"
        /\ \/ queue' = queue /\ faults' \in {faults, faults + 1}
           \/ queue' = [queue EXCEPT ![job[w]] = @ + 1] /\ faults' = faults + 1
    BY <1>8 DEF Ack, WorkerCrash, WorkerError, Fault
  <2>2. Pending(o)' + queue'[o] <= Pending(o) + queue[o] + (faults' - faults)
    <3>1. \/ queue'[o] = queue[o] /\ faults' \in {faults, faults + 1}
          \/ queue'[o] \in {queue[o], queue[o] + 1} /\ faults' = faults + 1
      BY <1>2, <2>1 DEF TypeOK
    <3>2. Pending(o)' = Pending(o)
      BY <2>1 DEF Pending
    <3> QED
      BY <1>1, <3>1, <3>2
  <2>3. Busy(o)' = Busy(o) \ {w}
    BY <2>1, OrdersAssumption DEF Stop, Busy, TypeOK
  <2>4. CASE w \in Busy(o)
    <3>1. Pending(o)' + queue'[o] <= Pending(o) + queue[o] + 1 + (faults' - faults)
      <4>1. Pending(o)' \in {0, 1} /\ queue'[o] \in Nat /\ faults' \in Nat
        BY DEF Pending, TypeOK
      <4> QED
        BY <1>1, <2>2, <4>1
    <3> QED
      BY <2>3, <2>4, <3>1, OneLess
  <2>5. CASE w \notin Busy(o)
    BY <2>2, <2>3, <2>5, SameBusy
  <2> QED
    BY <2>4, <2>5
<1>9. CASE Redeliver(w)
  <2>1. /\ UNCHANGED <<outbox, pc, job>> /\ pc[w] # "idle" /\ faults' = faults + 1
        /\ queue' = [queue EXCEPT ![job[w]] = @ + 1]
    BY <1>9 DEF Redeliver, Fault, workerVars
  <2>2. Pending(o)' + queue'[o] <= Pending(o) + queue[o] + (faults' - faults)
    BY <1>1, <1>2, <2>1 DEF Pending, TypeOK
  <2>3. Busy(o)' = Busy(o)
    BY <2>1 DEF Busy
  <2> QED
    BY <2>2, <2>3, SameBusy
<1> QED
  BY <1>3, <1>4, <1>5, <1>6, <1>7, <1>8, <1>9 DEF WorkerStep, WorkerFault

\* Only a claimed order, which exists, gets a worker, and only an existing one a message.
LEMMA NoneInFlightStays ==
    ASSUME OwnInv, NoneInFlight, IdleHasNone, OwnInv', [Next]_vars
    PROVE  NoneInFlight' /\ IdleHasNone'
<1> USE DEF OwnInv, TypeInv
<1>1. ASSUME NEW o \in Orders, NEW b \in Baskets, NEW t \in Tokens, CreateOrder(o, b, t)
      PROVE  NoneInFlight' /\ IdleHasNone'
  <2>1. /\ status' = [status EXCEPT ![o] = "RESERVED"]
        /\ outbox' = [outbox EXCEPT ![o] = "PENDING"] /\ UNCHANGED <<queue, pc, job>>
    BY <1>1 DEF CreateOrder, workerVars
  <2> QED
    BY <2>1 DEF NoneInFlight, IdleHasNone, TypeOK
<1>2. ASSUME NEW o \in Orders, RelayStep(o) PROVE NoneInFlight' /\ IdleHasNone'
  <2>1. /\ outbox[o] # "NONE" /\ UNCHANGED <<status, pc, job>>
        /\ \A p \in Orders : p # o => outbox'[p] = outbox[p] /\ queue'[p] = queue[p]
    BY <1>2 DEF RelayStep, RelaySend, RelayCommit, TypeOK, orderVars, workerVars
  <2> QED
    BY <2>1 DEF NoneInFlight, IdleHasNone
<1>9. ASSUME NEW S \in SUBSET Orders, RelayInterrupted(S) PROVE NoneInFlight' /\ IdleHasNone'
  <2>1. /\ UNCHANGED <<status, queue, pc, job>>
        /\ \A p \in Orders : outbox[p] = "NONE" => outbox'[p] = "NONE"
    BY <1>9 DEF RelayInterrupted, orderVars, workerVars
  <2> QED
    BY <2>1 DEF NoneInFlight, IdleHasNone
<1>3. ASSUME NEW w \in Workers, NEW o \in Orders, Claim(w, o)
      PROVE  NoneInFlight' /\ IdleHasNone'
  <2>1. /\ status[o] = "RESERVED" /\ status' = [status EXCEPT ![o] = "PROCESSING"]
        /\ queue' = [queue EXCEPT ![o] = @ - 1] /\ UNCHANGED outbox
        /\ pc' = [pc EXCEPT ![w] = "charging"] /\ job' = [job EXCEPT ![w] = o]
    BY <1>3 DEF Claim, Deliver, Processable
  <2> QED
    BY <2>1 DEF NoneInFlight, IdleHasNone, TypeOK
<1>4. ASSUME NEW w \in Workers, NEW o \in Orders, Skip(w, o) \/ ClaimError(w, o)
      PROVE  NoneInFlight' /\ IdleHasNone'
  <2>1. /\ queue[o] > 0 /\ queue' = [queue EXCEPT ![o] = @ - 1]
        /\ UNCHANGED <<status, outbox, pc, job>>
    BY <1>4 DEF Skip, ClaimError, Deliver, orderVars, workerVars
  <2> QED
    BY <2>1 DEF NoneInFlight, IdleHasNone, TypeOK
<1>5. ASSUME NEW w \in Workers, pc[w] # "idle", UNCHANGED outbox,
             \/ status' = status
             \/ \E s \in Statuses : status' = [status EXCEPT ![job[w]] = s],
             queue' = queue \/ queue' = [queue EXCEPT ![job[w]] = @ + 1],
             \/ Stop(w) \/ UNCHANGED <<pc, job>>
             \/ \E step \in Steps \ {"idle"} : Goto(w, step)
      PROVE  NoneInFlight' /\ IdleHasNone'
  <2>1. job[w] \in Orders /\ status[job[w]] # "NONE"
    BY <1>5 DEF BusyHasJob, NoneInFlight
  <2>2. \A v \in Workers : job'[v] \in {job[v], NoOrder}
    BY <1>5 DEF Stop, Goto, TypeOK
  <2>3. \A o \in Orders : status'[o] = "NONE" => status[o] = "NONE" /\ o # job[w]
    BY <1>5, <2>1 DEF TypeOK, Statuses
  <2>4. \A o \in Orders : o # job[w] => queue'[o] = queue[o]
    BY <1>5, <2>1 DEF TypeOK
  <2>5. NoneInFlight'
    BY <1>5, <2>2, <2>3, <2>4, OrdersAssumption DEF NoneInFlight
  <2>6. IdleHasNone'
    BY <1>5 DEF IdleHasNone, Stop, Goto, TypeOK
  <2> QED
    BY <2>5, <2>6
<1>6. ASSUME NEW w \in Workers,
             \/ Complete(w) \/ PutBack(w) \/ Fail(w)
             \/ EnqueueRetry(w) \/ WriteDeadLetter(w) \/ Ack(w)
             \/ WorkerCrash(w) \/ Redeliver(w) \/ WorkerError(w)
      PROVE  NoneInFlight' /\ IdleHasNone'
  <2>1. pc[w] # "idle" /\ UNCHANGED outbox
    BY <1>6 DEF Complete, PutBack, Fail, EnqueueRetry, WriteDeadLetter, Ack, WorkerCrash,
                Redeliver, WorkerError
  <2>2. \/ status' = status
        \/ \E s \in Statuses : status' = [status EXCEPT ![job[w]] = s]
    BY <1>6 DEF Complete, PutBack, Fail, EnqueueRetry, WriteDeadLetter, Ack, WorkerCrash,
                Redeliver, WorkerError, orderVars, Statuses
  <2>3. queue' = queue \/ queue' = [queue EXCEPT ![job[w]] = @ + 1]
    BY <1>6 DEF Complete, PutBack, Fail, EnqueueRetry, WriteDeadLetter, Ack, WorkerCrash,
                Redeliver, WorkerError
  <2>4. \/ Stop(w) \/ UNCHANGED <<pc, job>>
        \/ \E step \in Steps \ {"idle"} : Goto(w, step)
    BY <1>6 DEF Complete, PutBack, Fail, EnqueueRetry, WriteDeadLetter, Ack, WorkerCrash,
                Redeliver, WorkerError, workerVars, Steps
  <2> QED
    BY <1>5, <2>1, <2>2, <2>3, <2>4
<1>7. CASE /\ UNCHANGED <<outbox, queue, pc, job>>
           /\ \A o \in Orders : status'[o] = "NONE" => status[o] = "NONE"
  BY <1>7 DEF NoneInFlight, IdleHasNone
<1>8. \/ UNCHANGED vars
      \/ \E o \in Orders : CancelOrder(o) \/ DeadlinePasses(o)
      \/ \E k \in Rows, d \in Deltas : AdjustStock(k, d)
      \/ Sweep
      => /\ UNCHANGED <<outbox, queue, pc, job>>
         /\ \A o \in Orders : status'[o] = "NONE" => status[o] = "NONE"
  BY DEF vars, CancelOrder, DeadlinePasses, AdjustStock, Sweep, ExpireReservations,
         orderVars, workerVars, TypeOK
<1> QED
  BY <1>1, <1>2, <1>3, <1>4, <1>6, <1>7, <1>8, <1>9 DEF Next, WorkerStep, WorkerFault

LEMMA NextMessageInv == OwnInv /\ OwnInv' /\ MessageInv /\ [Next]_vars => MessageInv'
<1> SUFFICES ASSUME OwnInv, OwnInv', MessageInv, [Next]_vars PROVE MessageInv'
  OBVIOUS
<1>1. NoneInFlight' /\ IdleHasNone'
  BY NoneInFlightStays DEF MessageInv
<1>2. TypeOK'
  BY DEF OwnInv, TypeInv
<1>3. ASSUME NEW o \in Orders PROVE IsFiniteSet(Busy(o))' /\ Adds(o)
  <2>1. CASE \E w \in Workers : WorkerStep(w) \/ WorkerFault(w)
    BY <1>2, <1>3, <2>1, WorkerAdds
  <2>2. ASSUME NEW p \in Orders,
               \/ \E b \in Baskets, t \in Tokens : CreateOrder(p, b, t)
               \/ CancelOrder(p) \/ DeadlinePasses(p) \/ RelayStep(p)
               \/ \E S \in SUBSET Orders : RelayInterrupted(S)
        PROVE  IsFiniteSet(Busy(o))' /\ Adds(o)
    BY <1>2, <1>3, <2>2, OutsideAdds
  <2>3. CASE \/ \E k \in Rows, d \in Deltas : AdjustStock(k, d)
             \/ \E S \in SUBSET Orders : RelayInterrupted(S)
             \/ Sweep \/ UNCHANGED vars
    BY <1>2, <1>3, <2>3, OutsideAdds DEF Sweep
  <2> QED
    BY <2>1, <2>2, <2>3 DEF Next
<1>4. ASSUME NEW o \in Orders PROVE InFlight(o)' <= 1 + faults'
  <2>1. faults \in Nat /\ faults' \in Nat /\ InFlight(o) \in Nat
    <3>1. IsFiniteSet(Busy(o))
      BY DEF MessageInv
    <3>2. TypeOK
      BY DEF OwnInv, TypeInv
    <3>3. /\ queue[o] \in Nat /\ Pending(o) \in {0, 1} /\ Cardinality(Busy(o)) \in Nat
          /\ InFlight(o) = Pending(o) + queue[o] + Cardinality(Busy(o))
      BY <3>1, <3>2, CountTypes
    <3>4. faults \in Nat /\ faults' \in Nat
      BY <1>2, <3>2 DEF TypeOK
    <3> QED
      BY <3>3, <3>4
  <2>2. InFlight(o)' \in Nat
    <3>1. Cardinality(Busy(o))' \in Nat
      BY <1>3, FS_CardinalityType
    <3> QED
      BY <1>2, <3>1 DEF InFlight, TypeOK
  <2>3. InFlight(o) <= 1 + faults
    BY DEF MessageInv, MessagesBounded
  <2>4. \/ InFlight(o)' <= InFlight(o) + (faults' - faults)
        \/ InFlight(o)' <= 1
    BY <1>3 DEF Adds
  <2> QED
    BY <2>1, <2>2, <2>3, <2>4
<1> QED
  BY <1>1, <1>3, <1>4 DEF MessageInv, MessagesBounded

\* However many workers there are, whatever is retried, redelivered or published again, an
\* order has one message, event or worker at work, and one more for each fault.
THEOREM MessagesDoNotMultiply == Spec => []MessagesBounded
<1>1. Init => MessageInv
  <2> SUFFICES ASSUME Init PROVE MessageInv
    OBVIOUS
  <2>1. \A o \in Orders : Busy(o) = {}
    BY OrdersAssumption DEF Init, Busy
  <2>2. \A o \in Orders : IsFiniteSet(Busy(o)) /\ Cardinality(Busy(o)) = 0
    BY <2>1, FS_EmptySet
  <2>3. NoneInFlight /\ IdleHasNone
    BY OrdersAssumption DEF Init, NoneInFlight, IdleHasNone
  <2>4. MessagesBounded
    BY <2>2 DEF Init, MessagesBounded, InFlight
  <2> QED
    BY <2>2, <2>3, <2>4 DEF MessageInv
<1>2. MessageInv => MessagesBounded
  BY DEF MessageInv
<1> QED
  BY <1>1, <1>2, NextMessageInv, OwnInvariant, PTL DEF Spec

-----------------------------------------------------------------------------
(* The contract with the client                                            *)

ContractInv == StockInv /\ LifeInv

\* Releasing ACTIVE reservations gives back exactly their units: the guard of the UPDATE
\* holds, as the reserved counter is exact.
LEMMA ReleaseGivesBack ==
    ASSUME ContractInv, NEW R \in SUBSET Having("ACTIVE"), Settle(R, "RELEASED"), Release(R)
    PROVE  Contract!GiveBack(R)
<1>1. \A k \in Rows : reserved[k] >= Qty(R, k)
  <2> TAKE k \in Rows
  <2>1. reserved[k] = Qty(Having("ACTIVE"), k) /\ Qty(R, k) <= Qty(Having("ACTIVE"), k)
    BY QtyDifference DEF ContractInv, StockInv, ReservedMatchesHolds
  <2>2. Qty(R, k) \in Nat /\ reserved[k] \in Nat
    BY UnitsFinite DEF ContractInv, StockInv, OwnInv, TypeInv, TypeOK
  <2> QED
    BY <2>1, <2>2
<1>2. available' = [k \in Rows |-> available[k] + Qty(R, k)]
  BY <1>1 DEF Release
<1>3. \A k \in Rows : Contract!Units(R, k) = Qty(R, k)
  BY DEF Contract!Units, Qty, Units, Contract!Cardinality, Cardinality
<1>4. Contract!Ends(R, "RELEASED")
  BY DEF Settle, Contract!Ends
<1> QED
  BY <1>2, <1>3, <1>4 DEF Contract!GiveBack

\* An order that is waiting or being paid is intact.
LEMMA OpenIsIntact ==
    ASSUME ContractInv, NEW o \in Orders, status[o] \in {"RESERVED", "PROCESSING"}
    PROVE  Contract!Intact(o)
<1>1. \A k \in Rows : ~due[o] /\ line[o][k] > 0 => resv[o][k] = "ACTIVE"
  BY DEF ContractInv, LifeInv, Promises, HeldUntilDeadline
<1> QED
  BY <1>1 DEF Contract!Intact, Contract!Granted, Contract!Held

LEMMA HeldIsActive ==
    ASSUME NEW o \in Orders
    PROVE  Contract!Held(o) = ActiveOf(o) /\ ActiveOf(o) \in SUBSET Having("ACTIVE")
  BY DEF Contract!Held, ActiveOf, Having

LEMMA StepKeepsContract ==
    ASSUME ContractInv, [Next]_vars
    PROVE  [Contract!Next]_(Contract!vars)
<1>1. CASE UNCHANGED <<status, line, resv, due, available>>
  BY <1>1 DEF Contract!vars
<1>2. ASSUME NEW o \in Orders, NEW b \in Baskets, NEW t \in Tokens, CreateOrder(o, b, t)
      PROVE  Contract!Next
  <2>1. \A k \in Rows : b[k] <= available[k]
    <3>1. \A k \in Rows : b[k] \in Int /\ available[k] \in Int
      BY BoundsAssumption DEF Baskets, ContractInv, StockInv, OwnInv, TypeInv, TypeOK
    <3> QED
      BY <1>2, <3>1 DEF CreateOrder, InStock
  <2>2. Contract!Place(o, b)
    BY <1>2, <2>1 DEF CreateOrder, Contract!Place
  <2> QED
    BY <2>2 DEF Contract!Next
<1>3. ASSUME NEW o \in Orders, CancelOrder(o) PROVE Contract!Next
  <2>1. Contract!GiveBack(Contract!Held(o))
    BY <1>3, HeldIsActive, ReleaseGivesBack DEF CancelOrder
  <2>2. Contract!CallOff(o, "RESERVED", "CANCELLED")
    BY <1>3, <2>1, OpenIsIntact DEF CancelOrder, Cancellable, Contract!CallOff
  <2> QED
    BY <2>2 DEF Contract!Next
<1>4. ASSUME NEW o \in Orders, DeadlinePasses(o) PROVE Contract!Next
  <2>1. Contract!FallsDue(o)
    BY <1>4 DEF DeadlinePasses, stockVars, Contract!FallsDue
  <2> QED
    BY <2>1 DEF Contract!Next
<1>5. ASSUME NEW k \in Rows, NEW d \in Deltas, AdjustStock(k, d) PROVE Contract!Next
  <2>1. Contract!Adjust(k, d)
    BY <1>5 DEF AdjustStock, orderVars, Contract!Adjust
  <2> QED
    BY <2>1 DEF Contract!Next
<1>6. ASSUME NEW w \in Workers, NEW o \in Orders, Claim(w, o) PROVE Contract!Next
  <2>1. Contract!Move(o, "RESERVED", "PROCESSING")
    BY <1>6, OpenIsIntact DEF Claim, Processable, stockVars, Contract!Move
  <2> QED
    BY <2>1 DEF Contract!Next
<1>7. ASSUME NEW w \in Workers, PutBack(w) PROVE Contract!Next
  <2>1. job[w] \in Orders /\ status[job[w]] = "PROCESSING"
    BY <1>7, Charged DEF PutBack, ContractInv
  <2>2. Contract!Move(job[w], "PROCESSING", "RESERVED")
    BY <1>7, <2>1, OpenIsIntact DEF PutBack, stockVars, Contract!Move
  <2> QED
    BY <2>1, <2>2 DEF Contract!Next
<1>8. ASSUME NEW w \in Workers, Complete(w) PROVE Contract!Next
  <2>1. job[w] \in Orders /\ status[job[w]] = "PROCESSING"
    BY <1>8, Charged DEF Complete, ContractInv
  <2>2. Contract!Ends(Contract!Held(job[w]), "CONSUMED")
    BY <1>8, <2>1, HeldIsActive DEF Complete, Settle, Contract!Ends
  <2>3. Contract!Sell(job[w])
    BY <1>8, <2>1, <2>2, OpenIsIntact DEF Complete, Consume, Contract!Sell
  <2> QED
    BY <2>1, <2>3 DEF Contract!Next
<1>9. ASSUME NEW w \in Workers, Fail(w) PROVE Contract!Next
  <2>1. job[w] \in Orders /\ status[job[w]] = "PROCESSING"
    BY <1>9, Charged DEF Fail, ContractInv
  <2>2. Contract!GiveBack(Contract!Held(job[w]))
    BY <1>9, <2>1, HeldIsActive, ReleaseGivesBack DEF Fail
  <2>3. Contract!CallOff(job[w], "PROCESSING", "FAILED")
    BY <1>9, <2>1, <2>2, OpenIsIntact DEF Fail, Contract!CallOff
  <2> QED
    BY <2>1, <2>3 DEF Contract!Next
<1>10. ASSUME NEW R \in Batches, ExpireReservations(R) PROVE Contract!Next
  <2>1. R \in SUBSET Contract!Overdue /\ R # {}
    BY DEF Batches, Claimable, Contract!Overdue
  <2>2. R \in SUBSET Having("ACTIVE")
    BY DEF Batches, Claimable, Having
  <2>3. Contract!GiveBack(R)
    BY <1>10, <2>2, ReleaseGivesBack DEF ExpireReservations
  <2>4. Contract!Expire(R)
    BY <1>10, <2>1, <2>3 DEF ExpireReservations, Expirable, Contract!Expire
  <2> QED
    BY <2>1, <2>4 DEF Contract!Next
<1>11. \/ UNCHANGED <<status, line, resv, due, available>>
       \/ \E o \in Orders, b \in Baskets, t \in Tokens : CreateOrder(o, b, t)
       \/ \E o \in Orders : CancelOrder(o) \/ DeadlinePasses(o)
       \/ \E k \in Rows, d \in Deltas : AdjustStock(k, d)
       \/ \E w \in Workers, o \in Orders : Claim(w, o)
       \/ \E w \in Workers : PutBack(w) \/ Complete(w) \/ Fail(w)
       \/ \E R \in Batches : ExpireReservations(R)
  BY DEF Next, vars, RelayStep, RelaySend, RelayCommit,
         RelayInterrupted, WorkerStep, Skip, EnqueueRetry,
         WriteDeadLetter, Ack, WorkerFault, WorkerCrash, Redeliver, WorkerError, ClaimError,
         Sweep, stockVars, orderVars
<1> QED
  BY <1>1, <1>2, <1>3, <1>4, <1>5, <1>6, <1>7, <1>8, <1>9, <1>10, <1>11

\* The service implements OrderContract: however messages are lost or repeated, workers die
\* and the sweep cuts its batches, orders and stock move as a client was promised.
THEOREM ContractIsKept == Spec => KeepsContract
<1>1. Init => Contract!Init
  BY DEF Init, Contract!Init
<1>2. Spec => []ContractInv
  <2>1. StockInv /\ LifeInv => ContractInv
    BY DEF ContractInv
  <2> QED
    BY <2>1, StockInvariant, LifeInvariant, PTL
<1>3. ContractInv /\ [Next]_vars => [Contract!Next]_(Contract!vars)
  BY StepKeepsContract
<1> QED
  BY <1>1, <1>2, <1>3, PTL DEF Spec, KeepsContract, Contract!Spec

=============================================================================
