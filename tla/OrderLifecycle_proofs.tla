----------------------- MODULE OrderLifecycle_proofs ------------------------
(***************************************************************************)
(* Proofs about OrderLifecycle, for any orders, rows, workers, bounds and  *)
(* kinds of fault.                                                         *)
(***************************************************************************)
EXTENDS OrderLifecycle, FiniteSetTheorems, TLAPS

-----------------------------------------------------------------------------
(* Counting units                                                          *)

\* A set of units is finite, so that its quantity is a number.
LEMMA UnitsFinite ==
    ASSUME NEW R, NEW k
    PROVE  IsFiniteSet(Units(R, k)) /\ Qty(R, k) \in Nat
<1>1. IsFiniteSet(1 .. MaxQty)
  BY FS_Interval, BoundsAssumption
<1>2. IsFiniteSet(Orders \X (1 .. MaxQty))
  BY <1>1, FS_Product, OrdersAssumption
<1>3. Units(R, k) \in SUBSET (Orders \X (1 .. MaxQty))
  BY DEF Units
<1>4. IsFiniteSet(Units(R, k))
  BY <1>2, <1>3, FS_Subset
<1> QED
  BY <1>4, FS_CardinalityType DEF Qty

-----------------------------------------------------------------------------
(* Type correctness                                                        *)

\* A worker that is not idle has an order: the part of the invariant the types need.
BusyHasJob == \A w \in Workers : pc[w] # "idle" => job[w] \in Orders

TypeInv == TypeOK /\ BusyHasJob

LEMMA InitTypeInv == Init => TypeInv
<1> SUFFICES ASSUME Init PROVE TypeInv
  OBVIOUS
<1>1. TypeOK
  BY BoundsAssumption DEF Init, TypeOK, Tokens, Steps
<1>2. BusyHasJob
  BY DEF Init, BusyHasJob
<1> QED
  BY <1>1, <1>2 DEF TypeInv

LEMMA SettleType ==
    ASSUME TypeOK, NEW R, NEW to \in {"RELEASED", "CONSUMED"}, Settle(R, to)
    PROVE  resv' \in [Orders -> [Rows -> {"NONE", "ACTIVE", "RELEASED", "CONSUMED"}]]
  BY DEF TypeOK, Settle

LEMMA ReleaseType ==
    ASSUME TypeOK, NEW R, Release(R)
    PROVE  available' \in [Rows -> Nat] /\ reserved' \in [Rows -> Nat]
<1>1. \A k \in Rows : Qty(R, k) \in Nat
  BY UnitsFinite
<1> QED
  BY <1>1 DEF TypeOK, Release

LEMMA ConsumeType ==
    ASSUME TypeOK, NEW R, Consume(R)
    PROVE  available' \in [Rows -> Nat] /\ reserved' \in [Rows -> Nat]
<1>1. \A k \in Rows : Qty(R, k) \in Nat
  BY UnitsFinite
<1> QED
  BY <1>1 DEF TypeOK, Consume

LEMMA CreateOrderType ==
    ASSUME TypeInv, NEW o \in Orders, NEW b \in Baskets, NEW t \in Tokens,
           CreateOrder(o, b, t)
    PROVE  TypeInv'
<1> USE DEF TypeInv
<1>1. b \in [Rows -> 0 .. MaxQty] /\ 0 .. MaxQty \subseteq Nat
  BY BoundsAssumption DEF Baskets
<1>2. available' \in [Rows -> Nat] /\ reserved' \in [Rows -> Nat]
  BY <1>1 DEF CreateOrder, TypeOK, InStock
<1>3. line' \in [Orders -> [Rows -> 0 .. MaxQty]]
  BY <1>1 DEF CreateOrder, TypeOK
<1>4. resv' \in [Orders -> [Rows -> {"NONE", "ACTIVE", "RELEASED", "CONSUMED"}]]
  BY <1>1 DEF CreateOrder, TypeOK
<1>5. status' \in [Orders -> Statuses \cup {"NONE"}]
  BY DEF CreateOrder, TypeOK, Statuses
<1>6. TypeOK'
  BY <1>2, <1>3, <1>4, <1>5 DEF CreateOrder, TypeOK, workerVars
<1>7. BusyHasJob'
  BY DEF CreateOrder, BusyHasJob, workerVars
<1> QED
  BY <1>6, <1>7

LEMMA ApiType ==
    ASSUME TypeInv, NEW o \in Orders, CancelOrder(o) \/ DeadlinePasses(o)
    PROVE  TypeInv'
<1> USE DEF TypeInv
<1>1. CASE CancelOrder(o)
  <2>1. available' \in [Rows -> Nat] /\ reserved' \in [Rows -> Nat]
    BY <1>1, ReleaseType DEF CancelOrder
  <2>2. resv' \in [Orders -> [Rows -> {"NONE", "ACTIVE", "RELEASED", "CONSUMED"}]]
    BY <1>1, SettleType DEF CancelOrder
  <2>3. status' \in [Orders -> Statuses \cup {"NONE"}]
    BY <1>1 DEF CancelOrder, TypeOK, Statuses
  <2> QED
    BY <1>1, <2>1, <2>2, <2>3 DEF CancelOrder, TypeOK, BusyHasJob, workerVars
<1>2. CASE DeadlinePasses(o)
  BY <1>2 DEF DeadlinePasses, TypeOK, BusyHasJob, workerVars, stockVars
<1> QED
  BY <1>1, <1>2

LEMMA RelayType ==
    ASSUME TypeInv,
           \/ \E o \in Orders : RelayStep(o)
           \/ \E S \in SUBSET Orders : RelayInterrupted(S)
    PROVE  TypeInv'
<1>1. ASSUME NEW o \in Orders, RelayStep(o) PROVE TypeInv'
  <2>1. CASE RelaySend(o)
    BY <2>1 DEF RelaySend, TypeInv, TypeOK, BusyHasJob, stockVars, orderVars, workerVars
  <2>2. CASE RelayCommit(o)
    BY <2>2 DEF RelayCommit, TypeInv, TypeOK, BusyHasJob, stockVars, orderVars, workerVars
  <2> QED
    BY <1>1, <2>1, <2>2 DEF RelayStep
<1>2. ASSUME NEW S \in SUBSET Orders, RelayInterrupted(S) PROVE TypeInv'
  BY <1>2 DEF RelayInterrupted, Fault, TypeInv, TypeOK, BusyHasJob,
              stockVars, orderVars, workerVars
<1> QED
  BY <1>1, <1>2

LEMMA AdjustType ==
    ASSUME TypeInv, NEW k \in Rows, NEW d \in Deltas, AdjustStock(k, d)
    PROVE  TypeInv'
<1>1. d \in Int
  BY BoundsAssumption
<1> QED
  BY <1>1 DEF TypeInv, AdjustStock, TypeOK, BusyHasJob, orderVars, workerVars

LEMMA WorkerStepType ==
    ASSUME TypeInv, NEW w \in Workers, WorkerStep(w)
    PROVE  TypeInv'
<1> USE DEF TypeInv
<1>1. ASSUME NEW o \in Orders, Claim(w, o) PROVE TypeInv'
  BY <1>1 DEF Claim, Deliver, TypeOK, BusyHasJob, Statuses, Steps, stockVars
<1>2. ASSUME NEW o \in Orders, Skip(w, o) PROVE TypeInv'
  BY <1>2 DEF Skip, Deliver, TypeOK, BusyHasJob, stockVars, orderVars, workerVars
<1>3. CASE Complete(w)
  <2>1. available' \in [Rows -> Nat] /\ reserved' \in [Rows -> Nat]
    BY <1>3, ConsumeType DEF Complete
  <2>2. resv' \in [Orders -> [Rows -> {"NONE", "ACTIVE", "RELEASED", "CONSUMED"}]]
    BY <1>3, SettleType DEF Complete
  <2> QED
    BY <1>3, <2>1, <2>2 DEF Complete, Goto, TypeOK, BusyHasJob, Statuses, Steps
<1>4. CASE PutBack(w)
  BY <1>4 DEF PutBack, Goto, TypeOK, BusyHasJob, Statuses, Steps, stockVars
<1>5. CASE Fail(w)
  <2>1. available' \in [Rows -> Nat] /\ reserved' \in [Rows -> Nat]
    BY <1>5, ReleaseType DEF Fail
  <2>2. resv' \in [Orders -> [Rows -> {"NONE", "ACTIVE", "RELEASED", "CONSUMED"}]]
    BY <1>5, SettleType DEF Fail
  <2> QED
    BY <1>5, <2>1, <2>2 DEF Fail, Goto, TypeOK, BusyHasJob, Statuses, Steps
<1>6. CASE EnqueueRetry(w)
  BY <1>6 DEF EnqueueRetry, Goto, TypeOK, BusyHasJob, Steps, stockVars, orderVars
<1>7. CASE WriteDeadLetter(w)
  BY <1>7 DEF WriteDeadLetter, Goto, TypeOK, BusyHasJob, Steps, stockVars
<1>8. CASE Ack(w)
  BY <1>8 DEF Ack, Stop, TypeOK, BusyHasJob, Steps, stockVars, orderVars
<1> QED
  BY <1>1, <1>2, <1>3, <1>4, <1>5, <1>6, <1>7, <1>8 DEF WorkerStep

LEMMA WorkerFaultType ==
    ASSUME TypeInv, NEW w \in Workers, WorkerFault(w)
    PROVE  TypeInv'
<1> USE DEF TypeInv, Fault
<1>1. CASE WorkerCrash(w)
  BY <1>1 DEF WorkerCrash, Stop, TypeOK, BusyHasJob, Steps, stockVars, orderVars
<1>2. CASE Redeliver(w)
  BY <1>2 DEF Redeliver, TypeOK, BusyHasJob, stockVars, orderVars, workerVars
<1>3. CASE WorkerError(w)
  BY <1>3 DEF WorkerError, Stop, TypeOK, BusyHasJob, Steps, stockVars, orderVars
<1>4. ASSUME NEW o \in Orders, ClaimError(w, o) PROVE TypeInv'
  BY <1>4 DEF ClaimError, Deliver, TypeOK, BusyHasJob, stockVars, orderVars, workerVars
<1> QED
  BY <1>1, <1>2, <1>3, <1>4 DEF WorkerFault

LEMMA SweepType ==
    ASSUME TypeInv, Sweep
    PROVE  TypeInv'
<1>1. PICK R \in Batches : ExpireReservations(R)
  BY DEF Sweep
<1>2. available' \in [Rows -> Nat] /\ reserved' \in [Rows -> Nat]
  BY <1>1, ReleaseType DEF ExpireReservations, TypeInv
<1>3. resv' \in [Orders -> [Rows -> {"NONE", "ACTIVE", "RELEASED", "CONSUMED"}]]
  BY <1>1, SettleType DEF ExpireReservations, TypeInv
<1>4. status' \in [Orders -> Statuses \cup {"NONE"}]
  BY <1>1 DEF ExpireReservations, TypeInv, TypeOK, Statuses
<1> QED
  BY <1>1, <1>2, <1>3, <1>4 DEF ExpireReservations, TypeInv, TypeOK, BusyHasJob, workerVars

LEMMA NextTypeInv == TypeInv /\ [Next]_vars => TypeInv'
<1> SUFFICES ASSUME TypeInv, [Next]_vars PROVE TypeInv'
  OBVIOUS
<1>1. CASE UNCHANGED vars
  BY <1>1 DEF TypeInv, TypeOK, BusyHasJob, vars, stockVars, orderVars, workerVars
<1> QED
  BY <1>1, CreateOrderType, ApiType, RelayType, AdjustType, WorkerStepType,
     WorkerFaultType, SweepType DEF Next

\* Type correctness: every variable of the tables, the broker and the workers keeps its
\* type; the counters available_quantity and reserved_quantity stay non-negative, as the
\* CHECK constraints of the table demand, so that no transaction fails on them.
THEOREM TypeCorrect == Spec => []TypeOK
<1>1. TypeInv => TypeOK
  BY DEF TypeInv
<1> QED
  BY <1>1, InitTypeInv, NextTypeInv, PTL DEF Spec

\* The same with BusyHasJob, for the proofs that build on it.
LEMMA TypeInvariant == Spec => []TypeInv
  BY InitTypeInv, NextTypeInv, PTL DEF Spec

-----------------------------------------------------------------------------
(* Who may change an order                                                 *)

\* An id that is not an order yet has no attempts, no lines and no reservations.
Unborn ==
    \A o \in Orders : status[o] = "NONE" =>
        /\ attempts[o] = 0
        /\ ~due[o]
        /\ \A k \in Rows : line[o][k] = 0 /\ resv[o][k] = "NONE"

OwnInv == TypeInv /\ Unborn /\ ChargingOwnsOrder

LEMMA InitOwnInv == Init => OwnInv
<1> SUFFICES ASSUME Init PROVE OwnInv
  OBVIOUS
<1>1. Unborn
  BY DEF Init, Unborn
<1>2. ChargingOwnsOrder
  BY DEF Init, ChargingOwnsOrder
<1> QED
  BY <1>1, <1>2, InitTypeInv DEF OwnInv

\* The actions of the API and of time: they touch no order a worker charges.
LEMMA ApiOwn ==
    ASSUME OwnInv, NEW o \in Orders,
           \/ \E b \in Baskets, t \in Tokens : CreateOrder(o, b, t)
           \/ CancelOrder(o) \/ DeadlinePasses(o)
    PROVE  Unborn' /\ ChargingOwnsOrder'
<1> USE DEF OwnInv, TypeInv
<1>1. ASSUME NEW b \in Baskets, NEW t \in Tokens, CreateOrder(o, b, t)
      PROVE  Unborn' /\ ChargingOwnsOrder'
  <2>1. Unborn'
    BY <1>1 DEF CreateOrder, Unborn, TypeOK
  <2>2. ChargingOwnsOrder'
    BY <1>1 DEF CreateOrder, ChargingOwnsOrder, TypeOK, BusyHasJob, workerVars
  <2> QED
    BY <2>1, <2>2
<1>2. CASE CancelOrder(o)
  <2>1. Unborn'
    BY <1>2 DEF CancelOrder, Cancellable, Settle, ActiveOf, Unborn, TypeOK
  <2>2. ChargingOwnsOrder'
    BY <1>2 DEF CancelOrder, Cancellable, ChargingOwnsOrder, TypeOK, BusyHasJob, workerVars
  <2> QED
    BY <2>1, <2>2
<1>3. CASE DeadlinePasses(o)
  <2>1. Unborn'
    BY <1>3 DEF DeadlinePasses, Unborn, TypeOK
  <2>2. ChargingOwnsOrder'
    BY <1>3 DEF DeadlinePasses, ChargingOwnsOrder, workerVars
  <2> QED
    BY <2>1, <2>2
<1> QED
  BY <1>1, <1>2, <1>3

LEMMA SweepOwn ==
    ASSUME OwnInv, Sweep
    PROVE  Unborn' /\ ChargingOwnsOrder'
<1> USE DEF OwnInv, TypeInv
<1>1. PICK R \in Batches : ExpireReservations(R)
  BY DEF Sweep
<1>2. \A o \in Orders, k \in Rows : <<o, k>> \in R => resv[o][k] = "ACTIVE"
  BY DEF Batches, Claimable
<1>3. Unborn'
  BY <1>1, <1>2 DEF ExpireReservations, Settle, Unborn, TypeOK
<1>4. ChargingOwnsOrder'
  BY <1>1 DEF ExpireReservations, Expirable, ChargingOwnsOrder, TypeOK, BusyHasJob, workerVars
<1> QED
  BY <1>3, <1>4

\* The actions of a worker: the order it charges is its own to settle.
LEMMA WorkerOwn ==
    ASSUME OwnInv, NEW w \in Workers, WorkerStep(w)
    PROVE  Unborn' /\ ChargingOwnsOrder'
<1> USE DEF OwnInv, TypeInv
<1>1. ASSUME NEW o \in Orders, Claim(w, o) PROVE Unborn' /\ ChargingOwnsOrder'
  <2>1. Unborn'
    BY <1>1 DEF Claim, Processable, Unborn, TypeOK
  <2>2. ChargingOwnsOrder'
    BY <1>1 DEF Claim, Deliver, Processable, ChargingOwnsOrder, TypeOK, BusyHasJob
  <2> QED
    BY <2>1, <2>2
<1>2. ASSUME NEW o \in Orders, Skip(w, o) PROVE Unborn' /\ ChargingOwnsOrder'
  BY <1>2 DEF Skip, Unborn, ChargingOwnsOrder, orderVars, workerVars
<1>3. CASE Complete(w)
  <2>1. Unborn'
    BY <1>3 DEF Complete, Settle, ActiveOf, Unborn, TypeOK, BusyHasJob
  <2>2. ChargingOwnsOrder'
    BY <1>3 DEF Complete, Goto, ChargingOwnsOrder, TypeOK, BusyHasJob
  <2> QED
    BY <2>1, <2>2
<1>4. CASE PutBack(w)
  <2>1. Unborn'
    BY <1>4 DEF PutBack, Unborn, TypeOK, BusyHasJob, stockVars
  <2>2. ChargingOwnsOrder'
    BY <1>4 DEF PutBack, Goto, ChargingOwnsOrder, TypeOK, BusyHasJob
  <2> QED
    BY <2>1, <2>2
<1>5. CASE Fail(w)
  <2>1. Unborn'
    BY <1>5 DEF Fail, Settle, ActiveOf, Unborn, TypeOK, BusyHasJob
  <2>2. ChargingOwnsOrder'
    BY <1>5 DEF Fail, Goto, ChargingOwnsOrder, TypeOK, BusyHasJob
  <2> QED
    BY <2>1, <2>2
<1>6. CASE EnqueueRetry(w) \/ WriteDeadLetter(w) \/ Ack(w)
  <2>1. UNCHANGED <<status, attempts, line, resv, due>>
    BY <1>6 DEF EnqueueRetry, WriteDeadLetter, Ack, orderVars
  <2>2. \A v \in Workers : pc'[v] = "charging" =>
            pc[v] = "charging" /\ job'[v] = job[v] /\ attempt'[v] = attempt[v]
    BY <1>6 DEF EnqueueRetry, WriteDeadLetter, Ack, Goto, Stop, TypeOK
  <2>3. Unborn'
    BY <2>1 DEF Unborn
  <2>4. ChargingOwnsOrder'
    BY <2>1, <2>2 DEF ChargingOwnsOrder
  <2> QED
    BY <2>3, <2>4
<1> QED
  BY <1>1, <1>2, <1>3, <1>4, <1>5, <1>6 DEF WorkerStep

LEMMA WorkerFaultOwn ==
    ASSUME OwnInv, NEW w \in Workers, WorkerFault(w)
    PROVE  Unborn' /\ ChargingOwnsOrder'
<1> USE DEF OwnInv, TypeInv
<1>1. UNCHANGED orderVars
  BY DEF WorkerFault, WorkerCrash, Redeliver, WorkerError, ClaimError
<1>2. \A v \in Workers : pc'[v] = "charging" =>
          pc[v] = "charging" /\ job'[v] = job[v] /\ attempt'[v] = attempt[v]
  BY DEF WorkerFault, WorkerCrash, Redeliver, WorkerError, ClaimError, Stop, TypeOK, workerVars
<1> QED
  BY <1>1, <1>2 DEF Unborn, ChargingOwnsOrder, orderVars

LEMMA NextOwnInv == OwnInv /\ [Next]_vars => OwnInv'
<1> SUFFICES ASSUME OwnInv, [Next]_vars PROVE OwnInv'
  OBVIOUS
<1>1. TypeInv'
  BY NextTypeInv DEF OwnInv
<1>2. CASE \/ UNCHANGED vars
           \/ \E o \in Orders : RelayStep(o)
           \/ \E S \in SUBSET Orders : RelayInterrupted(S)
           \/ \E k \in Rows, d \in Deltas : AdjustStock(k, d)
  <2>1. UNCHANGED <<orderVars, workerVars>>
    BY <1>2 DEF vars, RelayStep, RelaySend, RelayCommit, RelayInterrupted, AdjustStock
  <2>2. Unborn'
    BY <2>1 DEF OwnInv, Unborn, orderVars
  <2>3. ChargingOwnsOrder'
    BY <2>1 DEF OwnInv, ChargingOwnsOrder, orderVars, workerVars
  <2> QED
    BY <1>1, <2>2, <2>3 DEF OwnInv
<1>3. Unborn' /\ ChargingOwnsOrder'
  BY <1>2, ApiOwn, SweepOwn, WorkerOwn, WorkerFaultOwn DEF Next, OwnInv
<1> QED
  BY <1>1, <1>3 DEF OwnInv

LEMMA OwnInvariant == Spec => []OwnInv
  BY InitOwnInv, NextOwnInv, PTL DEF Spec

\* While a worker charges an order the order is PROCESSING, at the attempt the worker
\* remembers, and no other worker charges it, whatever is duplicated or redelivered: the
\* claim of order_processor.py that "only this worker acts on PROCESSING orders".
THEOREM ChargingIsExclusive == Spec => []ChargingOwnsOrder
<1>1. OwnInv => ChargingOwnsOrder
  BY DEF OwnInv
<1> QED
  BY <1>1, OwnInvariant, PTL

-----------------------------------------------------------------------------
(* What a step may never do                                                *)

LEMMA TerminalStep ==
    ASSUME OwnInv, [Next]_vars, NEW o \in Orders, status[o] \in Terminal
    PROVE  status'[o] = status[o]
<1> USE DEF OwnInv, TypeInv
<1>1. CASE UNCHANGED status
  BY <1>1
<1>2. ASSUME NEW p \in Orders, NEW b \in Baskets, NEW t \in Tokens, CreateOrder(p, b, t)
      PROVE  status'[o] = status[o]
  BY <1>2 DEF CreateOrder, Terminal, TypeOK
<1>3. ASSUME NEW p \in Orders, CancelOrder(p) PROVE status'[o] = status[o]
  BY <1>3 DEF CancelOrder, Cancellable, Terminal, TypeOK
<1>4. ASSUME NEW R \in Batches, ExpireReservations(R) PROVE status'[o] = status[o]
  BY <1>4 DEF ExpireReservations, Expirable, Terminal, TypeOK
<1>5. ASSUME NEW w \in Workers, Complete(w) \/ Fail(w) \/ PutBack(w) PROVE status'[o] = status[o]
  <2>1. job[w] \in Orders /\ status[job[w]] = "PROCESSING"
    BY <1>5 DEF Complete, Fail, PutBack, ChargingOwnsOrder, BusyHasJob
  <2>2. \E s \in Statuses : status' = [status EXCEPT ![job[w]] = s]
    BY <1>5 DEF Complete, Fail, PutBack, Statuses
  <2> QED
    BY <2>1, <2>2 DEF Terminal, TypeOK
<1>6. ASSUME NEW w \in Workers, NEW p \in Orders, Claim(w, p) PROVE status'[o] = status[o]
  BY <1>6 DEF Claim, Processable, Terminal, TypeOK
<1>7. \/ UNCHANGED status
      \/ \E p \in Orders, b \in Baskets, t \in Tokens : CreateOrder(p, b, t)
      \/ \E p \in Orders : CancelOrder(p)
      \/ \E R \in Batches : ExpireReservations(R)
      \/ \E w \in Workers : Complete(w) \/ Fail(w) \/ PutBack(w)
      \/ \E w \in Workers, p \in Orders : Claim(w, p)
  BY DEF Next, vars, DeadlinePasses, RelayStep, RelaySend, RelayCommit, RelayInterrupted, AdjustStock,
         WorkerStep, Skip, EnqueueRetry, WriteDeadLetter, Ack, WorkerFault, WorkerCrash,
         Redeliver, WorkerError, ClaimError, Sweep, orderVars
<1> QED
  BY <1>1, <1>2, <1>3, <1>4, <1>5, <1>6, <1>7

\* enums.py: once terminal, an order never transitions again -- although the second
\* transaction of the worker overwrites the status it finds without looking at it.
THEOREM TerminalStays == Spec => TerminalIsFinal
<1>1. OwnInv /\ [Next]_vars =>
        [\A o \in Orders : status[o] \in Terminal => status'[o] = status[o]]_vars
  BY TerminalStep
<1> QED
  BY <1>1, OwnInvariant, PTL DEF Spec, TerminalIsFinal

-----------------------------------------------------------------------------
(* Quantities of sets of reservations                                      *)

\* Taking reservations out of a set takes their quantity out of its quantity.
LEMMA QtyDifference ==
    ASSUME NEW k, NEW S, NEW R \in SUBSET S
    PROVE  Qty(S \ R, k) = Qty(S, k) - Qty(R, k) /\ Qty(R, k) <= Qty(S, k)
<1>1. Units(S \ R, k) = Units(S, k) \ Units(R, k)
  BY DEF Units
<1>2. Units(S, k) \cap Units(R, k) = Units(R, k) /\ Units(R, k) \in SUBSET Units(S, k)
  BY DEF Units
<1>3. IsFiniteSet(Units(S, k))
  BY UnitsFinite
<1>4. Cardinality(Units(S, k) \ Units(R, k)) = Cardinality(Units(S, k)) - Cardinality(Units(R, k))
  BY <1>2, <1>3, FS_Difference
<1>5. Cardinality(Units(R, k)) <= Cardinality(Units(S, k))
  BY <1>2, <1>3, FS_Subset
<1> QED
  BY <1>1, <1>4, <1>5 DEF Qty

\* Adding other reservations adds their quantity.
LEMMA QtyUnion ==
    ASSUME NEW k, NEW S, NEW R, S \cap R = {}
    PROVE  Qty(S \cup R, k) = Qty(S, k) + Qty(R, k)
<1>1. Units(S \cup R, k) = Units(S, k) \cup Units(R, k)
  BY DEF Units
<1>2. Units(S, k) \cap Units(R, k) = {}
  BY DEF Units
<1>3. IsFiniteSet(Units(S, k)) /\ IsFiniteSet(Units(R, k))
  BY UnitsFinite
<1>4. Cardinality(Units(S, k) \cup Units(R, k))
        = Cardinality(Units(S, k)) + Cardinality(Units(R, k)) - Cardinality({})
  <2>1. Cardinality(Units(S, k) \cup Units(R, k))
          = Cardinality(Units(S, k)) + Cardinality(Units(R, k))
              - Cardinality(Units(S, k) \cap Units(R, k))
    BY <1>3, FS_Union, Zenon
  <2> QED
    BY <1>2, <2>1, Zenon
<1>5. Qty(S, k) \in Nat /\ Qty(R, k) \in Nat
  BY UnitsFinite
<1>6. Cardinality({}) = 0
  BY FS_EmptySet, Zenon
<1>7. Qty(S \cup R, k) = Qty(S, k) + Qty(R, k) - 0
  BY <1>1, <1>4, <1>6, Zenon DEF Qty
<1> QED
  BY <1>5, <1>7

\* n units of one order are n.
LEMMA OrderUnits ==
    ASSUME NEW o, NEW n \in Nat
    PROVE  IsFiniteSet({o} \X (1 .. n)) /\ Cardinality({o} \X (1 .. n)) = n
<1>1. IsFiniteSet({o}) /\ Cardinality({o}) = 1
  BY FS_Singleton
<1>2. IsFiniteSet(1 .. n) /\ Cardinality(1 .. n) = n
  BY FS_Interval
<1>3. /\ IsFiniteSet({o} \X (1 .. n))
      /\ Cardinality({o} \X (1 .. n)) = Cardinality({o}) * Cardinality(1 .. n)
  BY <1>1, <1>2, FS_Product, Zenon
<1>4. Cardinality({o} \X (1 .. n)) = 1 * n
  BY <1>1, <1>2, <1>3, Zenon
<1> QED
  BY <1>3, <1>4

\* Settling ACTIVE reservations takes them out of the ACTIVE ones, and adds them to the
\* CONSUMED ones if that is how they end.
LEMMA SettleHaving ==
    ASSUME TypeOK, NEW R \in SUBSET Having("ACTIVE"), NEW to \in {"RELEASED", "CONSUMED"},
           Settle(R, to)
    PROVE  /\ Having("ACTIVE")' = Having("ACTIVE") \ R
           /\ Having("CONSUMED")' = Having("CONSUMED") \cup (IF to = "CONSUMED" THEN R ELSE {})
<1>1. \A r \in Orders \X Rows :
         resv'[r[1]][r[2]] = IF r \in R THEN to ELSE resv[r[1]][r[2]]
  BY DEF Settle
<1>2. \A r \in R : r \in Orders \X Rows /\ resv[r[1]][r[2]] = "ACTIVE"
  BY DEF Having
<1> QED
  BY <1>1, <1>2 DEF Having

LEMMA SameLines ==
    ASSUME UNCHANGED line, NEW s, NEW S, Having(s)' = S, NEW k
    PROVE  Qty(Having(s), k)' = Qty(S, k)
  BY DEF Qty, Units

-----------------------------------------------------------------------------
(* The counters of the inventory rows: they agree with the reservations,   *)
(* and no unit is lost or made up                                          *)

StockInv == OwnInv /\ ReservedMatchesHolds /\ StockConserved

StockKept == ReservedMatchesHolds' /\ StockConserved'

LEMMA InitStockInv == Init => StockInv
<1> SUFFICES ASSUME Init PROVE StockInv
  OBVIOUS
<1>1. \A k \in Rows, s \in {"ACTIVE", "CONSUMED"} : Units(Having(s), k) = {}
  BY DEF Init, Units, Having
<1>2. \A k \in Rows, s \in {"ACTIVE", "CONSUMED"} : Qty(Having(s), k) = 0
  BY <1>1, FS_EmptySet DEF Qty
<1> QED
  BY <1>2, InitOwnInv DEF Init, StockInv, ReservedMatchesHolds, StockConserved

\* Releasing ACTIVE reservations moves their units from reserved to available. The guard
\* reserved_quantity >= quantity of the UPDATE, whose result nobody looks at, never fails.
LEMMA ReleaseKeeps ==
    ASSUME StockInv, NEW R \in SUBSET Having("ACTIVE"), Settle(R, "RELEASED"), Release(R),
           UNCHANGED <<line, stocked>>
    PROVE  StockKept
<1>1. TypeOK
  BY DEF StockInv, OwnInv, TypeInv
<1>2. Having("ACTIVE")' = Having("ACTIVE") \ R /\ Having("CONSUMED")' = Having("CONSUMED")
  BY <1>1, SettleHaving
<1> SUFFICES ASSUME NEW k \in Rows
             PROVE  /\ reserved'[k] = Qty(Having("ACTIVE"), k)'
                    /\ available'[k] + reserved'[k] + Qty(Having("CONSUMED"), k)' = stocked'[k]
  BY DEF StockKept, ReservedMatchesHolds, StockConserved
<1>3. /\ Qty(Having("ACTIVE"), k)' = Qty(Having("ACTIVE"), k) - Qty(R, k)
      /\ Qty(R, k) <= Qty(Having("ACTIVE"), k)
      /\ Qty(Having("CONSUMED"), k)' = Qty(Having("CONSUMED"), k)
  BY <1>2, SameLines, QtyDifference
<1>4. /\ Qty(R, k) \in Nat
      /\ Qty(Having("ACTIVE"), k) \in Nat
      /\ Qty(Having("CONSUMED"), k) \in Nat
  BY UnitsFinite
<1>5. /\ reserved[k] = Qty(Having("ACTIVE"), k)
      /\ available[k] + reserved[k] + Qty(Having("CONSUMED"), k) = stocked[k]
      /\ available[k] \in Nat
  BY <1>1 DEF StockInv, ReservedMatchesHolds, StockConserved, TypeOK
<1>6. available'[k] = available[k] + Qty(R, k) /\ reserved'[k] = reserved[k] - Qty(R, k)
  BY <1>3, <1>4, <1>5 DEF Release
<1> QED
  BY <1>3, <1>4, <1>5, <1>6

\* Consuming them takes the units out of the row: they are the completed order's.
LEMMA ConsumeKeeps ==
    ASSUME StockInv, NEW R \in SUBSET Having("ACTIVE"), Settle(R, "CONSUMED"), Consume(R),
           UNCHANGED <<line, stocked>>
    PROVE  StockKept
<1>1. TypeOK
  BY DEF StockInv, OwnInv, TypeInv
<1>2. /\ Having("ACTIVE")' = Having("ACTIVE") \ R
      /\ Having("CONSUMED")' = Having("CONSUMED") \cup R
      /\ Having("CONSUMED") \cap R = {}
  <2>1. Having("CONSUMED") \cap R = {}
    BY DEF Having
  <2> QED
    BY <1>1, <2>1, SettleHaving
<1> SUFFICES ASSUME NEW k \in Rows
             PROVE  /\ reserved'[k] = Qty(Having("ACTIVE"), k)'
                    /\ available'[k] + reserved'[k] + Qty(Having("CONSUMED"), k)' = stocked'[k]
  BY DEF StockKept, ReservedMatchesHolds, StockConserved
<1>3. /\ Qty(Having("ACTIVE"), k)' = Qty(Having("ACTIVE"), k) - Qty(R, k)
      /\ Qty(R, k) <= Qty(Having("ACTIVE"), k)
      /\ Qty(Having("CONSUMED"), k)' = Qty(Having("CONSUMED"), k) + Qty(R, k)
  BY <1>2, SameLines, QtyDifference, QtyUnion
<1>4. /\ Qty(R, k) \in Nat
      /\ Qty(Having("ACTIVE"), k) \in Nat
      /\ Qty(Having("CONSUMED"), k) \in Nat
  BY UnitsFinite
<1>5. /\ reserved[k] = Qty(Having("ACTIVE"), k)
      /\ available[k] + reserved[k] + Qty(Having("CONSUMED"), k) = stocked[k]
      /\ available[k] \in Nat
  BY <1>1 DEF StockInv, ReservedMatchesHolds, StockConserved, TypeOK
<1>6. available'[k] = available[k] /\ reserved'[k] = reserved[k] - Qty(R, k)
  BY <1>3, <1>4, <1>5 DEF Consume
<1> QED
  BY <1>3, <1>4, <1>5, <1>6

\* A new order's units leave available for reserved.
LEMMA CreateKeeps ==
    ASSUME StockInv, NEW o \in Orders, NEW b \in Baskets, NEW t \in Tokens,
           CreateOrder(o, b, t)
    PROVE  StockKept
<1>1. TypeOK /\ Unborn
  BY DEF StockInv, OwnInv, TypeInv
<1>2. \A k \in Rows : b[k] \in Nat /\ b[k] <= MaxQty
  BY BoundsAssumption DEF Baskets
<1>3. \A k \in Rows : resv[o][k] = "NONE"
  BY <1>1 DEF CreateOrder, Unborn
<1> SUFFICES ASSUME NEW k \in Rows
             PROVE  /\ reserved'[k] = Qty(Having("ACTIVE"), k)'
                    /\ available'[k] + reserved'[k] + Qty(Having("CONSUMED"), k)' = stocked'[k]
  BY DEF StockKept, ReservedMatchesHolds, StockConserved
<1> DEFINE New == {o} \X (1 .. b[k])
<1>4. \A p \in Orders : /\ p # o => resv'[p] = resv[p] /\ line'[p] = line[p]
                        /\ p = o => /\ resv'[p][k] = (IF b[k] > 0 THEN "ACTIVE" ELSE "NONE")
                                    /\ line'[p][k] = b[k]
  BY <1>1 DEF CreateOrder, TypeOK
<1>5. Units(Having("ACTIVE"), k)' = Units(Having("ACTIVE"), k) \cup New
  <2>1. \A u \in Orders \X (1 .. MaxQty) :
          /\ u \in Units(Having("ACTIVE"), k) <=>
                resv[u[1]][k] = "ACTIVE" /\ u[2] <= line[u[1]][k]
          /\ u \in Units(Having("ACTIVE"), k)' <=>
                resv'[u[1]][k] = "ACTIVE" /\ u[2] <= line'[u[1]][k]
    BY DEF Units, Having
  <2>2. \A u \in Orders \X (1 .. MaxQty) : u \in New <=> u[1] = o /\ u[2] <= b[k]
    BY <1>2, BoundsAssumption
  <2>3. New \subseteq Orders \X (1 .. MaxQty)
    BY <1>2, BoundsAssumption
  <2>4. /\ Units(Having("ACTIVE"), k) \subseteq Orders \X (1 .. MaxQty)
        /\ Units(Having("ACTIVE"), k)' \subseteq Orders \X (1 .. MaxQty)
    BY DEF Units
  <2>5. \A u \in Orders \X (1 .. MaxQty) :
          u \in Units(Having("ACTIVE"), k)' <=> u \in Units(Having("ACTIVE"), k) \/ u \in New
    <3> SUFFICES ASSUME NEW u \in Orders \X (1 .. MaxQty)
                 PROVE  u \in Units(Having("ACTIVE"), k)' <=>
                          u \in Units(Having("ACTIVE"), k) \/ u \in New
      OBVIOUS
    <3>1. u[1] \in Orders /\ u[2] \in Nat \ {0}
      OBVIOUS
    <3>2. CASE u[1] = o
      BY <1>2, <1>3, <1>4, <2>1, <2>2, <3>1, <3>2
    <3>3. CASE u[1] # o
      BY <1>4, <2>1, <2>2, <3>1, <3>3
    <3> QED
      BY <3>2, <3>3
  <2> HIDE DEF New
  <2> QED
    BY <2>3, <2>4, <2>5
<1>6. Units(Having("ACTIVE"), k) \cap New = {}
  BY <1>3 DEF Units, Having
<1>7. Units(Having("CONSUMED"), k)' = Units(Having("CONSUMED"), k)
  BY <1>3, <1>4 DEF Units, Having
<1>8. IsFiniteSet(New) /\ Cardinality(New) = b[k]
  BY <1>2, OrderUnits
<1>9. Cardinality(Units(Having("ACTIVE"), k) \cup New)
        = Cardinality(Units(Having("ACTIVE"), k)) + Cardinality(New) - Cardinality({})
  BY <1>6, <1>8, UnitsFinite, FS_Union
<1>10. Qty(Having("ACTIVE"), k)' = Qty(Having("ACTIVE"), k) + b[k]
  <2>1. Qty(Having("ACTIVE"), k)' = Cardinality(Units(Having("ACTIVE"), k) \cup New)
    BY <1>5 DEF Qty
  <2>2. Cardinality({}) = 0 /\ Qty(Having("ACTIVE"), k) \in Nat
    BY UnitsFinite, FS_EmptySet
  <2>3. Qty(Having("ACTIVE"), k) = Cardinality(Units(Having("ACTIVE"), k))
    BY DEF Qty
  <2> HIDE DEF New
  <2> QED
    BY <1>2, <1>8, <1>9, <2>1, <2>2, <2>3
<1>11. Qty(Having("CONSUMED"), k)' = Qty(Having("CONSUMED"), k)
  BY <1>7 DEF Qty
<1>12. /\ reserved[k] = Qty(Having("ACTIVE"), k)
       /\ available[k] + reserved[k] + Qty(Having("CONSUMED"), k) = stocked[k]
       /\ available[k] \in Nat /\ reserved[k] \in Nat
  BY <1>1 DEF StockInv, ReservedMatchesHolds, StockConserved, TypeOK
<1>13. /\ available'[k] = available[k] - b[k]
       /\ reserved'[k] = reserved[k] + b[k]
       /\ stocked' = stocked
  BY DEF CreateOrder
<1> QED
  BY <1>2, <1>10, <1>11, <1>12, <1>13, UnitsFinite

LEMMA AdjustKeeps ==
    ASSUME StockInv, NEW k \in Rows, NEW d \in Deltas, AdjustStock(k, d)
    PROVE  StockKept
<1>1. TypeOK /\ d \in Int
  BY BoundsAssumption DEF StockInv, OwnInv, TypeInv
<1>2. UNCHANGED <<line, resv, reserved>>
  BY DEF AdjustStock, orderVars
<1>3. \A s, l : Qty(Having(s), l)' = Qty(Having(s), l)
  BY <1>2 DEF Qty, Units, Having
<1>4. \A l \in Rows : Qty(Having("CONSUMED"), l) \in Nat
  BY UnitsFinite
<1> QED
  BY <1>1, <1>2, <1>3, <1>4
  DEF AdjustStock, StockInv, StockKept, ReservedMatchesHolds, StockConserved, TypeOK

LEMMA NextStockInv == StockInv /\ [Next]_vars => StockInv'
<1> SUFFICES ASSUME StockInv, [Next]_vars PROVE StockInv'
  OBVIOUS
<1>1. OwnInv'
  BY NextOwnInv DEF StockInv
<1>2. \A o \in Orders : ActiveOf(o) \in SUBSET Having("ACTIVE")
  BY DEF ActiveOf, Having
<1>3. \A w \in Workers : pc[w] = "charging" => job[w] \in Orders
  BY DEF StockInv, OwnInv, TypeInv, BusyHasJob
<1>4. CASE UNCHANGED <<available, reserved, stocked, line, resv>>
  <2>1. \A s, l : Qty(Having(s), l)' = Qty(Having(s), l)
    BY <1>4 DEF Qty, Units, Having
  <2> QED
    BY <1>1, <1>4, <2>1 DEF StockInv, ReservedMatchesHolds, StockConserved
<1>5. ASSUME NEW o \in Orders, CancelOrder(o) PROVE StockKept
  BY <1>2, <1>5, ReleaseKeeps DEF CancelOrder
<1>6. ASSUME NEW w \in Workers, Complete(w) PROVE StockKept
  BY <1>2, <1>3, <1>6, ConsumeKeeps DEF Complete
<1>7. ASSUME NEW w \in Workers, Fail(w) PROVE StockKept
  BY <1>2, <1>3, <1>7, ReleaseKeeps DEF Fail
<1>8. ASSUME NEW R \in Batches, ExpireReservations(R) PROVE StockKept
  <2>1. R \in SUBSET Having("ACTIVE")
    BY DEF Batches, Claimable, Having
  <2> QED
    BY <1>8, <2>1, ReleaseKeeps DEF ExpireReservations
<1>9. \/ UNCHANGED <<available, reserved, stocked, line, resv>>
      \/ \E o \in Orders, b \in Baskets, t \in Tokens : CreateOrder(o, b, t)
      \/ \E o \in Orders : CancelOrder(o)
      \/ \E k \in Rows, d \in Deltas : AdjustStock(k, d)
      \/ \E w \in Workers : Complete(w) \/ Fail(w)
      \/ \E R \in Batches : ExpireReservations(R)
  BY DEF Next, vars, DeadlinePasses, RelayStep, RelaySend, RelayCommit, RelayInterrupted,
         WorkerStep, Claim, Skip, PutBack, EnqueueRetry, WriteDeadLetter, Ack, WorkerFault,
         WorkerCrash, Redeliver, WorkerError, ClaimError, Sweep, stockVars, orderVars
<1> QED
  BY <1>1, <1>4, <1>5, <1>6, <1>7, <1>8, <1>9, CreateKeeps, AdjustKeeps
  DEF StockInv, StockKept

LEMMA StockInvariant == Spec => []StockInv
  BY InitStockInv, NextStockInv, PTL DEF Spec

\* The reserved counter of every row is the sum of the reservations that hold it.
THEOREM ReservedIsExact == Spec => []ReservedMatchesHolds
<1>1. StockInv => ReservedMatchesHolds
  BY DEF StockInv
<1> QED
  BY <1>1, StockInvariant, PTL

\* What was stocked in a row is available, reserved, or consumed by completed orders.
THEOREM StockIsConserved == Spec => []StockConserved
<1>1. StockInv => StockConserved
  BY DEF StockInv
<1> QED
  BY <1>1, StockInvariant, PTL
=============================================================================
