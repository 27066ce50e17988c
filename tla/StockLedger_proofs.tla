------------------------- MODULE StockLedger_proofs -------------------------
(* Proofs about StockLedger, for any quantities, adjustments and           *)
(* thresholds.                                                             *)
EXTENDS StockLedger, TLAPS

\* A row that has not been created has no stock and no threshold.
AbsentRow == ~created => available = 0 /\ reserved = 0 /\ threshold = NoThreshold

LedgerInv == TypeOK /\ AuditReconstructsRow /\ LowStockIsFlagged /\ AbsentRow

\* The check leaves the flag up whenever the row ends at or below its threshold.
LEMMA CheckType ==
    ASSUME TypeOK, NEW quantity \in Nat, NEW delta \in Int,
           CheckLowStockTransition(quantity, delta)
    PROVE  low' \in BOOLEAN /\ alerts' \in Nat
<1>1. low' \in BOOLEAN
  BY Zenon DEF TypeOK, CheckLowStockTransition, FlipCheck, ResetCheck, NoCheck
<1>2. alerts' \in Nat
  BY DEF TypeOK, CheckLowStockTransition, FlipCheck, ResetCheck, NoCheck
<1> QED
  BY <1>1, <1>2

LEMMA CheckFlags ==
    ASSUME LedgerInv, NEW delta \in Int, available + delta \in Nat,
           CheckLowStockTransition(available + delta, delta)
    PROVE  threshold # NoThreshold /\ available + delta <= threshold => low'
<1> SUFFICES ASSUME threshold # NoThreshold, available + delta <= threshold PROVE low'
  OBVIOUS
<1>1. threshold \in Nat /\ available \in Nat
  BY QuantitiesAssumption DEF LedgerInv, TypeOK
<1>2. CASE delta < 0 /\ FlipCheck(available + delta)
  BY <1>2 DEF FlipCheck, Flips
<1>3. CASE delta > 0 /\ ResetCheck(available + delta)
  <2>1. available <= threshold /\ ~ (available + delta > threshold)
    BY <1>1, <1>3
  <2>2. low
    BY <2>1 DEF LedgerInv, LowStockIsFlagged
  <2> QED
    BY <1>3, <2>1, <2>2 DEF ResetCheck, Resets
<1>4. CASE delta = 0 /\ NoCheck
  <2>1. low
    BY <1>1, <1>4 DEF LedgerInv, LowStockIsFlagged
  <2> QED
    BY <1>4, <2>1 DEF NoCheck
<1> QED
  BY <1>2, <1>3, <1>4 DEF CheckLowStockTransition

LEMMA InitLedger == Init => LedgerInv
<1> SUFFICES ASSUME Init PROVE LedgerInv
  OBVIOUS
<1>1. TypeOK
  <2>1. audit \in [EventTypes -> Int]
    BY DEF Init
  <2>2. created \in BOOLEAN /\ low \in BOOLEAN
    BY DEF Init
  <2>3. threshold \in Thresholds \cup {NoThreshold}
    BY DEF Init
  <2>4. available \in Nat /\ reserved \in Nat /\ alerts \in Nat
    BY DEF Init
  <2> QED
    BY <2>1, <2>2, <2>3, <2>4 DEF TypeOK
<1>2. AuditReconstructsRow
  BY DEF Init, AuditReconstructsRow, EventTypes
<1>3. LowStockIsFlagged
  BY DEF Init, LowStockIsFlagged
<1> QED
  BY <1>1, <1>2, <1>3 DEF Init, LedgerInv, AbsentRow

\* A record changes the sum of its own event type.
LEMMA RecordSums ==
    ASSUME TypeOK, NEW e \in EventTypes, NEW change \in Int, Record(e, change)
    PROVE  /\ audit' \in [EventTypes -> Int]
           /\ audit'[e] = audit[e] + change
           /\ \A f \in EventTypes : audit[f] \in Int /\ (f # e => audit'[f] = audit[f])
  BY DEF TypeOK, Record

\* A row with reserved units exists.
LEMMA RowHeld ==
    ASSUME AbsentRow, NEW q \in Quantities, reserved >= q
    PROVE  created
  BY QuantitiesAssumption DEF AbsentRow

LEMMA NextLedger == LedgerInv /\ [Next]_vars => LedgerInv'
<1> SUFFICES ASSUME LedgerInv, [Next]_vars PROVE LedgerInv'
  OBVIOUS
<1> USE QuantitiesAssumption
<1>1. TypeOK /\ AuditReconstructsRow /\ LowStockIsFlagged /\ AbsentRow
  BY DEF LedgerInv
<1>2. ASSUME NEW d \in Deltas, CreateRow(d) PROVE LedgerInv'
  <2>1. TypeOK'
    BY <1>1, <1>2 DEF CreateRow, Record, AdjustmentEvent, TypeOK, EventTypes
  <2>2. AuditReconstructsRow'
    BY <1>1, <1>2 DEF CreateRow, Record, AdjustmentEvent, TypeOK, AuditReconstructsRow,
                      AbsentRow, EventTypes
  <2>3. LowStockIsFlagged' /\ AbsentRow'
    BY <1>1, <1>2 DEF CreateRow, LowStockIsFlagged, AbsentRow
  <2> QED
    BY <2>1, <2>2, <2>3 DEF LedgerInv
<1>3. ASSUME NEW d \in Deltas, Adjust(d) PROVE LedgerInv'
  <2>1. available + d \in Nat
    BY <1>1, <1>3 DEF Adjust, TypeOK
  <2>2. low' \in BOOLEAN /\ alerts' \in Nat
    BY <1>1, <1>3, <2>1, CheckType DEF Adjust
  <2>3. TypeOK' /\ AuditReconstructsRow'
    BY <1>1, <1>3, <2>1, <2>2
    DEF Adjust, Record, AdjustmentEvent, TypeOK, AuditReconstructsRow, EventTypes
  <2>4. LowStockIsFlagged' /\ AbsentRow'
    BY <1>3, <2>1, CheckFlags DEF Adjust, LowStockIsFlagged, AbsentRow
  <2> QED
    BY <2>3, <2>4 DEF LedgerInv
<1>4. ASSUME NEW t \in Thresholds, SetThreshold(t) PROVE LedgerInv'
  <2>1. low' \in BOOLEAN /\ (available <= t => low')
    BY <1>4 DEF SetThreshold
  <2>2. TypeOK'
    BY <1>1, <1>4, <2>1 DEF SetThreshold, TypeOK
  <2>3. AuditReconstructsRow' /\ LowStockIsFlagged' /\ AbsentRow'
    BY <1>1, <1>4, <2>1 DEF SetThreshold, AuditReconstructsRow, LowStockIsFlagged, AbsentRow
  <2> QED
    BY <2>2, <2>3 DEF LedgerInv
<1>5. ASSUME NEW q \in Quantities, Reserve(q) PROVE LedgerInv'
  <2>1. available - q \in Nat /\ available - q = available + (-q)
    BY <1>1, <1>5 DEF Reserve, Enough, TypeOK
  <2>2. low' \in BOOLEAN /\ alerts' \in Nat
    BY <1>1, <1>5, <2>1, CheckType DEF Reserve
  <2>3. TypeOK' /\ AuditReconstructsRow'
    BY <1>1, <1>5, <2>1, <2>2 DEF Reserve, Record, TypeOK, AuditReconstructsRow, EventTypes
  <2>4. threshold # NoThreshold /\ available + (-q) <= threshold => low'
    BY <1>5, <2>1, CheckFlags DEF Reserve
  <2>5. LowStockIsFlagged' /\ AbsentRow'
    BY <1>5, <2>1, <2>4 DEF Reserve, LowStockIsFlagged, AbsentRow
  <2> QED
    BY <2>3, <2>5 DEF LedgerInv
<1>6. ASSUME NEW q \in Quantities, ReleaseReservation(q) PROVE LedgerInv'
  <2>1. available + q \in Nat
    BY <1>1, <1>6 DEF TypeOK
  <2>2. low' \in BOOLEAN /\ alerts' \in Nat
    BY <1>1, <1>6, <2>1, CheckType DEF ReleaseReservation
  <2>3. TypeOK' /\ AuditReconstructsRow'
    BY <1>1, <1>6, <2>1, <2>2
    DEF ReleaseReservation, GiveBack, Record, TypeOK, AuditReconstructsRow, EventTypes
  <2>4. LowStockIsFlagged' /\ AbsentRow'
    <3>1. LowStockIsFlagged'
      BY <1>6, <2>1, CheckFlags DEF ReleaseReservation, GiveBack, LowStockIsFlagged
    <3>2. created
      BY <1>1, <1>6, RowHeld DEF ReleaseReservation, GiveBack
    <3> QED
      BY <1>6, <3>1, <3>2 DEF ReleaseReservation, GiveBack, AbsentRow
  <2> QED
    BY <2>3, <2>4 DEF LedgerInv
<1>7. ASSUME NEW q \in Quantities, ExpireReservation(q) PROVE LedgerInv'
  <2>1. TypeOK' /\ AuditReconstructsRow'
    BY <1>1, <1>7
    DEF ExpireReservation, GiveBack, NoCheck, Record, TypeOK, AuditReconstructsRow, EventTypes
  <2>2. LowStockIsFlagged' /\ AbsentRow'
    <3>1. LowStockIsFlagged'
      BY <1>1, <1>7 DEF ExpireReservation, GiveBack, NoCheck, TypeOK, LowStockIsFlagged
    <3>2. created
      BY <1>1, <1>7, RowHeld DEF ExpireReservation, GiveBack
    <3> QED
      BY <1>7, <3>1, <3>2 DEF ExpireReservation, GiveBack, AbsentRow
  <2> QED
    BY <2>1, <2>2 DEF LedgerInv
<1>8. ASSUME NEW q \in Quantities, ConsumeReservation(q) PROVE LedgerInv'
  <2>1. TypeOK' /\ AuditReconstructsRow'
    BY <1>1, <1>8 DEF ConsumeReservation, Record, TypeOK, AuditReconstructsRow, EventTypes
  <2>2. LowStockIsFlagged' /\ AbsentRow'
    BY <1>1, <1>8 DEF ConsumeReservation, LowStockIsFlagged, AbsentRow
  <2> QED
    BY <2>1, <2>2 DEF LedgerInv
<1>9. CASE UNCHANGED vars
  BY <1>9 DEF vars, LedgerInv, TypeOK, AuditReconstructsRow, LowStockIsFlagged, AbsentRow
<1> QED
  BY <1>2, <1>3, <1>4, <1>5, <1>6, <1>7, <1>8, <1>9 DEF Next, RowStep

LEMMA LedgerInvariant == Spec => []LedgerInv
  BY InitLedger, NextLedger, PTL DEF Spec

\* The audit log, event type by event type, always adds up to the row's two counters.
THEOREM AuditIsComplete == Spec => []AuditReconstructsRow
<1>1. LedgerInv => AuditReconstructsRow
  BY DEF LedgerInv
<1> QED
  BY <1>1, LedgerInvariant, PTL

\* A row at or below its threshold is always flagged as low.
THEOREM LowStockNeverUnflagged == Spec => []LowStockIsFlagged
<1>1. LedgerInv => LowStockIsFlagged
  BY DEF LedgerInv
<1> QED
  BY <1>1, LedgerInvariant, PTL

\* Every alert is one crossing of an unchanged threshold, and every such step makes one alert.
THEOREM NoFalseAlert == Spec => AlertsAreCrossings
<1>1. LedgerInv /\ [Next]_vars => [alerts' # alerts => Crossing /\ alerts' = alerts + 1]_vars
  <2> SUFFICES ASSUME LedgerInv, Next, alerts' # alerts
               PROVE  Crossing /\ alerts' = alerts + 1
    OBVIOUS
  <2>1. TypeOK /\ LowStockIsFlagged
    BY DEF LedgerInv
  <2>2. PICK delta \in Int : /\ CheckLowStockTransition(available + delta, delta)
                             /\ available + delta \in Nat
                             /\ available' = available + delta
                             /\ UNCHANGED threshold
    <3>1. ASSUME NEW d \in Deltas, Adjust(d)
          PROVE  d \in Int /\ available + d \in Nat
      BY <2>1, <3>1, QuantitiesAssumption DEF Adjust, TypeOK
    <3>2. ASSUME NEW q \in Quantities, Reserve(q)
          PROVE  /\ -q \in Int /\ available - q \in Nat /\ available - q = available + (-q)
                 /\ CheckLowStockTransition(available + (-q), -q)
      <4>1. -q \in Int /\ available - q \in Nat /\ available - q = available + (-q)
        BY <2>1, <3>2, QuantitiesAssumption DEF Reserve, Enough, TypeOK
      <4> QED
        BY <3>2, <4>1 DEF Reserve
    <3>3. ASSUME NEW q \in Quantities, ReleaseReservation(q)
          PROVE  q \in Int /\ available + q \in Nat
      BY <2>1, QuantitiesAssumption DEF TypeOK
    <3>4. \/ \E d \in Deltas : Adjust(d)
          \/ \E q \in Quantities : Reserve(q) \/ ReleaseReservation(q)
      BY DEF Next, RowStep, CreateRow, SetThreshold, ExpireReservation, ConsumeReservation, NoCheck
    <3>5. CASE \E d \in Deltas : Adjust(d)
      BY <3>1, <3>5 DEF Adjust
    <3>6. CASE \E q \in Quantities : Reserve(q)
      BY <3>2, <3>6 DEF Reserve
    <3>7. CASE \E q \in Quantities : ReleaseReservation(q)
      BY <3>3, <3>7 DEF ReleaseReservation, GiveBack
    <3> QED
      BY <3>4, <3>5, <3>6, <3>7
  <2>3. FlipCheck(available + delta) /\ Flips(available + delta)
    BY <2>2 DEF CheckLowStockTransition, FlipCheck, ResetCheck, NoCheck
  <2>4. available > threshold
    BY <2>1, <2>3, QuantitiesAssumption DEF Flips, LowStockIsFlagged, TypeOK
  <2> QED
    BY <2>2, <2>3, <2>4 DEF FlipCheck, Flips, Crossing
<1> QED
  BY <1>1, LedgerInvariant, PTL DEF Spec, AlertsAreCrossings

\* The check keeps an exact flag exact, whichever way the quantity moved.
LEMMA CheckExact ==
    ASSUME LedgerInv, FlagExact, NEW delta \in Int, available + delta \in Nat,
           CheckLowStockTransition(available + delta, delta),
           available' = available + delta, threshold' = threshold
    PROVE  FlagExact'
<1> SUFFICES ASSUME threshold # NoThreshold PROVE low' <=> available + delta <= threshold
  BY DEF FlagExact
<1>1. threshold \in Nat /\ available \in Nat
  BY QuantitiesAssumption DEF LedgerInv, TypeOK
<1>2. low <=> available <= threshold
  BY DEF FlagExact
<1>3. CASE delta < 0 /\ FlipCheck(available + delta)
  <2>1. available <= threshold => available + delta <= threshold
    BY <1>1, <1>3
  <2>2. low' = (low \/ Flips(available + delta))
    BY <1>3 DEF FlipCheck
  <2>3. low \/ Flips(available + delta) <=> available + delta <= threshold
    BY <1>2, <2>1 DEF Flips
  <2> QED
    BY <2>2, <2>3
<1>4. CASE delta > 0 /\ ResetCheck(available + delta)
  <2>1. available + delta <= threshold => available <= threshold
    BY <1>1, <1>4
  <2>2. available + delta > threshold <=> ~(available + delta <= threshold)
    BY <1>1
  <2>3. low' = (low /\ ~Resets(available + delta))
    BY <1>4 DEF ResetCheck
  <2>4. low /\ ~Resets(available + delta) <=> available + delta <= threshold
    BY <1>2, <2>1, <2>2 DEF Resets
  <2> QED
    BY <2>3, <2>4
<1>5. CASE delta = 0 /\ NoCheck
  <2>1. available + delta = available
    BY <1>1, <1>5
  <2> QED
    BY <1>2, <1>5, <2>1 DEF NoCheck
<1> QED
  BY <1>3, <1>4, <1>5 DEF CheckLowStockTransition

\* The row's columns and the sums of its log keep their types: no counter goes below zero.
THEOREM TypesAreKept == Spec => []TypeOK
<1>1. LedgerInv => TypeOK
  BY DEF LedgerInv
<1> QED
  BY <1>1, LedgerInvariant, PTL

\* Only the reservation sweep, which gives units back without the check, makes an exact
\* low-stock flag inexact.
THEOREM FlagBlursOnlyBySweep == Spec => OnlySweepBlursFlag
<1>1. LedgerInv /\ [Next]_vars
        => [FlagExact => FlagExact' \/ \E q \in Quantities : ExpireReservation(q)]_vars
  <2> SUFFICES ASSUME LedgerInv, Next, FlagExact, ~ \E q \in Quantities : ExpireReservation(q)
               PROVE  FlagExact'
    OBVIOUS
  <2>1. TypeOK /\ AbsentRow
    BY DEF LedgerInv
  <2>2. ASSUME NEW d \in Deltas, CreateRow(d) PROVE FlagExact'
    BY <2>1, <2>2 DEF CreateRow, AbsentRow, FlagExact
  <2>3. ASSUME NEW d \in Deltas, Adjust(d) PROVE FlagExact'
    <3>1. d \in Int /\ available + d \in Nat
      BY <2>1, <2>3, QuantitiesAssumption DEF Adjust, TypeOK
    <3> QED
      BY <2>3, <3>1, CheckExact DEF Adjust
  <2>4. ASSUME NEW t \in Thresholds, SetThreshold(t) PROVE FlagExact'
    BY <2>4 DEF SetThreshold, FlagExact
  <2>5. ASSUME NEW q \in Quantities, Reserve(q) PROVE FlagExact'
    <3>1. -q \in Int /\ available - q \in Nat /\ available - q = available + (-q)
      BY <2>1, <2>5, QuantitiesAssumption DEF Reserve, Enough, TypeOK
    <3>2. CheckLowStockTransition(available + (-q), -q) /\ available' = available + (-q)
      BY <2>5, <3>1 DEF Reserve
    <3>3. threshold' = threshold
      BY <2>5 DEF Reserve
    <3> QED
      BY <3>1, <3>2, <3>3, CheckExact
  <2>6. ASSUME NEW q \in Quantities, ReleaseReservation(q) PROVE FlagExact'
    <3>1. q \in Int /\ available + q \in Nat
      BY <2>1, QuantitiesAssumption DEF TypeOK
    <3> QED
      BY <2>6, <3>1, CheckExact DEF ReleaseReservation, GiveBack
  <2>7. ASSUME NEW q \in Quantities, ConsumeReservation(q) PROVE FlagExact'
    BY <2>7 DEF ConsumeReservation, FlagExact
  <2> QED
    BY <2>2, <2>3, <2>4, <2>5, <2>6, <2>7 DEF Next, RowStep
<1> QED
  BY <1>1, LedgerInvariant, PTL DEF Spec, OnlySweepBlursFlag
=============================================================================
