----------------------------- MODULE StockLedger ----------------------------
(***************************************************************************)
(* One inventory row with what is derived from it in the same              *)
(* transactions: the low-stock flag, the alerts, and the audit log.        *)
(*                                                                         *)
(* Each action is what one transaction does to the row, in the order of    *)
(* its statements; the row lock of the first UPDATE keeps other            *)
(* transactions off the row until it commits.  Which order asks, and the   *)
(* units held by which reservation, are in OrderLifecycle: here a          *)
(* reservation is any quantity the reserved counter covers.                *)
(***************************************************************************)
EXTENDS Integers

CONSTANTS
    Quantities,     \* units an order line may ask
    Deltas,         \* the manual adjustments tried
    Thresholds,     \* the thresholds an admin may set
    NoThreshold,    \* low_stock_threshold IS NULL
    MaxStock,       \* bound: units ever stocked
    MaxLogged       \* bound: alerts, and units logged under one event type

ASSUME QuantitiesAssumption ==
    /\ Quantities \subseteq Nat \ {0}
    /\ Deltas \subseteq Int
    /\ Thresholds \subseteq Nat
    /\ NoThreshold \notin Nat
    /\ MaxStock \in Nat
    /\ MaxLogged \in Nat

EventTypes == {"STOCK_ADDED", "STOCK_REMOVED", "INVENTORY_RESERVED",
               "RESERVATION_RELEASED", "ORDER_COMPLETED"}

VARIABLES
    created,     \* the row has been created
    available,  \* available_quantity
    reserved,   \* reserved_quantity
    threshold,  \* low_stock_threshold
    low,        \* is_low_stock
    alerts,     \* number of low_stock_alerts rows, each with its outbox event
    audit       \* audit[e]: sum of `change` over the audit rows of type e

vars == <<created, available, reserved, threshold, low, alerts, audit>>

Record(e, change) == audit' = [audit EXCEPT ![e] = @ + change]

-----------------------------------------------------------------------------
(* The low-stock check, as the last statements of a transaction that has   *)
(* left `quantity` available                                               *)

\* Mutants: off by one at the threshold; alerts again while the row is low.
FlipsBelow(quantity) == ~low /\ threshold # NoThreshold /\ quantity < threshold
FlipsAgain(quantity) == threshold # NoThreshold /\ quantity <= threshold

\* try_flip_low_stock, and the alert when it flipped.
Flips(quantity) == ~low /\ threshold # NoThreshold /\ quantity <= threshold

FlipCheck(quantity) ==
    /\ low' = (low \/ Flips(quantity))
    /\ alerts' = IF Flips(quantity) THEN alerts + 1 ELSE alerts

\* Mutant: off by one at the threshold.
ResetsAt(quantity) == low /\ threshold # NoThreshold /\ quantity >= threshold

\* try_reset_low_stock. NULL compares as false.
Resets(quantity) == low /\ threshold # NoThreshold /\ quantity > threshold

ResetCheck(quantity) ==
    /\ low' = (low /\ ~Resets(quantity))
    /\ UNCHANGED alerts

NoCheck == UNCHANGED <<low, alerts>>

CheckLowStockTransition(quantity, delta) ==
    \/ delta < 0 /\ FlipCheck(quantity)
    \/ delta > 0 /\ ResetCheck(quantity)
    \/ delta = 0 /\ NoCheck

-----------------------------------------------------------------------------
(* The transactions                                                        *)

\* create_adjustment; the first one for the pair creates the row, without a check.
AdjustmentEvent(d) == IF d >= 0 THEN "STOCK_ADDED" ELSE "STOCK_REMOVED"

CreateRow(d) ==
    /\ ~created
    /\ d >= 0
    /\ d <= MaxStock
    /\ created' = TRUE
    /\ available' = d
    /\ Record(AdjustmentEvent(d), d)
    /\ UNCHANGED <<reserved, threshold, low, alerts>>

Adjust(d) ==
    /\ created
    /\ available + d >= 0
    /\ available + reserved + d <= MaxStock
    /\ available' = available + d
    /\ CheckLowStockTransition(available + d, d)
    /\ Record(AdjustmentEvent(d), d)
    /\ UNCHANGED <<created, reserved, threshold>>

\* low_stock_service.set_threshold. No alert: the quantity did not move.
SetThreshold(t) ==
    /\ threshold' = t
    /\ low' \in BOOLEAN
    /\ low' <=> available <= t
    /\ created' = TRUE
    /\ UNCHANGED <<available, reserved, alerts, audit>>

Enough(q) == available >= q

\* inventory_service.reserve, in an order's transaction.
Reserve(q) ==
    /\ created
    /\ Enough(q)
    /\ available' = available - q
    /\ reserved' = reserved + q
    /\ Record("INVENTORY_RESERVED", -q)
    /\ CheckLowStockTransition(available - q, -q)
    /\ UNCHANGED <<created, threshold>>

\* Mutant: releases without an audit record.
GiveBackUnlogged(q) ==
    /\ reserved >= q
    /\ available' = available + q
    /\ reserved' = reserved - q
    /\ UNCHANGED <<created, threshold, audit>>

\* The row's side of releasing a reservation of q units.
GiveBack(q) ==
    /\ reserved >= q
    /\ available' = available + q
    /\ reserved' = reserved - q
    /\ Record("RESERVATION_RELEASED", q)
    /\ UNCHANGED <<created, threshold>>

\* inventory_service.release_reservation: cancelled and failed orders.
ReleaseReservation(q) ==
    /\ GiveBack(q)
    /\ CheckLowStockTransition(available + q, q)

\* reservation_cleanup: the same statements, but not the check.
ExpireReservation(q) ==
    /\ GiveBack(q)
    /\ NoCheck

\* inventory_service.consume_reservation: the order is completed.
ConsumeReservation(q) ==
    /\ reserved >= q
    /\ reserved' = reserved - q
    /\ Record("ORDER_COMPLETED", -q)
    /\ UNCHANGED <<created, available, threshold, low, alerts>>

-----------------------------------------------------------------------------
Init ==
    /\ created = FALSE
    /\ available = 0
    /\ reserved = 0
    /\ threshold = NoThreshold
    /\ low = FALSE
    /\ alerts = 0
    /\ audit = [e \in EventTypes |-> 0]

\* The alerts and the log only grow: no step is taken past the bound.
WithinBounds ==
    /\ alerts <= MaxLogged
    /\ \A e \in EventTypes : audit[e] \in -MaxLogged .. MaxLogged

RowStep ==
    \/ \E d \in Deltas : CreateRow(d) \/ Adjust(d)
    \/ \E t \in Thresholds : SetThreshold(t)
    \/ \E q \in Quantities : \/ Reserve(q)
                             \/ ReleaseReservation(q)
                             \/ ExpireReservation(q)
                             \/ ConsumeReservation(q)

Next == WithinBounds /\ RowStep

Spec == Init /\ [][Next]_vars


-----------------------------------------------------------------------------
(* Properties                                                              *)

\* The row's columns and the log keep their types.
TypeOK ==
    /\ created \in BOOLEAN
    /\ available \in Nat
    /\ reserved \in Nat
    /\ threshold \in Thresholds \cup {NoThreshold}
    /\ low \in BOOLEAN
    /\ alerts \in Nat
    /\ audit \in [EventTypes -> Int]

\* The row can be rebuilt from its audit log, event type by event type: no path moves stock
\* without its record, or records a move it did not make.
AuditReconstructsRow ==
    /\ available = audit["STOCK_ADDED"] + audit["STOCK_REMOVED"]
                     + audit["INVENTORY_RESERVED"] + audit["RESERVATION_RELEASED"]
    /\ reserved = audit["ORDER_COMPLETED"]
                     - audit["INVENTORY_RESERVED"] - audit["RESERVATION_RELEASED"]

\* A row at or below its threshold is flagged, whatever path took it there: no decrease
\* goes unnoticed while the flag is down.
LowStockIsFlagged ==
    threshold # NoThreshold /\ available <= threshold => low

Crossing ==
    /\ threshold' = threshold
    /\ threshold # NoThreshold
    /\ available > threshold
    /\ available' <= threshold

\* An alert is raised only by a crossing, and one by each: never by moving the threshold,
\* by a decrease while the row is low, or by a release.
AlertsAreCrossings == [][alerts' # alerts => Crossing /\ alerts' = alerts + 1]_vars

FlagExact == threshold # NoThreshold => (low <=> available <= threshold)

\* Only the reservation sweep can leave the flag up over a row that is back above its
\* threshold; every other path keeps an exact flag exact.
OnlySweepBlursFlag ==
    [][FlagExact => FlagExact' \/ \E q \in Quantities : ExpireReservation(q)]_vars

\* README, "Low-stock alerts": exactly one alert per crossing, and a restock re-arms it.
EachCrossingAlerts == [][Crossing => alerts' = alerts + 1]_vars
=============================================================================
