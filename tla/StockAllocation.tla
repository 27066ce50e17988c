--------------------------- MODULE StockAllocation --------------------------
(***************************************************************************)
(* What creating an order promises about the inventory rows: in one step   *)
(* it gets everything it asks, each line from one warehouse that has the   *)
(* whole quantity, or it gets nothing.  OrderLifecycle uses order creation *)
(* in this form; StockReservation is the transaction that implements it.   *)
(***************************************************************************)
EXTENDS StockRows

VARIABLES
    available,  \* available[k]: the committed available_quantity of row k
    want,       \* want[t]: the lines request t asks, never changed
    outcome,    \* outcome[t]: what the client of t knows
    taken       \* taken[t][k]: units of row k that order t holds

vars == <<available, want, outcome, taken>>

\* b serves the lines w: each line, whole, from one row of its product.
Serves(b, w) ==
    /\ b \in [Rows -> 0 .. MaxQty]
    /\ \A i \in DOMAIN w : \E h \in Warehouses : b[<<w[i][1], h>>] = w[i][2]
    /\ \A k \in Rows : b[k] > 0 =>
          /\ \E i \in DOMAIN w : w[i][1] = k[1]
          /\ \A l \in Rows : b[l] > 0 /\ l[1] = k[1] => l = k

Init ==
    /\ available \in [Rows -> 0 .. MaxStock]
    /\ want \in [Requests -> Wishes]
    /\ outcome = [t \in Requests |-> "open"]
    /\ taken = [t \in Requests |-> Nothing]

Grant(t) ==
    /\ outcome[t] = "open"
    /\ outcome' = [outcome EXCEPT ![t] = "granted"]
    /\ \E b \in [Rows -> 0 .. MaxQty] :
          /\ Serves(b, want[t])
          /\ \A k \in Rows : available[k] >= b[k]
          /\ available' = [k \in Rows |-> available[k] - b[k]]
          /\ taken' = [taken EXCEPT ![t] = b]
    /\ UNCHANGED want

\* Nothing is taken. The promise says nothing about when a request may be refused.
Refuse(t) ==
    /\ outcome[t] = "open"
    /\ outcome' = [outcome EXCEPT ![t] = "refused"]
    /\ UNCHANGED <<available, want, taken>>

\* The order is cancelled, fails or expires.
GiveBack(t) ==
    /\ outcome[t] = "granted"
    /\ available' = [k \in Rows |-> available[k] + taken[t][k]]
    /\ taken' = [taken EXCEPT ![t] = Nothing]
    /\ outcome' = [outcome EXCEPT ![t] = "returned"]
    /\ UNCHANGED want

Adjust(k, d) ==
    /\ available[k] + d \in 0 .. MaxStock
    /\ available' = [available EXCEPT ![k] = @ + d]
    /\ UNCHANGED <<want, outcome, taken>>

Next ==
    \/ \E t \in Requests : Grant(t) \/ Refuse(t) \/ GiveBack(t)
    \/ \E k \in Rows, d \in Deltas : Adjust(k, d)

Spec == Init /\ [][Next]_vars
=============================================================================
