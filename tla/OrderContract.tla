---------------------------- MODULE OrderContract ----------------------------
(***************************************************************************)
(* What the service promises about an order and the stock it holds, to     *)
(* someone who sees neither messages nor workers nor attempts: the states  *)
(* an order goes through, and that units change hands only with them, all  *)
(* of an order's at once unless its deadline has passed.                   *)
(***************************************************************************)
EXTENDS Integers, FiniteSets

CONSTANTS Orders, Rows, Baskets, MaxQty, Deltas

VARIABLES
    status,     \* status[o], "NONE" before the order exists
    line,       \* line[o][k]: the units of row k the order was granted
    resv,       \* resv[o][k]: what became of them
    due,        \* due[o]: the order's deadline has passed
    available   \* available[k]: the units of row k that nobody holds

vars == <<status, line, resv, due, available>>

Init ==
    /\ status = [o \in Orders |-> "NONE"]
    /\ line = [o \in Orders |-> [k \in Rows |-> 0]]
    /\ resv = [o \in Orders |-> [k \in Rows |-> "NONE"]]
    /\ due = [o \in Orders |-> FALSE]
    /\ available = [k \in Rows |-> 0]

\* The units of row k in the lines R.
Units(R, k) ==
    Cardinality({u \in Orders \X (1 .. MaxQty) : <<u[1], k>> \in R /\ u[2] <= line[u[1]][k]})

Held(o)    == {r \in {o} \X Rows : resv[o][r[2]] = "ACTIVE"}
Granted(o) == {r \in {o} \X Rows : line[o][r[2]] > 0}

\* Until the deadline nothing of what was granted is missing.
Intact(o) == due[o] \/ Granted(o) \subseteq Held(o)

Ends(R, as) ==
    resv' = [o \in Orders |-> [k \in Rows |-> IF <<o, k>> \in R THEN as ELSE resv[o][k]]]

GiveBack(R) ==
    /\ Ends(R, "RELEASED")
    /\ available' = [k \in Rows |-> available[k] + Units(R, k)]

\* Granted as a whole, from what nobody holds.
Place(o, b) ==
    /\ status[o] = "NONE"
    /\ \A k \in Rows : b[k] <= available[k]
    /\ status' = [status EXCEPT ![o] = "RESERVED"]
    /\ line' = [line EXCEPT ![o] = b]
    /\ resv' = [resv EXCEPT ![o] = [k \in Rows |-> IF b[k] > 0 THEN "ACTIVE" ELSE "NONE"]]
    /\ available' = [k \in Rows |-> available[k] - b[k]]
    /\ UNCHANGED due

\* Payment begins, or is put off.
Move(o, from, to) ==
    /\ status[o] = from
    /\ Intact(o)
    /\ status' = [status EXCEPT ![o] = to]
    /\ UNCHANGED <<line, resv, due, available>>

Sell(o) ==
    /\ status[o] = "PROCESSING"
    /\ Intact(o)
    /\ status' = [status EXCEPT ![o] = "COMPLETED"]
    /\ Ends(Held(o), "CONSUMED")
    /\ UNCHANGED <<line, due, available>>

\* Cancelled by the client, or failed at the payment.
CallOff(o, from, to) ==
    /\ status[o] = from
    /\ Intact(o)
    /\ status' = [status EXCEPT ![o] = to]
    /\ GiveBack(Held(o))
    /\ UNCHANGED <<line, due>>

\* Only lines past their deadline end without their order, and it ends with the first of
\* them unless the payment has begun.
Overdue == {r \in Orders \X Rows : due[r[1]] /\ resv[r[1]][r[2]] = "ACTIVE"}

Expire(R) ==
    /\ R # {}
    /\ GiveBack(R)
    /\ status' = [o \in Orders |-> IF status[o] = "RESERVED" /\ \E k \in Rows : <<o, k>> \in R
                                   THEN "EXPIRED" ELSE status[o]]
    /\ UNCHANGED <<line, due>>

FallsDue(o) ==
    /\ status[o] # "NONE"
    /\ ~due[o]
    /\ due' = [due EXCEPT ![o] = TRUE]
    /\ UNCHANGED <<status, line, resv, available>>

\* An adjustment takes nothing that is held.
Adjust(k, d) ==
    /\ available[k] + d >= 0
    /\ available' = [available EXCEPT ![k] = @ + d]
    /\ UNCHANGED <<status, line, resv, due>>

Next ==
    \/ \E o \in Orders, b \in Baskets : Place(o, b)
    \/ \E o \in Orders : Move(o, "RESERVED", "PROCESSING") \/ Move(o, "PROCESSING", "RESERVED")
    \/ \E o \in Orders : Sell(o) \/ FallsDue(o)
    \/ \E o \in Orders : CallOff(o, "RESERVED", "CANCELLED") \/ CallOff(o, "PROCESSING", "FAILED")
    \/ \E R \in SUBSET Overdue : Expire(R)
    \/ \E k \in Rows, d \in Deltas : Adjust(k, d)

Spec == Init /\ [][Next]_vars

=============================================================================
