------------------------------ MODULE StockRows -----------------------------
(* The inventory rows and what an order may ask of them.                   *)
EXTENDS Integers, Sequences

CONSTANTS
    Requests,    \* the requests that create orders, one order each
    Products,
    Warehouses,
    Deltas,      \* the manual adjustments tried
    MaxLines,    \* bound: lines per order
    MaxQty,      \* bound: units per line
    MaxStock     \* bound: units an adjustment leaves available in a row

ASSUME RowsAssumption ==
    /\ MaxLines \in Nat \ {0}
    /\ MaxQty \in Nat \ {0}
    /\ MaxStock \in Nat
    /\ Deltas \subseteq Int

Rows == Products \X Warehouses
RowsOf(p) == {p} \X Warehouses

\* No units of any row.
Nothing == [k \in Rows |-> 0]

\* payload.items: at least one line, at least one unit each, no product twice.
Lines == Products \X (1 .. MaxQty)
Wishes ==
    {w \in UNION {[1 .. n -> Lines] : n \in 1 .. MaxLines} :
        \A i, j \in DOMAIN w : w[i][1] = w[j][1] => i = j}
=============================================================================
