------------------------- MODULE MCStockReservation -------------------------
(* Small instances of StockReservation for TLC.                            *)
EXTENDS StockReservation

\* A write-off; stock comes back with the orders.
MCDeltas == {-1}
=============================================================================
