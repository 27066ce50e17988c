---------------------------- MODULE MCStockLedger ---------------------------
(* Small instances of StockLedger for TLC.                                 *)
EXTENDS StockLedger

MCDeltas == {-2, -1, 0, 1, 3}
MCThresholds == {0, 1, 2}
=============================================================================
