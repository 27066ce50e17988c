-------------------------- MODULE MCOrderLifecycle --------------------------
(* Small instances of OrderLifecycle for TLC.                              *)
EXTENDS OrderLifecycle, TLC

\* A delivery of two units, and a write-off of two that nobody holds.
MCDeltas == {-2, 2}

\* Workers are interchangeable; orders, products and warehouses are too, as no
\* property names one. Not used with liveness properties.
MCSymmetry ==
    Permutations(Orders) \cup Permutations(Workers)
        \cup Permutations(Products) \cup Permutations(Warehouses)
=============================================================================
