------------------------------ MODULE MCOutbox -------------------------------
(* A small instance of Outbox for TLC.                                     *)
EXTENDS Outbox, TLC

CONSTANTS e1, e2, e3

\* Two events of the same moment, and a later one.
MCCreatedAt == e1 :> 0 @@ e2 :> 0 @@ e3 :> 1
=============================================================================
