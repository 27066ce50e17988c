----------------------------- MODULE MCCatalog -----------------------------
EXTENDS Catalog

(* Adding, removing less than, and removing more than was added. *)
MCQuantities == {2, -1, -2}
=============================================================================
