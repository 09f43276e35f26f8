---------------------------- MODULE MCInventoryTx ----------------------------
(* Instance of InventoryTx for TLC: interchangeable requests. *)
EXTENDS InventoryTx, TLC

Symmetry == Permutations(Workers)
=============================================================================
