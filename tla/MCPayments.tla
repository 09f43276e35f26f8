----------------------------- MODULE MCPayments -----------------------------
(* Instance of Payments for TLC: interchangeable intents and requests. *)
EXTENDS Payments, TLC

Symmetry == Permutations(Payments) \union Permutations(Workers)
=============================================================================
