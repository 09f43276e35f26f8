------------------------------ MODULE MCRewards ------------------------------
(* Instance of Rewards for TLC: interchangeable requests and orders. *)
EXTENDS Rewards, TLC

Symmetry == Permutations(Workers) \union Permutations(Orders)
=============================================================================
