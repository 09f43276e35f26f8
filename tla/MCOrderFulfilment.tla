-------------------------- MODULE MCOrderFulfilment --------------------------
(* Instance of OrderFulfilment for TLC: two orders of one customer that      *)
(* share a variant; the first has a second line as well.                     *)
EXTENDS OrderFulfilment, TLC

CONSTANTS o1, o2, v1, v2, c1

MCLines == (o1 :> (v1 :> 1 @@ v2 :> 1)) @@ (o2 :> (v1 :> 1 @@ v2 :> 0))
MCOneCustomer == o1 :> c1 @@ o2 :> c1
MCInitialStock == [v \in Variants |-> IF v = v1 THEN 2 ELSE 1]

\* The two requests are interchangeable: NoOne is not one of them, nothing orders
\* them, and no liveness is checked here.
WorkerSymmetry == Permutations(Workers)
=============================================================================
