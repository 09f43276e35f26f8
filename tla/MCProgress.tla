------------------------------ MODULE MCProgress ------------------------------
(***************************************************************************)
(* Instance for TLC of what must eventually happen to an order: requests   *)
(* of OrderFulfilment end although connections run out, and Payments heals *)
(* an order whose confirmation was lost.  A behaviour exercises one of the *)
(* two ("focus") and the other rests in its initial state, in which nothing*)
(* is enabled that its fairness is about.                                  *)
(***************************************************************************)
EXTENDS TLC

CONSTANTS o1, o2, v1, c1, c2,   \* two orders of one line, each of its own customer
          p1, w1, w2            \* one payment; two requests

VARIABLES status, history, stock, moved, restored, orderCount, crossed, lock, transition, failed, corrections,
          order, payment, refunds, gateway, unanswered, proc, crashes, unconfirmed,
          focus

Fulfilment == INSTANCE OrderFulfilment WITH
  Orders <- {o1, o2}, Variants <- {v1}, Lines <- [o \in {o1, o2} |-> [v \in {v1} |-> 1]],
  InitialStock <- [v \in {v1} |-> 2], Quantities <- {1}, NoRow <- 0,
  Customers <- {c1, c2}, CustomerOf <- o1 :> c1 @@ o2 :> c2, WalletOrders <- {},
  NotPlaced <- "NOT_PLACED", Workers <- {w1, w2}, NoOne <- "nobody", PoolSize <- 2, MayFail <- FALSE,
  MaxFailures <- 1, MaxCorrections <- 0, proc <- transition

Collection == INSTANCE Payments WITH
  Payments <- {p1}, Amount <- 2, Workers <- {w1, w2}, MaxCrashes <- 1

fulfilmentVars ==
  <<status, history, stock, moved, restored, orderCount, crossed, lock, transition, failed, corrections>>
paymentVars == <<order, payment, refunds, gateway, unanswered, proc, crashes, unconfirmed>>
progressVars == <<fulfilmentVars, paymentVars, focus>>

ProgressInit == focus \in {"fulfilment", "payment"} /\ Fulfilment!Init /\ Collection!Init

ProgressNext ==
  \/ focus = "fulfilment" /\ Fulfilment!Next /\ UNCHANGED <<paymentVars, focus>>
  \/ focus = "payment" /\ Collection!Next /\ UNCHANGED <<fulfilmentVars, focus>>

ProgressSpec == ProgressInit /\ [][ProgressNext]_progressVars /\ Fulfilment!Fairness /\ Collection!Fairness

\* Every transition request ends, although each holds a connection and needs another
\* one (order.service.js:96-159).
EveryRequestEnds == Fulfilment!EveryRequestEnds

\* A captured payment does not leave its order PENDING for ever
\* (payment.service.js:51-112).
CaptureConfirmsOrder == Collection!CaptureConfirmsOrder
=============================================================================
