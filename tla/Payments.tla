------------------------------- MODULE Payments -------------------------------
(***************************************************************************)
(* payment.service around one order: shoppers initiate payments, the       *)
(* gateway delivers webhook events more than once and in any order, staff  *)
(* move the order and refund payments.  A webhook is one transaction on the*)
(* payment row followed, outside it, by the confirmation of the order; a   *)
(* refund calls the gateway before its own transaction commits; the process*)
(* may die in both gaps.  Order transitions are atomic here, their inside  *)
(* is OrderFulfilment.                                                     *)
(***************************************************************************)
EXTENDS Integers, FiniteSets, OrderTransitions

CONSTANTS Payments,    \* gateway-side payment intents that may come to exist
          Amount,      \* the order's total, in units of the smallest refund
          Workers,     \* requests in flight at the same time
          MaxCrashes   \* bound: requests that die half-way

ASSUME PaymentsAssumption == Amount \in Nat \ {0} /\ MaxCrashes \in Nat

VARIABLES order,       \* the order row
          payment,     \* per intent: the payments row (status "NONE" if not inserted)
          refunds,     \* per intent: sum of its COMPLETED refund rows
          gateway,     \* per intent: does it exist, and what the gateway paid back
          unanswered,  \* events that took effect but were not answered with 200
          proc,        \* per request: the step it is at
          crashes,     \* requests that died so far
          unconfirmed  \* history: a confirmation after a capture has failed

vars == <<order, payment, refunds, gateway, unanswered, proc, crashes, unconfirmed>>

PaymentStatus == {"CREATED", "CAPTURED", "FAILED", "PARTIALLY_REFUNDED", "REFUNDED"}
OrderPaymentStatus == {"UNPAID", "PAID", "PARTIALLY_REFUNDED", "REFUNDED"}

\* What a webhook says; "other" is a status the service does not act on.
Kinds == {"captured", "failed", "other"}
Events == [payment : Payments, kind : Kinds]

Idle == [at |-> "idle"]
Requests == {Idle}
  \union [at : {"creating"}, payment : Payments]
  \union [at : {"confirming"}, event : Events]
  \union [at : {"refunding"}, payment : Payments, amount : 1..Amount]

TypeOK ==
  /\ order \in [status : OrderStatus, paymentStatus : OrderPaymentStatus]
  /\ payment \in [Payments -> [status : PaymentStatus \union {"NONE"}, processed : SUBSET Kinds]]
  /\ refunds \in [Payments -> 0..Amount]
  /\ gateway \in [Payments -> [intent : BOOLEAN, refunded : Nat]]
  /\ unanswered \subseteq Events
  /\ proc \in [Workers -> Requests]
  /\ crashes \in 0..MaxCrashes
  /\ unconfirmed \in BOOLEAN

Init ==
  /\ order = [status |-> "PENDING", paymentStatus |-> "UNPAID"]
  /\ payment = [p \in Payments |-> [status |-> "NONE", processed |-> {}]]
  /\ refunds = [p \in Payments |-> 0]
  /\ gateway = [p \in Payments |-> [intent |-> FALSE, refunded |-> 0]]
  /\ unanswered = {}
  /\ proc = [w \in Workers |-> Idle]
  /\ crashes = 0
  /\ unconfirmed = FALSE

\* A refund holds the payment's row lock until it ends; everybody who reads the
\* row for update waits for it.
RowFree(p) == \A w \in Workers : ~(proc[w].at = "refunding" /\ proc[w].payment = p)

-----------------------------------------------------------------------------
\* initiate

HasActive == \E p \in Payments : payment[p].status \in {"CREATED", "CAPTURED"}

\* Reads the order and its payments, without a lock; nothing is captured or in
\* flight, so it asks the gateway for a new intent.  (Otherwise the request ends
\* with 409 or with the intent that exists, and changes nothing.)
InitiateAtGateway(w) ==
  /\ proc[w].at = "idle"
  /\ order.paymentStatus # "PAID" /\ ~HasActive
  /\ \E p \in Payments :
       /\ ~gateway[p].intent
       /\ gateway' = [gateway EXCEPT ![p].intent = TRUE]
       /\ proc' = [proc EXCEPT ![w] = [at |-> "creating", payment |-> p]]
  /\ UNCHANGED <<order, payment, refunds, unanswered, crashes, unconfirmed>>

\* Inserts the payments row for the intent.
InitiateRow(w) ==
  /\ proc[w].at = "creating"
  /\ payment' = [payment EXCEPT ![proc[w].payment].status = "CREATED"]
  /\ proc' = [proc EXCEPT ![w] = Idle]
  /\ UNCHANGED <<order, refunds, gateway, unanswered, crashes, unconfirmed>>

-----------------------------------------------------------------------------
\* handleWebhook.  Two deliveries change nothing: an event of an intent without
\* payments row (404), and one whose amount is not the order's: the service marks
\* the payment FAILED and throws, which rolls the mark back with the rest (409).

Refunded(p) == payment[p].status \in {"REFUNDED", "PARTIALLY_REFUNDED"}

\* The webhook transaction has the payment's row lock.
Delivered(w, e) ==
  /\ proc[w].at = "idle"
  /\ payment[e.payment].status # "NONE"
  /\ RowFree(e.payment)

\* 200, and nothing more to do for the event.
Answer(w, e) ==
  /\ proc' = [proc EXCEPT ![w] = Idle]
  /\ unanswered' = unanswered \ {e}

\* The transaction has committed; the confirmation of the order comes next.
ThenConfirm(w, e) ==
  /\ proc' = [proc EXCEPT ![w] = [at |-> "confirming", event |-> e]]
  /\ unanswered' = unanswered \union {e}

Process(e, status) ==
  payment' = [payment EXCEPT ![e.payment] = [status |-> status, processed |-> @.processed \union {e.kind}]]

\* (Slip used to test the properties: every status may still be mutated.)
Fresh_AnyStatus(e) == e.kind \notin payment[e.payment].processed

\* Not stopped by the guards on refunded payments and on repeated events.
Fresh(e) == ~Refunded(e.payment) /\ e.kind \notin payment[e.payment].processed

\* (Slip: failures are applied whenever they arrive.)
LateFailure_Never(e) == FALSE

\* A capture cannot be reverted by a failure that arrives late.
LateFailure(e) == payment[e.payment].status = "CAPTURED" /\ e.kind = "failed"

\* A refunded payment ignores the event; a replay of a processed event has
\* nothing left to do.
WebhookIgnored(w) == \E e \in Events :
  /\ Delivered(w, e)
  /\ \/ Refunded(e.payment)
     \/ /\ e.kind \in payment[e.payment].processed
        /\ ~(payment[e.payment].status = "CAPTURED" /\ order.status = "PENDING")
  /\ e \in unanswered
  /\ Answer(w, e)
  /\ UNCHANGED <<order, payment, refunds, gateway, crashes, unconfirmed>>

\* (Slip: a replay is answered at once, whatever became of the order.)
WebhookReplayed_NoHealing(w) == \E e \in Events :
  /\ Delivered(w, e)
  /\ ~Refunded(e.payment) /\ e.kind \in payment[e.payment].processed
  /\ payment[e.payment].status = "CAPTURED" /\ order.status = "PENDING"
  /\ Answer(w, e)
  /\ UNCHANGED <<order, payment, refunds, gateway, crashes, unconfirmed>>

\* A replay that finds the captured payment's order still PENDING heals it.
WebhookReplayed(w) == \E e \in Events :
  /\ Delivered(w, e)
  /\ ~Refunded(e.payment) /\ e.kind \in payment[e.payment].processed
  /\ payment[e.payment].status = "CAPTURED" /\ order.status = "PENDING"
  /\ ThenConfirm(w, e)
  /\ UNCHANGED <<order, payment, refunds, gateway, crashes, unconfirmed>>

\* A late failure is only recorded.
WebhookRecorded(w) == \E e \in Events :
  /\ Delivered(w, e) /\ Fresh(e) /\ LateFailure(e)
  /\ Process(e, payment[e.payment].status)
  /\ Answer(w, e)
  /\ UNCHANGED <<order, refunds, gateway, crashes, unconfirmed>>

\* (Slip: the order is not marked in the transaction of the capture.)
WebhookCaptured_OrderLater(w) == \E e \in Events :
  /\ Delivered(w, e) /\ Fresh(e) /\ e.kind = "captured"
  /\ Process(e, "CAPTURED")
  /\ ThenConfirm(w, e)
  /\ UNCHANGED <<order, refunds, gateway, crashes, unconfirmed>>

\* A capture: payment and order are marked in the transaction.
WebhookCaptured(w) == \E e \in Events :
  /\ Delivered(w, e) /\ Fresh(e) /\ e.kind = "captured"
  /\ Process(e, "CAPTURED")
  /\ order' = [order EXCEPT !.paymentStatus = "PAID"]
  /\ ThenConfirm(w, e)
  /\ UNCHANGED <<refunds, gateway, crashes, unconfirmed>>

\* A failure, or a status the service does not act on; another status event of
\* a payment already captured confirms as a capture does.
WebhookOther(w) == \E e \in Events :
  /\ Delivered(w, e) /\ Fresh(e) /\ ~LateFailure(e) /\ e.kind \in {"failed", "other"}
  /\ Process(e, IF e.kind = "failed" THEN "FAILED" ELSE payment[e.payment].status)
  /\ IF payment[e.payment].status = "CAPTURED"
       THEN order' = [order EXCEPT !.paymentStatus = "PAID"] /\ ThenConfirm(w, e)
       ELSE UNCHANGED order /\ Answer(w, e)
  /\ UNCHANGED <<refunds, gateway, crashes, unconfirmed>>

Moved(s) == [order EXCEPT !.status = s]

\* After the transaction: order.service.transition if the order is PENDING.
\* Its failure is logged and the gateway gets its 200 all the same.
Confirm(w) ==
  /\ proc[w].at = "confirming"
  /\ \/ /\ order.status = "PENDING"
        /\ order' = Moved("CONFIRMED")
        /\ UNCHANGED unconfirmed
     \/ /\ order.status = "PENDING"
        /\ unconfirmed' = TRUE
        /\ UNCHANGED order
     \/ order.status # "PENDING" /\ UNCHANGED <<order, unconfirmed>>
  /\ Answer(w, proc[w].event)
  /\ UNCHANGED <<payment, refunds, gateway, crashes>>

-----------------------------------------------------------------------------
\* refund

\* The row is locked, the amount checked against what is left, and the gateway
\* pays back.
RefundAtGateway(w) ==
  /\ proc[w].at = "idle"
  /\ \E p \in Payments :
       /\ RowFree(p)
       /\ payment[p].status \in {"CAPTURED", "PARTIALLY_REFUNDED"}
       /\ \E a \in 1..(Amount - refunds[p]) :
            /\ gateway' = [gateway EXCEPT ![p].refunded = @ + a]
            /\ proc' = [proc EXCEPT ![w] = [at |-> "refunding", payment |-> p, amount |-> a]]
  /\ UNCHANGED <<order, payment, refunds, unanswered, crashes, unconfirmed>>

\* (Slip: every fully refunded order becomes REFUNDED.)
RefundRow_AnyStatus(w) ==
  LET p == proc[w].payment
      total == refunds[p] + proc[w].amount
      status == IF total >= Amount THEN "REFUNDED" ELSE "PARTIALLY_REFUNDED"
  IN  /\ proc[w].at = "refunding"
      /\ refunds' = [refunds EXCEPT ![p] = total]
      /\ payment' = [payment EXCEPT ![p].status = status]
      /\ order' = [order EXCEPT !.paymentStatus = status, !.status = IF status = "REFUNDED" THEN "REFUNDED" ELSE @]
      /\ proc' = [proc EXCEPT ![w] = Idle]
      /\ UNCHANGED <<gateway, unanswered, crashes, unconfirmed>>

\* Refund row, payment and order are written and committed.  A returned order
\* becomes REFUNDED here, without order.service and without a history row.
\* (The order is read just before, without a lock.  A transition that slips in
\* changes nothing: from RETURNED the table leads only to REFUNDED.)
RefundRow(w) ==
  LET p == proc[w].payment
      total == refunds[p] + proc[w].amount
      status == IF total >= Amount THEN "REFUNDED" ELSE "PARTIALLY_REFUNDED"
  IN  /\ proc[w].at = "refunding"
      /\ refunds' = [refunds EXCEPT ![p] = total]
      /\ payment' = [payment EXCEPT ![p].status = status]
      /\ order' = [order EXCEPT !.paymentStatus = status,
                      !.status = IF status = "REFUNDED" /\ @ = "RETURNED" THEN "REFUNDED" ELSE @]
      /\ proc' = [proc EXCEPT ![w] = Idle]
      /\ UNCHANGED <<gateway, unanswered, crashes, unconfirmed>>

-----------------------------------------------------------------------------

\* Staff move the order through order.service.transition.
MoveOrder == \E s \in OrderStatus :
  /\ CanTransition(order.status, s)
  /\ order' = Moved(s)
  /\ UNCHANGED <<payment, refunds, gateway, unanswered, proc, crashes, unconfirmed>>

\* A request dies between its two steps; what it had committed stays.
Crash(w) ==
  /\ proc[w].at # "idle"
  /\ crashes < MaxCrashes
  /\ proc' = [proc EXCEPT ![w] = Idle]
  /\ crashes' = crashes + 1
  /\ UNCHANGED <<order, payment, refunds, gateway, unanswered, unconfirmed>>

Redeliver(w) == WebhookIgnored(w) \/ WebhookReplayed(w)

Finish(w) == InitiateRow(w) \/ Confirm(w) \/ RefundRow(w)

Next ==
  \/ MoveOrder
  \/ \E w \in Workers :
       \/ InitiateAtGateway(w) \/ RefundAtGateway(w) \/ Finish(w) \/ Crash(w)
       \/ Redeliver(w) \/ WebhookRecorded(w) \/ WebhookCaptured(w)
       \/ WebhookOther(w)

\* A request that does not die ends, and the gateway repeats an event until it
\* is answered with 200.
Fairness == /\ \A w \in Workers : WF_vars(Finish(w))
            /\ SF_vars(\E w \in Workers : Redeliver(w))

Spec == Init /\ [][Next]_vars
FairSpec == Spec /\ Fairness

-----------------------------------------------------------------------------

\* The refund rows of a payment never exceed it, its status says how much was
\* refunded, and every refund row was paid back by the gateway, with refunds
\* and webhooks of the same payment running concurrently.
RefundsWithinPayment ==
  \A p \in Payments :
    /\ payment[p].status = "REFUNDED" <=> refunds[p] = Amount
    /\ payment[p].status = "PARTIALLY_REFUNDED" <=> refunds[p] \in 1..(Amount - 1)
    /\ refunds[p] <= gateway[p].refunded

Progress(from, to) ==
  CASE from = "CAPTURED" -> to \in {"CAPTURED", "PARTIALLY_REFUNDED", "REFUNDED"}
    [] from = "PARTIALLY_REFUNDED" -> to \in {"PARTIALLY_REFUNDED", "REFUNDED"}
    [] from = "REFUNDED" -> to = "REFUNDED"
    [] OTHER -> TRUE

\* Repeated, late or reordered webhooks never take a payment back: neither from
\* captured to failed nor from refunded to captured.
CapturesAreNeverReverted ==
  [][\A p \in Payments : Progress(payment[p].status, payment'[p].status)]_vars

Collected == {p \in Payments : payment[p].status \in {"CAPTURED", "PARTIALLY_REFUNDED", "REFUNDED"}}

\* The order is marked paid exactly when money was collected for it, and while
\* a single payment was collected, it shows that payment's state.
OrderReflectsPayment ==
  /\ order.paymentStatus = "UNPAID" <=> Collected = {}
  /\ \A p \in Collected : Collected = {p} =>
       order.paymentStatus = IF payment[p].status = "CAPTURED" THEN "PAID" ELSE payment[p].status

\* Webhook, refund and staff together: the status moves only along the table.
OrderFollowsTable ==
  [][order'.status # order.status => CanTransition(order.status, order'.status)]_vars

\* A crash between the capture and the confirmation heals: a captured payment
\* does not leave its order PENDING for ever, unless the confirmation itself
\* was tried and failed (payment.service.test.js, "self-heals an orphaned
\* payment on webhook redelivery").
CaptureConfirmsOrder ==
  (Collected # {} /\ order.status = "PENDING")
    ~> (order.status # "PENDING" \/ unconfirmed \/ \E p \in Payments : Refunded(p))

-----------------------------------------------------------------------------

\* payment.service.js:12: "Refuses a second payment attempt while one is already
\* in flight or already captured for this order".
OneAttemptAtATime ==
  Cardinality({p \in Payments : payment[p].status \in {"CREATED", "CAPTURED"}}) <= 1
=============================================================================
