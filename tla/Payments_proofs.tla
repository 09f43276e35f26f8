---------------------------- MODULE Payments_proofs ----------------------------
(***************************************************************************)
(* Payments, for any number of payments, requests and crashes and any      *)
(* amount: whatever order webhooks, refunds and staff come in, captures    *)
(* stay, refunds stay within their payment, and the order says what was    *)
(* collected and moves along the table.                                    *)
(***************************************************************************)
EXTENDS Payments, TLAPS

-----------------------------------------------------------------------------
\* The inductive invariant: what a request may rely on between its steps.

\* Only intents of the gateway have rows.
Known == \A p \in Payments : payment[p].status # "NONE" => gateway[p].intent

\* A request that has created an intent is the only one to insert its row.
Creating(w) ==
  proc[w].at = "creating" =>
    /\ payment[proc[w].payment].status = "NONE"
    /\ gateway[proc[w].payment].intent
    /\ \A v \in Workers : proc[v].at = "creating" /\ proc[v].payment = proc[w].payment => v = w

\* A request that refunds is the only one to do so for its payment, and the
\* gateway has paid back what it is about to record.
Refunding(w) ==
  LET p == proc[w].payment
      total == refunds[p] + proc[w].amount
  IN  proc[w].at = "refunding" =>
        /\ payment[p].status \in {"CAPTURED", "PARTIALLY_REFUNDED"}
        /\ total <= Amount /\ total <= gateway[p].refunded
        /\ \A v \in Workers : proc[v].at = "refunding" /\ proc[v].payment = p => v = w

IInv ==
  /\ TypeOK
  /\ RefundsWithinPayment
  /\ OrderReflectsPayment
  /\ Known
  /\ \A w \in Workers : Creating(w) /\ Refunding(w)

-----------------------------------------------------------------------------
\* Facts about single steps.

\* The other requests' records stay.
LEMMA OneRequestMoves ==
  ASSUME TypeOK, NEW w \in Workers, NEW t \in Requests, proc' = [proc EXCEPT ![w] = t]
  PROVE  /\ proc' \in [Workers -> Requests]
         /\ proc'[w] = t
         /\ \A v \in Workers : v # w => proc'[v] = proc[v]
BY DEF TypeOK

\* What a request at a step carries.
LEMMA Carried ==
  ASSUME TypeOK, NEW w \in Workers
  PROVE  /\ proc[w].at = "creating" => proc[w].payment \in Payments
         /\ proc[w].at = "confirming" => proc[w].event \in Events
         /\ proc[w].at = "refunding" => proc[w].payment \in Payments /\ proc[w].amount \in 1..Amount
         /\ Idle \in Requests
<1>1. proc[w] \in Requests
  BY DEF TypeOK
<1> QED
  BY <1>1 DEF Requests, Idle

\* A request ends or goes on to confirm, and nobody else's payment changes.
LEMMA OthersUndisturbed ==
  ASSUME IInv, NEW w \in Workers, NEW t \in Requests, t.at \notin {"creating", "refunding"},
         proc' = [proc EXCEPT ![w] = t],
         \A v \in Workers : v # w /\ proc[v].at \in {"creating", "refunding"} =>
           LET q == proc[v].payment
           IN  payment'[q] = payment[q] /\ refunds'[q] = refunds[q] /\ gateway'[q] = gateway[q]
  PROVE  \A v \in Workers : Creating(v)' /\ Refunding(v)'
<1>1. proc'[w] = t /\ \A v \in Workers : v # w => proc'[v] = proc[v]
  BY OneRequestMoves DEF IInv
<1> SUFFICES ASSUME NEW v \in Workers PROVE Creating(v)' /\ Refunding(v)'
  OBVIOUS
<1>2. CASE v = w
  BY <1>1, <1>2 DEF Creating, Refunding
<1>3. CASE v # w
  <2>1. proc'[v] = proc[v] /\ Creating(v) /\ Refunding(v)
    BY <1>1, <1>3 DEF IInv
  <2>2. Creating(v)'
    BY <1>1, <1>3, <2>1 DEF Creating
  <2>3. Refunding(v)'
    BY <1>1, <1>3, <2>1 DEF Refunding
  <2> QED
    BY <2>2, <2>3
<1> QED
  BY <1>2, <1>3

\* No payment exists, nothing is collected and nobody does anything.
LEMMA Initially == Init => IInv
<1> SUFFICES ASSUME Init PROVE IInv
  OBVIOUS
<1> USE PaymentsAssumption DEF Init
<1>1. TypeOK
  <2>1. order \in [status : OrderStatus, paymentStatus : OrderPaymentStatus]
    BY DEF OrderStatus, OrderPaymentStatus
  <2>2. payment \in [Payments -> [status : PaymentStatus \union {"NONE"}, processed : SUBSET Kinds]]
    OBVIOUS
  <2>3. proc \in [Workers -> Requests]
    BY DEF Requests
  <2>4. gateway \in [Payments -> [intent : BOOLEAN, refunded : Nat]]
    OBVIOUS
  <2>5. refunds \in [Payments -> 0..Amount] /\ crashes \in 0..MaxCrashes
    OBVIOUS
  <2> QED
    BY <2>1, <2>2, <2>3, <2>4, <2>5 DEF TypeOK
<1>2. RefundsWithinPayment
  BY DEF RefundsWithinPayment
<1>3. OrderReflectsPayment
  BY DEF OrderReflectsPayment, Collected
<1>4. Known /\ \A w \in Workers : Creating(w) /\ Refunding(w)
  BY DEF Known, Creating, Refunding, Idle
<1> QED
  BY <1>1, <1>2, <1>3, <1>4 DEF IInv

-----------------------------------------------------------------------------
\* One lemma per operation.

\* A new intent has no row and no other request.
LEMMA InitiateAtGatewayKeeps ==
  ASSUME IInv, NEW w \in Workers, InitiateAtGateway(w)
  PROVE  IInv'
<1>0. PICK p \in Payments : /\ ~gateway[p].intent
                            /\ gateway' = [gateway EXCEPT ![p].intent = TRUE]
                            /\ proc' = [proc EXCEPT ![w] = [at |-> "creating", payment |-> p]]
  BY DEF InitiateAtGateway
<1> DEFINE t == [at |-> "creating", payment |-> p]
<1>1. t \in Requests
  BY DEF Requests
<1>2. /\ proc' \in [Workers -> Requests] /\ proc'[w] = t
      /\ \A v \in Workers : v # w => proc'[v] = proc[v]
  BY <1>0, <1>1, OneRequestMoves DEF IInv
<1>3. UNCHANGED <<order, payment, refunds, unanswered, crashes, unconfirmed>>
  BY DEF InitiateAtGateway
<1>4. /\ gateway' \in [Payments -> [intent : BOOLEAN, refunded : Nat]]
      /\ gateway'[p].intent
      /\ \A q \in Payments : q # p => gateway'[q] = gateway[q]
      /\ \A q \in Payments : gateway'[q].refunded = gateway[q].refunded
  BY <1>0 DEF IInv, TypeOK
<1>5. TypeOK'
  BY <1>2, <1>3, <1>4 DEF IInv, TypeOK
<1>6. RefundsWithinPayment' /\ OrderReflectsPayment'
  BY <1>3, <1>4 DEF IInv, RefundsWithinPayment, OrderReflectsPayment, Collected
<1>7. Known' /\ payment[p].status = "NONE"
  BY <1>0, <1>3, <1>4 DEF IInv, Known
<1>8. ASSUME NEW v \in Workers PROVE Creating(v)' /\ Refunding(v)'
  <2>1. CASE v = w
    BY <1>0, <1>2, <1>3, <1>4, <1>7, <2>1 DEF IInv, Creating, Refunding
  <2>2. CASE v # w
    <3>1. proc'[v] = proc[v] /\ Creating(v) /\ Refunding(v)
      BY <1>2, <2>2 DEF IInv
    <3>2. proc[v].at = "creating" => proc[v].payment \in Payments /\ proc[v].payment # p
      BY <1>0, <3>1, Carried DEF IInv, Creating
    <3>3. Creating(v)'
      BY <1>2, <1>3, <1>4, <3>1, <3>2 DEF Creating
    <3>4. proc[v].at = "refunding" => proc[v].payment \in Payments
      BY Carried DEF IInv
    <3>5. Refunding(v)'
      BY <1>2, <1>3, <1>4, <3>1, <3>4 DEF Refunding
    <3> QED
      BY <3>3, <3>5
  <2> QED
    BY <2>1, <2>2
<1> QED
  BY <1>5, <1>6, <1>7, <1>8 DEF IInv

\* The row is inserted; the payment becomes a live one.
LEMMA InitiateRowKeeps ==
  ASSUME IInv, NEW w \in Workers, InitiateRow(w)
  PROVE  IInv'
<1> DEFINE p == proc[w].payment
<1>0. p \in Payments /\ payment[p].status = "NONE" /\ gateway[p].intent /\ Idle \in Requests
  BY Carried DEF IInv, InitiateRow, Creating
<1>1. /\ payment' = [payment EXCEPT ![p].status = "CREATED"]
      /\ UNCHANGED <<order, refunds, gateway, unanswered, crashes, unconfirmed>>
  BY DEF InitiateRow
<1>2. /\ proc' \in [Workers -> Requests] /\ proc'[w] = Idle
      /\ \A v \in Workers : v # w => proc'[v] = proc[v]
  BY <1>0, OneRequestMoves DEF IInv, InitiateRow
<1>3. /\ payment' \in [Payments -> [status : PaymentStatus \union {"NONE"}, processed : SUBSET Kinds]]
      /\ payment'[p].status = "CREATED"
      /\ \A q \in Payments : q # p => payment'[q] = payment[q]
  BY <1>0, <1>1 DEF IInv, TypeOK, PaymentStatus
<1>4. TypeOK'
  BY <1>1, <1>2, <1>3 DEF IInv, TypeOK
<1>5. RefundsWithinPayment'
  BY <1>0, <1>1, <1>3 DEF IInv, RefundsWithinPayment
<1>6. OrderReflectsPayment'
  <2>1. Collected' = Collected
    BY <1>0, <1>3 DEF Collected
  <2>2. p \notin Collected
    BY <1>0 DEF Collected
  <2> QED
    BY <1>1, <1>3, <2>1, <2>2 DEF IInv, OrderReflectsPayment
<1>7. Known'
  BY <1>0, <1>1, <1>3 DEF IInv, Known
<1>8. \A v \in Workers : Creating(v)' /\ Refunding(v)'
  <2>1. ASSUME NEW v \in Workers, v # w, proc[v].at \in {"creating", "refunding"}
        PROVE  proc[v].payment \in Payments /\ proc[v].payment # p
    BY <1>0, <2>1, Carried DEF IInv, Creating, Refunding, InitiateRow
  <2>2. Idle.at \notin {"creating", "refunding"}
    BY DEF Idle
  <2>3. \A v \in Workers : v # w /\ proc[v].at \in {"creating", "refunding"} =>
          LET q == proc[v].payment
          IN  payment'[q] = payment[q] /\ refunds'[q] = refunds[q] /\ gateway'[q] = gateway[q]
    BY <1>1, <1>3, <2>1
  <2>4. proc' = [proc EXCEPT ![w] = Idle]
    BY DEF InitiateRow
  <2> HIDE DEF p
  <2> QED
    BY <1>0, <2>2, <2>3, <2>4, OthersUndisturbed
<1> QED
  BY <1>4, <1>5, <1>6, <1>7, <1>8 DEF IInv

\* Nothing changes but the order's status, a request that ends or confirms, and
\* the bookkeeping of deliveries and crashes.
LEMMA PaymentsStay ==
  ASSUME IInv, NEW w \in Workers, NEW t \in Requests, t.at \notin {"creating", "refunding"},
         proc' = [proc EXCEPT ![w] = t],
         order' = order \/ \E s \in OrderStatus : order' = Moved(s),
         UNCHANGED <<payment, refunds, gateway>>,
         unanswered' \subseteq Events, crashes' \in 0..MaxCrashes, unconfirmed' \in BOOLEAN
  PROVE  IInv'
<1>1. proc' \in [Workers -> Requests]
  BY OneRequestMoves DEF IInv
<1>2. order' \in [status : OrderStatus, paymentStatus : OrderPaymentStatus]
      /\ order'.paymentStatus = order.paymentStatus
  BY DEF IInv, TypeOK, Moved
<1>3. TypeOK'
  BY <1>1, <1>2 DEF IInv, TypeOK
<1>4. RefundsWithinPayment' /\ OrderReflectsPayment' /\ Known'
  BY <1>2 DEF IInv, RefundsWithinPayment, OrderReflectsPayment, Known, Collected
<1>5. \A v \in Workers : Creating(v)' /\ Refunding(v)'
  BY OthersUndisturbed
<1> QED
  BY <1>3, <1>4, <1>5 DEF IInv

\* Staff move the order.
LEMMA MoveOrderKeeps == IInv /\ MoveOrder => IInv'
<1> SUFFICES ASSUME IInv, MoveOrder PROVE IInv'
  OBVIOUS
<1>1. order' \in [status : OrderStatus, paymentStatus : OrderPaymentStatus]
      /\ order'.paymentStatus = order.paymentStatus
  BY DEF IInv, TypeOK, MoveOrder, Moved
<1>2. TypeOK'
  BY <1>1 DEF IInv, TypeOK, MoveOrder
<1>3. RefundsWithinPayment' /\ OrderReflectsPayment' /\ Known'
  BY <1>1 DEF IInv, MoveOrder, RefundsWithinPayment, OrderReflectsPayment, Known, Collected
<1>4. \A v \in Workers : Creating(v)' /\ Refunding(v)'
  BY DEF IInv, MoveOrder, Creating, Refunding
<1> QED
  BY <1>2, <1>3, <1>4 DEF IInv

\* A delivery that is answered at once, or only repeats the confirmation.
LEMMA RedeliverKeeps ==
  ASSUME IInv, NEW w \in Workers, Redeliver(w)
  PROVE  IInv'
<1>1. PICK e \in Events : Answer(w, e) \/ ThenConfirm(w, e)
  BY DEF Redeliver, WebhookIgnored, WebhookReplayed
<1>2. UNCHANGED <<order, payment, refunds, gateway, crashes, unconfirmed>>
  BY DEF Redeliver, WebhookIgnored, WebhookReplayed
<1>3. crashes' \in 0..MaxCrashes /\ unconfirmed' \in BOOLEAN /\ unanswered' \subseteq Events
  BY <1>1, <1>2 DEF IInv, TypeOK, Answer, ThenConfirm
<1>4. CASE Answer(w, e)
  <2>1. Idle \in Requests /\ Idle.at \notin {"creating", "refunding"}
    BY DEF Requests, Idle
  <2> QED
    BY <1>2, <1>3, <1>4, <2>1, PaymentsStay DEF Answer
<1>5. CASE ThenConfirm(w, e)
  <2> DEFINE t == [at |-> "confirming", event |-> e]
  <2>1. t \in Requests /\ t.at \notin {"creating", "refunding"}
    BY DEF Requests
  <2>2. proc' = [proc EXCEPT ![w] = t]
    BY <1>5 DEF ThenConfirm
  <2> HIDE DEF t
  <2> QED
    BY <1>2, <1>3, <2>1, <2>2, PaymentsStay
<1> QED
  BY <1>1, <1>4, <1>5

\* The confirmation moves a PENDING order or fails; the event is answered.
LEMMA ConfirmKeeps ==
  ASSUME IInv, NEW w \in Workers, Confirm(w)
  PROVE  IInv'
<1>1. Idle \in Requests /\ Idle.at \notin {"creating", "refunding"}
  BY DEF Requests, Idle
<1>2. order' = order \/ \E s \in OrderStatus : order' = Moved(s)
  BY DEF Confirm, OrderStatus
<1>3. unanswered' \subseteq Events /\ crashes' \in 0..MaxCrashes /\ unconfirmed' \in BOOLEAN
  BY DEF Confirm, Answer, IInv, TypeOK
<1>4. proc' = [proc EXCEPT ![w] = Idle] /\ UNCHANGED <<payment, refunds, gateway>>
  BY DEF Confirm, Answer
<1> QED
  BY <1>1, <1>2, <1>3, <1>4, PaymentsStay

\* A request dies.
LEMMA CrashKeeps ==
  ASSUME IInv, NEW w \in Workers, Crash(w)
  PROVE  IInv'
<1>1. Idle \in Requests /\ Idle.at \notin {"creating", "refunding"}
  BY DEF Requests, Idle
<1>2. crashes' \in 0..MaxCrashes
  BY PaymentsAssumption DEF Crash, IInv, TypeOK
<1>3. unanswered' \subseteq Events /\ unconfirmed' \in BOOLEAN
  BY DEF Crash, IInv, TypeOK
<1>4. proc' = [proc EXCEPT ![w] = Idle] /\ UNCHANGED <<order, payment, refunds, gateway>>
  BY DEF Crash
<1> QED
  BY <1>1, <1>2, <1>3, <1>4, PaymentsStay

\* A webhook transaction on a payment that nobody refunds marks it, and the order
\* is left alone or marked as paid.
LEMMA WebhookMarks ==
  ASSUME IInv, NEW w \in Workers, NEW e \in Events, Delivered(w, e), Fresh(e),
         NEW s \in {"CREATED", "CAPTURED", "FAILED"}, Process(e, s),
         Answer(w, e) \/ ThenConfirm(w, e),
         UNCHANGED <<refunds, gateway, crashes, unconfirmed>>,
         \/ /\ order' = order
            /\ s = "CAPTURED" <=> payment[e.payment].status = "CAPTURED"
         \/ /\ order' = [order EXCEPT !.paymentStatus = "PAID"]
            /\ s = "CAPTURED"
  PROVE  IInv'
<1> DEFINE p == e.payment
<1>0. p \in Payments /\ e.kind \in Kinds /\ payment[p].status \notin {"NONE", "REFUNDED", "PARTIALLY_REFUNDED"}
  BY DEF Events, Delivered, Fresh, Refunded
<1>1. /\ payment' \in [Payments -> [status : PaymentStatus \union {"NONE"}, processed : SUBSET Kinds]]
      /\ payment'[p].status = s
      /\ \A q \in Payments : q # p => payment'[q] = payment[q]
  <2>1. payment[p] \in [status : PaymentStatus \union {"NONE"}, processed : SUBSET Kinds]
    BY <1>0 DEF IInv, TypeOK
  <2>2. [status |-> s, processed |-> payment[p].processed \union {e.kind}]
          \in [status : PaymentStatus \union {"NONE"}, processed : SUBSET Kinds]
    BY <1>0, <2>1 DEF PaymentStatus
  <2>3. payment' = [payment EXCEPT ![p] = [status |-> s, processed |-> payment[p].processed \union {e.kind}]]
    BY DEF Process
  <2> QED
    BY <1>0, <2>2, <2>3 DEF IInv, TypeOK
<1>2. PICK t \in Requests : t.at \notin {"creating", "refunding"} /\ proc' = [proc EXCEPT ![w] = t]
  <2>1. CASE Answer(w, e)
    <3>1. Idle \in Requests /\ Idle.at \notin {"creating", "refunding"}
      BY DEF Requests, Idle
    <3> QED
      BY <2>1, <3>1 DEF Answer
  <2>2. CASE ThenConfirm(w, e)
    <3> DEFINE u == [at |-> "confirming", event |-> e]
    <3>1. u \in Requests /\ u.at \notin {"creating", "refunding"} /\ proc' = [proc EXCEPT ![w] = u]
      BY <2>2 DEF Requests, ThenConfirm
    <3> HIDE DEF u
    <3> QED
      BY <3>1
  <2> QED
    BY <2>1, <2>2
<1>3. order' \in [status : OrderStatus, paymentStatus : OrderPaymentStatus]
  BY DEF IInv, TypeOK, OrderPaymentStatus
<1>4. TypeOK'
  <2>1. proc' \in [Workers -> Requests]
    BY <1>2, OneRequestMoves DEF IInv
  <2>2. unanswered' \subseteq Events
    BY DEF IInv, TypeOK, Answer, ThenConfirm
  <2> QED
    BY <1>1, <1>3, <2>1, <2>2 DEF IInv, TypeOK
<1>5. RefundsWithinPayment'
  <2>1. ASSUME NEW q \in Payments
        PROVE  /\ payment'[q].status = "REFUNDED" <=> payment[q].status = "REFUNDED"
               /\ payment'[q].status = "PARTIALLY_REFUNDED" <=> payment[q].status = "PARTIALLY_REFUNDED"
    BY <1>0, <1>1
  <2> QED
    BY <2>1 DEF IInv, RefundsWithinPayment
<1>6. OrderReflectsPayment'
  <2>1. /\ p \in Collected <=> payment[p].status = "CAPTURED"
        /\ p \in Collected' <=> s = "CAPTURED"
        /\ \A q \in Payments : q # p => (q \in Collected' <=> q \in Collected)
        /\ Collected \subseteq Payments /\ Collected' \subseteq Payments
    BY <1>0, <1>1 DEF Collected
  <2>2. CASE order' = order /\ (s = "CAPTURED" <=> payment[p].status = "CAPTURED")
    <3>1. Collected' = Collected
      BY <2>1, <2>2
    <3>2. \A q \in Collected : payment'[q].status = payment[q].status
      BY <1>1, <2>1, <2>2
    <3> QED
      BY <2>2, <3>1, <3>2 DEF IInv, OrderReflectsPayment
  <2>3. CASE order' = [order EXCEPT !.paymentStatus = "PAID"] /\ s = "CAPTURED"
    <3>1. order'.paymentStatus = "PAID"
      BY <2>3 DEF IInv, TypeOK
    <3>2. \A q \in Collected' : Collected' = {q} => q = p
      BY <2>1, <2>3
    <3> QED
      BY <1>1, <2>1, <2>3, <3>1, <3>2 DEF OrderReflectsPayment
  <2> QED
    BY <2>2, <2>3
<1>7. Known'
  BY <1>0, <1>1 DEF IInv, Known
<1>8. \A v \in Workers : Creating(v)' /\ Refunding(v)'
  <2>1. ASSUME NEW v \in Workers, v # w, proc[v].at \in {"creating", "refunding"}
        PROVE  proc[v].payment \in Payments /\ proc[v].payment # p
    BY <1>0, <2>1, Carried DEF IInv, Creating, Delivered, RowFree
  <2>2. \A v \in Workers : v # w /\ proc[v].at \in {"creating", "refunding"} =>
          LET q == proc[v].payment
          IN  payment'[q] = payment[q] /\ refunds'[q] = refunds[q] /\ gateway'[q] = gateway[q]
    BY <1>1, <2>1
  <2> QED
    BY <1>2, <2>2, OthersUndisturbed
<1> QED
  BY <1>4, <1>5, <1>6, <1>7, <1>8 DEF IInv

\* The three kinds of fresh events are marked like that.
LEMMA WebhookKeeps ==
  ASSUME IInv, NEW w \in Workers, WebhookRecorded(w) \/ WebhookCaptured(w) \/ WebhookOther(w)
  PROVE  IInv'
<1>1. CASE WebhookRecorded(w)
  <2>1. PICK e \in Events : /\ Delivered(w, e) /\ Fresh(e) /\ LateFailure(e)
                            /\ Process(e, payment[e.payment].status) /\ Answer(w, e)
                            /\ UNCHANGED <<order, refunds, gateway, crashes, unconfirmed>>
    BY <1>1 DEF WebhookRecorded
  <2>2. payment[e.payment].status = "CAPTURED"
    BY <2>1 DEF LateFailure
  <2> QED
    BY <2>1, <2>2, WebhookMarks
<1>2. CASE WebhookCaptured(w)
  BY <1>2, WebhookMarks DEF WebhookCaptured
<1>3. CASE WebhookOther(w)
  <2> DEFINE Mark(e) == IF e.kind = "failed" THEN "FAILED" ELSE payment[e.payment].status
  <2>1. PICK e \in Events :
          /\ Delivered(w, e) /\ Fresh(e) /\ ~LateFailure(e) /\ e.kind \in {"failed", "other"}
          /\ Process(e, Mark(e))
          /\ IF payment[e.payment].status = "CAPTURED"
               THEN order' = [order EXCEPT !.paymentStatus = "PAID"] /\ ThenConfirm(w, e)
               ELSE UNCHANGED order /\ Answer(w, e)
          /\ UNCHANGED <<refunds, gateway, crashes, unconfirmed>>
    BY <1>3 DEF WebhookOther
  <2>2. e.payment \in Payments /\ payment[e.payment].status \in {"CREATED", "CAPTURED", "FAILED"}
    BY <2>1 DEF IInv, TypeOK, PaymentStatus, Events, Delivered, Fresh, Refunded
  <2>3. /\ Mark(e) \in {"CREATED", "CAPTURED", "FAILED"}
        /\ Mark(e) = "CAPTURED" <=> payment[e.payment].status = "CAPTURED"
    BY <2>1, <2>2 DEF LateFailure
  <2> HIDE DEF Mark
  <2> QED
    BY <2>1, <2>3, WebhookMarks
<1> QED
  BY <1>1, <1>2, <1>3

\* The gateway pays back before the rows say so; the row lock keeps every other
\* refund of the payment out.
LEMMA RefundAtGatewayKeeps ==
  ASSUME IInv, NEW w \in Workers, RefundAtGateway(w)
  PROVE  IInv'
<1>0. PICK p \in Payments, a \in 1..Amount :
        /\ RowFree(p)
        /\ payment[p].status \in {"CAPTURED", "PARTIALLY_REFUNDED"}
        /\ refunds[p] + a <= Amount
        /\ gateway' = [gateway EXCEPT ![p].refunded = @ + a]
        /\ proc' = [proc EXCEPT ![w] = [at |-> "refunding", payment |-> p, amount |-> a]]
  <2>1. PICK p \in Payments :
          /\ RowFree(p)
          /\ payment[p].status \in {"CAPTURED", "PARTIALLY_REFUNDED"}
          /\ \E a \in 1..(Amount - refunds[p]) :
               /\ gateway' = [gateway EXCEPT ![p].refunded = @ + a]
               /\ proc' = [proc EXCEPT ![w] = [at |-> "refunding", payment |-> p, amount |-> a]]
    BY DEF RefundAtGateway
  <2>2. refunds[p] \in 0..Amount
    BY DEF IInv, TypeOK
  <2>3. \A a \in 1..(Amount - refunds[p]) : a \in 1..Amount /\ refunds[p] + a <= Amount
    BY <2>2, PaymentsAssumption
  <2> QED
    BY <2>1, <2>3
<1> DEFINE t == [at |-> "refunding", payment |-> p, amount |-> a]
<1>1. t \in Requests
  BY DEF Requests
<1>2. /\ proc' \in [Workers -> Requests] /\ proc'[w] = t
      /\ \A v \in Workers : v # w => proc'[v] = proc[v]
  BY <1>0, <1>1, OneRequestMoves DEF IInv
<1>3. UNCHANGED <<order, payment, refunds, unanswered, crashes, unconfirmed>>
  BY DEF RefundAtGateway
<1>4. /\ gateway' \in [Payments -> [intent : BOOLEAN, refunded : Nat]]
      /\ \A q \in Payments : q # p => gateway'[q] = gateway[q]
      /\ \A q \in Payments : gateway'[q].intent = gateway[q].intent
      /\ gateway'[p].refunded = gateway[p].refunded + a
  BY <1>0 DEF IInv, TypeOK
<1>5. TypeOK'
  BY <1>2, <1>3, <1>4 DEF IInv, TypeOK
<1>6. RefundsWithinPayment'
  <2>1. ASSUME NEW q \in Payments PROVE refunds[q] <= gateway'[q].refunded
    <3>1. /\ refunds[q] \in 0..Amount /\ gateway[q].refunded \in Nat
          /\ refunds[q] <= gateway[q].refunded /\ a \in Nat
      BY <1>0 DEF IInv, TypeOK, RefundsWithinPayment
    <3>2. gateway'[q].refunded = gateway[q].refunded \/ gateway'[q].refunded = gateway[q].refunded + a
      BY <1>4
    <3> QED
      BY <3>1, <3>2, PaymentsAssumption
  <2> QED
    BY <1>3, <2>1 DEF IInv, RefundsWithinPayment
<1>7. OrderReflectsPayment' /\ Known'
  BY <1>3, <1>4 DEF IInv, OrderReflectsPayment, Collected, Known
<1>8. ASSUME NEW v \in Workers PROVE Creating(v)' /\ Refunding(v)'
  <2>1. CASE v = w
    <3>1. Creating(v)'
      BY <1>2, <2>1 DEF Creating
    <3>2. refunds[p] + a <= gateway'[p].refunded
      <4>1. refunds[p] \in 0..Amount /\ gateway[p].refunded \in Nat /\ refunds[p] <= gateway[p].refunded
        BY DEF IInv, TypeOK, RefundsWithinPayment
      <4> QED
        BY <1>0, <1>4, <4>1, PaymentsAssumption
    <3>3. \A u \in Workers : u # w => ~(proc'[u].at = "refunding" /\ proc'[u].payment = p)
      BY <1>0, <1>2 DEF RowFree
    <3>4. Refunding(v)'
      BY <1>0, <1>2, <1>3, <2>1, <3>2, <3>3 DEF Refunding
    <3> QED
      BY <3>1, <3>4
  <2>2. CASE v # w
    <3>1. proc'[v] = proc[v] /\ Creating(v) /\ Refunding(v)
      BY <1>2, <2>2 DEF IInv
    <3>2. /\ proc[v].at = "creating" => proc[v].payment \in Payments
          /\ proc[v].at = "refunding" => proc[v].payment \in Payments /\ proc[v].payment # p
      BY <1>0, Carried DEF IInv, RowFree
    <3>3. Creating(v)'
      BY <1>2, <1>3, <1>4, <3>1, <3>2 DEF Creating
    <3>4. Refunding(v)'
      BY <1>2, <1>3, <1>4, <3>1, <3>2 DEF Refunding
    <3> QED
      BY <3>3, <3>4
  <2> QED
    BY <2>1, <2>2
<1> QED
  BY <1>5, <1>6, <1>7, <1>8 DEF IInv

\* What the gateway paid back is recorded: the payment's status follows from the
\* total, and the order's from the payment's.
LEMMA RefundRowKeeps ==
  ASSUME IInv, NEW w \in Workers, RefundRow(w)
  PROVE  IInv'
<1> DEFINE p == proc[w].payment
           total == refunds[p] + proc[w].amount
           status == IF total >= Amount THEN "REFUNDED" ELSE "PARTIALLY_REFUNDED"
           moved == IF status = "REFUNDED" /\ order.status = "RETURNED" THEN "REFUNDED" ELSE order.status
<1>0. /\ proc[w].at = "refunding" /\ p \in Payments /\ proc[w].amount \in 1..Amount
      /\ payment[p].status \in {"CAPTURED", "PARTIALLY_REFUNDED"}
      /\ total <= Amount /\ total <= gateway[p].refunded
      /\ \A v \in Workers : proc[v].at = "refunding" /\ proc[v].payment = p => v = w
  BY Carried DEF IInv, RefundRow, Refunding
<1>1. /\ refunds' = [refunds EXCEPT ![p] = total]
      /\ payment' = [payment EXCEPT ![p].status = status]
      /\ order' = [order EXCEPT !.paymentStatus = status, !.status = moved]
      /\ proc' = [proc EXCEPT ![w] = Idle]
      /\ UNCHANGED <<gateway, unanswered, crashes, unconfirmed>>
  BY DEF RefundRow
<1>2. /\ total \in 1..Amount
      /\ status = "REFUNDED" <=> total = Amount
      /\ status = "PARTIALLY_REFUNDED" <=> total \in 1..(Amount - 1)
  <2>1. refunds[p] \in 0..Amount
    BY <1>0 DEF IInv, TypeOK
  <2> QED
    BY <1>0, <2>1, PaymentsAssumption
<1>3. status \in {"REFUNDED", "PARTIALLY_REFUNDED"} /\ moved \in OrderStatus
  BY DEF IInv, TypeOK, OrderStatus
<1> HIDE DEF total, status, moved
<1>4. /\ payment' \in [Payments -> [status : PaymentStatus \union {"NONE"}, processed : SUBSET Kinds]]
      /\ payment'[p].status = status
      /\ \A q \in Payments : q # p => payment'[q] = payment[q]
  <2>1. payment[p] \in [status : PaymentStatus \union {"NONE"}, processed : SUBSET Kinds]
    BY <1>0 DEF IInv, TypeOK
  <2>2. status \in PaymentStatus
    BY <1>3 DEF PaymentStatus
  <2> HIDE DEF p
  <2> QED
    BY <1>0, <1>1, <2>1, <2>2 DEF IInv, TypeOK
<1>5. /\ order' \in [status : OrderStatus, paymentStatus : OrderPaymentStatus]
      /\ order'.paymentStatus = status
  <2>1. status \in OrderPaymentStatus
    BY <1>3 DEF OrderPaymentStatus
  <2> QED
    BY <1>1, <1>3, <2>1 DEF IInv, TypeOK
<1>6. /\ refunds' \in [Payments -> 0..Amount] /\ refunds'[p] = total
      /\ \A q \in Payments : q # p => refunds'[q] = refunds[q]
  BY <1>0, <1>1, <1>2 DEF IInv, TypeOK
<1>7. Idle \in Requests /\ Idle.at \notin {"creating", "refunding"}
  BY DEF Requests, Idle
<1>8. TypeOK'
  <2>1. proc' \in [Workers -> Requests]
    BY <1>1, <1>7, OneRequestMoves DEF IInv
  <2> QED
    BY <1>1, <1>4, <1>5, <1>6, <2>1 DEF IInv, TypeOK
<1>9. RefundsWithinPayment'
  <2> SUFFICES ASSUME NEW q \in Payments
               PROVE  /\ payment'[q].status = "REFUNDED" <=> refunds'[q] = Amount
                      /\ payment'[q].status = "PARTIALLY_REFUNDED" <=> refunds'[q] \in 1..(Amount - 1)
                      /\ refunds'[q] <= gateway[q].refunded
    BY <1>1 DEF RefundsWithinPayment
  <2>1. CASE q = p
    BY <1>0, <1>2, <1>4, <1>6, <2>1
  <2>2. CASE q # p
    BY <1>4, <1>6, <2>2 DEF IInv, RefundsWithinPayment
  <2> QED
    BY <2>1, <2>2
<1>10. OrderReflectsPayment'
  <2>1. Collected' = Collected /\ p \in Collected
    BY <1>0, <1>3, <1>4 DEF Collected
  <2> QED
    BY <1>3, <1>4, <1>5, <2>1 DEF OrderReflectsPayment
<1>11. Known'
  BY <1>0, <1>1, <1>4 DEF IInv, Known
<1>12. \A v \in Workers : Creating(v)' /\ Refunding(v)'
  <2>1. ASSUME NEW v \in Workers, v # w, proc[v].at \in {"creating", "refunding"}
        PROVE  proc[v].payment \in Payments /\ proc[v].payment # p
    <3>1. proc[v].payment \in Payments
      BY <2>1, Carried DEF IInv
    <3>2. CASE proc[v].at = "creating"
      BY <1>0, <3>1, <3>2 DEF IInv, Creating
    <3>3. CASE proc[v].at = "refunding"
      BY <1>0, <2>1, <3>1, <3>3
    <3> QED
      BY <2>1, <3>1, <3>2, <3>3
  <2>2. \A v \in Workers : v # w /\ proc[v].at \in {"creating", "refunding"} =>
          LET q == proc[v].payment
          IN  payment'[q] = payment[q] /\ refunds'[q] = refunds[q] /\ gateway'[q] = gateway[q]
    BY <1>1, <1>4, <1>6, <2>1
  <2>3. proc' = [proc EXCEPT ![w] = Idle]
    BY <1>1
  <2> HIDE DEF p
  <2> QED
    BY <1>7, <2>2, <2>3, OthersUndisturbed
<1> QED
  BY <1>8, <1>9, <1>10, <1>11, <1>12 DEF IInv

-----------------------------------------------------------------------------
\* The steps of Next, and what follows for every behaviour.

LEMMA StepKeeps == IInv /\ [Next]_vars => IInv'
<1> SUFFICES ASSUME IInv, [Next]_vars PROVE IInv'
  OBVIOUS
<1>1. CASE MoveOrder
  BY <1>1, MoveOrderKeeps
<1>2. ASSUME NEW w \in Workers, InitiateAtGateway(w) PROVE IInv'
  BY <1>2, InitiateAtGatewayKeeps
<1>3. ASSUME NEW w \in Workers, RefundAtGateway(w) PROVE IInv'
  BY <1>3, RefundAtGatewayKeeps
<1>4. ASSUME NEW w \in Workers, Finish(w) PROVE IInv'
  BY <1>4, InitiateRowKeeps, ConfirmKeeps, RefundRowKeeps DEF Finish
<1>5. ASSUME NEW w \in Workers, Crash(w) PROVE IInv'
  BY <1>5, CrashKeeps
<1>6. ASSUME NEW w \in Workers, Redeliver(w) PROVE IInv'
  BY <1>6, RedeliverKeeps
<1>7. ASSUME NEW w \in Workers, WebhookRecorded(w) \/ WebhookCaptured(w) \/ WebhookOther(w) PROVE IInv'
  BY <1>7, WebhookKeeps
<1>8. CASE UNCHANGED vars
  <2>1. ASSUME NEW w \in Workers PROVE Creating(w)' /\ Refunding(w)'
    BY <1>8 DEF vars, IInv, Creating, Refunding
  <2> QED
    BY <1>8, <2>1 DEF vars, IInv, TypeOK, RefundsWithinPayment, OrderReflectsPayment, Collected, Known
<1> QED
  BY <1>1, <1>2, <1>3, <1>4, <1>5, <1>6, <1>7, <1>8 DEF Next

\* The inductive invariant holds throughout.
THEOREM InvariantHolds == Spec => []IInv
<1> QED
  BY Initially, StepKeeps, PTL DEF Spec

\* Every variable stays in its type.
THEOREM TypesHold == Spec => []TypeOK
<1>1. IInv => TypeOK
  BY DEF IInv
<1> QED
  BY <1>1, InvariantHolds, PTL

\* However refunds, webhooks and crashes interleave, no payment is refunded
\* beyond its amount, and no refund is recorded that the gateway did not pay.
THEOREM RefundsStayWithinPayment == Spec => []RefundsWithinPayment
<1>1. IInv => RefundsWithinPayment
  BY DEF IInv
<1> QED
  BY <1>1, InvariantHolds, PTL

\* The order always says what was collected for it.
THEOREM OrderShowsPayment == Spec => []OrderReflectsPayment
<1>1. IInv => OrderReflectsPayment
  BY DEF IInv
<1> QED
  BY <1>1, InvariantHolds, PTL

\* No webhook, however late or often repeated, takes a captured or refunded
\* payment back.
THEOREM CapturesStay == Spec => CapturesAreNeverReverted
<1> DEFINE Step == \A p \in Payments : Progress(payment[p].status, payment'[p].status)
<1>1. IInv /\ [Next]_vars => [Step]_vars
  <2> SUFFICES ASSUME IInv, Next, NEW p \in Payments
               PROVE  Progress(payment[p].status, payment'[p].status)
    OBVIOUS
  <2>0. payment[p].status \in PaymentStatus \union {"NONE"} /\ payment \in [Payments -> [status : PaymentStatus \union {"NONE"}, processed : SUBSET Kinds]]
    BY DEF IInv, TypeOK
  <2>1. CASE UNCHANGED payment
    BY <2>0, <2>1 DEF Progress, PaymentStatus
  <2>2. ASSUME NEW w \in Workers, InitiateRow(w) PROVE Progress(payment[p].status, payment'[p].status)
    <3>1. proc[w].payment \in Payments /\ payment[proc[w].payment].status = "NONE"
      BY <2>2, Carried DEF IInv, InitiateRow, Creating
    <3>2. p # proc[w].payment => payment'[p] = payment[p]
      BY <2>0, <2>2 DEF InitiateRow
    <3> QED
      BY <2>0, <3>1, <3>2 DEF Progress, PaymentStatus
  <2>3. ASSUME NEW w \in Workers, RefundRow(w) PROVE Progress(payment[p].status, payment'[p].status)
    <3> DEFINE q == proc[w].payment
               status == IF refunds[q] + proc[w].amount >= Amount THEN "REFUNDED" ELSE "PARTIALLY_REFUNDED"
    <3>1. /\ q \in Payments /\ payment[q].status \in {"CAPTURED", "PARTIALLY_REFUNDED"}
          /\ status \in {"REFUNDED", "PARTIALLY_REFUNDED"}
          /\ payment' = [payment EXCEPT ![q].status = status]
      BY <2>3, Carried DEF IInv, RefundRow, Refunding
    <3> HIDE DEF q, status
    <3>2. p # q => payment'[p] = payment[p]
      BY <2>0, <3>1
    <3>3. payment'[q].status = status
      BY <2>0, <3>1
    <3> QED
      BY <2>0, <3>1, <3>2, <3>3 DEF Progress, PaymentStatus
  <2>4. ASSUME NEW w \in Workers, NEW e \in Events, Fresh(e), NEW s, Process(e, s),
               payment[e.payment].status = "CAPTURED" => s = "CAPTURED"
        PROVE  Progress(payment[p].status, payment'[p].status)
    <3>1. p # e.payment => payment'[p] = payment[p]
      BY <2>0, <2>4 DEF Process
    <3>2. p = e.payment => payment'[p].status = s
      BY <2>0, <2>4 DEF Process
    <3>3. p = e.payment => payment[p].status \notin {"REFUNDED", "PARTIALLY_REFUNDED"}
      BY <2>4 DEF Fresh, Refunded
    <3> QED
      BY <2>0, <2>4, <3>1, <3>2, <3>3 DEF Progress, PaymentStatus
  <2>5. ASSUME NEW w \in Workers, WebhookRecorded(w) \/ WebhookCaptured(w) \/ WebhookOther(w)
        PROVE  Progress(payment[p].status, payment'[p].status)
    <3> DEFINE Mark(e) == IF e.kind = "failed" THEN "FAILED" ELSE payment[e.payment].status
    <3>1. CASE WebhookRecorded(w)
      BY <2>4, <3>1 DEF WebhookRecorded
    <3>2. CASE WebhookCaptured(w)
      BY <2>4, <3>2 DEF WebhookCaptured
    <3>3. CASE WebhookOther(w)
      <4>1. PICK e \in Events : Fresh(e) /\ ~LateFailure(e) /\ Process(e, Mark(e))
        BY <3>3 DEF WebhookOther
      <4>2. payment[e.payment].status = "CAPTURED" => Mark(e) = "CAPTURED"
        BY <4>1 DEF LateFailure
      <4> HIDE DEF Mark
      <4> QED
        BY <2>4, <4>1, <4>2
    <3> QED
      BY <2>5, <3>1, <3>2, <3>3
  <2>6. ASSUME NEW w \in Workers,
               InitiateAtGateway(w) \/ RefundAtGateway(w) \/ Confirm(w) \/ Crash(w) \/ Redeliver(w)
        PROVE  UNCHANGED payment
    BY <2>6 DEF InitiateAtGateway, RefundAtGateway, Confirm, Crash, Redeliver, WebhookIgnored, WebhookReplayed
  <2>7. MoveOrder => UNCHANGED payment
    BY DEF MoveOrder
  <2> QED
    BY <2>1, <2>2, <2>3, <2>5, <2>6, <2>7 DEF Next, Finish
<1> QED
  BY <1>1, InvariantHolds, PTL DEF Spec, CapturesAreNeverReverted

\* Staff, confirmations and refunds together never move the order off the table.
THEOREM OrderMovesAlongTable == Spec => OrderFollowsTable
<1> DEFINE Step == order'.status # order.status => CanTransition(order.status, order'.status)
<1>1. IInv /\ [Next]_vars => [Step]_vars
  <2> SUFFICES ASSUME IInv, Next, order'.status # order.status
               PROVE  CanTransition(order.status, order'.status)
    OBVIOUS
  <2>0. order \in [status : OrderStatus, paymentStatus : OrderPaymentStatus]
    BY DEF IInv, TypeOK
  <2>1. CASE MoveOrder
    BY <2>0, <2>1 DEF MoveOrder, Moved
  <2>2. ASSUME NEW w \in Workers, Confirm(w) PROVE CanTransition(order.status, order'.status)
    <3>1. order.status = "PENDING" /\ order'.status = "CONFIRMED"
      BY <2>0, <2>2 DEF Confirm, Moved
    <3> QED
      BY <3>1 DEF CanTransition, TRANSITIONS
  <2>3. ASSUME NEW w \in Workers, RefundRow(w) PROVE CanTransition(order.status, order'.status)
    <3>1. order.status = "RETURNED" /\ order'.status = "REFUNDED"
      BY <2>0, <2>3 DEF RefundRow
    <3> QED
      BY <3>1 DEF CanTransition, TRANSITIONS
  <2>4. ASSUME NEW w \in Workers,
               InitiateAtGateway(w) \/ RefundAtGateway(w) \/ InitiateRow(w) \/ Crash(w) \/ Redeliver(w)
                 \/ WebhookRecorded(w)
        PROVE  UNCHANGED order
    BY <2>4 DEF InitiateAtGateway, RefundAtGateway, InitiateRow, Crash, Redeliver, WebhookIgnored,
                WebhookReplayed, WebhookRecorded
  <2>5. ASSUME NEW w \in Workers, WebhookCaptured(w) \/ WebhookOther(w)
        PROVE  order'.status = order.status
    BY <2>0, <2>5 DEF WebhookCaptured, WebhookOther
  <2> QED
    BY <2>1, <2>2, <2>3, <2>4, <2>5 DEF Next, Finish
<1> QED
  BY <1>1, InvariantHolds, PTL DEF Spec, OrderFollowsTable
=============================================================================
