------------------------ MODULE OrderFulfilment_proofs ------------------------
(***************************************************************************)
(* OrderFulfilment, for any number of orders, lines, requests, connections *)
(* and failures: the transition of an order with its row lock implements   *)
(* the atomic lifecycle, its wallet credit comes back once, and its stock  *)
(* moves at least once, exactly once as long as nothing fails half-way;    *)
(* until then the reserved units of a variant are those of the open        *)
(* orders, and a customer's order count is right unless it was written     *)
(* while another request held a copy of it.                                *)
(***************************************************************************)
EXTENDS OrderFulfilment, SumLemmas

-----------------------------------------------------------------------------
\* The inductive invariant.

Moving(w) == proc[w].at \in {"effects", "counting", "commit"}

\* The variables that the argument is about keep their types.
Types ==
  /\ status \in [Orders -> OrderStatus \union {NotPlaced}]
  /\ history \in [Orders -> Seq(OrderStatus)]
  /\ moved \in [Orders -> [Variants -> [OrderMovements -> Nat]]]
  /\ restored \in [Orders -> Nat]
  /\ orderCount \in [Customers -> Nat] /\ crossed \in SUBSET Customers
  /\ lock \in [Orders -> Workers \union {NoOne}]
  /\ proc \in [Workers -> Requests]
  /\ failed \in [Orders -> Nat]

\* A request that moves an order holds its row, and the status it read is the status.
Holding(w) ==
  Moving(w) =>
    /\ lock[proc[w].order] = w
    /\ status[proc[w].order] = proc[w].from
    /\ CanTransition(proc[w].from, proc[w].to)

\* Requests are about orders that checkout has created.
Placed(w) == proc[w].at # "idle" => status[proc[w].order] # NotPlaced

\* The row is held by nobody else.
Held(o) == lock[o] # NoOne => Moving(lock[o]) /\ proc[lock[o]].order = o

\* What the history says of the status.
Past(o) ==
  /\ status[o] = NotPlaced => history[o] = <<>>
  /\ Entered(o, "CONFIRMED") => status[o] \notin {NotPlaced, "PENDING"}
  /\ status[o] \in OrderStatus \ {"PENDING", "CANCELLED"} => Entered(o, "CONFIRMED")
  /\ Entered(o, "RETURNED") <=> status[o] \in {"RETURNED", "REFUNDED"}

\* The lines left to move are those of the order, and none is once the effects are done.
ToDo(w) ==
  Moving(w) =>
    /\ proc[w].todo \subseteq LinesOf(proc[w].order)
    /\ StockOperation(proc[w].from, proc[w].to) = "NONE" => proc[w].todo = {}
    /\ proc[w].at # "effects" => proc[w].todo = {}

Base == Types /\ (\A w \in Workers : Holding(w) /\ Placed(w) /\ ToDo(w)) /\ (\A o \in Orders : Held(o) /\ Past(o))

-----------------------------------------------------------------------------
\* Facts about the operators.

\* What a request at a step carries.
LEMMA Carried ==
  ASSUME Types, NEW w \in Workers
  PROVE  /\ Idle \in Requests
         /\ proc[w].at \in {"idle", "waiting", "effects", "counting", "commit"}
         /\ proc[w].at # "idle" => proc[w].order \in Orders /\ proc[w].to \in OrderStatus
         /\ Moving(w) => /\ proc[w] = [at |-> proc[w].at, order |-> proc[w].order, to |-> proc[w].to,
                                       from |-> proc[w].from, todo |-> proc[w].todo, count |-> proc[w].count]
                         /\ proc[w].from \in OrderStatus /\ proc[w].todo \subseteq Variants
                         /\ proc[w].count \in Nat
<1>1. proc[w] \in Requests
  BY DEF Types
<1> QED
  BY <1>1 DEF Requests, Idle, Moving

\* The edges of the table that have side effects.
LEMMA Edges ==
  ASSUME NEW from \in OrderStatus, NEW to \in OrderStatus, CanTransition(from, to)
  PROVE  /\ to # "PENDING"
         /\ to = "CONFIRMED" => from = "PENDING"
         /\ from = "PENDING" => to \in {"CONFIRMED", "CANCELLED"}
         /\ to = "CANCELLED" => from \in {"PENDING", "CONFIRMED", "PROCESSING"}
         /\ to = "RETURNED" <=> from = "RETURN_APPROVED"
         /\ to = "REFUNDED" <=> from = "RETURNED"
         /\ from \notin {"CANCELLED", "REFUNDED"}
BY DEF CanTransition, TRANSITIONS, OrderStatus

\* What appending to the history enters.
LEMMA AppendEnters ==
  ASSUME Types, NEW o \in Orders, NEW s \in OrderStatus,
         history' = [history EXCEPT ![o] = Append(@, s)]
  PROVE  /\ history' \in [Orders -> Seq(OrderStatus)]
         /\ \A t \in OrderStatus : Entered(o, t)' <=> Entered(o, t) \/ t = s
         /\ \A p \in Orders : p # o => history'[p] = history[p]
<1>1. history[o] \in Seq(OrderStatus)
  BY DEF Types
<1>2. history'[o] = Append(history[o], s)
  BY DEF Types
<1>3. /\ history' \in [Orders -> Seq(OrderStatus)]
      /\ \A p \in Orders : p # o => history'[p] = history[p]
  BY <1>1, <1>2 DEF Types
<1>4. ASSUME NEW t \in OrderStatus PROVE Entered(o, t)' <=> Entered(o, t) \/ t = s
  <2>1. /\ DOMAIN Append(history[o], s) = 1..(Len(history[o]) + 1)
        /\ DOMAIN history[o] = 1..Len(history[o]) /\ Len(history[o]) \in Nat
        /\ \A i \in 1..Len(history[o]) : Append(history[o], s)[i] = history[o][i]
        /\ Append(history[o], s)[Len(history[o]) + 1] = s
    BY <1>1
  <2>2. ASSUME Entered(o, t) PROVE Entered(o, t)'
    BY <1>2, <2>1, <2>2 DEF Entered
  <2>3. ASSUME t = s PROVE Entered(o, t)'
    <3>1. Len(history[o]) + 1 \in 1..(Len(history[o]) + 1)
      BY <2>1
    <3> QED
      BY <1>2, <2>1, <2>3, <3>1 DEF Entered
  <2>4. ASSUME Entered(o, t)', t # s PROVE Entered(o, t)
    <3>1. PICK i \in 1..(Len(history[o]) + 1) : Append(history[o], s)[i] = t
      BY <1>2, <2>1, <2>4 DEF Entered
    <3>2. i \in 1..Len(history[o])
      BY <2>1, <2>4, <3>1
    <3> QED
      BY <2>1, <3>1, <3>2 DEF Entered
  <2> QED
    BY <2>2, <2>3, <2>4
<1> QED
  BY <1>3, <1>4

-----------------------------------------------------------------------------
\* What single steps leave alone.

\* The other requests' records stay.
LEMMA OneRequestMoves ==
  ASSUME Types, NEW w \in Workers, NEW t \in Requests, proc' = [proc EXCEPT ![w] = t]
  PROVE  /\ proc' \in [Workers -> Requests]
         /\ proc'[w] = t
         /\ \A v \in Workers : v # w => proc'[v] = proc[v]
BY DEF Types

\* Requests that move orders move different ones.
LEMMA OwnOrders ==
  ASSUME Base, NEW w \in Workers, NEW v \in Workers, v # w, Moving(w), Moving(v)
  PROVE  proc[v].order # proc[w].order
BY DEF Base, Holding

\* A request that goes on without touching the order disturbs nobody.
LEMMA RequestGoesOn ==
  ASSUME Base, NEW w \in Workers, NEW t \in Requests, proc' = [proc EXCEPT ![w] = t],
         UNCHANGED <<status, history, lock>>, Types',
         Moving(w)' <=> Moving(w),
         t.at # "idle" => status[t.order] # NotPlaced,
         Moving(w) => t.order = proc[w].order /\ t.from = proc[w].from /\ t.to = proc[w].to,
         ToDo(w)'
  PROVE  Base'
<1>1. proc'[w] = t /\ \A v \in Workers : v # w => proc'[v] = proc[v]
  BY OneRequestMoves DEF Base
<1>2. ASSUME NEW v \in Workers PROVE Holding(v)' /\ Placed(v)' /\ ToDo(v)'
  <2>0. Holding(v) /\ Placed(v) /\ ToDo(v)
    BY DEF Base
  <2>1. CASE v = w
    BY <1>1, <2>0, <2>1 DEF Holding, Placed, Moving
  <2>2. CASE v # w
    <3>1. proc'[v] = proc[v]
      BY <1>1, <2>2
    <3> QED
      BY <2>0, <3>1 DEF Holding, Placed, ToDo, Moving
  <2> QED
    BY <2>1, <2>2
<1>3. ASSUME NEW o \in Orders PROVE Held(o)' /\ Past(o)'
  <2>0. Held(o) /\ Past(o)
    BY DEF Base
  <2>1. Past(o)'
    BY <2>0 DEF Past, Entered
  <2>2. ASSUME lock[o] # NoOne PROVE Moving(lock[o])' /\ proc'[lock[o]].order = o
    <3>1. lock[o] \in Workers
      BY <2>2 DEF Base, Types
    <3>2. Moving(lock[o]) /\ proc[lock[o]].order = o
      BY <2>0, <2>2 DEF Held
    <3>3. CASE lock[o] = w
      BY <1>1, <3>2, <3>3
    <3>4. CASE lock[o] # w
      BY <1>1, <3>1, <3>2, <3>4 DEF Moving
    <3> QED
      BY <3>3, <3>4
  <2> QED
    BY <2>1, <2>2 DEF Held
<1> QED
  BY <1>2, <1>3 DEF Base

\* A request that ends lets go of its order, which may have moved.
LEMMA RequestEnds ==
  ASSUME Base, NEW w \in Workers, Moving(w), proc' = [proc EXCEPT ![w] = Idle],
         NEW q \in Orders, q = proc[w].order,
         lock' = [lock EXCEPT ![q] = NoOne], Types',
         \A o \in Orders : o # q => status'[o] = status[o] /\ history'[o] = history[o],
         status'[q] # NotPlaced, Past(q)'
  PROVE  Base'
<1>0. Idle \in Requests /\ Idle.at = "idle" /\ proc[w].order \in Orders
  BY Carried DEF Base, Idle, Moving
<1>1. proc'[w] = Idle /\ \A v \in Workers : v # w => proc'[v] = proc[v]
  BY <1>0, OneRequestMoves DEF Base
<1>2. ASSUME NEW v \in Workers PROVE Holding(v)' /\ Placed(v)' /\ ToDo(v)'
  <2>0. Holding(v) /\ Placed(v) /\ ToDo(v) /\ (proc[v].at # "idle" => proc[v].order \in Orders)
    BY Carried DEF Base
  <2>1. CASE v = w
    BY <1>0, <1>1, <2>1 DEF Holding, Placed, ToDo, Moving
  <2>2. CASE v # w
    <3>1. proc'[v] = proc[v]
      BY <1>1, <2>2
    <3>2. Placed(v)'
      BY <1>0, <2>0, <3>1 DEF Placed
    <3>3. ASSUME Moving(v)
          PROVE  proc[v].order \in Orders /\ proc[v].order # proc[w].order
                 /\ status'[proc[v].order] = status[proc[v].order] /\ lock'[proc[v].order] = lock[proc[v].order]
      <4>1. proc[v].order \in Orders /\ proc[v].order # proc[w].order
        BY <2>0, <2>2, <3>3, OwnOrders DEF Moving
      <4> QED
        BY <1>0, <4>1 DEF Base, Types
    <3> QED
      BY <2>0, <3>1, <3>2, <3>3 DEF Holding, ToDo, Moving
  <2> QED
    BY <2>1, <2>2
<1>3. ASSUME NEW o \in Orders PROVE Held(o)' /\ Past(o)'
  <2>0. Held(o) /\ Past(o) /\ lock[o] \in Workers \union {NoOne}
    BY DEF Base, Types
  <2>1. CASE o = q
    BY <2>1 DEF Held, Base, Types
  <2>2. CASE o # q
    <3>1. lock'[o] = lock[o] /\ status'[o] = status[o] /\ history'[o] = history[o]
      BY <1>0, <2>2 DEF Base, Types
    <3>2. lock[o] # NoOne => lock[o] # w
      BY <2>0, <2>2 DEF Held
    <3> QED
      BY <1>1, <2>0, <3>1, <3>2 DEF Held, Past, Entered, Moving
  <2> QED
    BY <2>1, <2>2
<1> QED
  BY <1>2, <1>3 DEF Base

\* A request that is rolled back.
LEMMA RolledBack ==
  ASSUME Base, NEW w \in Workers, Moving(w), Rollback(w), UNCHANGED <<status, history, moved, restored, statsVars>>
  PROVE  Base'
<1> DEFINE q == proc[w].order
<1>1. /\ Idle \in Requests /\ q \in Orders /\ status[q] # NotPlaced /\ lock[q] = w /\ Past(q)
  BY Carried DEF Base, Idle, Moving, Holding, Placed
<1>2. lock' = [lock EXCEPT ![q] = NoOne]
  <2>1. \A o \in Orders : lock[o] = w <=> o = q
    BY <1>1, FulfilmentAssumption DEF Base, Held
  <2> QED
    BY <1>1, <2>1 DEF Rollback, Base, Types
<1>3. Types'
  BY <1>1, <1>2 DEF Rollback, Base, Types, statsVars
<1>5. PICK o \in Orders : o = q
  BY <1>1
<1>6. Past(o)' /\ status'[o] # NotPlaced
  BY <1>1, <1>5 DEF Past, Entered
<1> QED
  BY <1>2, <1>3, <1>5, <1>6, RequestEnds DEF Rollback

-----------------------------------------------------------------------------
\* Every step keeps the invariant.

\* Checkout creates an order in a single step.
LEMMA PlaceOrderKeepsBase ==
  ASSUME Base, NEW o \in Orders, PlaceOrder(o)
  PROVE  Base'
<1>1. \A p \in Orders : p # o => status'[p] = status[p] /\ history'[p] = history[p]
  BY DEF PlaceOrder, Base, Types
<1>2. status'[o] = "PENDING" /\ history'[o] = <<"PENDING">> /\ status[o] = NotPlaced
  BY DEF PlaceOrder, Base, Types
<1>3. Types'
  BY DEF PlaceOrder, statsVars, Base, Types, OrderStatus
<1>4. ASSUME NEW w \in Workers PROVE Holding(w)' /\ Placed(w)' /\ ToDo(w)'
  <2>1. proc[w].at # "idle" => proc[w].order \in Orders /\ proc[w].order # o
    BY <1>2, Carried DEF Base, Placed
  <2> QED
    BY <1>1, <2>1, Carried DEF PlaceOrder, Base, Holding, Placed, ToDo, Moving
<1>5. ASSUME NEW p \in Orders PROVE Held(p)' /\ Past(p)'
  <2>1. Held(p)'
    BY DEF PlaceOrder, Base, Held, Moving
  <2>2. CASE p # o
    BY <1>1, <2>1, <2>2 DEF Base, Past, Entered
  <2>3. CASE p = o
    <3>1. "PENDING" \in OrderStatus /\ NotPlaced \notin OrderStatus
      BY FulfilmentAssumption DEF OrderStatus
    <3>2. \A t : Entered(o, t)' <=> t = "PENDING"
      BY <1>2 DEF Entered
    <3> QED
      BY <1>2, <2>1, <2>3, <3>1, <3>2 DEF Past
  <2> QED
    BY <2>2, <2>3
<1> QED
  BY <1>3, <1>4, <1>5 DEF Base

\* The row lock: no other request moves this order.
LEMMA LockOrderKeepsBase ==
  ASSUME Base, NEW w \in Workers, LockOrder(w)
  PROVE  Base'
<1> DEFINE p == proc[w]
           lines == IF StockOperation(status[p.order], p.to) = "NONE" THEN {} ELSE LinesOf(p.order)
           t == [at |-> "effects", order |-> p.order, to |-> p.to, from |-> status[p.order],
                 count |-> 0, todo |-> lines]
<1>1. /\ p.at = "waiting" /\ p.order \in Orders /\ p.to \in OrderStatus
      /\ lock[p.order] = NoOne /\ status[p.order] \in OrderStatus /\ status[p.order] # NotPlaced
      /\ CanTransition(status[p.order], p.to)
  BY Carried DEF LockOrder, Base, Placed, Types
<1>2. lines \subseteq LinesOf(p.order) /\ lines \subseteq Variants
  BY DEF LinesOf
<1>3. proc' = [proc EXCEPT ![w] = t] /\ lock' = [lock EXCEPT ![p.order] = w]
  BY DEF LockOrder
<1>4. /\ t \in Requests /\ t.at = "effects" /\ t.order = p.order /\ t.to = p.to
      /\ t.from = status[p.order] /\ t.todo = lines
  <2> HIDE DEF lines
  <2> QED
    BY <1>1, <1>2 DEF Requests
<1>5. StockOperation(t.from, t.to) = "NONE" => t.todo = {}
  BY <1>4
<1> HIDE DEF t, lines
<1>6. proc'[w] = t /\ \A v \in Workers : v # w => proc'[v] = proc[v]
  BY <1>3, <1>4, OneRequestMoves DEF Base
<1>7. Types'
  BY <1>1, <1>3, <1>4 DEF LockOrder, orderVars, stockVars, statsVars, Base, Types
<1>8. ASSUME NEW v \in Workers PROVE Holding(v)' /\ Placed(v)' /\ ToDo(v)'
  <2>1. CASE v = w
    <3>1. lock'[p.order] = w /\ status' = status
      BY <1>1, <1>3 DEF Base, Types, LockOrder, orderVars
    <3> QED
      BY <1>1, <1>2, <1>4, <1>5, <1>6, <2>1, <3>1 DEF Holding, Placed, ToDo, Moving
  <2>2. CASE v # w
    <3>1. proc'[v] = proc[v] /\ status' = status
      BY <1>6, <2>2 DEF LockOrder, orderVars
    <3>2. Moving(v) => proc[v].order # p.order /\ proc[v].order \in Orders
      BY <1>1, Carried, FulfilmentAssumption DEF Base, Holding, Moving
    <3>3. Moving(v) => lock'[proc[v].order] = lock[proc[v].order]
      BY <1>3, <3>2 DEF Base, Types
    <3> QED
      BY <3>1, <3>3 DEF Base, Holding, Placed, ToDo, Moving
  <2> QED
    BY <2>1, <2>2
<1>9. ASSUME NEW o \in Orders PROVE Held(o)' /\ Past(o)'
  <2>1. Past(o)'
    BY DEF LockOrder, orderVars, Base, Past, Entered
  <2>2. CASE o = p.order
    <3>1. lock'[o] = w
      BY <1>1, <1>3, <2>2 DEF Base, Types
    <3> QED
      BY <1>4, <1>6, <2>1, <2>2, <3>1 DEF Held, Moving
  <2>3. CASE o # p.order
    <3>1. lock'[o] = lock[o] /\ (lock[o] # NoOne => lock[o] \in Workers /\ lock[o] # w)
      BY <1>1, <1>3, <2>3 DEF Base, Types, Held, Moving
    <3> QED
      BY <1>6, <2>1, <3>1 DEF Base, Held, Moving
  <2> QED
    BY <2>2, <2>3
<1> QED
  BY <1>7, <1>8, <1>9 DEF Base

\* One line has moved, in a transaction of its own.
LEMMA MoveLineKeepsBase ==
  ASSUME Base, NEW w \in Workers, MoveLine(w)
  PROVE  Base'
<1> DEFINE p == proc[w]
           op == StockOperation(p.from, p.to)
<1>1. PICK v \in p.todo :
        /\ moved' = [moved EXCEPT ![p.order][v][MovementOf(op)] = @ + Lines[p.order][v]]
        /\ proc' = [proc EXCEPT ![w].todo = @ \ {v}]
  BY DEF MoveLine
<1> DEFINE t == [p EXCEPT !.todo = @ \ {v}]
<1>2. /\ p.at = "effects" /\ Moving(w) /\ p.order \in Orders /\ p.todo \subseteq Variants
      /\ p.from \in OrderStatus /\ p.to \in OrderStatus /\ p.count \in Nat /\ ToDo(w) /\ Placed(w)
      /\ p = [at |-> p.at, order |-> p.order, to |-> p.to, from |-> p.from, todo |-> p.todo, count |-> p.count]
  BY Carried DEF MoveLine, Working, Moving, Base
<1>3. proc' = [proc EXCEPT ![w] = t]
  BY <1>1
<1>4. /\ t \in Requests /\ t.at = "effects" /\ t.order = p.order /\ t.to = p.to
      /\ t.from = p.from /\ t.todo = p.todo \ {v}
  BY <1>2 DEF Requests
<1> HIDE DEF t
<1>5. UNCHANGED <<status, history, restored, statsVars, lock, failed>>
  BY DEF MoveLine, orderVars
<1>6. moved' \in [Orders -> [Variants -> [OrderMovements -> Nat]]]
  <2>1. Lines[p.order][v] \in Nat
    <3>1. v \in Variants /\ p.order \in Orders
      BY <1>1, <1>2
    <3>2. Lines[p.order] \in [Variants -> Quantities \union {0}]
      BY <3>1, LinesAssumption
    <3>3. Quantities \union {0} \subseteq Nat
      BY QuantitiesAssumption
    <3> QED
      BY <3>1, <3>2, <3>3
  <2>2. op # "NONE"
    BY <1>1, <1>2 DEF ToDo
  <2>3. MovementOf(op) \in OrderMovements
    BY <2>2 DEF StockOperation, MovementOf, OrderMovements
  <2> HIDE DEF op
  <2>4. moved[p.order][v][MovementOf(op)] \in Nat
    BY <1>2, <2>3 DEF Base, Types
  <2> QED
    BY <1>1, <1>2, <2>1, <2>3, <2>4 DEF Base, Types
<1>7. Types'
  BY <1>3, <1>4, <1>5, <1>6, OneRequestMoves DEF Base, Types, statsVars
<1>8. proc'[w] = t
  BY <1>3, <1>4, OneRequestMoves DEF Base
<1>9. ToDo(w)' /\ Moving(w)'
  BY <1>2, <1>4, <1>8 DEF ToDo, Moving
<1> QED
  BY <1>2, <1>3, <1>4, <1>5, <1>7, <1>9, RequestGoesOn DEF Placed

\* Reading the statistics, writing them, and going on without.
LEMMA CountingKeepsBase ==
  ASSUME Base, NEW w \in Workers, Moving(w), NEW n \in Nat, NEW a \in {"counting", "commit"},
         proc' = [proc EXCEPT ![w].at = a, ![w].count = n], proc[w].todo = {},
         UNCHANGED <<status, history, moved, restored, lock>>,
         orderCount' \in [Customers -> Nat], crossed' \in SUBSET Customers, failed' \in [Orders -> Nat]
  PROVE  Base'
<1> DEFINE p == proc[w]
           t == [p EXCEPT !.at = a, !.count = n]
<1>1. /\ p.order \in Orders /\ p.to \in OrderStatus /\ p.from \in OrderStatus /\ Placed(w) /\ p.at # "idle"
      /\ p = [at |-> p.at, order |-> p.order, to |-> p.to, from |-> p.from, todo |-> p.todo, count |-> p.count]
  BY Carried DEF Base, Moving
<1>2. proc' = [proc EXCEPT ![w] = t]
  OBVIOUS
<1>3. /\ t \in Requests /\ t.at = a /\ t.order = p.order /\ t.to = p.to /\ t.from = p.from /\ t.todo = {}
  BY <1>1 DEF Requests
<1> HIDE DEF t
<1>4. proc'[w] = t /\ Types'
  BY <1>2, <1>3, OneRequestMoves DEF Base, Types
<1>5. ToDo(w)' /\ Moving(w)'
  BY <1>3, <1>4 DEF ToDo, Moving
<1> QED
  BY <1>1, <1>2, <1>3, <1>4, <1>5, RequestGoesOn DEF Placed

\* Status and history move on together, and the row lock is given back.
LEMMA CommitKeepsBase ==
  ASSUME Base, NEW w \in Workers, CommitTransition(w)
  PROVE  Base'
<1> DEFINE p == proc[w]
<1>1. /\ Moving(w) /\ p.order \in Orders /\ p.to \in OrderStatus /\ p.from \in OrderStatus
      /\ status[p.order] = p.from /\ CanTransition(p.from, p.to) /\ Past(p.order)
  BY Carried DEF CommitTransition, Moving, Base, Holding
<1>2. PICK q \in Orders : q = p.order
  BY <1>1
<1>3. PICK s \in OrderStatus : s = p.to
  BY <1>1
<1>4. /\ status' = [status EXCEPT ![q] = s] /\ history' = [history EXCEPT ![q] = Append(@, s)]
      /\ lock' = [lock EXCEPT ![q] = NoOne] /\ proc' = [proc EXCEPT ![w] = Idle]
      /\ restored' = Restored(q, s) /\ UNCHANGED <<stockVars, statsVars, failed>>
  BY <1>2, <1>3 DEF CommitTransition
<1>5. /\ history' \in [Orders -> Seq(OrderStatus)]
      /\ \A t \in OrderStatus : Entered(q, t)' <=> Entered(q, t) \/ t = s
      /\ \A o \in Orders : o # q => history'[o] = history[o]
  BY <1>4, AppendEnters DEF Base
<1>6. status'[q] = s /\ \A o \in Orders : o # q => status'[o] = status[o]
  BY <1>4 DEF Base, Types
<1>7. Types'
  <2>1. Idle \in Requests
    BY Carried DEF Base
  <2>2. restored' \in [Orders -> Nat]
    BY <1>4 DEF Restored, Base, Types
  <2> QED
    BY <1>4, <1>5, <2>1, <2>2 DEF Base, Types, stockVars, statsVars
<1>8. s # NotPlaced /\ "CONFIRMED" \in OrderStatus /\ "RETURNED" \in OrderStatus
  BY FulfilmentAssumption DEF OrderStatus
<1>9. Past(q)'
  <2>1. Past(q) /\ status[q] \in OrderStatus /\ CanTransition(status[q], s)
    BY <1>1, <1>2, <1>3
  <2>2. /\ s # "PENDING" /\ (s = "CONFIRMED" => status[q] = "PENDING")
        /\ (status[q] = "PENDING" => s \in {"CONFIRMED", "CANCELLED"})
        /\ (s = "REFUNDED" <=> status[q] = "RETURNED")
        /\ status[q] \notin {"CANCELLED", "REFUNDED"}
    BY <2>1, Edges
  <2> QED
    BY <1>5, <1>6, <1>8, <2>1, <2>2 DEF Past
<1> QED
  BY <1>1, <1>2, <1>4, <1>5, <1>6, <1>7, <1>8, <1>9, RequestEnds

\* The steps of a request that moves no order and commits nothing.
LEMMA ProceedKeepsBase ==
  ASSUME Base, NEW w \in Workers, Proceed(w) \/ Crash(w) \/ Open(w)
  PROVE  Base'
<1>1. CASE RefuseTransition(w)
  <2>1. proc' = [proc EXCEPT ![w] = Idle] /\ Idle \in Requests /\ Idle.at = "idle" /\ ~Moving(w)
    BY <1>1, Carried DEF RefuseTransition, Base, Idle, Moving
  <2>2. UNCHANGED <<status, history, lock, moved, restored, statsVars, failed>>
    BY <1>1 DEF RefuseTransition, orderVars, stockVars
  <2>3. proc'[w] = Idle /\ Types'
    BY <2>1, <2>2, OneRequestMoves DEF Base, Types, statsVars
  <2> QED
    BY <2>1, <2>2, <2>3, RequestGoesOn DEF Moving, ToDo
<1>2. CASE Open(w)
  <2>1. PICK t \in Requests :
          /\ t.at = "waiting" /\ status[t.order] # NotPlaced
          /\ proc' = [proc EXCEPT ![w] = t]
    <3>1. PICK o \in Orders, to \in OrderStatus :
            /\ status[o] # NotPlaced
            /\ proc' = [proc EXCEPT ![w] = [at |-> "waiting", order |-> o, to |-> to]]
      BY <1>2 DEF Open
    <3>2. [at |-> "waiting", order |-> o, to |-> to] \in Requests
      BY DEF Requests
    <3> QED
      BY <3>1, <3>2
  <2>2. ~Moving(w)
    BY <1>2 DEF Open, Moving
  <2>3. UNCHANGED <<status, history, lock, moved, restored, statsVars, failed>>
    BY <1>2 DEF Open, orderVars, stockVars
  <2>4. proc'[w] = t /\ Types'
    BY <2>1, <2>2, <2>3, OneRequestMoves DEF Base, Types, statsVars
  <2> QED
    BY <2>1, <2>2, <2>3, <2>4, RequestGoesOn DEF Moving, ToDo
<1>3. CASE MoveLine(w)
  BY <1>3, MoveLineKeepsBase
<1>4. CASE RefuseLine(w) \/ Crash(w) \/ (AcquireTimeout(w) /\ Working(w))
  <2>1. Moving(w) /\ Rollback(w)
    BY <1>4 DEF RefuseLine, Crash, AcquireTimeout, Counts, Working, Moving
  <2>2. UNCHANGED <<status, history, moved, restored, statsVars>>
    BY <1>4 DEF RefuseLine, Crash, AcquireTimeout, orderVars, stockVars
  <2> QED
    BY <2>1, <2>2, RolledBack
<1>5. CASE ReadStats(w) \/ WriteStats(w) \/ (AcquireTimeout(w) /\ ~Working(w))
  <2>0. proc[w].order \in Orders /\ ToDo(w)
    BY <1>5, Carried DEF ReadStats, WriteStats, AcquireTimeout, Counts, Base
  <2>1. Moving(w) /\ proc[w].todo = {} /\ UNCHANGED <<status, history, moved, restored, lock>>
    BY <1>5, <2>0 DEF ReadStats, WriteStats, AcquireTimeout, Counts, Moving, ToDo, orderVars, stockVars
  <2>2. /\ orderCount' \in [Customers -> Nat] /\ crossed' \in SUBSET Customers /\ failed' \in [Orders -> Nat]
        /\ \E a \in {"counting", "commit"}, n \in Nat : proc' = [proc EXCEPT ![w].at = a, ![w].count = n]
    <3>0. CustomerOf[proc[w].order] \in Customers
      BY <2>0, FulfilmentAssumption
    <3>1. CASE ReadStats(w)
      <4>1. orderCount[CustomerOf[proc[w].order]] \in Nat
        BY <3>0 DEF Base, Types
      <4> QED
        BY <3>1, <4>1 DEF ReadStats, statsVars, Base, Types
    <3>2. CASE WriteStats(w)
      <4> DEFINE c == CustomerOf[proc[w].order]
                 sum == proc[w].count + Sign(proc[w].from, proc[w].to)
                 next == IF sum > 0 THEN sum ELSE 0
      <4>1. sum \in Int
        <5>1. proc[w].count \in Nat
          BY <2>1, Carried DEF Base
        <5>2. Sign(proc[w].from, proc[w].to) \in {-1, 0, 1}
          BY DEF Sign
        <5> QED
          BY <5>1, <5>2
      <4>2. next \in Nat
        BY <4>1
      <4>3. /\ orderCount' = IF next = proc[w].count THEN orderCount ELSE [orderCount EXCEPT ![c] = next]
            /\ crossed' \subseteq crossed \union {c}
            /\ proc' = [proc EXCEPT ![w].at = "commit", ![w].count = 0] /\ failed' = failed
        BY <3>2 DEF WriteStats
      <4> HIDE DEF next
      <4>4. orderCount' \in [Customers -> Nat]
        BY <4>2, <4>3 DEF Base, Types
      <4>5. crossed' \in SUBSET Customers
        BY <3>0, <4>3 DEF Base, Types
      <4> QED
        BY <4>3, <4>4, <4>5 DEF Base, Types
    <3>3. CASE AcquireTimeout(w) /\ ~Working(w)
      <4>1. /\ failed' = [failed EXCEPT ![proc[w].order] = @ + 1] /\ UNCHANGED <<orderCount, crossed>>
            /\ proc' = [proc EXCEPT ![w].at = "commit", ![w].count = 0]
        BY <3>3 DEF AcquireTimeout, statsVars
      <4>2. failed' \in [Orders -> Nat]
        BY <2>0, <4>1 DEF Base, Types
      <4> QED
        BY <4>1, <4>2 DEF Base, Types
    <3> QED
      BY <1>5, <3>1, <3>2, <3>3
  <2> QED
    BY <2>1, <2>2, CountingKeepsBase
<1>6. CASE CommitTransition(w)
  BY <1>6, CommitKeepsBase
<1> QED
  BY <1>1, <1>2, <1>3, <1>4, <1>5, <1>6 DEF Proceed

\* The base of the argument is inductive.
THEOREM BaseHolds == Spec => []Base
<1>1. Init => Base
  <2> SUFFICES ASSUME Init PROVE Base
    OBVIOUS
  <2>1. Types
    BY FulfilmentAssumption DEF Init, Types, OrderMovements, Requests
  <2>2. ASSUME NEW w \in Workers PROVE Holding(w) /\ Placed(w) /\ ToDo(w)
    BY DEF Init, Idle, Holding, Placed, ToDo, Moving
  <2>3. ASSUME NEW o \in Orders PROVE Held(o) /\ Past(o)
    BY FulfilmentAssumption DEF Init, Held, Past, Entered, OrderStatus
  <2> QED
    BY <2>1, <2>2, <2>3 DEF Base
<1>2. Base /\ [Next]_vars => Base'
  <2> SUFFICES ASSUME Base, [Next]_vars PROVE Base'
    OBVIOUS
  <2>1. ASSUME NEW v \in Variants, CorrectStock(v) PROVE Base'
    BY <2>1 DEF CorrectStock, orderVars, statsVars, Base, Types, Holding, Placed, ToDo, Held, Past, Entered, Moving
  <2>2. CASE UNCHANGED vars
    BY <2>2 DEF vars, orderVars, stockVars, statsVars, Base, Types, Holding, Placed, ToDo, Held, Past, Entered, Moving
  <2> QED
    BY <2>1, <2>2, PlaceOrderKeepsBase, LockOrderKeepsBase, ProceedKeepsBase DEF Next
<1> QED
  BY <1>1, <1>2, PTL DEF Spec

-----------------------------------------------------------------------------
\* The order moves as the atomic lifecycle says.

\* Every step of a request is a step of the lifecycle, or none of its business.
LEMMA StepsAreTransitions ==
  ASSUME Base, [Next]_vars
  PROVE  [Lifecycle!Next]_<<status, history>>
<1>1. ASSUME NEW o \in Orders, PlaceOrder(o) PROVE Lifecycle!Place(o)
  <2>1. status[o] = NotPlaced /\ history[o] = <<>> /\ history \in [Orders -> Seq(OrderStatus)]
    BY <1>1 DEF PlaceOrder, Base, Past, Types
  <2>2. Append(<<>>, "PENDING") = <<"PENDING">>
    OBVIOUS
  <2> QED
    BY <1>1, <2>1, <2>2 DEF PlaceOrder, Lifecycle!Place, Lifecycle!Enter
<1>2. ASSUME NEW w \in Workers, CommitTransition(w) PROVE \E o \in Orders : Lifecycle!Transition(o)
  <2>1. /\ Moving(w) /\ proc[w].order \in Orders /\ proc[w].to \in OrderStatus
        /\ status[proc[w].order] = proc[w].from /\ CanTransition(proc[w].from, proc[w].to)
        /\ status[proc[w].order] # NotPlaced
    BY <1>2, Carried DEF CommitTransition, Moving, Base, Holding, Placed
  <2>2. Lifecycle!Transition(proc[w].order)
    BY <1>2, <2>1 DEF CommitTransition, Lifecycle!Transition, Lifecycle!Enter, CanTransition, TRANSITIONS,
                     Lifecycle!CanTransition, Lifecycle!TRANSITIONS, OrderStatus, Lifecycle!OrderStatus
  <2> QED
    BY <2>1, <2>2
<1>3. ASSUME NEW w \in Workers, (Proceed(w) /\ ~CommitTransition(w)) \/ Open(w) \/ LockOrder(w) \/ Crash(w)
      PROVE  UNCHANGED <<status, history>>
  BY <1>3 DEF Proceed, Open, LockOrder, Crash, RefuseTransition, MoveLine, RefuseLine, ReadStats, WriteStats,
              AcquireTimeout, orderVars
<1>4. ASSUME NEW v \in Variants, CorrectStock(v) PROVE UNCHANGED <<status, history>>
  BY <1>4 DEF CorrectStock, orderVars
<1>5. UNCHANGED vars => UNCHANGED <<status, history>>
  BY DEF vars, orderVars
<1> QED
  BY <1>1, <1>2, <1>3, <1>4, <1>5 DEF Next, Lifecycle!Next

\* The transition with its row lock implements the lifecycle, one edge of the table at a
\* time with its history row, for any number of orders and requests and whatever fails.
THEOREM TransitionImplementsLifecycle == Spec => LifecycleIsAtomic
<1>1. Init => Lifecycle!Init
  BY DEF Init, Lifecycle!Init
<1>2. Base /\ [Next]_vars => [Lifecycle!Next]_<<status, history>>
  BY StepsAreTransitions
<1> QED
  BY <1>1, <1>2, BaseHolds, PTL DEF Spec, LifecycleIsAtomic, Lifecycle!Spec, Lifecycle!lifecycleVars

-----------------------------------------------------------------------------
\* The wallet.

\* However often cancelling an order is tried, its credit comes back exactly once.
THEOREM WalletComesBackOnce == Spec => []WalletRestoredOnce
<1>1. Init => WalletRestoredOnce
  BY FulfilmentAssumption DEF Init, WalletRestoredOnce, OrderStatus
<1>2. Base /\ WalletRestoredOnce /\ [Next]_vars => WalletRestoredOnce'
  <2> SUFFICES ASSUME Base, WalletRestoredOnce, [Next]_vars PROVE WalletRestoredOnce'
    OBVIOUS
  <2>0. "CANCELLED" # NotPlaced
    BY FulfilmentAssumption DEF OrderStatus
  <2>1. ASSUME NEW o \in Orders, PlaceOrder(o) PROVE WalletRestoredOnce'
    BY <2>0, <2>1 DEF PlaceOrder, WalletRestoredOnce, Base, Types
  <2>2. ASSUME NEW w \in Workers, CommitTransition(w) PROVE WalletRestoredOnce'
    <3>1. /\ proc[w].order \in Orders /\ proc[w].to \in OrderStatus /\ proc[w].from \in OrderStatus
          /\ status[proc[w].order] = proc[w].from /\ CanTransition(proc[w].from, proc[w].to)
      BY <2>2, Carried DEF CommitTransition, Moving, Base, Holding
    <3>2. status[proc[w].order] # "CANCELLED"
      BY <3>1, Edges
    <3> QED
      BY <2>2, <3>1, <3>2 DEF CommitTransition, Restored, WalletRestoredOnce, Base, Types
  <2>3. ASSUME NEW w \in Workers, (Proceed(w) /\ ~CommitTransition(w)) \/ Open(w) \/ LockOrder(w) \/ Crash(w)
        PROVE  UNCHANGED <<status, restored>>
    BY <2>3 DEF Proceed, Open, LockOrder, Crash, RefuseTransition, MoveLine, RefuseLine, ReadStats, WriteStats,
                AcquireTimeout, orderVars
  <2>4. ASSUME NEW v \in Variants, CorrectStock(v) PROVE UNCHANGED <<status, restored>>
    BY <2>4 DEF CorrectStock, orderVars
  <2>5. UNCHANGED vars => UNCHANGED <<status, restored>>
    BY DEF vars, orderVars
  <2>6. UNCHANGED <<status, restored>> => WalletRestoredOnce'
    BY DEF WalletRestoredOnce
  <2> QED
    BY <2>1, <2>2, <2>3, <2>4, <2>5, <2>6 DEF Next
<1> QED
  BY <1>1, <1>2, BaseHolds, PTL DEF Spec

-----------------------------------------------------------------------------
\* The stock movements of an order.

\* The edges that were committed called for movement m of every line.
Settled(o, m) ==
  CASE m = "ORDER" -> Entered(o, "CONFIRMED")
    [] m = "RELEASE" -> Undone(o) /\ ~Entered(o, "CONFIRMED")
    [] OTHER -> Undone(o) /\ Entered(o, "CONFIRMED")

\* The edge that w is taking calls for movement m.
Called(w, m) ==
  LET op == StockOperation(proc[w].from, proc[w].to)
  IN  Moving(w) /\ op # "NONE" /\ m = MovementOf(op)

\* The request that holds the row has already made movement m of line v.
Ahead(o, v, m) == lock[o] # NoOne /\ Called(lock[o], m) /\ v \notin proc[lock[o]].todo

\* At least once: what was settled, and what a request has done so far, has moved.
AtLeast(o) ==
  \A v \in LinesOf(o), m \in OrderMovements : Settled(o, m) \/ Ahead(o, v, m) => moved[o][v][m] >= Lines[o][v]

Times(b, n) == IF b THEN n ELSE 0

\* Exactly once, as long as no transition of the order has failed half-way.
Exactly(o) ==
  failed[o] = 0 =>
    \A v \in LinesOf(o), m \in OrderMovements :
      moved[o][v][m] = Times(Settled(o, m), Lines[o][v]) + Times(Ahead(o, v, m), Lines[o][v])

\* A committed edge settles what it called for, which nothing had settled before.
LEMMA CommitSettles ==
  ASSUME Base, NEW w \in Workers, CommitTransition(w), NEW q \in Orders, q = proc[w].order, NEW m \in OrderMovements
  PROVE  /\ Settled(q, m)' <=> Settled(q, m) \/ Called(w, m)
         /\ ~(Settled(q, m) /\ Called(w, m))
<1> DEFINE from == proc[w].from
           to == proc[w].to
           op == StockOperation(from, to)
<1>1. /\ Moving(w) /\ from \in OrderStatus /\ to \in OrderStatus /\ status[q] = from /\ CanTransition(from, to)
      /\ Past(q) /\ status' = [status EXCEPT ![q] = to] /\ history' = [history EXCEPT ![q] = Append(@, to)]
  BY Carried DEF CommitTransition, Moving, Base, Holding
<1>2. PICK s \in OrderStatus : s = to
  BY <1>1
<1>3. /\ "CONFIRMED" \in OrderStatus /\ "RETURNED" \in OrderStatus
      /\ \A t \in OrderStatus : Entered(q, t)' <=> Entered(q, t) \/ t = s
  BY <1>1, <1>2, AppendEnters DEF Base, OrderStatus
<1>4. status'[q] = s
  BY <1>1, <1>2 DEF Base, Types
<1>5. /\ s # "PENDING" /\ (s = "CONFIRMED" => from = "PENDING") /\ (from = "PENDING" => s \in {"CONFIRMED", "CANCELLED"})
      /\ (s = "CANCELLED" => from \in {"PENDING", "CONFIRMED", "PROCESSING"})
      /\ (s = "RETURNED" <=> from = "RETURN_APPROVED") /\ (s = "REFUNDED" <=> from = "RETURNED")
      /\ from \notin {"CANCELLED", "REFUNDED"}
  BY <1>1, <1>2, Edges
<1>6. Called(w, m) <=> \/ s = "CONFIRMED" /\ m = "ORDER"
                       \/ s = "CANCELLED" /\ from = "PENDING" /\ m = "RELEASE"
                       \/ s = "CANCELLED" /\ from # "PENDING" /\ m = "RETURN"
                       \/ s = "RETURNED" /\ m = "RETURN"
  BY <1>1, <1>2 DEF Called, StockOperation, MovementOf, OrderMovements
<1>7. /\ Entered(q, "CONFIRMED") => from # "PENDING"
      /\ from # "PENDING" => Entered(q, "CONFIRMED")
      /\ Entered(q, "RETURNED") <=> from \in {"RETURNED", "REFUNDED"}
  BY <1>1, <1>5 DEF Past
<1>8. Undone(q)' <=> s = "CANCELLED" \/ from = "RETURNED" \/ s = "RETURNED"
  BY <1>3, <1>4, <1>5, <1>7 DEF Undone
<1>9. Undone(q) <=> from = "RETURNED"
  BY <1>1, <1>5, <1>7 DEF Undone
<1>10. Entered(q, "CONFIRMED")' <=> from # "PENDING" \/ s = "CONFIRMED"
  BY <1>3, <1>7
<1>11. Entered(q, "CONFIRMED") <=> from # "PENDING"
  BY <1>7
<1> HIDE DEF from, to, op
<1>12. CASE m = "ORDER"
  BY <1>5, <1>6, <1>10, <1>11, <1>12 DEF Settled
<1>13. CASE m = "RELEASE"
  BY <1>5, <1>6, <1>8, <1>9, <1>10, <1>11, <1>13 DEF Settled
<1>14. CASE m = "RETURN"
  BY <1>5, <1>6, <1>8, <1>9, <1>10, <1>11, <1>14 DEF Settled
<1> QED
  BY <1>12, <1>13, <1>14 DEF OrderMovements

\* A line that moves is counted once.
LEMMA MoveLineCounts ==
  ASSUME Base, NEW w \in Workers, MoveLine(w), NEW q \in Orders, q = proc[w].order
  PROVE  \E u \in LinesOf(q) :
           /\ ~Ahead(q, u, MovementOf(StockOperation(proc[w].from, proc[w].to)))
           /\ \A v \in LinesOf(q), m \in OrderMovements :
                /\ Ahead(q, v, m)' <=> Ahead(q, v, m) \/ (v = u /\ Called(w, m))
                /\ moved'[q][v][m] = moved[q][v][m] + Times(v = u /\ Called(w, m), Lines[q][v])
           /\ \A o \in Orders : o # q => moved'[o] = moved[o]
<1> DEFINE op == StockOperation(proc[w].from, proc[w].to)
           k == MovementOf(op)
<1>1. PICK u \in proc[w].todo :
        /\ moved' = [moved EXCEPT ![q][u][k] = @ + Lines[q][u]]
        /\ proc' = [proc EXCEPT ![w].todo = @ \ {u}]
  BY DEF MoveLine
<1>2. /\ proc[w].at = "effects" /\ Moving(w) /\ ToDo(w) /\ lock[q] = w /\ lock' = lock /\ w # NoOne
      /\ proc[w].todo \subseteq LinesOf(q) /\ op # "NONE"
  BY <1>1, FulfilmentAssumption DEF MoveLine, Working, Moving, Base, ToDo, Holding
<1>3. u \in LinesOf(q) /\ LinesOf(q) \subseteq Variants
  BY <1>1, <1>2 DEF LinesOf
<1>4. k \in OrderMovements
  BY <1>2 DEF StockOperation, MovementOf, OrderMovements
<1>5. /\ proc'[w].todo = proc[w].todo \ {u} /\ proc'[w].at = "effects"
      /\ proc'[w].from = proc[w].from /\ proc'[w].to = proc[w].to
  <2>1. proc[w] = [at |-> proc[w].at, order |-> proc[w].order, to |-> proc[w].to,
                   from |-> proc[w].from, todo |-> proc[w].todo, count |-> proc[w].count]
    BY <1>2, Carried DEF Base
  <2> DEFINE t == [proc[w] EXCEPT !.todo = @ \ {u}]
  <2>2. proc'[w] = t
    BY <1>1 DEF Base, Types
  <2>3. t.todo = proc[w].todo \ {u} /\ t.at = proc[w].at /\ t.from = proc[w].from /\ t.to = proc[w].to
    BY <2>1
  <2> QED
    BY <1>2, <2>2, <2>3
<1>6. \A m : Called(w, m)' <=> Called(w, m)
  BY <1>2, <1>5 DEF Called, Moving
<1>7. \A m : Called(w, m) <=> m = k
  BY <1>2 DEF Called
<1> HIDE DEF op, k
<1>8. ~Ahead(q, u, k)
  BY <1>1, <1>2 DEF Ahead
<1>9. ASSUME NEW v \in LinesOf(q), NEW m \in OrderMovements
      PROVE  Ahead(q, v, m)' <=> Ahead(q, v, m) \/ (v = u /\ Called(w, m))
  BY <1>2, <1>5, <1>6 DEF Ahead
<1>10. ASSUME NEW v \in LinesOf(q), NEW m \in OrderMovements
       PROVE  moved'[q][v][m] = moved[q][v][m] + Times(v = u /\ Called(w, m), Lines[q][v])
  <2>1. moved[q] \in [Variants -> [OrderMovements -> Nat]] /\ moved[q][v] \in [OrderMovements -> Nat]
        /\ moved[q][u] \in [OrderMovements -> Nat] /\ moved[q][v][m] \in Nat /\ moved[q][u][k] \in Nat
    BY <1>3, <1>4 DEF Base, Types
  <2>2. moved'[q] = [moved[q] EXCEPT ![u] = [moved[q][u] EXCEPT ![k] = moved[q][u][k] + Lines[q][u]]]
    BY <1>1 DEF Base, Types
  <2>3. CASE v # u
    <3>1. moved'[q][v] = moved[q][v]
      BY <2>1, <2>2, <2>3
    <3> QED
      BY <2>1, <2>3, <3>1 DEF Times
  <2>4. CASE v = u
    <3>1. moved'[q][v] = [moved[q][v] EXCEPT ![k] = @ + Lines[q][v]]
      BY <1>3, <2>1, <2>2, <2>4 DEF Base, Types
    <3> QED
      BY <1>4, <1>7, <2>1, <2>4, <3>1 DEF Times
  <2> QED
    BY <2>3, <2>4
<1>11. \A o \in Orders : o # q => moved'[o] = moved[o]
  BY <1>1 DEF Base, Types
<1> QED
  BY <1>3, <1>8, <1>9, <1>10, <1>11 DEF k, op

\* What the properties about movements are inductive with.
Moves == Base /\ \A o \in Orders : AtLeast(o) /\ Exactly(o)

\* The quantity of a line.
LEMMA LineQuantity ==
  ASSUME NEW o \in Orders, NEW v \in LinesOf(o)
  PROVE  v \in Variants /\ Lines[o][v] \in Nat
<1>1. v \in Variants
  BY DEF LinesOf
<1>2. Lines[o] \in [Variants -> Quantities \union {0}]
  BY LinesAssumption
<1>3. Quantities \union {0} \subseteq Nat
  BY QuantitiesAssumption
<1> QED
  BY <1>1, <1>2, <1>3

\* An order keeps its account if nothing that it speaks of has changed.
LEMMA AccountKept ==
  ASSUME Moves, Base', NEW o \in Orders,
         moved'[o] = moved[o], failed'[o] = failed[o] \/ failed'[o] = failed[o] + 1,
         \A m \in OrderMovements : Settled(o, m)' <=> Settled(o, m),
         \A v \in LinesOf(o), m \in OrderMovements :
           (Ahead(o, v, m)' => Ahead(o, v, m)) /\ (failed'[o] = failed[o] => (Ahead(o, v, m)' <=> Ahead(o, v, m)))
  PROVE  AtLeast(o)' /\ Exactly(o)'
<1>1. AtLeast(o) /\ Exactly(o) /\ failed[o] \in Nat
  BY DEF Moves, Base, Types
<1>2. AtLeast(o)'
  BY <1>1 DEF AtLeast
<1>3. ASSUME failed'[o] = 0 PROVE failed[o] = 0 /\ failed'[o] = failed[o]
  BY <1>1, <1>3
<1>4. Exactly(o)'
  BY <1>1, <1>3 DEF Exactly, Times
<1> QED
  BY <1>2, <1>4

\* What is settled depends on the status and the history of the order alone.
LEMMA SettledKept ==
  ASSUME NEW o \in Orders, status'[o] = status[o], history'[o] = history[o], NEW m \in OrderMovements
  PROVE  Settled(o, m)' <=> Settled(o, m)
BY DEF Settled, Undone, Entered

\* What is ahead depends on the request that holds the row.
LEMMA AheadKept ==
  ASSUME Base, Base', NEW w \in Workers, \A x \in Workers : x # w => proc'[x] = proc[x],
         NEW o \in Orders, lock'[o] = lock[o], lock[o] # w, NEW v \in LinesOf(o), NEW m \in OrderMovements
  PROVE  Ahead(o, v, m)' <=> Ahead(o, v, m)
<1>1. lock[o] = NoOne \/ (lock[o] \in Workers /\ proc'[lock[o]] = proc[lock[o]])
  BY DEF Base, Types
<1> QED
  BY <1>1 DEF Ahead, Called, Moving

\* Steps that move no line of any order and commit no edge.
LEMMA QuietStepsKeepAccounts ==
  ASSUME Moves, Base', NEW w \in Workers,
         Open(w) \/ RefuseTransition(w) \/ LockOrder(w),
         NEW o \in Orders
  PROVE  AtLeast(o)' /\ Exactly(o)'
<1>1. ~Moving(w)
  BY DEF Open, RefuseTransition, LockOrder, Moving
<1>2. moved'[o] = moved[o] /\ failed'[o] = failed[o] /\ status'[o] = status[o] /\ history'[o] = history[o]
  BY DEF Open, RefuseTransition, LockOrder, orderVars, stockVars
<1>3. lock[o] # w
  BY <1>1, FulfilmentAssumption DEF Moves, Base, Held
<1>4. \A x \in Workers : x # w => proc'[x] = proc[x]
  BY DEF Open, RefuseTransition, LockOrder, Moves, Base, Types
<1>5. ASSUME NEW v \in LinesOf(o), NEW m \in OrderMovements
      PROVE  Ahead(o, v, m)' <=> Ahead(o, v, m)
  <2>1. CASE lock'[o] = lock[o]
    BY <1>3, <1>4, <2>1, AheadKept DEF Moves
  <2>2. CASE lock'[o] # lock[o]
    <3>1. LockOrder(w) /\ o = proc[w].order /\ lock[o] = NoOne /\ lock'[o] = w
      BY <2>2 DEF Open, RefuseTransition, LockOrder, Moves, Base, Types
    <3>2. ~Ahead(o, v, m)
      BY <3>1 DEF Ahead
    <3> DEFINE lines == IF StockOperation(status[o], proc[w].to) = "NONE" THEN {} ELSE LinesOf(o)
               t == [at |-> "effects", order |-> o, to |-> proc[w].to, from |-> status[o], count |-> 0, todo |-> lines]
    <3>3. proc' = [proc EXCEPT ![w] = t]
      BY <3>1 DEF LockOrder
    <3>4. proc'[w] = t
      BY <3>3 DEF Moves, Base, Types
    <3>5. t.from = status[o] /\ t.to = proc[w].to /\ t.todo = lines
      <4> HIDE DEF lines
      <4> QED
        OBVIOUS
    <3> HIDE DEF t
    <3>6. Called(w, m)' => v \in proc'[w].todo
      BY <3>4, <3>5 DEF Called
    <3> QED
      BY <3>1, <3>2, <3>6 DEF Ahead
  <2> QED
    BY <2>1, <2>2
<1> QED
  BY <1>2, <1>5, AccountKept, SettledKept

\* The transaction that fails is undone; the lines it has moved are not.
LEMMA RollbackKeepsAccounts ==
  ASSUME Moves, Base', NEW w \in Workers, Moving(w), Rollback(w), UNCHANGED <<status, history, moved>>,
         NEW o \in Orders
  PROVE  AtLeast(o)' /\ Exactly(o)'
<1> DEFINE q == proc[w].order
<1>1. q \in Orders /\ lock[q] = w
  BY Carried DEF Moves, Base, Moving, Holding
<1>2. failed' = [failed EXCEPT ![q] = @ + 1]
  BY DEF Rollback
<1>3. lock[o] = w => o = q
  BY FulfilmentAssumption DEF Moves, Base, Held
<1>4. lock'[o] = IF lock[o] = w THEN NoOne ELSE lock[o]
  BY DEF Rollback
<1>5. \A x \in Workers : x # w => proc'[x] = proc[x]
  BY DEF Rollback, Moves, Base, Types
<1>6. CASE o = q
  <2>1. failed'[o] = failed[o] + 1 /\ failed[o] \in Nat
    BY <1>1, <1>2, <1>6 DEF Moves, Base, Types
  <2>2. \A v, m : ~Ahead(o, v, m)'
    BY <1>1, <1>4, <1>6 DEF Ahead
  <2> QED
    BY <2>1, <2>2, AccountKept, SettledKept
<1>7. CASE o # q
  <2>1. failed'[o] = failed[o] /\ lock'[o] = lock[o] /\ lock[o] # w
    BY <1>1, <1>2, <1>3, <1>4, <1>7 DEF Moves, Base, Types
  <2>2. \A v \in LinesOf(o), m \in OrderMovements : Ahead(o, v, m)' <=> Ahead(o, v, m)
    BY <1>5, <2>1, AheadKept DEF Moves
  <2> QED
    BY <2>1, <2>2, AccountKept, SettledKept
<1> QED
  BY <1>6, <1>7

\* Statistics are counted beside the lines.
LEMMA CountingKeepsAccounts ==
  ASSUME Moves, Base', NEW w \in Workers, Moving(w), UNCHANGED <<status, history, moved, lock>>,
         proc[w].todo = {},
         NEW n \in Nat, NEW a \in {"counting", "commit"}, proc' = [proc EXCEPT ![w].at = a, ![w].count = n],
         failed' = failed \/ failed' = [failed EXCEPT ![proc[w].order] = @ + 1],
         NEW o \in Orders
  PROVE  AtLeast(o)' /\ Exactly(o)'
<1>1. proc[w].order \in Orders
  BY Carried DEF Moves, Base, Moving
<1>2. failed'[o] = failed[o] \/ failed'[o] = failed[o] + 1
  BY <1>1 DEF Moves, Base, Types
<1>3. \A x \in Workers : x # w => proc'[x] = proc[x]
  BY DEF Moves, Base, Types
<1>4. proc'[w].at = a /\ proc'[w].from = proc[w].from /\ proc'[w].to = proc[w].to /\ proc'[w].todo = {}
  <2>1. proc[w] = [at |-> proc[w].at, order |-> proc[w].order, to |-> proc[w].to,
                   from |-> proc[w].from, todo |-> proc[w].todo, count |-> proc[w].count]
    BY Carried DEF Moves, Base
  <2> DEFINE t == [proc[w] EXCEPT !.at = a, !.count = n]
  <2>2. proc'[w] = t
    BY DEF Moves, Base, Types
  <2>3. t.at = a /\ t.from = proc[w].from /\ t.to = proc[w].to /\ t.todo = proc[w].todo
    BY <2>1
  <2> QED
    BY <2>2, <2>3
<1>5. \A v \in LinesOf(o), m \in OrderMovements : Ahead(o, v, m)' <=> Ahead(o, v, m)
  <2>1. CASE lock[o] = w
    BY <1>4, <2>1 DEF Ahead, Called, Moving
  <2>2. CASE lock[o] # w
    BY <1>3, <2>2, AheadKept DEF Moves
  <2> QED
    BY <2>1, <2>2
<1> QED
  BY <1>2, <1>5, AccountKept, SettledKept

\* A line that moves.
LEMMA MoveLineKeepsAccounts ==
  ASSUME Moves, Base', NEW w \in Workers, MoveLine(w), NEW o \in Orders
  PROVE  AtLeast(o)' /\ Exactly(o)'
<1>1. Moving(w) /\ proc[w].order \in Orders /\ UNCHANGED <<status, history, lock, failed>>
  BY Carried DEF MoveLine, Working, Moving, Moves, Base, orderVars
<1>2. PICK q \in Orders : q = proc[w].order
  BY <1>1
<1> DEFINE k == MovementOf(StockOperation(proc[w].from, proc[w].to))
<1>3. PICK u \in LinesOf(q) :
        /\ ~Ahead(q, u, k)
        /\ \A v \in LinesOf(q), m \in OrderMovements :
             /\ Ahead(q, v, m)' <=> Ahead(q, v, m) \/ (v = u /\ Called(w, m))
             /\ moved'[q][v][m] = moved[q][v][m] + Times(v = u /\ Called(w, m), Lines[q][v])
        /\ \A p \in Orders : p # q => moved'[p] = moved[p]
  BY <1>2, MoveLineCounts DEF Moves
<1>4. CASE o = q
  <2>1. AtLeast(o) /\ Exactly(o) /\ failed'[o] = failed[o]
    BY <1>1 DEF Moves
  <2>2. ASSUME NEW v \in LinesOf(o), NEW m \in OrderMovements
        PROVE  /\ Settled(o, m)' <=> Settled(o, m)
               /\ Lines[o][v] \in Nat /\ moved[o][v][m] \in Nat
               /\ Called(w, m) /\ v = u => ~Ahead(o, v, m)
    <3>1. v \in Variants /\ Lines[o][v] \in Nat
      BY LineQuantity
    <3>2. Called(w, m) => m = k
      BY DEF Called
    <3> QED
      BY <1>1, <1>3, <1>4, <3>1, <3>2, SettledKept DEF Moves, Base, Types
  <2> HIDE DEF k
  <2>3. ASSUME NEW v \in LinesOf(o), NEW m \in OrderMovements, Settled(o, m)' \/ Ahead(o, v, m)'
        PROVE  moved'[o][v][m] >= Lines[o][v]
    <3>1. moved'[o][v][m] = moved[o][v][m] + Times(v = u /\ Called(w, m), Lines[o][v])
      BY <1>3, <1>4
    <3>2. CASE Settled(o, m) \/ Ahead(o, v, m)
      <4>1. moved[o][v][m] >= Lines[o][v]
        BY <2>1, <3>2 DEF AtLeast
      <4> QED
        BY <2>2, <3>1, <4>1 DEF Times
    <3>3. CASE v = u /\ Called(w, m)
      BY <2>2, <3>1, <3>3 DEF Times
    <3> QED
      BY <1>3, <1>4, <2>2, <2>3, <3>2, <3>3
  <2>4. ASSUME failed'[o] = 0, NEW v \in LinesOf(o), NEW m \in OrderMovements
        PROVE  moved'[o][v][m] = Times(Settled(o, m)', Lines[o][v]) + Times(Ahead(o, v, m)', Lines[o][v])
    <3>1. moved'[o][v][m] = moved[o][v][m] + Times(v = u /\ Called(w, m), Lines[o][v])
      BY <1>3, <1>4
    <3>2. moved[o][v][m] = Times(Settled(o, m), Lines[o][v]) + Times(Ahead(o, v, m), Lines[o][v])
      BY <2>1, <2>4 DEF Exactly
    <3>3. Ahead(o, v, m)' <=> Ahead(o, v, m) \/ (v = u /\ Called(w, m))
      BY <1>3, <1>4
    <3> QED
      BY <2>2, <3>1, <3>2, <3>3 DEF Times
  <2> QED
    BY <2>3, <2>4 DEF AtLeast, Exactly, Times
<1>5. CASE o # q
  <2>1. lock[o] # w /\ moved'[o] = moved[o] /\ failed'[o] = failed[o] /\ lock'[o] = lock[o]
    BY <1>1, <1>2, <1>3, <1>5, FulfilmentAssumption DEF Moves, Base, Held
  <2>2. \A x \in Workers : x # w => proc'[x] = proc[x]
    BY DEF MoveLine, Moves, Base, Types
  <2>3. \A v \in LinesOf(o), m \in OrderMovements : Ahead(o, v, m)' <=> Ahead(o, v, m)
    BY <2>1, <2>2, AheadKept DEF Moves
  <2> QED
    BY <1>1, <2>1, <2>3, AccountKept, SettledKept
<1> QED
  BY <1>4, <1>5

\* What a request had done ahead of its commit is settled by it.
LEMMA CommitKeepsAccounts ==
  ASSUME Moves, Base', NEW w \in Workers, CommitTransition(w), NEW o \in Orders
  PROVE  AtLeast(o)' /\ Exactly(o)'
<1>1. /\ Moving(w) /\ proc[w].order \in Orders /\ ToDo(w) /\ Holding(w)
  BY Carried DEF CommitTransition, Moving, Moves, Base
<1>2. PICK q \in Orders : q = proc[w].order
  BY <1>1
<1>3. /\ lock[q] = w /\ w # NoOne /\ proc[w].todo = {} /\ UNCHANGED <<moved, failed>>
      /\ lock' = [lock EXCEPT ![q] = NoOne]
  BY <1>1, <1>2, FulfilmentAssumption DEF CommitTransition, Holding, ToDo, stockVars
<1>4. CASE o = q
  <2>1. AtLeast(o) /\ Exactly(o) /\ failed'[o] = failed[o] /\ moved'[o] = moved[o]
    BY <1>3 DEF Moves
  <2>2. ASSUME NEW v \in LinesOf(o), NEW m \in OrderMovements
        PROVE  /\ Settled(o, m)' <=> Settled(o, m) \/ Ahead(o, v, m)
               /\ ~(Settled(o, m) /\ Ahead(o, v, m))
               /\ ~Ahead(o, v, m)'
               /\ Lines[o][v] \in Nat
    <3>1. Ahead(o, v, m) <=> Called(w, m)
      BY <1>3, <1>4 DEF Ahead
    <3>2. lock'[o] = NoOne
      BY <1>3, <1>4 DEF Moves, Base, Types
    <3> QED
      BY <1>2, <1>4, <3>1, <3>2, CommitSettles, LineQuantity DEF Moves, Ahead
  <2> QED
    BY <2>1, <2>2 DEF AtLeast, Exactly, Times
<1>5. CASE o # q
  <2>1. /\ lock[o] # w /\ lock'[o] = lock[o] /\ status'[o] = status[o] /\ history'[o] = history[o]
        /\ moved'[o] = moved[o] /\ failed'[o] = failed[o]
    BY <1>2, <1>3, <1>5, FulfilmentAssumption DEF CommitTransition, Moves, Base, Types, Held
  <2>2. \A x \in Workers : x # w => proc'[x] = proc[x]
    BY DEF CommitTransition, Moves, Base, Types
  <2>3. \A v \in LinesOf(o), m \in OrderMovements : Ahead(o, v, m)' <=> Ahead(o, v, m)
    BY <2>1, <2>2, AheadKept DEF Moves
  <2> QED
    BY <2>1, <2>3, AccountKept, SettledKept
<1> QED
  BY <1>4, <1>5

\* A new order has nothing to its account.
LEMMA PlaceOrderKeepsAccounts ==
  ASSUME Moves, Base', NEW q \in Orders, PlaceOrder(q), NEW o \in Orders
  PROVE  AtLeast(o)' /\ Exactly(o)'
<1>1. moved'[o] = moved[o] /\ failed'[o] = failed[o] /\ lock' = lock /\ proc' = proc
  BY DEF PlaceOrder
<1>2. \A v \in LinesOf(o), m \in OrderMovements : Ahead(o, v, m)' <=> Ahead(o, v, m)
  BY <1>1 DEF Ahead, Called, Moving
<1>3. ASSUME NEW m \in OrderMovements PROVE Settled(o, m)' <=> Settled(o, m)
  <2>1. CASE o # q
    BY <2>1, SettledKept DEF PlaceOrder, Moves, Base, Types
  <2>2. CASE o = q
    <3>1. status[o] = NotPlaced /\ history[o] = <<>> /\ NotPlaced \notin OrderStatus
      BY <2>2, FulfilmentAssumption DEF PlaceOrder, Moves, Base, Past
    <3>2. status'[o] = "PENDING" /\ history'[o] = <<"PENDING">>
      BY <2>2 DEF PlaceOrder, Moves, Base, Types
    <3>3. ~Undone(o) /\ ~Entered(o, "CONFIRMED") /\ ~Undone(o)' /\ ~Entered(o, "CONFIRMED")'
      BY <3>1, <3>2 DEF Undone, Entered, OrderStatus
    <3> QED
      BY <3>3 DEF Settled
  <2> QED
    BY <2>1, <2>2
<1> QED
  BY <1>1, <1>2, <1>3, AccountKept

\* The account of every order is inductive.
THEOREM AccountsHold == Spec => []Moves
<1>1. Init /\ Base => Moves
  <2> SUFFICES ASSUME Init, Base, NEW o \in Orders, NEW v \in LinesOf(o), NEW m \in OrderMovements
               PROVE  ~Settled(o, m) /\ ~Ahead(o, v, m) /\ moved[o][v][m] = 0 /\ Lines[o][v] \in Nat
    BY DEF Moves, AtLeast, Exactly, Times
  <2>1. ~Entered(o, "CONFIRMED") /\ ~Undone(o)
    BY FulfilmentAssumption DEF Init, Entered, Undone, OrderStatus
  <2>2. v \in Variants /\ Lines[o][v] \in Nat
    BY LineQuantity
  <2> QED
    BY <2>1, <2>2 DEF Init, Settled, Ahead
<1>2. Moves /\ [Next]_vars /\ Base' => Moves'
  <2> SUFFICES ASSUME Moves, [Next]_vars, Base', NEW o \in Orders PROVE AtLeast(o)' /\ Exactly(o)'
    BY DEF Moves
  <2>1. ASSUME NEW v \in Variants, CorrectStock(v) PROVE UNCHANGED <<status, history, moved, failed, lock, proc>>
    BY <2>1 DEF CorrectStock, orderVars
  <2>2. UNCHANGED vars => UNCHANGED <<status, history, moved, failed, lock, proc>>
    BY DEF vars, orderVars, stockVars
  <2>3. CASE UNCHANGED <<status, history, moved, failed, lock, proc>>
    <3>1. \A v \in LinesOf(o), m \in OrderMovements : Ahead(o, v, m)' <=> Ahead(o, v, m)
      BY <2>3 DEF Ahead, Called, Moving
    <3> QED
      BY <2>3, <3>1, AccountKept, SettledKept
  <2>4. ASSUME NEW w \in Workers,
               RefuseLine(w) \/ Crash(w) \/ ReadStats(w) \/ WriteStats(w) \/ AcquireTimeout(w)
        PROVE  AtLeast(o)' /\ Exactly(o)'
    <3>1. Moving(w) /\ ToDo(w) /\ UNCHANGED <<status, history, moved>>
      BY <2>4 DEF RefuseLine, Crash, ReadStats, WriteStats, AcquireTimeout, Counts, Working, Moving, orderVars,
                  stockVars, Moves, Base
    <3>2. CASE Rollback(w)
      BY <3>1, <3>2, RollbackKeepsAccounts
    <3>3. CASE ~Rollback(w)
      <4>1. proc[w].todo = {} /\ UNCHANGED lock
        BY <2>4, <3>1, <3>3 DEF RefuseLine, Crash, ReadStats, WriteStats, AcquireTimeout, Counts, ToDo
      <4>2. failed' = failed \/ failed' = [failed EXCEPT ![proc[w].order] = @ + 1]
        BY <2>4, <3>3 DEF RefuseLine, Crash, ReadStats, WriteStats, AcquireTimeout
      <4>3. \E a \in {"counting", "commit"}, n \in Nat : proc' = [proc EXCEPT ![w].at = a, ![w].count = n]
        <5>1. ReadStats(w) => orderCount[CustomerOf[proc[w].order]] \in Nat
          <6>1. proc[w].order \in Orders
            BY <3>1, Carried DEF Moves, Base, Moving
          <6> QED
            BY <6>1, FulfilmentAssumption DEF Moves, Base, Types
        <5> QED
          BY <2>4, <3>3, <5>1 DEF RefuseLine, Crash, ReadStats, WriteStats, AcquireTimeout
      <4> QED
        BY <3>1, <4>1, <4>2, <4>3, CountingKeepsAccounts
    <3> QED
      BY <3>2, <3>3
  <2> QED
    BY <2>1, <2>2, <2>3, <2>4, QuietStepsKeepAccounts, MoveLineKeepsAccounts, CommitKeepsAccounts,
       PlaceOrderKeepsAccounts DEF Next, Proceed
<1> QED
  BY <1>1, <1>2, BaseHolds, PTL DEF Spec

\* The side effects of every committed edge have happened, whatever crashed, was refused
\* or found no connection before it committed.
THEOREM SideEffectsHappen == Spec => []SideEffectsAtLeastOnce
<1>1. Moves => SideEffectsAtLeastOnce
  <2> SUFFICES ASSUME Moves, NEW o \in Orders, NEW v \in LinesOf(o)
               PROVE  /\ Entered(o, "CONFIRMED") => moved[o][v]["ORDER"] >= Lines[o][v]
                      /\ status[o] = "CANCELLED" =>
                           IF Entered(o, "CONFIRMED") THEN moved[o][v]["RETURN"] >= Lines[o][v]
                           ELSE moved[o][v]["RELEASE"] >= Lines[o][v]
                      /\ Entered(o, "RETURNED") => moved[o][v]["RETURN"] >= Lines[o][v]
    BY DEF SideEffectsAtLeastOnce
  <2>1. \A m \in OrderMovements : Settled(o, m) => moved[o][v][m] >= Lines[o][v]
    BY DEF Moves, AtLeast
  <2>2. Entered(o, "RETURNED") => Entered(o, "CONFIRMED")
    BY DEF Moves, Base, Past, OrderStatus
  <2> QED
    BY <2>1, <2>2 DEF Settled, Undone, OrderMovements
<1> QED
  BY <1>1, AccountsHold, PTL

\* As long as no transition of an order has failed half-way, each of its lines has moved
\* exactly as its history says.
THEOREM SideEffectsHappenOnce == Spec => []SideEffectsExactlyOnce
<1>1. Moves => SideEffectsExactlyOnce
  <2> SUFFICES ASSUME Moves, NEW o \in Orders, failed[o] = 0, lock[o] = NoOne, NEW v \in LinesOf(o)
               PROVE  moved[o][v] =
                        [ORDER   |-> (IF Entered(o, "CONFIRMED") THEN 1 ELSE 0) * Lines[o][v],
                         RELEASE |-> (IF Undone(o) /\ ~Entered(o, "CONFIRMED") THEN 1 ELSE 0) * Lines[o][v],
                         RETURN  |-> (IF Undone(o) /\ Entered(o, "CONFIRMED") THEN 1 ELSE 0) * Lines[o][v]]
    BY DEF SideEffectsExactlyOnce
  <2>1. v \in Variants /\ Lines[o][v] \in Nat
    BY LineQuantity
  <2>2. moved[o][v] \in [OrderMovements -> Nat]
    BY <2>1 DEF Moves, Base, Types
  <2>3. \A m \in OrderMovements : moved[o][v][m] = Times(Settled(o, m), Lines[o][v])
    BY <2>1 DEF Moves, Exactly, Ahead, Times
  <2>4. \A b \in BOOLEAN : (IF b THEN 1 ELSE 0) * Lines[o][v] = Times(b, Lines[o][v])
    BY <2>1 DEF Times
  <2>5. /\ moved[o][v]["ORDER"] = (IF Entered(o, "CONFIRMED") THEN 1 ELSE 0) * Lines[o][v]
        /\ moved[o][v]["RELEASE"] = (IF Undone(o) /\ ~Entered(o, "CONFIRMED") THEN 1 ELSE 0) * Lines[o][v]
        /\ moved[o][v]["RETURN"] = (IF Undone(o) /\ Entered(o, "CONFIRMED") THEN 1 ELSE 0) * Lines[o][v]
    BY <2>1, <2>3, <2>4 DEF Settled, OrderMovements, Times
  <2> QED
    BY <2>2, <2>5 DEF OrderMovements
<1> QED
  BY <1>1, AccountsHold, PTL

-----------------------------------------------------------------------------
\* What is reserved.

PlacedOrders == {o \in Orders : status[o] # NotPlaced}

\* Per order: the units of v that it has reserved and neither taken nor released.
OpenUnits(v) == [o \in Orders |-> Lines[o][v] - moved[o][v]["ORDER"] - moved[o][v]["RELEASE"]]

\* Nothing has gone wrong so far, and nobody has corrected the stock.
Fine == corrections = 0 /\ \A o \in Orders : failed[o] = 0

\* The columns stay natural numbers; only the lines of an order move; at any time
\* finitely many orders have been placed, even if there is no end of them to come.
Shelf ==
  /\ stock \in [Variants -> Stock]
  /\ corrections \in 0..MaxCorrections
  /\ IsFiniteSet(PlacedOrders)
  /\ \A o \in Orders : \A v \in Variants \ LinesOf(o), m \in OrderMovements : moved[o][v][m] = 0

\* What an order has reserved is what the open orders hold, and it is on the shelf.
Reserving(v) ==
  /\ stock[v].reserved = SumOver(OpenUnits(v), PlacedOrders)
  /\ stock[v].reserved <= stock[v].physical

Reserved == Shelf /\ (Fine => \A v \in Variants : Reserving(v))

\* The quantity of a variant, line of the order or not.
LEMMA Quantity ==
  ASSUME NEW o \in Orders, NEW v \in Variants
  PROVE  Lines[o][v] \in Nat /\ (v \notin LinesOf(o) => Lines[o][v] = 0)
<1>1. Lines[o][v] \in Quantities \union {0}
  BY LinesAssumption
<1>2. Quantities \union {0} \subseteq Nat
  BY QuantitiesAssumption
<1> QED
  BY <1>1, <1>2 DEF LinesOf

\* What the operations on orders do to the columns reserved and physical.
LEMMA Columnwise ==
  ASSUME NEW s \in Stock, NEW n \in Int
  PROVE  /\ s.reserved \in Nat /\ s.physical \in Nat
         /\ Update("RESERVE", s, n).reserved = s.reserved + n
         /\ Update("RESERVE", s, n).physical = s.physical
         /\ Update("RELEASE", s, n).reserved = (IF s.reserved > n THEN s.reserved - n ELSE 0)
         /\ Update("RELEASE", s, n).physical = s.physical
         /\ Update("COMMIT", s, n).reserved = s.reserved - n
         /\ Update("COMMIT", s, n).physical = s.physical - n
         /\ Update("RESTOCK", s, n).reserved = s.reserved
         /\ Update("RESTOCK", s, n).physical = s.physical + n
BY DEF Stock, Columns, Update

\* An accepted operation leaves natural numbers behind.
LEMMA RowsStay ==
  ASSUME NEW s \in Stock, NEW op \in {"RESERVE", "RELEASE", "COMMIT", "RESTOCK", "ADJUST"}, NEW n \in Int,
         op # "ADJUST" => n >= 0, Accepts(op, s, n)
  PROVE  Update(op, s, n) \in Stock
<1> USE DEF Stock, Columns, Update, Accepts
<1>1. CASE op = "RESERVE"
  BY <1>1
<1>2. CASE op = "RELEASE"
  BY <1>2
<1>3. CASE op = "COMMIT"
  <2> DEFINE q == [s EXCEPT !.reserved = s.reserved - n]
             r == [q EXCEPT !.physical = s.physical - n]
             t == [r EXCEPT !.sold = s.sold + n]
  <2>1. q \in [Columns -> Nat]
    BY <1>3
  <2> HIDE DEF q
  <2>2. r \in [Columns -> Nat]
    BY <1>3, <2>1
  <2> HIDE DEF r
  <2>3. t \in [Columns -> Nat]
    BY <1>3, <2>2
  <2>4. Update(op, s, n) = t
    BY <1>3, Zenon DEF q, r
  <2> QED
    BY <2>3, <2>4
<1>4. CASE op = "RESTOCK"
  <2> DEFINE r == [s EXCEPT !.physical = @ + n]
             t == [r EXCEPT !.returned = @ + n]
  <2>1. r \in [Columns -> Nat]
    BY <1>4
  <2> HIDE DEF r
  <2>2. t \in [Columns -> Nat]
    BY <1>4, <2>1
  <2>3. Update(op, s, n) = t
    BY <1>4, Zenon DEF r
  <2> QED
    BY <2>2, <2>3
<1>5. CASE op = "ADJUST"
  BY <1>5
<1> QED
  BY <1>1, <1>2, <1>3, <1>4, <1>5

\* As long as nothing has failed, an order holds all of a line, or nothing of it any more.
LEMMA OpenIsAllOrNothing ==
  ASSUME Moves, Shelf, NEW o \in Orders, failed[o] = 0, NEW v \in Variants
  PROVE  /\ OpenUnits(v)[o] \in {0, Lines[o][v]}
         /\ lock[o] # NoOne /\ v \in proc[lock[o]].todo /\ (Called(lock[o], "ORDER") \/ Called(lock[o], "RELEASE"))
              => OpenUnits(v)[o] = Lines[o][v]
         /\ status[o] = NotPlaced => OpenUnits(v)[o] = Lines[o][v]
<1> DEFINE n == Lines[o][v]
<1>1. n \in Nat /\ OpenUnits(v)[o] = n - moved[o][v]["ORDER"] - moved[o][v]["RELEASE"]
  BY Quantity DEF OpenUnits
<1>2. CASE v \notin LinesOf(o)
  BY <1>1, <1>2, Quantity DEF Shelf, OrderMovements
<1>3. CASE v \in LinesOf(o)
  <2>1. \A m \in OrderMovements : moved[o][v][m] = Times(Settled(o, m), n) + Times(Ahead(o, v, m), n)
    BY <1>3 DEF Moves, Exactly
  <2>2. Past(o) /\ Held(o) /\ (lock[o] # NoOne => lock[o] \in Workers /\ Holding(lock[o]) /\ Placed(lock[o]))
    BY DEF Moves, Base, Types
  <2>3. ~(Settled(o, "ORDER") /\ Settled(o, "RELEASE"))
    BY DEF Settled
  <2>4. ~(Ahead(o, v, "ORDER") /\ Ahead(o, v, "RELEASE"))
    BY DEF Ahead, Called
  <2>5. ASSUME lock[o] # NoOne, Called(lock[o], "ORDER") \/ Called(lock[o], "RELEASE")
        PROVE  ~Settled(o, "ORDER") /\ ~Settled(o, "RELEASE")
    <3> DEFINE p == proc[lock[o]]
    <3>1. /\ p.from = status[o] /\ CanTransition(p.from, p.to) /\ p.from \in OrderStatus /\ p.to \in OrderStatus
      BY <2>2, <2>5, Carried DEF Held, Holding, Moves, Base, Moving
    <3>2. p.from = "PENDING"
      BY <2>5, <3>1, Edges DEF Called, StockOperation, MovementOf
    <3>3. ~Entered(o, "CONFIRMED") /\ ~Undone(o)
      BY <2>2, <3>1, <3>2 DEF Past, Undone
    <3> QED
      BY <3>3 DEF Settled
  <2>6. ASSUME status[o] = NotPlaced
        PROVE  \A m \in {"ORDER", "RELEASE"} : ~Settled(o, m) /\ ~Ahead(o, v, m)
    <3>1. lock[o] = NoOne
      BY <2>2, <2>6 DEF Held, Placed, Moving
    <3>2. "CANCELLED" # NotPlaced /\ "RETURNED" # NotPlaced /\ "REFUNDED" # NotPlaced
      BY FulfilmentAssumption DEF OrderStatus
    <3> QED
      BY <2>2, <2>6, <3>1, <3>2 DEF Ahead, Settled, Past, Undone
  <2>7. moved[o][v]["ORDER"] = Times(Settled(o, "ORDER"), n) + Times(Ahead(o, v, "ORDER"), n)
        /\ moved[o][v]["RELEASE"] = Times(Settled(o, "RELEASE"), n) + Times(Ahead(o, v, "RELEASE"), n)
    BY <2>1 DEF OrderMovements
  <2>8. OpenUnits(v)[o] \in {0, n}
    BY <1>1, <2>3, <2>4, <2>5, <2>7 DEF Times, Ahead
  <2>9. ASSUME lock[o] # NoOne, v \in proc[lock[o]].todo, Called(lock[o], "ORDER") \/ Called(lock[o], "RELEASE")
        PROVE  OpenUnits(v)[o] = n
    BY <1>1, <2>5, <2>7, <2>9 DEF Times, Ahead
  <2>10. status[o] = NotPlaced => OpenUnits(v)[o] = n
    BY <1>1, <2>6, <2>7 DEF Times
  <2> QED
    BY <2>8, <2>9, <2>10
<1> QED
  BY <1>2, <1>3

\* In a fine state every order holds a natural number of units.
LEMMA OpenIsNatural ==
  ASSUME Moves, Shelf, Fine, NEW v \in Variants, NEW o \in Orders
  PROVE  OpenUnits(v)[o] \in Nat
<1>1. Lines[o][v] \in Nat /\ failed[o] = 0
  BY Quantity DEF Fine
<1> QED
  BY <1>1, OpenIsAllOrNothing

\* Steps that touch neither the stock nor the movements.
LEMMA ReservedKept ==
  ASSUME Moves, Reserved, UNCHANGED <<stock, moved>>, corrections' = corrections,
         \A o \in Orders : status'[o] = NotPlaced <=> status[o] = NotPlaced,
         Fine' => Fine
  PROVE  Reserved'
<1>1. PlacedOrders' = PlacedOrders
  BY DEF PlacedOrders
<1>2. \A v : OpenUnits(v)' = OpenUnits(v)
  BY DEF OpenUnits
<1>3. Shelf'
  BY <1>1 DEF Reserved, Shelf
<1>4. ASSUME Fine', NEW v \in Variants PROVE Reserving(v)'
  BY <1>1, <1>2, <1>4 DEF Reserved, Reserving
<1> QED
  BY <1>3, <1>4 DEF Reserved

\* A new order reserves all of its lines.
LEMMA PlaceOrderReserves ==
  ASSUME Moves, Reserved, NEW o \in Orders, PlaceOrder(o)
  PROVE  Reserved'
<1>1. /\ status[o] = NotPlaced /\ status'[o] # NotPlaced /\ UNCHANGED <<moved, failed, corrections>>
      /\ \A p \in Orders : p # o => status'[p] = status[p]
  BY FulfilmentAssumption DEF PlaceOrder, Moves, Base, Types, OrderStatus
<1>2. PlacedOrders' = PlacedOrders \union {o} /\ o \notin PlacedOrders
  BY <1>1 DEF PlacedOrders
<1>3. IsFiniteSet(PlacedOrders')
  BY <1>2, FS_AddElement DEF Reserved, Shelf
<1>4. ASSUME NEW v \in Variants
      PROVE  /\ stock'[v] = Update("RESERVE", stock[v], Lines[o][v]) /\ stock[v] \in Stock /\ Lines[o][v] \in Nat
             /\ v \in LinesOf(o) => stock[v].physical - stock[v].reserved >= Lines[o][v]
             /\ v \notin LinesOf(o) => Lines[o][v] = 0
  BY Quantity DEF PlaceOrder, Accepts, Reserved, Shelf
<1>5. stock' \in [Variants -> Stock]
  <2>1. ASSUME NEW v \in Variants PROVE Update("RESERVE", stock[v], Lines[o][v]) \in Stock
    BY <1>4 DEF Update, Stock, Columns
  <2> QED
    BY <2>1 DEF PlaceOrder
<1>6. Shelf'
  BY <1>1, <1>3, <1>5 DEF Reserved, Shelf
<1>7. ASSUME Fine', NEW v \in Variants PROVE Reserving(v)'
  <2> DEFINE g == OpenUnits(v)
             S == PlacedOrders'
  <2>1. Fine /\ failed[o] = 0
    BY <1>1, <1>7 DEF Fine
  <2>2. g' = g
    BY <1>1 DEF OpenUnits
  <2>3. \A p \in Orders : g[p] \in Nat
    BY <2>1, OpenIsNatural DEF Reserved
  <2>4. g[o] = Lines[o][v]
    BY <1>1, <2>1, OpenIsAllOrNothing DEF Reserved
  <2>5. S \ {o} = PlacedOrders /\ S \subseteq Orders /\ o \in S
    BY <1>2 DEF PlacedOrders
  <2> HIDE DEF g, S
  <2>6. SumOver(g, S) = g[o] + SumOver(g, PlacedOrders)
    <3>1. IsFiniteSet(S) /\ \A p \in S : g[p] \in Int
      BY <1>3, <2>3, <2>5 DEF S
    <3>2. SumOver(g, S) = g[o] + SumOver(g, S \ {o})
      BY <2>5, <3>1, SumTakesOut
    <3> QED
      BY <2>5, <3>2
  <2>7. stock[v].reserved = SumOver(g, PlacedOrders) /\ stock[v].reserved <= stock[v].physical
    BY <2>1 DEF Reserved, Reserving, g
  <2>8. /\ stock'[v].reserved = stock[v].reserved + Lines[o][v] /\ stock'[v].physical = stock[v].physical
        /\ stock[v].reserved \in Nat /\ stock[v].physical \in Nat
    BY <1>4, Columnwise
  <2>9. stock'[v].reserved = SumOver(g, S)
    BY <1>4, <2>4, <2>6, <2>7, <2>8
  <2>10. stock'[v].reserved <= stock'[v].physical
    BY <1>4, <2>7, <2>8
  <2> QED
    BY <2>2, <2>9, <2>10 DEF Reserving, g, S
<1> QED
  BY <1>6, <1>7 DEF Reserved

\* A line that moves takes, releases or brings back its units.
LEMMA MoveLineReserves ==
  ASSUME Moves, Reserved, NEW w \in Workers, MoveLine(w)
  PROVE  Reserved'
<1>1. PICK q \in Orders : q = proc[w].order
  BY Carried DEF MoveLine, Working, Moves, Base, Moving
<1> DEFINE op == StockOperation(proc[w].from, proc[w].to)
           k == MovementOf(op)
<1>2. PICK u \in proc[w].todo :
        /\ Accepts(op, stock[u], Lines[q][u])
        /\ stock' = [stock EXCEPT ![u] = Update(op, @, Lines[q][u])]
        /\ moved' = [moved EXCEPT ![q][u][k] = @ + Lines[q][u]]
  BY <1>1 DEF MoveLine
<1>3. /\ Moving(w) /\ ToDo(w) /\ lock[q] = w /\ w # NoOne /\ UNCHANGED <<status, failed, corrections>>
  BY <1>1, FulfilmentAssumption DEF MoveLine, Working, Moving, Moves, Base, Holding, orderVars
<1>4. u \in LinesOf(q) /\ u \in Variants /\ Lines[q][u] \in Nat /\ op # "NONE" /\ Called(w, k)
  BY <1>1, <1>2, <1>3, LineQuantity DEF ToDo, Called
<1>5. op \in {"COMMIT", "RELEASE", "RESTOCK"} /\ k \in OrderMovements
  BY <1>4 DEF StockOperation, MovementOf, OrderMovements
<1>6. stock \in [Variants -> Stock] /\ stock[u] \in Stock
  BY <1>4 DEF Reserved, Shelf
<1>7. k = (CASE op = "COMMIT" -> "ORDER" [] op = "RELEASE" -> "RELEASE" [] op = "RESTOCK" -> "RETURN")
  BY <1>5 DEF MovementOf
<1> HIDE DEF op, k
<1>8. /\ stock'[u] = Update(op, stock[u], Lines[q][u])
      /\ \A v \in Variants : v # u => stock'[v] = stock[v]
  BY <1>2, <1>4, <1>6
<1>9. stock' \in [Variants -> Stock]
  <2>1. Update(op, stock[u], Lines[q][u]) \in Stock
    BY <1>2, <1>4, <1>5, <1>6, RowsStay
  <2> QED
    BY <1>2, <1>6, <2>1
<1>10. moved \in [Orders -> [Variants -> [OrderMovements -> Nat]]]
  BY DEF Moves, Base, Types
<1>11. \A o \in Orders, v \in Variants, m \in OrderMovements :
         moved'[o][v][m] = IF o = q /\ v = u /\ m = k THEN moved[o][v][m] + Lines[q][u] ELSE moved[o][v][m]
  BY <1>2, <1>4, <1>5, <1>10
<1>12. Shelf'
  <2>1. PlacedOrders' = PlacedOrders
    BY <1>3 DEF PlacedOrders
  <2>2. \A o \in Orders : \A v \in Variants \ LinesOf(o), m \in OrderMovements : moved'[o][v][m] = 0
    BY <1>4, <1>11 DEF Reserved, Shelf
  <2> QED
    BY <1>3, <1>9, <2>1, <2>2 DEF Reserved, Shelf
<1>13. ASSUME Fine', NEW v \in Variants PROVE Reserving(v)'
  <2> DEFINE g == OpenUnits(v)
             h == OpenUnits(v)'
             S == PlacedOrders
             n == Lines[q][u]
  <2>1. Fine /\ failed[q] = 0 /\ PlacedOrders' = S /\ S \subseteq Orders /\ IsFiniteSet(S)
    BY <1>3, <1>13 DEF Fine, PlacedOrders, Reserved, Shelf
  <2>2. q \in S
    BY <1>1, <1>3 DEF PlacedOrders, Moves, Base, Placed, Moving
  <2>3. \A o \in Orders : g[o] \in Nat
    BY <2>1, OpenIsNatural DEF Reserved
  <2>4. /\ h[q] = IF v = u /\ k # "RETURN" THEN g[q] - n ELSE g[q]
        /\ \A o \in Orders \ {q} : h[o] = g[o]
    <3>1. \A o \in Orders : /\ g[o] = Lines[o][v] - moved[o][v]["ORDER"] - moved[o][v]["RELEASE"]
                            /\ h[o] = Lines[o][v] - moved'[o][v]["ORDER"] - moved'[o][v]["RELEASE"]
      BY DEF OpenUnits
    <3>2. \A o \in Orders : Lines[o][v] \in Nat /\ moved[o][v]["ORDER"] \in Nat /\ moved[o][v]["RELEASE"] \in Nat
      BY <1>10, Quantity DEF OrderMovements
    <3> HIDE DEF g, h
    <3>3. h[q] = IF v = u /\ k # "RETURN" THEN g[q] - n ELSE g[q]
      BY <1>4, <1>5, <1>11, <3>1, <3>2 DEF OrderMovements
    <3>4. \A o \in Orders \ {q} : h[o] = g[o]
      BY <1>11, <3>1 DEF OrderMovements
    <3> QED
      BY <3>3, <3>4
  <2>5. v = u /\ k # "RETURN" => g[q] = n
    <3>1. k # "RETURN" => k = "ORDER" \/ k = "RELEASE"
      BY <1>5 DEF OrderMovements
    <3> QED
      BY <1>2, <1>3, <1>4, <2>1, <3>1, OpenIsAllOrNothing DEF Reserved
  <2>6. stock[v].reserved = SumOver(g, S) /\ stock[v].reserved <= stock[v].physical
    BY <2>1 DEF Reserved, Reserving
  <2> HIDE DEF g, h, S
  <2>7. n \in Nat /\ SumOver(h, S) = SumOver(g, S) - g[q] + h[q] /\ SumOver(g, S) >= g[q] /\ SumOver(g, S) \in Int
    <3>1. \A o \in S : g[o] \in Int /\ h[o] \in Int /\ g[o] >= 0
      BY <1>4, <2>1, <2>3, <2>4
    <3>2. SumOver(h, S) = SumOver(g, S) - g[q] + h[q]
      <4>1. \A o \in S \ {q} : g[o] = h[o]
        BY <2>1, <2>4
      <4> QED
        BY <2>1, <2>2, <3>1, <4>1, SumChanges
    <3>3. SumOver(g, S) = g[q] + SumOver(g, S \ {q})
      BY <2>1, <2>2, <3>1, SumTakesOut
    <3>4. SumOver(g, S \ {q}) \in Int /\ SumOver(g, S \ {q}) >= 0
      <4>1. IsFiniteSet(S \ {q}) /\ \A o \in S \ {q} : g[o] \in Int /\ g[o] >= 0
        BY <2>1, <3>1, FS_Subset
      <4> HIDE DEF S
      <4> DEFINE R == S \ {q}
      <4> HIDE DEF R
      <4> QED
        BY <4>1, SumType DEF R
    <3> QED
      BY <1>4, <2>2, <3>1, <3>2, <3>3, <3>4
  <2>8. stock'[v].reserved = SumOver(h, S) /\ stock'[v].reserved <= stock'[v].physical
    <3>1. stock[v].reserved \in Nat /\ stock[v].physical \in Nat
      BY <1>6, Columnwise
    <3>2. CASE v # u
      <4>1. h[q] = g[q] /\ g[q] \in Nat
        BY <2>3, <2>4, <3>2
      <4> QED
        BY <1>8, <2>6, <2>7, <3>2, <4>1
    <3>3. CASE v = u /\ op = "RESTOCK"
      <4>1. h[q] = g[q] /\ g[q] \in Nat
        BY <1>7, <2>3, <2>4, <3>3
      <4>2. stock'[v].reserved = stock[v].reserved /\ stock'[v].physical = stock[v].physical + n
        BY <1>4, <1>6, <1>8, <3>3, Columnwise
      <4> QED
        BY <2>6, <2>7, <3>1, <4>1, <4>2
    <3>4. CASE v = u /\ op \in {"COMMIT", "RELEASE"}
      <4>1. h[q] = g[q] - n /\ g[q] = n
        BY <1>7, <2>4, <2>5, <3>4
      <4>2. stock[v].reserved >= n
        BY <2>6, <2>7, <3>1, <4>1
      <4>3. /\ stock'[v].reserved = stock[v].reserved - n
            /\ stock'[v].physical = IF op = "COMMIT" THEN stock[v].physical - n ELSE stock[v].physical
        <5>1. CASE op = "COMMIT"
          BY <1>4, <1>6, <1>8, <3>4, <5>1, Columnwise
        <5>2. CASE op = "RELEASE"
          <6>1. /\ stock'[v].reserved = (IF stock[v].reserved > n THEN stock[v].reserved - n ELSE 0)
                /\ stock'[v].physical = stock[v].physical
            BY <1>4, <1>6, <1>8, <3>4, <5>2, Columnwise
          <6> QED
            BY <2>7, <3>1, <4>2, <5>2, <6>1
        <5> QED
          BY <3>4, <5>1, <5>2
      <4> QED
        BY <2>6, <2>7, <3>1, <4>1, <4>3
    <3> QED
      BY <1>5, <3>2, <3>3, <3>4
  <2> QED
    BY <2>1, <2>8 DEF Reserving, h, S
<1> QED
  BY <1>12, <1>13 DEF Reserved

\* What fails is not fine any more.
LEMMA FailuresShow ==
  ASSUME Moves, NEW w \in Workers, Moving(w), failed' = [failed EXCEPT ![proc[w].order] = @ + 1]
  PROVE  ~Fine'
<1>1. proc[w].order \in Orders
  BY Carried DEF Moves, Base, Moving
<1>2. failed[proc[w].order] \in Nat /\ failed'[proc[w].order] = failed[proc[w].order] + 1
  BY <1>1 DEF Moves, Base, Types
<1> QED
  BY <1>1, <1>2 DEF Fine

\* Every step keeps the account of the reserved units.
LEMMA StepsReserve ==
  ASSUME Moves, Reserved, [Next]_vars
  PROVE  Reserved'
<1>1. ASSUME NEW v \in Variants, CorrectStock(v) PROVE Reserved'
  <2>1. PICK n \in Amounts("ADJUST") : Accepts("ADJUST", stock[v], n) /\ stock' = [stock EXCEPT ![v] = Update("ADJUST", @, n)]
    BY <1>1 DEF CorrectStock
  <2>2. /\ n \in Int /\ stock \in [Variants -> Stock]
        /\ corrections \in 0..MaxCorrections /\ corrections < MaxCorrections /\ corrections' = corrections + 1
    BY <1>1, QuantitiesAssumption DEF Amounts, Reserved, Shelf, CorrectStock
  <2>3. Update("ADJUST", stock[v], n) \in Stock
    BY <2>1, <2>2, RowsStay
  <2>4. stock' \in [Variants -> Stock]
    BY <2>1, <2>2, <2>3
  <2>5. ~Fine'
    BY <2>2, FulfilmentAssumption DEF Fine
  <2>6. UNCHANGED <<status, moved>>
    BY <1>1 DEF CorrectStock, orderVars
  <2> QED
    BY <2>2, <2>4, <2>5, <2>6, FulfilmentAssumption DEF Reserved, Shelf, PlacedOrders
<1>2. ASSUME NEW w \in Workers, RefuseLine(w) \/ Crash(w) \/ AcquireTimeout(w) PROVE Reserved'
  <2>1. /\ Moving(w) /\ failed' = [failed EXCEPT ![proc[w].order] = @ + 1]
        /\ UNCHANGED <<status, stock, moved, corrections>>
    BY <1>2 DEF RefuseLine, Crash, AcquireTimeout, Rollback, Counts, Working, Moving, orderVars, stockVars
  <2>2. ~Fine'
    BY <2>1, FailuresShow
  <2> QED
    BY <2>1, <2>2, ReservedKept
<1>3. ASSUME NEW w \in Workers,
             Open(w) \/ LockOrder(w) \/ RefuseTransition(w) \/ ReadStats(w) \/ WriteStats(w)
      PROVE  Reserved'
  <2>1. UNCHANGED <<status, stock, moved, failed, corrections>>
    BY <1>3 DEF Open, LockOrder, RefuseTransition, ReadStats, WriteStats, orderVars, stockVars
  <2>2. Fine' => Fine
    BY <2>1 DEF Fine
  <2> QED
    BY <2>1, <2>2, ReservedKept
<1>4. ASSUME NEW w \in Workers, CommitTransition(w) PROVE Reserved'
  <2>1. /\ proc[w].order \in Orders /\ proc[w].to \in OrderStatus /\ status[proc[w].order] # NotPlaced
        /\ status' = [status EXCEPT ![proc[w].order] = proc[w].to]
        /\ UNCHANGED <<stock, moved, failed, corrections>>
    BY <1>4, Carried DEF CommitTransition, Moves, Base, Placed, stockVars
  <2>2. \A o \in Orders : status'[o] = NotPlaced <=> status[o] = NotPlaced
    BY <2>1, FulfilmentAssumption DEF Moves, Base, Types
  <2>3. Fine' => Fine
    BY <2>1 DEF Fine
  <2> QED
    BY <2>1, <2>2, <2>3, ReservedKept
<1>5. CASE UNCHANGED vars
  <2>1. UNCHANGED <<status, stock, moved, failed, corrections>>
    BY <1>5 DEF vars, orderVars, stockVars
  <2>2. Fine' => Fine
    BY <2>1 DEF Fine
  <2> QED
    BY <2>1, <2>2, ReservedKept
<1> QED
  BY <1>1, <1>2, <1>3, <1>4, <1>5, PlaceOrderReserves, MoveLineReserves DEF Next, Proceed

\* The sum of the property is the sum of the lemmas.
LEMMA PendingUnits ==
  ASSUME NEW v \in Variants, IsFiniteSet(PlacedOrders)
  PROVE  MapThenSumSet(LAMBDA o : Lines[o][v] - moved[o][v]["ORDER"] - moved[o][v]["RELEASE"], PlacedOrders)
           = SumOver(OpenUnits(v), PlacedOrders)
<1> DEFINE S == PlacedOrders
           g == OpenUnits(v)
           Body(f, s) == IF s = {} THEN 0
                         ELSE (Lines[CHOOSE x \in s : TRUE][v] - moved[CHOOSE x \in s : TRUE][v]["ORDER"]
                                 - moved[CHOOSE x \in s : TRUE][v]["RELEASE"])
                              + f[s \ {CHOOSE x \in s : TRUE}]
           Sums(f) == f = [s \in SUBSET S |-> Body(f, s)]
           F == CHOOSE f : Sums(f)
<1>1. MapThenSumSet(LAMBDA o : Lines[o][v] - moved[o][v]["ORDER"] - moved[o][v]["RELEASE"], S) = F[S]
  BY Zenon DEF MapThenSumSet, MapThenFoldSet
<1>2. ASSUME NEW f PROVE Sums(f) <=> Folding(f, g, S)
  <2>1. ASSUME NEW s \in SUBSET S
        PROVE  Body(f, s) = IF s = {} THEN 0 ELSE g[Pick(s)] + f[s \ {Pick(s)}]
    <3>1. CASE s = {}
      BY <3>1
    <3>2. CASE s # {}
      <4>1. Pick(s) \in Orders
        BY <3>2, Picked DEF PlacedOrders
      <4>2. g[Pick(s)] = Lines[Pick(s)][v] - moved[Pick(s)][v]["ORDER"] - moved[Pick(s)][v]["RELEASE"]
        BY <4>1 DEF OpenUnits
      <4> QED
        BY <3>2, <4>2 DEF Pick
    <3> QED
      BY <3>1, <3>2
  <2> HIDE DEF Body
  <2>2. [s \in SUBSET S |-> Body(f, s)] = [s \in SUBSET S |-> IF s = {} THEN 0 ELSE g[Pick(s)] + f[s \ {Pick(s)}]]
    BY <2>1
  <2> QED
    BY <2>2, Zenon DEF Folding
<1>3. \E f : Folding(f, g, S)
  BY FoldingExists
<1> HIDE DEF Sums, g, S
<1>4. Folding(F, g, S)
  BY <1>2, <1>3
<1>5. Folding(CHOOSE f : Folding(f, g, S), g, S)
  BY <1>3
<1>6. S \in SUBSET S /\ IsFiniteSet(S)
  BY DEF S
<1>7. F[S] = SumOver(g, S)
  <2> DEFINE G == CHOOSE f : Folding(f, g, S)
  <2> HIDE DEF F, G
  <2>1. F[S] = G[S]
    BY <1>4, <1>5, <1>6, FoldingUnique DEF G
  <2> QED
    BY <2>1 DEF SumOver, G
<1> QED
  BY <1>1, <1>7 DEF g, S

\* The account of the reserved units is inductive.
THEOREM ReservedHolds == Spec => []Reserved
<1>1. Init => Reserved
  <2> SUFFICES ASSUME Init PROVE Reserved
    OBVIOUS
  <2>1. PlacedOrders = {} /\ IsFiniteSet(PlacedOrders)
    BY FS_EmptySet DEF Init, PlacedOrders
  <2>2. \A v \in Variants : stock[v] = [EmptyRow EXCEPT !.physical = InitialStock[v]] /\ InitialStock[v] \in Nat
    BY FulfilmentAssumption DEF Init
  <2>3. ASSUME NEW v \in Variants
        PROVE  stock[v] \in Stock /\ stock[v].reserved = 0 /\ stock[v].physical = InitialStock[v]
    <3> DEFINE r == [c \in Columns |-> 0]
    <3>1. r \in [Columns -> Nat] /\ r.reserved = 0
      BY DEF Columns
    <3> HIDE DEF r
    <3>2. stock[v] = [r EXCEPT !.physical = InitialStock[v]]
      BY <2>2, Zenon DEF r, EmptyRow
    <3> QED
      BY <2>2, <3>1, <3>2 DEF Stock, Columns
  <2>4. stock \in [Variants -> Stock]
    BY <2>3 DEF Init
  <2>5. Shelf
    BY <2>1, <2>4, FulfilmentAssumption DEF Init, Shelf
  <2>6. ASSUME NEW v \in Variants PROVE Reserving(v)
    <3>1. SumOver(OpenUnits(v), PlacedOrders) = 0
      BY <2>1, SumFolds
    <3>2. stock[v].reserved = 0 /\ stock[v].physical \in Nat
      BY <2>2, <2>3
    <3> QED
      BY <3>1, <3>2 DEF Reserving
  <2> QED
    BY <2>5, <2>6 DEF Reserved
<1>2. Moves /\ Reserved /\ [Next]_vars => Reserved'
  BY StepsReserve
<1> QED
  BY <1>1, <1>2, AccountsHold, PTL DEF Spec

\* Every variable keeps its type; no column of a stock row ever becomes negative.
THEOREM TypesHold == Spec => []TypeOK
<1>1. Base /\ Reserved => TypeOK
  BY DEF Base, Types, Reserved, Shelf, TypeOK
<1> QED
  BY <1>1, BaseHolds, ReservedHolds, PTL

\* Until a transition fails or stock is corrected, the reserved units of every variant are
\* exactly those of the placed orders not yet committed or released, and on the shelf.
THEOREM ReservedIsWhatIsPending == Spec => []ReservedIsPending
<1>1. Reserved => ReservedIsPending
  <2>1. ASSUME Reserved, Fine, NEW v \in Variants
        PROVE  /\ stock[v].reserved =
                    MapThenSumSet(LAMBDA o : Lines[o][v] - moved[o][v]["ORDER"] - moved[o][v]["RELEASE"],
                                  {o \in Orders : status[o] # NotPlaced})
               /\ stock[v].reserved <= stock[v].physical
    BY <2>1, PendingUnits, Zenon DEF Reserved, Shelf, Reserving, PlacedOrders
  <2> QED
    BY <2>1, Zenon DEF ReservedIsPending, Fine
<1> QED
  BY <1>1, ReservedHolds, PTL

-----------------------------------------------------------------------------
\* The order count of a customer.

\* What the order should add to the count of its customer ...
Counted(o) == IF Entered(o, "CONFIRMED") /\ ~Undone(o) THEN 1 ELSE 0

\* ... and what the request that moves it has added ahead of its commit.
Added(o) == IF lock[o] # NoOne /\ proc[lock[o]].at = "commit" THEN Sign(proc[lock[o]].from, proc[lock[o]].to) ELSE 0

Tally(o) == Counted(o) + Added(o)

\* The orders that a customer's count is about.
Counting(c) == {o \in Orders : CustomerOf[o] = c /\ Tally(o) = 1}

\* No failure left the count behind, and no two requests had it in hand when it was written.
Intact == {c \in Customers \ crossed : \A o \in Orders : CustomerOf[o] = c => failed[o] = 0}

\* The copy of the count that a request for such a customer has read is still the count.
CopyIsTrue(w) ==
  proc[w].at = "counting" /\ CustomerOf[proc[w].order] \in Intact =>
    proc[w].count = orderCount[CustomerOf[proc[w].order]]

\* The count of such a customer is right.
Stats ==
  /\ \A c \in Intact : IsFiniteSet(Counting(c)) /\ orderCount[c] = Cardinality(Counting(c))
  /\ \A w \in Workers : CopyIsTrue(w)

\* What an edge adds is what its order counts for afterwards.
LEMMA EdgeCounts ==
  ASSUME Base, NEW w \in Workers, Moving(w), NEW q \in Orders, q = proc[w].order
  PROVE  /\ Counted(q) + Sign(proc[w].from, proc[w].to) \in {0, 1}
         /\ CommitTransition(w) => Counted(q)' = Counted(q) + Sign(proc[w].from, proc[w].to)
<1> DEFINE from == proc[w].from
           to == proc[w].to
<1>1. /\ from \in OrderStatus /\ to \in OrderStatus /\ status[q] = from /\ CanTransition(from, to) /\ Past(q)
  BY Carried DEF Moving, Base, Holding
<1>2. /\ to # "PENDING" /\ (to = "CONFIRMED" => from = "PENDING") /\ (from = "PENDING" => to \in {"CONFIRMED", "CANCELLED"})
      /\ (to = "CANCELLED" => from \in {"PENDING", "CONFIRMED", "PROCESSING"})
      /\ (to = "RETURNED" <=> from = "RETURN_APPROVED") /\ (to = "REFUNDED" <=> from = "RETURNED")
      /\ from \notin {"CANCELLED", "REFUNDED"}
  <2> HIDE DEF from, to
  <2> QED
    BY <1>1, Edges
<1>3. /\ Entered(q, "CONFIRMED") <=> from # "PENDING"
      /\ Entered(q, "RETURNED") <=> from = "RETURNED"
  BY <1>1, <1>2 DEF Past
<1>4. Counted(q) = IF from \notin {"PENDING", "RETURNED"} THEN 1 ELSE 0
  BY <1>1, <1>2, <1>3 DEF Counted, Undone
<1>5. Sign(from, to) = IF to = "CONFIRMED" THEN 1
                       ELSE IF (to = "CANCELLED" /\ from # "PENDING") \/ to = "RETURNED" THEN -1 ELSE 0
  BY DEF Sign
<1>6. ASSUME CommitTransition(w) PROVE Counted(q)' = Counted(q) + Sign(from, to)
  <2>1. status' = [status EXCEPT ![q] = to] /\ history' = [history EXCEPT ![q] = Append(@, to)]
    BY <1>6 DEF CommitTransition
  <2>2. /\ status'[q] = to
        /\ Entered(q, "CONFIRMED")' <=> Entered(q, "CONFIRMED") \/ to = "CONFIRMED"
        /\ Entered(q, "RETURNED")' <=> Entered(q, "RETURNED") \/ to = "RETURNED"
    <3> HIDE DEF to
    <3>1. "CONFIRMED" \in OrderStatus /\ "RETURNED" \in OrderStatus
      BY DEF OrderStatus
    <3> QED
      BY <1>1, <2>1, <3>1, AppendEnters DEF Base, Types
  <2>3. Counted(q)' = IF (from # "PENDING" \/ to = "CONFIRMED")
                         /\ ~(to = "CANCELLED" \/ from = "RETURNED" \/ to = "RETURNED") THEN 1 ELSE 0
    BY <1>3, <2>2 DEF Counted, Undone
  <2> HIDE DEF from, to
  <2> QED
    BY <1>2, <1>4, <1>5, <2>3
<1> HIDE DEF from, to
<1>7. Counted(q) + Sign(from, to) \in {0, 1}
  BY <1>2, <1>4, <1>5
<1> QED
  BY <1>6, <1>7 DEF from, to

\* An order that no step is about keeps its tally.
LEMMA TallyKept ==
  ASSUME Base, NEW w \in Workers, \A x \in Workers : x # w => proc'[x] = proc[x],
         NEW o \in Orders, lock[o] # w, lock'[o] = lock[o], Counted(o)' = Counted(o)
  PROVE  Tally(o)' = Tally(o)
<1>1. lock[o] = NoOne \/ (lock[o] \in Workers /\ proc'[lock[o]] = proc[lock[o]])
  BY DEF Base, Types
<1>2. Added(o)' = Added(o)
  BY <1>1 DEF Added
<1> QED
  BY <1>2 DEF Tally

\* A step that writes no count, moves no tally and reads none but the true count.
LEMMA StatsRest ==
  ASSUME Stats, UNCHANGED statsVars,
         \A o \in Orders : failed'[o] = 0 => failed[o] = 0 /\ Tally(o)' = Tally(o),
         \A x \in Workers : proc'[x].at = "counting" =>
            \/ proc[x].at = "counting" /\ proc'[x].order = proc[x].order /\ proc'[x].count = proc[x].count
            \/ proc'[x].count = orderCount[CustomerOf[proc'[x].order]]
  PROVE  Stats'
<1>1. UNCHANGED <<orderCount, crossed>>
  BY DEF statsVars
<1>2. Intact' \subseteq Intact
  BY <1>1 DEF Intact
<1>3. ASSUME NEW c \in Intact'
      PROVE  IsFiniteSet(Counting(c)') /\ orderCount'[c] = Cardinality(Counting(c)')
  <2>1. Counting(c)' = Counting(c)
    BY <1>3 DEF Counting, Intact
  <2> QED
    BY <1>1, <1>2, <1>3, <2>1 DEF Stats
<1>4. ASSUME NEW x \in Workers PROVE CopyIsTrue(x)'
  <2>1. CopyIsTrue(x)
    BY DEF Stats
  <2> QED
    BY <1>1, <1>2, <2>1 DEF CopyIsTrue
<1> QED
  BY <1>3, <1>4 DEF Stats

\* A request that starts, moves a line, ends or fails leaves the tally of an order none of
\* whose transitions failed, and one that reads the count reads the true one.
LEMMA OtherStepsKeepStats ==
  ASSUME Base, Stats, NEW w \in Workers,
         \/ Open(w) \/ LockOrder(w) \/ RefuseTransition(w) \/ MoveLine(w)
         \/ RefuseLine(w) \/ Crash(w) \/ AcquireTimeout(w)
  PROVE  Stats'
<1>1. UNCHANGED <<status, history, statsVars>>
  BY DEF Open, LockOrder, RefuseTransition, MoveLine, RefuseLine, Crash, AcquireTimeout, orderVars
<1>2. \A o \in Orders : Counted(o)' = Counted(o)
  BY <1>1 DEF Counted, Entered, Undone
<1>3. \A x \in Workers : x # w => proc'[x] = proc[x]
  BY DEF Open, LockOrder, RefuseTransition, MoveLine, RefuseLine, Crash, AcquireTimeout, Rollback, Base, Types
<1>4. ASSUME NEW o \in Orders, failed'[o] = 0 PROVE failed[o] = 0 /\ Tally(o)' = Tally(o)
  <2>1. CASE Open(w) \/ RefuseTransition(w)
    <3>1. lock[o] # w /\ lock' = lock /\ failed' = failed
      BY <2>1, FulfilmentAssumption DEF Open, RefuseTransition, Base, Held, Moving
    <3> QED
      BY <1>2, <1>3, <1>4, <3>1, TallyKept
  <2>2. CASE LockOrder(w)
    <3>0. proc[w].at = "waiting" /\ ~Moving(w) /\ failed' = failed
      BY <2>2 DEF LockOrder, Moving
    <3>1. lock[o] # w /\ failed' = failed /\ proc[w].order \in Orders
      <4>1. proc[w].order \in Orders
        BY <3>0, Carried DEF Base
      <4> QED
        BY <3>0, <4>1, FulfilmentAssumption DEF Base, Held
    <3>2. CASE o # proc[w].order
      <4>1. lock'[o] = lock[o]
        BY <2>2, <3>2 DEF LockOrder, Base, Types
      <4> QED
        BY <1>2, <1>3, <1>4, <3>1, <4>1, TallyKept
    <3>3. CASE o = proc[w].order
      <4>1. lock[o] = NoOne /\ lock'[o] = w /\ proc'[w].at = "effects"
        BY <2>2, <3>1, <3>3 DEF LockOrder, Base, Types
      <4>2. Added(o) = 0 /\ Added(o)' = 0
        BY <4>1 DEF Added
      <4> QED
        BY <1>2, <1>4, <3>1, <4>2 DEF Tally
    <3> QED
      BY <3>2, <3>3
  <2>3. CASE MoveLine(w)
    <3>1. lock' = lock /\ failed' = failed /\ proc[w].at = "effects" /\ proc'[w].at = "effects"
      <4>1. lock' = lock /\ failed' = failed /\ Moving(w) /\ proc[w].at = "effects"
        BY <2>3 DEF MoveLine, Working, Moving
      <4>2. PICK v \in proc[w].todo : proc' = [proc EXCEPT ![w] = [proc[w] EXCEPT !.todo = @ \ {v}]]
        BY <2>3 DEF MoveLine
      <4>3. [proc[w] EXCEPT !.todo = @ \ {v}].at = proc[w].at
        <5>1. proc[w] = [at |-> proc[w].at, order |-> proc[w].order, to |-> proc[w].to,
                         from |-> proc[w].from, todo |-> proc[w].todo, count |-> proc[w].count]
          BY <4>1, Carried DEF Base
        <5> QED
          BY <5>1
      <4> QED
        BY <4>1, <4>2, <4>3 DEF Base, Types
    <3>2. CASE lock[o] # w
      BY <1>2, <1>3, <1>4, <3>1, <3>2, TallyKept
    <3>3. CASE lock[o] = w
      <4>1. Added(o)' = Added(o)
        BY <3>1, <3>3 DEF Added
      <4> QED
        BY <1>2, <1>4, <3>1, <4>1 DEF Tally
    <3> QED
      BY <3>2, <3>3
  <2>4. CASE RefuseLine(w) \/ Crash(w) \/ AcquireTimeout(w)
    <3>1. Moving(w) /\ proc[w].order \in Orders /\ failed' = [failed EXCEPT ![proc[w].order] = @ + 1]
          /\ (Rollback(w) \/ UNCHANGED lock)
      BY <2>4, Carried DEF RefuseLine, Crash, AcquireTimeout, Rollback, Counts, Working, Base, Moving
    <3>2. o # proc[w].order
      BY <1>4, <3>1 DEF Base, Types
    <3>3. lock[o] # w /\ failed'[o] = failed[o]
      BY <3>1, <3>2, FulfilmentAssumption DEF Base, Types, Held
    <3>4. lock'[o] = lock[o]
      BY <3>1, <3>3 DEF Rollback
    <3> QED
      BY <1>2, <1>3, <1>4, <3>3, <3>4, TallyKept
  <2> QED
    BY <2>1, <2>2, <2>3, <2>4
<1>5. proc'[w].at # "counting"
  <2>1. CASE Open(w) \/ LockOrder(w) \/ RefuseTransition(w) \/ Rollback(w)
    BY <2>1 DEF Open, LockOrder, RefuseTransition, Rollback, Idle, Base, Types
  <2>2. CASE MoveLine(w) \/ (AcquireTimeout(w) /\ ~Rollback(w))
    <3>1. Moving(w)
      BY <2>2 DEF MoveLine, AcquireTimeout, Counts, Working, Moving
    <3>2. proc[w] = [at |-> proc[w].at, order |-> proc[w].order, to |-> proc[w].to,
                     from |-> proc[w].from, todo |-> proc[w].todo, count |-> proc[w].count]
      BY <3>1, Carried DEF Base
    <3>3. \A t : proc' = [proc EXCEPT ![w] = t] => proc'[w] = t
      BY DEF Base, Types
    <3>4. CASE MoveLine(w)
      <4>1. PICK v : proc' = [proc EXCEPT ![w] = [proc[w] EXCEPT !.todo = @ \ {v}]]
        BY <3>4 DEF MoveLine
      <4>2. proc'[w] = [proc[w] EXCEPT !.todo = @ \ {v}]
        BY <3>3, <4>1
      <4>3. proc[w].at = "effects"
        BY <3>4 DEF MoveLine, Working
      <4> QED
        BY <3>2, <4>2, <4>3
    <3>5. CASE AcquireTimeout(w) /\ ~Rollback(w)
      <4>1. proc' = [proc EXCEPT ![w] = [proc[w] EXCEPT !.at = "commit", !.count = 0]]
        BY <3>5 DEF AcquireTimeout
      <4>2. proc'[w] = [proc[w] EXCEPT !.at = "commit", !.count = 0]
        BY <3>3, <4>1
      <4> QED
        BY <3>2, <4>2
    <3> QED
      BY <2>2, <3>4, <3>5
  <2> QED
    BY <2>1, <2>2 DEF RefuseLine, Crash
<1>6. \A x \in Workers : proc'[x].at = "counting" => proc'[x] = proc[x]
  BY <1>3, <1>5
<1> QED
  BY <1>1, <1>4, <1>6, StatsRest

\* What a request that reads or writes the count does to its own record.
LEMMA CountingStep ==
  ASSUME Base, NEW w \in Workers, NEW q \in Orders, q = proc[w].order, ReadStats(w) \/ WriteStats(w)
  PROVE  /\ Moving(w) /\ lock[q] = w /\ w # NoOne /\ CustomerOf[q] \in Customers /\ proc[w].count \in Nat
         /\ UNCHANGED <<status, history, lock, failed>>
         /\ \A x \in Workers : x # w => proc'[x] = proc[x]
         /\ proc'[w].order = q /\ proc'[w].from = proc[w].from /\ proc'[w].to = proc[w].to
         /\ ReadStats(w) => /\ proc[w].at = "effects" /\ proc'[w].at = "counting"
                            /\ proc'[w].count = orderCount[CustomerOf[q]]
         /\ WriteStats(w) => proc[w].at = "counting" /\ proc'[w].at = "commit"
<1> DEFINE p == proc[w]
           c == CustomerOf[q]
<1>2. /\ Moving(w) /\ lock[q] = w /\ w # NoOne /\ c \in Customers /\ p.count \in Nat
      /\ UNCHANGED <<status, history, lock, failed>>
      /\ p = [at |-> p.at, order |-> p.order, to |-> p.to, from |-> p.from, todo |-> p.todo, count |-> p.count]
  BY Carried, FulfilmentAssumption DEF ReadStats, WriteStats, Counts, Moving, Base, Holding, orderVars
<1>4. \A x \in Workers : x # w => proc'[x] = proc[x]
  BY DEF ReadStats, WriteStats, Base, Types
<1>5. ASSUME NEW a, NEW n
      PROVE  LET t == [p EXCEPT !.at = a, !.count = n]
             IN  t.at = a /\ t.count = n /\ t.order = p.order /\ t.from = p.from /\ t.to = p.to
  BY <1>2
<1>6. \A t : proc' = [proc EXCEPT ![w] = t] => proc'[w] = t
  BY DEF Base, Types
<1>7. ReadStats(w) => /\ proc' = [proc EXCEPT ![w] = [p EXCEPT !.at = "counting", !.count = orderCount[c]]]
                      /\ p.at = "effects"
  BY DEF ReadStats, Counts
<1>8. WriteStats(w) => /\ proc' = [proc EXCEPT ![w] = [p EXCEPT !.at = "commit", !.count = 0]]
                       /\ p.at = "counting"
  BY DEF WriteStats
<1> HIDE DEF p
<1>9. ReadStats(w) => proc'[w] = [p EXCEPT !.at = "counting", !.count = orderCount[c]]
  BY <1>6, <1>7
<1>10. WriteStats(w) => proc'[w] = [p EXCEPT !.at = "commit", !.count = 0]
  BY <1>6, <1>8
<1>11. q = p.order
  BY DEF p
<1>12. /\ proc'[w].order = p.order /\ proc'[w].from = p.from /\ proc'[w].to = p.to
       /\ ReadStats(w) => proc'[w].at = "counting" /\ proc'[w].count = orderCount[c]
       /\ WriteStats(w) => proc'[w].at = "commit"
  <2>1. PICK n : n = orderCount[c]
    OBVIOUS
  <2>2. CASE ReadStats(w)
    <3>1. proc'[w] = [p EXCEPT !.at = "counting", !.count = n]
      BY <1>9, <2>1, <2>2
    <3>2. WriteStats(w) => p.at = "effects" /\ p.at = "counting"
      BY <1>7, <1>8, <2>2
    <3> QED
      BY <1>5, <2>1, <3>1, <3>2
  <2>3. CASE WriteStats(w)
    <3>1. proc'[w] = [p EXCEPT !.at = "commit", !.count = 0]
      BY <1>10, <2>3
    <3>2. ReadStats(w) => p.at = "effects" /\ p.at = "counting"
      BY <1>7, <1>8, <2>3
    <3> QED
      BY <1>5, <3>1, <3>2
  <2> QED
    BY <2>2, <2>3
<1> QED
  BY <1>2, <1>4, <1>7, <1>8, <1>11, <1>12 DEF p

\* Reading the count.
LEMMA ReadKeepsStats ==
  ASSUME Base, Stats, NEW w \in Workers, ReadStats(w)
  PROVE  Stats'
<1>1. PICK q \in Orders : q = proc[w].order
  BY Carried DEF ReadStats, Counts, Base
<1>2. /\ Moving(w) /\ lock[q] = w /\ UNCHANGED <<status, history, lock, failed>>
      /\ \A x \in Workers : x # w => proc'[x] = proc[x]
      /\ proc'[w].order = q /\ proc[w].at = "effects" /\ proc'[w].at = "counting"
      /\ proc'[w].count = orderCount[CustomerOf[q]]
  BY <1>1, CountingStep
<1>3. ASSUME NEW o \in Orders PROVE Tally(o)' = Tally(o)
  <2>1. Counted(o)' = Counted(o)
    BY <1>2 DEF Counted, Entered, Undone
  <2>2. CASE lock[o] # w
    BY <1>2, <2>1, <2>2, TallyKept
  <2>3. CASE lock[o] = w
    <3>1. Added(o)' = 0 /\ Added(o) = 0
      BY <1>2, <2>3 DEF Added
    <3> QED
      BY <2>1, <3>1 DEF Tally
  <2> QED
    BY <2>2, <2>3
<1>4. UNCHANGED statsVars
  BY DEF ReadStats
<1> QED
  BY <1>2, <1>3, <1>4, StatsRest

\* Writing the count: an order joins it, leaves it, or neither.
LEMMA WriteKeepsStats ==
  ASSUME Base, Stats, NEW w \in Workers, WriteStats(w)
  PROVE  Stats'
<1>1. PICK q \in Orders : q = proc[w].order
  BY Carried DEF WriteStats, Base
<1> DEFINE p == proc[w]
           c == CustomerOf[q]
           sign == Sign(p.from, p.to)
           next == IF p.count + sign > 0 THEN p.count + sign ELSE 0
<1>2. /\ Moving(w) /\ lock[q] = w /\ w # NoOne /\ c \in Customers /\ p.count \in Nat
      /\ UNCHANGED <<status, history, lock, failed>>
      /\ \A x \in Workers : x # w => proc'[x] = proc[x]
      /\ proc'[w].from = p.from /\ proc'[w].to = p.to
      /\ p.at = "counting" /\ proc'[w].at = "commit"
  BY <1>1, CountingStep
<1>3. /\ orderCount' = IF next = p.count THEN orderCount ELSE [orderCount EXCEPT ![c] = next]
      /\ crossed \subseteq crossed'
      /\ (\E x \in Workers \ {w} : proc[x].at = "counting" /\ CustomerOf[proc[x].order] = c) => c \in crossed'
  BY <1>1 DEF WriteStats
<1>4. /\ Intact' \subseteq Intact
      /\ c \in Intact' => \A x \in Workers : proc[x].at = "counting" /\ CustomerOf[proc[x].order] = c => x = w
  BY <1>2, <1>3 DEF Intact
<1>5. \A o \in Orders : Counted(o)' = Counted(o)
  BY <1>2 DEF Counted, Entered, Undone
<1>6. \A o \in Orders \ {q} : Tally(o)' = Tally(o)
  <2> SUFFICES ASSUME NEW o \in Orders, o # q PROVE Tally(o)' = Tally(o)
    OBVIOUS
  <2>1. lock[o] # w /\ lock'[o] = lock[o]
    BY <1>1, <1>2 DEF Base, Held
  <2> QED
    BY <1>2, <1>5, <2>1, TallyKept
<1>7. Tally(q) \in {0, 1} /\ Tally(q) + sign \in {0, 1} /\ Tally(q)' = Tally(q) + sign /\ sign \in {-1, 0, 1}
  <2>1. Added(q) = 0 /\ Added(q)' = sign
    BY <1>2 DEF Added
  <2>2. Counted(q) + sign \in {0, 1}
    BY <1>1, <1>2, EdgeCounts
  <2>3. Counted(q) \in {0, 1} /\ sign \in {-1, 0, 1}
    BY DEF Counted, Sign
  <2> HIDE DEF sign
  <2> QED
    BY <1>5, <2>1, <2>2, <2>3 DEF Tally
<1> HIDE DEF next, sign
<1>8. \A d \in Customers : d # c => orderCount'[d] = orderCount[d]
  BY <1>3 DEF Base, Types
<1>9. ASSUME NEW d \in Intact', d # c
      PROVE  IsFiniteSet(Counting(d)') /\ orderCount'[d] = Cardinality(Counting(d)')
  <2>1. Counting(d)' = Counting(d)
    BY <1>6, <1>9 DEF Counting
  <2>2. d \in Customers /\ d \in Intact
    BY <1>4, <1>9 DEF Intact
  <2> QED
    BY <1>8, <1>9, <2>1, <2>2 DEF Stats
<1>10. ASSUME c \in Intact'
       PROVE  IsFiniteSet(Counting(c)') /\ orderCount'[c] = Cardinality(Counting(c)')
  <2>1. /\ IsFiniteSet(Counting(c)) /\ orderCount[c] = Cardinality(Counting(c)) /\ p.count = orderCount[c]
        /\ Cardinality(Counting(c)) \in Nat
    BY <1>1, <1>2, <1>4, <1>10, FS_CardinalityType DEF Stats, CopyIsTrue
  <2>2. orderCount'[c] = next
    BY <1>2, <1>3, <2>1 DEF Base, Types
  <2>3. q \in Counting(c) <=> Tally(q) = 1
    BY DEF Counting
  <2>4. CASE sign = 0
    <3>1. Counting(c)' = Counting(c)
      BY <1>6, <1>7, <2>4 DEF Counting
    <3>2. next = p.count
      BY <1>2, <2>4 DEF next
    <3> QED
      BY <2>1, <2>2, <3>1, <3>2
  <2>5. CASE sign = 1
    <3>1. Counting(c)' = Counting(c) \union {q} /\ q \notin Counting(c)
      BY <1>6, <1>7, <2>5 DEF Counting
    <3>2. next = p.count + 1
      BY <1>2, <2>5 DEF next
    <3>3. IsFiniteSet(Counting(c) \union {q}) /\ Cardinality(Counting(c) \union {q}) = Cardinality(Counting(c)) + 1
      BY <2>1, <3>1, FS_AddElement
    <3> QED
      BY <2>1, <2>2, <3>1, <3>2, <3>3
  <2>6. CASE sign = -1
    <3>1. Counting(c)' = Counting(c) \ {q} /\ q \in Counting(c)
      BY <1>6, <1>7, <2>6 DEF Counting
    <3>2. IsFiniteSet(Counting(c) \ {q}) /\ Cardinality(Counting(c) \ {q}) = Cardinality(Counting(c)) - 1
          /\ Cardinality(Counting(c) \ {q}) \in Nat
      BY <2>1, <3>1, FS_RemoveElement, FS_CardinalityType
    <3>3. next = p.count - 1
      BY <1>2, <2>1, <2>6, <3>2 DEF next
    <3> QED
      BY <2>1, <2>2, <3>1, <3>2, <3>3
  <2> QED
    BY <1>7, <2>4, <2>5, <2>6
<1>11. ASSUME NEW x \in Workers PROVE CopyIsTrue(x)'
  <2>1. CASE x = w
    BY <1>2, <2>1 DEF CopyIsTrue
  <2>2. CASE x # w /\ proc[x].at = "counting" /\ CustomerOf[proc[x].order] \in Intact'
    <3>1. CustomerOf[proc[x].order] # c /\ CustomerOf[proc[x].order] \in Customers
      BY <1>4, <2>2 DEF Intact
    <3>2. CustomerOf[proc[x].order] \in Intact /\ CopyIsTrue(x) /\ proc'[x] = proc[x]
      BY <1>2, <1>4, <2>2 DEF Stats
    <3> QED
      BY <1>8, <2>2, <3>1, <3>2 DEF CopyIsTrue
  <2>3. CASE x # w /\ ~(proc[x].at = "counting" /\ CustomerOf[proc[x].order] \in Intact')
    BY <1>2, <2>3 DEF CopyIsTrue
  <2> QED
    BY <2>1, <2>2, <2>3
<1> QED
  BY <1>9, <1>10, <1>11 DEF Stats

\* The commit makes good what was added ahead of it.
LEMMA CommitKeepsStats ==
  ASSUME Base, Stats, NEW w \in Workers, CommitTransition(w)
  PROVE  Stats'
<1>1. PICK q \in Orders : q = proc[w].order
  BY Carried DEF CommitTransition, Base
<1>2. /\ Moving(w) /\ lock[q] = w /\ w # NoOne /\ lock' = [lock EXCEPT ![q] = NoOne]
      /\ proc[w].at = "commit" \/ (proc[w].at = "effects" /\ Sign(proc[w].from, proc[w].to) = 0)
      /\ UNCHANGED <<statsVars, failed>>
  BY <1>1, FulfilmentAssumption DEF CommitTransition, Moving, Base, Holding
<1>3. (\A x \in Workers : x # w => proc'[x] = proc[x]) /\ proc'[w].at = "idle"
  BY DEF CommitTransition, Base, Types, Idle
<1>4. ASSUME NEW o \in Orders PROVE Tally(o)' = Tally(o)
  <2>1. CASE o # q
    <3>1. lock[o] # w /\ lock'[o] = lock[o] /\ status'[o] = status[o] /\ history'[o] = history[o]
      BY <1>1, <1>2, <2>1 DEF CommitTransition, Base, Types, Held
    <3>2. Counted(o)' = Counted(o)
      BY <3>1 DEF Counted, Entered, Undone
    <3> QED
      BY <1>2, <1>3, <3>1, <3>2, TallyKept
  <2>2. CASE o = q
    <3>1. lock'[o] = NoOne
      BY <1>2, <2>2 DEF Base, Types
    <3>2. Added(o)' = 0 /\ Added(o) = Sign(proc[w].from, proc[w].to)
      BY <1>2, <2>2, <3>1 DEF Added
    <3>3. Counted(o)' = Counted(o) + Added(o) /\ Counted(o)' \in Int
      BY <1>1, <1>2, <2>2, <3>2, EdgeCounts DEF Counted
    <3> QED
      BY <3>2, <3>3 DEF Tally
  <2> QED
    BY <2>1, <2>2
<1>5. \A x \in Workers : proc'[x].at = "counting" => proc'[x] = proc[x]
  BY <1>3
<1> QED
  BY <1>2, <1>4, <1>5, StatsRest

\* Every step keeps the counts.
LEMMA StepsKeepStats ==
  ASSUME Base, Stats, [Next]_vars
  PROVE  Stats'
<1>1. ASSUME NEW o \in Orders, PlaceOrder(o) PROVE Stats'
  <2>1. UNCHANGED <<statsVars, lock, proc, failed>>
    BY <1>1 DEF PlaceOrder
  <2>2. ASSUME NEW p \in Orders PROVE Counted(p)' = Counted(p)
    <3>1. CASE p # o
      <4>1. status'[p] = status[p] /\ history'[p] = history[p]
        BY <1>1, <3>1 DEF PlaceOrder, Base, Types
      <4> QED
        BY <4>1 DEF Counted, Entered, Undone
    <3>2. CASE p = o
      <4>1. history[p] = <<>> /\ history'[p] = <<"PENDING">>
        BY <1>1, <3>2 DEF PlaceOrder, Base, Types, Past
      <4>2. ~Entered(p, "CONFIRMED") /\ ~Entered(p, "CONFIRMED")'
        BY <4>1 DEF Entered
      <4> QED
        BY <4>2 DEF Counted
    <3> QED
      BY <3>1, <3>2
  <2>3. \A p \in Orders : Tally(p)' = Tally(p)
    BY <2>1, <2>2 DEF Tally, Added
  <2> QED
    BY <2>1, <2>3, StatsRest
<1>2. ASSUME UNCHANGED <<status, history, statsVars, lock, proc, failed>> PROVE Stats'
  <2>1. \A o \in Orders : Tally(o)' = Tally(o)
    BY <1>2 DEF Tally, Counted, Added, Entered, Undone
  <2> QED
    BY <1>2, <2>1, StatsRest
<1>3. ASSUME NEW v \in Variants, CorrectStock(v) PROVE UNCHANGED <<status, history, statsVars, lock, proc, failed>>
  BY <1>3 DEF CorrectStock, orderVars
<1>4. UNCHANGED vars => UNCHANGED <<status, history, statsVars, lock, proc, failed>>
  BY DEF vars, orderVars
<1> QED
  BY <1>1, <1>2, <1>3, <1>4, OtherStepsKeepStats, ReadKeepsStats, WriteKeepsStats, CommitKeepsStats
     DEF Next, Proceed

\* The counts are inductive.
THEOREM StatsHold == Spec => []Stats
<1>1. Init => Stats
  <2> SUFFICES ASSUME Init PROVE Stats
    OBVIOUS
  <2>1. ASSUME NEW o \in Orders PROVE Tally(o) = 0
    BY FulfilmentAssumption DEF Init, Tally, Counted, Added, Entered
  <2>2. ASSUME NEW c \in Customers
        PROVE  IsFiniteSet(Counting(c)) /\ orderCount[c] = Cardinality(Counting(c))
    <3>1. Counting(c) = {}
      BY <2>1 DEF Counting
    <3>2. orderCount[c] = 0
      BY DEF Init
    <3> QED
      BY <3>1, <3>2, FS_EmptySet
  <2>3. \A w \in Workers : proc[w].at # "counting"
    BY DEF Init, Idle
  <2> QED
    BY <2>2, <2>3 DEF Stats, CopyIsTrue, Intact
<1>2. Base /\ Stats /\ [Next]_vars => Stats'
  BY StepsKeepStats
<1> QED
  BY <1>1, <1>2, BaseHolds, PTL DEF Spec

\* The order count of a customer none of whose orders is being moved, or has failed to, is
\* the number of confirmed orders neither cancelled nor returned, however the requests on
\* several orders of the customer interleave, unless one wrote the count while another had
\* read it: that update can get lost.
THEOREM StatsStayInSync == Spec => []StatsInSync
<1>1. Stats => StatsInSync
  <2> SUFFICES ASSUME Stats, NEW c \in Customers \ crossed,
                      \A o \in {o \in Orders : CustomerOf[o] = c} : failed[o] = 0 /\ lock[o] = NoOne
               PROVE  orderCount[c] = Cardinality({o \in {p \in Orders : CustomerOf[p] = c} :
                                                     Entered(o, "CONFIRMED") /\ ~Undone(o)})
    BY DEF StatsInSync, CountInSync
  <2> DEFINE counted == {o \in {p \in Orders : CustomerOf[p] = c} : Entered(o, "CONFIRMED") /\ ~Undone(o)}
  <2>1. \A o \in Orders : CustomerOf[o] = c => (Tally(o) = 1 <=> Entered(o, "CONFIRMED") /\ ~Undone(o))
    BY DEF Tally, Added, Counted
  <2>2. Counting(c) = counted
    BY <2>1 DEF Counting
  <2>3. c \in Intact
    BY DEF Intact
  <2> QED
    BY <2>2, <2>3 DEF Stats
<1> QED
  BY <1>1, StatsHold, PTL
=============================================================================
