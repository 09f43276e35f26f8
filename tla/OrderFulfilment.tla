-------------------------- MODULE OrderFulfilment ---------------------------
(***************************************************************************)
(* order.service.transition with everything it calls.  The order row is    *)
(* locked and updated in one transaction, but the stock of each line moves *)
(* in a transaction of its own, on another connection of the same pool,    *)
(* and is committed before the order is.  Requests on several orders run   *)
(* interleaved; a request may wait for the order's row lock or for a       *)
(* connection, time out, or die between any two steps, and be repeated.    *)
(***************************************************************************)
EXTENDS StockRow, OrderTransitions, Sequences, FiniteSetsExt

CONSTANTS Orders, Variants,
          Lines,           \* [Orders -> [Variants -> Nat]]: quantity ordered, 0 if not in the order
          InitialStock,    \* [Variants -> Nat]: physical count before the first order
          Customers, CustomerOf,   \* [Orders -> Customers]: who placed the order
          WalletOrders,    \* orders partly paid with wallet credit (walletAmount > 0)
          NotPlaced,       \* status of an order that checkout has not created yet
          Workers,         \* transition requests in flight at the same time
          NoOne,           \* nobody holds the order's row lock
          PoolSize,        \* config.db.pool.max: connections of the process
          MayFail,         \* whether requests may die half-way, or find the pool taken by others
          MaxFailures,     \* bound: failed transitions before the last attempts
          MaxCorrections   \* bound: manual stock corrections of one behaviour

ASSUME LinesAssumption ==
  /\ Lines \in [Orders -> [Variants -> Quantities \union {0}]]
  /\ \A o \in Orders : \E v \in Variants : Lines[o][v] # 0
ASSUME FulfilmentAssumption ==
  /\ InitialStock \in [Variants -> Nat]
  /\ WalletOrders \subseteq Orders /\ CustomerOf \in [Orders -> Customers]
  /\ NotPlaced \notin OrderStatus /\ NoOne \notin Workers
  /\ PoolSize \in Nat /\ MayFail \in BOOLEAN
  /\ MaxFailures \in Nat /\ MaxCorrections \in Nat

VARIABLES status,      \* per order: committed status
          history,     \* per order: toStatus of its committed history rows
          stock,       \* per variant: the committed inventory row
          moved,       \* per order, variant: units of the movements that reference the order
          restored,    \* per order: wallet credits written back for it
          orderCount,  \* per customer: the denormalised number of orders
          crossed,     \* history: customers whose count was written while another request held a copy
          lock,        \* per order: the request that holds its row
          proc,        \* per request: the step it is at
          failed,      \* per order: transitions rolled back half-way or left without statistics
          corrections  \* manual stock corrections so far

orderVars == <<status, history, restored>>
stockVars == <<stock, moved>>
statsVars == <<orderCount, crossed>>
vars == <<orderVars, stockVars, statsVars, lock, proc, failed, corrections>>

OrderMovements == {"ORDER", "RELEASE", "RETURN"}
LinesOf(o) == {v \in Variants : Lines[o][v] # 0}

Idle == [at |-> "idle"]
Requests ==
  {Idle}
    \union [at : {"waiting"}, order : Orders, to : OrderStatus]
    \union [at : {"effects", "counting", "commit"}, order : Orders, to : OrderStatus,
            from : OrderStatus, todo : SUBSET Variants, count : Nat]

TypeOK ==
  /\ status \in [Orders -> OrderStatus \union {NotPlaced}]
  /\ \A o \in Orders : history[o] \in Seq(OrderStatus)
  /\ stock \in [Variants -> Stock]
  /\ moved \in [Orders -> [Variants -> [OrderMovements -> Nat]]]
  /\ restored \in [Orders -> Nat]
  /\ orderCount \in [Customers -> Nat] /\ crossed \in SUBSET Customers
  /\ lock \in [Orders -> Workers \union {NoOne}]
  /\ proc \in [Workers -> Requests]
  /\ failed \in [Orders -> Nat]
  /\ corrections \in 0..MaxCorrections

Init ==
  /\ status = [o \in Orders |-> NotPlaced]
  /\ history = [o \in Orders |-> <<>>]
  /\ stock = [v \in Variants |-> [EmptyRow EXCEPT !.physical = InitialStock[v]]]
  /\ moved = [o \in Orders |-> [v \in Variants |-> [m \in OrderMovements |-> 0]]]
  /\ restored = [o \in Orders |-> 0]
  /\ orderCount = [c \in Customers |-> 0] /\ crossed = {}
  /\ lock = [o \in Orders |-> NoOne]
  /\ proc = [w \in Workers |-> Idle]
  /\ failed = [o \in Orders |-> 0]
  /\ corrections = 0

\* Every request that is not idle holds the connection of its transaction.
InUse == Cardinality({w \in Workers : proc[w].at # "idle"})
ConnectionFree == InUse < PoolSize

Failures == MapThenSumSet(LAMBDA o : failed[o], Orders)

\* Something outside the requests goes wrong, MaxFailures times at most.
Fault == MayFail /\ Failures < MaxFailures

\* The pool is the whole process's: the requests of the model hold all of it, or
\* other traffic holds what they leave.
Starved == ~ConnectionFree \/ Fault

-----------------------------------------------------------------------------

\* (Slip used to test the properties: the order is created, nothing is reserved.)
PlaceOrder_Unreserved(o) ==
  /\ status[o] = NotPlaced
  /\ ConnectionFree
  /\ status' = [status EXCEPT ![o] = "PENDING"]
  /\ history' = [history EXCEPT ![o] = <<"PENDING">>]
  /\ UNCHANGED <<stockVars, restored, statsVars, lock, proc, failed, corrections>>

\* checkout: reservations of all lines and the order, in one transaction.
PlaceOrder(o) ==
  /\ status[o] = NotPlaced
  /\ ConnectionFree
  /\ \A v \in LinesOf(o) : Accepts("RESERVE", stock[v], Lines[o][v])
  /\ stock' = [v \in Variants |-> Update("RESERVE", stock[v], Lines[o][v])]
  /\ status' = [status EXCEPT ![o] = "PENDING"]
  /\ history' = [history EXCEPT ![o] = <<"PENDING">>]
  /\ UNCHANGED <<moved, restored, statsVars, lock, proc, failed, corrections>>

\* inventory.adjust by the warehouse.
CorrectStock(v) ==
  /\ corrections < MaxCorrections
  /\ ConnectionFree
  /\ \E n \in Amounts("ADJUST") :
       /\ Accepts("ADJUST", stock[v], n)
       /\ stock' = [stock EXCEPT ![v] = Update("ADJUST", @, n)]
  /\ corrections' = corrections + 1
  /\ UNCHANGED <<orderVars, moved, statsVars, lock, proc, failed>>

\* A request to move an order arrives and its transaction gets a connection.
\* Only requests for an edge of the status their sender can see are opened: one
\* that waits for the row until its edge appears behaves as one opened later.
Open(w) ==
  /\ proc[w].at = "idle"
  /\ ConnectionFree
  /\ \E o \in Orders, to \in OrderStatus :
       /\ status[o] # NotPlaced /\ CanTransition(status[o], to)
       /\ Failures <= MaxFailures
       /\ proc' = [proc EXCEPT ![w] = [at |-> "waiting", order |-> o, to |-> to]]
  /\ UNCHANGED <<orderVars, stockVars, statsVars, lock, failed, corrections>>

\* (Slip: a cancellation always releases.)
StockOperation_AlwaysRelease(from, to) ==
  CASE to = "CONFIRMED" -> "COMMIT"
    [] to = "CANCELLED" -> "RELEASE"
    [] to = "RETURNED" -> "RESTOCK"
    [] OTHER -> "NONE"

\* The inventory operation that an edge calls for every line.
StockOperation(from, to) ==
  CASE to = "CONFIRMED" -> "COMMIT"
    [] to = "CANCELLED" /\ from = "PENDING" -> "RELEASE"
    [] to = "CANCELLED" /\ from # "PENDING" -> "RESTOCK"
    [] to = "RETURNED" -> "RESTOCK"
    [] OTHER -> "NONE"

\* (Slip: a returned order stays counted.)
Sign_ReturnsKept(from, to) ==
  CASE to = "CONFIRMED" -> 1
    [] to = "CANCELLED" /\ from # "PENDING" -> -1
    [] OTHER -> 0

\* What an edge adds to the customer's order count.
Sign(from, to) ==
  CASE to = "CONFIRMED" -> 1
    [] to = "CANCELLED" /\ from # "PENDING" -> -1
    [] to = "RETURNED" -> -1
    [] OTHER -> 0

\* (Slip: the order is read without its lock.)
LockOrder_NoWait(w) ==
  LET p == proc[w]
  IN  /\ p.at = "waiting"
      /\ CanTransition(status[p.order], p.to)
      /\ lock' = [lock EXCEPT ![p.order] = w]
      /\ proc' = [proc EXCEPT ![w] =
           [at |-> "effects", order |-> p.order, to |-> p.to, from |-> status[p.order], count |-> 0,
            todo |-> IF StockOperation(status[p.order], p.to) = "NONE" THEN {} ELSE LinesOf(p.order)]]
      /\ UNCHANGED <<orderVars, stockVars, statsVars, failed, corrections>>

\* findByIdForUpdate: wait for the row lock, read the status, take the edge.
\* The update, history and audit rows are written now but visible only at commit.
LockOrder(w) ==
  LET p == proc[w]
  IN  /\ p.at = "waiting"
      /\ lock[p.order] = NoOne
      /\ CanTransition(status[p.order], p.to)
      /\ lock' = [lock EXCEPT ![p.order] = w]
      /\ proc' = [proc EXCEPT ![w] =
           [at |-> "effects", order |-> p.order, to |-> p.to, from |-> status[p.order], count |-> 0,
            todo |-> IF StockOperation(status[p.order], p.to) = "NONE" THEN {} ELSE LinesOf(p.order)]]
      /\ UNCHANGED <<orderVars, stockVars, statsVars, failed, corrections>>

\* 409: the edge is not in the table.
RefuseTransition(w) ==
  LET p == proc[w]
  IN  /\ p.at = "waiting"
      /\ lock[p.order] = NoOne
      /\ ~CanTransition(status[p.order], p.to)
      /\ proc' = [proc EXCEPT ![w] = Idle]
      /\ UNCHANGED <<orderVars, stockVars, statsVars, lock, failed, corrections>>

\* The transaction of w is rolled back; nothing else it did is.
Rollback(w) ==
  /\ proc' = [proc EXCEPT ![w] = Idle]
  /\ lock' = [o \in Orders |-> IF lock[o] = w THEN NoOne ELSE lock[o]]
  /\ failed' = [failed EXCEPT ![proc[w].order] = @ + 1]

Working(w) == proc[w].at = "effects" /\ proc[w].todo # {}

\* One line of commitStock or reverseStock: an inventory transaction of its
\* own that has committed when the call returns.  (The best-seller counter that commit
\* also increments, inventory.service.js:77-82, is left out: its failures are swallowed
\* and no decision reads it.)
MoveLine(w) ==
  LET p == proc[w]
      op == StockOperation(p.from, p.to)
  IN  /\ Working(w) /\ ConnectionFree
      /\ \E v \in p.todo :
           /\ Accepts(op, stock[v], Lines[p.order][v])
           /\ stock' = [stock EXCEPT ![v] = Update(op, @, Lines[p.order][v])]
           /\ moved' = [moved EXCEPT ![p.order][v][MovementOf(op)] = @ + Lines[p.order][v]]
           /\ proc' = [proc EXCEPT ![w].todo = @ \ {v}]
      /\ UNCHANGED <<orderVars, statsVars, lock, failed, corrections>>

\* The inventory service refuses a line: the transition fails.
RefuseLine(w) ==
  LET p == proc[w]
  IN  /\ Working(w) /\ ConnectionFree
      /\ \E v \in p.todo : ~Accepts(StockOperation(p.from, p.to), stock[v], Lines[p.order][v])
      /\ Rollback(w)
      /\ UNCHANGED <<orderVars, stockVars, statsVars, corrections>>

Counts(p) == p.at = "effects" /\ p.todo = {} /\ Sign(p.from, p.to) # 0

\* applyCustomerStats, outside the transaction: the customer is read without a
\* lock ...
ReadStats(w) ==
  LET p == proc[w]
  IN  /\ Counts(p) /\ ConnectionFree
      /\ proc' = [proc EXCEPT ![w].at = "counting", ![w].count = orderCount[CustomerOf[p.order]]]
      /\ UNCHANGED <<orderVars, stockVars, statsVars, lock, failed, corrections>>

\* ... and written back, clamped at zero and committed at once; a number equal to the
\* one read is not written.
WriteStats(w) ==
  LET p == proc[w]
      c == CustomerOf[p.order]
      sum == p.count + Sign(p.from, p.to)
      next == IF sum > 0 THEN sum ELSE 0
  IN  /\ p.at = "counting" /\ ConnectionFree
      /\ orderCount' = IF next = p.count THEN orderCount ELSE [orderCount EXCEPT ![c] = next]
      /\ crossed' = crossed \union
           {d \in {c} : \E x \in Workers \ {w} : proc[x].at = "counting" /\ CustomerOf[proc[x].order] = d}
      /\ proc' = [proc EXCEPT ![w].at = "commit", ![w].count = 0]
      /\ UNCHANGED <<orderVars, stockVars, lock, failed, corrections>>

\* (Slip: the pool has no acquire timeout.)
AcquireTimeout_None(w) == proc[w].at = "timed out" /\ UNCHANGED vars

\* No connection within the pool's acquire timeout: a stock call fails the
\* transition, a statistics call is swallowed.
AcquireTimeout(w) ==
  LET p == proc[w]
  IN  /\ Starved
      /\ \/ Working(w) /\ Rollback(w)
         \/ /\ Counts(p) \/ p.at = "counting"
            /\ proc' = [proc EXCEPT ![w].at = "commit", ![w].count = 0]
            /\ failed' = [failed EXCEPT ![p.order] = @ + 1]
            /\ UNCHANGED lock
      /\ UNCHANGED <<orderVars, stockVars, statsVars, corrections>>

\* The wallet credit of a cancelled order, written in the order's transaction.
Restored(o, to) ==
  IF to = "CANCELLED" /\ o \in WalletOrders THEN [restored EXCEPT ![o] = @ + 1] ELSE restored

\* The transaction commits: status, history row and wallet credit together.
CommitTransition(w) ==
  LET p == proc[w]
  IN  /\ \/ p.at = "commit"
         \/ p.at = "effects" /\ p.todo = {} /\ Sign(p.from, p.to) = 0
      /\ status' = [status EXCEPT ![p.order] = p.to]
      /\ history' = [history EXCEPT ![p.order] = Append(@, p.to)]
      /\ restored' = Restored(p.order, p.to)
      /\ lock' = [lock EXCEPT ![p.order] = NoOne]
      /\ proc' = [proc EXCEPT ![w] = Idle]
      /\ UNCHANGED <<stockVars, statsVars, failed, corrections>>

\* (Slip: the wallet is credited on a connection of its own.)
Crash_WalletKept(w) ==
  /\ Fault
  /\ proc[w].at \in {"effects", "counting", "commit"}
  /\ Rollback(w)
  /\ restored' = Restored(proc[w].order, proc[w].to)
  /\ UNCHANGED <<status, history, stockVars, statsVars, corrections>>

\* The process or its connection dies; the database rolls the transaction back.
Crash(w) ==
  /\ Fault
  /\ proc[w].at \in {"effects", "counting", "commit"}
  /\ Rollback(w)
  /\ UNCHANGED <<orderVars, stockVars, statsVars, corrections>>

Proceed(w) == \/ RefuseTransition(w) \/ MoveLine(w) \/ RefuseLine(w)
              \/ ReadStats(w) \/ WriteStats(w) \/ AcquireTimeout(w) \/ CommitTransition(w)

Next ==
  \/ \E o \in Orders : PlaceOrder(o)
  \/ \E v \in Variants : CorrectStock(v)
  \/ \E w \in Workers : Open(w) \/ LockOrder(w) \/ Proceed(w) \/ Crash(w)

\* A running request goes on (the pool's acquire timeout makes even a starved
\* one go on), and PostgreSQL queues the waiters of a row lock.  Nobody has to
\* send a request, and nothing has to fail.
Fairness == \A w \in Workers : WF_vars(Proceed(w)) /\ SF_vars(LockOrder(w) \/ RefuseTransition(w))

Spec == Init /\ [][Next]_vars
FairSpec == Spec /\ Fairness

-----------------------------------------------------------------------------

Lifecycle == INSTANCE OrderLifecycle WITH status <- status, history <- history

\* Status and history move as the atomic lifecycle says, one edge of the table
\* at a time with its history row, however many requests work on the order and
\* whichever of them fail (order.repository.js: "two concurrent transition
\* requests for the same order must serialize").
LifecycleIsAtomic == Lifecycle!Spec

Entered(o, s) == \E i \in DOMAIN history[o] : history[o][i] = s

\* Whatever crashes or times out in between, an order that got past PENDING has
\* taken every line off the shelf, and one that was cancelled or returned has
\* given every line back: the side effects of a committed edge all happened.
SideEffectsAtLeastOnce ==
  \A o \in Orders : \A v \in LinesOf(o) :
    LET m == moved[o][v]
        n == Lines[o][v]
    IN  /\ Entered(o, "CONFIRMED") => m["ORDER"] >= n
        /\ status[o] = "CANCELLED" =>
             IF Entered(o, "CONFIRMED") THEN m["RETURN"] >= n ELSE m["RELEASE"] >= n
        /\ Entered(o, "RETURNED") => m["RETURN"] >= n

Undone(o) == status[o] = "CANCELLED" \/ Entered(o, "RETURNED")

\* As long as none of the order's transitions failed half-way, each line moved
\* exactly as often as its status implies: nothing leaves or comes back twice.
SideEffectsExactlyOnce ==
  \A o \in Orders : failed[o] = 0 /\ lock[o] = NoOne =>
    LET confirmed == Entered(o, "CONFIRMED")
        Times(b) == IF b THEN 1 ELSE 0
    IN  \A v \in LinesOf(o) :
          moved[o][v] = [ORDER   |-> Times(confirmed) * Lines[o][v],
                         RELEASE |-> Times(Undone(o) /\ ~confirmed) * Lines[o][v],
                         RETURN  |-> Times(Undone(o) /\ confirmed) * Lines[o][v]]

\* When none of a customer's orders is being moved and no transition of theirs has
\* failed, the order count is the number of confirmed orders that were neither
\* cancelled nor returned.
CountInSync(c) ==
  LET theirs == {o \in Orders : CustomerOf[o] = c}
  IN  (\A o \in theirs : failed[o] = 0 /\ lock[o] = NoOne) =>
        orderCount[c] = Cardinality({o \in theirs : Entered(o, "CONFIRMED") /\ ~Undone(o)})

\* customer.service.js:142, "to keep the denormalised spend stats in sync".  The
\* exception is a count that was written while another request, of another order of
\* the customer, had read it and not yet written.
StatsInSync == \A c \in Customers \ crossed : CountInSync(c)

\* Until a transition fails or stock is corrected, the reserved units of a
\* variant are exactly those of placed orders not yet committed or released,
\* and they are all on the shelf.
ReservedIsPending ==
  (corrections = 0 /\ \A o \in Orders : failed[o] = 0) =>
    \A v \in Variants :
      /\ stock[v].reserved =
           MapThenSumSet(LAMBDA o : Lines[o][v] - moved[o][v]["ORDER"] - moved[o][v]["RELEASE"],
                         {o \in Orders : status[o] # NotPlaced})
      /\ stock[v].reserved <= stock[v].physical

\* The wallet credit of an order comes back exactly once, when it is cancelled,
\* even when cancelling takes several attempts.
WalletRestoredOnce ==
  \A o \in Orders : restored[o] = IF status[o] = "CANCELLED" /\ o \in WalletOrders THEN 1 ELSE 0

\* Every request ends: requests that hold a connection and wait for another
\* one, or for the row lock of one that does, do not wait for ever.
EveryRequestEnds == \A w \in Workers : proc[w].at # "idle" ~> proc[w].at = "idle"
=============================================================================
