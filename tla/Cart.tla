-------------------------------- MODULE Cart --------------------------------
(***************************************************************************)
(* cart.service, with the two places that retire a cart: the merge of a    *)
(* guest's cart at login and checkout.  Every handler is one transaction   *)
(* at READ COMMITTED without row locks: it reads the cart and its lines,   *)
(* and writes quantities computed from what it read.                       *)
(***************************************************************************)
EXTENDS Naturals, FiniteSets

CONSTANTS Carts,          \* bound: ids of the carts that can be opened in one behaviour
          Customer,       \* a signed-in shopper
          Guest,          \* the session the customer browsed with before login
          Variants,
          MAX_QTY,        \* config.cart.maxQtyPerVariant
          Tabs,           \* requests in flight at the same time
          NoCart,         \* a field without a value
          MaxCartRequests \* bound: requests of one behaviour

ASSUME CartAssumption ==
  /\ Carts \subseteq Nat /\ IsFiniteSet(Tabs)
  /\ Customer # Guest /\ NoCart \notin Carts \union Variants \union {Customer, Guest}
  /\ MAX_QTY \in Nat \ {0} /\ MaxCartRequests \in Nat

VARIABLES cart,      \* per cart: owner, status and whether its time is up
          items,     \* per cart and variant: quantity of the line, 0 without one
          tab,       \* per request: what it is about to write, from what it read
          orders,    \* per cart: orders made from it, the lines of the last one, and
                     \* (history) the checkouts in flight when the first one was made
          visits,    \* requests so far
          asked,     \* history: the lines the requests add up to, one after the other
          mixed      \* history: carts written by a request that others had overtaken, or
                     \* merged with such a cart

cartVars == <<cart, items, tab, orders, visits, asked, mixed>>

Shoppers == {Customer, Guest}
CartStatus == {"ACTIVE", "MERGED", "CONVERTED", "EXPIRED"}
CartRow == [owner : Shoppers, status : CartStatus, expired : BOOLEAN]
Unopened == [owner |-> NoCart]

Quantities == 0..MAX_QTY
CartLines == [Variants -> Quantities]
Empty == [v \in Variants |-> 0]

Closed == [op |-> "none"]
Operations == {"view", "add", "set", "clear", "merge", "checkout"}
TabState ==
  [op : Operations, shopper : Shoppers, cart : Carts \union {NoCart}, retires : Carts \union {NoCart},
   guest : Carts \union {NoCart},      \* the cart a merge folds in
   variant : Variants \union {NoCart}, quantity : Nat, \* the request's body
   seen : CartLines, folded : CartLines,  \* lines read from the cart, and from the guest's
   gone : SUBSET Variants,             \* lines read whose rows were deleted since
   overtaken : BOOLEAN]                \* history: a cart or line it read was written since

CartTypeOK ==
  /\ cart \in [Carts -> CartRow \union {Unopened}]
  /\ items \in [Carts -> CartLines]
  /\ tab \in [Tabs -> TabState \union {Closed}]
  /\ orders \in [Carts -> [count : Nat, lines : CartLines, rivals : SUBSET Tabs]]
  /\ visits \in 0..MaxCartRequests
  /\ asked \in [Carts -> CartLines]
  /\ mixed \in SUBSET Carts

CartInit ==
  /\ cart = [k \in Carts |-> Unopened]
  /\ items = [k \in Carts |-> Empty]
  /\ tab = [t \in Tabs |-> Closed]
  /\ orders = [k \in Carts |-> [count |-> 0, lines |-> Empty, rivals |-> {}]]
  /\ visits = 0
  /\ asked = [k \in Carts |-> Empty]
  /\ mixed = {}

\* (Slip: no limit.)
Capped_Uncapped(n) == n

\* The most of a variant that a cart takes.
Capped(n) == IF n < MAX_QTY THEN n ELSE MAX_QTY

\* carts_one_active_per_customer and carts_one_active_per_session make it unique.
ActiveCarts(s) == {k \in Carts : cart[k] # Unopened /\ cart[k].owner = s /\ cart[k].status = "ACTIVE"}
ActiveCart(s) == IF ActiveCarts(s) = {} THEN NoCart ELSE CHOOSE k \in ActiveCarts(s) : TRUE
LinesOf(k) == IF k = NoCart THEN Empty ELSE items[k]

NextCart ==
  LET unopened == {k \in Carts : cart[k] = Unopened} IN {k \in unopened : \A h \in unopened : k <= h}

\* getOrCreateCart: an expired cart is retired, and a missing one created, when the
\* transaction that found it commits.
Resolve(s) ==
  LET k == ActiveCart(s) IN
  IF k # NoCart /\ cart[k].expired THEN [cart |-> NoCart, retires |-> k] ELSE [cart |-> k, retires |-> NoCart]

-----------------------------------------------------------------------------
(* What a request reads.                                                   *)

Enters(t, s, op, v, n, guest) ==
  LET found == Resolve(s) IN
  /\ tab[t] = Closed
  /\ visits < MaxCartRequests
  /\ visits' = visits + 1
  /\ tab' = [tab EXCEPT ![t] =
       [op |-> op, shopper |-> s, cart |-> found.cart, retires |-> found.retires, guest |-> guest,
        variant |-> v, quantity |-> n, seen |-> LinesOf(found.cart), folded |-> LinesOf(guest),
        gone |-> {}, overtaken |-> FALSE]]
  /\ UNCHANGED <<cart, items, orders, asked, mixed>>

BeginView(t, s) == Enters(t, s, "view", NoCart, 0, NoCart)

BeginAdd(t, s) == \E v \in Variants, n \in Quantities \ {0} : Enters(t, s, "add", v, n, NoCart)

\* updateItemQuantity and, with quantity 0, removeItem: the line must be there.
BeginSet(t, s) ==
  \E v \in Variants, n \in Quantities :
    /\ LinesOf(Resolve(s).cart)[v] > 0
    /\ Enters(t, s, "set", v, n, NoCart)

BeginClear(t, s) == Enters(t, s, "clear", NoCart, 0, NoCart)

\* login: the guest's cart is read whether or not its time is up.
BeginMerge(t) ==
  /\ ActiveCart(Guest) # NoCart
  /\ Enters(t, Customer, "merge", NoCart, 0, ActiveCart(Guest))

BeginCheckout(t) ==
  /\ LinesOf(Resolve(Customer).cart) # Empty
  /\ Enters(t, Customer, "checkout", NoCart, 0, NoCart)

-----------------------------------------------------------------------------
(* What it writes when it commits.                                         *)

\* (Slip: the guest's quantity replaces the customer's.)
Added_MergeReplaces(p, v) ==
  CASE p.op = "add" /\ v = p.variant -> Capped(p.seen[v] + p.quantity)
    [] p.op = "merge" /\ p.folded[v] > 0 -> p.folded[v]
    [] OTHER -> 0

\* The quantity a request computes for a line it adds to.
Added(p, v) ==
  CASE p.op = "add" /\ v = p.variant -> Capped(p.seen[v] + p.quantity)
    [] p.op = "merge" /\ p.folded[v] > 0 -> Capped(p.seen[v] + p.folded[v])
    [] OTHER -> 0

\* A line that was not there is inserted: (cart, variant) is unique.
Clashes(p, rows) == \E v \in Variants : Added(p, v) > 0 /\ p.seen[v] = 0 /\ rows[v] > 0

\* A line that was there is updated through the copy: nothing is written if the copy
\* says so already, or if the row is gone.
Through(p, v, n, rows) == IF v \in p.gone \/ n = p.seen[v] THEN rows[v] ELSE n

LineAfter(p, v, rows) ==
  CASE p.op = "clear" -> 0
    [] p.op = "set" /\ v = p.variant -> Through(p, v, Capped(p.quantity), rows)
    [] Added(p, v) > 0 /\ p.seen[v] > 0 -> Through(p, v, Added(p, v), rows)
    [] Added(p, v) > 0 /\ p.seen[v] = 0 -> Added(p, v)
    [] OTHER -> rows[v]

\* The same request on what was asked for so far, nobody else being about.
AskedAfter(p, v, lines, guestLines) ==
  CASE p.op = "clear" -> 0
    [] p.op = "set" /\ v = p.variant -> IF lines[v] = 0 THEN 0 ELSE Capped(p.quantity)
    [] p.op = "add" /\ v = p.variant -> Capped(lines[v] + p.quantity)
    [] p.op = "merge" -> Capped(lines[v] + guestLines[v])
    [] OTHER -> lines[v]

GuestAsked(p) == IF p.guest = NoCart THEN Empty ELSE asked[p.guest]

\* (Slip: an ordered cart stays open.)
StatusAfter_Kept(p, k, row) ==
  CASE k = p.guest -> [row EXCEPT !.status = "MERGED"]
    [] k = p.retires -> [row EXCEPT !.status = "EXPIRED"]
    [] OTHER -> row

\* The cart rows a request writes: statuses whatever they are by now, and a new time.
StatusAfter(p, k, row) ==
  CASE k = p.guest -> [row EXCEPT !.status = "MERGED"]
    [] k = p.retires -> [row EXCEPT !.status = "EXPIRED"]
    [] k = p.cart /\ p.op = "checkout" -> [row EXCEPT !.status = "CONVERTED"]
    [] k = p.cart /\ (p.op \in {"add", "merge"} \/ (p.op = "set" /\ p.quantity > 0)) ->
         [row EXCEPT !.expired = FALSE]
    [] OTHER -> row

\* Other requests that read a cart or a line which this commit writes.
Overtaken(q, k, rows, statuses) ==
  LET held == {q.cart, q.retires, q.guest} \intersect Carts
      reads(v) == q.op \in {"clear", "merge", "checkout"} \/ v = q.variant
  IN
  \/ \E h \in held : cart[h] # Unopened /\ statuses[h].status # cart[h].status
  \/ k \in held /\ \E v \in Variants : rows[v] # items[k][v] /\ reads(v)

Others(t, k, rows, statuses) ==
  [u \in Tabs |->
     IF u = t THEN Closed
     ELSE IF tab[u] = Closed THEN Closed
     ELSE [tab[u] EXCEPT
            !.gone = @ \union (IF tab[u].cart = k THEN {v \in Variants : items[k][v] > 0 /\ rows[v] = 0} ELSE {}),
            !.overtaken = @ \/ Overtaken(tab[u], k, rows, statuses)]]

CheckingOut(k) == {u \in Tabs : tab[u] # Closed /\ tab[u].op = "checkout" /\ tab[u].cart = k}

\* The transaction of request t commits on cart k, which it found or now creates.
Commit(t) ==
  LET p == tab[t] IN
  /\ p # Closed
  /\ \E k \in Carts :
       /\ IF p.cart # NoCart THEN k = p.cart
          ELSE k \in NextCart /\ ActiveCarts(p.shopper) \subseteq {p.retires}
       /\ ~Clashes(p, items[k])
       /\ LET opened == IF p.cart # NoCart THEN cart
                        ELSE [cart EXCEPT ![k] = [owner |-> p.shopper, status |-> "ACTIVE", expired |-> FALSE]]
              statuses == [h \in Carts |-> IF opened[h] = Unopened THEN Unopened ELSE StatusAfter(p, h, opened[h])]
              rows == [v \in Variants |-> LineAfter(p, v, items[k])]
          IN
          /\ cart' = statuses
          /\ items' = [items EXCEPT ![k] = rows]
          /\ tab' = Others(t, k, rows, statuses)
          /\ asked' = [asked EXCEPT ![k] =
               [v \in Variants |-> AskedAfter(p, v, asked[k], GuestAsked(p))]]
          /\ orders' = IF p.op # "checkout" THEN orders
                       ELSE [orders EXCEPT ![k] =
                              [count |-> @.count + 1, lines |-> p.seen,
                               rivals |-> IF @.count = 0 THEN CheckingOut(k) ELSE @.rivals]]
          /\ mixed' = IF p.overtaken \/ p.guest \in mixed THEN mixed \union ({k, p.retires, p.guest} \intersect Carts) ELSE mixed
  /\ UNCHANGED visits

\* Out of stock, an inactive product, a unique index, or a crash: the transaction is
\* rolled back.
RollBack(t) ==
  /\ tab[t] # Closed
  /\ tab' = [tab EXCEPT ![t] = Closed]
  /\ UNCHANGED <<cart, items, orders, visits, asked, mixed>>

CartTimePasses(k) ==
  /\ k \in ActiveCarts(Customer) \union ActiveCarts(Guest)
  /\ ~cart[k].expired
  /\ cart' = [cart EXCEPT ![k].expired = TRUE]
  /\ UNCHANGED <<items, tab, orders, visits, asked, mixed>>

\* cart.controller; the other two requests are login's and checkout's.
CartRequest(t, s) == BeginView(t, s) \/ BeginAdd(t, s) \/ BeginSet(t, s) \/ BeginClear(t, s)

CartNext ==
  \/ \E t \in Tabs, s \in Shoppers : CartRequest(t, s)
  \/ \E t \in Tabs : BeginMerge(t) \/ BeginCheckout(t) \/ Commit(t) \/ RollBack(t)
  \/ \E k \in Carts : CartTimePasses(k)

CartSpec == CartInit /\ [][CartNext]_cartVars

-----------------------------------------------------------------------------

\* A cart holds what its requests add up to: additions capped, a guest's lines folded
\* in, nothing lost and nothing twice.  Requests that run at the same time may spoil it
\* only when one reads a line or a cart that the other writes; additions of different
\* variants never do (cart.service.js:94-186).
CartHoldsWhatWasAsked == \A k \in Carts \ mixed : items[k] = asked[k]

\* The first order of a cart retires it for good, whatever other tabs write: no later
\* checkout finds it, so that it is ordered at most as often as tabs were checking it
\* out at that moment (checkout.service.js:54-118), and once if there was one.
RetiredByOrder ==
  \A k \in Carts :
    /\ orders[k].count <= Cardinality(orders[k].rivals)
    /\ orders[k].count > 0 => cart[k].status # "ACTIVE"

\* Without overtaking, it is one order of exactly the lines the cart holds.
OrderedAsHeld ==
  \A k \in Carts \ mixed :
    /\ orders[k].count <= 1
    /\ orders[k].count = 1 => cart[k].status = "CONVERTED" /\ orders[k].lines = items[k]

OrderedOnce == RetiredByOrder /\ OrderedAsHeld
=============================================================================
