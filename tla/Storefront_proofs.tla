------------------------- MODULE Storefront_proofs -------------------------
(***************************************************************************)
(* Proofs about what a shopper meets: Cart, Promotions, Catalog and        *)
(* Addresses each keep their invariants for any number of carts, coupons,  *)
(* categories, addresses and requests, alone and side by side.             *)
(***************************************************************************)
EXTENDS MCStorefront, FiniteSetTheorems, TLAPS

-----------------------------------------------------------------------------
\* Cart: what a request has read is how it is, unless somebody wrote it.

\* The carts a request is about, and the lines it computes from.
Held(p) == {p.cart, p.retires, p.guest} \intersect Carts
Reads(p, v) == p.op \in {"clear", "merge", "checkout"} \/ v = p.variant

\* What belongs to an operation.
WellFormed(p) ==
  /\ p.cart = NoCart => p.seen = Empty /\ p.gone = {} /\ p.op \notin {"set", "checkout"}
  /\ p.cart # NoCart => p.retires = NoCart
  /\ p.guest # NoCart <=> p.op = "merge"
  /\ p.op \in {"set", "add"} => p.variant \in Variants
  /\ p.op = "set" => p.seen[p.variant] > 0
  /\ p.op = "add" => p.quantity > 0

Fresh(p) ==
  /\ \A h \in Held(p) : cart[h].status = "ACTIVE"
  /\ p.cart # NoCart => \A v \in Variants : Reads(p, v) => p.seen[v] = items[p.cart][v] /\ v \notin p.gone
  /\ p.guest # NoCart => p.folded = items[p.guest]

WellRead(p) ==
  /\ WellFormed(p)
  /\ \A h \in Held(p) : cart[h] # Unopened
  /\ ~p.overtaken => Fresh(p)

\* The checkouts still in flight may all order the cart: with those that have, they are
\* not more than the rivals of the first one.
Settled(k) ==
  orders[k].count > 0 => /\ cart[k].status # "ACTIVE"
                         /\ orders[k].count + Cardinality(CheckingOut(k)) <= Cardinality(orders[k].rivals)

Untouched(k) == k \notin mixed /\ items[k] = Empty /\ asked[k] = Empty /\ orders[k].count = 0

CartInv ==
  /\ CartTypeOK
  /\ \A t \in Tabs : tab[t] # Closed => WellRead(tab[t])
  /\ \A k \in Carts : cart[k] = Unopened => Untouched(k)
  /\ \A k \in Carts : Settled(k)
  /\ CartHoldsWhatWasAsked
  /\ OrderedAsHeld

LEMMA NoCartIsNone ==
  NoCart \notin Carts /\ NoCart \notin Variants /\ NoCart \notin Shoppers /\ Carts \subseteq Nat
  /\ MAX_QTY \in Nat /\ MAX_QTY > 0 /\ MaxCartRequests \in Nat
BY CartAssumption DEF Shoppers

LEMMA OpenedIsRow ==
  ASSUME NEW row \in CartRow PROVE row # Unopened
BY NoCartIsNone DEF CartRow, Unopened

LEMMA RequestIsOpen ==
  ASSUME NEW p \in TabState PROVE p # Closed
BY DEF TabState, Operations, Closed

LEMMA NothingIn == Empty \in CartLines /\ \A v \in Variants : Empty[v] = 0
BY NoCartIsNone DEF Empty, CartLines, Quantities

LEMMA CappedIn ==
  ASSUME NEW n \in Nat
  PROVE  /\ Capped(n) \in Quantities /\ (n > 0 => Capped(n) > 0) /\ (n \in Quantities => Capped(n) = n)
BY NoCartIsNone DEF Capped, Quantities

\* The quantity a request adds a line up to.
LEMMA Adding ==
  ASSUME NEW p \in TabState, NEW v \in Variants
  PROVE  /\ Added(p, v) \in Quantities
         /\ p.op = "add" /\ v = p.variant => Added(p, v) = Capped(p.seen[v] + p.quantity)
         /\ p.op = "merge" /\ p.folded[v] > 0 => Added(p, v) = Capped(p.seen[v] + p.folded[v])
         /\ ~(p.op = "add" /\ v = p.variant) /\ ~(p.op = "merge" /\ p.folded[v] > 0) => Added(p, v) = 0
<1>1. p.seen[v] \in Nat /\ p.folded[v] \in Nat /\ p.quantity \in Nat /\ 0 \in Quantities
  BY NoCartIsNone DEF TabState, CartLines, Quantities
<1>2. Capped(p.seen[v] + p.quantity) \in Quantities /\ Capped(p.seen[v] + p.folded[v]) \in Quantities
  BY <1>1, CappedIn
<1>3. CASE p.op = "add" /\ v = p.variant
  BY <1>2, <1>3 DEF Added
<1>4. CASE p.op = "merge" /\ p.folded[v] > 0
  BY <1>2, <1>4 DEF Added
<1>5. CASE ~(p.op = "add" /\ v = p.variant) /\ ~(p.op = "merge" /\ p.folded[v] > 0)
  BY <1>1, <1>5 DEF Added
<1> QED
  BY <1>3, <1>4, <1>5

\* The lines a request leaves, on the lines there are and on those asked for.
LEMMA LinesStayIn ==
  ASSUME NEW p \in TabState, NEW v \in Variants, NEW rows \in CartLines, NEW guestLines \in CartLines
  PROVE  LineAfter(p, v, rows) \in Quantities /\ AskedAfter(p, v, rows, guestLines) \in Quantities
<1>1. rows[v] \in Quantities /\ rows[v] \in Nat /\ guestLines[v] \in Nat /\ p.quantity \in Nat /\ 0 \in Quantities
  BY NoCartIsNone DEF TabState, CartLines, Quantities
<1>2. /\ Capped(p.quantity) \in Quantities /\ Capped(rows[v] + p.quantity) \in Quantities
      /\ Capped(rows[v] + guestLines[v]) \in Quantities /\ Added(p, v) \in Quantities
  BY <1>1, CappedIn, Adding
<1>3. \A n \in Quantities : Through(p, v, n, rows) \in Quantities
  BY <1>1 DEF Through
<1>4. LineAfter(p, v, rows) \in Quantities
  BY <1>1, <1>2, <1>3 DEF LineAfter
<1>5. AskedAfter(p, v, rows, guestLines) \in Quantities
  BY <1>1, <1>2 DEF AskedAfter
<1> QED
  BY <1>4, <1>5

\* A request that read what is there leaves what it was asked for.
LEMMA LinesAreAsked ==
  ASSUME NEW p \in TabState, WellFormed(p), NEW v \in Variants, NEW rows \in CartLines, NEW guestLines \in CartLines,
         Reads(p, v) => p.seen[v] = rows[v] /\ v \notin p.gone,
         p.op = "merge" => p.folded = guestLines
  PROVE  LineAfter(p, v, rows) = AskedAfter(p, v, rows, guestLines)
<1>1. /\ rows[v] \in Quantities /\ rows[v] \in Nat /\ guestLines[v] \in Nat /\ p.quantity \in Nat
      /\ p.op \in Operations /\ p.seen[v] \in Nat /\ p.folded[v] \in Nat
  BY NoCartIsNone DEF TabState, CartLines, Quantities
<1>2. \A n : v \notin p.gone /\ p.seen[v] = rows[v] => Through(p, v, n, rows) = n
  BY DEF Through
<1>3. CASE p.op = "clear"
  BY <1>3 DEF LineAfter, AskedAfter
<1>4. CASE p.op = "set" /\ v = p.variant
  BY <1>1, <1>2, <1>4 DEF LineAfter, AskedAfter, Reads, WellFormed
<1>5. CASE p.op = "add" /\ v = p.variant
  <2>1. p.seen[v] = rows[v] /\ Added(p, v) = Capped(rows[v] + p.quantity) /\ p.quantity > 0 /\ v \notin p.gone
    BY <1>5, Adding DEF Reads, WellFormed
  <2>2. Added(p, v) > 0
    BY <1>1, <2>1, CappedIn
  <2>3. LineAfter(p, v, rows) = Added(p, v)
    BY <1>1, <1>2, <1>5, <2>1, <2>2 DEF LineAfter
  <2>4. AskedAfter(p, v, rows, guestLines) = Capped(rows[v] + p.quantity)
    BY <1>5 DEF AskedAfter
  <2> QED
    BY <2>1, <2>3, <2>4
<1>6. CASE p.op = "merge"
  <2>1. p.seen[v] = rows[v] /\ v \notin p.gone /\ p.folded[v] = guestLines[v]
    BY <1>6 DEF Reads
  <2>2. AskedAfter(p, v, rows, guestLines) = Capped(rows[v] + guestLines[v])
    BY <1>6 DEF AskedAfter
  <2>3. CASE guestLines[v] > 0
    <3>1. Added(p, v) = Capped(rows[v] + guestLines[v])
      BY <1>6, <2>1, <2>3, Adding
    <3>2. Added(p, v) > 0
      BY <1>1, <2>3, <3>1, CappedIn
    <3>3. LineAfter(p, v, rows) = Added(p, v)
      BY <1>1, <1>2, <1>6, <2>1, <3>2 DEF LineAfter
    <3> QED
      BY <2>2, <3>1, <3>3
  <2>4. CASE guestLines[v] = 0
    <3>1. Added(p, v) = 0
      BY <1>6, <2>1, <2>4, Adding
    <3>2. LineAfter(p, v, rows) = rows[v]
      BY <1>6, <3>1 DEF LineAfter
    <3>3. Capped(rows[v] + guestLines[v]) = rows[v]
      BY <1>1, <2>4, CappedIn
    <3> QED
      BY <2>2, <3>2, <3>3
  <2> QED
    BY <1>1, <2>3, <2>4
<1>7. CASE p.op \notin {"clear", "merge"} /\ ~(p.op \in {"set", "add"} /\ v = p.variant)
  <2>1. Added(p, v) = 0
    BY <1>7, Adding
  <2> QED
    BY <1>7, <2>1 DEF LineAfter, AskedAfter
<1> QED
  BY <1>1, <1>3, <1>4, <1>5, <1>6, <1>7 DEF Operations

\* The rows a request writes.
LEMMA Statuses ==
  ASSUME NEW p \in TabState, NEW h, NEW row \in CartRow
  PROVE  /\ StatusAfter(p, h, row) \in CartRow
         /\ h \notin {p.guest, p.retires} /\ ~(h = p.cart /\ p.op = "checkout") => StatusAfter(p, h, row).status = row.status
         /\ h \notin {p.guest, p.retires} /\ h = p.cart /\ p.op = "checkout" => StatusAfter(p, h, row).status = "CONVERTED"
         /\ row.status # "ACTIVE" => StatusAfter(p, h, row).status # "ACTIVE"
<1>1. /\ [row EXCEPT !.status = "MERGED"] \in CartRow /\ [row EXCEPT !.status = "EXPIRED"] \in CartRow
      /\ [row EXCEPT !.status = "CONVERTED"] \in CartRow /\ [row EXCEPT !.expired = FALSE] \in CartRow
      /\ [row EXCEPT !.status = "MERGED"].status = "MERGED" /\ [row EXCEPT !.status = "EXPIRED"].status = "EXPIRED"
      /\ [row EXCEPT !.status = "CONVERTED"].status = "CONVERTED" /\ [row EXCEPT !.expired = FALSE].status = row.status
  BY DEF CartRow, CartStatus
<1>2. CASE h = p.guest
  BY <1>1, <1>2 DEF StatusAfter
<1>3. CASE h # p.guest /\ h = p.retires
  BY <1>1, <1>3 DEF StatusAfter
<1>4. CASE h \notin {p.guest, p.retires} /\ h = p.cart /\ p.op = "checkout"
  BY <1>1, <1>4 DEF StatusAfter
<1>5. CASE h \notin {p.guest, p.retires} /\ ~(h = p.cart /\ p.op = "checkout")
  BY <1>1, <1>5 DEF StatusAfter
<1> QED
  BY <1>2, <1>3, <1>4, <1>5

\* A request that others overtake keeps all it has read.
Grown(q, g, o) == [q EXCEPT !.gone = @ \union g, !.overtaken = @ \/ o]

LEMMA Grows ==
  ASSUME NEW q \in TabState, NEW g \in SUBSET Variants, NEW o \in BOOLEAN, NEW r, r = Grown(q, g, o)
  PROVE  /\ r \in TabState /\ r.op = q.op /\ r.cart = q.cart /\ r.retires = q.retires /\ r.guest = q.guest
         /\ r.variant = q.variant /\ r.quantity = q.quantity /\ r.seen = q.seen /\ r.folded = q.folded
         /\ r.gone = q.gone \union g /\ r.overtaken = (q.overtaken \/ o)
<1> DEFINE s == [q EXCEPT !.gone = q.gone \union g]
<1>1. /\ s \in TabState /\ s.op = q.op /\ s.cart = q.cart /\ s.retires = q.retires /\ s.guest = q.guest
      /\ s.variant = q.variant /\ s.quantity = q.quantity /\ s.seen = q.seen /\ s.folded = q.folded
      /\ s.gone = q.gone \union g /\ s.overtaken = q.overtaken
  BY DEF TabState
<1>2. r = [s EXCEPT !.overtaken = q.overtaken \/ o]
  BY Zenon DEF Grown
<1> HIDE DEF s
<1>3. q.overtaken \in BOOLEAN /\ (q.overtaken \/ o) \in BOOLEAN
  BY DEF TabState
<1>4. /\ r \in TabState /\ r.op = s.op /\ r.cart = s.cart /\ r.retires = s.retires /\ r.guest = s.guest
      /\ r.variant = s.variant /\ r.quantity = s.quantity /\ r.seen = s.seen /\ r.folded = s.folded
      /\ r.gone = s.gone /\ r.overtaken = (q.overtaken \/ o)
  BY <1>1, <1>2, <1>3 DEF TabState
<1> QED
  BY <1>1, <1>4

\* The active cart of a shopper, if there is one.
LEMMA Resolved ==
  ASSUME NEW s \in Shoppers
  PROVE  /\ ActiveCart(s) \in Carts \union {NoCart}
         /\ ActiveCart(s) # NoCart => cart[ActiveCart(s)] # Unopened /\ cart[ActiveCart(s)].status = "ACTIVE"
         /\ Resolve(s).cart \in {NoCart, ActiveCart(s)} /\ Resolve(s).retires \in {NoCart, ActiveCart(s)}
         /\ Resolve(s).cart # NoCart => Resolve(s).retires = NoCart
<1>1. ActiveCarts(s) # {} => ActiveCart(s) \in ActiveCarts(s)
  BY DEF ActiveCart
<1>2. ActiveCarts(s) = {} => ActiveCart(s) = NoCart
  BY DEF ActiveCart
<1> QED
  BY <1>1, <1>2 DEF ActiveCarts, Resolve

LEMMA CheckoutsCount ==
  ASSUME NEW k
  PROVE  IsFiniteSet(CheckingOut(k)) /\ Cardinality(CheckingOut(k)) \in Nat
<1>1. CheckingOut(k) \subseteq Tabs /\ IsFiniteSet(Tabs)
  BY CartAssumption DEF CheckingOut
<1> QED
  BY <1>1, FS_Subset, FS_CardinalityType

\* A step that neither orders a cart nor begins a checkout of it nor opens it.
LEMMA SettledKept ==
  ASSUME CartInv, NEW k \in Carts, orders'[k] = orders[k], CheckingOut(k)' \subseteq CheckingOut(k),
         orders[k].count > 0 => cart'[k].status # "ACTIVE"
  PROVE  Settled(k)'
<1>1. orders[k].count \in Nat /\ orders[k].rivals \subseteq Tabs /\ Settled(k)
  BY DEF CartInv, CartTypeOK
<1>2. IsFiniteSet(orders[k].rivals) /\ Cardinality(orders[k].rivals) \in Nat
  BY <1>1, CartAssumption, FS_Subset, FS_CardinalityType
<1>3. /\ Cardinality(CheckingOut(k)) \in Nat /\ Cardinality(CheckingOut(k)') \in Nat
      /\ Cardinality(CheckingOut(k)') <= Cardinality(CheckingOut(k))
  BY CheckoutsCount, FS_Subset, FS_CardinalityType
<1> QED
  BY <1>1, <1>2, <1>3 DEF Settled

\* A request begins: what it reads is what is there.
LEMMA EnteringKeepsCarts ==
  ASSUME CartInv, NEW t \in Tabs, NEW s \in Shoppers, NEW op \in Operations, NEW v \in Variants \union {NoCart},
         NEW n \in Nat, NEW guest \in {NoCart, ActiveCart(Guest)}, Enters(t, s, op, v, n, guest),
         Resolve(s).cart = NoCart => op \notin {"set", "checkout"},
         guest # NoCart <=> op = "merge",
         op \in {"set", "add"} => v \in Variants,
         op = "set" => LinesOf(Resolve(s).cart)[v] > 0,
         op = "add" => n > 0
  PROVE  CartInv'
<1> DEFINE k == Resolve(s).cart
           request == [op |-> op, shopper |-> s, cart |-> k, retires |-> Resolve(s).retires, guest |-> guest,
                       variant |-> v, quantity |-> n, seen |-> LinesOf(k), folded |-> LinesOf(guest),
                       gone |-> {}, overtaken |-> FALSE]
<1>1. /\ tab' = [tab EXCEPT ![t] = request] /\ visits' = visits + 1 /\ visits < MaxCartRequests
      /\ UNCHANGED <<cart, items, orders, asked, mixed>>
  BY DEF Enters
<1>2. CartTypeOK /\ Guest \in Shoppers
  BY DEF CartInv, Shoppers
<1>3. /\ k \in Carts \union {NoCart} /\ Resolve(s).retires \in Carts \union {NoCart} /\ guest \in Carts \union {NoCart}
      /\ k # NoCart => Resolve(s).retires = NoCart
      /\ \A h \in {k, Resolve(s).retires, guest} : h # NoCart => cart[h] # Unopened /\ cart[h].status = "ACTIVE"
  BY <1>2, Resolved
<1>4. LinesOf(k) \in CartLines /\ LinesOf(guest) \in CartLines
  BY <1>2, <1>3, NothingIn DEF LinesOf, CartTypeOK
<1> HIDE DEF k
<1>5. PICK q \in TabState :
        /\ tab' = [tab EXCEPT ![t] = q]
        /\ q.op = op /\ q.cart = k /\ q.retires = Resolve(s).retires /\ q.guest = guest /\ q.variant = v
        /\ q.quantity = n /\ q.seen = LinesOf(k) /\ q.folded = LinesOf(guest) /\ q.gone = {} /\ q.overtaken = FALSE
  <2>1. request \in TabState
    BY <1>3, <1>4 DEF TabState
  <2>2. /\ request.op = op /\ request.cart = k /\ request.retires = Resolve(s).retires /\ request.guest = guest
        /\ request.variant = v /\ request.quantity = n /\ request.seen = LinesOf(k) /\ request.folded = LinesOf(guest)
        /\ request.gone = {} /\ request.overtaken = FALSE
    OBVIOUS
  <2> HIDE DEF request
  <2> QED
    BY <1>1, <2>1, <2>2
<1>6. WellRead(q)
  <2>1. WellFormed(q)
    BY <1>3, <1>5 DEF WellFormed, LinesOf, k
  <2>2. \A h \in Held(q) : cart[h] # Unopened /\ cart[h].status = "ACTIVE"
    BY <1>3, <1>5, NoCartIsNone DEF Held
  <2>3. /\ q.cart # NoCart => \A x \in Variants : q.seen[x] = items[q.cart][x] /\ x \notin q.gone
        /\ q.guest # NoCart => q.folded = items[q.guest]
    BY <1>5 DEF LinesOf
  <2> QED
    BY <2>1, <2>2, <2>3 DEF WellRead, Fresh
<1>7. CartTypeOK'
  <2>1. visits' \in 0..MaxCartRequests
    BY <1>1, <1>2, NoCartIsNone DEF CartTypeOK
  <2>2. tab' \in [Tabs -> TabState \union {Closed}]
    BY <1>2, <1>5 DEF CartTypeOK
  <2> QED
    BY <1>1, <1>2, <2>1, <2>2 DEF CartTypeOK
<1>8. ASSUME NEW u \in Tabs, tab'[u] # Closed PROVE WellRead(tab[u])'
  <2>1. CASE u = t
    <3>1. tab'[u] = q
      BY <1>2, <1>5, <2>1 DEF CartTypeOK
    <3> QED
      BY <1>1, <1>6, <3>1 DEF WellRead, WellFormed, Held, Fresh
  <2>2. CASE u # t
    <3>1. tab'[u] = tab[u]
      BY <1>2, <1>5, <2>2 DEF CartTypeOK
    <3> QED
      BY <1>1, <1>8, <3>1 DEF CartInv, WellRead, WellFormed, Held, Fresh
  <2> QED
    BY <2>1, <2>2
<1>9. \A h \in Carts : cart'[h] = Unopened => Untouched(h)'
  BY <1>1 DEF CartInv, Untouched
<1>10. CartHoldsWhatWasAsked' /\ OrderedAsHeld'
  BY <1>1 DEF CartInv, CartHoldsWhatWasAsked, OrderedAsHeld
<1>11. ASSUME NEW h \in Carts PROVE Settled(h)'
  <2>1. Settled(h)
    BY DEF CartInv
  <2>2. \A u \in Tabs : u # t => tab'[u] = tab[u]
    BY <1>2, <1>5 DEF CartTypeOK
  <2>3. CASE orders[h].count > 0
    <3>1. h # k
      BY <1>3, <2>1, <2>3, NoCartIsNone DEF Settled
    <3>2. tab'[t] = q
      BY <1>2, <1>5 DEF CartTypeOK
    <3>3. CheckingOut(h)' \subseteq CheckingOut(h)
      BY <1>5, <2>2, <3>1, <3>2 DEF CheckingOut
    <3> QED
      BY <1>1, <2>1, <2>3, <3>3, SettledKept DEF Settled
  <2>4. CASE ~(orders[h].count > 0)
    BY <1>1, <2>4 DEF Settled
  <2> QED
    BY <2>3, <2>4
<1> QED
  BY <1>7, <1>8, <1>9, <1>10, <1>11 DEF CartInv

\* The requests, a rollback and the clock.
LEMMA RequestsKeepCarts ==
  ASSUME CartInv,
         \/ \E t \in Tabs, s \in Shoppers : CartRequest(t, s)
         \/ \E t \in Tabs : BeginMerge(t) \/ BeginCheckout(t) \/ RollBack(t)
         \/ \E k \in Carts : CartTimePasses(k)
  PROVE  CartInv'
<1>0. /\ CartTypeOK /\ Customer \in Shoppers /\ Guest \in Shoppers
      /\ NoCart \in Variants \union {NoCart} /\ NoCart \in {NoCart, ActiveCart(Guest)} /\ 0 \in Nat
      /\ {"view", "add", "set", "clear", "merge", "checkout"} \subseteq Operations
  BY DEF CartInv, Shoppers, Operations
<1>1. ASSUME NEW t \in Tabs, NEW s \in Shoppers, BeginView(t, s) \/ BeginClear(t, s) PROVE CartInv'
  <2>1. PICK op \in {"view", "clear"} : Enters(t, s, op, NoCart, 0, NoCart)
    BY <1>1 DEF BeginView, BeginClear
  <2>2. op \in Operations /\ op \notin {"set", "checkout", "merge", "add"}
    BY <1>0, <2>1
  <2> QED
    BY <1>0, <2>1, <2>2, EnteringKeepsCarts
<1>2. ASSUME NEW t \in Tabs, NEW s \in Shoppers, BeginAdd(t, s) PROVE CartInv'
  <2>1. PICK v \in Variants, n \in Quantities \ {0} : Enters(t, s, "add", v, n, NoCart)
    BY <1>2 DEF BeginAdd
  <2>2. n \in Nat /\ n > 0 /\ v \in Variants \union {NoCart}
    BY <2>1, NoCartIsNone DEF Quantities
  <2>3. "add" \in Operations /\ "add" \notin {"set", "checkout", "merge"}
    BY <1>0
  <2> QED
    BY <1>0, <2>1, <2>2, <2>3, EnteringKeepsCarts
<1>3. ASSUME NEW t \in Tabs, NEW s \in Shoppers, BeginSet(t, s) PROVE CartInv'
  <2>1. PICK v \in Variants, n \in Quantities : LinesOf(Resolve(s).cart)[v] > 0 /\ Enters(t, s, "set", v, n, NoCart)
    BY <1>3 DEF BeginSet
  <2>2. n \in Nat /\ v \in Variants \union {NoCart}
    BY <2>1, NoCartIsNone DEF Quantities
  <2>3. Resolve(s).cart # NoCart
    BY <2>1, NothingIn DEF LinesOf
  <2>4. "set" \in Operations /\ "set" \notin {"add", "merge"}
    BY <1>0
  <2> QED
    BY <1>0, <2>1, <2>2, <2>3, <2>4, EnteringKeepsCarts
<1>4. ASSUME NEW t \in Tabs, BeginMerge(t) PROVE CartInv'
  <2>1. ActiveCart(Guest) # NoCart /\ Enters(t, Customer, "merge", NoCart, 0, ActiveCart(Guest))
    BY <1>4 DEF BeginMerge
  <2> DEFINE guest == ActiveCart(Guest)
  <2>2. guest \in {NoCart, ActiveCart(Guest)} /\ guest # NoCart /\ Enters(t, Customer, "merge", NoCart, 0, guest)
    BY <2>1
  <2>3. "merge" \in Operations /\ "merge" \notin {"set", "checkout", "add"}
    BY <1>0
  <2> HIDE DEF guest
  <2> QED
    BY <1>0, <2>2, <2>3, EnteringKeepsCarts
<1>5. ASSUME NEW t \in Tabs, BeginCheckout(t) PROVE CartInv'
  <2>1. LinesOf(Resolve(Customer).cart) # Empty /\ Enters(t, Customer, "checkout", NoCart, 0, NoCart)
    BY <1>5 DEF BeginCheckout
  <2>2. Resolve(Customer).cart # NoCart
    BY <2>1 DEF LinesOf
  <2>3. "checkout" \in Operations /\ "checkout" \notin {"set", "add", "merge"}
    BY <1>0
  <2> QED
    BY <1>0, <2>1, <2>2, <2>3, EnteringKeepsCarts
<1>6. ASSUME NEW t \in Tabs, RollBack(t) PROVE CartInv'
  <2>1. tab' = [tab EXCEPT ![t] = Closed] /\ UNCHANGED <<cart, items, orders, visits, asked, mixed>>
    BY <1>6 DEF RollBack
  <2>2. CartTypeOK'
    BY <1>0, <2>1 DEF CartTypeOK
  <2>3. ASSUME NEW u \in Tabs, tab'[u] # Closed PROVE WellRead(tab[u])'
    <3>1. tab'[u] = tab[u]
      BY <1>0, <2>1, <2>3 DEF CartTypeOK
    <3> QED
      BY <2>1, <2>3, <3>1 DEF CartInv, WellRead, WellFormed, Held, Fresh
  <2>4. \A h \in Carts : cart'[h] = Unopened => Untouched(h)'
    BY <2>1 DEF CartInv, Untouched
  <2>5. CartHoldsWhatWasAsked' /\ OrderedAsHeld'
    BY <2>1 DEF CartInv, CartHoldsWhatWasAsked, OrderedAsHeld
  <2>6. ASSUME NEW h \in Carts PROVE Settled(h)'
    <3>1. \A u \in Tabs : tab'[u] # Closed => tab'[u] = tab[u]
      BY <1>0, <2>1 DEF CartTypeOK
    <3>2. CheckingOut(h)' \subseteq CheckingOut(h)
      BY <3>1 DEF CheckingOut
    <3> QED
      BY <2>1, <3>2, SettledKept DEF CartInv, Settled
  <2> QED
    BY <2>2, <2>3, <2>4, <2>5, <2>6 DEF CartInv
<1>7. ASSUME NEW k \in Carts, CartTimePasses(k) PROVE CartInv'
  <2>1. /\ cart' = [cart EXCEPT ![k].expired = TRUE] /\ UNCHANGED <<items, tab, orders, visits, asked, mixed>>
        /\ cart[k] # Unopened
    BY <1>7 DEF CartTimePasses, ActiveCarts
  <2>2. cart[k] \in CartRow
    BY <1>0, <2>1 DEF CartTypeOK
  <2>3. [cart[k] EXCEPT !.expired = TRUE] \in CartRow /\ [cart[k] EXCEPT !.expired = TRUE].status = cart[k].status
    BY <2>2 DEF CartRow
  <2>4. /\ cart' \in [Carts -> CartRow \union {Unopened}]
        /\ \A h \in Carts : /\ cart'[h] = Unopened <=> cart[h] = Unopened
                            /\ cart[h] # Unopened => cart'[h].status = cart[h].status
    <3>1. [cart[k] EXCEPT !.expired = TRUE] # Unopened
      BY <2>3, OpenedIsRow
    <3> QED
      BY <1>0, <2>1, <2>3, <3>1 DEF CartTypeOK
  <2>5. CartTypeOK'
    BY <1>0, <2>1, <2>4 DEF CartTypeOK
  <2>6. ASSUME NEW u \in Tabs, tab[u] # Closed PROVE WellRead(tab[u])'
    <3>1. WellRead(tab[u]) /\ Held(tab[u]) \subseteq Carts
      BY <2>6 DEF CartInv, Held
    <3> QED
      BY <2>1, <2>4, <3>1 DEF WellRead, WellFormed, Held, Fresh
  <2>7. \A h \in Carts : cart'[h] = Unopened => Untouched(h)'
    BY <2>1, <2>4 DEF CartInv, Untouched
  <2>8. CartHoldsWhatWasAsked'
    BY <2>1 DEF CartInv, CartHoldsWhatWasAsked
  <2>9. OrderedAsHeld'
    <3> SUFFICES ASSUME NEW h \in Carts \ mixed
                 PROVE  /\ orders[h].count <= 1
                        /\ orders[h].count = 1 => cart'[h].status = "CONVERTED" /\ orders[h].lines = items[h]
      BY <2>1 DEF OrderedAsHeld
    <3>1. /\ orders[h].count <= 1
          /\ orders[h].count = 1 => cart[h].status = "CONVERTED" /\ orders[h].lines = items[h]
      BY DEF CartInv, OrderedAsHeld
    <3>2. cart[h] = Unopened => orders[h].count = 0
      BY DEF CartInv, Untouched
    <3> QED
      BY <2>4, <3>1, <3>2
  <2>10. ASSUME NEW h \in Carts PROVE Settled(h)'
    <3>1. CheckingOut(h)' = CheckingOut(h) /\ Settled(h)
      BY <2>1 DEF CheckingOut, CartInv
    <3>2. orders[h].count > 0 => cart[h] # Unopened
      BY DEF CartInv, Untouched
    <3> QED
      BY <2>1, <2>4, <3>1, <3>2, SettledKept DEF Settled
  <2> QED
    BY <2>1, <2>5, <2>6, <2>7, <2>8, <2>9, <2>10 DEF CartInv
<1> QED
  BY <1>1, <1>2, <1>3, <1>4, <1>5, <1>6, <1>7 DEF CartRequest

\* A request commits.
LEMMA CommittingKeepsCarts ==
  ASSUME CartInv, NEW t \in Tabs, Commit(t)
  PROVE  CartInv'
<1>0. CartTypeOK /\ tab[t] # Closed /\ tab[t] \in TabState
  BY DEF CartInv, CartTypeOK, Commit
<1> DEFINE p == tab[t]
<1>1. p \in TabState /\ p # Closed
  BY <1>0
<1> DEFINE opened(k) == IF p.cart # NoCart THEN cart
                        ELSE [cart EXCEPT ![k] = [owner |-> p.shopper, status |-> "ACTIVE", expired |-> FALSE]]
           statuses(k) == [h \in Carts |-> IF opened(k)[h] = Unopened THEN Unopened ELSE StatusAfter(p, h, opened(k)[h])]
           lines(k) == [v \in Variants |-> LineAfter(p, v, items[k])]
<1>2. PICK k \in Carts :
        /\ IF p.cart # NoCart THEN k = p.cart ELSE k \in NextCart
        /\ cart' = statuses(k)
        /\ items' = [items EXCEPT ![k] = lines(k)]
        /\ tab' = Others(t, k, lines(k), statuses(k))
        /\ asked' = [asked EXCEPT ![k] = [v \in Variants |-> AskedAfter(p, v, asked[k], GuestAsked(p))]]
        /\ orders' = IF p.op # "checkout" THEN orders
                     ELSE [orders EXCEPT ![k] =
                            [count |-> @.count + 1, lines |-> p.seen,
                             rivals |-> IF @.count = 0 THEN CheckingOut(k) ELSE @.rivals]]
        /\ mixed' = IF p.overtaken \/ p.guest \in mixed THEN mixed \union ({k, p.retires, p.guest} \intersect Carts) ELSE mixed
  BY Zenon DEF Commit
<1> HIDE DEF p
<1>3. /\ visits' = visits
      /\ mixed' = IF p.overtaken \/ p.guest \in mixed THEN mixed \union ({k, p.retires, p.guest} \intersect Carts) ELSE mixed
      /\ IF p.cart # NoCart THEN k = p.cart ELSE k \in NextCart
  BY <1>2 DEF Commit
<1>4. WellRead(p) /\ WellFormed(p) /\ p.cart \in Carts \union {NoCart} /\ p.guest \in Carts \union {NoCart}
      /\ p.retires \in Carts \union {NoCart} /\ p.seen \in CartLines /\ p.shopper \in Shoppers
  BY <1>0, <1>1 DEF CartInv, WellRead, TabState, p
<1>5. p.cart = NoCart => cart[k] = Unopened /\ Untouched(k)
  BY <1>2 DEF NextCart, CartInv
\* What is written.
<1>6. \A h \in Carts : /\ opened(k)[h] \in CartRow \union {Unopened}
                       /\ h # k => opened(k)[h] = cart[h]
                       /\ cart[h] # Unopened => opened(k)[h] = cart[h]
                       /\ opened(k)[k] # Unopened
  <2>1. CASE p.cart # NoCart
    <3>1. opened(k) = cart /\ cart[k] # Unopened
      BY <1>2, <1>4, <2>1 DEF WellRead, Held
    <3> QED
      BY <1>0, <3>1 DEF CartTypeOK
  <2>2. CASE p.cart = NoCart
    <3> DEFINE row == [owner |-> p.shopper, status |-> "ACTIVE", expired |-> FALSE]
    <3>1. row \in CartRow
      BY <1>4 DEF CartRow, CartStatus
    <3>2. row # Unopened
      BY <3>1, OpenedIsRow
    <3>3. opened(k) = [cart EXCEPT ![k] = row]
      BY <2>2
    <3> HIDE DEF row, opened
    <3> QED
      BY <1>0, <1>5, <2>2, <3>1, <3>2, <3>3 DEF CartTypeOK
  <2> QED
    BY <2>1, <2>2
<1> DEFINE op == opened(k)
<1>7. cart' = [h \in Carts |-> IF op[h] = Unopened THEN Unopened ELSE StatusAfter(p, h, op[h])]
  BY <1>2
<1> DEFINE st == statuses(k)
           ls == lines(k)
<1>8. cart' = st /\ items' = [items EXCEPT ![k] = ls] /\ tab' = Others(t, k, ls, st)
  BY <1>2
<1>9. ls = [v \in Variants |-> LineAfter(p, v, items[k])]
  OBVIOUS
<1>10. \A h \in Carts : /\ op[h] \in CartRow \union {Unopened} /\ (h # k => op[h] = cart[h])
                        /\ (cart[h] # Unopened => op[h] = cart[h]) /\ op[k] # Unopened
  BY <1>6
<1> HIDE DEF op, st, ls
<1>11. /\ st \in [Carts -> CartRow \union {Unopened}]
       /\ \A h \in Carts : /\ st[h] = Unopened <=> op[h] = Unopened
                           /\ cart[h] # Unopened => st[h] # Unopened
                           /\ st[k] # Unopened
  <2>1. ASSUME NEW h \in Carts, op[h] # Unopened
        PROVE  StatusAfter(p, h, op[h]) \in CartRow /\ StatusAfter(p, h, op[h]) # Unopened
    <3>1. op[h] \in CartRow
      BY <1>10, <2>1
    <3>2. StatusAfter(p, h, op[h]) \in CartRow
      BY <1>1, <3>1, Statuses
    <3> QED
      BY <3>2, OpenedIsRow
  <2>2. st = [h \in Carts |-> IF op[h] = Unopened THEN Unopened ELSE StatusAfter(p, h, op[h])]
    BY <1>7, <1>8
  <2> QED
    BY <1>10, <2>1, <2>2
<1>12. ASSUME NEW h \in Carts, cart[h] # Unopened, h \notin {p.guest, p.retires}, ~(h = p.cart /\ p.op = "checkout")
       PROVE  st[h].status = cart[h].status
  <2>1. op[h] = cart[h] /\ cart[h] \in CartRow
    BY <1>10, <1>12
  <2>2. st[h] = StatusAfter(p, h, cart[h])
    BY <1>7, <1>8, <1>12, <2>1
  <2> QED
    BY <1>1, <1>12, <2>1, <2>2, Statuses
<1>13. asked[k] \in CartLines /\ items[k] \in CartLines /\ GuestAsked(p) \in CartLines
  BY <1>0, <1>4, NothingIn DEF CartTypeOK, GuestAsked
<1> DEFINE wanted == [v \in Variants |-> AskedAfter(p, v, asked[k], GuestAsked(p))]
<1>14. ls \in CartLines /\ wanted \in CartLines
  <2>1. \A v \in Variants : LineAfter(p, v, items[k]) \in Quantities /\ AskedAfter(p, v, asked[k], GuestAsked(p)) \in Quantities
    BY <1>1, <1>13, LinesStayIn
  <2> QED
    BY <1>9, <2>1 DEF CartLines
<1>15. asked' = [asked EXCEPT ![k] = wanted]
  BY <1>2
<1> HIDE DEF wanted
\* The other requests.
<1>16. ASSUME NEW u \in Tabs
       PROVE  \/ tab'[u] = Closed
              \/ \E g \in SUBSET Variants, o \in BOOLEAN :
                   /\ tab[u] \in TabState /\ u # t
                   /\ tab'[u] = Grown(tab[u], g, o)
                   /\ g = IF tab[u].cart = k THEN {v \in Variants : items[k][v] > 0 /\ ls[v] = 0} ELSE {}
                   /\ o <=> Overtaken(tab[u], k, ls, st)
  <2>1. CASE u = t \/ tab[u] = Closed
    BY <1>8, <2>1 DEF Others
  <2>2. CASE u # t /\ tab[u] # Closed
    <3> DEFINE g == IF tab[u].cart = k THEN {v \in Variants : items[k][v] > 0 /\ ls[v] = 0} ELSE {}
               o == Overtaken(tab[u], k, ls, st)
    <3>1. tab'[u] = Grown(tab[u], g, o)
      BY <1>8, <2>2 DEF Others, Grown
    <3>2. g \in SUBSET Variants /\ o \in BOOLEAN /\ tab[u] \in TabState
      BY <1>0, <2>2 DEF Overtaken, CartTypeOK
    <3> HIDE DEF g
    <3> QED
      BY <2>2, <3>1, <3>2 DEF g
  <2> QED
    BY <2>1, <2>2
<1>17. ASSUME NEW u \in Tabs, tab'[u] # Closed PROVE tab'[u] \in TabState /\ WellRead(tab[u])'
  <2>1. PICK g \in SUBSET Variants, o \in BOOLEAN :
          /\ tab[u] \in TabState /\ tab'[u] = Grown(tab[u], g, o)
          /\ g = IF tab[u].cart = k THEN {v \in Variants : items[k][v] > 0 /\ ls[v] = 0} ELSE {}
          /\ o <=> Overtaken(tab[u], k, ls, st)
    BY <1>16, <1>17
  <2>2. PICK q \in TabState : q = tab[u]
    BY <2>1
  <2>3. PICK r : r = tab'[u]
    OBVIOUS
  <2>4. /\ r \in TabState /\ r.op = q.op /\ r.cart = q.cart /\ r.retires = q.retires /\ r.guest = q.guest
        /\ r.variant = q.variant /\ r.quantity = q.quantity /\ r.seen = q.seen /\ r.folded = q.folded
        /\ r.gone = q.gone \union g /\ r.overtaken = (q.overtaken \/ o)
    <3>1. r = Grown(q, g, o)
      BY <2>1, <2>2, <2>3
    <3> QED
      BY <2>1, <2>2, <3>1, Grows
  <2>5. WellRead(q)
    BY <2>2, RequestIsOpen DEF CartInv
  <2>6. WellFormed(r)
    BY <2>1, <2>2, <2>4, <2>5, NoCartIsNone DEF WellRead, WellFormed
  <2>7. Held(r) = Held(q) /\ \A h \in Held(r) : st[h] # Unopened
    BY <1>11, <2>4, <2>5 DEF WellRead, Held
  <2>8. ASSUME ~r.overtaken
        PROVE  /\ \A h \in Held(r) : st[h].status = "ACTIVE"
               /\ r.cart # NoCart => \A v \in Variants : Reads(r, v) => r.seen[v] = items'[r.cart][v] /\ v \notin r.gone
               /\ r.guest # NoCart => r.folded = items'[r.guest]
    <3>1. ~q.overtaken /\ ~Overtaken(q, k, ls, st) /\ Fresh(q)
      BY <2>1, <2>2, <2>4, <2>5, <2>8 DEF WellRead
    <3>2. /\ \A h \in Held(q) : cart[h] # Unopened => st[h].status = cart[h].status
          /\ k \in Held(q) => \A v \in Variants : Reads(q, v) => ls[v] = items[k][v]
      BY <3>1 DEF Overtaken, Held, Reads
    <3>3. \A h \in Held(r) : st[h].status = "ACTIVE"
      BY <2>5, <2>7, <3>1, <3>2 DEF WellRead, Fresh
    <3>4. ASSUME q.cart # NoCart, NEW v \in Variants, Reads(q, v)
          PROVE  q.seen[v] = items'[q.cart][v] /\ v \notin q.gone \union g
      <4>1. q.cart \in Carts /\ q.cart \in Held(q) /\ q.seen[v] = items[q.cart][v] /\ v \notin q.gone
        BY <3>1, <3>4 DEF Held, Fresh, TabState
      <4>2. CASE q.cart # k
        BY <1>0, <1>8, <2>1, <2>2, <4>1, <4>2 DEF CartTypeOK
      <4>3. CASE q.cart = k
        <5>1. ls[v] = items[k][v] /\ items'[k] = ls
          BY <1>0, <1>8, <3>2, <3>4, <4>1, <4>3 DEF CartTypeOK
        <5>2. v \notin g
          <6>1. ~(items[k][v] > 0 /\ ls[v] = 0)
            BY <5>1
          <6> QED
            BY <2>1, <6>1
        <5> QED
          BY <4>1, <4>3, <5>1, <5>2
      <4> QED
        BY <4>2, <4>3
    <3>5. ASSUME q.guest # NoCart PROVE q.folded = items'[q.guest]
      <4>1. q.guest \in Carts /\ q.guest \in Held(q) /\ q.folded = items[q.guest] /\ q.op = "merge"
        BY <2>5, <3>1, <3>5 DEF Held, Fresh, TabState, WellRead, WellFormed
      <4>2. CASE q.guest # k
        BY <1>0, <1>8, <4>1, <4>2 DEF CartTypeOK
      <4>3. CASE q.guest = k
        <5>1. \A v \in Variants : ls[v] = items[k][v]
          BY <3>2, <4>1, <4>3 DEF Reads
        <5>2. ls = items[k]
          BY <1>13, <1>14, <5>1 DEF CartLines
        <5> QED
          BY <1>0, <1>8, <4>1, <4>3, <5>2 DEF CartTypeOK
      <4> QED
        BY <4>2, <4>3
    <3>6. r.cart # NoCart => \A v \in Variants : Reads(r, v) => r.seen[v] = items'[r.cart][v] /\ v \notin r.gone
      BY <2>4, <3>4 DEF Reads
    <3>7. r.guest # NoCart => r.folded = items'[r.guest]
      BY <2>4, <3>5
    <3> QED
      BY <3>3, <3>6, <3>7
  <2>9. WellRead(r)'
    BY <1>8, <2>6, <2>7, <2>8 DEF WellRead, WellFormed, Held, Fresh, Reads
  <2> QED
    BY <2>3, <2>4, <2>9 DEF WellRead, WellFormed, Held, Fresh, Reads
\* The carts.
<1>18. CartTypeOK'
  <2>1. tab' \in [Tabs -> TabState \union {Closed}]
    <3>1. \A u \in Tabs : tab'[u] \in TabState \union {Closed}
      BY <1>17
    <3>2. tab' = [u \in Tabs |-> tab'[u]]
      BY <1>8 DEF Others
    <3> QED
      BY <3>1, <3>2
  <2>2. items' \in [Carts -> CartLines] /\ asked' \in [Carts -> CartLines]
    BY <1>0, <1>8, <1>14, <1>15 DEF CartTypeOK
  <2>3. orders' \in [Carts -> [count : Nat, lines : CartLines, rivals : SUBSET Tabs]]
    <3>1. CASE p.op # "checkout"
      BY <1>0, <1>2, <3>1 DEF CartTypeOK
    <3>2. CASE p.op = "checkout"
      <4> DEFINE raced == IF orders[k].count = 0 THEN CheckingOut(k) ELSE orders[k].rivals
      <4>1. orders' = [orders EXCEPT ![k] = [count |-> orders[k].count + 1, lines |-> p.seen, rivals |-> raced]]
        BY <1>2, <3>2
      <4>2. orders[k].count + 1 \in Nat /\ raced \in SUBSET Tabs
        BY <1>0 DEF CartTypeOK, CheckingOut
      <4> HIDE DEF raced
      <4> QED
        BY <1>0, <1>4, <4>1, <4>2 DEF CartTypeOK
    <3> QED
      BY <3>1, <3>2
  <2>4. mixed' \in SUBSET Carts
    BY <1>0, <1>2 DEF CartTypeOK
  <2> QED
    BY <1>0, <1>3, <1>8, <1>11, <2>1, <2>2, <2>3, <2>4 DEF CartTypeOK
<1>19. ASSUME NEW h \in Carts, h # k
       PROVE  items'[h] = items[h] /\ asked'[h] = asked[h] /\ orders'[h] = orders[h]
  BY <1>0, <1>2, <1>8, <1>15, <1>19 DEF CartTypeOK
<1>20. items'[k] = ls /\ asked'[k] = wanted /\ (p.op # "checkout" => orders'[k] = orders[k])
  BY <1>0, <1>2, <1>8, <1>15 DEF CartTypeOK
<1>21. ASSUME NEW h \in Carts, cart'[h] = Unopened PROVE Untouched(h)'
  <2>1. h # k /\ cart[h] = Unopened
    BY <1>8, <1>11, <1>21
  <2>2. h \notin {p.guest, p.retires}
    BY <1>4, <2>1 DEF WellRead, Held
  <2>3. Untouched(h)
    BY <2>1 DEF CartInv
  <2> QED
    BY <1>2, <1>19, <2>1, <2>2, <2>3 DEF Untouched
\* A cart whose history is clean is written by requests that nobody overtook.
<1>22. ASSUME NEW h \in Carts \ mixed', h \in {k, p.retires, p.guest, p.cart}
       PROVE  Fresh(p) /\ p.guest \notin mixed /\ h \notin mixed
  <2> HIDE DEF opened, statuses, lines
  <2>1. CASE p.overtaken \/ p.guest \in mixed
    <3>1. mixed' = mixed \union ({k, p.retires, p.guest} \intersect Carts)
      BY <1>3, <2>1
    <3>2. h = p.cart => p.cart = k
      BY <1>3, <1>22, NoCartIsNone
    <3> QED
      BY <1>22, <3>1, <3>2
  <2>2. CASE ~(p.overtaken \/ p.guest \in mixed)
    BY <1>3, <1>4, <1>22, <2>2 DEF WellRead
  <2> QED
    BY <2>1, <2>2
<1>23. ASSUME k \notin mixed'
       PROVE  /\ items[k] = asked[k] /\ ls = wanted /\ orders[k].count = 0
              /\ p.op = "checkout" => ls = p.seen
  <2>1. Fresh(p) /\ p.guest \notin mixed /\ k \notin mixed
    BY <1>22, <1>23
  <2>2. items[k] = asked[k]
    BY <2>1 DEF CartInv, CartHoldsWhatWasAsked
  <2>3. orders[k].count = 0
    <3>1. CASE p.cart = NoCart
      BY <1>5, <3>1 DEF Untouched
    <3>2. CASE p.cart # NoCart
      <4>1. cart[k].status = "ACTIVE"
        BY <1>2, <2>1, <3>2 DEF Fresh, Held
      <4>2. orders[k].count \in Nat /\ orders[k].count <= 1 /\ (orders[k].count = 1 => cart[k].status = "CONVERTED")
        BY <1>0, <2>1 DEF CartInv, OrderedAsHeld, CartTypeOK
      <4> QED
        BY <4>1, <4>2
    <3> QED
      BY <3>1, <3>2
  <2>4. ASSUME NEW v \in Variants, Reads(p, v) PROVE p.seen[v] = items[k][v] /\ v \notin p.gone
    <3>1. CASE p.cart = NoCart
      BY <1>4, <1>5, <3>1 DEF WellFormed, Untouched
    <3>2. CASE p.cart # NoCart
      BY <1>2, <2>1, <2>4, <3>2 DEF Fresh
    <3> QED
      BY <3>1, <3>2
  <2>5. p.op = "merge" => p.folded = GuestAsked(p)
    BY <1>4, <2>1 DEF WellFormed, Fresh, GuestAsked, CartInv, CartHoldsWhatWasAsked
  <2>6. ls = wanted
    <3>1. \A v \in Variants : LineAfter(p, v, items[k]) = AskedAfter(p, v, items[k], GuestAsked(p))
      BY <1>1, <1>4, <1>13, <2>4, <2>5, LinesAreAsked
    <3> QED
      BY <1>9, <2>2, <3>1 DEF wanted
  <2>7. ASSUME p.op = "checkout" PROVE ls = p.seen
    <3>1. ASSUME NEW v \in Variants PROVE LineAfter(p, v, items[k]) = items[k][v]
      <4>1. Added(p, v) = 0
        BY <1>1, <2>7, Adding
      <4> QED
        BY <2>7, <4>1 DEF LineAfter
    <3>2. \A v \in Variants : ls[v] = p.seen[v]
      BY <1>9, <2>4, <2>7, <3>1 DEF Reads
    <3> QED
      BY <1>4, <1>14, <3>2 DEF CartLines
  <2> QED
    BY <2>2, <2>3, <2>6, <2>7
<1>24. CartHoldsWhatWasAsked'
  <2>1. ASSUME NEW h \in Carts, h \notin mixed' PROVE items'[h] = asked'[h]
    <3>1. CASE h = k
      BY <1>20, <1>23, <2>1, <3>1
    <3>2. CASE h # k
      <4>1. h \notin mixed
        BY <1>2, <2>1
      <4> QED
        BY <1>19, <3>2, <4>1 DEF CartInv, CartHoldsWhatWasAsked
    <3> QED
      BY <3>1, <3>2
  <2> QED
    BY <2>1 DEF CartHoldsWhatWasAsked
<1>25. OrderedAsHeld'
  <2>1. ASSUME NEW h \in Carts, h \notin mixed'
        PROVE  /\ orders'[h].count <= 1
               /\ orders'[h].count = 1 => st[h].status = "CONVERTED" /\ orders'[h].lines = items'[h]
    <3>0. h \notin mixed /\ orders[h].count \in Nat /\ orders[h].count <= 1
          /\ (orders[h].count = 1 => cart[h].status = "CONVERTED" /\ orders[h].lines = items[h])
      BY <1>0, <1>2, <2>1 DEF CartInv, OrderedAsHeld, CartTypeOK
    <3>1. CASE h # k /\ h \in Held(p)
      <4>1. cart[h].status = "ACTIVE"
        BY <1>22, <2>1, <3>1 DEF Fresh, Held
      <4> QED
        BY <1>19, <3>0, <3>1, <4>1
    <3>2. CASE h # k /\ h \notin Held(p)
      <4>1. orders[h].count = 1 => cart[h] # Unopened
        BY DEF CartInv, Untouched
      <4>2. orders[h].count = 1 => st[h].status = cart[h].status
        BY <1>12, <3>2, <4>1 DEF Held
      <4> QED
        BY <1>19, <3>0, <3>2, <4>2
    <3>3. CASE h = k /\ p.op # "checkout"
      BY <1>20, <1>23, <2>1, <3>3
    <3>4. CASE h = k /\ p.op = "checkout"
      <4>1. orders'[k].count = orders[k].count + 1 /\ orders'[k].lines = p.seen
        BY <1>0, <1>2, <3>4 DEF CartTypeOK
      <4>2. p.cart = k /\ p.cart # NoCart /\ p.retires = NoCart /\ p.guest = NoCart
        BY <1>2, <1>4, <3>4 DEF WellFormed
      <4>3. cart[k] # Unopened /\ op[k] = cart[k] /\ cart[k] \in CartRow
        BY <1>4, <1>10, <4>2 DEF WellRead, Held
      <4>4. st[k] = StatusAfter(p, k, cart[k])
        BY <1>7, <1>8, <4>3
      <4>5. k \notin {p.guest, p.retires}
        BY <4>2, NoCartIsNone
      <4>6. st[k].status = "CONVERTED"
        BY <1>1, <3>4, <4>2, <4>3, <4>4, <4>5, Statuses
      <4> QED
        BY <1>20, <1>23, <2>1, <3>4, <4>1, <4>6
    <3> QED
      BY <3>1, <3>2, <3>3, <3>4
  <2> QED
    BY <1>8, <2>1 DEF OrderedAsHeld
\* What orders and retires.
<1>26. ASSUME NEW u \in Tabs, tab'[u] # Closed
       PROVE  u # t /\ tab[u] # Closed /\ tab'[u].op = tab[u].op /\ tab'[u].cart = tab[u].cart
  <2>1. PICK g \in SUBSET Variants, o \in BOOLEAN : tab[u] \in TabState /\ u # t /\ tab'[u] = Grown(tab[u], g, o)
    BY <1>16, <1>26
  <2> QED
    BY <2>1, Grows, RequestIsOpen
<1>27. \A h : CheckingOut(h)' \subseteq CheckingOut(h) /\ t \notin CheckingOut(h)'
  BY <1>26 DEF CheckingOut
<1>28. ASSUME NEW h \in Carts, orders[h].count > 0 PROVE st[h].status # "ACTIVE"
  <2>1. cart[h] # Unopened /\ cart[h].status # "ACTIVE"
    BY <1>28 DEF CartInv, Untouched, Settled
  <2>2. op[h] = cart[h] /\ cart[h] \in CartRow
    BY <1>10, <2>1
  <2>3. st[h] = StatusAfter(p, h, cart[h])
    BY <1>7, <1>8, <2>1, <2>2
  <2> QED
    BY <1>1, <2>1, <2>2, <2>3, Statuses
<1>29. ASSUME NEW h \in Carts PROVE Settled(h)'
  <2>1. CASE h # k \/ p.op # "checkout"
    BY <1>8, <1>19, <1>20, <1>27, <1>28, <2>1, SettledKept
  <2>2. CASE h = k /\ p.op = "checkout"
    <3>1. p.cart = k /\ p.cart # NoCart /\ p.retires = NoCart /\ p.guest = NoCart
      BY <1>2, <1>4, <2>2 DEF WellFormed
    <3>2. cart[k] # Unopened /\ op[k] = cart[k] /\ cart[k] \in CartRow
      BY <1>4, <1>10, <3>1 DEF WellRead, Held
    <3>3. st[k] = StatusAfter(p, k, cart[k]) /\ k \notin {p.guest, p.retires}
      BY <1>7, <1>8, <3>1, <3>2, NoCartIsNone
    <3>4. st[k].status = "CONVERTED"
      BY <1>1, <2>2, <3>1, <3>2, <3>3, Statuses
    <3>5. /\ orders[k].count \in Nat /\ orders[k].rivals \subseteq Tabs
          /\ orders'[k].count = orders[k].count + 1
          /\ orders'[k].rivals = IF orders[k].count = 0 THEN CheckingOut(k) ELSE orders[k].rivals
      BY <1>0, <1>2, <2>2 DEF CartTypeOK
    <3>6. t \in CheckingOut(k) /\ CheckingOut(k)' \subseteq CheckingOut(k) \ {t}
      BY <1>0, <1>27, <2>2, <3>1 DEF CheckingOut, p
    <3>7. /\ Cardinality(CheckingOut(k)) \in Nat /\ Cardinality(CheckingOut(k)') \in Nat
          /\ Cardinality(CheckingOut(k)') + 1 <= Cardinality(CheckingOut(k))
      <4>1. IsFiniteSet(CheckingOut(k)) /\ Cardinality(CheckingOut(k)) \in Nat
        BY CheckoutsCount
      <4>2. IsFiniteSet(CheckingOut(k) \ {t}) /\ Cardinality(CheckingOut(k) \ {t}) = Cardinality(CheckingOut(k)) - 1
        BY <3>6, <4>1, FS_RemoveElement
      <4>3. Cardinality(CheckingOut(k)') <= Cardinality(CheckingOut(k) \ {t}) /\ Cardinality(CheckingOut(k)') \in Nat
        BY <3>6, <4>2, FS_Subset, FS_CardinalityType
      <4> QED
        BY <4>1, <4>2, <4>3
    <3>8. CASE orders[k].count = 0
      BY <1>8, <2>2, <3>4, <3>5, <3>7, <3>8 DEF Settled
    <3>9. CASE orders[k].count > 0
      <4>1. orders[k].count + Cardinality(CheckingOut(k)) <= Cardinality(orders[k].rivals)
        BY <3>9 DEF CartInv, Settled
      <4>2. Cardinality(orders[k].rivals) \in Nat
        BY <3>5, CartAssumption, FS_Subset, FS_CardinalityType
      <4> QED
        BY <1>8, <2>2, <3>4, <3>5, <3>7, <3>9, <4>1, <4>2 DEF Settled
    <3> QED
      BY <3>5, <3>8, <3>9
  <2> QED
    BY <2>1, <2>2
<1> QED
  BY <1>17, <1>18, <1>21, <1>24, <1>25, <1>29 DEF CartInv

\* A cart holds what was asked for unless requests overtook each other, and its first
\* order retires it for good: at most the checkouts that were in flight by then order
\* it, for any number of carts, variants and requests.
THEOREM CartsHold == CartSpec => [](CartTypeOK /\ CartHoldsWhatWasAsked /\ OrderedOnce)
<1>1. CartInit => CartInv
  <2> SUFFICES ASSUME CartInit PROVE CartInv
    OBVIOUS
  <2>1. CartTypeOK
    <3>1. 0 \in 0..MaxCartRequests
      BY NoCartIsNone
    <3> QED
      BY <3>1, NothingIn DEF CartInit, CartTypeOK
  <2>2. \A t \in Tabs : tab[t] = Closed
    BY DEF CartInit
  <2>3. \A k \in Carts : Untouched(k) /\ items[k] = asked[k] /\ orders[k].count = 0
    BY DEF CartInit, Untouched
  <2> QED
    BY <2>1, <2>2, <2>3 DEF CartInv, CartHoldsWhatWasAsked, OrderedAsHeld, Settled
<1>2. CartInv /\ [CartNext]_cartVars => CartInv'
  <2> SUFFICES ASSUME CartInv, [CartNext]_cartVars PROVE CartInv'
    OBVIOUS
  <2>1. CASE UNCHANGED cartVars
    <3>1. UNCHANGED <<cart, items, tab, orders, visits, asked, mixed>>
      BY <2>1 DEF cartVars
    <3>2. CartTypeOK'
      BY <3>1 DEF CartInv, CartTypeOK
    <3>3. \A t \in Tabs : tab'[t] # Closed => WellRead(tab[t])'
      BY <3>1 DEF CartInv, WellRead, WellFormed, Held, Fresh
    <3>4. \A k \in Carts : cart'[k] = Unopened => Untouched(k)'
      BY <3>1 DEF CartInv, Untouched
    <3>5. CartHoldsWhatWasAsked' /\ OrderedAsHeld'
      BY <3>1 DEF CartInv, CartHoldsWhatWasAsked, OrderedAsHeld
    <3>6. \A k \in Carts : Settled(k)'
      BY <3>1 DEF CartInv, Settled, CheckingOut
    <3> QED
      BY <3>2, <3>3, <3>4, <3>5, <3>6 DEF CartInv
  <2> QED
    BY <2>1, RequestsKeepCarts, CommittingKeepsCarts DEF CartNext
<1>3. CartInv => CartTypeOK /\ CartHoldsWhatWasAsked /\ OrderedOnce
  <2> SUFFICES ASSUME CartInv PROVE RetiredByOrder
    BY DEF CartInv, OrderedOnce
  <2>1. ASSUME NEW k \in Carts
        PROVE  orders[k].count <= Cardinality(orders[k].rivals) /\ (orders[k].count > 0 => cart[k].status # "ACTIVE")
    <3>1. orders[k].count \in Nat /\ orders[k].rivals \subseteq Tabs /\ Settled(k)
      BY DEF CartInv, CartTypeOK
    <3>2. Cardinality(orders[k].rivals) \in Nat /\ Cardinality(CheckingOut(k)) \in Nat
      BY <3>1, CartAssumption, CheckoutsCount, FS_Subset, FS_CardinalityType
    <3> QED
      BY <3>1, <3>2 DEF Settled
  <2> QED
    BY <2>1 DEF RetiredByOrder
<1> QED
  BY <1>1, <1>2, <1>3, PTL DEF CartSpec

-----------------------------------------------------------------------------
\* Promotions: the counters are the number of orders that used the coupon.

\* The orders of some buyers on which a coupon was redeemed.
Using(c, S) == {o \in DOMAIN placed : placed[o].coupon = c /\ placed[o].buyer \in S}

Counted(c) ==
  /\ coupon[c].used = Cardinality(Using(c, Buyers))
  /\ \A u \in Buyers : redeemed[<<c, u>>] = Cardinality(Using(c, {u}))

Limited(c) ==
  /\ Limits[c].usageLimit # Nil => Cardinality(Using(c, Buyers)) <= Limits[c].usageLimit
  /\ \A u \in Buyers : Cardinality(Using(c, {u})) <= Limits[c].perCustomer

FirstOrderOffer(offers) == \E f \in offers : Terms[f].firstOrderOnly

\* A checkout that got a first-order offer has no earlier order, until one overtakes it.
Deserved(t) ==
  till[t] # Nil /\ ~till[t].overtaken /\ FirstOrderOffer(till[t].offers) => CustomerOrders(till[t].buyer) = {}

FirstOrder(o) ==
  ~placed[o].overtaken /\ FirstOrderOffer(placed[o].offers) =>
    \A p \in 1..(o - 1) : placed[p].buyer = placed[o].buyer => placed[p].cancelled

PromotionsInv ==
  /\ PromotionsTypeOK
  /\ \A c \in Coupons : Counted(c) /\ Limited(c)
  /\ \A t \in Tills : Deserved(t)
  /\ \A o \in DOMAIN placed : FirstOrder(o)

\* The orders are numbered, and there are finitely many.
LEMMA PlacedOrders ==
  ASSUME PromotionsTypeOK
  PROVE  \E n \in 0..MaxOrders :
           /\ placed \in [1..n -> OrderRow] /\ Cardinality(DOMAIN placed) = n
           /\ \A c, S : IsFiniteSet(Using(c, S)) /\ Cardinality(Using(c, S)) \in 0..n
<1>1. PICK n \in 0..MaxOrders : placed \in [1..n -> OrderRow]
  BY DEF PromotionsTypeOK
<1>2. n \in Nat
  BY <1>1, PromotionsAssumption
<1>3. IsFiniteSet(1..n) /\ Cardinality(1..n) = n
  <2>1. 1 \in Int /\ n \in Int
    BY <1>2
  <2>2. /\ IsFiniteSet(1..n)
        /\ Cardinality(1..n) = IF 1 > n THEN 0 ELSE n - 1 + 1
    BY <2>1, FS_Interval
  <2> QED
    BY <1>2, <2>2
<1>4. DOMAIN placed = 1..n
  BY <1>1
<1>5. ASSUME NEW c, NEW S PROVE IsFiniteSet(Using(c, S)) /\ Cardinality(Using(c, S)) \in 0..n
  <2>1. Using(c, S) \in SUBSET (1..n)
    BY <1>4 DEF Using
  <2>2. IsFiniteSet(Using(c, S)) /\ Cardinality(Using(c, S)) <= n
    BY <1>3, <2>1, FS_Subset
  <2>3. Cardinality(Using(c, S)) \in Nat
    BY <2>2, FS_CardinalityType
  <2> QED
    BY <1>2, <2>2, <2>3
<1> QED
  BY <1>1, <1>3, <1>4, <1>5

\* Steps that leave the orders, the checkouts and the counters alone.
LEMMA OffersAside ==
  ASSUME PromotionsInv, UNCHANGED <<redeemed, placed, till>>,
         offer' \in [Offers -> OfferRow], job' \in [Offers -> {"none", "promotion", "coupons"}],
         coupon' \in [Coupons -> CouponRow], \A c \in Coupons : coupon'[c].used = coupon[c].used
  PROVE  PromotionsInv'
<1>1. PromotionsTypeOK'
  BY DEF PromotionsInv, PromotionsTypeOK
<1>2. \A c, S : Using(c, S)' = Using(c, S)
  BY DEF Using
<1>3. \A c \in Coupons : (Counted(c) /\ Limited(c))'
  BY <1>2 DEF PromotionsInv, Counted, Limited
<1>4. \A t \in Tills : Deserved(t)'
  BY DEF PromotionsInv, Deserved, FirstOrderOffer, CustomerOrders
<1>5. \A o \in DOMAIN placed' : FirstOrder(o)'
  BY DEF PromotionsInv, FirstOrder, FirstOrderOffer
<1> QED
  BY <1>1, <1>3, <1>4, <1>5 DEF PromotionsInv

\* Staff, the expiry job and time.
LEMMA StaffKeepsPromotions ==
  ASSUME PromotionsInv,
         \/ \E c \in Coupons : CreateCoupon(c)
         \/ \E f \in Offers : UpdatePromotion(f) \/ OfferTimePasses(f) \/ ExpirePromotion(f) \/ ExpireCoupons(f)
         \/ FindExpired \/ JobFails
  PROVE  PromotionsInv'
<1>0. /\ offer \in [Offers -> OfferRow] /\ job \in [Offers -> {"none", "promotion", "coupons"}]
      /\ coupon \in [Coupons -> CouponRow]
  BY DEF PromotionsInv, PromotionsTypeOK
<1>1. ASSUME NEW c \in Coupons, CreateCoupon(c) PROVE PromotionsInv'
  <2>1. coupon' = [coupon EXCEPT ![c].state = "active"] /\ UNCHANGED <<offer, redeemed, placed, till, job>>
    BY <1>1 DEF CreateCoupon
  <2>2. coupon' \in [Coupons -> CouponRow] /\ \A d \in Coupons : coupon'[d].used = coupon[d].used
    BY <1>0, <2>1 DEF CouponRow
  <2> QED
    BY <1>0, <2>1, <2>2, OffersAside
<1>2. ASSUME NEW f \in Offers, UpdatePromotion(f) \/ OfferTimePasses(f) PROVE PromotionsInv'
  <2>1. UNCHANGED <<coupon, redeemed, placed, till, job>>
    BY <1>2 DEF UpdatePromotion, OfferTimePasses
  <2>2. offer' \in [Offers -> OfferRow]
    <3>1. CASE UpdatePromotion(f)
      <4>1. PICK active \in BOOLEAN, window \in Windows : offer' = [offer EXCEPT ![f] = [active |-> active, window |-> window]]
        BY <3>1 DEF UpdatePromotion, Windows
      <4> QED
        BY <1>0, <4>1 DEF OfferRow
    <3>2. CASE OfferTimePasses(f)
      <4>1. offer' = [offer EXCEPT ![f].window = IF @ = "ahead" THEN "open" ELSE "over"]
        BY <3>2 DEF OfferTimePasses
      <4> QED
        BY <1>0, <4>1 DEF OfferRow, Windows
    <3> QED
      BY <1>2, <3>1, <3>2
  <2> QED
    BY <1>0, <2>1, <2>2, OffersAside
<1>3. ASSUME NEW f \in Offers, ExpirePromotion(f) PROVE PromotionsInv'
  <2>1. /\ offer' = [offer EXCEPT ![f].active = FALSE] /\ job' = [job EXCEPT ![f] = "coupons"]
        /\ UNCHANGED <<coupon, redeemed, placed, till>>
    BY <1>3 DEF ExpirePromotion
  <2>2. offer' \in [Offers -> OfferRow] /\ job' \in [Offers -> {"none", "promotion", "coupons"}]
    BY <1>0, <2>1 DEF OfferRow
  <2> QED
    BY <1>0, <2>1, <2>2, OffersAside
<1>4. ASSUME NEW f \in Offers, ExpireCoupons(f) PROVE PromotionsInv'
  <2>1. /\ coupon' = [c \in Coupons |->
             IF Limits[c].offer = f /\ coupon[c].state = "active" THEN [coupon[c] EXCEPT !.state = "inactive"]
             ELSE coupon[c]]
        /\ job' = [job EXCEPT ![f] = "none"] /\ UNCHANGED <<offer, redeemed, placed, till>>
    BY <1>4 DEF ExpireCoupons
  <2>2. job' \in [Offers -> {"none", "promotion", "coupons"}]
    BY <1>0, <2>1
  <2>3. \A c \in Coupons : /\ [coupon[c] EXCEPT !.state = "inactive"] \in CouponRow
                           /\ [coupon[c] EXCEPT !.state = "inactive"].used = coupon[c].used
    BY <1>0 DEF CouponRow
  <2>4. coupon' \in [Coupons -> CouponRow] /\ \A c \in Coupons : coupon'[c].used = coupon[c].used
    BY <1>0, <2>1, <2>3
  <2> QED
    BY <1>0, <2>1, <2>2, <2>4, OffersAside
<1>5. CASE FindExpired \/ JobFails
  <2>1. job' \in [Offers -> {"none", "promotion", "coupons"}] /\ UNCHANGED <<offer, coupon, redeemed, placed, till>>
    BY <1>5 DEF FindExpired, JobFails
  <2> QED
    BY <1>0, <2>1, OffersAside
<1> QED
  BY <1>1, <1>2, <1>3, <1>4, <1>5

\* What is applied is open to the buyer: a first-order offer, only without orders.
LEMMA AppliedIsOpen ==
  ASSUME NEW u, NEW b, NEW c \in Coupons \union {Nil}, c # Nil => CouponAccepted(c, u, b),
         NEW offers \in Evaluate(u, b, c)
  PROVE  /\ offers \subseteq Offers
         /\ FirstOrderOffer(offers) => CustomerOrders(u) = {}
<1> DEFINE forced == IF c = Nil THEN {} ELSE {Limits[c].offer}
<1>1. forced \subseteq Offers /\ \A f \in forced : OpenTo(f, u, b)
  <2>1. CASE c = Nil
    BY <2>1
  <2>2. CASE c # Nil
    <3>1. Limits[c].offer \in Offers
      BY <2>2, PromotionsAssumption DEF CouponLimits
    <3> QED
      BY <2>2, <3>1 DEF CouponAccepted
  <2> QED
    BY <2>1, <2>2
<1>2. PICK applied \in Applied(forced, Automatic(u, b)) : offers = {f \in applied : Eligible(f, b)}
  BY DEF Evaluate
<1> HIDE DEF forced
<1>3. applied \subseteq forced \union Automatic(u, b)
  BY DEF Applied
<1>4. \A f \in offers : f \in Offers /\ OpenTo(f, u, b)
  BY <1>1, <1>2, <1>3 DEF Automatic
<1> QED
  BY <1>4 DEF OpenTo, FirstOrderOffer

\* Checkouts are priced and abandoned.
LEMMA PricingKeepsPromotions ==
  ASSUME PromotionsInv, NEW t \in Tills,
         (\E u \in Buyers, b \in Baskets, c \in Coupons \union {Nil} : PriceCheckout(t, u, b, c)) \/ AbandonCheckout(t)
  PROVE  PromotionsInv'
<1>0. till \in [Tills -> TillState]
  BY DEF PromotionsInv, PromotionsTypeOK
<1>1. PICK q \in TillState :
        /\ till' = [till EXCEPT ![t] = q] /\ UNCHANGED <<offer, coupon, redeemed, placed, job>>
        /\ q # Nil /\ ~q.overtaken /\ FirstOrderOffer(q.offers) => CustomerOrders(q.buyer) = {}
  <2>1. CASE AbandonCheckout(t)
    <3>1. Nil \in TillState
      BY DEF TillState
    <3> QED
      BY <2>1, <3>1 DEF AbandonCheckout
  <2>2. ASSUME NEW u \in Buyers, NEW b \in Baskets, NEW c \in Coupons \union {Nil}, PriceCheckout(t, u, b, c)
        PROVE  \E q \in TillState :
                 /\ till' = [till EXCEPT ![t] = q] /\ UNCHANGED <<offer, coupon, redeemed, placed, job>>
                 /\ q # Nil /\ ~q.overtaken /\ FirstOrderOffer(q.offers) => CustomerOrders(q.buyer) = {}
    <3>1. PICK offers \in Evaluate(u, b, c) :
            till' = [till EXCEPT ![t] = [buyer |-> u, offers |-> offers, coupon |-> c, overtaken |-> FALSE]]
      BY <2>2 DEF PriceCheckout
    <3>2. c # Nil => CouponAccepted(c, u, b)
      BY <2>2 DEF PriceCheckout
    <3>3. UNCHANGED <<offer, coupon, redeemed, placed, job>>
      BY <2>2 DEF PriceCheckout
    <3>4. offers \subseteq Offers /\ (FirstOrderOffer(offers) => CustomerOrders(u) = {})
      BY <3>2, AppliedIsOpen
    <3> DEFINE q == [buyer |-> u, offers |-> offers, coupon |-> c, overtaken |-> FALSE]
    <3>5. q \in TillState /\ q.offers = offers /\ q.buyer = u
      BY <3>4 DEF TillState
    <3> HIDE DEF q
    <3>6. till' = [till EXCEPT ![t] = q]
      BY <3>1 DEF q
    <3> QED
      BY <3>3, <3>4, <3>5, <3>6
  <2> QED
    BY <2>1, <2>2
<1>2. PromotionsTypeOK'
  BY <1>1 DEF PromotionsInv, PromotionsTypeOK
<1>3. \A c, S : Using(c, S)' = Using(c, S)
  BY <1>1 DEF Using
<1>4. \A c \in Coupons : (Counted(c) /\ Limited(c))'
  BY <1>1, <1>3 DEF PromotionsInv, Counted, Limited
<1>5. ASSUME NEW s \in Tills PROVE Deserved(s)'
  <2>1. till'[s] = IF s = t THEN q ELSE till[s]
    BY <1>0, <1>1
  <2> QED
    BY <1>1, <2>1 DEF PromotionsInv, Deserved, FirstOrderOffer, CustomerOrders
<1>6. \A o \in DOMAIN placed' : FirstOrder(o)'
  BY <1>1 DEF PromotionsInv, FirstOrder, FirstOrderOffer
<1> QED
  BY <1>2, <1>4, <1>5, <1>6 DEF PromotionsInv

\* A cancelled order still counts for the coupon and no longer for first orders.
LEMMA CancellingKeepsPromotions ==
  ASSUME PromotionsInv, NEW o \in DOMAIN placed, CancelPlaced(o)
  PROVE  PromotionsInv'
<1>1. PICK n \in 0..MaxOrders : placed \in [1..n -> OrderRow]
  BY DEF PromotionsInv, PromotionsTypeOK
<1>2. placed' = [placed EXCEPT ![o].cancelled = TRUE] /\ UNCHANGED <<offer, coupon, redeemed, till, job>>
  BY DEF CancelPlaced
<1>3. /\ placed' \in [1..n -> OrderRow] /\ DOMAIN placed' = DOMAIN placed /\ DOMAIN placed = 1..n
      /\ \A p \in 1..n : /\ placed'[p].buyer = placed[p].buyer /\ placed'[p].coupon = placed[p].coupon
                         /\ placed'[p].offers = placed[p].offers /\ placed'[p].overtaken = placed[p].overtaken
                         /\ placed[p].cancelled => placed'[p].cancelled
  BY <1>1, <1>2 DEF OrderRow
<1>4. PromotionsTypeOK'
  BY <1>1, <1>2, <1>3 DEF PromotionsInv, PromotionsTypeOK
<1>5. \A c, S : Using(c, S)' = Using(c, S)
  BY <1>3 DEF Using
<1>6. \A c \in Coupons : (Counted(c) /\ Limited(c))'
  BY <1>2, <1>5 DEF PromotionsInv, Counted, Limited
<1>7. \A u : CustomerOrders(u)' \subseteq CustomerOrders(u)
  BY <1>3 DEF CustomerOrders
<1>8. \A t \in Tills : Deserved(t)'
  BY <1>2, <1>7 DEF PromotionsInv, Deserved, FirstOrderOffer
<1>9. ASSUME NEW p \in 1..n PROVE FirstOrder(p)'
  <2>1. \A r \in 1..(p - 1) : r \in 1..n
    BY <1>1
  <2>2. FirstOrder(p)
    BY <1>3 DEF PromotionsInv
  <2> QED
    BY <1>3, <2>1, <2>2 DEF FirstOrder, FirstOrderOffer
<1> QED
  BY <1>3, <1>4, <1>6, <1>8, <1>9 DEF PromotionsInv

\* Redemption adds one to the counters and to the orders, within the limits.
LEMMA PlacingKeepsPromotions ==
  ASSUME PromotionsInv, NEW t \in Tills, PlaceOrder(t)
  PROVE  PromotionsInv'
<1> DEFINE sale == till[t]
<1>0. /\ till \in [Tills -> TillState] /\ coupon \in [Coupons -> CouponRow] /\ PromotionsTypeOK
      /\ redeemed \in [Coupons \X Buyers -> 0..MaxOrders]
  BY DEF PromotionsInv, PromotionsTypeOK
<1>1. PICK m \in 0..MaxOrders :
        /\ placed \in [1..m -> OrderRow] /\ Cardinality(DOMAIN placed) = m
        /\ \A c, S : IsFiniteSet(Using(c, S)) /\ Cardinality(Using(c, S)) \in 0..m
  BY <1>0, PlacedOrders
<1>2. m \in Nat /\ DOMAIN placed = 1..m /\ MaxOrders \in Nat
  BY <1>1, PromotionsAssumption
<1>3. /\ sale # Nil /\ sale.buyer \in Buyers /\ sale.offers \in SUBSET Offers /\ sale.coupon \in Coupons \union {Nil}
      /\ sale.overtaken \in BOOLEAN
  <2>1. sale # Nil
    BY DEF PlaceOrder
  <2>2. sale \in [buyer : Buyers, offers : SUBSET Offers, coupon : Coupons \union {Nil}, overtaken : BOOLEAN]
    BY <1>0, <2>1 DEF TillState
  <2> QED
    BY <2>1, <2>2
<1>4. UNCHANGED <<offer, job>> /\ m + 1 <= MaxOrders
  BY <1>1 DEF PlaceOrder
<1>5. CASE sale.coupon # Nil /\ ~StillWithinLimits(sale.coupon, sale.buyer)
  <2>1. till' = [till EXCEPT ![t] = Nil] /\ UNCHANGED <<offer, coupon, redeemed, placed, job>>
    BY <1>4, <1>5 DEF PlaceOrder
  <2>2. AbandonCheckout(t)
    BY <1>3, <2>1 DEF AbandonCheckout
  <2> QED
    BY <2>2, PricingKeepsPromotions
<1>6. CASE ~(sale.coupon # Nil /\ ~StillWithinLimits(sale.coupon, sale.buyer))
  <2> DEFINE n == m + 1
             order == [buyer |-> sale.buyer, offers |-> sale.offers, coupon |-> sale.coupon,
                       cancelled |-> FALSE, overtaken |-> sale.overtaken]
  <2>1. /\ placed' = [o \in 1..n |-> IF o < n THEN placed[o] ELSE order]
        /\ coupon' = IF sale.coupon = Nil THEN coupon ELSE [coupon EXCEPT ![sale.coupon].used = @ + 1]
        /\ redeemed' = IF sale.coupon = Nil THEN redeemed ELSE [redeemed EXCEPT ![<<sale.coupon, sale.buyer>>] = @ + 1]
        /\ till' = [s \in Tills |->
             IF s = t THEN Nil
             ELSE IF till[s] # Nil /\ till[s].buyer = sale.buyer THEN [till[s] EXCEPT !.overtaken = TRUE]
             ELSE till[s]]
    BY <1>1, <1>6 DEF PlaceOrder
  <2>2. /\ order \in OrderRow /\ order.buyer = sale.buyer /\ order.offers = sale.offers /\ order.coupon = sale.coupon
        /\ ~order.cancelled /\ order.overtaken = sale.overtaken
    BY <1>3 DEF OrderRow
  <2> HIDE DEF order
  <2>3. n \in Nat /\ n \in 0..MaxOrders /\ n \in 1..n /\ n \notin 1..m /\ 1..n = 1..m \union {n}
    BY <1>2, <1>4
  <2>4. /\ placed' \in [1..n -> OrderRow] /\ DOMAIN placed' = 1..n /\ placed'[n] = order
        /\ \A o \in 1..m : placed'[o] = placed[o]
    <3>1. \A o \in 1..m : o < n /\ o \in 1..n
      BY <1>2
    <3>2. \A o \in 1..n : o < n => o \in 1..m
      BY <1>2
    <3> HIDE DEF n
    <3> QED
      BY <1>1, <2>1, <2>2, <2>3, <3>1, <3>2
  <2> HIDE DEF n
  <2>5. ASSUME NEW c \in Coupons, NEW S, ~(sale.coupon = c /\ sale.buyer \in S)
        PROVE  Using(c, S)' = Using(c, S)
    BY <1>2, <2>2, <2>3, <2>4, <2>5 DEF Using
  <2>6. ASSUME NEW c \in Coupons, NEW S, sale.coupon = c, sale.buyer \in S
        PROVE  Cardinality(Using(c, S)') = Cardinality(Using(c, S)) + 1
    <3>1. Using(c, S)' = Using(c, S) \union {n} /\ n \notin Using(c, S)
      BY <1>2, <2>2, <2>3, <2>4, <2>6 DEF Using
    <3> QED
      BY <1>1, <3>1, FS_AddElement
  <2>7. ASSUME NEW c \in Coupons
        PROVE  /\ (Counted(c) /\ Limited(c))' /\ coupon'[c].used \in 0..MaxOrders
               /\ \A u \in Buyers : redeemed'[<<c, u>>] \in 0..MaxOrders
    <3>1. /\ coupon[c].used = Cardinality(Using(c, Buyers)) /\ Limited(c)
          /\ \A u \in Buyers : redeemed[<<c, u>>] = Cardinality(Using(c, {u}))
      BY DEF PromotionsInv, Counted
    <3>2. \A S : Cardinality(Using(c, S)) \in 0..m
      BY <1>1
    <3>3. CASE sale.coupon # c
      <4>1. \A S : Using(c, S)' = Using(c, S)
        BY <2>5, <3>3
      <4>2. coupon'[c].used = coupon[c].used
        BY <1>0, <2>1, <3>3
      <4>3. \A u \in Buyers : redeemed'[<<c, u>>] = redeemed[<<c, u>>]
        BY <1>0, <2>1, <3>3
      <4>4. (Counted(c) /\ Limited(c))'
        BY <3>1, <4>1, <4>2, <4>3 DEF Counted, Limited
      <4> QED
        BY <1>0, <4>2, <4>3, <4>4 DEF CouponRow
    <3>4. CASE sale.coupon = c
      <4>0. PICK buyer \in Buyers : buyer = sale.buyer
        BY <1>3
      <4>1. c # Nil /\ WithinLimits(c, buyer) /\ Limits[c].perCustomer \in Nat /\ Limits[c].usageLimit \in Nat \union {Nil}
        BY <1>6, <3>4, <4>0, PromotionsAssumption DEF StillWithinLimits, CouponLimits
      <4>2. coupon'[c].used = coupon[c].used + 1 /\ coupon[c].used \in 0..m
        BY <1>0, <2>1, <3>1, <3>2, <3>4, <4>1 DEF CouponRow
      <4>3. redeemed'[<<c, buyer>>] = redeemed[<<c, buyer>>] + 1 /\ redeemed[<<c, buyer>>] \in 0..m
        BY <1>0, <2>1, <3>1, <3>2, <3>4, <4>0, <4>1
      <4>4. \A u \in Buyers : u # buyer => redeemed'[<<c, u>>] = redeemed[<<c, u>>]
        BY <1>0, <2>1, <3>4, <4>0, <4>1
      <4>5. Cardinality(Using(c, Buyers)') = Cardinality(Using(c, Buyers)) + 1
        BY <1>3, <2>6, <3>4
      <4>6. Cardinality(Using(c, {buyer})') = Cardinality(Using(c, {buyer})) + 1
        BY <2>6, <3>4, <4>0
      <4>7. \A u \in Buyers : u # buyer => Using(c, {u})' = Using(c, {u})
        BY <2>5, <4>0
      <4>8. Counted(c)'
        BY <3>1, <4>2, <4>3, <4>4, <4>5, <4>6, <4>7 DEF Counted
      <4>9. Limits[c].usageLimit # Nil => Cardinality(Using(c, Buyers)') <= Limits[c].usageLimit
        BY <3>1, <3>2, <4>1, <4>2, <4>5 DEF WithinLimits
      <4>10. ASSUME NEW u \in Buyers PROVE Cardinality(Using(c, {u})') <= Limits[c].perCustomer
        <5>1. CASE u = buyer
          BY <3>1, <4>1, <4>3, <4>6, <5>1 DEF WithinLimits
        <5>2. CASE u # buyer
          BY <3>1, <4>7, <5>2 DEF Limited
        <5> QED
          BY <5>1, <5>2
      <4>11. coupon'[c].used \in 0..MaxOrders
        BY <1>2, <1>4, <4>2
      <4>12. ASSUME NEW u \in Buyers PROVE redeemed'[<<c, u>>] \in 0..MaxOrders
        <5>1. CASE u = buyer
          BY <1>2, <1>4, <4>3, <5>1
        <5>2. CASE u # buyer
          BY <1>0, <4>4, <5>2
        <5> QED
          BY <5>1, <5>2
      <4> QED
        BY <4>8, <4>9, <4>10, <4>11, <4>12 DEF Limited
    <3> QED
      BY <3>3, <3>4
  <2>8. PromotionsTypeOK'
    <3>1. coupon' \in [Coupons -> CouponRow]
      <4>1. CASE sale.coupon = Nil
        BY <1>0, <2>1, <4>1
      <4>2. CASE sale.coupon # Nil
        <5>1. coupon' = [coupon EXCEPT ![sale.coupon].used = @ + 1] /\ sale.coupon \in Coupons
          BY <1>3, <2>1, <4>2
        <5>2. coupon'[sale.coupon].used \in 0..MaxOrders
          BY <2>7, <5>1
        <5> QED
          BY <1>0, <5>1, <5>2 DEF CouponRow
      <4> QED
        BY <4>1, <4>2
    <3>2. redeemed' \in [Coupons \X Buyers -> 0..MaxOrders]
      <4>1. CASE sale.coupon = Nil
        BY <1>0, <2>1, <4>1
      <4>2. CASE sale.coupon # Nil
        <5>1. redeemed' = [redeemed EXCEPT ![<<sale.coupon, sale.buyer>>] = @ + 1] /\ sale.coupon \in Coupons
          BY <1>3, <2>1, <4>2
        <5>2. redeemed'[<<sale.coupon, sale.buyer>>] \in 0..MaxOrders
          BY <1>3, <2>7, <5>1
        <5> QED
          BY <1>0, <5>1, <5>2
      <4> QED
        BY <4>1, <4>2
    <3>3. till' \in [Tills -> TillState]
      <4>1. ASSUME NEW s \in Tills, till[s] # Nil PROVE [till[s] EXCEPT !.overtaken = TRUE] \in TillState
        <5>1. till[s] \in [buyer : Buyers, offers : SUBSET Offers, coupon : Coupons \union {Nil}, overtaken : BOOLEAN]
          BY <1>0, <4>1 DEF TillState
        <5> QED
          BY <5>1 DEF TillState
      <4>2. Nil \in TillState
        BY DEF TillState
      <4> QED
        BY <1>0, <2>1, <4>1, <4>2
    <3> QED
      BY <1>0, <1>4, <2>3, <2>4, <3>1, <3>2, <3>3 DEF PromotionsTypeOK
  <2>9. ASSUME NEW s \in Tills PROVE Deserved(s)'
    <3> SUFFICES ASSUME till'[s] # Nil, ~till'[s].overtaken, FirstOrderOffer(till'[s].offers),
                        NEW u, u = till'[s].buyer
                 PROVE  CustomerOrders(u)' = {}
      BY DEF Deserved, FirstOrderOffer, CustomerOrders
    <3>1. till[s] # Nil => [till[s] EXCEPT !.overtaken = TRUE].overtaken
      <4>1. ASSUME till[s] # Nil PROVE till[s] \in [buyer : Buyers, offers : SUBSET Offers, coupon : Coupons \union {Nil}, overtaken : BOOLEAN]
        BY <1>0, <4>1 DEF TillState
      <4> QED
        BY <4>1
    <3>2. till'[s] = till[s] /\ till[s].buyer # sale.buyer
      BY <2>1, <3>1
    <3>3. CustomerOrders(u) = {} /\ u # sale.buyer
      BY <3>2 DEF PromotionsInv, Deserved
    <3> QED
      BY <1>2, <2>2, <2>3, <2>4, <3>3 DEF CustomerOrders
  <2>10. ASSUME NEW o \in 1..n PROVE FirstOrder(o)'
    <3>1. \A p \in 1..(o - 1) : p \in 1..m
      BY <1>2, <2>3, <2>10 DEF n
    <3>2. CASE o \in 1..m
      <4>1. FirstOrder(o)
        BY <1>2, <3>2 DEF PromotionsInv
      <4> QED
        BY <2>4, <3>1, <3>2, <4>1 DEF FirstOrder, FirstOrderOffer
    <3>3. CASE o = n
      <4>1. ~sale.overtaken /\ FirstOrderOffer(sale.offers) => CustomerOrders(sale.buyer) = {}
        BY <1>3 DEF PromotionsInv, Deserved
      <4> QED
        BY <1>2, <2>2, <2>4, <3>1, <3>3, <4>1 DEF FirstOrder, FirstOrderOffer, CustomerOrders
    <3> QED
      BY <2>3, <3>2, <3>3
  <2> QED
    BY <2>4, <2>7, <2>8, <2>9, <2>10 DEF PromotionsInv
<1> QED
  BY <1>5, <1>6

\* Coupons stay within their limits and first-order offers go to first orders, for any
\* number of checkouts, customers and coupons.
THEOREM OffersStayWithinLimits == PromotionsSpec => [](PromotionsTypeOK /\ OffersWithinLimits)
<1>1. PromotionsInit => PromotionsInv
  <2> SUFFICES ASSUME PromotionsInit PROVE PromotionsInv
    OBVIOUS
  <2>1. PromotionsTypeOK
    <3>1. 0 \in 0..MaxOrders
      BY PromotionsAssumption
    <3>2. 1..0 = {}
      OBVIOUS
    <3>3. placed \in [1..0 -> OrderRow]
      BY <3>2 DEF PromotionsInit
    <3>4. \E n \in 0..MaxOrders : placed \in [1..n -> OrderRow]
      BY <3>1, <3>3
    <3>5. offer \in [Offers -> OfferRow]
      BY DEF PromotionsInit, OfferRow, Windows
    <3>6. Nil \in TillState /\ [state |-> "absent", used |-> 0] \in CouponRow
      BY <3>1 DEF TillState, CouponRow
    <3> QED
      BY <3>1, <3>4, <3>5, <3>6 DEF PromotionsInit, PromotionsTypeOK
  <2>2. DOMAIN placed = {}
    BY DEF PromotionsInit
  <2>3. \A c, S : Cardinality(Using(c, S)) = 0
    BY <2>2, FS_EmptySet DEF Using
  <2>4. \A c \in Coupons : Counted(c)
    BY <2>3 DEF PromotionsInit, Counted
  <2>5. \A c \in Coupons : Limited(c)
    <3>1. \A c \in Coupons : Limits[c].perCustomer \in Nat /\ Limits[c].usageLimit \in Nat \union {Nil}
      BY PromotionsAssumption DEF CouponLimits
    <3> QED
      BY <2>3, <3>1 DEF Limited
  <2>6. \A t \in Tills : Deserved(t)
    BY DEF PromotionsInit, Deserved
  <2> QED
    BY <2>1, <2>2, <2>4, <2>5, <2>6 DEF PromotionsInv
<1>2. PromotionsInv /\ [PromotionsNext]_promotionsVars => PromotionsInv'
  <2> SUFFICES ASSUME PromotionsInv, [PromotionsNext]_promotionsVars PROVE PromotionsInv'
    OBVIOUS
  <2>1. CASE UNCHANGED promotionsVars
    <3>1. UNCHANGED <<offer, coupon, redeemed, placed, till, job>>
      BY <2>1 DEF promotionsVars
    <3> QED
      BY <3>1, OffersAside DEF PromotionsInv, PromotionsTypeOK
  <2> QED
    BY <2>1, StaffKeepsPromotions, PricingKeepsPromotions, PlacingKeepsPromotions, CancellingKeepsPromotions
    DEF PromotionsNext
<1>3. PromotionsInv => PromotionsTypeOK /\ OffersWithinLimits
  <2> SUFFICES ASSUME PromotionsInv PROVE PromotionsTypeOK /\ OffersWithinLimits
    OBVIOUS
  <2>1. \A c \in Coupons : Counted(c) /\ Limited(c)
    BY DEF PromotionsInv
  <2>2. \A o \in DOMAIN placed : FirstOrder(o)
    BY DEF PromotionsInv
  <2> QED
    BY <2>1, <2>2 DEF PromotionsInv, OffersWithinLimits, Counted, Limited, FirstOrder, FirstOrderOffer, Using
<1> QED
  BY <1>1, <1>2, <1>3, PTL DEF PromotionsSpec

-----------------------------------------------------------------------------
\* Catalog: what the checks of a removal cannot have seen is marked as such.

Removing(e) == editor[e].at \in {"count products", "delete category"}

\* From its first check on, what comes under the category is marked; so are the products
\* in it from the second check on.
Guarded(e) ==
  /\ Removing(e) =>
       \A d \in CategoryIds : LiveIn(shelf, d) /\ shelf[d].parent = editor[e].id => <<"category", d>> \in blind
  /\ editor[e].at = "delete category" =>
       \A p \in ProductIds : LiveIn(product, p) /\ product[p].category = editor[e].id => <<"product", p>> \in blind

CatalogInv == CatalogTypeOK /\ (\A e \in Editors : Guarded(e)) /\ CategoriesInUseAreKept

LEMMA NowhereIsNone == Nowhere \notin CategoryIds
BY CatalogAssumption DEF CategoryIds, Nowhere

\* What a request at a step carries.
LEMMA Carries ==
  ASSUME CatalogTypeOK, NEW e \in Editors
  PROVE  /\ editor[e].at = "add category" => editor[e].parent \in Parents
         /\ editor[e].at = "move category" => editor[e].id \in CategoryIds /\ editor[e].parent \in Parents
         /\ Removing(e) => editor[e].id \in CategoryIds
         /\ editor[e].at = "add product" => editor[e].category \in Parents /\ editor[e].status \in ProductStatus
         /\ editor[e].at = "edit product" =>
              editor[e].id \in ProductIds /\ editor[e].category \in Parents /\ editor[e].status \in ProductStatus
         /\ editor[e].at \in {"delete product", "add variant", "heart", "unheart"} => editor[e].id \in ProductIds
         /\ editor[e].at \in {"seed stock", "delete variant"} => editor[e].id \in VariantIds
<1>1. editor[e] \in EditorState
  BY DEF CatalogTypeOK
<1>2. CASE editor[e] = Off
  BY <1>2 DEF Off, Removing
<1>3. CASE editor[e] \in [at : {"add category"}, parent : Parents]
  BY <1>3 DEF Removing
<1>4. CASE editor[e] \in [at : {"move category"}, id : CategoryIds, copy : Parents, parent : Parents]
  BY <1>4 DEF Removing
<1>5. CASE editor[e] \in [at : {"count products", "delete category"}, id : CategoryIds]
  BY <1>5 DEF Removing
<1>6. CASE editor[e] \in [at : {"add product"}, category : Parents, status : ProductStatus, variants : 0..MaxVariants]
  BY <1>6 DEF Removing
<1>7. CASE editor[e] \in [at : {"edit product"}, id : ProductIds, copy : ProductRow, category : Parents, status : ProductStatus]
  BY <1>7 DEF Removing
<1>8. CASE editor[e] \in [at : {"delete product", "add variant", "heart", "unheart"}, id : ProductIds]
  BY <1>8 DEF Removing
<1>9. CASE editor[e] \in [at : {"seed stock", "delete variant"}, id : VariantIds]
  BY <1>9 DEF Removing
<1> QED
  BY <1>1, <1>2, <1>3, <1>4, <1>5, <1>6, <1>7, <1>8, <1>9 DEF EditorState

\* A request that only moves on, and the rows no reference is about.
LEMMA MovingOn ==
  ASSUME CatalogInv, NEW e \in Editors, NEW q \in EditorState, editor' = [editor EXCEPT ![e] = q],
         UNCHANGED <<shelf, product, blind>>, variant' \in [VariantIds -> VariantRow], hearts' \subseteq ProductIds,
         editions' \in 0..MaxEditions, Guarded(e)'
  PROVE  CatalogInv'
<1>1. CatalogTypeOK'
  BY DEF CatalogInv, CatalogTypeOK
<1>2. ASSUME NEW f \in Editors PROVE Guarded(f)'
  <2>1. CASE f = e
    BY <2>1
  <2>2. CASE f # e
    <3>1. editor'[f] = editor[f]
      BY <2>2 DEF CatalogInv, CatalogTypeOK
    <3> QED
      BY <3>1 DEF CatalogInv, Guarded, Removing, LiveIn
  <2> QED
    BY <2>1, <2>2
<1>3. CategoriesInUseAreKept'
  BY DEF CatalogInv, CategoriesInUseAreKept, LiveIn
<1> QED
  BY <1>1, <1>2, <1>3 DEF CatalogInv

\* Requests that are not a removal begin and end without a condition.
LEMMA PassingBy ==
  ASSUME CatalogInv, NEW e \in Editors, NEW q \in EditorState, editor' = [editor EXCEPT ![e] = q],
         q.at \notin {"count products", "delete category"},
         UNCHANGED <<shelf, product, blind>>, variant' \in [VariantIds -> VariantRow], hearts' \subseteq ProductIds,
         editions' \in 0..MaxEditions
  PROVE  CatalogInv'
<1>1. editor'[e] = q
  BY DEF CatalogInv, CatalogTypeOK
<1>2. Guarded(e)'
  BY <1>1 DEF Guarded, Removing
<1> QED
  BY <1>2, MovingOn

\* The requests of the controllers.
LEMMA RequestsKeepCatalog ==
  ASSUME CatalogInv, NEW e \in Editors, CategoryRequest(e) \/ ProductRequest(e) \/ WishlistRequest(e)
  PROVE  CatalogInv'
<1>1. ASSUME NEW q \in EditorState, Opens(e, q), q.at \notin {"count products", "delete category"}
      PROVE  CatalogInv'
  <2>1. /\ editor' = [editor EXCEPT ![e] = q] /\ UNCHANGED <<shelf, product, variant, hearts, blind>>
        /\ editions' = editions + 1 /\ editions < MaxEditions
    BY <1>1 DEF Opens, goods
  <2>2. variant' \in [VariantIds -> VariantRow] /\ hearts' \subseteq ProductIds /\ editions' \in 0..MaxEditions
    BY <2>1, CatalogAssumption DEF CatalogInv, CatalogTypeOK
  <2> QED
    BY <1>1, <2>1, <2>2, PassingBy
<1>2. ASSUME NEW c \in CategoryIds, BeginRemoveCategory(e, c) PROVE CatalogInv'
  <2> DEFINE q == [at |-> "count products", id |-> c]
  <2>1. /\ editor' = [editor EXCEPT ![e] = q] /\ UNCHANGED <<shelf, product, variant, hearts, blind>>
        /\ editions' = editions + 1 /\ editions < MaxEditions /\ Children(c) = {}
    BY <1>2 DEF BeginRemoveCategory, Opens, goods
  <2>2. variant' \in [VariantIds -> VariantRow] /\ hearts' \subseteq ProductIds /\ editions' \in 0..MaxEditions
    <3> HIDE DEF q
    <3> QED
      BY <2>1, CatalogAssumption DEF CatalogInv, CatalogTypeOK
  <2>3. q \in EditorState /\ q.at = "count products" /\ q.id = c
    BY DEF EditorState
  <2> HIDE DEF q
  <2>4. editor'[e] = q
    BY <2>1 DEF CatalogInv, CatalogTypeOK
  <2>5. Guarded(e)'
    BY <2>1, <2>3, <2>4 DEF Guarded, Removing, Children, LiveIn
  <2> QED
    BY <2>1, <2>2, <2>3, <2>5, MovingOn
<1>3. ASSUME NEW c \in Parents, BeginCreateCategory(e, c) PROVE CatalogInv'
  <2> DEFINE q == [at |-> "add category", parent |-> c]
  <2>1. q \in EditorState /\ q.at = "add category"
    BY DEF EditorState
  <2> QED
    BY <1>1, <1>3, <2>1 DEF BeginCreateCategory
<1>4. ASSUME NEW c \in CategoryIds, NEW parent \in Parents, BeginUpdateCategory(e, c, parent) PROVE CatalogInv'
  <2> DEFINE q == [at |-> "move category", id |-> c, copy |-> shelf[c].parent, parent |-> parent]
  <2>1. q \in EditorState /\ q.at = "move category"
    BY DEF EditorState, CatalogInv, CatalogTypeOK, CategoryRow
  <2> QED
    BY <1>1, <1>4, <2>1 DEF BeginUpdateCategory
<1>5. ASSUME NEW c \in Parents, NEW status \in ProductStatus, NEW n \in 0..MaxVariants, BeginCreateProduct(e, c, status, n)
      PROVE  CatalogInv'
  <2> DEFINE q == [at |-> "add product", category |-> c, status |-> status, variants |-> n]
  <2>1. q \in EditorState /\ q.at = "add product"
    BY DEF EditorState
  <2> QED
    BY <1>1, <1>5, <2>1 DEF BeginCreateProduct
<1>6. ASSUME NEW c \in Parents, NEW status \in ProductStatus, NEW p \in ProductIds, BeginUpdateProduct(e, p, c, status)
      PROVE  CatalogInv'
  <2> DEFINE q == [at |-> "edit product", id |-> p, copy |-> product[p], category |-> c, status |-> status]
  <2>1. q \in EditorState /\ q.at = "edit product"
    BY DEF EditorState, CatalogInv, CatalogTypeOK
  <2> QED
    BY <1>1, <1>6, <2>1 DEF BeginUpdateProduct
<1>7. ASSUME NEW p \in ProductIds, NEW what \in {"delete product", "add variant", "heart", "unheart"},
             Opens(e, [at |-> what, id |-> p])
      PROVE  CatalogInv'
  <2> DEFINE q == [at |-> what, id |-> p]
  <2>1. q \in EditorState /\ q.at = what
    BY DEF EditorState
  <2> QED
    BY <1>1, <1>7, <2>1
<1>8. ASSUME NEW v \in VariantIds, BeginRemoveVariant(e, v) PROVE CatalogInv'
  <2> DEFINE q == [at |-> "delete variant", id |-> v]
  <2>1. q \in EditorState /\ q.at = "delete variant"
    BY DEF EditorState
  <2> QED
    BY <1>1, <1>8, <2>1 DEF BeginRemoveVariant
<1>9. CASE CategoryRequest(e)
  BY <1>2, <1>3, <1>4, <1>9 DEF CategoryRequest
<1>10. CASE ProductRequest(e)
  BY <1>5, <1>6, <1>7, <1>8, <1>10 DEF ProductRequest, BeginOnProduct
<1>11. CASE WishlistRequest(e)
  BY <1>7, <1>11 DEF WishlistRequest, BeginAddHeart, BeginRemoveHeart, BeginOnProduct
<1> QED
  BY <1>9, <1>10, <1>11

\* A reference is marked, or the category it names is live and nobody is removing it.
LEMMA Marks ==
  ASSUME NEW r, NEW c \in Parents
  PROVE  /\ \A x : x # r => (x \in Marked(r, c) <=> x \in blind)
         /\ \/ r \in Marked(r, c)
            \/ c = Nowhere
            \/ LiveIn(shelf, c) /\ \A e \in Editors : Removing(e) => editor[e].id # c
         /\ Marked(r, c) \subseteq blind \union {r}
BY DEF Marked, Unseen, Removing

\* A category is created or moved.
LEMMA PlacingCategory ==
  ASSUME CatalogInv, NEW e \in Editors, editor' = [editor EXCEPT ![e] = Off], UNCHANGED <<product, variant, hearts, editions>>,
         NEW c \in CategoryIds, NEW parent \in Parents, blind' = Marked(<<"category", c>>, parent),
         NEW row \in CategoryRow, row.parent = parent, shelf' = [shelf EXCEPT ![c] = row],
         \A d \in CategoryIds : LiveIn(shelf, d) => LiveIn(shelf', d)
  PROVE  CatalogInv'
<1>1. /\ \A d \in CategoryIds : d # c => shelf'[d] = shelf[d]
      /\ shelf'[c] = row
  BY DEF CatalogInv, CatalogTypeOK
<1>2. /\ \A d \in CategoryIds : d # c => (<<"category", d>> \in blind' <=> <<"category", d>> \in blind)
      /\ \A p \in ProductIds : <<"product", p>> \in blind' <=> <<"product", p>> \in blind
  <2>1. \A d : d # c => <<"category", d>> # <<"category", c>>
    OBVIOUS
  <2>2. \A p : <<"product", p>> # <<"category", c>>
    OBVIOUS
  <2> QED
    BY <2>1, <2>2, Marks
<1>3. \/ <<"category", c>> \in blind'
      \/ parent = Nowhere
      \/ LiveIn(shelf, parent) /\ \A f \in Editors : Removing(f) => editor[f].id # parent
  BY Marks
<1>4. \A f \in Editors : editor'[f] = Off \/ editor'[f] = editor[f]
  BY DEF CatalogInv, CatalogTypeOK
<1>5. CatalogTypeOK'
  <2>1. <<"category", c>> \in References /\ blind \subseteq References
    BY DEF References, CatalogInv, CatalogTypeOK
  <2>2. blind' \subseteq References
    BY <2>1, Marks
  <2>3. Off \in EditorState
    BY DEF EditorState
  <2> QED
    BY <2>2, <2>3 DEF CatalogInv, CatalogTypeOK
<1>6. ASSUME NEW f \in Editors PROVE Guarded(f)'
  <2>1. CASE editor'[f] = Off
    <3>1. Off.at = "off"
      BY DEF Off
    <3>2. editor'[f].at = "off"
      BY <2>1, <3>1
    <3> QED
      BY <3>2 DEF Guarded, Removing
  <2>2. CASE editor'[f] = editor[f]
    <3>1. ASSUME Removing(f), NEW d \in CategoryIds, LiveIn(shelf', d), shelf'[d].parent = editor[f].id
          PROVE  <<"category", d>> \in blind'
      <4>1. CASE d # c
        BY <1>1, <1>2, <3>1, <4>1 DEF CatalogInv, Guarded, LiveIn
      <4>2. CASE d = c
        <5>1. editor[f].id \in CategoryIds /\ editor[f].id = parent
          BY <1>1, <3>1, <4>2, Carries DEF CatalogInv
        <5>2. parent # Nowhere
          BY <5>1, NowhereIsNone
        <5> QED
          BY <1>3, <3>1, <4>2, <5>1, <5>2
      <4> QED
        BY <4>1, <4>2
    <3>2. ASSUME editor[f].at = "delete category", NEW p \in ProductIds, LiveIn(product, p), product[p].category = editor[f].id
          PROVE  <<"product", p>> \in blind'
      BY <1>2, <3>2 DEF CatalogInv, Guarded
    <3> QED
      BY <2>2, <3>1, <3>2 DEF Guarded, Removing, LiveIn
  <2> QED
    BY <1>4, <2>1, <2>2
<1>7. CategoriesInUseAreKept'
  <2>1. ASSUME NEW d \in CategoryIds, LiveIn(shelf', d), <<"category", d>> \notin blind'
        PROVE  shelf'[d].parent = Nowhere \/ LiveIn(shelf', shelf'[d].parent)
    <3>1. CASE d = c
      BY <1>1, <1>3, <2>1, <3>1 DEF Parents
    <3>2. CASE d # c
      <4>1. shelf'[d] = shelf[d] /\ LiveIn(shelf, d) /\ <<"category", d>> \notin blind /\ shelf[d].parent \in Parents
        BY <1>1, <1>2, <2>1, <3>2 DEF LiveIn, CatalogInv, CatalogTypeOK, CategoryRow
      <4>2. shelf[d].parent = Nowhere \/ LiveIn(shelf, shelf[d].parent)
        BY <4>1 DEF CatalogInv, CategoriesInUseAreKept
      <4> QED
        BY <4>1, <4>2 DEF Parents
    <3> QED
      BY <3>1, <3>2
  <2>2. ASSUME NEW p \in ProductIds, LiveIn(product, p), <<"product", p>> \notin blind'
        PROVE  product[p].category = Nowhere \/ LiveIn(shelf', product[p].category)
    <3>1. product[p].category \in Parents /\ (product[p].category = Nowhere \/ LiveIn(shelf, product[p].category))
      BY <1>2, <2>2 DEF CatalogInv, CatalogTypeOK, ProductRow, CategoriesInUseAreKept
    <3> QED
      BY <3>1 DEF Parents
  <2> QED
    BY <2>1, <2>2 DEF CategoriesInUseAreKept, LiveIn
<1> QED
  BY <1>5, <1>6, <1>7 DEF CatalogInv

\* A product is created or changed.
LEMMA PlacingProduct ==
  ASSUME CatalogInv, NEW e \in Editors, editor' = [editor EXCEPT ![e] = Off], UNCHANGED <<shelf, hearts, editions>>,
         variant' \in [VariantIds -> VariantRow],
         NEW p \in ProductIds, NEW row \in ProductRow, product' = [product EXCEPT ![p] = row],
         blind' \subseteq blind \union {<<"product", p>>},
         \A x : x # <<"product", p>> => (x \in blind' <=> x \in blind),
         \/ <<"product", p>> \in blind'
         \/ row.category = Nowhere
         \/ row.life # "live"
         \/ /\ LiveIn(shelf, row.category)
            /\ \A f \in Editors : editor[f].at = "delete category" => editor[f].id # row.category
  PROVE  CatalogInv'
<1>1. /\ \A q \in ProductIds : q # p => product'[q] = product[q]
      /\ product'[p] = row
  BY DEF CatalogInv, CatalogTypeOK
<1>2. /\ \A q \in ProductIds : q # p => (<<"product", q>> \in blind' <=> <<"product", q>> \in blind)
      /\ \A d \in CategoryIds : <<"category", d>> \in blind' <=> <<"category", d>> \in blind
  <2>1. \A q : q # p => <<"product", q>> # <<"product", p>>
    OBVIOUS
  <2>2. \A d : <<"category", d>> # <<"product", p>>
    OBVIOUS
  <2> QED
    BY <2>1, <2>2
<1>3. \A f \in Editors : editor'[f] = Off \/ editor'[f] = editor[f]
  BY DEF CatalogInv, CatalogTypeOK
<1>4. CatalogTypeOK'
  <2>1. <<"product", p>> \in References /\ blind \subseteq References
    BY DEF References, CatalogInv, CatalogTypeOK
  <2>2. blind' \subseteq References
    BY <2>1
  <2>3. Off \in EditorState
    BY DEF EditorState
  <2> QED
    BY <2>2, <2>3 DEF CatalogInv, CatalogTypeOK
<1>5. ASSUME NEW f \in Editors PROVE Guarded(f)'
  <2>1. CASE editor'[f] = Off
    <3>1. Off.at = "off"
      BY DEF Off
    <3>2. editor'[f].at = "off"
      BY <2>1, <3>1
    <3> QED
      BY <3>2 DEF Guarded, Removing
  <2>2. CASE editor'[f] = editor[f]
    <3>1. ASSUME Removing(f), NEW d \in CategoryIds, LiveIn(shelf, d), shelf[d].parent = editor[f].id
          PROVE  <<"category", d>> \in blind'
      BY <1>2, <3>1 DEF CatalogInv, Guarded
    <3>2. ASSUME editor[f].at = "delete category", NEW q \in ProductIds, LiveIn(product', q),
                 product'[q].category = editor[f].id
          PROVE  <<"product", q>> \in blind'
      <4>1. CASE q # p
        BY <1>1, <1>2, <3>2, <4>1 DEF CatalogInv, Guarded, LiveIn
      <4>2. CASE q = p
        <5>1. editor[f].id \in CategoryIds /\ row.life = "live" /\ row.category = editor[f].id
          <6>1. CatalogTypeOK /\ Removing(f)
            BY <3>2 DEF CatalogInv, Removing
          <6>2. editor[f].id \in CategoryIds
            BY <6>1, Carries
          <6>3. product'[q] = row
            BY <1>1, <4>2
          <6>4. row.life = "live" /\ row.category = editor[f].id
            BY <3>2, <6>3 DEF LiveIn
          <6> QED
            BY <6>2, <6>4
        <5>2. row.category # Nowhere
          BY <5>1, NowhereIsNone
        <5> QED
          BY <3>2, <4>2, <5>1, <5>2
      <4> QED
        BY <4>1, <4>2
    <3> QED
      BY <2>2, <3>1, <3>2 DEF Guarded, Removing, LiveIn
  <2> QED
    BY <1>3, <2>1, <2>2
<1>6. CategoriesInUseAreKept'
  <2>1. ASSUME NEW d \in CategoryIds, LiveIn(shelf, d), <<"category", d>> \notin blind'
        PROVE  shelf[d].parent = Nowhere \/ LiveIn(shelf, shelf[d].parent)
    BY <1>2, <2>1 DEF CatalogInv, CategoriesInUseAreKept
  <2>2. ASSUME NEW q \in ProductIds, LiveIn(product', q), <<"product", q>> \notin blind'
        PROVE  product'[q].category = Nowhere \/ LiveIn(shelf, product'[q].category)
    <3>1. CASE q = p
      BY <1>1, <2>2, <3>1 DEF LiveIn
    <3>2. CASE q # p
      BY <1>1, <1>2, <2>2, <3>2 DEF CatalogInv, CategoriesInUseAreKept, LiveIn
    <3> QED
      BY <3>1, <3>2
  <2> QED
    BY <2>1, <2>2 DEF CategoriesInUseAreKept, LiveIn
<1> QED
  BY <1>4, <1>5, <1>6 DEF CatalogInv

\* Categories are created, moved and removed.
LEMMA CategoriesKeepCatalog ==
  ASSUME CatalogInv, NEW e \in Editors, CreateCategory(e) \/ UpdateCategory(e) \/ CountProducts(e) \/ RemoveCategory(e)
  PROVE  CatalogInv'
<1>0. CatalogTypeOK /\ Off \in EditorState /\ Off.at = "off"
  BY DEF CatalogInv, EditorState, Off
<1>1. CASE CreateCategory(e)
  <2>1. PICK c \in CategoryIds :
          /\ shelf[c].life = "absent"
          /\ shelf' = [shelf EXCEPT ![c] = [life |-> "live", parent |-> editor[e].parent]]
          /\ blind' = Marked(<<"category", c>>, editor[e].parent)
    BY <1>1 DEF CreateCategory, NextIds
  <2>2. editor[e].parent \in Parents /\ editor' = [editor EXCEPT ![e] = Off] /\ UNCHANGED <<product, variant, hearts, editions>>
    BY <1>0, <1>1, Carries DEF CreateCategory, Ready, Shuts, goods
  <2> DEFINE row == [life |-> "live", parent |-> editor[e].parent]
  <2>3. row \in CategoryRow /\ row.parent = editor[e].parent /\ row.life = "live"
    BY <2>2 DEF CategoryRow, Lives
  <2>4. shelf' = [shelf EXCEPT ![c] = row]
    BY <2>1
  <2> HIDE DEF row
  <2>5. \A d \in CategoryIds : LiveIn(shelf, d) => LiveIn(shelf', d)
    BY <1>0, <2>3, <2>4 DEF CatalogTypeOK, LiveIn
  <2> DEFINE parent == editor[e].parent
  <2>6. parent \in Parents /\ row.parent = parent /\ blind' = Marked(<<"category", c>>, parent)
    BY <2>1, <2>2, <2>3
  <2> HIDE DEF parent
  <2> QED
    BY <2>2, <2>3, <2>4, <2>5, <2>6, PlacingCategory
<1>2. CASE UpdateCategory(e)
  <2> DEFINE c == editor[e].id
             parent == editor[e].parent
             row == [life |-> shelf[c].life, parent |-> parent]
  <2>1. /\ c \in CategoryIds /\ parent \in Parents /\ editor' = [editor EXCEPT ![e] = Off]
        /\ UNCHANGED <<product, variant, hearts, editions>>
    BY <1>0, <1>2, Carries DEF UpdateCategory, Ready, Shuts, goods
  <2>2. CASE parent = editor[e].copy
    <3>1. UNCHANGED <<shelf, blind>>
      BY <1>2, <2>2 DEF UpdateCategory
    <3> HIDE DEF c, parent
    <3> QED
      BY <1>0, <2>1, <3>1, PassingBy DEF CatalogTypeOK
  <2>3. CASE parent # editor[e].copy
    <3>1. shelf' = [shelf EXCEPT ![c].parent = parent] /\ blind' = Marked(<<"category", c>>, parent)
      BY <1>2, <2>3 DEF UpdateCategory
    <3>2. shelf[c] \in CategoryRow
      BY <1>0, <2>1 DEF CatalogTypeOK
    <3>3. row \in CategoryRow /\ row.parent = parent /\ row.life = shelf[c].life /\ [shelf[c] EXCEPT !.parent = parent] = row
      BY <2>1, <3>2 DEF CategoryRow
    <3>4. shelf' = [shelf EXCEPT ![c] = row]
      BY <3>1, <3>3
    <3> HIDE DEF c, parent, row
    <3>5. \A d \in CategoryIds : LiveIn(shelf, d) => LiveIn(shelf', d)
      BY <1>0, <3>3, <3>4 DEF CatalogTypeOK, LiveIn
    <3> QED
      BY <2>1, <3>1, <3>3, <3>4, <3>5, PlacingCategory
  <2> QED
    BY <2>2, <2>3
<1>3. CASE CountProducts(e)
  <2> DEFINE c == editor[e].id
             q == IF ProductsIn(c) = {} THEN [at |-> "delete category", id |-> c] ELSE Off
  <2>1. editor[e].at = "count products" /\ editor' = [editor EXCEPT ![e] = q] /\ UNCHANGED <<shelf, product, variant, hearts, editions, blind>>
    BY <1>3 DEF CountProducts, Ready, goods
  <2>2. c \in CategoryIds
    BY <1>0, <2>1, Carries DEF Removing
  <2>3. q \in EditorState /\ (q # Off => q.at = "delete category" /\ q.id = c /\ ProductsIn(c) = {})
    BY <2>2 DEF EditorState, Off
  <2>4. Guarded(e) /\ Removing(e)
    BY <2>1 DEF CatalogInv, Removing
  <2> HIDE DEF q
  <2>5. editor'[e] = q
    BY <1>0, <2>1 DEF CatalogTypeOK
  <2>6. Guarded(e)'
    <3>1. CASE q = Off
      <4>1. editor'[e].at = "off"
        BY <1>0, <2>5, <3>1
      <4> QED
        BY <4>1 DEF Guarded, Removing
    <3>2. CASE q # Off
      BY <2>1, <2>3, <2>4, <2>5, <3>2 DEF Guarded, Removing, ProductsIn, LiveIn
    <3> QED
      BY <3>1, <3>2
  <2> QED
    BY <1>0, <2>1, <2>3, <2>6, MovingOn DEF CatalogTypeOK
<1>4. CASE RemoveCategory(e)
  <2> DEFINE c == editor[e].id
  <2>1. /\ editor[e].at = "delete category" /\ editor' = [editor EXCEPT ![e] = Off]
        /\ shelf' = [shelf EXCEPT ![c].life = "deleted"]
        /\ UNCHANGED <<product, variant, hearts, editions, blind>>
    BY <1>4 DEF RemoveCategory, Ready, Shuts, goods
  <2>2. c \in CategoryIds /\ Guarded(e)
    BY <1>0, <2>1, Carries DEF Removing, CatalogInv
  <2> HIDE DEF c
  <2>3. /\ \A d \in CategoryIds : d # c => shelf'[d] = shelf[d]
        /\ ~LiveIn(shelf', c) /\ shelf'[c].parent = shelf[c].parent /\ shelf' \in [CategoryIds -> CategoryRow]
    BY <1>0, <2>1, <2>2 DEF CatalogTypeOK, CategoryRow, Lives, LiveIn
  <2>4. CatalogTypeOK'
    BY <1>0, <2>1, <2>3 DEF CatalogTypeOK
  <2>5. ASSUME NEW f \in Editors PROVE Guarded(f)'
    <3>1. CASE f = e
      <4>1. editor'[f].at = "off"
        BY <1>0, <2>1, <3>1 DEF CatalogTypeOK
      <4> QED
        BY <4>1 DEF Guarded, Removing
    <3>2. CASE f # e
      <4>1. editor'[f] = editor[f]
        BY <1>0, <2>1, <3>2 DEF CatalogTypeOK
      <4>2. \A d \in CategoryIds : LiveIn(shelf', d) => LiveIn(shelf, d) /\ shelf'[d].parent = shelf[d].parent
        BY <2>3 DEF LiveIn
      <4>3. Guarded(f)
        BY DEF CatalogInv
      <4> QED
        BY <2>1, <4>1, <4>2, <4>3 DEF Guarded, Removing, LiveIn
    <3> QED
      BY <3>1, <3>2
  <2>6. CategoriesInUseAreKept'
    <3>1. ASSUME NEW d \in CategoryIds, LiveIn(shelf', d), <<"category", d>> \notin blind
          PROVE  shelf'[d].parent = Nowhere \/ LiveIn(shelf', shelf'[d].parent)
      <4>1. d # c /\ shelf'[d] = shelf[d] /\ LiveIn(shelf, d) /\ shelf[d].parent \in Parents
        BY <1>0, <2>3, <3>1 DEF LiveIn, CatalogTypeOK, CategoryRow
      <4>2. shelf[d].parent = Nowhere \/ LiveIn(shelf, shelf[d].parent)
        BY <3>1, <4>1 DEF CatalogInv, CategoriesInUseAreKept
      <4>3. shelf[d].parent # c
        BY <2>1, <2>2, <3>1, <4>1 DEF Guarded, Removing, c
      <4> QED
        BY <2>3, <4>1, <4>2, <4>3 DEF Parents, LiveIn
    <3>2. ASSUME NEW p \in ProductIds, LiveIn(product, p), <<"product", p>> \notin blind
          PROVE  product[p].category = Nowhere \/ LiveIn(shelf', product[p].category)
      <4>1. product[p].category \in Parents /\ (product[p].category = Nowhere \/ LiveIn(shelf, product[p].category))
        BY <1>0, <3>2 DEF CatalogInv, CatalogTypeOK, ProductRow, CategoriesInUseAreKept
      <4>2. product[p].category # c
        BY <2>1, <2>2, <3>2 DEF Guarded, c
      <4> QED
        BY <2>3, <4>1, <4>2 DEF Parents, LiveIn
    <3> QED
      BY <2>1, <3>1, <3>2 DEF CategoriesInUseAreKept, LiveIn
  <2> QED
    BY <2>4, <2>5, <2>6 DEF CatalogInv
<1> QED
  BY <1>1, <1>2, <1>3, <1>4

\* Products, variants and wishlists are written.
LEMMA ProductsKeepCatalog ==
  ASSUME CatalogInv, NEW e \in Editors,
         \/ CreateProduct(e) \/ UpdateProduct(e) \/ RemoveProduct(e)
         \/ AddVariant(e) \/ SeedStock(e) \/ SeedingFails(e) \/ RemoveVariant(e)
         \/ AddHeart(e) \/ RemoveHeart(e) \/ EditorDies(e)
  PROVE  CatalogInv'
<1>0. /\ CatalogTypeOK /\ Off \in EditorState /\ Off.at = "off"
      /\ variant \in [VariantIds -> VariantRow] /\ hearts \subseteq ProductIds /\ editions \in 0..MaxEditions
  BY DEF CatalogInv, CatalogTypeOK, EditorState, Off
<1>1. CASE CreateProduct(e)
  <2> DEFINE category == editor[e].category
             row == [life |-> "live", category |-> category, status |-> editor[e].status]
             vs == NextIds(variant, VariantIds, editor[e].variants)
  <2>1. PICK p \in ProductIds :
          /\ product' = [product EXCEPT ![p] = row]
          /\ variant' = [v \in VariantIds |-> IF v \in vs THEN [life |-> "live", product |-> p, stocked |-> TRUE] ELSE variant[v]]
          /\ blind' = Marked(<<"product", p>>, category)
    BY <1>1 DEF CreateProduct, NextIds
  <2>2. /\ category \in Parents /\ editor[e].status \in ProductStatus
        /\ editor' = [editor EXCEPT ![e] = Off] /\ UNCHANGED <<shelf, hearts, editions>>
    BY <1>0, <1>1, Carries DEF CreateProduct, Ready, Shuts
  <2>3. row \in ProductRow /\ row.category = category
    BY <2>2 DEF ProductRow, Lives
  <2>4. variant' \in [VariantIds -> VariantRow]
    <3>1. [life |-> "live", product |-> p, stocked |-> TRUE] \in VariantRow
      BY DEF VariantRow, Lives
    <3> HIDE DEF vs
    <3> QED
      BY <1>0, <2>1, <3>1
  <2> HIDE DEF row, category
  <2>5. /\ blind' \subseteq blind \union {<<"product", p>>}
        /\ \A x : x # <<"product", p>> => (x \in blind' <=> x \in blind)
        /\ \/ <<"product", p>> \in blind'
           \/ row.category = Nowhere
           \/ /\ LiveIn(shelf, row.category)
              /\ \A f \in Editors : editor[f].at = "delete category" => editor[f].id # row.category
    BY <2>1, <2>2, <2>3, Marks DEF Removing
  <2> QED
    BY <2>1, <2>2, <2>3, <2>4, <2>5, PlacingProduct
<1>2. CASE UpdateProduct(e)
  <2> DEFINE p == editor[e].id
             category == editor[e].category
             moves == category # editor[e].copy.category
             row == [life |-> product[p].life, category |-> IF moves THEN category ELSE product[p].category,
                     status |-> IF editor[e].status # editor[e].copy.status THEN editor[e].status ELSE product[p].status]
  <2>1. /\ p \in ProductIds /\ category \in Parents /\ editor[e].status \in ProductStatus
        /\ editor' = [editor EXCEPT ![e] = Off] /\ UNCHANGED <<shelf, variant, hearts, editions>>
    BY <1>0, <1>2, Carries DEF UpdateProduct, Ready, Shuts
  <2>2. /\ product' = [product EXCEPT
              ![p].category = IF moves THEN category ELSE @,
              ![p].status = IF editor[e].status # editor[e].copy.status THEN editor[e].status ELSE @]
        /\ blind' = IF moves THEN Marked(<<"product", p>>, category) ELSE blind
    BY <1>2 DEF UpdateProduct
  <2>3. product \in [ProductIds -> ProductRow] /\ product[p] \in ProductRow
    BY <1>0, <2>1 DEF CatalogTypeOK
  <2>4. row \in ProductRow /\ product' = [product EXCEPT ![p] = row] /\ row.life = product[p].life
        /\ row.category = (IF moves THEN category ELSE product[p].category)
    <3> DEFINE c == IF moves THEN category ELSE product[p].category
               status == IF editor[e].status # editor[e].copy.status THEN editor[e].status ELSE product[p].status
    <3>1. /\ product[p].life \in Lives /\ product[p].category \in Parents /\ product[p].status \in ProductStatus
          /\ product[p] = [life |-> product[p].life, category |-> product[p].category, status |-> product[p].status]
      BY <2>3 DEF ProductRow
    <3>2. c \in Parents /\ status \in ProductStatus
      BY <2>1, <3>1
    <3>3. product' = [product EXCEPT ![p] = [product[p] EXCEPT !.category = c, !.status = status]]
      BY <2>1, <2>2, <2>3
    <3> DEFINE moved == [life |-> product[p].life, category |-> c, status |-> product[p].status]
    <3> HIDE DEF c, status, p, row
    <3>4. [product[p] EXCEPT !.category = c, !.status = status] = [life |-> product[p].life, category |-> c, status |-> status]
      <4>1. [product[p] EXCEPT !.category = c] = moved
        BY <3>1
      <4>2. [moved EXCEPT !.status = status] = [life |-> product[p].life, category |-> c, status |-> status]
        OBVIOUS
      <4>3. [product[p] EXCEPT !.category = c, !.status = status] = [[product[p] EXCEPT !.category = c] EXCEPT !.status = status]
        BY Zenon
      <4> QED
        BY <4>1, <4>2, <4>3, Zenon
    <3>5. row = [life |-> product[p].life, category |-> c, status |-> status]
      BY DEF c, status, row
    <3>6. row \in ProductRow /\ row.life = product[p].life /\ row.category = c
      BY <3>1, <3>2, <3>5 DEF ProductRow
    <3> QED
      BY <3>3, <3>4, <3>5, <3>6 DEF c
  <2> HIDE DEF row, p, category, moves
  <2>5. /\ blind' \subseteq blind \union {<<"product", p>>}
        /\ \A x : x # <<"product", p>> => (x \in blind' <=> x \in blind)
        /\ \/ <<"product", p>> \in blind'
           \/ row.category = Nowhere
           \/ row.life # "live"
           \/ /\ LiveIn(shelf, row.category)
              /\ \A f \in Editors : editor[f].at = "delete category" => editor[f].id # row.category
    <3>1. CASE moves
      BY <2>1, <2>2, <2>4, <3>1, Marks DEF Removing
    <3>2. CASE ~moves
      <4>1. blind' = blind /\ row.category = product[p].category
        BY <2>2, <2>4, <3>2
      <4>2. LiveIn(product, p) /\ <<"product", p>> \notin blind =>
              /\ product[p].category = Nowhere \/ LiveIn(shelf, product[p].category)
              /\ \A f \in Editors : editor[f].at = "delete category" => editor[f].id # product[p].category
        BY <2>1 DEF CatalogInv, CategoriesInUseAreKept, Guarded
      <4> QED
        BY <2>4, <4>1, <4>2 DEF LiveIn
    <3> QED
      BY <3>1, <3>2
  <2> QED
    BY <1>0, <2>1, <2>4, <2>5, PlacingProduct
<1>3. CASE RemoveProduct(e)
  <2> DEFINE p == editor[e].id
             row == [life |-> "deleted", category |-> product[p].category, status |-> product[p].status]
  <2>1. /\ p \in ProductIds /\ editor' = [editor EXCEPT ![e] = Off] /\ UNCHANGED <<shelf, variant, hearts, editions, blind>>
        /\ product' = [product EXCEPT ![p].life = "deleted"]
    BY <1>0, <1>3, Carries DEF RemoveProduct, Ready, Shuts
  <2>2. product \in [ProductIds -> ProductRow] /\ product[p] \in ProductRow
    BY <1>0, <2>1 DEF CatalogTypeOK
  <2>3. row \in ProductRow /\ product' = [product EXCEPT ![p] = row] /\ row.life # "live"
    <3>1. /\ product[p].category \in Parents /\ product[p].status \in ProductStatus
          /\ product[p] = [life |-> product[p].life, category |-> product[p].category, status |-> product[p].status]
      BY <2>2 DEF ProductRow
    <3> HIDE DEF p
    <3>2. [product[p] EXCEPT !.life = "deleted"] = row
      BY <3>1
    <3>3. row \in ProductRow /\ row.life # "live"
      BY <3>1 DEF ProductRow, Lives
    <3> QED
      BY <2>1, <3>2, <3>3
  <2> HIDE DEF row, p
  <2> QED
    BY <1>0, <2>1, <2>3, PlacingProduct
<1>4. CASE AddVariant(e)
  <2>1. PICK v \in VariantIds :
          /\ variant' = [variant EXCEPT ![v] = [life |-> "live", product |-> editor[e].id, stocked |-> FALSE]]
          /\ editor' = [editor EXCEPT ![e] = [at |-> "seed stock", id |-> v]]
    BY <1>4 DEF AddVariant, NextIds
  <2>2. editor[e].id \in ProductIds /\ UNCHANGED <<shelf, product, hearts, editions, blind>>
    BY <1>0, <1>4, Carries DEF AddVariant, Ready
  <2>3. [life |-> "live", product |-> editor[e].id, stocked |-> FALSE] \in VariantRow
    BY <2>2 DEF VariantRow, Lives
  <2> DEFINE q == [at |-> "seed stock", id |-> v]
  <2>4. q \in EditorState /\ q.at = "seed stock" /\ editor' = [editor EXCEPT ![e] = q]
    BY <2>1 DEF EditorState
  <2> HIDE DEF q
  <2>5. variant' \in [VariantIds -> VariantRow]
    BY <1>0, <2>1, <2>3
  <2> QED
    BY <1>0, <2>2, <2>4, <2>5, PassingBy
<1>5. CASE SeedStock(e) \/ RemoveVariant(e)
  <2>1. /\ editor' = [editor EXCEPT ![e] = Off] /\ UNCHANGED <<shelf, product, hearts, editions, blind>>
        /\ \/ variant' = [variant EXCEPT ![editor[e].id].stocked = TRUE]
           \/ variant' = [variant EXCEPT ![editor[e].id].life = "deleted"]
    BY <1>5 DEF SeedStock, RemoveVariant, Shuts
  <2>2. editor[e].id \in VariantIds
    BY <1>0, <1>5, Carries DEF SeedStock, RemoveVariant, Ready
  <2>3. variant' \in [VariantIds -> VariantRow]
    BY <1>0, <2>1, <2>2 DEF VariantRow, Lives
  <2> QED
    BY <1>0, <2>1, <2>3, PassingBy
<1>6. CASE SeedingFails(e) \/ EditorDies(e)
  <2>1. editor' = [editor EXCEPT ![e] = Off] /\ UNCHANGED <<shelf, product, variant, hearts, editions, blind>>
    BY <1>6 DEF SeedingFails, EditorDies, Shuts, goods
  <2> QED
    BY <1>0, <2>1, PassingBy
<1>7. CASE AddHeart(e) \/ RemoveHeart(e)
  <2>1. /\ editor' = [editor EXCEPT ![e] = Off] /\ UNCHANGED <<shelf, product, variant, editions, blind>>
        /\ hearts' \subseteq hearts \union {editor[e].id}
    BY <1>7 DEF AddHeart, RemoveHeart, Shuts
  <2>2. editor[e].id \in ProductIds
    BY <1>0, <1>7, Carries DEF AddHeart, RemoveHeart, Ready
  <2> QED
    BY <1>0, <2>1, <2>2, PassingBy
<1> QED
  BY <1>1, <1>2, <1>3, <1>4, <1>5, <1>6, <1>7

\* No category is deleted from under what is in it, whatever the number of categories,
\* products and requests, except from under what its removal cannot have seen.
THEOREM CategoriesStay == CatalogSpec => [](CatalogTypeOK /\ CategoriesInUseAreKept)
<1>1. CatalogInit => CatalogInv
  <2> SUFFICES ASSUME CatalogInit PROVE CatalogInv
    OBVIOUS
  <2>1. CatalogTypeOK
    <3>1. 0 \in 0..MaxEditions /\ Off \in EditorState
      BY CatalogAssumption DEF EditorState
    <3>2. [life |-> "absent", parent |-> Nowhere] \in CategoryRow
      BY DEF CategoryRow, Lives, Parents
    <3>3. [life |-> "absent", category |-> Nowhere, status |-> "DRAFT"] \in ProductRow
      BY DEF ProductRow, Lives, Parents, ProductStatus
    <3>4. [life |-> "absent", product |-> 0, stocked |-> FALSE] \in VariantRow
      BY DEF VariantRow, Lives
    <3> QED
      BY <3>1, <3>2, <3>3, <3>4 DEF CatalogInit, CatalogTypeOK
  <2>2. \A e \in Editors : Guarded(e)
    BY DEF CatalogInit, Guarded, Removing, Off
  <2>3. CategoriesInUseAreKept
    BY DEF CatalogInit, CategoriesInUseAreKept, LiveIn
  <2> QED
    BY <2>1, <2>2, <2>3 DEF CatalogInv
<1>2. CatalogInv /\ [CatalogNext]_catalogVars => CatalogInv'
  <2> SUFFICES ASSUME CatalogInv, [CatalogNext]_catalogVars PROVE CatalogInv'
    OBVIOUS
  <2>1. CASE UNCHANGED catalogVars
    <3>1. UNCHANGED <<shelf, product, variant, hearts, editor, editions, blind>>
      BY <2>1 DEF catalogVars
    <3> QED
      BY <3>1 DEF CatalogInv, CatalogTypeOK, Guarded, Removing, CategoriesInUseAreKept, LiveIn
  <2>2. ASSUME NEW e \in Editors,
               CategoryRequest(e) \/ ProductRequest(e) \/ WishlistRequest(e) \/ CatalogWrite(e) \/ EditorDies(e)
        PROVE  CatalogInv'
    BY <2>2, RequestsKeepCatalog, CategoriesKeepCatalog, ProductsKeepCatalog DEF CatalogWrite
  <2> QED
    BY <2>1, <2>2 DEF CatalogNext
<1>3. CatalogInv => CatalogTypeOK /\ CategoriesInUseAreKept
  BY DEF CatalogInv
<1> QED
  BY <1>1, <1>2, <1>3, PTL DEF CatalogSpec

-----------------------------------------------------------------------------
\* Addresses: what a request has read is how it is, unless somebody was quicker.

\* What a request read about the addresses, when no other request has changed them since.
UpToDate(c) ==
  caller[c] # Away /\ ~caller[c].overtaken =>
    /\ caller[c].at = "add" => (caller[c].first <=> Live = {})
    /\ caller[c].at # "add" => caller[c].id \in Live /\ caller[c].copy = address[caller[c].id].defaults
    /\ caller[c].at = "promote" =>
         /\ caller[c].next = Newest(Live \ {caller[c].id})
         /\ caller[c].next # 0 => caller[c].seen = address[caller[c].next].defaults

\* Requests are about addresses that were entered.
Entered(c) ==
  /\ caller[c].at \in {"update", "remove", "promote"} => caller[c].id \in DOMAIN address
  /\ caller[c].at = "promote" => caller[c].next \in DOMAIN address \union {0}

AddressesInv == AddressesTypeOK /\ (\A c \in Callers : UpToDate(c) /\ Entered(c)) /\ DefaultsAreKept

\* A set of numbers up to n has a largest one.
LEMMA LargestIsIn ==
  ASSUME NEW n \in Nat, NEW S \in SUBSET (1..n), S # {}
  PROVE  Max(S) \in S
<1> DEFINE T == {n - x : x \in S}
<1>1. T \subseteq Nat /\ T # {}
  <2>1. \A x \in S : n - x \in Nat
    OBVIOUS
  <2>2. PICK s \in S : TRUE
    OBVIOUS
  <2>3. n - s \in T
    BY <2>2
  <2> QED
    BY <2>1, <2>3
<1>2. PICK t \in T : \A u \in T : ~(<<u, t>> \in OpToRel(<,Nat))
  BY <1>1, NatLessThanWellFounded, WFMin, Zenon
<1>3. \A u \in T : ~(u < t)
  BY <1>1, <1>2 DEF OpToRel
<1>4. PICK x \in S : t = n - x
  OBVIOUS
<1>5. \A y \in S : x >= y
  BY <1>3, <1>4
<1> QED
  BY <1>5, Zenon DEF Max

\* The rows are numbered from 1.
LEMMA Numbered ==
  ASSUME AddressesTypeOK
  PROVE  /\ Len(address) \in 0..MaxAddresses /\ DOMAIN address = 1..Len(address)
         /\ address \in [1..Len(address) -> Address]
         /\ Live \subseteq 1..Len(address) /\ 1..Len(address) \subseteq AddressIds
BY AddressesAssumption DEF AddressesTypeOK, Live, AddressIds

\* What a request at a step carries.
LEMMA Asked ==
  ASSUME AddressesTypeOK, NEW c \in Callers
  PROVE  /\ caller[c].at \in {"away", "add", "update", "remove", "promote"}
         /\ caller[c] = Away <=> caller[c].at = "away"
         /\ caller[c].at = "add" =>
              /\ caller[c].claims \subseteq Uses
              /\ caller[c] = [at |-> "add", first |-> caller[c].first, claims |-> caller[c].claims,
                              overtaken |-> caller[c].overtaken]
         /\ caller[c].at = "update" =>
              /\ caller[c].id \in AddressIds /\ caller[c].claims \subseteq Uses /\ caller[c].drops \subseteq Uses
              /\ caller[c].copy \subseteq Uses
         /\ caller[c].at = "remove" => caller[c].id \in AddressIds /\ caller[c].copy \subseteq Uses
         /\ caller[c].at = "promote" =>
              /\ caller[c].id \in AddressIds /\ caller[c].copy \subseteq Uses /\ caller[c].seen \subseteq Uses
              /\ caller[c].next \in 0..MaxAddresses
         /\ caller[c].at # "away" => caller[c].overtaken \in BOOLEAN
<1>1. caller[c] \in CallerState
  BY DEF AddressesTypeOK
<1>2. CASE caller[c] = Away
  BY <1>2 DEF Away
<1>3. CASE caller[c] \in [at : {"add"}, first : BOOLEAN, claims : SUBSET Uses, overtaken : BOOLEAN]
  BY <1>3 DEF Away, CallerState
<1>4. CASE caller[c] \in [at : {"update"}, id : AddressIds, copy : SUBSET Uses, claims : SUBSET Uses,
                          drops : SUBSET Uses, overtaken : BOOLEAN]
  BY <1>4 DEF Away, CallerState
<1>5. CASE caller[c] \in [at : {"remove"}, id : AddressIds, copy : SUBSET Uses, overtaken : BOOLEAN]
  BY <1>5 DEF Away, CallerState
<1>6. CASE caller[c] \in [at : {"promote"}, id : AddressIds, copy : SUBSET Uses, next : 0..MaxAddresses,
                          seen : SUBSET Uses, overtaken : BOOLEAN]
  BY <1>6 DEF Away, CallerState
<1> QED
  BY <1>1, <1>2, <1>3, <1>4, <1>5, <1>6 DEF CallerState

\* A request that is overtaken keeps all it has read.
LEMMA Overtaking ==
  ASSUME AddressesTypeOK, NEW c \in Callers, caller[c] # Away, NEW b \in BOOLEAN, NEW q,
         q = [caller[c] EXCEPT !.overtaken = @ \/ b]
  PROVE  /\ q \in CallerState /\ q.at = caller[c].at /\ q.overtaken = (caller[c].overtaken \/ b)
         /\ q.at = "add" => q.first = caller[c].first
         /\ q.at # "add" => q.id = caller[c].id /\ q.copy = caller[c].copy
         /\ q.at = "promote" => q.next = caller[c].next /\ q.seen = caller[c].seen
<1>1. caller[c] \in CallerState
  BY DEF AddressesTypeOK
<1>3. CASE caller[c] \in [at : {"add"}, first : BOOLEAN, claims : SUBSET Uses, overtaken : BOOLEAN]
  BY <1>3 DEF CallerState
<1>4. CASE caller[c] \in [at : {"update"}, id : AddressIds, copy : SUBSET Uses, claims : SUBSET Uses,
                          drops : SUBSET Uses, overtaken : BOOLEAN]
  BY <1>4 DEF CallerState
<1>5. CASE caller[c] \in [at : {"remove"}, id : AddressIds, copy : SUBSET Uses, overtaken : BOOLEAN]
  BY <1>5 DEF CallerState
<1>6. CASE caller[c] \in [at : {"promote"}, id : AddressIds, copy : SUBSET Uses, next : 0..MaxAddresses,
                          seen : SUBSET Uses, overtaken : BOOLEAN]
  BY <1>6 DEF CallerState
<1> QED
  BY <1>1, <1>3, <1>4, <1>5, <1>6 DEF CallerState

\* A request that begins or goes on leaves the addresses alone.
LEMMA ReadingKeepsAddresses ==
  ASSUME AddressesInv, NEW c \in Callers, NEW q \in CallerState, caller' = [caller EXCEPT ![c] = q],
         UNCHANGED <<address, waived>>, calls' \in 0..MaxCalls,
         (UpToDate(c) /\ Entered(c))'
  PROVE  AddressesInv'
<1>1. Live' = Live
  BY DEF Live
<1>2. AddressesTypeOK'
  BY DEF AddressesInv, AddressesTypeOK
<1>3. ASSUME NEW d \in Callers PROVE (UpToDate(d) /\ Entered(d))'
  <2>1. CASE d = c
    BY <2>1
  <2>2. CASE d # c
    <3>1. caller'[d] = caller[d]
      BY <2>2 DEF AddressesInv, AddressesTypeOK
    <3> QED
      BY <1>1, <3>1 DEF AddressesInv, UpToDate, Entered
  <2> QED
    BY <2>1, <2>2
<1>4. DefaultsAreKept'
  BY <1>1 DEF AddressesInv, DefaultsAreKept
<1> QED
  BY <1>2, <1>3, <1>4 DEF AddressesInv

\* The requests of the controller.
LEMMA AskingKeepsAddresses ==
  ASSUME AddressesInv, NEW c \in Callers, AddressRequest(c) \/ CallDies(c) \/ DestroyAddress(c)
  PROVE  AddressesInv'
<1>0. /\ caller \in [Callers -> CallerState] /\ Len(address) \in Nat /\ DOMAIN address = 1..Len(address)
      /\ address \in [1..Len(address) -> Address] /\ Live \subseteq 1..Len(address)
      /\ 1..Len(address) \subseteq AddressIds /\ 1..Len(address) \subseteq 0..MaxAddresses
  <2>1. AddressesTypeOK
    BY DEF AddressesInv
  <2>2. caller \in [Callers -> CallerState]
    BY <2>1 DEF AddressesTypeOK
  <2>3. Len(address) \in 0..MaxAddresses /\ MaxAddresses \in Nat
    BY <2>1, Numbered, AddressesAssumption
  <2>4. Len(address) \in Nat /\ 1..Len(address) \subseteq 0..MaxAddresses
    BY <2>3
  <2> QED
    BY <2>1, <2>2, <2>4, Numbered
<1>1. \A i \in Live : address[i].defaults \subseteq Uses
  BY <1>0 DEF Address
<1>2. CASE CallDies(c)
  <2>1. Away \in CallerState /\ caller' = [caller EXCEPT ![c] = Away] /\ UNCHANGED <<address, calls, waived>>
    BY <1>2 DEF CallDies, CallerState
  <2>2. caller'[c] = Away /\ Away.at = "away"
    BY <1>0, <2>1 DEF Away
  <2>3. (UpToDate(c) /\ Entered(c))'
    BY <2>2 DEF UpToDate, Entered
  <2> QED
    BY <2>1, <2>3, ReadingKeepsAddresses DEF AddressesInv, AddressesTypeOK
<1>3. CASE AddressRequest(c)
  <2>1. PICK q \in CallerState :
          /\ Calls(c, q)
          /\ \/ q.at = "add" /\ (q.first <=> Live = {})
             \/ q.at \in {"update", "remove"} /\ q.id \in Live /\ q.copy = address[q.id].defaults
    <3>1. ASSUME NEW claims \in SUBSET Uses, CountAddresses(c, claims)
          PROVE  \E q \in CallerState : Calls(c, q) /\ q.at = "add" /\ (q.first <=> Live = {})
      <4> DEFINE q == [at |-> "add", first |-> Live = {}, claims |-> claims, overtaken |-> FALSE]
      <4>1. q \in CallerState /\ q.at = "add" /\ (q.first <=> Live = {})
        BY DEF CallerState
      <4>2. Calls(c, q)
        BY <3>1 DEF CountAddresses
      <4> QED
        BY <4>1, <4>2
    <3>2. ASSUME NEW i \in Live, NEW claims \in SUBSET Uses, NEW drops \in SUBSET Uses,
                 FindAddressToUpdate(c, i, claims, drops)
          PROVE  \E q \in CallerState : Calls(c, q) /\ q.at = "update" /\ q.id \in Live /\ q.copy = address[q.id].defaults
      <4> DEFINE q == [at |-> "update", id |-> i, copy |-> address[i].defaults, claims |-> claims, drops |-> drops,
                       overtaken |-> FALSE]
      <4>1. q \in CallerState /\ q.at = "update" /\ q.id \in Live /\ q.copy = address[q.id].defaults
        BY <1>0, <1>1 DEF CallerState
      <4>2. Calls(c, q)
        BY <3>2 DEF FindAddressToUpdate
      <4> QED
        BY <4>1, <4>2
    <3>3. ASSUME NEW i \in Live, FindAddressToRemove(c, i)
          PROVE  \E q \in CallerState : Calls(c, q) /\ q.at = "remove" /\ q.id \in Live /\ q.copy = address[q.id].defaults
      <4> DEFINE q == [at |-> "remove", id |-> i, copy |-> address[i].defaults, overtaken |-> FALSE]
      <4>1. q \in CallerState /\ q.at = "remove" /\ q.id \in Live /\ q.copy = address[q.id].defaults
        BY <1>0, <1>1 DEF CallerState
      <4>2. Calls(c, q)
        BY <3>3 DEF FindAddressToRemove
      <4> QED
        BY <4>1, <4>2
    <3> QED
      BY <1>3, <3>1, <3>2, <3>3 DEF AddressRequest
  <2>2. caller' = [caller EXCEPT ![c] = q] /\ UNCHANGED <<address, waived>> /\ calls' \in 0..MaxCalls /\ caller'[c] = q
    BY <1>0, <2>1, AddressesAssumption DEF Calls, AddressesInv, AddressesTypeOK
  <2>3. (UpToDate(c) /\ Entered(c))'
    BY <1>0, <2>1, <2>2 DEF UpToDate, Entered, Live
  <2> QED
    BY <2>2, <2>3, ReadingKeepsAddresses
<1>4. CASE DestroyAddress(c)
  <2> DEFINE i == caller[c].id
             rest == Live \ {i}
             next == Newest(rest)
             q == [at |-> "promote", id |-> i, copy |-> caller[c].copy, next |-> next,
                   seen |-> IF next = 0 THEN {} ELSE address[next].defaults, overtaken |-> caller[c].overtaken]
  <2>1. /\ caller[c].at = "remove" /\ caller' = [caller EXCEPT ![c] = q] /\ UNCHANGED <<address, calls, waived>>
    BY <1>4 DEF DestroyAddress
  <2>2. i \in AddressIds /\ i \in DOMAIN address /\ caller[c].copy \subseteq Uses /\ caller[c].overtaken \in BOOLEAN
    BY <2>1, Asked DEF AddressesInv, Entered
  <2>3. next = 0 \/ next \in rest
    <3>1. rest \in SUBSET (1..Len(address))
      BY <1>0
    <3> HIDE DEF rest
    <3> QED
      BY <1>0, <3>1, LargestIsIn DEF Newest
  <2> HIDE DEF next
  <2>4. next \in DOMAIN address \union {0} /\ next \in 0..MaxAddresses /\ (next # 0 => address[next].defaults \subseteq Uses)
    <3>1. next = 0 \/ next \in Live
      BY <2>3
    <3>2. CASE next = 0
      BY <3>2, AddressesAssumption
    <3>3. CASE next \in Live
      <4> HIDE DEF q
      <4>1. next \in 1..Len(address) /\ address[next].defaults \subseteq Uses
        BY <1>0, <1>1, <3>3
      <4> QED
        BY <1>0, <4>1
    <3> QED
      BY <3>1, <3>2, <3>3
  <2>5. q \in CallerState
    BY <2>2, <2>4 DEF CallerState
  <2>6. caller'[c] = q
    BY <1>0, <2>1
  <2>7. UpToDate(c) /\ caller[c] # Away
    BY <2>1, Asked DEF AddressesInv
  <2>8. (UpToDate(c) /\ Entered(c))'
    <3>1. /\ q.at = "promote" /\ q.id = i /\ q.copy = caller[c].copy /\ q.next = next
          /\ q.overtaken = caller[c].overtaken /\ (next # 0 => q.seen = address[next].defaults)
      OBVIOUS
    <3> HIDE DEF q
    <3>2. Entered(c)'
      BY <2>1, <2>2, <2>4, <2>6, <3>1 DEF Entered
    <3>3. Live' = Live
      BY <2>1 DEF Live
    <3>4. ~caller[c].overtaken => i \in Live /\ caller[c].copy = address[i].defaults
      BY <2>1, <2>7 DEF UpToDate
    <3>5. UpToDate(c)'
      BY <2>1, <2>6, <3>1, <3>3, <3>4 DEF UpToDate, next
    <3> QED
      BY <3>2, <3>5
  <2> QED
    BY <2>1, <2>5, <2>8, ReadingKeepsAddresses DEF AddressesInv, AddressesTypeOK
<1> QED
  BY <1>2, <1>3, <1>4

\* clearDefaults takes uses from the live rows other than one.
LEMMA Clears ==
  ASSUME NEW n \in Nat, NEW rows \in [1..n -> Address], NEW uses, NEW i
  PROVE  /\ Cleared(rows, uses, i) \in [1..n -> Address]
         /\ \A j \in 1..n : Cleared(rows, uses, i)[j].live = rows[j].live
         /\ \A j \in 1..n : rows[j].live /\ j # i => Cleared(rows, uses, i)[j].defaults = rows[j].defaults \ uses
         /\ \A j \in 1..n : j = i \/ ~rows[j].live => Cleared(rows, uses, i)[j].defaults = rows[j].defaults
<1>1. ASSUME NEW j \in 1..n
      PROVE  /\ rows[j] \in Address /\ [rows[j] EXCEPT !.defaults = @ \ uses] \in Address
             /\ [rows[j] EXCEPT !.defaults = @ \ uses].live = rows[j].live
             /\ [rows[j] EXCEPT !.defaults = @ \ uses].defaults = rows[j].defaults \ uses
  BY DEF Address
<1> QED
  BY <1>1 DEF Cleared

\* A transaction that commits, or fails at the unique index.
LEMMA FinishingKeepsAddresses ==
  ASSUME AddressesInv, NEW c \in Callers, NEW written, NEW spoils \in BOOLEAN,
         NEW n \in 0..MaxAddresses, NEW rows \in [1..n -> Address], Len(address) <= n,
         caller[c] # Away, Finishes(c, written, rows, spoils),
         ~waived /\ ~spoils /\ ~caller[c].overtaken =>
           \A use \in Uses : ({i \in 1..n : rows[i].live} # {}) => \E i \in 1..n : rows[i].live /\ use \in rows[i].defaults
  PROVE  AddressesInv'
<1>1. /\ rows \in Seq(Address) /\ Len(rows) = n /\ DOMAIN rows = 1..n
      /\ caller \in [Callers -> CallerState] /\ waived \in BOOLEAN
      /\ calls' = calls /\ caller[c].overtaken \in BOOLEAN
      /\ DOMAIN address = 1..Len(address) /\ Len(address) \in Nat
  BY Asked, Numbered DEF Finishes, AddressesInv, AddressesTypeOK
<1>2. PICK b \in BOOLEAN :
        /\ b <=> address' # address
        /\ caller' = [x \in Callers |->
             IF x = c THEN Away ELSE IF caller[x] = Away THEN Away ELSE [caller[x] EXCEPT !.overtaken = @ \/ b]]
  <2>1. CASE OneDefault(written)
    BY <2>1 DEF Finishes, Returns
  <2>2. CASE ~OneDefault(written)
    BY <2>2 DEF Finishes, Returns
  <2> QED
    BY <2>1, <2>2
<1>3. \A x \in Callers : caller'[x] = Away \/ (caller[x] # Away /\ caller'[x] = [caller[x] EXCEPT !.overtaken = @ \/ b])
  BY <1>2
<1>4. caller' \in [Callers -> CallerState]
  <2>1. Away \in CallerState
    BY DEF CallerState
  <2>2. \A x \in Callers : caller'[x] \in CallerState
    <3> SUFFICES ASSUME NEW x \in Callers, caller[x] # Away, caller'[x] = [caller[x] EXCEPT !.overtaken = @ \/ b]
                 PROVE  caller'[x] \in CallerState
      BY <1>3, <2>1
    <3> QED
      BY Asked, Overtaking DEF AddressesInv
  <2> QED
    BY <1>2, <2>2
<1>5. address' = address \/ address' = rows
  BY DEF Finishes
<1>6. waived' \in BOOLEAN
  BY <1>1 DEF Finishes
<1>7. AddressesTypeOK'
  BY <1>1, <1>4, <1>5, <1>6 DEF AddressesInv, AddressesTypeOK
<1>8. ASSUME NEW x \in Callers PROVE (UpToDate(x) /\ Entered(x))'
  <2>1. CASE caller'[x] = Away
    BY <2>1 DEF UpToDate, Entered, Away
  <2>2. CASE caller'[x] # Away
    <3>1. /\ caller[x] # Away /\ caller'[x].at = caller[x].at /\ caller'[x].overtaken = (caller[x].overtaken \/ b)
          /\ caller[x].at = "add" => caller'[x].first = caller[x].first
          /\ caller[x].at # "add" => caller'[x].id = caller[x].id /\ caller'[x].copy = caller[x].copy
          /\ caller[x].at = "promote" => caller'[x].next = caller[x].next /\ caller'[x].seen = caller[x].seen
      <4>1. caller[x] # Away /\ caller'[x] = [caller[x] EXCEPT !.overtaken = @ \/ b] /\ caller[x].at # "away"
        BY <1>3, <2>2, Asked DEF AddressesInv
      <4> QED
        BY <4>1, Overtaking DEF AddressesInv
    <3>2. Entered(x)'
      <4>1. DOMAIN address \subseteq DOMAIN address'
        BY <1>1, <1>5
      <4> QED
        BY <3>1, <4>1 DEF AddressesInv, Entered
    <3>3. ASSUME ~caller'[x].overtaken PROVE UpToDate(x)'
      <4>1. address' = address /\ Live' = Live /\ ~caller[x].overtaken
        BY <1>2, <3>1, <3>3 DEF Live
      <4> QED
        BY <3>1, <4>1 DEF AddressesInv, UpToDate
    <3> QED
      BY <3>2, <3>3 DEF UpToDate
  <2> QED
    BY <2>1, <2>2
<1>9. DefaultsAreKept'
  <2>1. CASE ~OneDefault(written)
    <3>1. address' = address /\ waived' = waived
      BY <2>1 DEF Finishes
    <3> QED
      BY <3>1 DEF AddressesInv, DefaultsAreKept, Live
  <2>2. CASE OneDefault(written)
    <3>1. /\ address' = rows /\ Live' = {i \in 1..n : rows[i].live}
          /\ waived' = ((Live' # {}) /\ (waived \/ spoils \/ caller[c].overtaken))
      BY <1>1, <2>2 DEF Finishes, Live
    <3> SUFFICES ASSUME ~waived', Live' # {}, NEW use \in Uses PROVE \E i \in Live' : use \in rows[i].defaults
      BY <3>1 DEF DefaultsAreKept
    <3>2. ~waived /\ ~spoils /\ ~caller[c].overtaken
      BY <3>1
    <3> QED
      BY <3>1, <3>2
  <2> QED
    BY <2>1, <2>2
<1> QED
  BY <1>7, <1>8, <1>9 DEF AddressesInv

\* The first address gets both defaults, a later one takes those it claims.
LEMMA AddingKeepsAddresses ==
  ASSUME AddressesInv, NEW c \in Callers, AddAddress(c)
  PROVE  AddressesInv'
<1> DEFINE n == Len(address)
           uses == IF caller[c].first THEN Uses ELSE caller[c].claims
           new == [live |-> TRUE, defaults |-> uses]
           written == Append(address, new)
           rows == Cleared(written, uses, Len(written))
<1>1. /\ caller[c].at = "add" /\ n < MaxAddresses /\ Finishes(c, written, rows, FALSE)
  BY DEF AddAddress
<1>2. /\ n \in Nat /\ address \in [1..n -> Address] /\ DOMAIN address = 1..n /\ address \in Seq(Address)
      /\ uses \subseteq Uses /\ caller[c] # Away
  BY <1>1, Numbered, Asked DEF AddressesInv, AddressesTypeOK
<1> HIDE DEF uses
<1>3. new \in Address /\ new.live /\ new.defaults = uses
  BY <1>2 DEF Address
<1> HIDE DEF new
<1>4. /\ written \in Seq(Address) /\ Len(written) = n + 1 /\ written[n + 1] = new
      /\ \A i \in 1..n : written[i] = address[i]
  BY <1>2, <1>3
<1> HIDE DEF written
<1>5. written \in [1..(n + 1) -> Address] /\ n + 1 \in 0..MaxAddresses /\ n + 1 \in Nat
  <2> HIDE DEF rows, n
  <2>1. written \in [1..Len(written) -> Address]
    BY <1>4
  <2>2. n + 1 \in 0..MaxAddresses /\ n + 1 \in Nat
    BY <1>1, <1>2, AddressesAssumption
  <2> QED
    BY <1>4, <2>1, <2>2
<1>6. /\ rows \in [1..(n + 1) -> Address]
      /\ \A j \in 1..(n + 1) : rows[j].live = written[j].live
      /\ \A j \in 1..(n + 1) : written[j].live /\ j # n + 1 => rows[j].defaults = written[j].defaults \ uses
      /\ \A j \in 1..(n + 1) : j = n + 1 \/ ~written[j].live => rows[j].defaults = written[j].defaults
  <2>1. rows = Cleared(written, uses, n + 1)
    BY <1>4
  <2> DEFINE m == n + 1
  <2>2. m \in Nat /\ written \in [1..m -> Address] /\ rows = Cleared(written, uses, m)
    BY <1>5, <2>1
  <2> HIDE DEF rows, m
  <2>3. /\ rows \in [1..m -> Address]
        /\ \A j \in 1..m : rows[j].live = written[j].live
        /\ \A j \in 1..m : written[j].live /\ j # m => rows[j].defaults = written[j].defaults \ uses
        /\ \A j \in 1..m : j = m \/ ~written[j].live => rows[j].defaults = written[j].defaults
    BY <2>2, Clears
  <2> QED
    BY <2>3 DEF m
<1> HIDE DEF rows
<1>7. ASSUME ~waived, ~caller[c].overtaken, NEW use \in Uses
      PROVE  \E i \in 1..(n + 1) : rows[i].live /\ use \in rows[i].defaults
  <2>1. n + 1 \in 1..(n + 1) /\ rows[n + 1].live /\ rows[n + 1].defaults = uses
    <3> HIDE DEF n
    <3>1. n + 1 \in 1..(n + 1)
      BY <1>2
    <3> QED
      BY <1>3, <1>4, <1>6, <3>1
  <2>2. CASE use \in uses
    BY <2>1, <2>2
  <2>3. CASE use \notin uses
    <3>1. Live # {}
      BY <1>1, <1>2, <1>7, <2>3 DEF AddressesInv, UpToDate, uses
    <3>2. PICK i \in Live : use \in address[i].defaults
      BY <1>7, <3>1 DEF AddressesInv, DefaultsAreKept
    <3>3. i \in 1..n /\ address[i].live
      BY <1>2, <3>2 DEF Live
    <3>4. i \in 1..(n + 1) /\ rows[i].live /\ rows[i].defaults = address[i].defaults \ uses
      <4> HIDE DEF n
      <4>1. i \in 1..(n + 1) /\ i # n + 1
        BY <1>2, <3>3
      <4> QED
        BY <1>4, <1>6, <3>3, <4>1
    <3> QED
      BY <2>3, <3>2, <3>4
  <2> QED
    BY <2>2, <2>3
<1>8. Len(address) <= n + 1 /\ FALSE \in BOOLEAN
  BY <1>2
<1> DEFINE m == n + 1
<1>9. /\ m \in 0..MaxAddresses /\ rows \in [1..m -> Address] /\ Len(address) <= m
      /\ ~waived /\ ~FALSE /\ ~caller[c].overtaken =>
           \A use \in Uses : ({i \in 1..m : rows[i].live} # {}) => \E i \in 1..m : rows[i].live /\ use \in rows[i].defaults
  BY <1>5, <1>6, <1>7, <1>8
<1> HIDE DEF m
<1> QED
  BY <1>1, <1>2, <1>8, <1>9, FinishingKeepsAddresses

\* An update takes the defaults it claims from the others.
LEMMA UpdatingKeepsAddresses ==
  ASSUME AddressesInv, NEW c \in Callers, UpdateAddress(c)
  PROVE  AddressesInv'
<1> DEFINE n == Len(address)
           i == caller[c].id
           claims == caller[c].claims
           drops == caller[c].drops
           changed == (claims \ caller[c].copy) \union (drops \intersect caller[c].copy)
           new == (address[i].defaults \ changed) \union (claims \intersect changed)
           written == [address EXCEPT ![i] = [address[i] EXCEPT !.defaults = new]]
<1>1. /\ caller[c].at = "update"
      /\ IF address[i].live
         THEN Finishes(c, written, Cleared(written, claims, i), drops # {})
         ELSE Finishes(c, address, Cleared(address, claims, i), FALSE)
  BY DEF UpdateAddress
<1>2. /\ n \in Nat /\ n \in 0..MaxAddresses /\ address \in [1..n -> Address] /\ DOMAIN address = 1..n
      /\ claims \subseteq Uses /\ drops \subseteq Uses /\ caller[c] # Away /\ i \in 1..n
  <2> HIDE DEF written
  <2>1. /\ AddressesTypeOK /\ Entered(c)
    BY DEF AddressesInv
  <2>2. /\ n \in 0..MaxAddresses /\ address \in [1..n -> Address] /\ DOMAIN address = 1..n
    BY <2>1, Numbered
  <2>3. n \in Nat
    BY <2>2, AddressesAssumption
  <2>4. claims \subseteq Uses /\ drops \subseteq Uses /\ caller[c] # Away
    BY <1>1, <2>1, Asked
  <2>5. i \in 1..n
    BY <1>1, <2>1, <2>2 DEF Entered
  <2> QED
    BY <2>2, <2>3, <2>4, <2>5
<1>3. /\ [address[i] EXCEPT !.defaults = new] \in Address /\ [address[i] EXCEPT !.defaults = new].live = address[i].live
      /\ [address[i] EXCEPT !.defaults = new].defaults = new
  BY <1>2 DEF Address
<1>4. /\ written \in [1..n -> Address] /\ written[i].live = address[i].live /\ written[i].defaults = new
      /\ \A j \in 1..n : j # i => written[j] = address[j]
  <2> HIDE DEF new
  <2> QED
    BY <1>2, <1>3
<1> HIDE DEF written
<1>5. CASE ~address[i].live
  <2> DEFINE rows == Cleared(address, claims, i)
  <2>1. rows \in [1..n -> Address]
    BY <1>2, Clears
  <2>2. Finishes(c, address, rows, FALSE)
    BY <1>1, <1>5
  <2> HIDE DEF rows
  <2>3. caller[c].overtaken
    BY <1>1, <1>2, <1>5 DEF AddressesInv, UpToDate, Live
  <2>4. FALSE \in BOOLEAN /\ Len(address) <= n
    BY <1>2
  <2> HIDE DEF n
  <2> QED
    BY <1>2, <2>1, <2>2, <2>3, <2>4, FinishingKeepsAddresses
<1>6. CASE address[i].live
  <2> DEFINE rows == Cleared(written, claims, i)
  <2>1. /\ rows \in [1..n -> Address]
        /\ \A j \in 1..n : rows[j].live = written[j].live
        /\ \A j \in 1..n : written[j].live /\ j # i => rows[j].defaults = written[j].defaults \ claims
        /\ \A j \in 1..n : j = i \/ ~written[j].live => rows[j].defaults = written[j].defaults
    <3> HIDE DEF i, claims, n
    <3> QED
      BY <1>2, <1>4, Clears
  <2>2. Finishes(c, written, rows, drops # {})
    BY <1>1, <1>6
  <2> HIDE DEF rows
  <2>3. ASSUME ~waived, drops = {}, ~caller[c].overtaken, NEW use \in Uses
        PROVE  \E j \in 1..n : rows[j].live /\ use \in rows[j].defaults
    <3>1. rows[i].live /\ rows[i].defaults = address[i].defaults \union claims
      <4>1. caller[c].copy = address[i].defaults
        BY <1>1, <1>2, <2>3 DEF AddressesInv, UpToDate
      <4> QED
        BY <1>2, <1>4, <1>6, <2>1, <2>3, <4>1
    <3>2. Live # {}
      BY <1>2, <1>6 DEF Live
    <3>3. PICK j \in Live : use \in address[j].defaults
      BY <2>3, <3>2 DEF AddressesInv, DefaultsAreKept
    <3>4. CASE j = i \/ use \in claims
      BY <1>2, <3>1, <3>3, <3>4
    <3>5. CASE j # i /\ use \notin claims
      <4>1. j \in 1..n /\ address[j].live
        BY <1>2 DEF Live
      <4>2. rows[j].live /\ rows[j].defaults = address[j].defaults \ claims
        BY <1>4, <2>1, <3>5, <4>1
      <4> QED
        BY <3>3, <3>5, <4>1, <4>2
    <3> QED
      BY <3>4, <3>5
  <2>4. (drops # {}) \in BOOLEAN /\ n <= n
    BY <1>2
  <2> HIDE DEF drops
  <2> QED
    BY <1>2, <2>1, <2>2, <2>3, <2>4, FinishingKeepsAddresses
<1> QED
  BY <1>5, <1>6

\* What is removed hands its defaults on.
LEMMA PromotingKeepsAddresses ==
  ASSUME AddressesInv, NEW c \in Callers, PromoteRemaining(c)
  PROVE  AddressesInv'
<1> DEFINE n == Len(address)
           i == caller[c].id
           next == caller[c].next
           deleted == [address EXCEPT ![i].live = FALSE]
           gains == caller[c].copy \ caller[c].seen
           rows == IF next # 0 /\ deleted[next].live THEN [deleted EXCEPT ![next].defaults = @ \union gains] ELSE deleted
<1>1. caller[c].at = "promote" /\ Finishes(c, rows, rows, FALSE)
  BY DEF PromoteRemaining, Inherited
<1>2. /\ n \in Nat /\ n \in 0..MaxAddresses /\ n <= n /\ address \in [1..n -> Address] /\ DOMAIN address = 1..n
      /\ caller[c].copy \subseteq Uses /\ caller[c] # Away /\ i \in 1..n /\ next \in 0..n
  <2> HIDE DEF deleted, rows
  <2>1. /\ AddressesTypeOK /\ Entered(c)
    BY DEF AddressesInv
  <2>2. /\ n \in 0..MaxAddresses /\ address \in [1..n -> Address] /\ DOMAIN address = 1..n
    BY <2>1, Numbered
  <2>3. n \in Nat
    BY <2>2, AddressesAssumption
  <2>4. caller[c].copy \subseteq Uses /\ caller[c] # Away
    BY <1>1, <2>1, Asked
  <2>5. i \in 1..n /\ next \in 1..n \union {0}
    BY <1>1, <2>1, <2>2 DEF Entered
  <2>6. next \in 0..n
    BY <2>3, <2>5
  <2> QED
    BY <2>2, <2>3, <2>4, <2>5, <2>6
<1>3. /\ deleted \in [1..n -> Address] /\ ~deleted[i].live /\ \A j \in 1..n : j # i => deleted[j] = address[j]
  BY <1>2 DEF Address
<1> HIDE DEF deleted
<1>4. next # 0 => /\ [deleted EXCEPT ![next].defaults = @ \union gains] \in [1..n -> Address]
                  /\ [deleted EXCEPT ![next].defaults = @ \union gains][next].live = deleted[next].live
                  /\ [deleted EXCEPT ![next].defaults = @ \union gains][next].defaults = deleted[next].defaults \union gains
                  /\ \A j \in 1..n : j # next => [deleted EXCEPT ![next].defaults = @ \union gains][j] = deleted[j]
  BY <1>2, <1>3 DEF Address
<1>5. rows \in [1..n -> Address]
  BY <1>3, <1>4
<1>6. ASSUME ~waived, ~caller[c].overtaken, {j \in 1..n : rows[j].live} # {}, NEW use \in Uses
      PROVE  \E j \in 1..n : rows[j].live /\ use \in rows[j].defaults
  <2>1. \A j \in 1..n : rows[j].live <=> (address[j].live /\ j # i)
    BY <1>2, <1>3, <1>4
  <2>2. Live \ {i} # {} /\ Live \ {i} \in SUBSET (1..n)
    BY <1>2, <1>6, <2>1 DEF Live
  <2>3. i \in Live /\ caller[c].copy = address[i].defaults /\ next = Newest(Live \ {i})
        /\ (next # 0 => caller[c].seen = address[next].defaults)
    BY <1>1, <1>2, <1>6 DEF AddressesInv, UpToDate
  <2>4. next \in Live \ {i}
    <3>1. Max(Live \ {i}) \in Live \ {i}
      BY <1>2, <2>2, LargestIsIn
    <3> QED
      BY <2>2, <2>3, <3>1 DEF Newest
  <2>5. next \in 1..n /\ next # 0 /\ address[next].live /\ next # i
    BY <1>2, <2>4 DEF Live
  <2>6. rows[next].live /\ rows[next].defaults = address[next].defaults \union address[i].defaults
    BY <1>2, <1>3, <1>4, <2>3, <2>5
  <2>7. PICK j \in Live : use \in address[j].defaults
    BY <1>6, <2>3 DEF AddressesInv, DefaultsAreKept
  <2>8. CASE j \in {i, next}
    BY <2>5, <2>6, <2>7, <2>8
  <2>9. CASE j \notin {i, next}
    <3>1. j \in 1..n
      BY <1>2, <2>2, <2>9
    <3>2. rows[j] = address[j]
      BY <1>3, <1>4, <2>9, <3>1
    <3> QED
      BY <2>1, <2>7, <2>9, <3>1, <3>2 DEF Live
  <2> QED
    BY <2>8, <2>9
<1> HIDE DEF rows
<1> QED
  BY <1>1, <1>2, <1>5, <1>6, FinishingKeepsAddresses

\* A customer with addresses keeps a default for shipping and one for billing, for any
\* number of addresses and requests, unless a request switches one off or is overtaken.
THEOREM DefaultsStay == AddressesSpec => [](AddressesTypeOK /\ DefaultsAreKept)
<1>1. AddressesInit => AddressesInv
  <2> SUFFICES ASSUME AddressesInit PROVE AddressesInv
    OBVIOUS
  <2>1. AddressesTypeOK
    <3>1. <<>> \in Seq(Address) /\ Len(<<>>) <= MaxAddresses /\ 0 \in 0..MaxCalls
      BY AddressesAssumption
    <3>2. Away \in CallerState
      BY DEF CallerState
    <3> QED
      BY <3>1, <3>2 DEF AddressesInit, AddressesTypeOK
  <2>2. DOMAIN address = {}
    BY DEF AddressesInit
  <2> QED
    BY <2>1, <2>2 DEF AddressesInit, AddressesInv, UpToDate, Entered, DefaultsAreKept, Live, Away
<1>2. AddressesInv /\ [AddressesNext]_addressesVars => AddressesInv'
  <2> SUFFICES ASSUME AddressesInv, [AddressesNext]_addressesVars PROVE AddressesInv'
    OBVIOUS
  <2>1. CASE UNCHANGED addressesVars
    <3>1. UNCHANGED <<address, caller, calls, waived>>
      BY <2>1 DEF addressesVars
    <3> QED
      BY <3>1 DEF AddressesInv, AddressesTypeOK, UpToDate, Entered, DefaultsAreKept, Live
  <2> QED
    BY <2>1, AskingKeepsAddresses, AddingKeepsAddresses, UpdatingKeepsAddresses, PromotingKeepsAddresses
    DEF AddressesNext
<1>3. AddressesInv => AddressesTypeOK /\ DefaultsAreKept
  BY DEF AddressesInv
<1> QED
  BY <1>1, <1>2, <1>3, PTL DEF AddressesSpec

-----------------------------------------------------------------------------
\* The storefront: each component rests or takes a step of its own.

LEMMA StorefrontSteps ==
  /\ StorefrontInit => CartInit /\ PromotionsInit /\ CatalogInit /\ AddressesInit
  /\ [StorefrontNext]_storefrontVars =>
       [CartNext]_cartVars /\ [PromotionsNext]_promotionsVars /\ [CatalogNext]_catalogVars /\ [AddressesNext]_addressesVars
<1>1. StorefrontInit => CartInit /\ PromotionsInit /\ CatalogInit /\ AddressesInit
  BY DEF StorefrontInit
<1>2. UNCHANGED storefrontVars =>
        UNCHANGED cartVars /\ UNCHANGED promotionsVars /\ UNCHANGED catalogVars /\ UNCHANGED addressesVars
  BY DEF storefrontVars
<1>3. StorefrontNext =>
        [CartNext]_cartVars /\ [PromotionsNext]_promotionsVars /\ [CatalogNext]_catalogVars /\ [AddressesNext]_addressesVars
  BY DEF StorefrontNext
<1> QED
  BY <1>1, <1>2, <1>3

\* Whatever the storefront does, the variables of its four modules keep their types and
\* each module's invariants hold.
THEOREM StorefrontHolds ==
  StorefrontSpec => [](/\ StorefrontTypeOK
                       /\ CartHoldsWhatWasAsked /\ OrderedOnce
                       /\ OffersWithinLimits /\ CategoriesInUseAreKept /\ DefaultsAreKept)
<1>1. StorefrontSpec => CartSpec /\ PromotionsSpec /\ CatalogSpec /\ AddressesSpec
  BY StorefrontSteps, PTL DEF StorefrontSpec, CartSpec, PromotionsSpec, CatalogSpec, AddressesSpec
<1>2. /\ CartTypeOK /\ PromotionsTypeOK /\ CatalogTypeOK /\ AddressesTypeOK
      => StorefrontTypeOK
  BY DEF StorefrontTypeOK
<1> QED
  BY <1>1, <1>2, CartsHold, OffersStayWithinLimits, CategoriesStay, DefaultsStay, PTL
=============================================================================
