---------------------------- MODULE Checkout_proofs ----------------------------
(***************************************************************************)
(* The checkout for any number of requests, customers, variants and keys,  *)
(* and any stock, credit and limits: it is atomic, its locks are taken in  *)
(* one order, and the guard runs a key once.                               *)
(***************************************************************************)
EXTENDS Checkout, FiniteSetTheorems, TLAPS

-----------------------------------------------------------------------------
\* The inductive invariant.

Live(w) == proc[w].at # "idle"
Holds(w, r) == Live(w) /\ r \in proc[w].held

\* FOR UPDATE: a row has one holder.
Exclusive ==
  \A w, u \in Workers : \A r \in Rows : w # u /\ Holds(w, r) => ~Holds(u, r)

\* Rows are locked in the order wallet, stock rows, coupon.
InOrder(w) ==
  LET p == proc[w]
  IN  /\ p.at \in {"ready", "wallet", "placed", "failed"} => p.held = {}
      /\ p.at = "ready" => p.todo = {} /\ p.paid = 0
      /\ p.at = "wallet" => p.todo = p.items /\ p.paid = 0
      /\ p.at = "reserve" => p.todo # {} /\ \A v \in p.todo, u \in Variants :
                                                 <<"stock", u>> \in p.held => u < v
      /\ p.at \in {"reserve", "redeem"} => <<"coupon", 0>> \notin p.held
      /\ p.at \in {"redeem", "debit", "commit"} => p.todo = {}

\* What a transaction has checked under a lock still holds.
Checked(w) ==
  LET p == proc[w]
      c == Customer(w)
  IN  p.at \in {"wallet", "reserve", "redeem", "debit", "commit"} =>
        /\ p.items # {} /\ p.todo \subseteq p.items
        /\ p.paid <= Cardinality(p.items)
        /\ p.paid > 0 => <<"wallet", c>> \in p.held
        /\ \A v \in p.items \ p.todo : <<"stock", v>> \in p.held /\ reserved[v] < Physical[v]
        /\ p.at \in {"debit", "commit"} /\ p.body.coupon =>
             <<"coupon", 0>> \in p.held /\ Redeemable(c)
        /\ p.at = "commit" => spent[c] + p.paid <= Credit[c]

\* Nobody has spent more than was granted.
Solvent == \A c \in Customers : spent[c] <= Credit[c] /\ credit[c] <= Credit[c]

\* A request and its row in idempotency_keys: the row it still has is for its
\* body, and what it placed is under its key.
Linked(w) ==
  LET p == proc[w]
  IN  /\ p.at \in {"placed", "failed"} => p.key \in Keys
      /\ Live(w) /\ p.key \in Keys =>
           /\ p.record <= keys[p.key].id
           /\ Mine(w) => keys[p.key].row.body = p.body
      /\ p.at = "placed" => /\ p.order \in OrdersWith(p.key)
                            /\ orders[p.order].customer = Customer(w)
                            /\ orders[p.order].coupon = p.body.coupon

\* While the guard of k was neither taken over nor lost, one request at most
\* works under it, and its order is the only one.
Guarded(k) ==
  LET With(w) == Live(w) /\ proc[w].key = k
      row == keys[k].row
  IN  k \notin bypassed =>
        /\ \A w, u \in Workers : With(w) /\ With(u) => w = u
        /\ \A w \in Workers : With(w) =>
             /\ row.status = "IN_PROGRESS" /\ proc[w].record = keys[k].id
             /\ OrdersWith(k) = IF At(w, "placed") THEN {proc[w].order} ELSE {}
        /\ row.status = "NONE" => OrdersWith(k) = {}
        /\ \E i \in Nat : OrdersWith(k) \subseteq {i}

IInv ==
  /\ TypeOK
  /\ Exclusive
  /\ \A w \in Workers : InOrder(w) /\ Checked(w) /\ Linked(w)
  /\ Solvent
  /\ \A k \in Keys : Guarded(k)
  /\ ReplayIsTruthful

-----------------------------------------------------------------------------
\* Steps of one request.

\* A request that is not idle has all its fields.
LEMMA RequestOf ==
  ASSUME TypeOK, NEW w \in Workers, proc[w].at # "idle"
  PROVE  proc[w] \in Request
BY DEF TypeOK, Idle

\* A new record for w leaves the other requests alone.
LEMMA OneRequestMoves ==
  ASSUME TypeOK, NEW w \in Workers, NEW q \in {Idle} \union Request, proc' = [proc EXCEPT ![w] = q]
  PROVE  /\ proc' \in [Workers -> {Idle} \union Request]
         /\ proc'[w] = q
         /\ \A u \in Workers : u # w => proc'[u] = proc[u]
<1>1. proc \in [Workers -> {Idle} \union Request]
  BY DEF TypeOK
<1> QED
  BY <1>1, SMT

\* What a transaction reads under its locks has the types it computes with.
LEMMA TransactionTypes ==
  ASSUME TypeOK, CheckoutAssumption, NEW w \in Workers, Live(w)
  PROVE  /\ proc[w] \in Request
         /\ Customer(w) \in Customers
         /\ proc[w].body \in Payloads /\ proc[w].body.coupon \in BOOLEAN
         /\ proc[w].items \subseteq Variants /\ IsFiniteSet(proc[w].items)
         /\ Cardinality(proc[w].items) \in Nat
         /\ Balance(Customer(w)) \in Nat
<1>1. proc[w] \in Request
  BY RequestOf DEF Live
<1>2. IsFiniteSet(proc[w].items)
  BY <1>1, FS_Subset DEF Request, CheckoutAssumption
<1>3. Cardinality(proc[w].items) \in Nat
  BY <1>2, FS_CardinalityType
<1>4. proc[w].body \in Payloads /\ proc[w].items \subseteq Variants
  BY <1>1 DEF Request
<1>5. Customer(w) \in Customers /\ proc[w].body.coupon \in BOOLEAN
  BY <1>4 DEF CheckoutAssumption, Customer
<1>6. Balance(Customer(w)) \in Nat
  BY <1>5 DEF Balance, TypeOK
<1> QED
  BY <1>1, <1>2, <1>3, <1>4, <1>5, <1>6

\* The record of an idle request says so.
LEMMA IdleIsIdle == Idle.at = "idle"
BY DEF Idle

\* The request w moves to q: its checks hold there, and what it holds it held
\* before or nobody else does.
Moves(w, q) ==
  /\ proc' = [proc EXCEPT ![w] = q]
  /\ q \in {Idle} \union Request
  /\ q.at # "idle" => \A r \in q.held : Holds(w, r) \/ (r \in Rows /\ Wins(w, r))
  /\ q.at # "idle" => InOrder(w)' /\ Checked(w)'

\* A move takes only locks that nobody else has.
LEMMA LocksStayExclusive ==
  ASSUME TypeOK, Exclusive, NEW w \in Workers, NEW q, Moves(w, q)
  PROVE  Exclusive'
<1>1. proc'[w] = q /\ \A u \in Workers : u # w => proc'[u] = proc[u]
  BY OneRequestMoves DEF Moves
<1>2. \A r \in Rows : Holds(w, r)' => Holds(w, r) \/ Wins(w, r)
  BY <1>1 DEF Moves, Holds, Live
<1>3. \A u \in Workers, r \in Rows : u # w => (Holds(u, r)' <=> Holds(u, r))
  BY <1>1 DEF Holds, Live
<1>4. \A u \in Workers, r \in Rows : u # w /\ Wins(w, r) => ~Holds(u, r)
  BY DEF Wins, Holds, Live, At
<1>5. ASSUME NEW v \in Workers, NEW u \in Workers, NEW r \in Rows, v # u, Holds(v, r)', Holds(u, r)'
      PROVE  FALSE
  BY <1>2, <1>3, <1>4, <1>5 DEF Exclusive
<1> QED
  BY <1>5 DEF Exclusive

\* The assumptions of the lemmas about one step of w.
Sound(w) == TypeOK /\ CheckoutAssumption /\ Solvent /\ InOrder(w) /\ Checked(w)

\* A request that arrives.
LEMMA BeginsMoves ==
  ASSUME NEW w \in Workers, Sound(w), NEW body \in Payloads, NEW k \in Keys \union {NoKey},
         NEW record \in Nat, Begins(w, body, k, record)
  PROVE  \E q : Moves(w, q) /\ q.at = "ready" /\ q.body = body /\ q.key = k /\ q.record = record
<1> DEFINE q == [at |-> "ready", body |-> body, key |-> k, record |-> record,
                 cart |-> 0, order |-> 0, items |-> {}, todo |-> {}, paid |-> 0, held |-> {}]
<1>1. q \in Request
  BY DEF Request, Steps
<1>2. proc' = [proc EXCEPT ![w] = q]
  BY DEF Begins
<1>3. proc'[w] = q
  BY <1>1, <1>2, OneRequestMoves DEF Sound
<1>4. InOrder(w)' /\ Checked(w)'
  BY <1>3 DEF InOrder, Checked
<1>5. /\ q.at = "ready" /\ q.body = body /\ q.key = k /\ q.record = record /\ q.held = {}
  OBVIOUS
<1> HIDE DEF q
<1>6. Moves(w, q)
  BY <1>1, <1>2, <1>4, <1>5 DEF Moves
<1> QED
  BY <1>5, <1>6

\* The cart is read.
LEMMA ReadCartMoves ==
  ASSUME NEW w \in Workers, Sound(w), ReadCart(w)
  PROVE  \E q : /\ Moves(w, q) /\ q.at \in {"wallet", "reserve"}
                /\ q.body = proc[w].body /\ q.key = proc[w].key /\ q.record = proc[w].record
<1>1. proc[w] \in Request
  BY RequestOf DEF Sound, ReadCart, At
<1>2. PICK items \in (SUBSET Variants) \ {{}} :
        proc' = [proc EXCEPT ![w].at = IF proc[w].body.wallet THEN "wallet" ELSE "reserve",
                             ![w].cart = cart[Customer(w)].id, ![w].items = items, ![w].todo = items]
  BY DEF ReadCart
<1> DEFINE step == IF proc[w].body.wallet THEN "wallet" ELSE "reserve"
           q == [proc[w] EXCEPT !.at = step,
                                !.cart = cart[Customer(w)].id, !.items = items, !.todo = items]
<1>3. proc' = [proc EXCEPT ![w] = q]
  BY <1>2
<1>4. Customer(w) \in Customers
  BY TransactionTypes DEF Sound, ReadCart, At, Live
<1>5. cart[Customer(w)].id \in Nat
  BY <1>4 DEF Sound, TypeOK
<1>a. step \in {"wallet", "reserve"}
  OBVIOUS
<1> HIDE DEF step
<1>6. q \in Request
  BY <1>1, <1>5, <1>a DEF Request, Steps
<1>7. proc'[w] = q
  BY <1>3, <1>6, OneRequestMoves DEF Sound
<1>b. proc[w].held = {} /\ proc[w].paid = 0
  BY DEF Sound, InOrder, ReadCart, At
<1>8. /\ q.held = {} /\ q.items = items /\ q.todo = items /\ q.paid = 0 /\ items # {}
      /\ q.at \in {"wallet", "reserve"}
      /\ q.body = proc[w].body /\ q.key = proc[w].key /\ q.record = proc[w].record
  <2>1. items # {}
    OBVIOUS
  <2>2. q.items = items /\ q.todo = items /\ q.at = step
    BY <1>1 DEF Request
  <2>3. q.held = {} /\ q.paid = 0
    BY <1>1, <1>b DEF Request
  <2>4. q.body = proc[w].body /\ q.key = proc[w].key /\ q.record = proc[w].record
    BY <1>1 DEF Request
  <2> QED
    BY <1>a, <2>1, <2>2, <2>3, <2>4
<1> HIDE DEF q
<1>9. IsFiniteSet(items) /\ Cardinality(items) \in Nat
  BY FS_Subset, FS_CardinalityType DEF Sound, CheckoutAssumption
<1>10. InOrder(w)'
  BY <1>7, <1>8 DEF InOrder
<1>11. Checked(w)'
  BY <1>7, <1>8, <1>9 DEF Checked
<1> QED
  BY <1>3, <1>6, <1>8, <1>10, <1>11 DEF Moves

\* The wallet is locked: what will be paid from it is at most the price.
LEMMA LockWalletMoves ==
  ASSUME NEW w \in Workers, Sound(w), LockWallet(w)
  PROVE  \E q : /\ Moves(w, q) /\ q.at = "reserve"
                /\ q.body = proc[w].body /\ q.key = proc[w].key /\ q.record = proc[w].record
<1>1. Live(w)
  BY DEF LockWallet, At, Live
<1>2. /\ proc[w] \in Request
      /\ Customer(w) \in Customers
      /\ proc[w].body \in Payloads /\ proc[w].body.coupon \in BOOLEAN
      /\ proc[w].items \subseteq Variants /\ IsFiniteSet(proc[w].items)
      /\ Cardinality(proc[w].items) \in Nat
      /\ Balance(Customer(w)) \in Nat
  BY <1>1, TransactionTypes DEF Sound
<1>3. proc[w].items # {} /\ Cardinality(proc[w].items) # 0
  BY <1>2, FS_EmptySet DEF Sound, Checked, LockWallet, At
<1> DEFINE r == <<"wallet", Customer(w)>>
           payable == Cardinality(proc[w].items) - (IF proc[w].body.coupon THEN 1 ELSE 0)
           paid == IF Balance(Customer(w)) < payable THEN Balance(Customer(w)) ELSE payable
           q == [proc[w] EXCEPT !.at = "reserve", !.held = @ \union {r}, !.paid = paid]
<1>4. payable \in Nat /\ payable <= Cardinality(proc[w].items)
  BY <1>2, <1>3
<1> HIDE DEF payable
<1>5. paid \in Nat /\ paid <= Cardinality(proc[w].items)
  BY <1>2, <1>4
<1>6. proc' = [proc EXCEPT ![w] = q]
  BY Zenon DEF LockWallet, payable
<1> HIDE DEF paid
<1>7. r \in Rows
  BY <1>2 DEF Rows
<1>8. q \in Request
  BY <1>2, <1>5, <1>7 DEF Request, Steps
<1>9. proc'[w] = q
  BY <1>6, <1>8, OneRequestMoves DEF Sound
<1>10. /\ q.at = "reserve" /\ q.held = proc[w].held \union {r} /\ q.paid = paid
       /\ q.items = proc[w].items /\ q.todo = proc[w].todo
       /\ q.body = proc[w].body /\ q.key = proc[w].key /\ q.record = proc[w].record
  BY <1>2 DEF Request
<1>11. proc[w].held = {} /\ proc[w].todo = proc[w].items
  BY DEF Sound, InOrder, LockWallet, At
<1> HIDE DEF q
<1>12. InOrder(w)'
  <2>1. \A u \in Variants : <<"stock", u>> \notin {r}
    OBVIOUS
  <2>2. <<"coupon", 0>> \notin {r}
    OBVIOUS
  <2> QED
    BY <1>3, <1>9, <1>10, <1>11, <2>1, <2>2 DEF InOrder
<1>13. Checked(w)'
  BY <1>3, <1>5, <1>9, <1>10, <1>11 DEF Checked, Customer
<1>14. Wins(w, r)
  BY DEF LockWallet
<1> QED
  BY <1>6, <1>7, <1>8, <1>10, <1>11, <1>12, <1>13, <1>14 DEF Moves

\* A stock row is locked, after all the smaller ones, and has a unit left.
LEMMA ReserveMoves ==
  ASSUME NEW w \in Workers, Sound(w), Reserve(w)
  PROVE  \E q : /\ Moves(w, q) /\ q.at \in {"reserve", "redeem", "debit", "commit"}
                /\ q.body = proc[w].body /\ q.key = proc[w].key /\ q.record = proc[w].record
<1> DEFINE p == proc[w]
           after == IF p.body.coupon THEN "redeem" ELSE AfterCoupon(p)
<1>1. p.at = "reserve" /\ Live(w)
  BY DEF Reserve, At, Live
<1>2. p \in Request /\ Customer(w) \in Customers /\ p.body.coupon \in BOOLEAN
  BY <1>1, TransactionTypes DEF Sound
<1>3. PICK v \in NextLine(p.todo) :
        /\ Wins(w, <<"stock", v>>)
        /\ Available(v) >= 1
        /\ proc' = [proc EXCEPT ![w].at = IF p.todo = {v} THEN after ELSE @,
                                ![w].todo = @ \ {v}, ![w].held = @ \union {<<"stock", v>>}]
  BY DEF Reserve
<1> DEFINE r == <<"stock", v>>
           step == IF p.todo = {v} THEN after ELSE p.at
           q == [p EXCEPT !.at = step, !.todo = @ \ {v}, !.held = @ \union {r}]
<1>4. proc' = [proc EXCEPT ![w] = q]
  BY <1>3
<1>5. v \in p.todo /\ v \in Variants /\ v \in Nat /\ \A u \in p.todo : u \in Nat /\ v <= u
  BY <1>2 DEF NextLine, Request, Sound, CheckoutAssumption
<1>6. /\ step \in {"reserve", "redeem", "debit", "commit"}
      /\ step = "reserve" => p.todo # {v}
      /\ step # "reserve" => p.todo = {v}
      /\ step \in {"debit", "commit"} => ~p.body.coupon
      /\ step = "commit" => ~(p.paid > 0)
  BY <1>1, <1>2 DEF AfterCoupon
<1> HIDE DEF step
<1>7. r \in Rows /\ r # <<"coupon", 0>>
  BY <1>5 DEF Rows
<1>8. q \in Request
  BY <1>2, <1>6, <1>7 DEF Request, Steps
<1>9. proc'[w] = q
  BY <1>4, <1>8, OneRequestMoves DEF Sound
<1>10. /\ q.at = step /\ q.held = p.held \union {r} /\ q.todo = p.todo \ {v} /\ q.paid = p.paid
       /\ q.items = p.items /\ q.body = p.body /\ q.key = p.key /\ q.record = p.record
  BY <1>2 DEF Request
<1> HIDE DEF q
<1>11. InOrder(w)'
  <2>1. ASSUME q.at = "reserve"
        PROVE  q.todo # {} /\ \A x \in q.todo, u \in Variants : <<"stock", u>> \in q.held => u < x
    <3>1. q.todo # {}
      BY <1>5, <1>6, <1>10, <2>1
    <3>2. ASSUME NEW x \in q.todo, NEW u \in Variants, <<"stock", u>> \in q.held
          PROVE  u < x
      <4>1. x \in p.todo /\ x # v /\ x \in Nat /\ v <= x
        BY <1>5, <1>10
      <4>2. CASE <<"stock", u>> \in p.held
        BY <1>1, <4>1, <4>2 DEF Sound, InOrder
      <4>3. CASE <<"stock", u>> = r
        BY <1>5, <4>1, <4>3
      <4> QED
        BY <1>10, <3>2, <4>2, <4>3
    <3> QED
      BY <3>1, <3>2
  <2>2. <<"coupon", 0>> \notin q.held
    BY <1>1, <1>7, <1>10 DEF Sound, InOrder
  <2>3. q.at # "reserve" => q.todo = {}
    BY <1>6, <1>10
  <2> QED
    BY <1>6, <1>9, <1>10, <2>1, <2>2, <2>3 DEF InOrder
<1>12. Checked(w)'
  <2>1. /\ p.items # {} /\ p.todo \subseteq p.items /\ p.paid <= Cardinality(p.items)
        /\ p.paid > 0 => <<"wallet", Customer(w)>> \in p.held
        /\ \A u \in p.items \ p.todo : <<"stock", u>> \in p.held /\ reserved[u] < Physical[u]
    BY <1>1 DEF Sound, Checked
  <2>2. reserved[v] < Physical[v]
    <3>1. reserved[v] \in Nat /\ Physical[v] \in Nat
      BY <1>5 DEF Sound, TypeOK, CheckoutAssumption
    <3>2. Available(v) >= 1
      BY <1>3
    <3> QED
      BY <3>1, <3>2 DEF Available
  <2>3. \A u \in q.items \ q.todo : <<"stock", u>> \in q.held /\ reserved[u] < Physical[u]
    BY <1>10, <2>1, <2>2
  <2>4. q.at = "commit" => spent[Customer(w)] + q.paid <= Credit[Customer(w)]
    <3>1. spent[Customer(w)] \in Nat /\ Credit[Customer(w)] \in Nat /\ p.paid \in Nat
          /\ spent[Customer(w)] <= Credit[Customer(w)]
      BY <1>2 DEF Sound, TypeOK, CheckoutAssumption, Solvent, Request
    <3> QED
      BY <1>6, <1>10, <3>1
  <2>5. reserved' = reserved /\ spent' = spent
    BY DEF Reserve, tables
  <2> QED
    BY <1>6, <1>9, <1>10, <2>1, <2>3, <2>4, <2>5 DEF Checked, Customer
<1>13. Moves(w, q)
  <2>1. \A x \in q.held : Holds(w, x) \/ (x \in Rows /\ Wins(w, x))
    BY <1>1, <1>3, <1>7, <1>10 DEF Holds
  <2> QED
    BY <1>4, <1>8, <1>11, <1>12, <2>1 DEF Moves
<1> QED
  BY <1>6, <1>10, <1>13

\* The coupon is locked last, and may be redeemed.
LEMMA RedeemMoves ==
  ASSUME NEW w \in Workers, Sound(w), Redeem(w)
  PROVE  \E q : /\ Moves(w, q) /\ q.at \in {"debit", "commit"}
                /\ q.body = proc[w].body /\ q.key = proc[w].key /\ q.record = proc[w].record
<1> DEFINE p == proc[w]
           r == <<"coupon", 0>>
           step == AfterCoupon(p)
           q == [p EXCEPT !.at = step, !.held = @ \union {r}]
<1>1. p.at = "redeem" /\ Live(w)
  BY DEF Redeem, At, Live
<1>2. p \in Request /\ Customer(w) \in Customers
  BY <1>1, TransactionTypes DEF Sound
<1>3. proc' = [proc EXCEPT ![w] = q]
  BY DEF Redeem
<1>4. step \in {"debit", "commit"} /\ (step = "commit" => ~(p.paid > 0))
  BY DEF AfterCoupon
<1> HIDE DEF step
<1>5. r \in Rows
  BY DEF Rows
<1>6. q \in Request
  BY <1>2, <1>4, <1>5 DEF Request, Steps
<1>7. proc'[w] = q
  BY <1>3, <1>6, OneRequestMoves DEF Sound
<1>8. /\ q.at = step /\ q.held = p.held \union {r} /\ q.todo = p.todo /\ q.paid = p.paid
      /\ q.items = p.items /\ q.body = p.body /\ q.key = p.key /\ q.record = p.record
  BY <1>2 DEF Request
<1> HIDE DEF q
<1>9. p.todo = {}
  BY <1>1 DEF Sound, InOrder
<1>10. InOrder(w)'
  BY <1>4, <1>7, <1>8, <1>9 DEF InOrder
<1>11. Checked(w)'
  <2>1. /\ p.items # {} /\ p.todo \subseteq p.items /\ p.paid <= Cardinality(p.items)
        /\ p.paid > 0 => <<"wallet", Customer(w)>> \in p.held
        /\ \A u \in p.items \ p.todo : <<"stock", u>> \in p.held /\ reserved[u] < Physical[u]
    BY <1>1 DEF Sound, Checked
  <2>2. r \in q.held /\ Redeemable(Customer(w))
    BY <1>8 DEF Redeem
  <2>3. q.at = "commit" => spent[Customer(w)] + q.paid <= Credit[Customer(w)]
    <3>1. spent[Customer(w)] \in Nat /\ Credit[Customer(w)] \in Nat /\ p.paid \in Nat
          /\ spent[Customer(w)] <= Credit[Customer(w)]
      BY <1>2 DEF Sound, TypeOK, CheckoutAssumption, Solvent, Request
    <3> QED
      BY <1>4, <1>8, <3>1
  <2>4. reserved' = reserved /\ spent' = spent /\ coupon' = coupon
    BY DEF Redeem, tables
  <2> QED
    BY <1>7, <1>8, <2>1, <2>2, <2>3, <2>4 DEF Checked, Customer, Redeemable
<1>12. Moves(w, q)
  <2>1. \A x \in q.held : Holds(w, x) \/ (x \in Rows /\ Wins(w, x))
    BY <1>1, <1>5, <1>8 DEF Holds, Redeem
  <2> QED
    BY <1>3, <1>6, <1>10, <1>11, <2>1 DEF Moves
<1> QED
  BY <1>4, <1>8, <1>12

\* The debit is covered by the balance.
LEMMA DebitMoves ==
  ASSUME NEW w \in Workers, Sound(w), Debit(w)
  PROVE  \E q : /\ Moves(w, q) /\ q.at = "commit"
                /\ q.body = proc[w].body /\ q.key = proc[w].key /\ q.record = proc[w].record
<1> DEFINE p == proc[w]
           q == [p EXCEPT !.at = "commit"]
<1>1. p.at = "debit" /\ Live(w)
  BY DEF Debit, At, Live
<1>2. p \in Request /\ Customer(w) \in Customers
  BY <1>1, TransactionTypes DEF Sound
<1>3. proc' = [proc EXCEPT ![w] = q]
  BY DEF Debit
<1>4. q \in Request
  BY <1>2 DEF Request, Steps
<1>5. proc'[w] = q
  BY <1>3, <1>4, OneRequestMoves DEF Sound
<1>6. /\ q.at = "commit" /\ q.held = p.held /\ q.todo = p.todo /\ q.paid = p.paid
      /\ q.items = p.items /\ q.body = p.body /\ q.key = p.key /\ q.record = p.record
  BY <1>2 DEF Request
<1> HIDE DEF q
<1>7. InOrder(w)'
  BY <1>1, <1>5, <1>6 DEF InOrder, Sound
<1>8. Checked(w)'
  <2>1. spent[Customer(w)] + p.paid <= Credit[Customer(w)]
    <3>1. /\ spent[Customer(w)] \in Nat /\ credit[Customer(w)] \in Nat /\ Credit[Customer(w)] \in Nat
          /\ p.paid \in Nat /\ p.paid <= Balance(Customer(w))
          /\ credit[Customer(w)] <= Credit[Customer(w)] /\ spent[Customer(w)] <= Credit[Customer(w)]
      BY <1>2 DEF Sound, TypeOK, CheckoutAssumption, Solvent, Request, Debit
    <3> QED
      BY <3>1 DEF Balance
  <2>2. reserved' = reserved /\ spent' = spent /\ coupon' = coupon
    BY DEF Debit, tables
  <2>3. Checked(w)
    BY DEF Sound
  <2> QED
    BY <1>1, <1>5, <1>6, <2>1, <2>2, <2>3 DEF Checked, Customer, Redeemable
<1>9. Moves(w, q)
  BY <1>1, <1>3, <1>4, <1>6, <1>7, <1>8 DEF Moves, Holds
<1> QED
  BY <1>6, <1>9

\* A request whose transaction is over holds nothing and has nothing to check.
LEMMA EndMoves ==
  ASSUME NEW w \in Workers, Sound(w), NEW q \in {Idle} \union Request,
         proc' = [proc EXCEPT ![w] = q],
         q.at \in {"idle", "placed", "failed"}, q.at # "idle" => q.held = {}
  PROVE  Moves(w, q)
<1>1. proc'[w] = q
  BY OneRequestMoves DEF Sound
<1>2. InOrder(w)' /\ Checked(w)'
  BY <1>1 DEF InOrder, Checked
<1> QED
  BY <1>2 DEF Moves

\* The commit ends the transaction; a request with a key has its row to complete.
LEMMA CommitMoves ==
  ASSUME NEW w \in Workers, Sound(w), Commit(w)
  PROVE  \E q : /\ Moves(w, q) /\ q.at \in {"idle", "placed"}
                /\ q.at = "idle" => proc[w].key = NoKey
                /\ q.at = "placed" => /\ q.key # NoKey /\ q.order = Len(orders) + 1
                                      /\ q.body = proc[w].body /\ q.key = proc[w].key
                                      /\ q.record = proc[w].record
<1> DEFINE p == proc[w]
           placed == [p EXCEPT !.at = "placed", !.order = Len(orders) + 1, !.cart = 0, !.items = {},
                               !.paid = 0, !.held = {}]
           q == IF p.key = NoKey THEN Idle ELSE placed
<1>1. p \in Request
  BY RequestOf DEF Commit, At, Sound
<1>2. proc' = [proc EXCEPT ![w] = q]
  BY DEF Commit
<1>3. Len(orders) + 1 \in Nat
  BY DEF Sound, TypeOK
<1>4. placed \in Request
  BY <1>1, <1>3 DEF Request, Steps
<1>5. /\ placed.at = "placed" /\ placed.order = Len(orders) + 1 /\ placed.held = {}
      /\ placed.body = p.body /\ placed.key = p.key /\ placed.record = p.record
  BY <1>1 DEF Request
<1> HIDE DEF placed
<1>6. /\ q \in {Idle} \union Request /\ q.at \in {"idle", "placed"}
      /\ IF q.at = "placed" THEN q = placed /\ p.key # NoKey ELSE p.key = NoKey
  BY <1>4, <1>5, IdleIsIdle
<1> HIDE DEF q
<1>7. Moves(w, q)
  BY <1>2, <1>5, <1>6, EndMoves
<1> QED
  BY <1>5, <1>6, <1>7

\* The rollback ends the transaction; a request with a key has its row to delete.
LEMMA FailMoves ==
  ASSUME NEW w \in Workers, Sound(w), Fail(w)
  PROVE  \E q : /\ Moves(w, q) /\ q.at \in {"idle", "failed"}
                /\ q.at = "failed" => /\ q.key # NoKey
                                      /\ q.body = proc[w].body /\ q.key = proc[w].key
                                      /\ q.record = proc[w].record
<1> DEFINE p == proc[w]
           failed == [p EXCEPT !.at = "failed", !.cart = 0, !.items = {}, !.todo = {}, !.paid = 0, !.held = {}]
           q == IF p.key = NoKey THEN Idle ELSE failed
<1>1. p \in Request
  BY RequestOf DEF Fail, At, Sound
<1>2. proc' = [proc EXCEPT ![w] = q]
  BY DEF Fail
<1>3. failed \in Request
  BY <1>1 DEF Request, Steps
<1>4. /\ failed.at = "failed" /\ failed.held = {}
      /\ failed.body = p.body /\ failed.key = p.key /\ failed.record = p.record
  BY <1>1 DEF Request
<1> HIDE DEF failed
<1>5. q \in {Idle} \union Request /\ q.at \in {"idle", "failed"} /\ (q.at = "failed" => q = failed /\ p.key # NoKey)
  BY <1>3, <1>4, IdleIsIdle
<1> HIDE DEF q
<1>6. Moves(w, q)
  BY <1>2, <1>4, <1>5, EndMoves
<1> QED
  BY <1>4, <1>5, <1>6

\* A request is over, or dies.
LEMMA LeaveMoves ==
  ASSUME NEW w \in Workers, Sound(w), proc' = [proc EXCEPT ![w] = Idle]
  PROVE  Moves(w, Idle)
BY EndMoves, IdleIsIdle

-----------------------------------------------------------------------------
\* The checks of all requests survive a step of one of them.

\* The part of the invariant about locks and tables.
LockInv ==
  /\ TypeOK
  /\ Exclusive
  /\ Solvent
  /\ \A w \in Workers : InOrder(w) /\ Checked(w)

\* A step of w that writes no table.
LEMMA TablesUnchanged ==
  ASSUME LockInv, CheckoutAssumption, NEW w \in Workers, NEW q, Moves(w, q), UNCHANGED <<tables, credit>>
  PROVE  Exclusive' /\ Solvent' /\ \A u \in Workers : (InOrder(u) /\ Checked(u))'
<1>1. proc'[w] = q /\ \A u \in Workers : u # w => proc'[u] = proc[u]
  BY OneRequestMoves DEF Moves, LockInv
<1>2. Exclusive'
  BY LocksStayExclusive DEF LockInv
<1>3. Solvent'
  BY DEF Solvent, LockInv, tables
<1>4. InOrder(w)' /\ Checked(w)'
  <2>1. CASE q.at = "idle"
    BY <1>1, <2>1 DEF InOrder, Checked
  <2> QED
    BY <2>1 DEF Moves
<1>5. ASSUME NEW u \in Workers, u # w
      PROVE  InOrder(u)' /\ Checked(u)'
  <2>1. InOrder(u) /\ Checked(u) /\ proc'[u] = proc[u]
    BY <1>1, <1>5 DEF LockInv
  <2>2. reserved' = reserved /\ coupon' = coupon /\ spent' = spent
    BY DEF tables
  <2> QED
    BY <2>1, <2>2 DEF InOrder, Checked, Customer, Redeemable
<1> QED
  BY <1>2, <1>3, <1>4, <1>5

\* What a commit writes, the others have not checked: they do not hold it.
LEMMA CommitKeepsChecks ==
  ASSUME LockInv, CheckoutAssumption, NEW w \in Workers, Commit(w)
  PROVE  Exclusive' /\ Solvent' /\ \A u \in Workers : (InOrder(u) /\ Checked(u))'
<1> DEFINE p == proc[w]
           c == Customer(w)
<1>1. Sound(w) /\ p.at = "commit" /\ Live(w)
  BY DEF LockInv, Sound, Commit, At, Live
<1>2. /\ p \in Request /\ c \in Customers /\ p.body.coupon \in BOOLEAN /\ p.items \subseteq Variants
      /\ p.paid \in Nat
  BY <1>1, TransactionTypes DEF Sound, Request
<1>3. PICK q : Moves(w, q)
  BY <1>1, CommitMoves
<1>4. proc'[w] = q /\ \A u \in Workers : u # w => proc'[u] = proc[u]
  BY <1>3, OneRequestMoves DEF Moves, LockInv
<1>5. Exclusive'
  BY <1>3, LocksStayExclusive DEF LockInv
<1>6. /\ p.todo = {} /\ spent[c] + p.paid <= Credit[c]
      /\ p.paid > 0 => Holds(w, <<"wallet", c>>)
      /\ p.body.coupon => Holds(w, <<"coupon", 0>>)
      /\ \A v \in p.items : Holds(w, <<"stock", v>>)
  BY <1>1 DEF Sound, InOrder, Checked, Holds
<1>7. /\ reserved' = [v \in Variants |-> reserved[v] + IF v \in p.items THEN 1 ELSE 0]
      /\ ~p.body.coupon => coupon' = coupon
      /\ spent' = [spent EXCEPT ![c] = @ + p.paid]
      /\ credit' = credit
  BY DEF Commit
<1>8. \A d \in Customers : spent[d] \in Nat /\ (d # c \/ p.paid = 0 => spent'[d] = spent[d])
                           /\ spent'[c] = spent[c] + p.paid
  BY <1>1, <1>2, <1>7 DEF Sound, TypeOK
<1>9. Solvent'
  BY <1>1, <1>6, <1>7, <1>8 DEF Solvent, Sound
<1>10. InOrder(w)' /\ Checked(w)'
  <2>1. CASE q.at = "idle"
    BY <1>4, <2>1 DEF InOrder, Checked
  <2> QED
    BY <1>3, <2>1 DEF Moves
<1>11. ASSUME NEW u \in Workers, u # w
       PROVE  InOrder(u)' /\ Checked(u)'
  <2>1. InOrder(u) /\ Checked(u) /\ proc'[u] = proc[u]
    BY <1>4, <1>11 DEF LockInv
  <2>2. InOrder(u)'
    BY <2>1 DEF InOrder
  <2>3. ASSUME proc[u].at \in {"wallet", "reserve", "redeem", "debit", "commit"}
        PROVE  Checked(u)'
    <3>1. /\ proc[u] \in Request /\ Customer(u) \in Customers /\ proc[u].body.coupon \in BOOLEAN
          /\ Live(u) /\ proc[u].items \subseteq Variants /\ proc[u].paid \in Nat
      BY <1>1, <2>3, TransactionTypes DEF Live, Sound, Request
    <3>2. \A r \in Rows : Holds(w, r) => r \notin proc[u].held
      BY <1>11, <3>1 DEF LockInv, Exclusive, Holds
    <3>3. ASSUME NEW v \in proc[u].items \ proc[u].todo
          PROVE  <<"stock", v>> \in proc[u].held /\ reserved'[v] < Physical[v]
      <4>1. <<"stock", v>> \in proc[u].held /\ reserved[v] < Physical[v] /\ v \in Variants
        BY <2>1, <2>3, <3>1, <3>3 DEF Checked
      <4>2. <<"stock", v>> \in Rows
        BY <4>1 DEF Rows
      <4>3. v \notin p.items
        BY <1>6, <3>2, <4>1, <4>2
      <4>4. reserved'[v] = reserved[v]
        BY <1>1, <1>7, <4>1, <4>3 DEF Sound, TypeOK
      <4> QED
        BY <4>1, <4>4
    <3>4. ASSUME proc[u].at \in {"debit", "commit"}, proc[u].body.coupon
          PROVE  <<"coupon", 0>> \in proc[u].held /\ Redeemable(Customer(u))'
      <4>1. <<"coupon", 0>> \in proc[u].held /\ Redeemable(Customer(u))
        BY <2>1, <3>4 DEF Checked
      <4>2. <<"coupon", 0>> \in Rows
        BY DEF Rows
      <4>3. coupon' = coupon
        BY <1>6, <1>7, <3>2, <4>1, <4>2
      <4> QED
        BY <2>1, <4>1, <4>3 DEF Redeemable, Customer
    <3>5. ASSUME proc[u].at = "commit"
          PROVE  spent'[Customer(u)] + proc[u].paid <= Credit[Customer(u)]
      <4>1. spent[Customer(u)] + proc[u].paid <= Credit[Customer(u)]
            /\ (proc[u].paid > 0 => <<"wallet", Customer(u)>> \in proc[u].held)
        BY <2>1, <3>5 DEF Checked
      <4>2. CASE Customer(u) # c \/ p.paid = 0
        BY <1>8, <3>1, <4>1, <4>2
      <4>3. CASE Customer(u) = c /\ p.paid # 0
        <5>1. <<"wallet", c>> \in Rows
          BY <1>2 DEF Rows
        <5>2. ~(proc[u].paid > 0)
          BY <1>2, <1>6, <3>2, <4>1, <4>3, <5>1
        <5>3. proc[u].paid = 0
          BY <3>1, <5>2
        <5> QED
          BY <1>6, <1>8, <4>3, <5>3, <1>2
      <4> QED
        BY <4>2, <4>3
    <3> QED
      BY <2>1, <3>3, <3>4, <3>5 DEF Checked, Customer
  <2>4. CASE ~(proc[u].at \in {"wallet", "reserve", "redeem", "debit", "commit"})
    BY <2>1, <2>2, <2>4 DEF Checked
  <2> QED
    BY <2>2, <2>3, <2>4
<1> QED
  BY <1>5, <1>9, <1>10, <1>11

-----------------------------------------------------------------------------
\* Keys, requests and orders.

KeyInv ==
  /\ \A w \in Workers : Linked(w)
  /\ \A k \in Keys : Guarded(k)
  /\ ReplayIsTruthful

\* Nothing about keys happens.
LEMMA NothingHappens ==
  ASSUME KeyInv, UNCHANGED <<orders, keys, proc, bypassed>>
  PROVE  KeyInv'
<1>1. \A k \in Keys : OrdersWith(k)' = OrdersWith(k)
  BY DEF OrdersWith
<1>2. \A w \in Workers : Linked(w)'
  BY DEF KeyInv, Linked, Live, Mine, Customer, OrdersWith
<1>3. \A k \in Keys : Guarded(k)'
  BY DEF KeyInv, Guarded, Live, At, OrdersWith
<1>4. ReplayIsTruthful'
  BY DEF KeyInv, ReplayIsTruthful, OrdersWith
<1> QED
  BY <1>2, <1>3, <1>4 DEF KeyInv

\* A request ends, starts without a key, or goes on under its key without
\* placing its order.
LEMMA QuietStep ==
  ASSUME TypeOK, CheckoutAssumption, KeyInv, NEW w \in Workers, NEW q, Moves(w, q),
         UNCHANGED <<orders, keys, bypassed>>,
         \/ q.at = "idle"
         \/ q.key = NoKey /\ q.at = "ready"
         \/ /\ Live(w) /\ proc[w].at # "placed" /\ q.at # "placed"
            /\ q.body = proc[w].body /\ q.key = proc[w].key /\ q.record = proc[w].record
            /\ q.at = "failed" => q.key # NoKey
  PROVE  KeyInv'
<1>1. proc'[w] = q /\ q \in {Idle} \union Request /\ \A u \in Workers : u # w => proc'[u] = proc[u]
  BY OneRequestMoves DEF Moves
<1>2. NoKey \notin Keys
  BY DEF CheckoutAssumption
<1>3. \A k \in Keys : OrdersWith(k)' = OrdersWith(k)
  BY DEF OrdersWith
<1>4. ASSUME NEW u \in Workers, u # w PROVE Linked(u)'
  BY <1>1, <1>4 DEF KeyInv, Linked, Live, Mine, Customer, OrdersWith
<1>5. Linked(w)'
  <2>1. CASE q.at = "idle"
    BY <1>1, <2>1 DEF Linked, Live
  <2>2. CASE q.key = NoKey /\ q.at = "ready"
    BY <1>1, <1>2, <2>2 DEF Linked, Live
  <2>3. CASE /\ Live(w) /\ proc[w].at # "placed" /\ q.at # "placed"
             /\ q.body = proc[w].body /\ q.key = proc[w].key /\ q.record = proc[w].record
             /\ q.at = "failed" => q.key # NoKey
    <3>1. Linked(w) /\ proc[w] \in Request
      BY <2>3, RequestOf DEF KeyInv, Live
    <3>2. q.key \in Keys \union {NoKey}
      BY <2>3, <3>1 DEF Request
    <3>3. Mine(w)' <=> Mine(w)
      BY <1>1, <2>3 DEF Mine
    <3> QED
      BY <1>1, <2>3, <3>1, <3>2, <3>3 DEF Linked, Live
  <2> QED
    BY <2>1, <2>2, <2>3
<1>6. ASSUME NEW k \in Keys PROVE Guarded(k)'
  <2>1. \A u \in Workers : Live(u)' /\ proc'[u].key = k =>
          /\ Live(u) /\ proc[u].key = k /\ proc'[u].record = proc[u].record
          /\ At(u, "placed")' <=> At(u, "placed")
          /\ At(u, "placed") => proc'[u].order = proc[u].order
    BY <1>1, <1>2 DEF Live, At
  <2>2. keys' = keys /\ bypassed' = bypassed
    OBVIOUS
  <2> QED
    BY <1>3, <2>1, <2>2 DEF KeyInv, Guarded
<1>7. ReplayIsTruthful'
  BY DEF KeyInv, ReplayIsTruthful, OrdersWith
<1> QED
  BY <1>4, <1>5, <1>6, <1>7 DEF KeyInv

\* A claimed key is worked on by the claimant alone.
LEMMA ClaimIsGuarded ==
  ASSUME TypeOK, CheckoutAssumption, KeyInv, NEW w \in Workers, Sound(w), ClaimKey(w)
  PROVE  KeyInv' /\ \E q : Moves(w, q)
<1>1. PICK body \in Payloads, k \in Keys :
        /\ keys[k].row.status = "NONE"
        /\ keys' = [keys EXCEPT ![k] = [id |-> @.id + 1, row |-> [status |-> "IN_PROGRESS", body |-> body,
                                                              stale |-> FALSE, response |-> 0]]]
        /\ Begins(w, body, k, keys[k].id + 1)
  BY DEF ClaimKey
<1>2. \A j \in Keys : keys[j].id \in Nat
  BY DEF TypeOK
<1>3. PICK q : Moves(w, q) /\ q.at = "ready" /\ q.body = body /\ q.key = k /\ q.record = keys[k].id + 1
  BY <1>1, <1>2, BeginsMoves
<1>4. proc'[w] = q /\ \A u \in Workers : u # w => proc'[u] = proc[u]
  BY <1>3, OneRequestMoves DEF Moves
<1>5. orders' = orders /\ bypassed' = bypassed /\ \A j \in Keys : OrdersWith(j)' = OrdersWith(j)
  BY DEF ClaimKey, tables, OrdersWith
<1>6. /\ keys'[k].id = keys[k].id + 1 /\ keys'[k].row.status = "IN_PROGRESS" /\ keys'[k].row.body = body
      /\ \A j \in Keys : j # k => keys'[j] = keys[j]
  BY <1>1 DEF TypeOK
<1>7. ~Live(w)
  BY <1>1 DEF Begins, At, Live
<1>8. ASSUME NEW u \in Workers, u # w PROVE Linked(u)'
  <2>1. Linked(u) /\ proc'[u] = proc[u]
    BY <1>4, <1>8 DEF KeyInv
  <2>2. CASE Live(u) /\ proc[u].key = k
    <3>1. proc[u].record \in Nat /\ proc[u].record <= keys[k].id
      BY <2>1, <2>2, RequestOf DEF Linked, Live, Request
    <3>2. ~Mine(u)' /\ proc[u].record <= keys'[k].id
      BY <1>2, <1>6, <2>1, <2>2, <3>1 DEF Mine
    <3> QED
      BY <1>5, <2>1, <2>2, <3>2 DEF Linked, Live, Customer
  <2>3. CASE Live(u) /\ proc[u].key # k /\ proc[u].key \in Keys
    <3>1. keys'[proc[u].key] = keys[proc[u].key]
      BY <1>6, <2>3
    <3>2. Mine(u)' <=> Mine(u)
      BY <2>1, <3>1 DEF Mine
    <3> QED
      BY <1>5, <2>1, <2>3, <3>1, <3>2 DEF Linked, Live, Customer
  <2>4. CASE ~Live(u) \/ proc[u].key \notin Keys
    BY <1>5, <2>1, <2>4 DEF Linked, Live, Customer
  <2> QED
    BY <2>2, <2>3, <2>4
<1>9. Linked(w)'
  <2>1. Mine(w)' => keys'[k].row.body = body
    BY <1>6
  <2>2. q.record <= keys'[k].id
    BY <1>2, <1>3, <1>6
  <2> QED
    BY <1>3, <1>4, <2>1, <2>2 DEF Linked, Live
<1>10. ASSUME NEW j \in Keys PROVE Guarded(j)'
  <2>1. CASE j = k /\ k \notin bypassed
    <3>1. OrdersWith(k) = {} /\ \A u \in Workers : ~(Live(u) /\ proc[u].key = k)
      BY <1>1, <2>1 DEF KeyInv, Guarded
    <3>2. \A u \in Workers : Live(u)' /\ proc'[u].key = k => u = w
      BY <1>4, <3>1 DEF Live
    <3>3. ~At(w, "placed")' /\ proc'[w].record = keys'[k].id
      BY <1>3, <1>4, <1>6 DEF At
    <3>4. \E i \in Nat : OrdersWith(k)' \subseteq {i}
      BY <1>5, <3>1
    <3> QED
      BY <1>5, <1>6, <2>1, <3>1, <3>2, <3>3, <3>4 DEF Guarded
  <2>2. CASE j # k
    <3>1. \A u \in Workers : Live(u)' /\ proc'[u].key = j => Live(u) /\ proc'[u] = proc[u]
      BY <1>3, <1>4, <2>2 DEF Live
    <3>2. keys'[j] = keys[j]
      BY <1>6, <2>2
    <3> QED
      BY <1>5, <3>1, <3>2 DEF KeyInv, Guarded, At
  <2>3. CASE k \in bypassed /\ j = k
    BY <1>5, <2>3 DEF Guarded
  <2> QED
    BY <2>1, <2>2, <2>3
<1>11. ReplayIsTruthful'
  BY <1>5, <1>6 DEF KeyInv, ReplayIsTruthful
<1> QED
  BY <1>3, <1>8, <1>9, <1>10, <1>11 DEF KeyInv

\* A key that is taken over is no longer guarded; its rows and orders still match.
LEMMA TakeOverIsLinked ==
  ASSUME TypeOK, CheckoutAssumption, KeyInv, NEW w \in Workers, Sound(w), TakeOver(w)
  PROVE  KeyInv' /\ \E q : Moves(w, q)
<1>1. PICK k \in Keys :
        /\ keys[k].row.status = "IN_PROGRESS"
        /\ Begins(w, keys[k].row.body, k, keys[k].id)
        /\ bypassed' = bypassed \union {k}
  BY DEF TakeOver
<1>2. keys[k].id \in Nat /\ keys[k].row.body \in Payloads
  <2>1. keys[k].row \in Records /\ keys[k].id \in Nat
    BY DEF TypeOK
  <2> QED
    BY <1>1, <2>1 DEF Records, NoRecord
<1>3. PICK q : /\ Moves(w, q) /\ q.at = "ready" /\ q.body = keys[k].row.body /\ q.key = k
               /\ q.record = keys[k].id
  BY <1>1, <1>2, BeginsMoves
<1>4. proc'[w] = q /\ \A u \in Workers : u # w => proc'[u] = proc[u]
  BY <1>3, OneRequestMoves DEF Moves
<1>5. orders' = orders /\ keys' = keys /\ \A j \in Keys : OrdersWith(j)' = OrdersWith(j)
  BY DEF TakeOver, tables, OrdersWith
<1>6. ASSUME NEW u \in Workers, u # w PROVE Linked(u)'
  BY <1>4, <1>5, <1>6 DEF KeyInv, Linked, Live, Mine, Customer, OrdersWith
<1>7. Linked(w)'
  BY <1>2, <1>3, <1>4, <1>5 DEF Linked, Live
<1>8. ASSUME NEW j \in Keys PROVE Guarded(j)'
  <2>1. CASE j = k
    BY <1>1, <2>1 DEF Guarded
  <2>2. CASE j # k
    <3>1. \A u \in Workers : Live(u)' /\ proc'[u].key = j => Live(u) /\ proc'[u] = proc[u]
      BY <1>3, <1>4, <2>2 DEF Live
    <3>2. j \notin bypassed' => j \notin bypassed
      BY <1>1
    <3> QED
      BY <1>5, <3>1, <3>2 DEF KeyInv, Guarded, At
  <2> QED
    BY <2>1, <2>2
<1>9. ReplayIsTruthful'
  BY <1>5 DEF KeyInv, ReplayIsTruthful
<1> QED
  BY <1>3, <1>6, <1>7, <1>8, <1>9 DEF KeyInv

\* A commit places the first order of a guarded key.
LEMMA CommitIsLinked ==
  ASSUME TypeOK, CheckoutAssumption, KeyInv, NEW w \in Workers, Sound(w), Commit(w)
  PROVE  KeyInv'
<1> DEFINE p == proc[w]
           n == Len(orders) + 1
           o == [customer |-> Customer(w), key |-> p.key, items |-> p.items,
                 coupon |-> p.body.coupon, paid |-> p.paid]
<1>1. PICK q : /\ Moves(w, q) /\ q.at \in {"idle", "placed"}
               /\ q.at = "idle" => p.key = NoKey
               /\ q.at = "placed" => /\ q.key # NoKey /\ q.order = n
                                     /\ q.body = p.body /\ q.key = p.key /\ q.record = p.record
  BY CommitMoves
<1>2. /\ proc'[w] = q /\ q \in {Idle} \union Request
      /\ \A u \in Workers : u # w => proc'[u] = proc[u]
  BY <1>1, OneRequestMoves DEF Moves
<1>3. p \in Request /\ Live(w) /\ p.at = "commit"
  BY RequestOf DEF Commit, At, Live
<1>4. keys' = keys /\ bypassed' = bypassed /\ orders' = Append(orders, o)
  BY DEF Commit
<1>5. orders \in Seq(Placement!Order)
  BY DEF TypeOK
<1> HIDE DEF o
<1>6. /\ n \in Nat /\ n \notin DOMAIN orders /\ n \in DOMAIN orders' /\ orders'[n] = o
      /\ DOMAIN orders' = DOMAIN orders \union {n}
      /\ \A i \in DOMAIN orders : orders'[i] = orders[i]
  BY <1>4, <1>5
<1>7. o.key = p.key /\ o.customer = Customer(w) /\ o.coupon = p.body.coupon
  BY DEF o
<1> HIDE DEF n
<1>8. \A k \in Keys : OrdersWith(k)' = OrdersWith(k) \union (IF k = p.key THEN {n} ELSE {})
  BY <1>6, <1>7 DEF OrdersWith
<1>9. \A k \in Keys : \A i \in OrdersWith(k) : i \in OrdersWith(k)' /\ orders'[i] = orders[i]
  BY <1>6, <1>8 DEF OrdersWith
<1>10. NoKey \notin Keys
  BY DEF CheckoutAssumption
<1>11. ASSUME NEW u \in Workers, u # w PROVE Linked(u)'
  <2>1. Linked(u) /\ proc'[u] = proc[u]
    BY <1>2, <1>11 DEF KeyInv
  <2> QED
    BY <1>4, <1>9, <2>1 DEF Linked, Live, Mine, Customer
<1>12. Linked(w)'
  <2>1. CASE q.at = "idle"
    BY <1>2, <2>1 DEF Linked, Live
  <2>2. CASE q.at = "placed"
    <3>1. q.key \in Keys /\ q.key = p.key /\ q.body = p.body /\ q.record = p.record /\ q.order = n
      BY <1>1, <1>3, <2>2 DEF Request
    <3>2. Linked(w)
      BY DEF KeyInv
    <3>3. q.record <= keys'[q.key].id /\ (Mine(w)' => keys'[q.key].row.body = q.body)
      BY <1>2, <1>3, <1>4, <3>1, <3>2 DEF Linked, Mine
    <3>4. /\ n \in OrdersWith(q.key)' /\ orders'[n].customer = Customer(w)'
          /\ orders'[n].coupon = q.body.coupon
      BY <1>2, <1>6, <1>7, <1>8, <3>1 DEF Customer
    <3> QED
      BY <1>2, <2>2, <3>1, <3>3, <3>4 DEF Linked, Live
  <2> QED
    BY <1>1, <2>1, <2>2
<1>13. ASSUME NEW k \in Keys PROVE Guarded(k)'
  <2>1. Guarded(k)
    BY DEF KeyInv
  <2>2. CASE k = p.key
    <3>1. q.at = "placed" /\ q.key = p.key /\ q.record = p.record /\ q.order = n
      BY <1>1, <1>10, <2>2
    <3>2. \A u \in Workers : Live(u)' /\ proc'[u].key = k <=> Live(u) /\ proc[u].key = k
      BY <1>2, <1>3, <2>2, <3>1 DEF Live
    <3>3. ASSUME k \notin bypassed
          PROVE  /\ \A u \in Workers : Live(u) /\ proc[u].key = k => u = w
                 /\ keys[k].row.status = "IN_PROGRESS" /\ p.record = keys[k].id
                 /\ OrdersWith(k)' = {n}
      <4>1. OrdersWith(k) = {}
        BY <1>3, <2>1, <2>2, <3>3 DEF Guarded, At
      <4> QED
        BY <1>3, <1>8, <2>1, <2>2, <3>3, <4>1 DEF Guarded
    <3> QED
      BY <1>2, <1>4, <1>6, <3>1, <3>2, <3>3 DEF Guarded, At
  <2>3. CASE k # p.key
    <3>1. OrdersWith(k)' = OrdersWith(k)
      BY <1>8, <2>3
    <3>2. \A u \in Workers : Live(u)' /\ proc'[u].key = k => Live(u) /\ proc'[u] = proc[u]
      BY <1>1, <1>2, <2>3 DEF Live
    <3> QED
      BY <1>4, <2>1, <3>1, <3>2 DEF Guarded, At
  <2> QED
    BY <2>2, <2>3
<1>14. ReplayIsTruthful'
  BY <1>4, <1>9 DEF KeyInv, ReplayIsTruthful
<1> QED
  BY <1>11, <1>12, <1>13, <1>14 DEF KeyInv

\* The end of a request under the guard: its row is completed or deleted, if it
\* is still there.
LEMMA EndIsLinked ==
  ASSUME TypeOK, CheckoutAssumption, KeyInv, NEW w \in Workers, proc' = [proc EXCEPT ![w] = Idle],
         proc[w].at \in {"placed", "failed"}, NEW row, keys' = WithRow(w, row), orders' = orders,
         bypassed \subseteq bypassed',
         \/ row = NoRecord /\ (proc[w].at = "failed" \/ proc[w].key \in bypassed')
         \/ /\ proc[w].at = "placed"
            /\ row = [keys[proc[w].key].row EXCEPT !.status = "COMPLETED", !.stale = FALSE,
                                                   !.response = proc[w].order]
  PROVE  KeyInv'
<1> DEFINE p == proc[w]
           old == keys[p.key].row
<1>1. p \in Request /\ Live(w) /\ Linked(w) /\ p.key \in Keys
  BY RequestOf DEF KeyInv, Linked, Live
<1>2. ~Live(w)' /\ \A u \in Workers : u # w => proc'[u] = proc[u]
  BY OneRequestMoves, IdleIsIdle DEF Live
<1>3. \A k \in Keys : OrdersWith(k)' = OrdersWith(k)
  BY DEF OrdersWith
<1>4. /\ \A k \in Keys : k # p.key => keys'[k] = keys[k]
      /\ \A k \in Keys : keys'[k].id = keys[k].id
      /\ keys'[p.key].row = IF Mine(w) THEN row ELSE old
  <2>1. keys \in [Keys -> [id : Nat, row : Records]]
    BY DEF TypeOK
  <2>2. CASE Mine(w)
    BY <1>1, <2>1, <2>2 DEF WithRow
  <2>3. CASE ~Mine(w)
    BY <2>3 DEF WithRow
  <2> QED
    BY <2>2, <2>3
<1>5. old \in Records
  BY <1>1 DEF TypeOK
<1>6. CASE row = NoRecord /\ (p.at = "failed" \/ p.key \in bypassed')
  <2>1. row.status = "NONE"
    BY <1>6 DEF NoRecord
  <2>2. ASSUME NEW u \in Workers PROVE Linked(u)'
    <3>1. CASE u = w
      BY <1>2, <3>1 DEF Linked, Live
    <3>2. CASE u # w
      <4>1. Linked(u) /\ proc'[u] = proc[u]
        BY <1>2, <3>2 DEF KeyInv
      <4>2. ASSUME proc[u].key \in Keys
            PROVE  Mine(u)' => Mine(u) /\ keys'[proc[u].key].row.body = keys[proc[u].key].row.body
        <5>1. CASE proc[u].key = p.key /\ Mine(w)
          BY <1>4, <2>1, <4>1, <5>1 DEF Mine
        <5>2. CASE proc[u].key = p.key /\ ~Mine(w)
          BY <1>1, <1>4, <4>1, <5>2 DEF Mine
        <5>3. CASE proc[u].key # p.key
          BY <1>4, <4>1, <4>2, <5>3 DEF Mine
        <5> QED
          BY <5>1, <5>2, <5>3
      <4> QED
        BY <1>3, <1>4, <4>1, <4>2 DEF Linked, Live, Customer
    <3> QED
      BY <3>1, <3>2
  <2>3. ASSUME NEW k \in Keys PROVE Guarded(k)'
    <3>1. Guarded(k) /\ \A u \in Workers : Live(u)' /\ proc'[u].key = k => Live(u) /\ u # w /\ proc'[u] = proc[u]
      BY <1>2 DEF KeyInv, Live
    <3>2. CASE k # p.key
      BY <1>3, <1>4, <3>1, <3>2 DEF Guarded, At
    <3>3. CASE k = p.key /\ k \notin bypassed'
      <4>1. /\ \A u \in Workers : Live(u) /\ proc[u].key = k => u = w
            /\ OrdersWith(k) = {}
        BY <1>1, <1>6, <3>1, <3>3 DEF Guarded, At
      <4> QED
        BY <1>3, <3>1, <4>1 DEF Guarded
    <3>4. CASE k \in bypassed'
      BY <3>4 DEF Guarded
    <3> QED
      BY <3>2, <3>3, <3>4
  <2>4. ReplayIsTruthful'
    BY <1>3, <1>4, <2>1 DEF KeyInv, ReplayIsTruthful
  <2> QED
    BY <2>2, <2>3, <2>4 DEF KeyInv
<1>7. CASE /\ p.at = "placed"
           /\ row = [old EXCEPT !.status = "COMPLETED", !.stale = FALSE, !.response = p.order]
  <2>1. ASSUME Mine(w)
        PROVE  row.status = "COMPLETED" /\ row.response = p.order /\ row.body = old.body
    <3>1. old.status # "NONE"
      BY <2>1 DEF Mine
    <3> QED
      BY <1>5, <1>7, <3>1 DEF Records, NoRecord
  <2>2. ASSUME NEW u \in Workers PROVE Linked(u)'
    <3>1. CASE u = w
      BY <1>2, <3>1 DEF Linked, Live
    <3>2. CASE u # w
      <4>1. Linked(u) /\ proc'[u] = proc[u]
        BY <1>2, <3>2 DEF KeyInv
      <4>2. ASSUME proc[u].key \in Keys
            PROVE  Mine(u)' => Mine(u) /\ keys'[proc[u].key].row.body = keys[proc[u].key].row.body
        <5>1. CASE proc[u].key = p.key /\ Mine(w)
          <6>1. keys'[p.key].row = row /\ keys'[p.key].id = keys[p.key].id /\ old.status # "NONE"
            BY <1>1, <1>4, <5>1 DEF Mine
          <6>2. row.body = old.body
            BY <2>1, <5>1
          <6> QED
            BY <4>1, <5>1, <6>1, <6>2 DEF Mine
        <5>2. CASE proc[u].key = p.key /\ ~Mine(w)
          BY <1>1, <1>4, <4>1, <5>2 DEF Mine
        <5>3. CASE proc[u].key # p.key
          BY <1>4, <4>1, <4>2, <5>3 DEF Mine
        <5> QED
          BY <5>1, <5>2, <5>3
      <4> QED
        BY <1>3, <1>4, <4>1, <4>2 DEF Linked, Live, Customer
    <3> QED
      BY <3>1, <3>2
  <2>3. ASSUME NEW k \in Keys PROVE Guarded(k)'
    <3>1. Guarded(k) /\ \A u \in Workers : Live(u)' /\ proc'[u].key = k => Live(u) /\ u # w /\ proc'[u] = proc[u]
      BY <1>2 DEF KeyInv, Live
    <3>2. CASE k # p.key
      BY <1>3, <1>4, <3>1, <3>2 DEF Guarded, At
    <3>3. CASE k = p.key /\ k \notin bypassed'
      <4>1. /\ \A u \in Workers : Live(u) /\ proc[u].key = k => u = w
            /\ Mine(w)
            /\ \E i \in Nat : OrdersWith(k) \subseteq {i}
        BY <1>1, <3>1, <3>3 DEF Guarded, Mine
      <4>2. keys'[k].row.status = "COMPLETED"
        BY <1>4, <2>1, <3>3, <4>1
      <4> QED
        BY <1>3, <3>1, <4>1, <4>2 DEF Guarded
    <3>4. CASE k \in bypassed'
      BY <3>4 DEF Guarded
    <3> QED
      BY <3>2, <3>3, <3>4
  <2>4. ReplayIsTruthful'
    <3>1. ASSUME NEW k \in Keys, keys'[k].row.status = "COMPLETED"
          PROVE  /\ keys'[k].row.response \in OrdersWith(k)'
                 /\ orders'[keys'[k].row.response].customer = keys'[k].row.body.customer
                 /\ orders'[keys'[k].row.response].coupon = keys'[k].row.body.coupon
      <4>1. CASE k = p.key /\ Mine(w)
        <5>1. /\ p.order \in OrdersWith(k) /\ old.body = p.body
              /\ orders[p.order].customer = Customer(w) /\ orders[p.order].coupon = p.body.coupon
          BY <1>1, <1>7, <4>1 DEF Linked
        <5>2. keys'[k].row = row /\ row.response = p.order /\ row.body = p.body
          BY <1>4, <2>1, <4>1, <5>1
        <5> QED
          BY <1>3, <5>1, <5>2 DEF Customer
      <4>2. CASE ~(k = p.key /\ Mine(w))
        <5>1. keys'[k].row = keys[k].row
          BY <1>1, <1>4, <4>2
        <5>2. /\ keys[k].row.response \in OrdersWith(k)
              /\ orders[keys[k].row.response].customer = keys[k].row.body.customer
              /\ orders[keys[k].row.response].coupon = keys[k].row.body.coupon
          BY <3>1, <5>1 DEF KeyInv, ReplayIsTruthful
        <5>3. orders' = orders /\ OrdersWith(k)' = OrdersWith(k)
          BY <1>3
        <5> QED
          BY <5>1, <5>2, <5>3
      <4> QED
        BY <4>1, <4>2
    <3> QED
      BY <3>1 DEF ReplayIsTruthful
  <2> QED
    BY <2>2, <2>3, <2>4 DEF KeyInv
<1> QED
  BY <1>6, <1>7

\* A row ages or is pruned.
LEMMA RowIsLinked ==
  ASSUME TypeOK, KeyInv, NEW k \in Keys, Age(k) \/ Prune(k)
  PROVE  KeyInv'
<1>1. proc' = proc /\ orders' = orders /\ bypassed \subseteq bypassed'
  BY DEF Age, Prune, tables
<1>2. /\ \A j \in Keys : keys'[j].id = keys[j].id /\ (j # k => keys'[j] = keys[j])
      /\ \/ keys'[k].row.status = "NONE" /\ k \in bypassed'
         \/ /\ keys'[k].row.status = keys[k].row.status /\ keys[k].row.status = "IN_PROGRESS"
            /\ keys'[k].row.body = keys[k].row.body
  <2>1. keys \in [Keys -> [id : Nat, row : Records]] /\ keys[k].row \in Records
    BY DEF TypeOK
  <2>2. CASE Age(k)
    <3>1. keys' = [keys EXCEPT ![k].row.stale = TRUE] /\ keys[k].row.status = "IN_PROGRESS"
      BY <2>2 DEF Age
    <3>2. keys'[k].row = [keys[k].row EXCEPT !.stale = TRUE]
      BY <2>1, <3>1
    <3>3. keys'[k].row.status = keys[k].row.status /\ keys'[k].row.body = keys[k].row.body
      BY <2>1, <3>1, <3>2 DEF Records, NoRecord
    <3> QED
      BY <2>1, <3>1, <3>3
  <2>3. CASE Prune(k)
    <3>1. keys' = [keys EXCEPT ![k].row = NoRecord] /\ k \in bypassed'
      BY <2>3 DEF Prune
    <3> QED
      BY <2>1, <3>1 DEF NoRecord
  <2> QED
    BY <2>2, <2>3
<1>3. \A j \in Keys : OrdersWith(j)' = OrdersWith(j)
  BY <1>1 DEF OrdersWith
<1>4. ASSUME NEW w \in Workers PROVE Linked(w)'
  <2>1. Linked(w)
    BY DEF KeyInv
  <2>2. ASSUME proc[w].key \in Keys
        PROVE  Mine(w)' => Mine(w) /\ keys'[proc[w].key].row.body = keys[proc[w].key].row.body
    BY <1>1, <1>2, <2>2 DEF Mine
  <2> QED
    BY <1>1, <1>2, <1>3, <2>1, <2>2 DEF Linked, Live, Customer
<1>5. ASSUME NEW j \in Keys PROVE Guarded(j)'
  <2>1. Guarded(j)
    BY DEF KeyInv
  <2>2. CASE j \in bypassed'
    BY <2>2 DEF Guarded
  <2>3. CASE j \notin bypassed'
    BY <1>1, <1>2, <1>3, <2>1, <2>3 DEF Guarded, Live, At
  <2> QED
    BY <2>2, <2>3
<1>6. ReplayIsTruthful'
  BY <1>1, <1>2, <1>3 DEF KeyInv, ReplayIsTruthful
<1> QED
  BY <1>4, <1>5, <1>6 DEF KeyInv

-----------------------------------------------------------------------------
\* The whole invariant.

\* Types survive a move that writes only the request and the history.
LEMMA TypesOfAMove ==
  ASSUME TypeOK, NEW w \in Workers, NEW q, Moves(w, q), UNCHANGED <<tables, credit, cart>>,
         keys' \in [Keys -> [id : Nat, row : Records]],
         requests' \in 0..MaxRequests, faults' \in 0..MaxFaults, bypassed' \subseteq Keys
  PROVE  TypeOK'
<1>1. proc' \in [Workers -> {Idle} \union Request]
  BY OneRequestMoves DEF Moves
<1> QED
  BY <1>1 DEF TypeOK, tables

\* The row of a request, replaced by another record.
LEMMA RowTypes ==
  ASSUME TypeOK, NEW w \in Workers, NEW row \in Records
  PROVE  WithRow(w, row) \in [Keys -> [id : Nat, row : Records]]
BY DEF TypeOK, WithRow

\* The counters stay within their bounds.
LEMMA BoundTypes ==
  ASSUME TypeOK, CheckoutAssumption
  PROVE  /\ requests < MaxRequests => requests + 1 \in 0..MaxRequests
         /\ faults < MaxFaults => faults + 1 \in 0..MaxFaults
BY DEF TypeOK, CheckoutAssumption

\* Inside the transaction: a step that writes nothing outside its request.
LEMMA QuietStepKeepsIInv ==
  ASSUME IInv, CheckoutAssumption, NEW w \in Workers, NEW q, Moves(w, q),
         UNCHANGED <<tables, credit, cart, keys, bypassed>>,
         requests' \in 0..MaxRequests, faults' \in 0..MaxFaults,
         \/ q.at = "idle"
         \/ q.key = NoKey /\ q.at = "ready"
         \/ /\ Live(w) /\ proc[w].at # "placed" /\ q.at # "placed"
            /\ q.body = proc[w].body /\ q.key = proc[w].key /\ q.record = proc[w].record
            /\ q.at = "failed" => q.key # NoKey
  PROVE  IInv'
<1>1. TypeOK /\ LockInv /\ KeyInv
  BY DEF IInv, LockInv, KeyInv
<1>2. KeyInv'
  BY <1>1, QuietStep DEF tables
<1>3. Exclusive' /\ Solvent' /\ \A u \in Workers : (InOrder(u) /\ Checked(u))'
  BY <1>1, TablesUnchanged
<1>4. TypeOK'
  <2>1. keys' \in [Keys -> [id : Nat, row : Records]] /\ bypassed' \subseteq Keys
    BY <1>1 DEF TypeOK
  <2> QED
    BY <1>1, <2>1, TypesOfAMove
<1> QED
  BY <1>2, <1>3, <1>4 DEF IInv, KeyInv

\* A commit stays within the stock and the coupon's limits.
LEMMA CommitTypes ==
  ASSUME LockInv, CheckoutAssumption, NEW w \in Workers, Commit(w)
  PROVE  TypeOK'
<1> DEFINE p == proc[w]
           c == Customer(w)
           o == [customer |-> c, key |-> p.key, items |-> p.items,
                 coupon |-> p.body.coupon, paid |-> p.paid]
<1>1. Sound(w) /\ p.at = "commit" /\ Live(w) /\ TypeOK
  BY DEF LockInv, Sound, Commit, At, Live
<1>2. /\ p \in Request /\ c \in Customers /\ p.body.coupon \in BOOLEAN /\ p.items \subseteq Variants
      /\ p.paid \in Nat /\ p.cart \in Nat /\ p.key \in Keys \union {NoKey}
  BY <1>1, TransactionTypes DEF Sound, Request
<1>3. PICK q : Moves(w, q)
  BY <1>1, CommitMoves
<1>4. proc' \in [Workers -> {Idle} \union Request]
  BY <1>1, <1>3, OneRequestMoves DEF Moves
<1>5. orders' \in Seq(Placement!Order)
  <2>1. o \in Placement!Order
    BY <1>2 DEF Placement!Order
  <2>2. orders' = Append(orders, o)
    BY DEF Commit
  <2>3. orders \in Seq(Placement!Order)
    BY <1>1 DEF TypeOK
  <2> HIDE DEF o
  <2> QED
    BY <2>1, <2>2, <2>3
<1>6. reserved' \in [Variants -> Nat] /\ \A v \in Variants : reserved'[v] <= Physical[v]
  <2>1. \A v \in p.items : reserved[v] < Physical[v]
    BY <1>1 DEF Sound, InOrder, Checked
  <2>2. /\ reserved \in [Variants -> Nat] /\ Physical \in [Variants -> Nat]
        /\ \A v \in Variants : reserved[v] <= Physical[v]
    BY <1>1 DEF TypeOK, CheckoutAssumption
  <2>3. reserved' = [v \in Variants |-> reserved[v] + IF v \in p.items THEN 1 ELSE 0]
    BY DEF Commit
  <2>4. ASSUME NEW v \in Variants
        PROVE  reserved'[v] \in Nat /\ reserved'[v] <= Physical[v]
    <3>1. reserved[v] \in Nat /\ Physical[v] \in Nat /\ reserved[v] <= Physical[v]
      BY <2>2
    <3>2. CASE v \in p.items
      <4>1. reserved'[v] = reserved[v] + 1 /\ reserved[v] < Physical[v]
        BY <2>1, <2>3, <3>2
      <4> QED
        BY <3>1, <4>1
    <3>3. CASE v \notin p.items
      BY <2>3, <3>1, <3>3
    <3> QED
      BY <3>2, <3>3
  <2>5. reserved' \in [Variants -> Nat]
    BY <2>3, <2>4
  <2> QED
    BY <2>4, <2>5
<1>7. coupon' \in [used : 0..UsageLimit, by : [Customers -> 0..UsageLimitPerCustomer]]
  <2>1. /\ coupon \in [used : 0..UsageLimit, by : [Customers -> 0..UsageLimitPerCustomer]]
        /\ UsageLimit \in Nat /\ UsageLimitPerCustomer \in Nat
    BY <1>1 DEF TypeOK, CheckoutAssumption
  <2>2. CASE p.body.coupon
    <3>1. Redeemable(c)
      BY <1>1, <2>2 DEF Sound, Checked
    <3>2. coupon' = [used |-> coupon.used + 1, by |-> [coupon.by EXCEPT ![c] = @ + 1]]
      BY <2>2 DEF Commit
    <3>3. coupon.used + 1 \in 0..UsageLimit
      BY <2>1, <3>1 DEF Redeemable
    <3>4. coupon.by[c] + 1 \in 0..UsageLimitPerCustomer
      BY <1>2, <2>1, <3>1 DEF Redeemable
    <3>5. [coupon.by EXCEPT ![c] = @ + 1] \in [Customers -> 0..UsageLimitPerCustomer]
      BY <2>1, <3>4
    <3> QED
      BY <3>2, <3>3, <3>5
  <2>3. CASE ~p.body.coupon
    BY <2>1, <2>3 DEF Commit
  <2> QED
    BY <2>2, <2>3
<1>8. spent' \in [Customers -> Nat]
  <2>1. spent' = [spent EXCEPT ![c] = @ + p.paid]
    BY DEF Commit
  <2>2. spent \in [Customers -> Nat]
    BY <1>1 DEF TypeOK
  <2>3. spent[c] + p.paid \in Nat
    BY <1>2, <2>2
  <2> QED
    BY <2>1, <2>2, <2>3
<1>9. cart' \in [Customers -> [id : Nat, filled : BOOLEAN]]
  <2>1. cart' = IF cart[c].id = p.cart
                  THEN [cart EXCEPT ![c] = [id |-> p.cart + 1, filled |-> FALSE]] ELSE cart
    BY DEF Commit
  <2>2. cart \in [Customers -> [id : Nat, filled : BOOLEAN]]
    BY <1>1 DEF TypeOK
  <2>3. [id |-> p.cart + 1, filled |-> FALSE] \in [id : Nat, filled : BOOLEAN]
    BY <1>2
  <2> QED
    BY <2>1, <2>2, <2>3
<1> QED
  BY <1>1, <1>4, <1>5, <1>6, <1>7, <1>8, <1>9 DEF TypeOK, Commit

\* The commit keeps the invariant.
LEMMA CommitKeepsIInv ==
  ASSUME IInv, CheckoutAssumption, NEW w \in Workers, Commit(w)
  PROVE  IInv'
<1>1. TypeOK /\ LockInv /\ KeyInv /\ Sound(w)
  BY DEF IInv, LockInv, KeyInv, Sound
<1>2. KeyInv'
  BY <1>1, CommitIsLinked
<1>3. Exclusive' /\ Solvent' /\ \A u \in Workers : (InOrder(u) /\ Checked(u))'
  BY <1>1, CommitKeepsChecks
<1>4. TypeOK'
  BY <1>1, CommitTypes
<1> QED
  BY <1>2, <1>3, <1>4 DEF IInv, KeyInv

\* A key is claimed or taken over.
LEMMA GuardKeepsIInv ==
  ASSUME IInv, CheckoutAssumption, NEW w \in Workers, ClaimKey(w) \/ TakeOver(w)
  PROVE  IInv'
<1>1. TypeOK /\ LockInv /\ KeyInv /\ Sound(w)
  BY DEF IInv, LockInv, KeyInv, Sound
<1>2. KeyInv' /\ \E q : Moves(w, q)
  BY <1>1, ClaimIsGuarded, TakeOverIsLinked
<1>3. PICK q : Moves(w, q)
  BY <1>2
<1>4. UNCHANGED <<tables, credit, cart, faults>> /\ bypassed' \subseteq Keys
      /\ requests < MaxRequests /\ requests' = requests + 1
  <2>1. bypassed \subseteq Keys
    BY <1>1 DEF TypeOK
  <2>2. CASE ClaimKey(w)
    BY <2>1, <2>2 DEF ClaimKey, Begins
  <2>3. CASE TakeOver(w)
    BY <2>1, <2>3 DEF TakeOver, Begins
  <2> QED
    BY <2>2, <2>3
<1>5. Exclusive' /\ Solvent' /\ \A u \in Workers : (InOrder(u) /\ Checked(u))'
  BY <1>1, <1>3, <1>4, TablesUnchanged
<1>6. keys' \in [Keys -> [id : Nat, row : Records]]
  <2>1. keys \in [Keys -> [id : Nat, row : Records]]
    BY <1>1 DEF TypeOK
  <2>2. CASE ClaimKey(w)
    <3>1. PICK body \in Payloads, k \in Keys :
            keys' = [keys EXCEPT ![k] = [id |-> @.id + 1, row |-> [status |-> "IN_PROGRESS", body |-> body,
                                                                  stale |-> FALSE, response |-> 0]]]
      BY <2>2 DEF ClaimKey
    <3>2. [status |-> "IN_PROGRESS", body |-> body, stale |-> FALSE, response |-> 0] \in Records
      BY DEF Records
    <3> QED
      BY <2>1, <3>1, <3>2
  <2>3. CASE TakeOver(w)
    BY <2>1, <2>3 DEF TakeOver
  <2> QED
    BY <2>2, <2>3
<1>7. requests' \in 0..MaxRequests /\ faults' \in 0..MaxFaults
  <2>1. faults \in 0..MaxFaults
    BY <1>1 DEF TypeOK
  <2> QED
    BY <1>1, <1>4, <2>1, BoundTypes
<1>8. TypeOK'
  BY <1>1, <1>3, <1>4, <1>6, <1>7, TypesOfAMove
<1> QED
  BY <1>2, <1>5, <1>8 DEF IInv, KeyInv

\* A request under the guard completes its row or deletes it.
LEMMA EndKeepsIInv ==
  ASSUME IInv, CheckoutAssumption, NEW w \in Workers, Complete(w) \/ ReleaseKey(w) \/ LoseCompletion(w)
  PROVE  IInv'
<1>1. TypeOK /\ LockInv /\ KeyInv /\ Sound(w)
  BY DEF IInv, LockInv, KeyInv, Sound
<1> DEFINE k == proc[w].key
           full == [keys[k].row EXCEPT !.status = "COMPLETED", !.stale = FALSE, !.response = proc[w].order]
<1>2. proc' = [proc EXCEPT ![w] = Idle] /\ UNCHANGED <<tables, credit, cart, requests>>
      /\ proc[w].at \in {"placed", "failed"}
  BY DEF Complete, ReleaseKey, LoseCompletion, At
<1>3. proc[w] \in Request /\ k \in Keys
  <2>1. Linked(w)
    BY <1>1 DEF KeyInv
  <2>2. proc[w] \in Request
    BY <1>1, <1>2, RequestOf
  <2> QED
    BY <1>2, <2>1, <2>2 DEF Linked
<1>4. Moves(w, Idle)
  BY <1>1, <1>2, LeaveMoves
<1>5. Exclusive' /\ Solvent' /\ \A u \in Workers : (InOrder(u) /\ Checked(u))'
  BY <1>1, <1>2, <1>4, TablesUnchanged
<1>6. /\ bypassed \subseteq bypassed' /\ bypassed' \subseteq Keys /\ faults' \in 0..MaxFaults
      /\ requests' \in 0..MaxRequests
  <2>1. bypassed \subseteq Keys /\ faults \in 0..MaxFaults /\ requests \in 0..MaxRequests
    BY <1>1 DEF TypeOK
  <2>2. CASE LoseCompletion(w)
    BY <1>1, <1>2, <1>3, <2>1, <2>2, BoundTypes DEF LoseCompletion
  <2>3. CASE Complete(w) \/ ReleaseKey(w)
    BY <1>2, <2>1, <2>3 DEF Complete, ReleaseKey
  <2> QED
    BY <2>2, <2>3
<1>7. orders' = orders
  BY <1>2 DEF tables
<1>8. NoRecord \in Records
  BY DEF Records
<1>9. CASE Complete(w)
  <2>1. keys' = WithRow(w, full) /\ proc[w].at = "placed"
    BY <1>9 DEF Complete, At
  <2>2. KeyInv'
    <3> HIDE DEF full
    <3> QED
      BY <1>1, <1>2, <1>6, <1>7, <2>1, EndIsLinked DEF full
  <2>3. keys' \in [Keys -> [id : Nat, row : Records]]
    <3>1. CASE Mine(w)
      <4>1. keys[k].row \in Records /\ keys[k].row.status # "NONE" /\ proc[w].order \in Nat
        BY <1>1, <1>3, <3>1 DEF TypeOK, Mine, Request
      <4>a. keys[k].row \in [status : {"IN_PROGRESS", "COMPLETED"}, body : Payloads, stale : BOOLEAN,
                             response : Nat]
        BY <4>1 DEF Records, NoRecord
      <4>2. full \in Records
        BY <4>1, <4>a DEF Records
      <4> HIDE DEF full
      <4> QED
        BY <1>1, <2>1, <4>2, RowTypes
    <3>2. CASE ~Mine(w)
      BY <1>1, <2>1, <3>2 DEF WithRow, TypeOK
    <3> QED
      BY <3>1, <3>2
  <2>4. TypeOK'
    BY <1>1, <1>2, <1>4, <1>6, <2>3, TypesOfAMove
  <2> QED
    BY <1>5, <2>2, <2>4 DEF IInv, KeyInv
<1>10. CASE ReleaseKey(w) \/ LoseCompletion(w)
  <2>1. keys' = WithRow(w, NoRecord) /\ (proc[w].at = "failed" \/ k \in bypassed')
    BY <1>10 DEF ReleaseKey, LoseCompletion, At
  <2>2. KeyInv'
    BY <1>1, <1>2, <1>6, <1>7, <2>1, EndIsLinked
  <2>3. keys' \in [Keys -> [id : Nat, row : Records]]
    BY <1>1, <1>8, <2>1, RowTypes
  <2>4. TypeOK'
    BY <1>1, <1>2, <1>4, <1>6, <2>3, TypesOfAMove
  <2> QED
    BY <1>5, <2>2, <2>4 DEF IInv, KeyInv
<1> QED
  BY <1>9, <1>10

\* No request moves: the checks of all of them still hold.
LEMMA NobodyMoves ==
  ASSUME LockInv, UNCHANGED <<tables, proc>>, \A c \in Customers : credit'[c] <= Credit[c]
  PROVE  Exclusive' /\ Solvent' /\ \A u \in Workers : (InOrder(u) /\ Checked(u))'
<1>1. Exclusive'
  BY DEF LockInv, Exclusive, Holds, Live
<1>2. Solvent'
  BY DEF LockInv, Solvent, tables
<1>3. ASSUME NEW u \in Workers PROVE InOrder(u)' /\ Checked(u)'
  <2>1. InOrder(u) /\ Checked(u) /\ proc'[u] = proc[u]
    BY DEF LockInv
  <2>2. reserved' = reserved /\ coupon' = coupon /\ spent' = spent
    BY DEF tables
  <2> QED
    BY <2>1, <2>2 DEF InOrder, Checked, Customer, Redeemable
<1> QED
  BY <1>1, <1>2, <1>3

\* A row that ages or is pruned keeps the invariant.
LEMMA RowKeepsIInv ==
  ASSUME IInv, CheckoutAssumption, NEW k \in Keys, Age(k) \/ Prune(k)
  PROVE  IInv'
<1>1. TypeOK /\ LockInv /\ KeyInv
  BY DEF IInv, LockInv, KeyInv
<1>2. UNCHANGED <<tables, credit, cart, proc, requests, faults>>
  BY DEF Age, Prune
<1>3. KeyInv'
  BY <1>1, RowIsLinked
<1>4. Exclusive' /\ Solvent' /\ \A u \in Workers : (InOrder(u) /\ Checked(u))'
  BY <1>1, <1>2, NobodyMoves DEF LockInv, Solvent
<1>5. keys' \in [Keys -> [id : Nat, row : Records]] /\ bypassed' \subseteq Keys
  <2>1. keys \in [Keys -> [id : Nat, row : Records]] /\ bypassed \subseteq Keys /\ keys[k].row \in Records
    BY <1>1 DEF TypeOK
  <2>2. CASE Age(k)
    <3>1. keys' = [keys EXCEPT ![k].row = [keys[k].row EXCEPT !.stale = TRUE]] /\ bypassed' = bypassed
      BY <2>2 DEF Age
    <3>2. [keys[k].row EXCEPT !.stale = TRUE] \in Records
      BY <2>1, <2>2 DEF Age, Records, NoRecord
    <3> QED
      BY <2>1, <3>1, <3>2
  <2>3. CASE Prune(k)
    <3>1. NoRecord \in Records
      BY DEF Records
    <3> QED
      BY <2>1, <2>3, <3>1 DEF Prune
  <2> QED
    BY <2>2, <2>3
<1>6. TypeOK'
  BY <1>1, <1>2, <1>5 DEF TypeOK, tables
<1> QED
  BY <1>3, <1>4, <1>6 DEF IInv, KeyInv

\* Carts and credits change without disturbing what was checked.
LEMMA ShopKeepsIInv ==
  ASSUME IInv, CheckoutAssumption, NEW c \in Customers, FillCart(c) \/ CreditExpires(c)
  PROVE  IInv'
<1>1. TypeOK /\ LockInv /\ KeyInv
  BY DEF IInv, LockInv, KeyInv
<1>2. UNCHANGED <<tables, keys, proc, requests, faults, bypassed>>
  BY DEF FillCart, CreditExpires
<1>3. KeyInv'
  BY <1>1, <1>2, NothingHappens DEF tables
<1>4. /\ credit' \in [Customers -> Nat] /\ \A d \in Customers : credit'[d] <= Credit[d]
      /\ cart' \in [Customers -> [id : Nat, filled : BOOLEAN]]
  <2>1. /\ credit \in [Customers -> Nat] /\ \A d \in Customers : credit[d] <= Credit[d]
        /\ cart \in [Customers -> [id : Nat, filled : BOOLEAN]]
        /\ Credit \in [Customers -> Nat]
    BY <1>1 DEF TypeOK, LockInv, Solvent, CheckoutAssumption
  <2>2. CASE FillCart(c)
    BY <2>1, <2>2 DEF FillCart
  <2>3. CASE CreditExpires(c)
    BY <2>1, <2>3 DEF CreditExpires
  <2> QED
    BY <2>2, <2>3
<1>5. Exclusive' /\ Solvent' /\ \A u \in Workers : (InOrder(u) /\ Checked(u))'
  BY <1>1, <1>2, <1>4, NobodyMoves
<1>6. TypeOK'
  BY <1>1, <1>2, <1>4 DEF TypeOK, tables
<1> QED
  BY <1>3, <1>5, <1>6 DEF IInv, KeyInv

\* Nothing has happened yet.
LEMMA InitIInv == ASSUME CheckoutAssumption, Init PROVE IInv
<1>1. /\ orders = <<>> /\ reserved = [v \in Variants |-> 0]
      /\ coupon = [used |-> 0, by |-> [c \in Customers |-> 0]]
      /\ spent = [c \in Customers |-> 0]
  BY DEF Init, Placement!Init
<1>2. \A w \in Workers : proc[w] = Idle
  BY DEF Init
<1>3. TypeOK
  <2>1. orders \in Seq(Placement!Order)
    BY <1>1
  <2>2. coupon \in [used : 0..UsageLimit, by : [Customers -> 0..UsageLimitPerCustomer]]
    BY <1>1 DEF CheckoutAssumption
  <2>3. keys \in [Keys -> [id : Nat, row : Records]]
    BY DEF Init, Records
  <2>4. requests \in 0..MaxRequests /\ faults \in 0..MaxFaults
    BY DEF Init, CheckoutAssumption
  <2>5. reserved \in [Variants -> Nat] /\ \A v \in Variants : reserved[v] <= Physical[v]
    BY <1>1 DEF CheckoutAssumption
  <2>6. spent \in [Customers -> Nat] /\ credit \in [Customers -> Nat]
    BY <1>1 DEF CheckoutAssumption, Init
  <2> QED
    BY <2>1, <2>2, <2>3, <2>4, <2>5, <2>6 DEF TypeOK, Init
<1>4. Solvent
  BY <1>1 DEF Solvent, Init, CheckoutAssumption
<1>5. Exclusive
  BY <1>2, IdleIsIdle DEF Exclusive, Holds, Live
<1>6. \A w \in Workers : InOrder(w) /\ Checked(w) /\ Linked(w)
  BY <1>2, IdleIsIdle DEF InOrder, Checked, Linked, Live
<1>7. \A k \in Keys : Guarded(k)
  <2>1. \A k \in Keys : OrdersWith(k) = {}
    BY <1>1 DEF OrdersWith
  <2>2. \A w \in Workers : ~Live(w)
    BY <1>2, IdleIsIdle DEF Live
  <2>3. \A k \in Keys : \E i \in Nat : OrdersWith(k) \subseteq {i}
    <3>1. 0 \in Nat
      OBVIOUS
    <3> QED
      BY <2>1, <3>1, Zenon
  <2> QED
    BY <2>1, <2>2, <2>3 DEF Guarded
<1>8. ReplayIsTruthful
  BY DEF ReplayIsTruthful, Init, NoRecord
<1> QED
  BY <1>3, <1>4, <1>5, <1>6, <1>7, <1>8 DEF IInv

\* Every step of a request keeps the invariant.
LEMMA WorkerKeepsIInv ==
  ASSUME IInv, CheckoutAssumption, NEW w \in Workers,
         \/ StartWithoutKey(w) \/ ClaimKey(w) \/ TakeOver(w)
         \/ ReadCart(w) \/ LockWallet(w) \/ Reserve(w) \/ Redeem(w) \/ Debit(w)
         \/ Commit(w) \/ Fail(w) \/ Complete(w) \/ ReleaseKey(w) \/ LoseCompletion(w) \/ Crash(w)
  PROVE  IInv'
<1>1. TypeOK /\ Sound(w) /\ requests \in 0..MaxRequests /\ faults \in 0..MaxFaults
  BY DEF IInv, Sound, TypeOK
<1>2. CASE StartWithoutKey(w)
  <2>1. PICK body \in Payloads : Begins(w, body, NoKey, 0)
    BY <1>2 DEF StartWithoutKey
  <2>2. PICK q : Moves(w, q) /\ q.at = "ready" /\ q.key = NoKey
    BY <1>1, <2>1, BeginsMoves
  <2>3. requests' \in 0..MaxRequests
    BY <1>1, <2>1, BoundTypes DEF Begins, Sound
  <2>4. UNCHANGED <<tables, credit, cart, keys, faults, bypassed>>
    BY <1>2 DEF StartWithoutKey
  <2> QED
    BY <1>1, <2>2, <2>3, <2>4, QuietStepKeepsIInv
<1>3. CASE ClaimKey(w) \/ TakeOver(w)
  BY <1>3, GuardKeepsIInv
<1>4. CASE ReadCart(w) \/ LockWallet(w) \/ Reserve(w) \/ Redeem(w) \/ Debit(w)
  <2>1. /\ Live(w) /\ proc[w].at # "placed"
        /\ UNCHANGED <<tables, credit, cart, keys, requests, faults, bypassed>>
    BY <1>4 DEF ReadCart, LockWallet, Reserve, Redeem, Debit, At, Live
  <2>2. \E q : /\ Moves(w, q) /\ q.at \in {"wallet", "reserve", "redeem", "debit", "commit"}
               /\ q.body = proc[w].body /\ q.key = proc[w].key /\ q.record = proc[w].record
    <3>1. CASE ReadCart(w)
      BY <1>1, <3>1, ReadCartMoves
    <3>2. CASE LockWallet(w)
      BY <1>1, <3>2, LockWalletMoves
    <3>3. CASE Reserve(w)
      BY <1>1, <3>3, ReserveMoves
    <3>4. CASE Redeem(w)
      BY <1>1, <3>4, RedeemMoves
    <3>5. CASE Debit(w)
      BY <1>1, <3>5, DebitMoves
    <3> QED
      BY <1>4, <3>1, <3>2, <3>3, <3>4, <3>5
  <2>3. PICK q : /\ Moves(w, q) /\ q.at \in {"wallet", "reserve", "redeem", "debit", "commit"}
                 /\ q.body = proc[w].body /\ q.key = proc[w].key /\ q.record = proc[w].record
    BY <2>2
  <2>4. q.at # "placed" /\ q.at # "failed"
    BY <2>3
  <2> QED
    BY <1>1, <2>1, <2>3, <2>4, QuietStepKeepsIInv
<1>5. CASE Commit(w)
  BY <1>5, CommitKeepsIInv
<1>6. CASE Fail(w)
  <2>1. PICK q : /\ Moves(w, q) /\ q.at \in {"idle", "failed"}
                 /\ q.at = "failed" => /\ q.key # NoKey
                                       /\ q.body = proc[w].body /\ q.key = proc[w].key
                                       /\ q.record = proc[w].record
    BY <1>1, <1>6, FailMoves
  <2>2. /\ Live(w) /\ proc[w].at # "placed"
        /\ UNCHANGED <<tables, credit, cart, keys, requests, faults, bypassed>>
    BY <1>6 DEF Fail, At, Live
  <2> QED
    BY <1>1, <2>1, <2>2, QuietStepKeepsIInv
<1>7. CASE Complete(w) \/ ReleaseKey(w) \/ LoseCompletion(w)
  BY <1>7, EndKeepsIInv
<1>8. CASE Crash(w)
  <2>1. Moves(w, Idle)
    BY <1>1, <1>8, LeaveMoves DEF Crash
  <2>2. faults' \in 0..MaxFaults
    BY <1>1, <1>8, BoundTypes DEF Crash, Sound
  <2>3. UNCHANGED <<tables, credit, cart, keys, requests, bypassed>>
    BY <1>8 DEF Crash
  <2> QED
    BY <1>1, <2>1, <2>2, <2>3, QuietStepKeepsIInv, IdleIsIdle
<1> QED
  BY <1>2, <1>3, <1>4, <1>5, <1>6, <1>7, <1>8

\* Every step keeps the invariant.
LEMMA StepIInv == ASSUME CheckoutAssumption, IInv, [Next]_vars PROVE IInv'
<1>1. CASE UNCHANGED vars
  <2>1. TypeOK /\ LockInv /\ KeyInv
    BY DEF IInv, LockInv, KeyInv
  <2>2. UNCHANGED <<tables, credit, cart, keys, proc, requests, faults, bypassed>> /\ orders' = orders
    BY <1>1 DEF vars, tables
  <2>3. KeyInv'
    BY <2>1, <2>2, NothingHappens
  <2>4. Exclusive' /\ Solvent' /\ \A u \in Workers : (InOrder(u) /\ Checked(u))'
    BY <2>1, <2>2, NobodyMoves DEF LockInv, Solvent
  <2>5. TypeOK'
    BY <2>1, <2>2 DEF TypeOK, tables
  <2> QED
    BY <2>3, <2>4, <2>5 DEF IInv, KeyInv
<1>2. CASE Next
  BY <1>2, WorkerKeepsIInv, RowKeepsIInv, ShopKeepsIInv DEF Next
<1> QED
  BY <1>1, <1>2

\* The invariant holds in every reachable state.
LEMMA IInvAlways == Spec => []IInv
<1>1. Init => IInv
  BY CheckoutAssumption, InitIInv
<1>2. IInv /\ [Next]_vars => IInv'
  BY CheckoutAssumption, StepIInv
<1> QED
  BY <1>1, <1>2, PTL DEF Spec

-----------------------------------------------------------------------------
\* What follows from it.

\* The tables and the requests keep their types and their limits: no variant is
\* reserved beyond its stock, the coupon is redeemed within its two limits.
THEOREM TypesHold == Spec => []TypeOK
<1>1. IInv => TypeOK
  BY DEF IInv
<1> QED
  BY <1>1, IInvAlways, PTL

\* A key whose guard was never taken over or lost places one order, however
\* many requests carry it.
THEOREM OneOrderPerKey == Spec => []KeyedOnce
<1>1. ASSUME IInv, NEW k \in Keys \ bypassed
      PROVE  Cardinality(OrdersWith(k)) <= 1
  <2>1. PICK i \in Nat : OrdersWith(k) \in SUBSET {i}
    BY <1>1 DEF IInv, Guarded
  <2>2. IsFiniteSet({i}) /\ Cardinality({i}) = 1
    BY FS_Singleton
  <2>3. Cardinality(OrdersWith(k)) <= Cardinality({i})
    BY <2>1, <2>2, FS_Subset
  <2> QED
    BY <2>2, <2>3
<1>2. IInv => KeyedOnce
  BY <1>1 DEF KeyedOnce
<1> QED
  BY <1>2, IInvAlways, PTL

\* A stored response is the one of an order placed under its key, for the customer
\* and with the coupon of the stored body, whatever happened to the key.
THEOREM StoredResponsesAreTrue == Spec => []ReplayIsTruthful
<1>1. IInv => ReplayIsTruthful
  BY DEF IInv
<1> QED
  BY <1>1, IInvAlways, PTL

\* A commit is the single step of the abstract specification.
LEMMA CommitPlaces ==
  ASSUME IInv, CheckoutAssumption, NEW w \in Workers, Commit(w)
  PROVE  Placement!Next
<1> DEFINE p == proc[w]
           c == Customer(w)
<1>1. Sound(w) /\ p.at = "commit" /\ Live(w)
  BY DEF IInv, Sound, Commit, At, Live
<1>2. /\ p \in Request /\ c \in Customers /\ p.body.coupon \in BOOLEAN /\ p.items \in SUBSET Variants
      /\ p.paid \in Nat /\ p.key \in Keys \union {NoKey} /\ Cardinality(p.items) \in Nat
  BY <1>1, TransactionTypes DEF Sound, Request
<1>3. /\ p.items # {} /\ p.paid <= Cardinality(p.items)
      /\ \A v \in p.items : reserved[v] < Physical[v]
      /\ p.body.coupon => Redeemable(c)
      /\ spent[c] + p.paid <= Credit[c]
  BY <1>1 DEF Sound, InOrder, Checked
<1>4. p.paid \in 0..Cardinality(p.items)
  BY <1>2, <1>3
<1>5. Placement!Place([customer |-> c, key |-> p.key, items |-> p.items, coupon |-> p.body.coupon,
                       paid |-> p.paid])
  <2>1. reserved' = [v \in Variants |-> IF v \in p.items THEN reserved[v] + 1 ELSE reserved[v]]
    <3>1. reserved \in [Variants -> Nat]
      BY <1>1 DEF Sound, TypeOK
    <3>2. reserved' = [v \in Variants |-> reserved[v] + IF v \in p.items THEN 1 ELSE 0]
      BY DEF Commit
    <3>3. \A v \in Variants : reserved[v] + (IF v \in p.items THEN 1 ELSE 0)
                                = IF v \in p.items THEN reserved[v] + 1 ELSE reserved[v]
      BY <3>1
    <3> QED
      BY <3>2, <3>3
  <2>2. /\ orders' = Append(orders, [customer |-> c, key |-> p.key, items |-> p.items,
                                     coupon |-> p.body.coupon, paid |-> p.paid])
        /\ coupon' = IF p.body.coupon
                       THEN [used |-> coupon.used + 1, by |-> [coupon.by EXCEPT ![c] = @ + 1]]
                       ELSE coupon
        /\ spent' = [spent EXCEPT ![c] = @ + p.paid]
    BY DEF Commit
  <2> QED
    BY <1>2, <1>3, <2>1, <2>2 DEF Placement!Place, Placement!Redeemable, Redeemable
<1> HIDE DEF p, c
<1>6. \E d \in Customers, k \in Keys \union {NoKey}, items \in SUBSET Variants, b \in BOOLEAN :
        \E paid \in 0..Cardinality(items) :
          Placement!Place([customer |-> d, key |-> k, items |-> items, coupon |-> b, paid |-> paid])
  <2> USE <1>2, <1>4
  <2> WITNESS c \in Customers, p.key \in Keys \union {NoKey}, p.items \in SUBSET Variants,
              p.body.coupon \in BOOLEAN
  <2> WITNESS p.paid \in 0..Cardinality(p.items)
  <2> QED
    BY <1>5
<1> QED
  <2>1. ASSUME NEW T PROVE Placement!Cardinality(T) = Cardinality(T)
    BY DEF Placement!Cardinality, Cardinality
  <2> QED
    BY <1>6, <2>1 DEF Placement!Next

\* Checkout implements the placement of orders in a single step.
THEOREM CheckoutImplementsPlacement == Spec => CheckoutIsAtomic
<1>1. Init => Placement!Init
  BY DEF Init
<1>2. ASSUME IInv, [Next]_vars
      PROVE  [Placement!Next]_Placement!placementVars
  <2>1. CASE \E w \in Workers : Commit(w)
    BY <1>2, <2>1, CheckoutAssumption, CommitPlaces
  <2>2. CASE ~\E w \in Workers : Commit(w)
    <3>1. UNCHANGED tables
      BY <1>2, <2>2 DEF Next, vars, StartWithoutKey, ClaimKey, TakeOver, ReadCart, LockWallet, Reserve,
            Redeem, Debit, Fail, Complete, ReleaseKey, LoseCompletion, Crash, Age, Prune, FillCart,
            CreditExpires
    <3> QED
      BY <3>1 DEF tables, Placement!placementVars
  <2> QED
    BY <2>1, <2>2
<1>3. IInv /\ [Next]_vars => [Placement!Next]_Placement!placementVars
  BY <1>2
<1> QED
  BY <1>1, <1>3, IInvAlways, PTL DEF Spec, CheckoutIsAtomic, Placement!Spec

\* A finite set of numbers has a greatest one.
LEMMA GreatestNumber ==
  ASSUME NEW T \in SUBSET Nat, IsFiniteSet(T), T # {}
  PROVE  \E x \in T : \A y \in T : y <= x
<1> DEFINE Above(x) == {y \in T : y > x}
           F == {Above(x) : x \in T}
<1>1. F \subseteq FiniteSubsetsOf(T) /\ F # {}
  <2>1. \A x \in T : Above(x) \in SUBSET T
    OBVIOUS
  <2>2. FiniteSubsetsOf(T) = SUBSET T
    BY FS_FiniteSubsetsOfFinite
  <2>3. F \subseteq FiniteSubsetsOf(T)
    BY <2>1, <2>2
  <2>4. PICK x : x \in T
    OBVIOUS
  <2>5. Above(x) \in F
    BY <2>4
  <2> QED
    BY <2>3, <2>5
<1>2. PICK U \in F : \A V \in F : <<V, U>> \notin StrictSubsetOrdering(T)
  BY <1>1, FS_StrictSubsetOrderingWellFounded, WFMin
<1>3. PICK x \in T : U = Above(x)
  BY <1>2
<1>4. ASSUME NEW y \in T, y > x
      PROVE  FALSE
  <2>1. Above(y) \in F
    BY <1>4
  <2>2. Above(y) \subseteq U /\ y \in U /\ y \notin Above(y) /\ U \subseteq T
    <3>1. \A z \in T : z \in Nat /\ x \in Nat /\ y \in Nat /\ (z > y => z > x)
      <4>1. x \in Nat /\ y \in Nat
        BY <1>3, <1>4
      <4> QED
        BY <1>4, <4>1
    <3>2. ~(y > y)
      BY <3>1
    <3> QED
      BY <1>3, <1>4, <3>1, <3>2
  <2>3. <<Above(y), U>> \in StrictSubsetOrdering(T)
    BY <2>2 DEF StrictSubsetOrdering
  <2> QED
    BY <1>2, <2>1, <2>3
<1> QED
  BY <1>4

\* Rows are locked in one order, so that no checkouts wait for each other.
LEMMA OrderPreventsDeadlock ==
  ASSUME IInv, CheckoutAssumption
  PROVE  NoDeadlock
<1> SUFFICES ASSUME NEW S \in (SUBSET Workers) \ {{}},
                    \A w \in S : \E r \in Needs(w) : \E u \in S \ {w} : Holds(u, r)
             PROVE  FALSE
  BY DEF NoDeadlock, Holds, Live, At
<1>1. \A w \in S : w \in Workers /\ InOrder(w) /\ proc[w].at \in {"wallet", "reserve", "redeem"}
  BY DEF IInv, Needs, At
<1>2. \A w \in S : proc[w].at # "redeem"
  <2>1. ASSUME NEW w \in S, proc[w].at = "redeem"
        PROVE  \E u \in S : Holds(u, <<"coupon", 0>>)
    BY <2>1 DEF Needs, At
  <2>2. \A u \in S : ~Holds(u, <<"coupon", 0>>)
    BY <1>1 DEF InOrder, Holds
  <2> QED
    BY <2>1, <2>2
<1> DEFINE Waits(w) == w \in S /\ proc[w].at = "reserve"
           Wanted == {v \in Variants : \E w \in S : Waits(w) /\ v \in NextLine(proc[w].todo)}
<1>3. ASSUME NEW w \in S, proc[w].at = "reserve"
      PROVE  \E v \in NextLine(proc[w].todo), u \in S :
               v \in Variants /\ proc[u].at = "reserve" /\ <<"stock", v>> \in proc[u].held
  <2>1. PICK r \in Needs(w), u \in S \ {w} : Holds(u, r)
    OBVIOUS
  <2>2. PICK v \in NextLine(proc[w].todo) : r = <<"stock", v>>
    BY <1>3, <2>1 DEF Needs, At
  <2>3. v \in Variants
    <3>1. proc[w] \in Request
      BY <1>1, <1>3, RequestOf DEF IInv
    <3> QED
      BY <2>2, <3>1 DEF NextLine, Request
  <2>4. proc[u].at = "reserve" /\ r \in proc[u].held
    BY <1>1, <1>2, <2>1 DEF InOrder, Holds
  <2> QED
    BY <2>2, <2>3, <2>4
<1>4. \A w \in S : proc[w].at # "reserve"
  <2>1. SUFFICES ASSUME NEW w0 \in S, proc[w0].at = "reserve" PROVE FALSE
    OBVIOUS
  <2>2. Wanted \in SUBSET Nat /\ IsFiniteSet(Wanted) /\ Wanted # {}
    <3>1. Wanted \in SUBSET Variants
      OBVIOUS
    <3>2. IsFiniteSet(Wanted)
      BY <3>1, FS_Subset DEF CheckoutAssumption
    <3>3. Wanted # {}
      BY <1>3, <2>1
    <3> QED
      BY <3>1, <3>2, <3>3 DEF CheckoutAssumption
  <2>3. PICK m \in Wanted : \A v \in Wanted : v <= m
    BY <2>2, GreatestNumber
  <2>4. PICK w \in S : proc[w].at = "reserve" /\ m \in NextLine(proc[w].todo)
    OBVIOUS
  <2>5. PICK v \in NextLine(proc[w].todo), u \in S :
          v \in Variants /\ proc[u].at = "reserve" /\ <<"stock", v>> \in proc[u].held
    BY <1>3, <2>4
  <2>6. v = m /\ m \in Nat
    <3>1. v <= m /\ m <= v /\ v \in Variants /\ m \in Variants
      BY <2>4, <2>5 DEF NextLine
    <3>2. v \in Nat /\ m \in Nat
      BY <3>1 DEF CheckoutAssumption
    <3> QED
      BY <3>1, <3>2
  <2>7. PICK x \in NextLine(proc[u].todo) : x \in Variants
    BY <1>3, <2>5
  <2>8. m < x
    BY <1>1, <2>5, <2>6, <2>7 DEF InOrder, NextLine
  <2>9. x \in Wanted /\ x \in Nat
    BY <2>5, <2>7 DEF CheckoutAssumption
  <2> QED
    BY <2>3, <2>6, <2>8, <2>9
<1>5. \A w \in S : proc[w].at = "wallet" /\ proc[w].held = {}
  BY <1>1, <1>2, <1>4 DEF InOrder
<1> QED
  BY <1>5 DEF Holds

\* There is never a set of checkouts each of which waits for a row lock that
\* another one of the set holds, however many there are and whatever they order.
THEOREM NoCheckoutsDeadlock == Spec => []NoDeadlock
<1>1. IInv => NoDeadlock
  BY CheckoutAssumption, OrderPreventsDeadlock
<1> QED
  BY <1>1, IInvAlways, PTL
=============================================================================
