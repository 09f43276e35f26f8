------------------------------- MODULE Checkout --------------------------------
(***************************************************************************)
(* checkout.service.checkout under the idempotency guard.  A request claims*)
(* its key, then one transaction reads the cart, locks the wallet, the     *)
(* stock rows and the coupon one after the other, writes the order and     *)
(* converts the cart; the key is completed after the commit.  Requests run *)
(* interleaved, wait for each other's row locks, fail or die at any step,  *)
(* and are repeated by the client with the same key or without one.        *)
(***************************************************************************)
EXTENDS Integers, Sequences, FiniteSets

CONSTANTS Workers,        \* checkout requests in flight at the same time
          Customers,
          Keys, NoKey,    \* Idempotency-Key headers; NoKey: none sent
          Payloads,       \* request bodies; the address tells whose they are
          Variants,       \* numbers: the order of their ids
          Physical,       \* [Variants -> Nat]: units on the shelf
          Credit,         \* [Customers -> Nat]: wallet credit granted
          UsageLimit, UsageLimitPerCustomer,   \* of the one coupon
          MaxRequests,    \* bound: requests of one behaviour
          MaxFaults       \* bound: requests that die or lose the database

ASSUME CheckoutAssumption ==
  /\ Variants \subseteq Nat /\ IsFiniteSet(Variants)
  /\ Payloads \subseteq [customer : Customers, coupon : BOOLEAN, wallet : BOOLEAN]
  /\ Physical \in [Variants -> Nat] /\ Credit \in [Customers -> Nat]
  /\ UsageLimit \in Nat /\ UsageLimitPerCustomer \in Nat
  /\ NoKey \notin Keys
  /\ MaxRequests \in Nat /\ MaxFaults \in Nat

VARIABLES orders,    \* the committed orders, oldest first
          reserved,  \* per variant: units reserved (one unit per line)
          coupon,    \* its used count, and the redemption rows per customer
          spent,     \* per customer: sum of the wallet debits
          credit,    \* per customer: sum of the unexpired wallet credits (all have a wallet)
          cart,      \* per customer: number of the active cart, and whether it has lines
          keys,      \* per key: its row in idempotency_keys
          proc,      \* per request: the step it is at
          requests,  \* requests so far
          faults,    \* faults so far
          bypassed   \* history: keys whose guard was taken over or lost

tables == <<orders, reserved, coupon, spent>>
vars == <<tables, credit, cart, keys, proc, requests, faults, bypassed>>

Placement == INSTANCE OrderPlacement WITH orders <- orders, reserved <- reserved, coupon <- coupon, spent <- spent

\* The rows that a checkout locks.
Rows == ({"stock"} \X Variants) \union ({"wallet"} \X Customers) \union {<<"coupon", 0>>}

Idle == [at |-> "idle"]
Steps == {"ready", "wallet", "reserve", "redeem", "debit", "commit",
          "placed", "failed"}
Request == [at : Steps, body : Payloads, key : Keys \union {NoKey}, record : Nat, cart : Nat,
            order : Nat, items : SUBSET Variants, todo : SUBSET Variants, paid : Nat, held : SUBSET Rows]

NoRecord == [status |-> "NONE"]
Records == {NoRecord} \union [status : {"IN_PROGRESS", "COMPLETED"}, body : Payloads, stale : BOOLEAN,
                              response : Nat]

TypeOK ==
  /\ orders \in Seq(Placement!Order)
  /\ reserved \in [Variants -> Nat]
  /\ \A v \in Variants : reserved[v] <= Physical[v]
  /\ coupon \in [used : 0..UsageLimit, by : [Customers -> 0..UsageLimitPerCustomer]]
  /\ spent \in [Customers -> Nat] /\ credit \in [Customers -> Nat]
  /\ cart \in [Customers -> [id : Nat, filled : BOOLEAN]]
  /\ keys \in [Keys -> [id : Nat, row : Records]]
  /\ proc \in [Workers -> {Idle} \union Request]
  /\ requests \in 0..MaxRequests /\ faults \in 0..MaxFaults
  /\ bypassed \subseteq Keys

Init ==
  /\ Placement!Init
  /\ credit = Credit
  /\ cart = [c \in Customers |-> [id |-> 1, filled |-> FALSE]]
  /\ keys = [k \in Keys |-> [id |-> 0, row |-> NoRecord]]
  /\ proc = [w \in Workers |-> Idle]
  /\ requests = 0 /\ faults = 0
  /\ bypassed = {}

At(w, step) == proc[w].at = step

\* (Slip used to test the properties: plain reads, FOR UPDATE is gone.)
Wins_Always(w, r) == TRUE

\* SELECT ... FOR UPDATE: no other transaction holds the row.
Wins(w, r) == \A u \in Workers \ {w} : ~At(u, "idle") => r \notin proc[u].held

-----------------------------------------------------------------------------
\* withIdempotency, before the work

\* A request arrives, with a body and perhaps a key.
Begins(w, body, k, record) ==
  /\ At(w, "idle") /\ requests < MaxRequests
  /\ requests' = requests + 1
  /\ proc' = [proc EXCEPT ![w] = [at |-> "ready", body |-> body, key |-> k, record |-> record,
       cart |-> 0, order |-> 0, items |-> {}, todo |-> {}, paid |-> 0, held |-> {}]]

\* No key was sent: no guard.
StartWithoutKey(w) ==
  /\ \E body \in Payloads : Begins(w, body, NoKey, 0)
  /\ UNCHANGED <<tables, credit, cart, keys, faults, bypassed>>

\* No row for the key: insert one, IN_PROGRESS.  (The insert of a key that
\* appeared since it was looked up violates its unique constraint: refused.)
ClaimKey(w) == \E body \in Payloads, k \in Keys :
  /\ keys[k].row.status = "NONE"
  /\ keys' = [keys EXCEPT ![k] = [id |-> @.id + 1, row |-> [status |-> "IN_PROGRESS", body |-> body,
                                                         stale |-> FALSE, response |-> 0]]]
  /\ Begins(w, body, k, keys[k].id + 1)
  /\ UNCHANGED <<tables, credit, cart, faults, bypassed>>

\* (Slip: in progress or stale, the key is taken over.)
TakeOver_NotOnlyStale(w) == \E k \in Keys :
  /\ keys[k].row.status = "IN_PROGRESS"
  /\ Begins(w, keys[k].row.body, k, keys[k].id)
  /\ bypassed' = IF keys[k].row.stale THEN bypassed \union {k} ELSE bypassed
  /\ UNCHANGED <<tables, credit, cart, keys, faults>>

\* In progress for more than two minutes: taken for dead and run again.  The
\* update that goes with it assigns what the row says already: nothing is written.
\* (In every other case the stored response is replayed or the request ends with
\* 409, another body or still in progress, and nothing changes.)
TakeOver(w) == \E k \in Keys :
  /\ keys[k].row.status = "IN_PROGRESS" /\ keys[k].row.stale
  /\ Begins(w, keys[k].row.body, k, keys[k].id)
  /\ bypassed' = bypassed \union {k}
  /\ UNCHANGED <<tables, credit, cart, keys, faults>>

-----------------------------------------------------------------------------
\* The transaction

Customer(w) == proc[w].body.customer
Balance(c) == IF credit[c] > spent[c] THEN credit[c] - spent[c] ELSE 0
Redeemable(c) == coupon.used < UsageLimit /\ coupon.by[c] < UsageLimitPerCustomer
AfterCoupon(p) == IF p.paid > 0 THEN "debit" ELSE "commit"
Available(v) == Physical[v] - reserved[v]

\* The active cart and its lines are read, without a lock; evaluate accepts the
\* coupon, without a lock.  Which lines a cart has is chosen when it is read:
\* cart.service may change them at any time before.
ReadCart(w) ==
  LET c == Customer(w)
  IN  /\ At(w, "ready")
      /\ cart[c].filled
      /\ proc[w].body.coupon => Redeemable(c)
      /\ \E items \in (SUBSET Variants) \ {{}} :
           proc' = [proc EXCEPT ![w].at = IF proc[w].body.wallet THEN "wallet" ELSE "reserve",
                                ![w].cart = cart[c].id, ![w].items = items, ![w].todo = items]
      /\ UNCHANGED <<tables, credit, cart, keys, requests, faults, bypassed>>

\* getBalance locks the wallet for the rest of the transaction; the order is
\* paid from it as far as it goes.  The coupon takes one unit off the price.
LockWallet(w) ==
  LET c == Customer(w)
      payable == Cardinality(proc[w].items) - (IF proc[w].body.coupon THEN 1 ELSE 0)
  IN  /\ At(w, "wallet")
      /\ Wins(w, <<"wallet", c>>)
      /\ proc' = [proc EXCEPT ![w].at = "reserve", ![w].held = @ \union {<<"wallet", c>>},
                              ![w].paid = IF Balance(c) < payable THEN Balance(c) ELSE payable]
      /\ UNCHANGED <<tables, credit, cart, keys, requests, faults, bypassed>>

\* (Slip: the lines are reserved in the order of the cart.)
NextLine_Unsorted(todo) == todo

\* The lines are reserved in the order of their variants.
NextLine(todo) == {v \in todo : \A u \in todo : v <= u}

\* inventory.reserve of one line, in this transaction; then the order, its lines
\* and its history row are inserted.
Reserve(w) ==
  LET p == proc[w]
      after == IF p.body.coupon THEN "redeem" ELSE AfterCoupon(p)
  IN  /\ At(w, "reserve")
      /\ \E v \in NextLine(p.todo) :
           /\ Wins(w, <<"stock", v>>)
           /\ Available(v) >= 1
           /\ proc' = [proc EXCEPT ![w].at = IF p.todo = {v} THEN after ELSE @,
                                   ![w].todo = @ \ {v}, ![w].held = @ \union {<<"stock", v>>}]
      /\ UNCHANGED <<tables, credit, cart, keys, requests, faults, bypassed>>

\* redeemCoupon checks both limits again, under the coupon's lock.  (Its answer for a
\* coupon that is gone, promotion.service.js:114, is left out: no code deletes coupons.)
Redeem(w) ==
  /\ At(w, "redeem")
  /\ Wins(w, <<"coupon", 0>>)
  /\ Redeemable(Customer(w))
  /\ proc' = [proc EXCEPT ![w].at = AfterCoupon(proc[w]), ![w].held = @ \union {<<"coupon", 0>>}]
  /\ UNCHANGED <<tables, credit, cart, keys, requests, faults, bypassed>>

\* debit checks the balance again (a credit may have expired).
Debit(w) ==
  /\ At(w, "debit")
  /\ Wins(w, <<"wallet", Customer(w)>>)
  /\ proc[w].paid <= Balance(Customer(w))
  /\ proc' = [proc EXCEPT ![w].at = "commit"]
  /\ UNCHANGED <<tables, credit, cart, keys, requests, faults, bypassed>>

\* The cart is converted and everything becomes visible.
Commit(w) ==
  LET p == proc[w]
      c == Customer(w)
  IN  /\ At(w, "commit")
      /\ orders' = Append(orders, [customer |-> c, key |-> p.key, items |-> p.items,
                                   coupon |-> p.body.coupon, paid |-> p.paid])
      /\ reserved' = [v \in Variants |-> reserved[v] + IF v \in p.items THEN 1 ELSE 0]
      /\ coupon' = IF p.body.coupon
                     THEN [used |-> coupon.used + 1, by |-> [coupon.by EXCEPT ![c] = @ + 1]]
                     ELSE coupon
      /\ spent' = [spent EXCEPT ![c] = @ + p.paid]
      /\ cart' = IF cart[c].id = p.cart
                   THEN [cart EXCEPT ![c] = [id |-> p.cart + 1, filled |-> FALSE]] ELSE cart
      /\ proc' = [proc EXCEPT ![w] = IF p.key = NoKey THEN Idle
           ELSE [p EXCEPT !.at = "placed", !.order = Len(orders) + 1, !.cart = 0, !.items = {},
                          !.paid = 0, !.held = {}]]
      /\ UNCHANGED <<credit, keys, requests, faults, bypassed>>

\* An error rolls the transaction back: the cart is empty, a line or the
\* address is gone; or one of the checks under a lock fails.
Fail(w) ==
  /\ \/ At(w, "ready")
     \/ At(w, "reserve") /\ \E v \in NextLine(proc[w].todo) :
                               Wins(w, <<"stock", v>>) /\ Available(v) < 1
     \/ At(w, "redeem") /\ Wins(w, <<"coupon", 0>>) /\ ~Redeemable(Customer(w))
     \/ At(w, "debit") /\ proc[w].paid > Balance(Customer(w))
  /\ proc' = [proc EXCEPT ![w] = IF @.key = NoKey THEN Idle
       ELSE [@ EXCEPT !.at = "failed", !.cart = 0, !.items = {}, !.todo = {}, !.paid = 0, !.held = {}]]
  /\ UNCHANGED <<tables, credit, cart, keys, requests, faults, bypassed>>

-----------------------------------------------------------------------------
\* withIdempotency, after the work.  The instance it holds is the row of the
\* number p.record; a row inserted later under the same key is another one.

\* (Slip: the row is found by its key.)
Mine_ByKey(w) == keys[proc[w].key].row.status # "NONE"

Mine(w) == keys[proc[w].key].id = proc[w].record /\ keys[proc[w].key].row.status # "NONE"

WithRow(w, row) == IF Mine(w) THEN [keys EXCEPT ![proc[w].key].row = row] ELSE keys

\* The response is stored; the client gets it.
Complete(w) ==
  /\ At(w, "placed")
  /\ keys' = WithRow(w, [keys[proc[w].key].row EXCEPT !.status = "COMPLETED", !.stale = FALSE,
                                                      !.response = proc[w].order])
  /\ proc' = [proc EXCEPT ![w] = Idle]
  /\ UNCHANGED <<tables, credit, cart, requests, faults, bypassed>>

\* After an error the row is deleted, whatever it says by now.
ReleaseKey(w) ==
  /\ At(w, "failed")
  /\ keys' = WithRow(w, NoRecord)
  /\ proc' = [proc EXCEPT ![w] = Idle]
  /\ UNCHANGED <<tables, credit, cart, requests, faults, bypassed>>

\* The update to COMPLETED fails: the row is deleted and the client gets an
\* error, although the order is placed.
LoseCompletion(w) ==
  /\ At(w, "placed") /\ faults < MaxFaults
  /\ keys' = WithRow(w, NoRecord)
  /\ bypassed' = bypassed \union {proc[w].key}
  /\ proc' = [proc EXCEPT ![w] = Idle]
  /\ faults' = faults + 1
  /\ UNCHANGED <<tables, credit, cart, requests>>

\* The process or its connection dies: the transaction is rolled back if it had
\* not committed, the key's row stays as it is.
Crash(w) ==
  /\ ~At(w, "idle") /\ faults < MaxFaults
  /\ proc' = [proc EXCEPT ![w] = Idle]
  /\ faults' = faults + 1
  /\ UNCHANGED <<tables, credit, cart, keys, requests, bypassed>>

-----------------------------------------------------------------------------
\* Time and the rest of the shop

\* IN_PROGRESS_LOCK_TIMEOUT_MS have passed since the row was inserted.
Age(k) ==
  /\ keys[k].row.status = "IN_PROGRESS" /\ ~keys[k].row.stale
  /\ keys' = [keys EXCEPT ![k].row.stale = TRUE]
  /\ UNCHANGED <<tables, credit, cart, proc, requests, faults, bypassed>>

\* The daily job deletes rows older than 72 hours.
Prune(k) ==
  /\ keys[k].row # NoRecord
  /\ keys[k].row.status = "COMPLETED" \/ keys[k].row.stale
  /\ keys' = [keys EXCEPT ![k].row = NoRecord]
  /\ bypassed' = bypassed \union {k}
  /\ UNCHANGED <<tables, credit, cart, proc, requests, faults>>

\* cart.service puts lines into the active cart.  (Emptying it only makes
\* checkouts fail, as Fail does.)
FillCart(c) ==
  /\ ~cart[c].filled
  /\ cart' = [cart EXCEPT ![c].filled = TRUE]
  /\ UNCHANGED <<tables, credit, keys, proc, requests, faults, bypassed>>

\* The credits of a wallet pass their expiry date.
CreditExpires(c) ==
  /\ credit[c] # 0
  /\ credit' = [credit EXCEPT ![c] = 0]
  /\ UNCHANGED <<tables, cart, keys, proc, requests, faults, bypassed>>

Next ==
  \/ \E w \in Workers :
       \/ StartWithoutKey(w) \/ ClaimKey(w) \/ TakeOver(w)
       \/ ReadCart(w) \/ LockWallet(w) \/ Reserve(w) \/ Redeem(w) \/ Debit(w)
       \/ Commit(w) \/ Fail(w) \/ Complete(w) \/ ReleaseKey(w) \/ LoseCompletion(w) \/ Crash(w)
  \/ \E k \in Keys : Age(k) \/ Prune(k)
  \/ \E c \in Customers : FillCart(c) \/ CreditExpires(c)

Spec == Init /\ [][Next]_vars

-----------------------------------------------------------------------------

\* Whatever runs, fails or dies in between, checkout is atomic: the orders, the
\* reservations of all their lines, the coupon's counts and the wallet debits
\* change together or not at all, never beyond stock, the coupon's limits or the
\* credit granted (checkout.service.js:39-44).
CheckoutIsAtomic == Placement!Spec

\* The row that the next step of w has to lock.
Needs(w) ==
  CASE At(w, "wallet") -> {<<"wallet", Customer(w)>>}
    [] At(w, "reserve") -> {<<"stock", v>> : v \in NextLine(proc[w].todo)}
    [] At(w, "redeem") -> {<<"coupon", 0>>}
    [] OTHER -> {}

\* checkout.service.js:95-96, "to eliminate database deadlock risks across
\* concurrent multi-item checkouts": there is no set of checkouts each of which
\* waits for another one of the set.
NoDeadlock ==
  \A S \in (SUBSET Workers) \ {{}} :
    \E w \in S : \A r \in Needs(w) : \A u \in S \ {w} : ~At(u, "idle") => r \notin proc[u].held

OrdersWith(k) == {i \in DOMAIN orders : orders[i].key = k}

\* Requests repeated under one key, concurrently or one after the other, after
\* failures and after crashes before the two minutes are over, place at most
\* one order.
KeyedOnce == \A k \in Keys \ bypassed : Cardinality(OrdersWith(k)) <= 1

\* A response that is replayed is the one of an order that was placed under that
\* key, for the customer and with the coupon of the stored request body, even after the key was taken over, abandoned by
\* one request and completed by another one.
ReplayIsTruthful ==
  \A k \in Keys : keys[k].row.status = "COMPLETED" =>
    /\ keys[k].row.response \in OrdersWith(k)
    /\ orders[keys[k].row.response].customer = keys[k].row.body.customer
    /\ orders[keys[k].row.response].coupon = keys[k].row.body.coupon

\* idempotency.js:20, "a retried request with the same key returns the original
\* result instead of re-running side effects".
KeyRunsOnce == \A k \in Keys : Cardinality(OrdersWith(k)) <= 1
=============================================================================
