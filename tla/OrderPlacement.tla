--------------------------- MODULE OrderPlacement ----------------------------
(***************************************************************************)
(* What checkout promises, "the whole checkout as one transaction": placing*)
(* an order is a single step that reserves every line, redeems the coupon  *)
(* and debits the wallet, each within its limit.  Whatever else checkout   *)
(* does on the way leaves these tables alone.                              *)
(***************************************************************************)
EXTENDS Integers, Sequences, FiniteSets

CONSTANTS Customers, Keys, NoKey, Variants,
          Physical,            \* [Variants -> Nat]: units on the shelf
          Credit,              \* [Customers -> Nat]: wallet credit granted
          UsageLimit,          \* coupon: redemptions in total
          UsageLimitPerCustomer

VARIABLES orders,    \* the orders placed, oldest first
          reserved,  \* per variant: units reserved
          coupon,    \* its used count, and the redemption rows per customer
          spent      \* per customer: sum of the wallet debits

placementVars == <<orders, reserved, coupon, spent>>

\* An order has one unit of every line; paid is what the wallet pays of it.
Order == [customer : Customers, key : Keys \union {NoKey}, items : SUBSET Variants,
          coupon : BOOLEAN, paid : Nat]

Init ==
  /\ orders = <<>>
  /\ reserved = [v \in Variants |-> 0]
  /\ coupon = [used |-> 0, by |-> [c \in Customers |-> 0]]
  /\ spent = [c \in Customers |-> 0]

Redeemable(c) == coupon.used < UsageLimit /\ coupon.by[c] < UsageLimitPerCustomer

Place(o) ==
  LET c == o.customer
  IN  /\ orders' = Append(orders, o)
      /\ o.items # {}
      /\ \A v \in o.items : reserved[v] < Physical[v]
      /\ o.coupon => Redeemable(c)
      /\ spent[c] + o.paid <= Credit[c]
      /\ reserved' = [v \in Variants |-> IF v \in o.items THEN reserved[v] + 1 ELSE reserved[v]]
      /\ coupon' = IF o.coupon THEN [used |-> coupon.used + 1, by |-> [coupon.by EXCEPT ![c] = @ + 1]]
                               ELSE coupon
      /\ spent' = [spent EXCEPT ![c] = @ + o.paid]

\* Every line costs one unit of money.
Next ==
  \E c \in Customers, k \in Keys \union {NoKey}, items \in SUBSET Variants, b \in BOOLEAN :
    \E paid \in 0..Cardinality(items) :
      Place([customer |-> c, key |-> k, items |-> items, coupon |-> b, paid |-> paid])

Spec == Init /\ [][Next]_placementVars
=============================================================================
