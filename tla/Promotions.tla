------------------------------ MODULE Promotions ------------------------------
(***************************************************************************)
(* promotion.service with its two callers: checkout, which evaluates the   *)
(* offers and later redeems the coupon inside one transaction, and the     *)
(* hourly job that switches off what has expired.  Evaluation reads        *)
(* without locks; redemption locks the coupon row and looks again.         *)
(***************************************************************************)
EXTENDS Naturals, FiniteSets

CONSTANTS Offers,      \* promotions
          Coupons,
          Buyers,      \* customers
          Baskets,     \* bound: the carts that are checked out
          Terms,       \* [Offers -> what the promotion row and its rules say]
          Limits,      \* [Coupons -> its offer and its usage limits]
          Endless,     \* bound: the offers that nobody gives an end date
          Lines,       \* [Baskets -> the products and categories of its lines]
          Subtotal,    \* [Baskets -> their value]
          Tills,       \* checkouts in flight at the same time
          Nil,         \* no coupon, no buyer, no limit
          MaxOrders    \* bound: orders placed in one behaviour

OfferTerms ==
  [stackable : BOOLEAN, firstOrderOnly : BOOLEAN, buyer : Buyers \union {Nil}, minimum : Nat, priority : Nat,
   includes : SUBSET UNION {Lines[b] : b \in Baskets}, excludes : SUBSET UNION {Lines[b] : b \in Baskets}]
CouponLimits == [offer : Offers, usageLimit : Nat \union {Nil}, perCustomer : Nat]

ASSUME PromotionsAssumption ==
  /\ Nil \notin Offers \union Coupons \union Buyers \union Nat
  /\ Subtotal \in [Baskets -> Nat]
  /\ Endless \subseteq Offers
  /\ MaxOrders \in Nat
  /\ \A f \in Offers : Terms[f] \in OfferTerms
  /\ \A c \in Coupons : Limits[c] \in CouponLimits

VARIABLES offer,     \* per promotion: isActive, and where it is in its time window
          coupon,    \* per coupon: its state and used_count
          redeemed,  \* coupon_redemptions: per coupon and buyer, the number of rows
          placed,    \* the orders so far, as far as promotions matter
          till,      \* per checkout: what it was promised
          job        \* the expiry job, per promotion it found expired: its next statement

promotionsVars == <<offer, coupon, redeemed, placed, till, job>>

Windows == {"ahead", "open", "over"}
OfferRow == [active : BOOLEAN, window : Windows]
CouponRow == [state : {"absent", "active", "inactive"}, used : 0..MaxOrders]
OrderRow ==
  [buyer : Buyers, offers : SUBSET Offers, coupon : Coupons \union {Nil}, cancelled : BOOLEAN,
   overtaken : BOOLEAN]   \* history: another order of the buyer was placed since it was priced
TillState == {Nil} \union [buyer : Buyers, offers : SUBSET Offers, coupon : Coupons \union {Nil}, overtaken : BOOLEAN]

PromotionsTypeOK ==
  /\ offer \in [Offers -> OfferRow]
  /\ coupon \in [Coupons -> CouponRow]
  /\ redeemed \in [Coupons \X Buyers -> 0..MaxOrders]
  /\ \E n \in 0..MaxOrders : placed \in [1..n -> OrderRow]
  /\ till \in [Tills -> TillState]
  /\ job \in [Offers -> {"none", "promotion", "coupons"}]

PromotionsInit ==
  /\ offer \in [Offers -> [active : {TRUE}, window : {"ahead", "open"}]]
  /\ coupon = [c \in Coupons |-> [state |-> "absent", used |-> 0]]
  /\ redeemed = [x \in Coupons \X Buyers |-> 0]
  /\ placed = [o \in {} |-> Nil]
  /\ till = [t \in Tills |-> Nil]
  /\ job = [f \in Offers |-> "none"]

-----------------------------------------------------------------------------
(* evaluate                                                                *)

\* eligibleLines: an excluded line rules the whole cart out; without includes every
\* line counts.
Eligible(f, b) ==
  /\ Terms[f].excludes \intersect Lines[b] = {}
  /\ Terms[f].includes = {} \/ Terms[f].includes \intersect Lines[b] # {}

\* customerOrderCount: orders that were not cancelled.
CustomerOrders(u) == {o \in DOMAIN placed : placed[o].buyer = u /\ ~placed[o].cancelled}

\* What holds for a coupon's offer and for an automatic one alike.
OpenTo(f, u, b) ==
  /\ offer[f].active /\ offer[f].window = "open"
  /\ Terms[f].buyer \in {Nil, u}
  /\ Terms[f].firstOrderOnly => CustomerOrders(u) = {}
  /\ Terms[f].minimum <= Subtotal[b]

WithinLimits(c, u) ==
  /\ Limits[c].usageLimit # Nil => coupon[c].used < Limits[c].usageLimit
  /\ redeemed[<<c, u>>] < Limits[c].perCustomer

CouponAccepted(c, u, b) ==
  /\ coupon[c].state = "active"
  /\ WithinLimits(c, u)
  /\ OpenTo(Limits[c].offer, u, b)

\* findAutomaticPromotions asks for no coupon, and excludes none that has one.
Automatic(u, b) == {f \in Offers : OpenTo(f, u, b)}

\* The first non-stackable candidate is applied alone: the coupon's before all others,
\* then the one of highest priority; without one, all of them.
Applied(forced, automatic) ==
  LET alone == {f \in automatic : ~Terms[f].stackable}
      first == {f \in alone : \A g \in alone : Terms[g].priority <= Terms[f].priority}
  IN IF \E f \in forced : ~Terms[f].stackable THEN {forced}
     ELSE IF alone # {} THEN {{f} : f \in first}
     ELSE {forced \union automatic}

\* The offers a checkout ends up with; one choice, unless priorities tie.
Evaluate(u, b, c) ==
  LET forced == IF c = Nil THEN {} ELSE {Limits[c].offer} IN
  {{f \in applied : Eligible(f, b)} : applied \in Applied(forced, Automatic(u, b))}

-----------------------------------------------------------------------------
(* checkout                                                                *)

PriceCheckout(t, u, b, c) ==
  /\ till[t] = Nil
  /\ Cardinality(DOMAIN placed) < MaxOrders
  /\ c # Nil => CouponAccepted(c, u, b)
  /\ \E offers \in Evaluate(u, b, c) :
       till' = [till EXCEPT ![t] = [buyer |-> u, offers |-> offers, coupon |-> c, overtaken |-> FALSE]]
  /\ UNCHANGED <<offer, coupon, redeemed, placed, job>>

\* (Slip: redemption trusts the evaluation.)
StillWithinLimits_Trusted(c, u) == TRUE

\* redeemCoupon, under the lock of the coupon row: the limits are checked again, the
\* promotion and the switch of the coupon are not.
StillWithinLimits(c, u) == WithinLimits(c, u)

PlaceOrder(t) ==
  LET sale == till[t]
      n == Cardinality(DOMAIN placed) + 1
  IN
  /\ sale # Nil
  /\ n <= MaxOrders
  /\ IF sale.coupon # Nil /\ ~StillWithinLimits(sale.coupon, sale.buyer)
     THEN /\ till' = [till EXCEPT ![t] = Nil]
          /\ UNCHANGED <<coupon, redeemed, placed>>
     ELSE /\ placed' = [o \in 1..n |->
               IF o < n THEN placed[o]
               ELSE [buyer |-> sale.buyer, offers |-> sale.offers, coupon |-> sale.coupon,
                     cancelled |-> FALSE, overtaken |-> sale.overtaken]]
          /\ coupon' = IF sale.coupon = Nil THEN coupon ELSE [coupon EXCEPT ![sale.coupon].used = @ + 1]
          /\ redeemed' = IF sale.coupon = Nil THEN redeemed
                         ELSE [redeemed EXCEPT ![<<sale.coupon, sale.buyer>>] = @ + 1]
          /\ till' = [s \in Tills |->
               IF s = t THEN Nil
               ELSE IF till[s] # Nil /\ till[s].buyer = sale.buyer THEN [till[s] EXCEPT !.overtaken = TRUE]
               ELSE till[s]]
  /\ UNCHANGED <<offer, job>>

\* Out of stock, or anything else that rolls the checkout back.
AbandonCheckout(t) ==
  /\ till[t] # Nil
  /\ till' = [till EXCEPT ![t] = Nil]
  /\ UNCHANGED <<offer, coupon, redeemed, placed, job>>

\* orders.changeStatus: a cancellation gives no coupon back.
CancelPlaced(o) ==
  /\ ~placed[o].cancelled
  /\ placed' = [placed EXCEPT ![o].cancelled = TRUE]
  /\ UNCHANGED <<offer, coupon, redeemed, till, job>>

-----------------------------------------------------------------------------
(* promotion.controller, the expiry job, and time                          *)

CreateCoupon(c) ==
  /\ coupon[c].state = "absent"
  /\ coupon' = [coupon EXCEPT ![c].state = "active"]
  /\ UNCHANGED <<offer, redeemed, placed, till, job>>

\* Staff switches an offer off or on, or moves its window.
UpdatePromotion(f) ==
  /\ \E active \in BOOLEAN, window \in IF f \in Endless THEN {"open"} ELSE {"open", "over"} :
       offer' = [offer EXCEPT ![f] = [active |-> active, window |-> window]]
  /\ UNCHANGED <<coupon, redeemed, placed, till, job>>

OfferTimePasses(f) ==
  /\ offer[f].window = "ahead" \/ (offer[f].window = "open" /\ f \notin Endless)
  /\ offer' = [offer EXCEPT ![f].window = IF @ = "ahead" THEN "open" ELSE "over"]
  /\ UNCHANGED <<coupon, redeemed, placed, till, job>>

Expired == {f \in Offers : offer[f].active /\ offer[f].window = "over"}

\* The job lists what is active and over, and goes through the list.
FindExpired ==
  /\ \A f \in Offers : job[f] = "none"
  /\ Expired # {}
  /\ job' = [f \in Offers |-> IF f \in Expired THEN "promotion" ELSE "none"]
  /\ UNCHANGED <<offer, coupon, redeemed, placed, till>>

\* It switches the promotion off, without looking at it again ...
ExpirePromotion(f) ==
  /\ job[f] = "promotion"
  /\ offer' = [offer EXCEPT ![f].active = FALSE]
  /\ job' = [job EXCEPT ![f] = "coupons"]
  /\ UNCHANGED <<coupon, redeemed, placed, till>>

\* ... and then, in a statement of its own, the coupons.
ExpireCoupons(f) ==
  /\ job[f] = "coupons"
  /\ coupon' = [c \in Coupons |->
       IF Limits[c].offer = f /\ coupon[c].state = "active" THEN [coupon[c] EXCEPT !.state = "inactive"]
       ELSE coupon[c]]
  /\ job' = [job EXCEPT ![f] = "none"]
  /\ UNCHANGED <<offer, redeemed, placed, till>>

\* A statement fails, or the process dies: the rest of the list waits for the next run.
JobFails ==
  /\ \E f \in Offers : job[f] # "none"
  /\ job' = [f \in Offers |-> "none"]
  /\ UNCHANGED <<offer, coupon, redeemed, placed, till>>

PromotionsNext ==
  \/ \E t \in Tills :
       \/ \E u \in Buyers, b \in Baskets, c \in Coupons \union {Nil} : PriceCheckout(t, u, b, c)
       \/ PlaceOrder(t) \/ AbandonCheckout(t)
  \/ \E o \in DOMAIN placed : CancelPlaced(o)
  \/ \E c \in Coupons : CreateCoupon(c)
  \/ \E f \in Offers : UpdatePromotion(f) \/ OfferTimePasses(f) \/ ExpirePromotion(f) \/ ExpireCoupons(f)
  \/ FindExpired \/ JobFails

PromotionsSpec == PromotionsInit /\ [][PromotionsNext]_promotionsVars

-----------------------------------------------------------------------------

\* However many checkouts overlap, a coupon is not used more often than its limits
\* allow, by all customers together and by each of them, and its counter says how often
\* it was used.  A first-order offer is granted on a first order only: every earlier
\* order of that customer was cancelled, unless it was placed by a checkout that
\* overlapped this one (promotion.service.js:58-74, 108-127).
OffersWithinLimits ==
  /\ \A c \in Coupons :
       LET uses(S) == Cardinality({o \in DOMAIN placed : placed[o].coupon = c /\ placed[o].buyer \in S}) IN
       /\ coupon[c].used = uses(Buyers)
       /\ Limits[c].usageLimit # Nil => uses(Buyers) <= Limits[c].usageLimit
       /\ \A u \in Buyers : uses({u}) <= Limits[c].perCustomer
  /\ \A o \in DOMAIN placed :
       (~placed[o].overtaken /\ \E f \in placed[o].offers : Terms[f].firstOrderOnly) =>
         \A p \in 1..(o - 1) : placed[p].buyer = placed[o].buyer => placed[p].cancelled
=============================================================================
