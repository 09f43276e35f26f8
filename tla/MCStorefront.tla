----------------------------- MODULE MCStorefront -----------------------------
(***************************************************************************)
(* Instance of what a shopper meets, for TLC: Cart, Promotions, Catalog    *)
(* and Addresses.  They share no table, so a behaviour exercises one of    *)
(* them ("focus") and the others rest in their initial state.              *)
(***************************************************************************)
EXTENDS Cart, Promotions, Catalog, Addresses, TLC

VARIABLE focus

Symmetry == Permutations(Tabs) \union Permutations(Variants)

Anyone == [stackable |-> TRUE, firstOrderOnly |-> FALSE, buyer |-> Nil, minimum |-> 0, priority |-> 0,
           includes |-> {}, excludes |-> {}]
MCTerms == "welcome" :> [Anyone EXCEPT !.firstOrderOnly = TRUE, !.stackable = FALSE]
        @@ "sale" :> [Anyone EXCEPT !.includes = {"shirts"}]
MCLimits == "HELLO" :> [offer |-> "welcome", usageLimit |-> 1, perCustomer |-> 1]
MCLines == [b \in Baskets |-> {"shirts", "gifts"}]
MCSubtotal == [b \in Baskets |-> 1]

storefrontVars == <<cartVars, promotionsVars, catalogVars, addressesVars, focus>>

StorefrontInit ==
  /\ focus \in {"cart", "promotions", "catalog", "addresses"}
  /\ CartInit /\ PromotionsInit /\ CatalogInit /\ AddressesInit
  /\ focus = "promotions" \/ \A f \in Offers : offer[f].window = "open"

StorefrontNext ==
  \/ focus = "cart" /\ CartNext /\ UNCHANGED <<promotionsVars, catalogVars, addressesVars, focus>>
  \/ focus = "promotions" /\ PromotionsNext /\ UNCHANGED <<cartVars, catalogVars, addressesVars, focus>>
  \/ focus = "catalog" /\ CatalogNext /\ UNCHANGED <<cartVars, promotionsVars, addressesVars, focus>>
  \/ focus = "addresses" /\ AddressesNext /\ UNCHANGED <<cartVars, promotionsVars, catalogVars, focus>>

StorefrontSpec == StorefrontInit /\ [][StorefrontNext]_storefrontVars

\* The variables of the storefront's modules (cart, promotion, product and customer
\* services) keep their types.
StorefrontTypeOK == CartTypeOK /\ PromotionsTypeOK /\ CatalogTypeOK /\ AddressesTypeOK
=============================================================================
