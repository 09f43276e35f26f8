----------------------------- MODULE MCCheckout ------------------------------
EXTENDS Checkout, TLC

CONSTANTS c1, c2

Symmetry == Permutations(Workers)
MCPhysical == [v \in {1, 2} |-> 1]
MCCredit == [c \in {c1, c2} |-> IF c = c1 THEN 1 ELSE 0]
MCPayloads == {[customer |-> c, coupon |-> c = c2, wallet |-> TRUE] : c \in {c1, c2}}
=============================================================================
