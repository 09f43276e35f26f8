CONSTANTS
  p1 = p1
  p2 = p2
  w1 = w1
  w2 = w2
  Payments = {p1, p2}
  Workers = {w1, w2}
  Amount = 2
  MaxCrashes = 1
SPECIFICATION Spec
SYMMETRY Symmetry
INVARIANTS
  RefundsWithinPayment
  OrderReflectsPayment
PROPERTIES
  CapturesAreNeverReverted
  OrderFollowsTable
CHECK_DEADLOCK FALSE
