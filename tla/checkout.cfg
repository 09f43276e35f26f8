SPECIFICATION Spec
SYMMETRY Symmetry
CONSTANTS
  w1 = w1
  w2 = w2
  c1 = c1
  c2 = c2
  Workers = {w1, w2}
  Customers = {c1, c2}
  Keys = {k1}
  NoKey = NoKey
  Variants = {1, 2}
  Physical <- MCPhysical
  Credit <- MCCredit
  Payloads <- MCPayloads
  UsageLimit = 1
  UsageLimitPerCustomer = 1
  MaxRequests = 3
  MaxFaults = 1
INVARIANTS NoDeadlock KeyedOnce ReplayIsTruthful
PROPERTY CheckoutIsAtomic
CHECK_DEADLOCK FALSE
