CONSTANTS
  o1 = o1
  o2 = o2
  v1 = v1
  v2 = v2
  w1 = w1
  w2 = w2
  Orders = {o1, o2}
  Variants = {v1, v2}
  Workers = {w1, w2}
  c1 = c1
  Customers = {c1}
  CustomerOf <- MCOneCustomer
  WalletOrders = {o1}
  Lines <- MCLines
  InitialStock <- MCInitialStock
  Quantities = {1}
  NoOne = NoOne
  NoRow = NoRow
  NotPlaced = NotPlaced
  PoolSize = 3
  MayFail = TRUE
  MaxFailures = 1
  MaxCorrections = 1
SPECIFICATION Spec
INVARIANTS
  SideEffectsAtLeastOnce
  SideEffectsExactlyOnce
  StatsInSync
  ReservedIsPending
  WalletRestoredOnce
PROPERTIES
  LifecycleIsAtomic
SYMMETRY WorkerSymmetry
CHECK_DEADLOCK FALSE
