CONSTANTS
  w1 = w1
  w2 = w2
  w3 = w3
  Workers = {w1, w2, w3}
  NoOne = NoOne
  NoRow = NoRow
  Quantities = {1, 2}
  MaxRequests = 5
SPECIFICATION Spec
SYMMETRY Symmetry
INVARIANTS
  LedgerAccountsForRow
PROPERTIES
  LockedOperationsAreAtomic
  OnlyCorrectionsOversell
CHECK_DEADLOCK FALSE
