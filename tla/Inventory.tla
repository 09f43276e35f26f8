------------------------------ MODULE Inventory ------------------------------
(***************************************************************************)
(* What inventory.service promises of one variant: its operations take     *)
(* effect one at a time, each against the row its predecessor left, and    *)
(* each writes its movement together with the row.                         *)
(***************************************************************************)
EXTENDS StockRow

VARIABLES row,      \* the committed inventory row, or NoRow
          ledger    \* the committed movements, summed per type

stockVars == <<row, ledger>>

Init == /\ row = NoRow
        /\ ledger = EmptyLedger

\* A handler that found the row.
Perform(op, n) ==
  /\ row # NoRow
  /\ Accepts(op, row, n)
  /\ row' = Update(op, row, n)
  /\ ledger' = Recorded(ledger, op, n)

\* A handler that creates the row it did not find.
PerformNew(op, n) ==
  /\ row = NoRow
  /\ row' = Update(op, EmptyRow, n)
  /\ ledger' = Recorded(ledger, op, n)

InitializeForVariant == \E n \in Amounts("INITIALIZE") : Perform("INITIALIZE", n) \/ PerformNew("INITIALIZE", n)
Reserve       == \E n \in Amounts("RESERVE") : Perform("RESERVE", n)
Release       == \E n \in Amounts("RELEASE") : Perform("RELEASE", n)
Commit        == \E n \in Amounts("COMMIT")  : Perform("COMMIT", n)
Restock       == \E n \in Amounts("RESTOCK") : Perform("RESTOCK", n)
ReceivePurchase == \E n \in Amounts("RECEIVE") : Perform("RECEIVE", n) \/ PerformNew("RECEIVE", n)
ReportDamage  == \E n \in Amounts("DAMAGE")  : Perform("DAMAGE", n)
Adjust        == \E n \in Amounts("ADJUST")  : Perform("ADJUST", n)

Next == \/ InitializeForVariant \/ Reserve \/ Release \/ Commit
        \/ Restock \/ ReceivePurchase \/ ReportDamage \/ Adjust

Spec == Init /\ [][Next]_stockVars
=============================================================================
