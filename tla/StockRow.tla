------------------------------ MODULE StockRow ------------------------------
(***************************************************************************)
(* One row of the inventory table and the movements written beside it:     *)
(* what each operation of inventory.service requires of the row it has     *)
(* read, what it assigns, and the movement it appends.  The modules that   *)
(* describe how requests reach the row are Inventory (atomically),         *)
(* InventoryTx (as transactions) and OrderFulfilment (from orders).        *)
(***************************************************************************)
EXTENDS Integers

CONSTANTS Quantities,   \* quantities a request may carry (validation: integer, min 1)
          NoRow         \* the variant has no inventory row yet

Columns == {"physical", "reserved", "sold", "returned", "damaged"}

\* The CHECK constraints keep physical and reserved from going negative; the
\* counters only grow.
Stock == [Columns -> Nat]

ASSUME QuantitiesAssumption == Quantities \subseteq Nat \ {0}
ASSUME NoRowAssumption == NoRow \notin Stock

EmptyRow == [c \in Columns |-> 0]

Movements == {"PURCHASE", "ORDER", "RETURN", "DAMAGE", "ADJUSTMENT", "RESERVE", "RELEASE"}

\* The append-only ledger, summed per movement type.
Ledger == [Movements -> Int]
EmptyLedger == [m \in Movements |-> 0]

Operations == {"INITIALIZE", "RESERVE", "RELEASE", "COMMIT", "RESTOCK", "RECEIVE", "DAMAGE", "ADJUST"}

\* The numbers a request for op can carry: a stock-taking correction may be
\* negative, a new variant may start with nothing.
Amounts(op) ==
  CASE op = "ADJUST" -> Quantities \union {-q : q \in Quantities}
    [] op = "INITIALIZE" -> Quantities \union {0}
    [] OTHER -> Quantities

MovementOf(op) ==
  CASE op = "COMMIT" -> "ORDER"
    [] op = "RESTOCK" -> "RETURN"
    [] op = "ADJUST" -> "ADJUSTMENT"
    [] op \in {"INITIALIZE", "RECEIVE"} -> "PURCHASE"
    [] OTHER -> op

\* (Slip used to test the properties: only the physical count is compared.)
Accepts_IgnoresReserved(op, s, n) ==
  /\ op \in {"RESERVE", "DAMAGE"} => s.physical >= n
  /\ op = "COMMIT" => s.reserved >= n /\ s.physical >= n
  /\ op = "ADJUST" => s.physical + n >= 0

\* The 409 checks of the handlers, and for commit also the CHECK constraint on
\* physical: the service itself compares only reserved with the quantity.
Accepts(op, s, n) ==
  /\ op \in {"RESERVE", "DAMAGE"} => s.physical - s.reserved >= n
  /\ op = "COMMIT" => s.reserved >= n /\ s.physical >= n
  /\ op = "ADJUST" => s.physical + n >= 0

\* The assignments of the handlers to the row instance they have read.
Update(op, s, n) ==
  CASE op = "RESERVE" -> [s EXCEPT !.reserved = @ + n]
    [] op = "RELEASE" -> [s EXCEPT !.reserved = IF @ > n THEN @ - n ELSE 0]
    [] op = "COMMIT"  -> [s EXCEPT !.reserved = @ - n, !.physical = @ - n, !.sold = @ + n]
    [] op = "RESTOCK" -> [s EXCEPT !.physical = @ + n, !.returned = @ + n]
    [] op = "DAMAGE"  -> [s EXCEPT !.physical = @ - n, !.damaged = @ + n]
    [] OTHER          -> [s EXCEPT !.physical = @ + n]

\* The columns row.save() writes: those the handler has assigned.
Assigned(op) ==
  CASE op \in {"RESERVE", "RELEASE"} -> {"reserved"}
    [] op = "COMMIT" -> {"reserved", "physical", "sold"}
    [] op = "RESTOCK" -> {"physical", "returned"}
    [] op = "DAMAGE" -> {"physical", "damaged"}
    [] OTHER -> {"physical"}

Recorded(ledger, op, n) == [ledger EXCEPT ![MovementOf(op)] = @ + n]

-----------------------------------------------------------------------------
\* Relations between a row and its ledger.

\* Every unit that is or was in the warehouse is accounted for by a movement.
PhysicalMatches(s, l) ==
  s.physical = l["PURCHASE"] + l["RETURN"] + l["ADJUSTMENT"] - l["ORDER"] - l["DAMAGE"]

\* The lifetime counters are the sums of their movements.
CountersMatch(s, l) ==
  /\ s.sold = l["ORDER"]
  /\ s.returned = l["RETURN"]
  /\ s.damaged = l["DAMAGE"]

\* A release larger than what is held is clamped, so the column may exceed the
\* difference of the movements but never fall short of it.
ReservedCovers(s, l) == s.reserved >= l["RESERVE"] - l["RELEASE"] - l["ORDER"]
=============================================================================
