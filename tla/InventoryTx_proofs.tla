-------------------------- MODULE InventoryTx_proofs --------------------------
(***************************************************************************)
(* The transactions of InventoryTx, for any number of requests and any     *)
(* quantities: the row and its ledger stay consistent, and what the locked *)
(* handlers do is what the atomic specification Inventory says.  First the *)
(* lemmas these rest on: what the operations of inventory.service do to a  *)
(* row and its ledger, for every row, every ledger and every quantity.     *)
(***************************************************************************)
EXTENDS InventoryTx, TLAPS

-----------------------------------------------------------------------------
\* The numbers requests carry are integers, and only a correction is negative
\* (inventory.validation: "integer, min 1").
LEMMA AmountsAreIntegers ==
  ASSUME NEW op \in Operations, NEW n \in Amounts(op)
  PROVE  /\ n \in Int
         /\ op # "ADJUST" => n \in Nat
         /\ op \notin {"ADJUST", "INITIALIZE"} => n \in Quantities
<1>1. Quantities \subseteq Nat
  BY QuantitiesAssumption
<1>2. CASE op = "ADJUST"
  BY <1>1, <1>2, SMT DEF Amounts
<1>3. CASE op = "INITIALIZE"
  BY <1>1, <1>3, SMT DEF Amounts
<1>4. CASE op \notin {"ADJUST", "INITIALIZE"}
  BY <1>1, <1>4, SMT DEF Amounts
<1> QED
  BY <1>2, <1>3, <1>4

\* The row a handler assigns, column by column.
LEMMA UpdateByColumn ==
  ASSUME NEW s \in Stock, NEW op \in Operations, NEW n \in Int
  PROVE  LET r == Update(op, s, n)
         IN  /\ r["reserved"] = CASE op = "RESERVE" -> s["reserved"] + n
                                  [] op = "RELEASE" -> IF s["reserved"] > n THEN s["reserved"] - n ELSE 0
                                  [] op = "COMMIT" -> s["reserved"] - n
                                  [] OTHER -> s["reserved"]
             /\ r["physical"] = CASE op \in {"RESERVE", "RELEASE"} -> s["physical"]
                                  [] op \in {"COMMIT", "DAMAGE"} -> s["physical"] - n
                                  [] OTHER -> s["physical"] + n
             /\ r["sold"] = IF op = "COMMIT" THEN s["sold"] + n ELSE s["sold"]
             /\ r["returned"] = IF op = "RESTOCK" THEN s["returned"] + n ELSE s["returned"]
             /\ r["damaged"] = IF op = "DAMAGE" THEN s["damaged"] + n ELSE s["damaged"]
<1>1. CASE op = "RESERVE"
  BY <1>1, SMT DEF Update, Stock, Columns
<1>2. CASE op = "RELEASE"
  BY <1>2, SMT DEF Update, Stock, Columns
<1>3. CASE op = "COMMIT"
  <2> DEFINE r == [s EXCEPT !.reserved = @ - n, !.physical = @ - n, !.sold = @ + n]
  <2>1. /\ r["reserved"] = s["reserved"] - n /\ r["physical"] = s["physical"] - n /\ r["sold"] = s["sold"] + n
        /\ r["returned"] = s["returned"] /\ r["damaged"] = s["damaged"]
    BY SMT DEF Stock, Columns
  <2>2. Update(op, s, n) = r
    BY <1>3, Zenon DEF Update
  <2> HIDE DEF r
  <2> QED
    BY <1>3, <2>1, <2>2, SMT
<1>4. CASE op = "RESTOCK"
  <2> DEFINE r == [s EXCEPT !.physical = @ + n, !.returned = @ + n]
  <2>1. /\ r["reserved"] = s["reserved"] /\ r["physical"] = s["physical"] + n /\ r["sold"] = s["sold"]
        /\ r["returned"] = s["returned"] + n /\ r["damaged"] = s["damaged"]
    BY SMT DEF Stock, Columns
  <2>2. Update(op, s, n) = r
    BY <1>4, Zenon DEF Update
  <2> HIDE DEF r
  <2> QED
    BY <1>4, <2>1, <2>2, SMT
<1>5. CASE op = "DAMAGE"
  <2> DEFINE r == [s EXCEPT !.physical = @ - n, !.damaged = @ + n]
  <2>1. /\ r["reserved"] = s["reserved"] /\ r["physical"] = s["physical"] - n /\ r["sold"] = s["sold"]
        /\ r["returned"] = s["returned"] /\ r["damaged"] = s["damaged"] + n
    BY SMT DEF Stock, Columns
  <2>2. Update(op, s, n) = r
    BY <1>5, Zenon DEF Update
  <2> HIDE DEF r
  <2> QED
    BY <1>5, <2>1, <2>2, SMT
<1>6. CASE op \in {"INITIALIZE", "RECEIVE", "ADJUST"}
  BY <1>6, SMT DEF Update, Stock, Columns
<1> QED
  BY <1>1, <1>2, <1>3, <1>4, <1>5, <1>6 DEF Operations

\* The row has its five columns, whatever the operation.
LEMMA UpdateIsFunction ==
  ASSUME NEW s \in Stock, NEW op \in Operations, NEW n \in Int
  PROVE  Update(op, s, n) = [c \in Columns |-> Update(op, s, n)[c]]
<1>1. CASE op = "RESERVE"
  BY <1>1, Zenon DEF Update, Stock
<1>2. CASE op = "RELEASE"
  BY <1>2, Zenon DEF Update, Stock
<1>3. CASE op = "COMMIT"
  BY <1>3, Zenon DEF Update, Stock
<1>4. CASE op = "RESTOCK"
  BY <1>4, Zenon DEF Update, Stock
<1>5. CASE op = "DAMAGE"
  BY <1>5, Zenon DEF Update, Stock
<1>6. CASE op \in {"INITIALIZE", "RECEIVE", "ADJUST"}
  BY <1>6, Zenon DEF Update, Stock
<1> QED
  BY <1>1, <1>2, <1>3, <1>4, <1>5, <1>6 DEF Operations

\* Two rows that agree on the five columns are the same row.
LEMMA RowsByColumn ==
  ASSUME NEW r, NEW s, r = [c \in Columns |-> r[c]], s = [c \in Columns |-> s[c]],
         \A c \in Columns : r[c] = s[c]
  PROVE  r = s
  BY Zenon

\* An accepted request leaves no column negative: neither the clamp of release
\* nor the two subtractions of commit can get below zero.
THEOREM AcceptedStaysStock ==
  ASSUME NEW s \in Stock, NEW op \in Operations, NEW n \in Amounts(op), Accepts(op, s, n)
  PROVE  Update(op, s, n) \in Stock
<1> DEFINE r == Update(op, s, n)
<1>1. n \in Int /\ (op # "ADJUST" => n \in Nat)
  BY AmountsAreIntegers
<1>2. \A c \in Columns : s[c] \in Nat
  BY SMT DEF Stock
<1>3. r = [c \in Columns |-> r[c]]
  BY <1>1, UpdateIsFunction
<1>4. r["sold"] \in Nat /\ r["returned"] \in Nat /\ r["damaged"] \in Nat
  <2>1. /\ r["sold"] = IF op = "COMMIT" THEN s["sold"] + n ELSE s["sold"]
        /\ r["returned"] = IF op = "RESTOCK" THEN s["returned"] + n ELSE s["returned"]
        /\ r["damaged"] = IF op = "DAMAGE" THEN s["damaged"] + n ELSE s["damaged"]
    BY <1>1, UpdateByColumn
  <2> HIDE DEF r
  <2> QED
    BY <2>1, <1>1, <1>2, SMT DEF Columns
<1>5. r["reserved"] \in Nat
  <2>1. r["reserved"] = CASE op = "RESERVE" -> s["reserved"] + n
                          [] op = "RELEASE" -> IF s["reserved"] > n THEN s["reserved"] - n ELSE 0
                          [] op = "COMMIT" -> s["reserved"] - n
                          [] OTHER -> s["reserved"]
    BY <1>1, UpdateByColumn
  <2>2. op = "COMMIT" => s["reserved"] >= n
    BY SMT DEF Accepts
  <2> HIDE DEF r
  <2> QED
    BY <2>1, <2>2, <1>1, <1>2, SMT DEF Columns
<1>6. r["physical"] \in Nat
  <2>1. r["physical"] = CASE op \in {"RESERVE", "RELEASE"} -> s["physical"]
                          [] op \in {"COMMIT", "DAMAGE"} -> s["physical"] - n
                          [] OTHER -> s["physical"] + n
    BY <1>1, UpdateByColumn
  <2>2. /\ op = "COMMIT" => s["physical"] >= n
        /\ op = "DAMAGE" => s["physical"] - s["reserved"] >= n
        /\ op = "ADJUST" => s["physical"] + n >= 0
    BY SMT DEF Accepts
  <2> HIDE DEF r
  <2> QED
    BY <2>1, <2>2, <1>1, <1>2, SMT DEF Columns
<1>7. \A c \in Columns : r[c] \in Nat
  BY <1>4, <1>5, <1>6, Zenon DEF Columns
<1> HIDE DEF r
<1>8. r \in Stock
  BY <1>3, <1>7, SMT DEF Stock
<1> QED
  BY <1>8 DEF r

-----------------------------------------------------------------------------

\* save() writes only the assigned columns; over the row the handler has read,
\* that is the whole update.
LEMMA AssignedColumnsSuffice ==
  ASSUME NEW s \in Stock, NEW op \in Operations, NEW n \in Int
  PROVE  [c \in Columns |-> IF c \in Assigned(op) THEN Update(op, s, n)[c] ELSE s[c]]
           = Update(op, s, n)
<1> DEFINE r == Update(op, s, n)
           saved == [c \in Columns |-> IF c \in Assigned(op) THEN r[c] ELSE s[c]]
<1>1. /\ op \notin {"RESERVE", "RELEASE", "COMMIT"} => r["reserved"] = s["reserved"]
      /\ op \in {"RESERVE", "RELEASE"} => r["physical"] = s["physical"]
      /\ op # "COMMIT" => r["sold"] = s["sold"]
      /\ op # "RESTOCK" => r["returned"] = s["returned"]
      /\ op # "DAMAGE" => r["damaged"] = s["damaged"]
  BY UpdateByColumn, SMT
<1>2. r = [c \in Columns |-> r[c]]
  BY UpdateIsFunction
<1> HIDE DEF r
<1>3. \A c \in Columns : c \notin Assigned(op) => r[c] = s[c]
  BY <1>1, SMT DEF Columns, Assigned, Operations
<1>4. \A c \in Columns : saved[c] = r[c]
  BY <1>3
<1>5. saved = [c \in Columns |-> saved[c]]
  BY Zenon
<1> HIDE DEF saved
<1>6. saved = r
  BY <1>2, <1>4, <1>5, RowsByColumn
<1> QED
  BY <1>6 DEF saved, r

\* The ledger after one more movement.
LEMMA RecordedByMovement ==
  ASSUME NEW l \in Ledger, NEW op \in Operations, NEW n \in Int
  PROVE  /\ Recorded(l, op, n) \in Ledger
         /\ \A m \in Movements :
              Recorded(l, op, n)[m] = IF m = MovementOf(op) THEN l[m] + n ELSE l[m]
<1>1. MovementOf(op) \in Movements
  BY SMT DEF MovementOf, Operations, Movements
<1> QED
  BY <1>1, SMT DEF Recorded, Ledger

\* An accepted operation and its movement keep the counters equal to their
\* movements, and enough reserved for what the ledger says is held: a release
\* that is clamped leaves more, never less.
THEOREM OperationsStayAccounted ==
  ASSUME NEW s \in Stock, NEW l \in Ledger, NEW op \in Operations, NEW n \in Amounts(op),
         Accepts(op, s, n), CountersMatch(s, l), ReservedCovers(s, l)
  PROVE  /\ CountersMatch(Update(op, s, n), Recorded(l, op, n))
         /\ ReservedCovers(Update(op, s, n), Recorded(l, op, n))
         /\ PhysicalMatches(s, l) => PhysicalMatches(Update(op, s, n), Recorded(l, op, n))
<1> DEFINE r == Update(op, s, n)
           k == Recorded(l, op, n)
<1>1. n \in Int /\ (op # "ADJUST" => n \in Nat)
  BY AmountsAreIntegers
<1>2. \A c \in Columns : s[c] \in Nat
  BY SMT DEF Stock
<1>3. \A m \in Movements : l[m] \in Int
  BY SMT DEF Ledger
<1>4. \A m \in Movements : k[m] = IF m = MovementOf(op) THEN l[m] + n ELSE l[m]
  BY <1>1, RecordedByMovement
<1>5. /\ k["ORDER"] = (IF op = "COMMIT" THEN l["ORDER"] + n ELSE l["ORDER"])
      /\ k["RETURN"] = (IF op = "RESTOCK" THEN l["RETURN"] + n ELSE l["RETURN"])
      /\ k["DAMAGE"] = (IF op = "DAMAGE" THEN l["DAMAGE"] + n ELSE l["DAMAGE"])
  <2> HIDE DEF k
  <2>1. k["ORDER"] = (IF op = "COMMIT" THEN l["ORDER"] + n ELSE l["ORDER"])
    BY <1>4, SMT DEF Movements, MovementOf, Operations
  <2>2. k["RETURN"] = (IF op = "RESTOCK" THEN l["RETURN"] + n ELSE l["RETURN"])
    BY <1>4, SMT DEF Movements, MovementOf, Operations
  <2>3. k["DAMAGE"] = (IF op = "DAMAGE" THEN l["DAMAGE"] + n ELSE l["DAMAGE"])
    BY <1>4, SMT DEF Movements, MovementOf, Operations
  <2> QED
    BY <2>1, <2>2, <2>3
<1>6. CountersMatch(r, k)
  <2>1. /\ r["sold"] = IF op = "COMMIT" THEN s["sold"] + n ELSE s["sold"]
        /\ r["returned"] = IF op = "RESTOCK" THEN s["returned"] + n ELSE s["returned"]
        /\ r["damaged"] = IF op = "DAMAGE" THEN s["damaged"] + n ELSE s["damaged"]
    BY <1>1, UpdateByColumn
  <2> HIDE DEF r, k
  <2> QED
    BY <2>1, <1>5, SMT DEF CountersMatch
<1>7. ReservedCovers(r, k)
  <2>1. r["reserved"] = CASE op = "RESERVE" -> s["reserved"] + n
                          [] op = "RELEASE" -> IF s["reserved"] > n THEN s["reserved"] - n ELSE 0
                          [] op = "COMMIT" -> s["reserved"] - n
                          [] OTHER -> s["reserved"]
    BY <1>1, UpdateByColumn
  <2> HIDE DEF r, k
  <2>2. k["RESERVE"] - k["RELEASE"] - k["ORDER"] =
          l["RESERVE"] - l["RELEASE"] - l["ORDER"]
            + (CASE op = "RESERVE" -> n [] op \in {"RELEASE", "COMMIT"} -> -n [] OTHER -> 0)
    BY <1>1, <1>3, <1>4, SMT DEF Movements, MovementOf, Operations
  <2>3. l["RESERVE"] \in Int /\ l["RELEASE"] \in Int /\ l["ORDER"] \in Int /\ s["reserved"] \in Nat
    BY <1>2, <1>3 DEF Movements, Columns
  <2> QED
    BY <2>1, <2>2, <2>3, <1>1, SMT DEF ReservedCovers
<1>8. ASSUME PhysicalMatches(s, l) PROVE PhysicalMatches(r, k)
  <2>1. r["physical"] = CASE op \in {"RESERVE", "RELEASE"} -> s["physical"]
                          [] op \in {"COMMIT", "DAMAGE"} -> s["physical"] - n
                          [] OTHER -> s["physical"] + n
    BY <1>1, UpdateByColumn
  <2> HIDE DEF r, k
  <2>2. /\ k["PURCHASE"] = (IF op \in {"INITIALIZE", "RECEIVE"} THEN l["PURCHASE"] + n ELSE l["PURCHASE"])
        /\ k["ADJUSTMENT"] = (IF op = "ADJUST" THEN l["ADJUSTMENT"] + n ELSE l["ADJUSTMENT"])
    BY <1>4, SMT DEF Movements, MovementOf, Operations
  <2>3. /\ s["physical"] \in Nat
        /\ l["PURCHASE"] \in Int /\ l["ADJUSTMENT"] \in Int
        /\ l["ORDER"] \in Int /\ l["RETURN"] \in Int /\ l["DAMAGE"] \in Int
    BY <1>2, <1>3 DEF Columns, Movements
  <2> QED
    BY <2>1, <2>2, <2>3, <1>1, <1>5, <1>8, SMT DEF PhysicalMatches, Operations
<1> QED
  BY <1>6, <1>7, <1>8

-----------------------------------------------------------------------------
\* The inductive invariant: what each step of a transaction may rely on.

\* A request carries a number its operation allows, and holds no row before it
\* has read one.
Requested(w) ==
  /\ tx[w].at # "idle" => tx[w].n \in Amounts(tx[w].op)
  /\ tx[w].at \in {"idle", "begun"} => tx[w].copy = NoRow

\* Between read and save, the row read for update is still the committed one,
\* and only handlers that may create a row go on without one.
Reading(w) ==
  tx[w].at = "read" =>
    IF tx[w].copy = NoRow
      THEN tx[w].op \in {"INITIALIZE", "RECEIVE"}
      ELSE row # NoRow /\ (tx[w].op # "INITIALIZE" => lock = w /\ tx[w].copy = row)

\* A saved row is the update of the committed one: of the empty row if there is
\* none yet, and apart from a physical count that has raced if it was read
\* without a lock.
SavedNew(w) ==
  /\ tx[w].op \in {"INITIALIZE", "RECEIVE"}
  /\ tx[w].copy = Update(tx[w].op, EmptyRow, tx[w].n)

SavedOver(w) ==
  /\ Accepts(tx[w].op, row, tx[w].n)
  /\ \/ tx[w].copy = Update(tx[w].op, row, tx[w].n)
     \/ /\ tx[w].op = "INITIALIZE" /\ raced
        /\ \A c \in Columns \ {"physical"} : tx[w].copy[c] = row[c]

Saving(w) ==
  tx[w].at = "saved" => /\ lock = w /\ tx[w].copy # NoRow
                        /\ IF row = NoRow THEN SavedNew(w) ELSE SavedOver(w)

\* A row without movements does not exist yet.
NothingYet == row = NoRow => ledger = EmptyLedger

IInv ==
  /\ TypeOK
  /\ NothingYet
  /\ LedgerAccountsForRow
  /\ \A w \in Workers : Requested(w) /\ Reading(w) /\ Saving(w)

-----------------------------------------------------------------------------
\* Steps that change the record of one request.

\* The other requests' records stay, and the step w is at changes.
LEMMA OneRequestMoves ==
  ASSUME TypeOK, NEW w \in Workers, NEW t \in Tx, tx' = [tx EXCEPT ![w] = t]
  PROVE  /\ tx' \in [Workers -> Tx]
         /\ tx'[w] = t
         /\ \A u \in Workers : u # w => tx'[u] = tx[u]
<1>1. tx \in [Workers -> Tx]
  BY DEF TypeOK
<1> QED
  BY <1>1, SMT

\* A step that moves on keeps the operation and its number.
LEMMA ReachedIsTx ==
  ASSUME TypeOK, NEW w \in Workers, NEW step \in Steps, NEW copy \in Stock \union {NoRow}
  PROVE  Reached(w, step, copy) \in Tx
<1>1. tx[w] \in Tx
  BY DEF TypeOK
<1> QED
  BY <1>1, SMT DEF Tx, Reached

LEMMA IdleIsTx == Idle \in Tx
<1>1. 0 \in Numbers
  BY SMT DEF Amounts, Numbers, Operations
<1> QED
  BY <1>1, SMT DEF Idle, Tx, Operations, Steps

\* What a request relies on survives the step of another one that leaves the
\* row alone and does not take the lock from it.
LEMMA OthersUndisturbed ==
  ASSUME NEW u \in Workers, Requested(u), Reading(u), Saving(u),
         tx'[u] = tx[u], row' = row, raced => raced', lock = u => lock' = u
  PROVE  Requested(u)' /\ Reading(u)' /\ Saving(u)'
<1>1. Requested(u)'
  BY DEF Requested
<1>2. Reading(u)'
  BY DEF Reading
<1>3. Saving(u)'
  BY DEF Saving, SavedNew, SavedOver
<1> QED
  BY <1>1, <1>2, <1>3

\* A step that leaves row and ledger alone keeps them consistent, and all that
\* is left to show is what the request itself relies on next.
LEMMA OwnStep ==
  ASSUME IInv, NEW w \in Workers, NEW t \in Tx, tx' = [tx EXCEPT ![w] = t],
         UNCHANGED <<row, ledger>>,
         lock' \in Workers \union {NoOne}, begun' \in 0..MaxRequests, raced' \in BOOLEAN,
         raced => raced', \A u \in Workers \ {w} : lock = u => lock' = u,
         Requested(w)', Reading(w)', Saving(w)'
  PROVE  IInv'
<1>1. tx' \in [Workers -> Tx] /\ \A u \in Workers : u # w => tx'[u] = tx[u]
  BY OneRequestMoves DEF IInv
<1>2. TypeOK'
  BY <1>1 DEF IInv, TypeOK
<1>3. NothingYet'
  BY DEF IInv, NothingYet
<1>4. LedgerAccountsForRow'
  BY DEF IInv, LedgerAccountsForRow, CountersMatch, ReservedCovers, PhysicalMatches
<1>5. ASSUME NEW u \in Workers PROVE Requested(u)' /\ Reading(u)' /\ Saving(u)'
  <2>1. CASE u = w
    BY <2>1
  <2>2. CASE u # w
    BY <1>1, <2>2, OthersUndisturbed DEF IInv
  <2> QED
    BY <2>1, <2>2
<1> QED
  BY <1>2, <1>3, <1>4, <1>5 DEF IInv

-----------------------------------------------------------------------------
\* The initial states satisfy the invariant.
LEMMA InitIInv == Init => IInv
<1> SUFFICES ASSUME Init PROVE IInv
  OBVIOUS
<1>1. TypeOK
  <2>1. tx \in [Workers -> Tx]
    BY IdleIsTx DEF Init
  <2>2. ledger \in Ledger
    BY SMT DEF Init, EmptyLedger, Ledger
  <2>3. begun \in 0..MaxRequests
    BY MaxRequestsAssumption, SMT DEF Init
  <2> QED
    BY <2>1, <2>2, <2>3, Zenon DEF Init, TypeOK
<1>2. NothingYet /\ LedgerAccountsForRow
  BY DEF Init, NothingYet, LedgerAccountsForRow
<1>3. ASSUME NEW w \in Workers PROVE Requested(w) /\ Reading(w) /\ Saving(w)
  <2>1. tx[w] = Idle
    BY DEF Init
  <2> QED
    BY <2>1, SMT DEF Idle, Requested, Reading, Saving
<1> QED
  BY <1>1, <1>2, <1>3 DEF IInv

\* A request that ends without having changed anything.
LEMMA EndsIdle ==
  ASSUME IInv, NEW w \in Workers, tx' = [tx EXCEPT ![w] = Idle],
         UNCHANGED <<row, ledger, begun, raced>>, lock' \in {lock, Unlocked(w)}
  PROVE  IInv'
<1>1. tx'[w] = Idle
  BY IdleIsTx, OneRequestMoves DEF IInv
<1>2. Requested(w)' /\ Reading(w)' /\ Saving(w)'
  BY <1>1, SMT DEF Idle, Requested, Reading, Saving
<1>3. lock' \in Workers \union {NoOne} /\ \A u \in Workers \ {w} : lock = u => lock' = u
  BY SMT DEF IInv, TypeOK, Unlocked
<1> QED
  BY <1>2, <1>3, IdleIsTx, OwnStep DEF IInv, TypeOK

LEMMA BeginKeeps ==
  ASSUME IInv, NEW w \in Workers, Begin(w)
  PROVE  IInv'
<1>0. PICK op \in Operations : \E n \in Amounts(op) :
        tx' = [tx EXCEPT ![w] = [at |-> "begun", op |-> op, n |-> n, copy |-> NoRow]]
  BY DEF Begin
<1>1. PICK n \in Amounts(op) :
        tx' = [tx EXCEPT ![w] = [at |-> "begun", op |-> op, n |-> n, copy |-> NoRow]]
  BY <1>0
<1> DEFINE t == [at |-> "begun", op |-> op, n |-> n, copy |-> NoRow]
<1>2. t \in Tx
  <2>1. n \in Numbers
    BY SMT DEF Numbers
  <2> QED
    BY <2>1, SMT DEF Tx, Steps
<1>3. tx'[w] = t
  BY <1>1, <1>2, OneRequestMoves DEF IInv
<1>4. Requested(w)' /\ Reading(w)' /\ Saving(w)'
  BY <1>3, SMT DEF Requested, Reading, Saving
<1>5. begun' \in 0..MaxRequests
  BY MaxRequestsAssumption, SMT DEF Begin, IInv, TypeOK
<1>6. UNCHANGED <<row, ledger, lock, raced>>
  BY DEF Begin
<1> HIDE DEF t
<1> QED
  BY <1>1, <1>2, <1>4, <1>5, <1>6, OwnStep DEF IInv, TypeOK, t

LEMMA ReadForUpdateKeeps ==
  ASSUME IInv, NEW w \in Workers, ReadForUpdate(w)
  PROVE  IInv'
<1> DEFINE t == Reached(w, "read", row)
<1>1. t \in Tx
  BY ReachedIsTx, Zenon DEF IInv, TypeOK, Steps
<1>2. tx' = [tx EXCEPT ![w] = t] /\ tx'[w] = t
  BY <1>1, OneRequestMoves DEF ReadForUpdate, IInv
<1>3. Requested(w)' /\ Reading(w)' /\ Saving(w)'
  BY <1>2, SMT DEF ReadForUpdate, IInv, Requested, Reading, Saving, Reached
<1>4. /\ UNCHANGED <<row, ledger, begun, raced>>
      /\ lock' = w /\ lock = NoOne
  BY DEF ReadForUpdate
<1> HIDE DEF t
<1> QED
  BY <1>1, <1>2, <1>3, <1>4, NoOneAssumption, OwnStep DEF IInv, TypeOK

LEMMA ReadMissingKeeps ==
  ASSUME IInv, NEW w \in Workers, ReadMissing(w)
  PROVE  IInv'
<1>1. UNCHANGED <<row, ledger, lock, begun, raced>>
  BY DEF ReadMissing
<1>2. CASE tx[w].op = "RECEIVE"
  <2> DEFINE t == Reached(w, "read", NoRow)
  <2>1. t \in Tx
    BY ReachedIsTx, Zenon DEF IInv, TypeOK, Steps
  <2>2. tx' = [tx EXCEPT ![w] = t] /\ tx'[w] = t
    BY <1>2, <2>1, OneRequestMoves DEF ReadMissing, IInv
  <2>3. Requested(w)' /\ Reading(w)' /\ Saving(w)'
    BY <1>2, <2>2, SMT DEF ReadMissing, IInv, Requested, Reading, Saving, Reached
  <2> HIDE DEF t
  <2> QED
    BY <1>1, <2>1, <2>2, <2>3, OwnStep DEF IInv, TypeOK
<1>3. CASE tx[w].op # "RECEIVE"
  <2>1. tx' = [tx EXCEPT ![w] = Idle]
    BY <1>3 DEF ReadMissing
  <2> QED
    BY <1>1, <2>1, EndsIdle
<1> QED
  BY <1>2, <1>3

LEMMA ReadUnlockedKeeps ==
  ASSUME IInv, NEW w \in Workers, ReadUnlocked(w)
  PROVE  IInv'
<1> DEFINE t == Reached(w, "read", row)
<1>1. t \in Tx
  BY ReachedIsTx, Zenon DEF IInv, TypeOK, Steps
<1>2. tx' = [tx EXCEPT ![w] = t] /\ tx'[w] = t
  BY <1>1, OneRequestMoves DEF ReadUnlocked, IInv
<1>3. Requested(w)' /\ Reading(w)' /\ Saving(w)'
  BY <1>2, SMT DEF ReadUnlocked, IInv, Requested, Reading, Saving, Reached
<1>4. UNCHANGED <<row, ledger, lock, begun, raced>>
  BY DEF ReadUnlocked
<1> HIDE DEF t
<1> QED
  BY <1>1, <1>2, <1>3, <1>4, OwnStep DEF IInv, TypeOK

\* A handler's own refusal, a save that has nothing to write and an aborted
\* transaction all end without a trace.
LEMMA EndingsKeep ==
  ASSUME IInv, NEW w \in Workers, Refuse(w) \/ NothingToSave(w) \/ Abort(w)
  PROVE  IInv'
  BY EndsIdle DEF Refuse, NothingToSave, Abort

\* The row that save() leaves behind is a row, whichever columns it writes.
LEMMA SavedIsStock ==
  ASSUME NEW t \in Tx, t.copy \in Stock, row \in Stock, t.n \in Amounts(t.op),
         Accepts(t.op, t.copy, t.n)
  PROVE  Saved(t) \in Stock
<1> DEFINE mine == Update(t.op, t.copy, t.n)
<1>1. t.op \in Operations
  BY SMT DEF Tx
<1>2. mine \in Stock
  BY <1>1, AcceptedStaysStock
<1> HIDE DEF mine
<1>3. [c \in Columns |-> IF c \in Assigned(t.op) THEN mine[c] ELSE row[c]] \in Stock
  BY <1>2, SMT DEF Stock
<1> QED
  BY <1>3 DEF Saved, mine

LEMMA SaveKeeps ==
  ASSUME IInv, NEW w \in Workers, Save(w)
  PROVE  IInv'
<1> DEFINE op == tx[w].op
           n == tx[w].n
           copy == tx[w].copy
           t == Reached(w, "saved", Saved(tx[w]))
<1>1. tx[w] \in Tx /\ op \in Operations /\ n \in Amounts(op) /\ copy \in Stock
  <2>1. tx[w] \in Tx
    BY DEF IInv, TypeOK
  <2>2. op \in Operations /\ copy \in Stock
    BY <2>1, SMT DEF Tx, Save
  <2>3. n \in Amounts(op)
    BY SMT DEF IInv, Requested, Save
  <2> QED
    BY <2>1, <2>2, <2>3
<1>2. Accepts(op, copy, n) /\ row # NoRow /\ row \in Stock
  BY SMT DEF IInv, TypeOK, Reading, Save
<1>3. Saved(tx[w]) \in Stock
  BY <1>1, <1>2, SavedIsStock
<1>4. t \in Tx
  BY <1>3, ReachedIsTx, Zenon DEF IInv, Steps
<1>5. tx' = [tx EXCEPT ![w] = t] /\ tx'[w] = t
  BY <1>4, OneRequestMoves DEF Save, IInv
<1>6. /\ UNCHANGED <<row, ledger, begun>>
      /\ lock' = w /\ lock \in {w, NoOne}
      /\ raced' = (raced \/ copy["physical"] # row["physical"])
  BY DEF Save
<1>7. raced' \in BOOLEAN /\ (raced => raced')
  BY <1>6, Zenon DEF IInv, TypeOK
<1>8. copy = row => Saved(tx[w]) = Update(op, row, n)
  <2>1. n \in Int
    BY <1>1, AmountsAreIntegers
  <2>2. [c \in Columns |-> IF c \in Assigned(op) THEN Update(op, row, n)[c] ELSE row[c]]
          = Update(op, row, n)
    BY <1>1, <1>2, <2>1, AssignedColumnsSuffice
  <2>3. copy = row => Saved(tx[w]) =
          [c \in Columns |-> IF c \in Assigned(op) THEN Update(op, row, n)[c] ELSE row[c]]
    BY Zenon DEF Saved
  <2> QED
    BY <2>2, <2>3
<1>9. SavedOver(w)'
  <2>1. tx'[w].op = op /\ tx'[w].n = n /\ tx'[w].copy = Saved(tx[w])
    BY <1>5, SMT DEF Reached
  <2>2. CASE op # "INITIALIZE"
    <3>1. copy = row
      BY <2>2, SMT DEF IInv, Reading, Save
    <3> QED
      BY <1>2, <1>6, <1>8, <2>1, <3>1, Zenon DEF SavedOver
  <2>3. CASE op = "INITIALIZE" /\ copy["physical"] # row["physical"]
    <3>1. \A c \in Columns \ {"physical"} : Saved(tx[w])[c] = row[c]
      BY <2>3, SMT DEF Saved, Assigned
    <3>2. Accepts(op, row, n)
      BY <2>3, SMT DEF Accepts
    <3> QED
      BY <1>6, <2>1, <2>3, <3>1, <3>2, Zenon DEF SavedOver
  <2>4. CASE op = "INITIALIZE" /\ copy["physical"] = row["physical"]
    <3>1. Saved(tx[w]) = [c \in Columns |-> IF c \in Assigned(op) THEN Update(op, row, n)[c] ELSE row[c]]
      <4>1. n \in Int
        BY <1>1, AmountsAreIntegers
      <4>2. Update(op, copy, n)["physical"] = Update(op, row, n)["physical"]
        <5>1. /\ Update(op, copy, n)["physical"] = copy["physical"] + n
              /\ Update(op, row, n)["physical"] = row["physical"] + n
          BY <1>1, <1>2, <2>4, <4>1, UpdateByColumn
        <5> QED
          BY <2>4, <5>1
      <4>3. Assigned(op) = {"physical"}
        BY <2>4, SMT DEF Assigned
      <4> QED
        BY <4>2, <4>3, SMT DEF Saved
    <3>2. Saved(tx[w]) = Update(op, row, n)
      BY <1>1, <1>2, <3>1, AmountsAreIntegers, AssignedColumnsSuffice
    <3>3. Accepts(op, row, n)
      BY <2>4, SMT DEF Accepts
    <3> QED
      BY <1>6, <2>1, <3>2, <3>3, Zenon DEF SavedOver
  <2> QED
    BY <2>2, <2>3, <2>4
<1>10. Requested(w)' /\ Reading(w)' /\ Saving(w)'
  <2>1. tx'[w].at = "saved" /\ tx'[w].op = op /\ tx'[w].n = n /\ tx'[w].copy # NoRow
    BY <1>3, <1>5, NoRowAssumption, SMT DEF Reached
  <2> QED
    BY <1>1, <1>2, <1>6, <1>9, <2>1, SMT DEF Requested, Reading, Saving
<1> HIDE DEF t, op, n, copy
<1> QED
  BY <1>4, <1>5, <1>6, <1>7, <1>10, NoOneAssumption, OwnStep DEF IInv, TypeOK

LEMMA CreateKeeps ==
  ASSUME IInv, NEW w \in Workers, Create(w)
  PROVE  IInv'
<1> DEFINE op == tx[w].op
           n == tx[w].n
           new == Update(op, EmptyRow, n)
           t == Reached(w, "saved", new)
<1>1. op \in {"INITIALIZE", "RECEIVE"} /\ n \in Amounts(op)
  BY SMT DEF IInv, Reading, Requested, Create
<1>2. new \in Stock
  <2>1. EmptyRow \in Stock
    BY SMT DEF EmptyRow, Stock
  <2>2. Accepts(op, EmptyRow, n)
    BY <1>1, SMT DEF Accepts
  <2>3. op \in Operations
    BY <1>1, SMT DEF Operations
  <2> QED
    BY <1>1, <2>1, <2>2, <2>3, AcceptedStaysStock
<1>3. t \in Tx
  BY <1>2, ReachedIsTx, Zenon DEF IInv, Steps
<1>4. tx' = [tx EXCEPT ![w] = t] /\ tx'[w] = t
  BY <1>3, OneRequestMoves DEF Create, IInv
<1>5. UNCHANGED <<row, ledger, begun, raced>> /\ lock' = w /\ lock = NoOne /\ row = NoRow
  BY DEF Create
<1>6. Requested(w)' /\ Reading(w)' /\ Saving(w)'
  <2>1. tx'[w].at = "saved" /\ tx'[w].op = op /\ tx'[w].n = n /\ tx'[w].copy = new
    BY <1>4, SMT DEF Reached
  <2> QED
    BY <1>1, <1>2, <1>5, <2>1, NoRowAssumption, SMT DEF Requested, Reading, Saving, SavedNew
<1> HIDE DEF t, op, n
<1> QED
  BY <1>3, <1>4, <1>5, <1>6, NoOneAssumption, OwnStep DEF IInv, TypeOK

\* The row that commits: created from nothing, the update of the row before it,
\* or an initialisation whose physical count has raced.
LEMMA CommittedRow ==
  ASSUME IInv, NEW w \in Workers, tx[w].at = "saved"
  PROVE  /\ lock = w
         /\ tx[w].op \in Operations /\ tx[w].n \in Amounts(tx[w].op) /\ tx[w].copy \in Stock
         /\ IF row = NoRow THEN SavedNew(w) ELSE row \in Stock /\ SavedOver(w)
<1>1. tx[w] \in Tx /\ row \in Stock \union {NoRow}
  BY DEF IInv, TypeOK
<1>2. tx[w].op \in Operations /\ tx[w].copy \in Stock \union {NoRow}
  BY <1>1, SMT DEF Tx
<1>3. tx[w].n \in Amounts(tx[w].op)
  BY SMT DEF IInv, Requested
<1>4. lock = w /\ tx[w].copy # NoRow /\ IF row = NoRow THEN SavedNew(w) ELSE SavedOver(w)
  BY DEF IInv, Saving
<1> QED
  BY <1>1, <1>2, <1>3, <1>4

\* A row and a ledger with nothing in them agree.
LEMMA EmptyAccounted ==
  /\ EmptyRow \in Stock /\ EmptyLedger \in Ledger
  /\ CountersMatch(EmptyRow, EmptyLedger)
  /\ ReservedCovers(EmptyRow, EmptyLedger)
  /\ PhysicalMatches(EmptyRow, EmptyLedger)
  /\ \A n : Accepts("INITIALIZE", EmptyRow, n) /\ Accepts("RECEIVE", EmptyRow, n)
<1>1. EmptyRow \in Stock /\ EmptyLedger \in Ledger
  BY SMT DEF EmptyRow, Stock, EmptyLedger, Ledger
<1>2. \A c \in Columns : EmptyRow[c] = 0
  BY SMT DEF EmptyRow
<1>3. \A m \in Movements : EmptyLedger[m] = 0
  BY SMT DEF EmptyLedger
<1>4. CountersMatch(EmptyRow, EmptyLedger)
  BY <1>2, <1>3, SMT DEF CountersMatch, Columns, Movements
<1>5. ReservedCovers(EmptyRow, EmptyLedger)
  BY <1>2, <1>3, SMT DEF ReservedCovers, Columns, Movements
<1>6. PhysicalMatches(EmptyRow, EmptyLedger)
  BY <1>2, <1>3, SMT DEF PhysicalMatches, Columns, Movements
<1>7. \A n : Accepts("INITIALIZE", EmptyRow, n) /\ Accepts("RECEIVE", EmptyRow, n)
  BY SMT DEF Accepts
<1> QED
  BY <1>1, <1>4, <1>5, <1>6, <1>7

LEMMA CommitTxKeeps ==
  ASSUME IInv, NEW w \in Workers, CommitTx(w)
  PROVE  IInv'
<1> DEFINE op == tx[w].op
           n == tx[w].n
           copy == tx[w].copy
<1>1. /\ lock = w /\ op \in Operations /\ n \in Amounts(op) /\ copy \in Stock
      /\ IF row = NoRow THEN SavedNew(w) ELSE row \in Stock /\ SavedOver(w)
  BY CommittedRow DEF CommitTx
<1>2. /\ row' = copy /\ ledger' = Recorded(ledger, op, n)
      /\ lock' = NoOne /\ UNCHANGED <<begun, raced>>
      /\ tx' = [tx EXCEPT ![w] = Idle]
  BY DEF CommitTx
<1>3. tx'[w] = Idle /\ tx' \in [Workers -> Tx] /\ \A u \in Workers : u # w => tx'[u] = tx[u]
  BY <1>2, IdleIsTx, OneRequestMoves DEF IInv
<1>4. ledger \in Ledger
  BY DEF IInv, TypeOK
<1>5. TypeOK'
  <2>1. ledger' \in Ledger
    BY <1>1, <1>2, <1>4, AmountsAreIntegers, RecordedByMovement
  <2> QED
    BY <1>1, <1>2, <1>3, <2>1 DEF IInv, TypeOK
<1>6. CountersMatch(row', ledger') /\ ReservedCovers(row', ledger') /\ (raced' \/ PhysicalMatches(row', ledger'))
  <2>1. CASE row = NoRow
    <3>1. ledger = EmptyLedger /\ copy = Update(op, EmptyRow, n) /\ op \in {"INITIALIZE", "RECEIVE"}
      BY <1>1, <2>1 DEF IInv, NothingYet, SavedNew
    <3>2. Accepts(op, EmptyRow, n)
      BY <3>1, EmptyAccounted
    <3> QED
      BY <1>1, <1>2, <3>1, <3>2, EmptyAccounted, OperationsStayAccounted
  <2>2. CASE row # NoRow /\ copy = Update(op, row, n)
    <3>1. /\ Accepts(op, row, n) /\ CountersMatch(row, ledger) /\ ReservedCovers(row, ledger)
          /\ raced \/ PhysicalMatches(row, ledger)
      BY <1>1, <2>2 DEF IInv, LedgerAccountsForRow, SavedOver
    <3>2. /\ CountersMatch(row', ledger') /\ ReservedCovers(row', ledger')
          /\ PhysicalMatches(row, ledger) => PhysicalMatches(row', ledger')
      BY <1>1, <1>2, <1>4, <2>2, <3>1, OperationsStayAccounted
    <3> QED
      BY <1>2, <3>1, <3>2
  <2>3. CASE row # NoRow /\ copy # Update(op, row, n)
    <3>1. op = "INITIALIZE" /\ raced /\ \A c \in Columns \ {"physical"} : copy[c] = row[c]
      BY <1>1, <2>3 DEF SavedOver
    <3>2. CountersMatch(row, ledger) /\ ReservedCovers(row, ledger)
      BY <2>3 DEF IInv, LedgerAccountsForRow
    <3>3. /\ copy["sold"] = row["sold"] /\ copy["returned"] = row["returned"]
          /\ copy["damaged"] = row["damaged"] /\ copy["reserved"] = row["reserved"]
      BY <3>1 DEF Columns
    <3>4. \A m \in Movements \ {"PURCHASE"} : Recorded(ledger, op, n)[m] = ledger[m]
      <4>1. MovementOf(op) = "PURCHASE"
        BY <3>1, SMT DEF MovementOf
      <4> QED
        BY <1>1, <1>4, <4>1, AmountsAreIntegers, RecordedByMovement
    <3>5. /\ ledger'["ORDER"] = ledger["ORDER"] /\ ledger'["RETURN"] = ledger["RETURN"]
          /\ ledger'["DAMAGE"] = ledger["DAMAGE"] /\ ledger'["RESERVE"] = ledger["RESERVE"]
          /\ ledger'["RELEASE"] = ledger["RELEASE"]
      BY <1>2, <3>4 DEF Movements
    <3>6. CountersMatch(row', ledger')
      BY <1>2, <3>2, <3>3, <3>5, SMT DEF CountersMatch
    <3>7. ReservedCovers(row', ledger')
      BY <1>2, <3>2, <3>3, <3>5, SMT DEF ReservedCovers
    <3> QED
      BY <1>2, <3>1, <3>6, <3>7
  <2> QED
    BY <2>1, <2>2, <2>3
<1>7. LedgerAccountsForRow'
  BY <1>6 DEF LedgerAccountsForRow
<1>8. row' # NoRow
  BY <1>1, <1>2, NoRowAssumption
<1>9. NothingYet'
  BY <1>8 DEF NothingYet
<1>10. ASSUME NEW u \in Workers PROVE Requested(u)' /\ Reading(u)' /\ Saving(u)'
  <2>1. CASE u = w
    BY <1>3, <2>1, SMT DEF Idle, Requested, Reading, Saving
  <2>2. CASE u # w
    <3>1. tx'[u] = tx[u] /\ lock # u
      BY <1>1, <1>3, <2>2
    <3>2. Requested(u) /\ Reading(u) /\ Saving(u)
      BY DEF IInv
    <3>3. Requested(u)' /\ Saving(u)'
      BY <3>1, <3>2 DEF Requested, Saving
    <3>4. Reading(u)'
      BY <1>8, <3>1, <3>2 DEF Reading
    <3> QED
      BY <3>3, <3>4
  <2> QED
    BY <2>1, <2>2
<1> QED
  BY <1>5, <1>7, <1>9, <1>10 DEF IInv

\* The invariant is inductive.
LEMMA StepIInv == IInv /\ [Next]_vars => IInv'
<1> SUFFICES ASSUME IInv, [Next]_vars PROVE IInv'
  OBVIOUS
<1>1. CASE UNCHANGED vars
  BY <1>1 DEF vars, IInv, TypeOK, NothingYet, LedgerAccountsForRow, CountersMatch, ReservedCovers,
              PhysicalMatches, Requested, Reading, Saving, SavedNew, SavedOver
<1>2. ASSUME NEW w \in Workers, Begin(w) PROVE IInv'
  BY <1>2, BeginKeeps
<1>3. ASSUME NEW w \in Workers, ReadForUpdate(w) PROVE IInv'
  BY <1>3, ReadForUpdateKeeps
<1>4. ASSUME NEW w \in Workers, ReadMissing(w) PROVE IInv'
  BY <1>4, ReadMissingKeeps
<1>5. ASSUME NEW w \in Workers, ReadUnlocked(w) PROVE IInv'
  BY <1>5, ReadUnlockedKeeps
<1>6. ASSUME NEW w \in Workers, Refuse(w) \/ NothingToSave(w) \/ Abort(w) PROVE IInv'
  BY <1>6, EndingsKeep
<1>7. ASSUME NEW w \in Workers, Save(w) PROVE IInv'
  BY <1>7, SaveKeeps
<1>8. ASSUME NEW w \in Workers, Create(w) PROVE IInv'
  BY <1>8, CreateKeeps
<1>9. ASSUME NEW w \in Workers, CommitTx(w) PROVE IInv'
  BY <1>9, CommitTxKeeps
<1> QED
  BY <1>1, <1>2, <1>3, <1>4, <1>5, <1>6, <1>7, <1>8, <1>9 DEF Next

LEMMA IInvAlways == Spec => []IInv
  BY InitIInv, StepIInv, PTL DEF Spec

-----------------------------------------------------------------------------

\* No column of the row ever becomes negative, whatever runs concurrently.
THEOREM TypeCorrect == Spec => []TypeOK
<1>1. IInv => TypeOK
  BY DEF IInv
<1> QED
  BY <1>1, IInvAlways, PTL

\* The row can always be recomputed from its append-only movements.
THEOREM LedgerTheorem == Spec => []LedgerAccountsForRow
<1>1. IInv => LedgerAccountsForRow
  BY DEF IInv
<1> QED
  BY <1>1, IInvAlways, PTL

-----------------------------------------------------------------------------
\* The transactions implement the atomic specification.

\* Inventory is about the same rows, requests and movements.
LEMMA SameRows ==
  /\ Atomic!EmptyRow = EmptyRow /\ Atomic!EmptyLedger = EmptyLedger
  /\ \A op : Atomic!Amounts(op) = Amounts(op)
  /\ \A op, r, n : Atomic!Accepts(op, r, n) <=> Accepts(op, r, n)
  /\ \A op, r, n : Atomic!Update(op, r, n) = Update(op, r, n)
  /\ \A l, op, n : Atomic!Recorded(l, op, n) = Recorded(l, op, n)
<1>1. Atomic!EmptyRow = EmptyRow /\ Atomic!EmptyLedger = EmptyLedger
  BY DEF Atomic!EmptyRow, Atomic!EmptyLedger, EmptyRow, EmptyLedger, Atomic!Columns, Columns,
         Atomic!Movements, Movements
<1>2. \A op : Atomic!Amounts(op) = Amounts(op)
  BY DEF Atomic!Amounts, Amounts
<1>3. \A op, r, n : Atomic!Accepts(op, r, n) <=> Accepts(op, r, n)
  BY DEF Atomic!Accepts, Accepts
<1>4. \A op, r, n : Atomic!Update(op, r, n) = Update(op, r, n)
  BY DEF Atomic!Update, Update
<1>5. \A l, op, n : Atomic!Recorded(l, op, n) = Recorded(l, op, n)
  BY DEF Atomic!Recorded, Recorded, Atomic!MovementOf, MovementOf
<1> QED
  BY <1>1, <1>2, <1>3, <1>4, <1>5

\* Every request but a raced initialisation takes effect at its commit as one
\* atomic operation on the row and the ledger committed last.
LEMMA CommitIsAtomic ==
  ASSUME IInv, NEW w \in Workers, CommitTx(w)
  PROVE  Atomic!Next \/ (raced /\ tx[w].at = "saved" /\ tx[w].op = "INITIALIZE")
<1> DEFINE op == tx[w].op
           n == tx[w].n
<1>1. /\ op \in Operations /\ n \in Amounts(op)
      /\ IF row = NoRow THEN SavedNew(w) ELSE SavedOver(w)
  BY CommittedRow DEF CommitTx
<1>2. /\ tx[w].at = "saved" /\ row' = tx[w].copy /\ ledger' = Recorded(ledger, op, n)
  BY DEF CommitTx
<1>3. CASE row = NoRow
  <2>1. Atomic!PerformNew(op, n) /\ op \in {"INITIALIZE", "RECEIVE"}
    BY <1>1, <1>2, <1>3, SameRows DEF SavedNew, Atomic!PerformNew
  <2>2. n \in Atomic!Amounts(op)
    BY <1>1, SameRows
  <2> QED
    BY <2>1, <2>2 DEF Atomic!Next, Atomic!InitializeForVariant, Atomic!ReceivePurchase
<1>4. CASE row # NoRow /\ tx[w].copy = Update(op, row, n)
  <2>1. Atomic!Perform(op, n)
    <3>1. Accepts(op, row, n)
      BY <1>1, <1>4 DEF SavedOver
    <3> QED
      BY <1>2, <1>4, <3>1, SameRows DEF Atomic!Perform
  <2>2. n \in Atomic!Amounts(op)
    BY <1>1, SameRows
  <2> HIDE DEF op, n
  <2> QED
    BY <1>1, <2>1, <2>2 DEF Operations, Atomic!Next, Atomic!InitializeForVariant, Atomic!Reserve,
         Atomic!Release, Atomic!Commit, Atomic!Restock, Atomic!ReceivePurchase,
         Atomic!ReportDamage, Atomic!Adjust
<1>5. CASE row # NoRow /\ tx[w].copy # Update(op, row, n)
  BY <1>1, <1>2, <1>5 DEF SavedOver
<1> QED
  BY <1>3, <1>4, <1>5

\* Nothing but a commit touches the row and the ledger.
LEMMA OnlyCommitsChange ==
  ASSUME [Next]_vars
  PROVE  UNCHANGED <<row, ledger>> \/ \E w \in Workers : CommitTx(w)
<1>1. CASE UNCHANGED vars
  BY <1>1 DEF vars
<1>2. CASE Next
  <2>1. PICK w \in Workers :
          \/ Begin(w) \/ ReadForUpdate(w) \/ ReadMissing(w) \/ ReadUnlocked(w)
          \/ Refuse(w) \/ Save(w) \/ NothingToSave(w) \/ Create(w) \/ CommitTx(w) \/ Abort(w)
    BY <1>2 DEF Next
  <2> QED
    BY <2>1 DEF Begin, ReadForUpdate, ReadMissing, ReadUnlocked, Refuse, Save, NothingToSave, Create, Abort
<1> QED
  BY <1>1, <1>2

\* The transactions implement Inventory but for the unlocked initialisation:
\* however requests interleave, the committed row and ledger go through the
\* states that the operations would take them through one at a time.
THEOREM AtomicityTheorem == Spec => LockedOperationsAreAtomic
<1>1. Init => Atomic!Init
  BY SameRows DEF Init, Atomic!Init
<1>2. ASSUME IInv, [Next]_vars
      PROVE  [\/ [Atomic!Next]_<<row, ledger>>
              \/ raced /\ \E w \in Workers : tx[w].at = "saved" /\ tx[w].op = "INITIALIZE"]_vars
  BY <1>2, OnlyCommitsChange, CommitIsAtomic
<1> QED
  BY <1>1, <1>2, IInvAlways, PTL DEF Spec, LockedOperationsAreAtomic

\* An accepted operation other than a correction does not oversell a row.
LEMMA AcceptedDoesNotOversell ==
  ASSUME NEW s \in Stock, NEW op \in Operations \ {"ADJUST", "INITIALIZE"}, NEW n \in Amounts(op),
         Accepts(op, s, n), s["reserved"] <= s["physical"]
  PROVE  Update(op, s, n)["reserved"] <= Update(op, s, n)["physical"]
<1> DEFINE r == Update(op, s, n)
<1>1. n \in Nat /\ s["reserved"] \in Nat /\ s["physical"] \in Nat
  <2>1. n \in Nat
    BY AmountsAreIntegers
  <2> QED
    BY <2>1, SMT DEF Stock, Columns
<1>2. r["reserved"] = CASE op = "RESERVE" -> s["reserved"] + n
                        [] op = "RELEASE" -> IF s["reserved"] > n THEN s["reserved"] - n ELSE 0
                        [] op = "COMMIT" -> s["reserved"] - n
                        [] OTHER -> s["reserved"]
  BY <1>1, UpdateByColumn
<1>3. r["physical"] = CASE op \in {"RESERVE", "RELEASE"} -> s["physical"]
                        [] op \in {"COMMIT", "DAMAGE"} -> s["physical"] - n
                        [] OTHER -> s["physical"] + n
  BY <1>1, UpdateByColumn
<1>4. op \in {"RESERVE", "DAMAGE"} => s["physical"] - s["reserved"] >= n
  BY SMT DEF Accepts
<1> HIDE DEF r
<1>5. r["reserved"] <= r["physical"]
  BY <1>1, <1>2, <1>3, <1>4, SMT DEF Operations
<1> QED
  BY <1>5 DEF r

\* Reservations exceed the stock only after a manual correction or a racing
\* initialisation, with any number of concurrent requests.
THEOREM OversellTheorem == Spec => OnlyCorrectionsOversell
<1>1. ASSUME IInv, [Next]_vars, ~Oversold(row), Oversold(row')
      PROVE  \E w \in Workers : tx[w].at = "saved" /\ tx[w].op \in {"ADJUST", "INITIALIZE"}
  <2>1. PICK w \in Workers : CommitTx(w)
    BY <1>1, OnlyCommitsChange
  <2> DEFINE op == tx[w].op
             n == tx[w].n
  <2>2. /\ tx[w].at = "saved" /\ row' = tx[w].copy
        /\ op \in Operations /\ n \in Amounts(op) /\ tx[w].copy \in Stock
        /\ IF row = NoRow THEN SavedNew(w) ELSE row \in Stock /\ SavedOver(w)
    BY <1>1, <2>1, CommittedRow DEF CommitTx
  <2>3. SUFFICES ASSUME op \notin {"ADJUST", "INITIALIZE"} PROVE FALSE
    BY <2>2
  <2>4. PICK s \in Stock : /\ Accepts(op, s, n) /\ s["reserved"] <= s["physical"]
                           /\ row' = Update(op, s, n)
    <3>1. CASE row = NoRow
      <4>1. row' = Update(op, EmptyRow, n) /\ Accepts(op, EmptyRow, n) /\ EmptyRow \in Stock
        BY <2>2, <2>3, <3>1, EmptyAccounted DEF SavedNew
      <4>2. EmptyRow["reserved"] <= EmptyRow["physical"]
        BY SMT DEF EmptyRow, Columns
      <4> QED
        BY <4>1, <4>2
    <3>2. CASE row # NoRow
      <4>1. row' = Update(op, row, n) /\ Accepts(op, row, n) /\ row \in Stock
        BY <2>2, <2>3, <3>2 DEF SavedOver
      <4>2. row["reserved"] <= row["physical"]
        <5>1. row["reserved"] \in Nat /\ row["physical"] \in Nat
          BY <4>1, SMT DEF Stock, Columns
        <5>2. ~(row["reserved"] > row["physical"])
          BY <1>1, <3>2 DEF Oversold
        <5> QED
          BY <5>1, <5>2, SMT
      <4> QED
        BY <4>1, <4>2
    <3> QED
      BY <3>1, <3>2
  <2>5. row'["reserved"] <= row'["physical"]
    BY <2>2, <2>3, <2>4, AcceptedDoesNotOversell
  <2>6. row'["reserved"] \in Nat /\ row'["physical"] \in Nat
    BY <2>2, SMT DEF Stock, Columns
  <2>7. row'["reserved"] > row'["physical"]
    BY <1>1 DEF Oversold
  <2> QED
    BY <2>5, <2>6, <2>7, SMT
<1>2. IInv /\ [Next]_vars =>
        [~Oversold(row) /\ Oversold(row') =>
           \E w \in Workers : tx[w].at = "saved" /\ tx[w].op \in {"ADJUST", "INITIALIZE"}]_vars
  BY <1>1
<1> QED
  BY <1>2, IInvAlways, PTL DEF Spec, OnlyCorrectionsOversell

=============================================================================
