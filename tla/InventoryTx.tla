----------------------------- MODULE InventoryTx -----------------------------
(***************************************************************************)
(* inventory.service as it runs: several requests work on one variant, each*)
(* in a database transaction of its own (READ COMMITTED).  A handler reads *)
(* the row, computes in JavaScript, saves absolute values and commits;     *)
(* every other request runs between those steps.  SELECT ... FOR UPDATE    *)
(* takes the row lock before the computation; initializeForVariant reads   *)
(* without it and meets the lock only when it saves.                       *)
(***************************************************************************)
EXTENDS StockRow

CONSTANTS Workers,      \* requests in flight at the same time
          NoOne,        \* nobody holds the row lock
          MaxRequests   \* bound: requests of one behaviour

ASSUME NoOneAssumption == NoOne \notin Workers
ASSUME MaxRequestsAssumption == MaxRequests \in Nat

VARIABLES row,      \* the committed row, or NoRow
          ledger,   \* the committed movements, summed per type
          lock,     \* the transaction that holds the row (or its unique key)
          tx,       \* per worker: the step it is at, its request, its row instance
          begun,    \* requests begun so far
          raced     \* history: a save has overwritten a physical count it had not read

vars == <<row, ledger, lock, tx, begun, raced>>

Idle == [at |-> "idle", op |-> "RESERVE", n |-> 0, copy |-> NoRow]

Steps == {"idle", "begun", "read", "saved"}
Numbers == UNION {Amounts(op) : op \in Operations}
Tx == [at : Steps, op : Operations, n : Numbers, copy : Stock \union {NoRow}]

\* Types; with Stock, that no column ever becomes negative, neither by an
\* over-release nor by a commit of reserved units that a correction has taken
\* off the shelf.
TypeOK ==
  /\ row \in Stock \union {NoRow}
  /\ ledger \in Ledger
  /\ lock \in Workers \union {NoOne}
  /\ tx \in [Workers -> Tx]
  /\ begun \in 0..MaxRequests
  /\ raced \in BOOLEAN

Init ==
  /\ row = NoRow
  /\ ledger = EmptyLedger
  /\ lock = NoOne
  /\ tx = [w \in Workers |-> Idle]
  /\ begun = 0
  /\ raced = FALSE

\* The lock as it is when w's transaction has ended.
Unlocked(w) == IF lock = w THEN NoOne ELSE lock

\* The request of w, now at step with that row instance in its hands.
Reached(w, step, copy) == [at |-> step, op |-> tx[w].op, n |-> tx[w].n, copy |-> copy]

\* A request arrives and its transaction begins.
Begin(w) ==
  /\ tx[w].at = "idle"
  /\ begun < MaxRequests
  /\ \E op \in Operations : \E n \in Amounts(op) :
       tx' = [tx EXCEPT ![w] = [at |-> "begun", op |-> op, n |-> n, copy |-> NoRow]]
  /\ begun' = begun + 1
  /\ UNCHANGED <<row, ledger, lock, raced>>

\* (Slip used to test the properties: findByVariant, the lock is not taken.)
ReadForUpdate_NoLock(w) ==
  /\ tx[w].at = "begun" /\ tx[w].op # "INITIALIZE"
  /\ row # NoRow
  /\ tx' = [tx EXCEPT ![w] = Reached(w, "read", row)]
  /\ UNCHANGED <<row, ledger, lock, begun, raced>>

\* findByVariantForUpdate, the row exists: wait for the lock, then read.
ReadForUpdate(w) ==
  /\ tx[w].at = "begun" /\ tx[w].op # "INITIALIZE"
  /\ row # NoRow
  /\ lock = NoOne
  /\ lock' = w
  /\ tx' = [tx EXCEPT ![w] = Reached(w, "read", row)]
  /\ UNCHANGED <<row, ledger, begun, raced>>

\* findByVariantForUpdate, no row: 404, except for receivePurchase, which goes
\* on to create it.  There is nothing to lock, an uncommitted insert is invisible.
ReadMissing(w) ==
  /\ tx[w].at = "begun" /\ tx[w].op # "INITIALIZE"
  /\ row = NoRow
  /\ tx' = [tx EXCEPT ![w] = IF @.op = "RECEIVE" THEN Reached(w, "read", NoRow) ELSE Idle]
  /\ UNCHANGED <<row, ledger, lock, begun, raced>>

\* initializeForVariant: findByVariant, without a lock.
ReadUnlocked(w) ==
  /\ tx[w].at = "begun" /\ tx[w].op = "INITIALIZE"
  /\ tx' = [tx EXCEPT ![w] = Reached(w, "read", row)]
  /\ UNCHANGED <<row, ledger, lock, begun, raced>>

\* The handler's own check fails (409), or the CHECK constraint rejects the
\* save, or the insert finds the variant's row committed by somebody else.
Refuse(w) ==
  /\ tx[w].at = "read"
  /\ IF tx[w].copy = NoRow THEN row # NoRow ELSE ~Accepts(tx[w].op, tx[w].copy, tx[w].n)
  /\ tx' = [tx EXCEPT ![w] = Idle]
  /\ lock' = Unlocked(w)
  /\ UNCHANGED <<row, ledger, begun, raced>>

\* (Slip: the save writes every column of the instance.)
Saved_AllColumns(t) == Update(t.op, t.copy, t.n)

\* The value of the row after save(): the assigned columns from the instance
\* the handler holds, the others as they are in the table.
Saved(t) ==
  LET mine == Update(t.op, t.copy, t.n)
  IN  [c \in Columns |-> IF c \in Assigned(t.op) THEN mine[c] ELSE row[c]]

\* UPDATE of the row that was read: needs the row lock, which a handler that
\* read for update already has.
Save(w) ==
  /\ tx[w].at = "read" /\ tx[w].copy # NoRow /\ tx[w].n # 0
  /\ Accepts(tx[w].op, tx[w].copy, tx[w].n)
  /\ lock \in {w, NoOne}
  /\ lock' = w
  /\ tx' = [tx EXCEPT ![w] = Reached(w, "saved", Saved(tx[w]))]
  /\ raced' = (raced \/ tx[w].copy.physical # row.physical)
  /\ UNCHANGED <<row, ledger, begun>>

\* initializeForVariant without an initial stock leaves a row it found alone.
NothingToSave(w) ==
  /\ tx[w].at = "read" /\ tx[w].copy # NoRow /\ tx[w].n = 0
  /\ tx' = [tx EXCEPT ![w] = Idle]
  /\ UNCHANGED <<row, ledger, lock, begun, raced>>

\* INSERT of a fresh row and the save that follows: the unique key makes it
\* wait for a concurrent insert.
Create(w) ==
  /\ tx[w].at = "read" /\ tx[w].copy = NoRow
  /\ row = NoRow
  /\ lock = NoOne
  /\ lock' = w
  /\ tx' = [tx EXCEPT ![w] = Reached(w, "saved", Update(tx[w].op, EmptyRow, tx[w].n))]
  /\ UNCHANGED <<row, ledger, begun, raced>>

\* The movement is inserted and the transaction commits.
CommitTx(w) ==
  /\ tx[w].at = "saved"
  /\ row' = tx[w].copy
  /\ ledger' = Recorded(ledger, tx[w].op, tx[w].n)
  /\ lock' = NoOne
  /\ tx' = [tx EXCEPT ![w] = Idle]
  /\ UNCHANGED <<begun, raced>>

\* The connection or the process dies, or the caller's transaction fails.
Abort(w) ==
  /\ tx[w].at # "idle"
  /\ tx' = [tx EXCEPT ![w] = Idle]
  /\ lock' = Unlocked(w)
  /\ UNCHANGED <<row, ledger, begun, raced>>

Next == \E w \in Workers :
  \/ Begin(w) \/ ReadForUpdate(w) \/ ReadMissing(w) \/ ReadUnlocked(w)
  \/ Refuse(w) \/ Save(w) \/ NothingToSave(w) \/ Create(w) \/ CommitTx(w) \/ Abort(w)

Spec == Init /\ [][Next]_vars

-----------------------------------------------------------------------------

Atomic == INSTANCE Inventory WITH row <- row, ledger <- ledger

\* The row and the ledger move as the atomic specification says: every
\* operation that locks the row takes effect at its commit as one step against
\* the row committed last, whatever ran since the request began.  The one
\* exception is initializeForVariant on a row it did not lock
\* (inventory.service.js:8-16), and only once such a save has raced.
LockedOperationsAreAtomic ==
  /\ Atomic!Init
  /\ [][\/ [Atomic!Next]_<<row, ledger>>
        \/ raced /\ \E w \in Workers : tx[w].at = "saved" /\ tx[w].op = "INITIALIZE"]_vars

\* The row can be recomputed from the append-only movements: the lifetime
\* counters always, the physical count unless an unlocked save has raced, and
\* at least the reservations that were neither released nor sold are held.
LedgerAccountsForRow ==
  row # NoRow => /\ CountersMatch(row, ledger)
                 /\ ReservedCovers(row, ledger)
                 /\ raced \/ PhysicalMatches(row, ledger)

\* More units are reserved than exist only after a manual correction (or a
\* racing initialisation): no interleaving of shoppers, warehouse and returns
\* oversells the variant (README: "concurrent checkouts cannot oversell").
Oversold(s) == s # NoRow /\ s.reserved > s.physical

OnlyCorrectionsOversell ==
  [][~Oversold(row) /\ Oversold(row') =>
       \E w \in Workers : tx[w].at = "saved" /\ tx[w].op \in {"ADJUST", "INITIALIZE"}]_vars

=============================================================================
