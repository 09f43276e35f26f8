------------------------------- MODULE Finance -------------------------------
(***************************************************************************)
(* expense.service and finance.service: expenses posted under categories,  *)
(* periods that are closed once and for all, and the profit and loss       *)
(* report over a range of days.  A handler reads the expense, asks whether *)
(* its day is in a closed period and writes, each in a statement of its    *)
(* own and without a transaction, so a period may close in between.        *)
(***************************************************************************)
EXTENDS Integers, FiniteSets, FiniteSetsExt

CONSTANTS Days,          \* 1..n: the calendar
          Expenses, Categories, Periods,   \* bounds: ids of the rows of one behaviour
          Clerks,        \* requests in flight at the same time
          Amounts,       \* amounts a request may book
          ExpenseStatus, \* bound: statuses of expenses.status a behaviour uses
          Sales,         \* orders the report finds
          Sale,          \* [Sales -> what the order, its payment and its refund say]
          MaxBookings    \* bound: requests of one behaviour

VARIABLES category,  \* per category: "absent", "active" or "inactive"
          expense,   \* per expense: its row
          period,    \* per period: its row
          clerk,     \* per request: what it is about to write, from what it read
          bookings,  \* requests so far
          books,     \* history, per closed period: what it held when it was closed
          amended    \* history: closed periods written by a request that a closing overtook

financeVars == <<category, expense, period, clerk, bookings, books, amended>>

Expense == [category : Categories, amount : Amounts, date : Days, status : ExpenseStatus]
Period == {r \in [from : Days, to : Days, closed : BOOLEAN] : r.from <= r.to}
NoRow == [date |-> 0]
NotCreated == [closed |-> FALSE]
\* Moments of a day: 0 the first millisecond, 2 the last one.  placed is the order's
\* placedAt and refunded the createdAt of its refund; refunds is 0 without one.
Moment == [day : Days, moment : 0..2]
SaleRow == [placed : Moment, paymentStatus : {"PENDING", "PAID", "REFUNDED"}, cancelled : BOOLEAN,
            refunded : Moment, refunds : Nat,
            subtotal : Nat, discount : Nat, shipping : Nat, cost : Nat]
Entries == SUBSET (Expenses \X Expense)

\* Days follow each other and 0 is none of them; tables are finite.
ASSUME FinanceAssumption ==
  /\ Days \subseteq Nat \ {0} /\ \A first, last \in Days : first..last \subseteq Days
  /\ IsFiniteSet(Sales) /\ IsFiniteSet(Expenses)
  /\ MaxBookings \in Nat
  /\ Amounts \subseteq Nat \ {0} /\ Expenses \subseteq Nat /\ Periods \subseteq Nat
  /\ ExpenseStatus \subseteq {"PENDING", "APPROVED", "PAID", "CANCELLED"}
  /\ Sale \in [Sales -> SaleRow]

Waiting == [does |-> "nothing"]
ClerkState ==
  {Waiting}
    \union [does : {"create"}, fields : Expense, overtaken : BOOLEAN]
    \union [does : {"update"}, id : Expenses, copy : Expense, fields : Expense, overtaken : BOOLEAN]
    \union [does : {"delete"}, id : Expenses, overtaken : BOOLEAN]
    \union [does : {"close"}, id : Periods, overtaken : BOOLEAN]

FinanceTypeOK ==
  /\ category \in [Categories -> {"absent", "active", "inactive"}]
  /\ expense \in [Expenses -> Expense \union {NoRow}]
  /\ period \in [Periods -> Period \union {NotCreated}]
  /\ clerk \in [Clerks -> ClerkState]
  /\ bookings \in 0..MaxBookings
  /\ books \in [Periods -> Entries]
  /\ amended \in SUBSET Periods

\* The migration seeds standard categories, all active; others may follow.
FinanceInit ==
  /\ category \in [Categories -> {"active", "absent"}]
  /\ expense = [e \in Expenses |-> NoRow]
  /\ period = [p \in Periods |-> NotCreated]
  /\ clerk = [k \in Clerks |-> Waiting]
  /\ bookings = 0
  /\ books = [p \in Periods |-> {}]
  /\ amended = {}

Covers(p, day) == period[p] # NotCreated /\ period[p].from <= day /\ day <= period[p].to
Closed(p) == period[p].closed

\* (Slip: the last day of a period is open.)
IsDateInClosedPeriod_LastDayOpen(day) ==
  \E p \in Periods : Closed(p) /\ Covers(p, day) /\ day < period[p].to

IsDateInClosedPeriod(day) == \E p \in Periods : Closed(p) /\ Covers(p, day)

Held(rows, p) == {<<e, rows[e]>> : e \in {x \in Expenses : rows[x] # NoRow /\ Covers(p, rows[x].date)}}

\* Rows take the next free id; that of an expense which was deleted is free again, nobody
\* looks a deleted one up.
NextIdOf(free) == {i \in free : \A j \in free : i <= j}

ledger == <<category, expense, period>>

-----------------------------------------------------------------------------
(* expense.service                                                         *)

Takes(k, request) ==
  /\ clerk[k] = Waiting
  /\ bookings < MaxBookings
  /\ clerk' = [clerk EXCEPT ![k] = request]
  /\ bookings' = bookings + 1
  /\ UNCHANGED <<ledger, books, amended>>

\* The category is active and the day open, both as read now.
BeginCreateExpense(k, fields) ==
  /\ category[fields.category] = "active"
  /\ ~IsDateInClosedPeriod(fields.date)
  /\ Takes(k, [does |-> "create", fields |-> fields, overtaken |-> FALSE])

\* Neither the day of the expense nor the day it moves to is closed; a category that is
\* no longer active is accepted here.
BeginUpdateExpense(k, e, fields) ==
  /\ expense[e] # NoRow
  /\ ~IsDateInClosedPeriod(expense[e].date)
  /\ fields.date # expense[e].date => ~IsDateInClosedPeriod(fields.date)
  /\ category[fields.category] # "absent"
  /\ Takes(k, [does |-> "update", id |-> e, copy |-> expense[e], fields |-> fields, overtaken |-> FALSE])

BeginDeleteExpense(k, e) ==
  /\ expense[e] # NoRow
  /\ ~IsDateInClosedPeriod(expense[e].date)
  /\ Takes(k, [does |-> "delete", id |-> e, overtaken |-> FALSE])

\* What the request writes; the closed periods it reaches count as amended if one was
\* closed while it was under way.
Writes(k, rows) ==
  /\ expense' = rows
  /\ clerk' = [clerk EXCEPT ![k] = Waiting]
  /\ amended' = amended \union
       {p \in Periods : clerk[k].overtaken /\ Closed(p) /\ Held(rows, p) # Held(expense, p)}
  /\ UNCHANGED <<category, period, bookings, books>>

PostExpense(k) ==
  /\ clerk[k].does = "create"
  /\ \E e \in NextIdOf({x \in Expenses : expense[x] = NoRow}) : Writes(k, [expense EXCEPT ![e] = clerk[k].fields])

\* Columns that differ from the copy; a row deleted in between stays deleted.
AmendExpense(k) ==
  LET c == clerk[k].copy
      f == clerk[k].fields
      row == expense[clerk[k].id]
  IN
  /\ clerk[k].does = "update"
  /\ Writes(k, IF row = NoRow THEN expense
               ELSE [expense EXCEPT ![clerk[k].id] =
                       [col \in DOMAIN row |-> IF f[col] # c[col] THEN f[col] ELSE row[col]]])

DropExpense(k) ==
  /\ clerk[k].does = "delete"
  /\ Writes(k, [expense EXCEPT ![clerk[k].id] = NoRow])

CreateCategory(c) ==
  /\ category[c] = "absent"
  /\ category' = [category EXCEPT ![c] = "active"]
  /\ UNCHANGED <<expense, period, clerk, bookings, books, amended>>

UpdateCategory(c) ==
  /\ category[c] # "absent"
  /\ category' = [category EXCEPT ![c] = IF @ = "active" THEN "inactive" ELSE "active"]
  /\ UNCHANGED <<expense, period, clerk, bookings, books, amended>>

-----------------------------------------------------------------------------
(* finance.service: periods                                                *)

\* Periods may overlap; a new one is open.
CreatePeriod(p, from, to) ==
  /\ p \in NextIdOf({q \in Periods : period[q] = NotCreated})
  /\ from <= to
  /\ period' = [period EXCEPT ![p] = [from |-> from, to |-> to, closed |-> FALSE]]
  /\ UNCHANGED <<category, expense, clerk, bookings, books, amended>>

BeginClosePeriod(k, p) ==
  /\ period[p] # NotCreated /\ ~Closed(p)
  /\ Takes(k, [does |-> "close", id |-> p, overtaken |-> FALSE])

ClosePeriod(k) ==
  LET p == clerk[k].id IN
  /\ clerk[k].does = "close"
  /\ period' = [period EXCEPT ![p].closed = TRUE]
  /\ books' = IF Closed(p) THEN books ELSE [books EXCEPT ![p] = Held(expense, p)]
  /\ clerk' = [j \in Clerks |-> IF j = k \/ clerk[j] = Waiting THEN Waiting
                                ELSE [clerk[j] EXCEPT !.overtaken = TRUE]]
  /\ UNCHANGED <<category, expense, bookings, amended>>

RequestDies(k) ==
  /\ clerk[k] # Waiting
  /\ clerk' = [clerk EXCEPT ![k] = Waiting]
  /\ UNCHANGED <<ledger, bookings, books, amended>>

-----------------------------------------------------------------------------
(* finance.service: the report                                             *)

DayStart(d) == [day |-> d, moment |-> 0]

\* (Slip: the end of the range is the start of its last day.)
DayEnd_Midnight(d) == [day |-> d, moment |-> 0]

DayEnd(d) == [day |-> d, moment |-> 2]

NotAfter(x, y) == x.day < y.day \/ (x.day = y.day /\ x.moment <= y.moment)
Between(x, from, to) == NotAfter(DayStart(from), x) /\ NotAfter(x, DayEnd(to))

PaidSales(from, to) == {s \in Sales : Sale[s].paymentStatus # "PENDING" /\ Between(Sale[s].placed, from, to)}

TotalOf(S, f(_)) == MapThenSumSet(f, S)

\* getRevenueSummary: what was paid and ordered in the range, less refunds made in it.
RevenueSummary == [from \in Days |-> [to \in Days |->
  LET paid == PaidSales(from, to)
      refunded == {s \in Sales : Between(Sale[s].refunded, from, to)}
  IN [grossSubtotal |-> TotalOf(paid, LAMBDA s : Sale[s].subtotal),
      totalDiscounts |-> TotalOf(paid, LAMBDA s : Sale[s].discount),
      totalShipping |-> TotalOf(paid, LAMBDA s : Sale[s].shipping),
      totalRefunds |-> TotalOf(refunded, LAMBDA s : Sale[s].refunds)]]]

\* getCOGSSummary: a cancelled order costs nothing, its goods are back.
TotalCOGS == [from \in Days |-> [to \in Days |->
  TotalOf({s \in PaidSales(from, to) : ~Sale[s].cancelled}, LAMBDA s : Sale[s].cost)]]

\* getExpensesSummary: expense days are dates, not moments.
OperatingExpenses(from, to) ==
  TotalOf({e \in Expenses : expense[e] # NoRow /\ expense[e].status \in {"PAID", "APPROVED"}
                            /\ from <= expense[e].date /\ expense[e].date <= to},
          LAMBDA e : expense[e].amount)

\* getPnLReport, in minor units: nothing is left to round.
PnLReport(from, to) ==
  LET revenue == RevenueSummary[from][to]
      netSales == revenue.grossSubtotal - revenue.totalDiscounts - revenue.totalRefunds
      grossProfit == netSales - TotalCOGS[from][to]
  IN [netSales |-> netSales, netRevenue |-> netSales + revenue.totalShipping, grossProfit |-> grossProfit,
      netProfit |-> grossProfit - OperatingExpenses(from, to)]

-----------------------------------------------------------------------------

\* expense.controller and finance.controller: what is asked for.
ExpenseRequest(k) ==
  \/ \E fields \in Expense :
       \/ BeginCreateExpense(k, fields)
       \/ \E e \in Expenses : BeginUpdateExpense(k, e, fields)
  \/ \E e \in Expenses : BeginDeleteExpense(k, e)

CloseRequest(k) == \E p \in Periods : BeginClosePeriod(k, p)

FinanceNext ==
  \/ \E k \in Clerks :
       \/ ExpenseRequest(k) \/ CloseRequest(k)
       \/ PostExpense(k) \/ AmendExpense(k) \/ DropExpense(k) \/ ClosePeriod(k) \/ RequestDies(k)
  \/ \E c \in Categories : CreateCategory(c) \/ UpdateCategory(c)
  \/ \E p \in Periods, from, to \in Days : CreatePeriod(p, from, to)

FinanceSpec == FinanceInit /\ [][FinanceNext]_financeVars

-----------------------------------------------------------------------------

\* A closed period keeps the expenses it was closed with: none is added to it, taken
\* from it or changed in it, by a request that names its days directly or moves an
\* expense across them.  The exception is a request that asked whether the day was open
\* before some period was closed and wrote afterwards (expense.service.js:83-202).
ClosedBooksAreKept ==
  \A p \in Periods : Closed(p) /\ p \notin amended => Held(expense, p) = books[p]

\* The reports of two adjacent ranges add up to the report of the whole: every sale,
\* refund and expense belongs to exactly one of them, orders and refunds of the first or
\* last millisecond of a day included (finance.repository.js:6-24, 51-85).
ReportsAddUp ==
  \A from, mid, to \in Days : from <= mid /\ mid < to =>
    \A line \in {"netSales", "netRevenue", "grossProfit", "netProfit"} :
      PnLReport(from, to)[line] = PnLReport(from, mid)[line] + PnLReport(mid + 1, to)[line]
=============================================================================
