--------------------------- MODULE Rewards_proofs ---------------------------
(***************************************************************************)
(* Proofs about store credit: rewards are paid with their credits or not   *)
(* at all, the first reward closes a referral to later validations, and    *)
(* the wallet is never overdrawn, for any number of requests and rows.     *)
(***************************************************************************)
EXTENDS Rewards, SumLemmas, SequenceTheorems, FiniteSetTheorems, TLAPS

-----------------------------------------------------------------------------
\* The ledger: what a row added to it, or a credit that expires, does to its sums.

Entries(l) == [i \in DOMAIN l |-> l[i].amount]
Total(l) == SumOver(Entries(l), DOMAIN l)
CreditsIn(l, type, x) == {i \in DOMAIN l : l[i].type = type /\ l[i].about = {x}}

LEMMA RowFacts ==
  ASSUME NEW row \in Rows
  PROVE  row.amount \in Int /\ (row.amount > 0 => [row EXCEPT !.live = FALSE] \in Rows)
<1>1. Amounts \subseteq Int /\ REFERRAL_REWARD_AMOUNT \in Int /\ \A a \in Amounts : -a \in Int /\ -a < 0
  BY RewardsAssumption DEF Amounts, REFERRAL_REWARD_AMOUNT
<1>2. CASE row \in [type : {"DEBIT"}, amount : {-a : a \in Amounts}, about : {{}}, live : {TRUE}]
  BY <1>1, <1>2
<1>3. CASE row \in [type : {"REFERRAL_CREDIT", "UGC_CREDIT", "STAFF_CREDIT"}, amount : Amounts \union {REFERRAL_REWARD_AMOUNT},
                    about : SUBSET (Referees \union Submissions), live : BOOLEAN]
  BY <1>1, <1>3 DEF Rows
<1> QED
  BY <1>2, <1>3 DEF Rows

LEMMA LedgerFacts ==
  ASSUME NEW l \in Seq(Rows)
  PROVE  /\ Len(l) \in Nat /\ DOMAIN l = 1..Len(l) /\ IsFiniteSet(DOMAIN l)
         /\ \A i \in DOMAIN l : l[i] \in Rows /\ l[i].amount \in Int /\ Entries(l)[i] = l[i].amount
         /\ Total(l) \in Int
<1>1. Len(l) \in Nat /\ DOMAIN l = 1..Len(l) /\ \A i \in DOMAIN l : l[i] \in Rows
  BY LenProperties, ElementOfSeq
<1>2. IsFiniteSet(DOMAIN l)
  BY <1>1, FS_Interval
<1>3. \A i \in DOMAIN l : l[i].amount \in Int /\ Entries(l)[i] = l[i].amount
  BY <1>1, RowFacts DEF Entries
<1>4. Total(l) \in Int
  BY <1>2, <1>3, SumType DEF Total
<1> QED
  BY <1>1, <1>2, <1>3, <1>4

\* m is the ledger l with one more row, its n-th.
Extended(m, l, row, n) == m = Append(l, row) /\ n = Len(l) + 1

LEMMA RowAdded ==
  ASSUME NEW l \in Seq(Rows), NEW row \in Rows, NEW m, NEW n, Extended(m, l, row, n)
  PROVE  /\ m \in Seq(Rows) /\ Len(m) = n /\ DOMAIN m = (DOMAIN l) \union {n} /\ n \notin DOMAIN l
         /\ Total(m) = Total(l) + row.amount
<1>1. m \in Seq(Rows) /\ Len(m) = n /\ m[n] = row /\ \A i \in 1..Len(l) : m[i] = l[i]
  BY AppendProperties DEF Extended
<1>2. Len(l) \in Nat /\ DOMAIN l = 1..Len(l) /\ DOMAIN m = 1..n /\ n = Len(l) + 1
  BY <1>1, LedgerFacts DEF Extended
<1>3. DOMAIN m = (DOMAIN l) \union {n} /\ n \notin DOMAIN l
  BY <1>2
<1>4. \A i \in DOMAIN l : m[i] = l[i]
  BY <1>1, <1>2
<1>5. Total(m) = Entries(m)[n] + SumOver(Entries(m), (DOMAIN m) \ {n}) /\ Entries(m)[n] = m[n].amount
  <2>1. IsFiniteSet(DOMAIN m) /\ \A i \in DOMAIN m : Entries(m)[i] \in Int /\ Entries(m)[i] = m[i].amount
    BY <1>1, LedgerFacts
  <2>2. n \in DOMAIN m
    BY <1>3
  <2>3. SumOver(Entries(m), DOMAIN m) = Entries(m)[n] + SumOver(Entries(m), (DOMAIN m) \ {n})
    <3> DEFINE S == DOMAIN m
               g == Entries(m)
    <3>1. IsFiniteSet(S) /\ (\A i \in S : g[i] \in Int) /\ n \in S
      BY <2>1, <2>2
    <3> HIDE DEF S, g
    <3>2. SumOver(g, S) = g[n] + SumOver(g, S \ {n})
      BY <3>1, SumTakesOut
    <3> QED
      BY <3>2 DEF S, g
  <2> QED
    BY <2>1, <2>2, <2>3 DEF Total
<1>6. (DOMAIN m) \ {n} = DOMAIN l
  BY <1>3
<1>7. SumOver(Entries(m), DOMAIN l) = Total(l)
  <2>1. \A i \in DOMAIN l : Entries(m)[i] = Entries(l)[i]
    BY <1>1, <1>3, <1>4, LedgerFacts
  <2> QED
    BY <2>1, LedgerFacts, SumSame DEF Total
<1>8. Entries(m)[n] = row.amount
  BY <1>1, <1>5
<1>9. row.amount \in Int /\ Total(l) \in Int
  BY LedgerFacts, RowFacts
<1> QED
  BY <1>1, <1>3, <1>4, <1>5, <1>6, <1>7, <1>8, <1>9

LEMMA LastRow ==
  ASSUME NEW l \in Seq(Rows), NEW row \in Rows, NEW m, NEW n, Extended(m, l, row, n)
  PROVE  m[n] = row /\ \A i \in DOMAIN l : m[i] = l[i]
<1>1. m[n] = row /\ \A i \in 1..Len(l) : m[i] = l[i]
  BY AppendProperties DEF Extended
<1> QED
  BY <1>1, LedgerFacts

LEMMA CreditAdded ==
  ASSUME NEW l \in Seq(Rows), NEW row \in Rows, NEW m, NEW n, Extended(m, l, row, n), NEW type, NEW x
  PROVE  /\ row.type = type /\ row.about = {x} => CreditsIn(m, type, x) = CreditsIn(l, type, x) \union {n}
         /\ ~(row.type = type /\ row.about = {x}) => CreditsIn(m, type, x) = CreditsIn(l, type, x)
         /\ n \notin CreditsIn(l, type, x) /\ IsFiniteSet(CreditsIn(l, type, x))
<1>1. DOMAIN m = (DOMAIN l) \union {n} /\ n \notin DOMAIN l /\ m[n] = row /\ \A i \in DOMAIN l : m[i] = l[i]
  <2>1. DOMAIN m = (DOMAIN l) \union {n} /\ n \notin DOMAIN l
    BY RowAdded
  <2>2. m[n] = row /\ \A i \in DOMAIN l : m[i] = l[i]
    BY LastRow
  <2> QED
    BY <2>1, <2>2
<1>2. CreditsIn(l, type, x) \in SUBSET (DOMAIN l)
  BY DEF CreditsIn
<1>3. IsFiniteSet(CreditsIn(l, type, x))
  BY <1>2, LedgerFacts, FS_Subset
<1>4. CASE row.type = type /\ row.about = {x}
  BY <1>1, <1>3, <1>4 DEF CreditsIn
<1>5. CASE ~(row.type = type /\ row.about = {x})
  BY <1>1, <1>3, <1>5 DEF CreditsIn
<1> QED
  BY <1>4, <1>5

\* m is the ledger l after its i-th row expired.
Ended(m, l, i) == m = [l EXCEPT ![i].live = FALSE]

LEMMA CreditEnds ==
  ASSUME NEW l \in Seq(Rows), NEW i \in DOMAIN l, l[i].amount > 0, NEW m, Ended(m, l, i)
  PROVE  /\ m \in Seq(Rows) /\ Len(m) = Len(l) /\ DOMAIN m = DOMAIN l /\ Total(m) = Total(l)
         /\ \A j \in DOMAIN l : m[j].type = l[j].type /\ m[j].about = l[j].about /\ m[j].amount = l[j].amount
<1> DEFINE row == [l[i] EXCEPT !.live = FALSE]
<1>1. l[i] \in Rows
  BY LedgerFacts
<1>2. row \in Rows /\ row.type = l[i].type /\ row.about = l[i].about /\ row.amount = l[i].amount
  <2>1. row \in Rows
    BY <1>1, RowFacts
  <2> QED
    BY <1>1, <2>1 DEF Rows
<1>3. m = [l EXCEPT ![i] = row]
  BY Zenon DEF Ended
<1> HIDE DEF row
<1>4. /\ m \in Seq(Rows) /\ Len(m) = Len(l) /\ DOMAIN m = DOMAIN l
      /\ \A j \in DOMAIN l : m[j] = IF j = i THEN row ELSE l[j]
  <2>1. i \in 1..Len(l) /\ DOMAIN l = 1..Len(l)
    BY LedgerFacts
  <2>2. /\ [l EXCEPT ![i] = row] \in Seq(Rows) /\ Len([l EXCEPT ![i] = row]) = Len(l)
        /\ \A j \in 1..Len(l) : [l EXCEPT ![i] = row][j] = IF j = i THEN row ELSE l[j]
    BY <1>2, <2>1, ExceptSeq, Zenon
  <2> QED
    BY <1>3, <2>1, <2>2
<1>5. \A j \in DOMAIN l : m[j].type = l[j].type /\ m[j].about = l[j].about /\ m[j].amount = l[j].amount
  BY <1>2, <1>4
<1>6. \A j \in DOMAIN l : Entries(m)[j] = Entries(l)[j]
  BY <1>4, <1>5, LedgerFacts
<1>7. Total(m) = Total(l)
  <2>1. IsFiniteSet(DOMAIN l)
    BY LedgerFacts
  <2>2. SumOver(Entries(m), DOMAIN l) = SumOver(Entries(l), DOMAIN l)
    BY <1>6, <2>1, SumSame
  <2> QED
    BY <1>4, <2>2 DEF Total
<1> QED
  BY <1>4, <1>5, <1>7

\* The sums of the module are the sums of the lemmas.
LEMMA SumOfEntries ==
  ASSUME NEW l \in Seq(Rows), NEW S \in SUBSET (DOMAIN l)
  PROVE  MapThenSumSet(LAMBDA i : l[i].amount, S) = SumOver(Entries(l), S)
<1> DEFINE g == Entries(l)
           Body(f, s) == IF s = {} THEN 0
                         ELSE l[CHOOSE x \in s : TRUE].amount + f[s \ {CHOOSE x \in s : TRUE}]
           Sums(f) == f = [s \in SUBSET S |-> Body(f, s)]
           F == CHOOSE f : Sums(f)
<1>1. MapThenSumSet(LAMBDA i : l[i].amount, S) = F[S]
  BY Zenon DEF MapThenSumSet, MapThenFoldSet
<1>2. ASSUME NEW f PROVE Sums(f) <=> Folding(f, g, S)
  <2>1. ASSUME NEW s \in SUBSET S
        PROVE  Body(f, s) = IF s = {} THEN 0 ELSE g[Pick(s)] + f[s \ {Pick(s)}]
    <3>1. CASE s = {}
      BY <3>1
    <3>2. CASE s # {}
      <4>1. Pick(s) \in DOMAIN l
        BY <3>2, Picked
      <4>2. g[Pick(s)] = l[Pick(s)].amount
        BY <4>1, LedgerFacts
      <4> QED
        BY <3>2, <4>2 DEF Pick
    <3> QED
      BY <3>1, <3>2
  <2> HIDE DEF Body
  <2>2. [s \in SUBSET S |-> Body(f, s)] = [s \in SUBSET S |-> IF s = {} THEN 0 ELSE g[Pick(s)] + f[s \ {Pick(s)}]]
    BY <2>1
  <2> QED
    BY <2>2, Zenon DEF Folding
<1>3. IsFiniteSet(S)
  BY LedgerFacts, FS_Subset
<1> HIDE DEF Sums, g
<1>4. \E f : Folding(f, g, S)
  BY <1>3, FoldingExists
<1>5. Folding(F, g, S)
  BY <1>2, <1>4
<1>6. Folding(CHOOSE f : Folding(f, g, S), g, S)
  BY <1>4
<1>7. F[S] = SumOver(g, S)
  <2> DEFINE G == CHOOSE f : Folding(f, g, S)
  <2> HIDE DEF F, G
  <2>1. F[S] = G[S]
    BY <1>3, <1>5, <1>6, FoldingUnique DEF G
  <2> QED
    BY <2>1 DEF SumOver, G
<1> QED
  BY <1>1, <1>7 DEF g

\* The balance is not more than the whole ledger: what it leaves out are credits.
LEMMA BalanceIsCovered ==
  ASSUME ledger \in Seq(Rows)
  PROVE  SumBalance \in Int /\ SumBalance <= Total(ledger)
<1>1. Counted \in SUBSET (DOMAIN ledger)
  BY DEF Counted
<1>2. SumBalance = SumOver(Entries(ledger), Counted)
  BY <1>1, SumOfEntries, Zenon DEF SumBalance
<1>3. \A i \in (DOMAIN ledger) \ Counted : Entries(ledger)[i] >= 0
  BY LedgerFacts DEF Counted
<1>4. /\ IsFiniteSet(DOMAIN ledger) /\ IsFiniteSet(Counted)
      /\ \A i \in DOMAIN ledger : Entries(ledger)[i] \in Int
  BY <1>1, LedgerFacts, FS_Subset
<1>5. SumOver(Entries(ledger), Counted) <= Total(ledger)
  BY <1>1, <1>3, <1>4, SumOfPart DEF Total
<1>6. SumOver(Entries(ledger), Counted) \in Int
  BY <1>1, <1>4, SumType
<1> QED
  BY <1>2, <1>5, <1>6

-----------------------------------------------------------------------------
\* Requests: the wallet's row admits one at a time, and what they pay stays covered.

Busy == {v \in Workers : proc[v].at # "idle"}

\* Every request in flight has room for the row it may add.
Room == IsFiniteSet(Busy) /\ Len(ledger) + Cardinality(Busy) <= MaxRows

OneHolder == \A v, w \in Workers : HoldsWallet(v) /\ HoldsWallet(w) => v = w

\* The job of a request at a step; a rejection ends before it gets to the wallet.
OnItsWay(w) ==
  /\ proc[w].at = "read" => proc[w].job.op = "review"
  /\ proc[w].at = "covered" => proc[w].job.op = "debit"
  /\ proc[w].at \in {"find", "create", "locked"} /\ proc[w].job.op = "review" => proc[w].job.decision = "APPROVED"

\* What was checked under the lock stays covered, even when credits expire.
Enough(w) == proc[w].at = "covered" => proc[w].job.amount <= Total(ledger)

\* The validations still in flight may all pay: with those that have paid they are
\* not more than the rivals of the first one.
Closed(r) ==
  /\ rivals[r] = {} <=> issued[r] = 0
  /\ issued[r] > 0 => /\ IsFiniteSet(rivals[r])
                       /\ issued[r] + Cardinality(Validating(r)) <= Cardinality(rivals[r])

RewardsInv ==
  /\ TypeOK /\ Room /\ OneHolder
  /\ \A w \in Workers : OnItsWay(w) /\ Enough(w)
  /\ \A r \in Referees : Closed(r)
  /\ Total(ledger) >= 0
  /\ RewardsArePaid /\ ReviewsAgree

Steps == {"read", "find", "create", "locked", "covered"}

LEMMA RequestFacts ==
  ASSUME NEW q \in Requests
  PROVE  /\ q.at # "idle" => q.at \in Steps /\ q.job \in Jobs /\ q = [at |-> q.at, job |-> q.job]
         /\ q.at = "idle" => q = Idle
         /\ Idle.at = "idle" /\ Idle \in Requests
BY DEF Requests, Idle, Steps

LEMMA JobFacts ==
  ASSUME NEW j \in Jobs
  PROVE  /\ j.op \in {"validate", "review", "credit", "debit"}
         /\ j.op = "validate" => j.referee \in Referees
         /\ j.op = "review" => /\ j.post \in Submissions /\ j.decision \in {"APPROVED", "REJECTED"}
                               /\ j.amount \in Amounts /\ j.read \in {"PENDING", "REJECTED"}
         /\ j.op \in {"credit", "debit"} => j.amount \in Amounts
BY DEF Jobs

LEMMA AmountFacts ==
  ASSUME NEW a \in Amounts
  PROVE  a \in Nat /\ a > 0 /\ -a \in Int
BY RewardsAssumption DEF Amounts

LEMMA Goes ==
  ASSUME TypeOK, NEW w \in Workers, proc[w].at \in Steps, NEW to \in Steps, proc' = [proc EXCEPT ![w].at = to]
  PROVE  /\ proc' \in [Workers -> Requests] /\ proc'[w].at = to /\ proc'[w].job = proc[w].job
         /\ \A v \in Workers : v # w => proc'[v] = proc[v]
         /\ Busy' = Busy /\ \A r : Validating(r)' = Validating(r)
<1> DEFINE q == [proc[w] EXCEPT !.at = to]
<1>1. proc[w] \in Requests /\ proc[w].at # "idle"
  BY DEF TypeOK, Steps
<1>2. proc[w].job \in Jobs /\ proc[w] = [at |-> proc[w].at, job |-> proc[w].job]
  BY <1>1, RequestFacts
<1>3. q = [at |-> to, job |-> proc[w].job]
  <2>1. \A a, j : [[at |-> a, job |-> j] EXCEPT !.at = to] = [at |-> to, job |-> j]
    OBVIOUS
  <2>2. PICK a, j : a = proc[w].at /\ j = proc[w].job
    OBVIOUS
  <2>3. proc[w] = [at |-> a, job |-> j]
    BY <1>2, <2>2
  <2> QED
    BY <2>1, <2>2, <2>3, Zenon
<1>4. q \in Requests /\ q.at = to /\ q.job = proc[w].job
  BY <1>2, <1>3 DEF Requests, Steps
<1>5. proc' = [proc EXCEPT ![w] = q]
  BY Zenon
<1> HIDE DEF q
<1>6. proc' \in [Workers -> Requests] /\ proc'[w] = q /\ \A v \in Workers : v # w => proc'[v] = proc[v]
  BY <1>4, <1>5 DEF TypeOK
<1>7. to # "idle"
  BY DEF Steps
<1>8. Busy' = Busy
  BY <1>1, <1>4, <1>6, <1>7 DEF Busy
<1>9. ASSUME NEW r PROVE Validating(r)' = Validating(r)
  BY <1>1, <1>4, <1>6, <1>7 DEF Validating
<1> QED
  BY <1>4, <1>6, <1>8, <1>9

LEMMA Ends ==
  ASSUME TypeOK, Room, NEW w \in Workers, proc[w].at # "idle", proc' = [proc EXCEPT ![w] = Idle]
  PROVE  /\ proc' \in [Workers -> Requests] /\ proc'[w] = Idle /\ proc'[w].at = "idle"
         /\ \A v \in Workers : v # w => proc'[v] = proc[v]
         /\ IsFiniteSet(Busy') /\ Cardinality(Busy') + 1 = Cardinality(Busy)
         /\ Cardinality(Busy) \in Nat /\ Cardinality(Busy') \in Nat
         /\ \A r : Validating(r)' = Validating(r) \ {w}
<1>1. Idle \in Requests /\ Idle.at = "idle"
  BY DEF Requests, Idle
<1>2. proc' \in [Workers -> Requests] /\ proc'[w] = Idle /\ \A v \in Workers : v # w => proc'[v] = proc[v]
  BY <1>1 DEF TypeOK
<1>3. Busy' = Busy \ {w} /\ w \in Busy
  BY <1>1, <1>2 DEF Busy
<1>4. IsFiniteSet(Busy') /\ Cardinality(Busy') = Cardinality(Busy) - 1
  BY <1>3, FS_RemoveElement DEF Room
<1>5. Cardinality(Busy) \in Nat /\ Cardinality(Busy') \in Nat
  BY <1>4, FS_CardinalityType DEF Room
<1>6. ASSUME NEW r PROVE Validating(r)' = Validating(r) \ {w}
  BY <1>1, <1>2 DEF Validating
<1> QED
  BY <1>1, <1>2, <1>4, <1>5, <1>6

LEMMA Starts ==
  ASSUME TypeOK, Room, NEW w \in Workers, NEW at \in Steps, NEW job \in Jobs, Begin(w, at, job)
  PROVE  /\ proc[w].at = "idle" /\ proc' \in [Workers -> Requests]
         /\ proc'[w].at = at /\ proc'[w].job = job /\ \A v \in Workers : v # w => proc'[v] = proc[v]
         /\ IsFiniteSet(Busy') /\ Len(ledger) + Cardinality(Busy') <= MaxRows
<1> DEFINE q == [at |-> at, job |-> job]
<1>1. q \in Requests /\ q.at = at /\ q.job = job /\ at # "idle"
  BY DEF Requests, Steps
<1>2. proc[w].at = "idle" /\ proc' = [proc EXCEPT ![w] = q] /\ Len(ledger) + Cardinality(Busy) < MaxRows
  BY DEF Begin, Busy
<1> HIDE DEF q
<1>3. proc' \in [Workers -> Requests] /\ proc'[w] = q /\ \A v \in Workers : v # w => proc'[v] = proc[v]
  BY <1>1, <1>2 DEF TypeOK
<1>4. Busy' = Busy \union {w} /\ w \notin Busy
  BY <1>1, <1>2, <1>3 DEF Busy
<1>5. IsFiniteSet(Busy') /\ Cardinality(Busy') = Cardinality(Busy) + 1
  BY <1>4, FS_AddElement DEF Room
<1>6. Cardinality(Busy) \in Nat /\ Len(ledger) \in Nat /\ MaxRows \in Nat
  BY FS_CardinalityType, LedgerFacts, RewardsAssumption DEF Room, TypeOK
<1>7. Len(ledger) + Cardinality(Busy') <= MaxRows
  BY <1>2, <1>5, <1>6
<1> QED
  BY <1>1, <1>2, <1>3, <1>5, <1>7

LEMMA ValidatingFacts ==
  ASSUME RewardsInv, NEW r \in Referees
  PROVE  IsFiniteSet(Validating(r)) /\ Cardinality(Validating(r)) \in Nat
<1>1. Validating(r) \subseteq Busy /\ IsFiniteSet(Busy)
  BY DEF RewardsInv, Room, Validating, Busy
<1> QED
  BY <1>1, FS_Subset, FS_CardinalityType

\* A step that pays nothing for a referral and lets no validation of it begin.
LEMMA ClosedKept ==
  ASSUME RewardsInv, NEW r \in Referees, issued'[r] = issued[r], rivals'[r] = rivals[r],
         Validating(r)' \subseteq Validating(r)
  PROVE  Closed(r)'
<1>1. /\ IsFiniteSet(Validating(r)) /\ Cardinality(Validating(r)) \in Nat
      /\ IsFiniteSet(Validating(r)') /\ Cardinality(Validating(r)') \in Nat
      /\ Cardinality(Validating(r)') <= Cardinality(Validating(r))
  BY ValidatingFacts, FS_Subset, FS_CardinalityType
<1>2. issued[r] \in Nat /\ Closed(r)
  BY DEF RewardsInv, TypeOK
<1>3. issued[r] > 0 => Cardinality(rivals[r]) \in Nat
  BY <1>2, FS_CardinalityType DEF Closed
<1> QED
  BY <1>1, <1>2, <1>3 DEF Closed

\* A request that goes on: only its step changes.
LEMMA GoingKeeps ==
  ASSUME RewardsInv, NEW w \in Workers, proc[w].at \in Steps, NEW to \in Steps, proc' = [proc EXCEPT ![w].at = to],
         UNCHANGED <<opened, ledger, orders, issued, submission, rivals, faults>>,
         to = "locked" => (\A v \in Workers : ~HoldsWallet(v)),
         to = "covered" => proc[w].at = "locked" /\ proc[w].job.op = "debit" /\ proc[w].job.amount <= Total(ledger),
         to # "read",
         proc[w].at \in {"find", "create", "locked"}
           \/ (proc[w].at = "read" /\ proc[w].job.op = "review" /\ proc[w].job.decision = "APPROVED")
  PROVE  RewardsInv'
<1>1. /\ proc' \in [Workers -> Requests] /\ proc'[w].at = to /\ proc'[w].job = proc[w].job
      /\ \A v \in Workers : v # w => proc'[v] = proc[v]
      /\ Busy' = Busy /\ \A r : Validating(r)' = Validating(r)
  BY Goes DEF RewardsInv
<1>2. TypeOK'
  BY <1>1 DEF RewardsInv, TypeOK, orders
<1>3. Room'
  BY <1>1 DEF RewardsInv, Room
<1>4. OneHolder'
  <2> SUFFICES ASSUME NEW u \in Workers, NEW v \in Workers, HoldsWallet(u)', HoldsWallet(v)' PROVE u = v
    BY DEF OneHolder
  <2>1. \A x \in Workers : x # w => (HoldsWallet(x)' <=> HoldsWallet(x))
    BY <1>1 DEF HoldsWallet
  <2>2. HoldsWallet(w)' => to \in {"locked", "covered"}
    BY <1>1 DEF HoldsWallet
  <2>3. to = "covered" => HoldsWallet(w)
    BY DEF HoldsWallet
  <2> QED
    BY <2>1, <2>2, <2>3 DEF RewardsInv, OneHolder
<1>5. ASSUME NEW v \in Workers PROVE OnItsWay(v)' /\ Enough(v)'
  <2>1. CASE v = w
    BY <1>1, <2>1 DEF RewardsInv, OnItsWay, Enough, Steps
  <2>2. CASE v # w
    BY <1>1, <2>2 DEF RewardsInv, OnItsWay, Enough
  <2> QED
    BY <2>1, <2>2
<1>6. \A r \in Referees : Closed(r)'
  BY <1>1, ClosedKept
<1>7. (Total(ledger) >= 0)' /\ RewardsArePaid' /\ ReviewsAgree'
  BY DEF RewardsInv, RewardsArePaid, CreditsFor, ReviewsAgree
<1> QED
  BY <1>2, <1>3, <1>4, <1>5, <1>6, <1>7 DEF RewardsInv

\* A request that ends without a payment.
LEMMA EndingKeeps ==
  ASSUME RewardsInv, NEW w \in Workers, proc[w].at # "idle", proc' = [proc EXCEPT ![w] = Idle],
         UNCHANGED <<opened, ledger, orders, issued, rivals>>,
         faults' \in 0..MaxFaults, submission' \in [Submissions -> Submission],
         \A s \in Submissions : submission'[s].reward = submission[s].reward,
         ReviewsAgree'
  PROVE  RewardsInv'
<1>1. /\ proc' \in [Workers -> Requests] /\ proc'[w] = Idle /\ proc'[w].at = "idle"
      /\ \A v \in Workers : v # w => proc'[v] = proc[v]
      /\ IsFiniteSet(Busy') /\ Cardinality(Busy') + 1 = Cardinality(Busy)
      /\ Cardinality(Busy) \in Nat /\ Cardinality(Busy') \in Nat
      /\ \A r : Validating(r)' = Validating(r) \ {w}
  BY Ends DEF RewardsInv
<1>2. TypeOK'
  BY <1>1 DEF RewardsInv, TypeOK, orders
<1>3. Room'
  <2>1. Len(ledger) \in Nat /\ MaxRows \in Nat
    BY LedgerFacts, RewardsAssumption DEF RewardsInv, TypeOK
  <2> QED
    BY <1>1, <2>1 DEF RewardsInv, Room
<1>4. OneHolder'
  BY <1>1 DEF RewardsInv, OneHolder, HoldsWallet
<1>5. ASSUME NEW v \in Workers PROVE OnItsWay(v)' /\ Enough(v)'
  <2>1. CASE v = w
    BY <1>1, <2>1 DEF OnItsWay, Enough
  <2>2. CASE v # w
    BY <1>1, <2>2 DEF RewardsInv, OnItsWay, Enough
  <2> QED
    BY <2>1, <2>2
<1>6. \A r \in Referees : Closed(r)'
  BY <1>1, ClosedKept
<1>7. (Total(ledger) >= 0)'
  BY DEF RewardsInv
<1>8. RewardsArePaid'
  BY DEF RewardsInv, RewardsArePaid, CreditsFor
<1> QED
  BY <1>2, <1>3, <1>4, <1>5, <1>6, <1>7, <1>8 DEF RewardsInv

\* A payment: whoever holds the wallet's row adds a row that leaves no debt.
LEMMA CommitKeeps ==
  ASSUME RewardsInv, NEW w \in Workers, HoldsWallet(w),
         NEW row \in Rows, Total(ledger) + row.amount >= 0,
         opened' = TRUE, ledger' = Append(ledger, row), proc' = [proc EXCEPT ![w] = Idle],
         UNCHANGED <<orders, faults>>, rivals' \in [Referees -> SUBSET Workers],
         issued' \in [Referees -> Nat], submission' \in [Submissions -> Submission],
         \A r \in Referees : Closed(r)',
         RewardsArePaid', ReviewsAgree'
  PROVE  RewardsInv'
<1>1. /\ proc' \in [Workers -> Requests] /\ proc'[w] = Idle /\ proc'[w].at = "idle"
      /\ \A v \in Workers : v # w => proc'[v] = proc[v]
      /\ IsFiniteSet(Busy') /\ Cardinality(Busy') + 1 = Cardinality(Busy)
      /\ Cardinality(Busy) \in Nat /\ Cardinality(Busy') \in Nat
  BY Ends DEF RewardsInv, HoldsWallet
<1>2. ledger \in Seq(Rows) /\ Len(ledger) \in Nat /\ MaxRows \in Nat
  BY LedgerFacts, RewardsAssumption DEF RewardsInv, TypeOK
<1>3. ledger' \in Seq(Rows) /\ Len(ledger') = Len(ledger) + 1 /\ Total(ledger') = Total(ledger) + row.amount
  <2>1. PICK n : n = Len(ledger) + 1
    OBVIOUS
  <2>2. Extended(ledger', ledger, row, n)
    BY <2>1 DEF Extended
  <2>3. ledger' \in Seq(Rows) /\ Len(ledger') = n /\ Total(ledger') = Total(ledger) + row.amount
    BY <1>2, <2>2, RowAdded
  <2> QED
    BY <2>1, <2>3
<1>4. Room' /\ Len(ledger') <= MaxRows
  BY <1>1, <1>2, <1>3 DEF RewardsInv, Room
<1>5. TypeOK'
  BY <1>1, <1>3, <1>4 DEF RewardsInv, TypeOK, orders
<1>6. OneHolder'
  BY <1>1 DEF RewardsInv, OneHolder, HoldsWallet
<1>7. ASSUME NEW v \in Workers PROVE OnItsWay(v)' /\ Enough(v)'
  <2>1. CASE v = w
    BY <1>1, <2>1 DEF OnItsWay, Enough
  <2>2. CASE v # w
    <3>1. proc[v].at # "covered"
      BY <2>2 DEF RewardsInv, OneHolder, HoldsWallet
    <3> QED
      BY <1>1, <2>2, <3>1 DEF RewardsInv, OnItsWay, Enough
  <2> QED
    BY <2>1, <2>2
<1>8. (Total(ledger) >= 0)'
  BY <1>3
<1> QED
  BY <1>4, <1>5, <1>6, <1>7, <1>8 DEF RewardsInv

\* What a row adds to the credits that are counted.
LEMMA CreditsGrow ==
  ASSUME ledger \in Seq(Rows), NEW row \in Rows, NEW n, Extended(ledger', ledger, row, n), NEW type, NEW x
  PROVE  /\ row.type = type /\ row.about = {x} => /\ CreditsFor(type, x)' = CreditsFor(type, x) \union {n}
                                                  /\ Cardinality(CreditsFor(type, x)') = Cardinality(CreditsFor(type, x)) + 1
         /\ ~(row.type = type /\ row.about = {x}) => CreditsFor(type, x)' = CreditsFor(type, x)
         /\ IsFiniteSet(CreditsFor(type, x)) /\ Cardinality(CreditsFor(type, x)) \in Nat
<1>1. /\ CreditsFor(type, x) = CreditsIn(ledger, type, x)
      /\ CreditsFor(type, x)' = CreditsIn(ledger', type, x)
  BY DEF CreditsFor, CreditsIn
<1>2. /\ row.type = type /\ row.about = {x} => CreditsIn(ledger', type, x) = CreditsIn(ledger, type, x) \union {n}
      /\ ~(row.type = type /\ row.about = {x}) => CreditsIn(ledger', type, x) = CreditsIn(ledger, type, x)
      /\ n \notin CreditsIn(ledger, type, x) /\ IsFiniteSet(CreditsIn(ledger, type, x))
  BY CreditAdded
<1>3. /\ Cardinality(CreditsIn(ledger, type, x) \union {n}) = Cardinality(CreditsIn(ledger, type, x)) + 1
      /\ Cardinality(CreditsIn(ledger, type, x)) \in Nat
  BY <1>2, FS_AddElement, FS_CardinalityType
<1> QED
  BY <1>1, <1>2, <1>3

\* Rows that are no reward leave the account of the rewards alone.
LEMMA OtherRowsAside ==
  ASSUME RewardsInv, NEW row \in Rows, row.type \in {"STAFF_CREDIT", "DEBIT"}, ledger' = Append(ledger, row),
         UNCHANGED <<issued, submission>>
  PROVE  RewardsArePaid'
<1>1. ledger \in Seq(Rows)
  BY DEF RewardsInv, TypeOK
<1>2. ASSUME NEW x, NEW type \in {"REFERRAL_CREDIT", "UGC_CREDIT"}
      PROVE  CreditsFor(type, x)' = CreditsFor(type, x) /\ \A i \in CreditsFor(type, x) : ledger'[i] = ledger[i]
  <2>1. row.type # type
    BY <1>2
  <2> QED
    <3>1. PICK n : n = Len(ledger) + 1
      OBVIOUS
    <3>2. Extended(ledger', ledger, row, n)
      BY <3>1 DEF Extended
    <3>3. CreditsFor(type, x)' = CreditsFor(type, x)
      BY <1>1, <2>1, <3>2, CreditsGrow
    <3>4. \A i \in DOMAIN ledger : ledger'[i] = ledger[i]
      BY <1>1, <3>2, LastRow
    <3> QED
      BY <3>3, <3>4 DEF CreditsFor
<1>3. \A r \in Referees : CreditsFor("REFERRAL_CREDIT", r)' = CreditsFor("REFERRAL_CREDIT", r)
  BY <1>2
<1>4. \A s \in Submissions : CreditsFor("UGC_CREDIT", s)' = CreditsFor("UGC_CREDIT", s)
                           /\ \A i \in CreditsFor("UGC_CREDIT", s) : ledger'[i] = ledger[i]
  BY <1>2
<1> QED
  BY <1>3, <1>4 DEF RewardsInv, RewardsArePaid

LEMMA CreditKeeps ==
  ASSUME RewardsInv, NEW w \in Workers, Credit(w)
  PROVE  RewardsInv'
<1> DEFINE row == [type |-> "STAFF_CREDIT", amount |-> proc[w].job.amount, about |-> {}, live |-> TRUE]
<1>1. proc[w].at = "locked" /\ proc[w].job.op = "credit" /\ CommitRow(w, "STAFF_CREDIT", proc[w].job.amount, {})
      /\ UNCHANGED <<orders, issued, submission, faults, rivals>>
  BY DEF Credit
<1>2. proc[w].job.amount \in Amounts
  BY <1>1, RequestFacts, JobFacts DEF RewardsInv, TypeOK
<1>3. row \in Rows /\ row.amount = proc[w].job.amount /\ row.type = "STAFF_CREDIT"
  BY <1>2 DEF Rows
<1>4. opened' = TRUE /\ ledger' = Append(ledger, row) /\ proc' = [proc EXCEPT ![w] = Idle]
  BY <1>1 DEF CommitRow
<1> HIDE DEF row
<1>5. Total(ledger) + row.amount >= 0
  BY <1>2, <1>3, AmountFacts, LedgerFacts DEF RewardsInv, TypeOK
<1>6. RewardsArePaid'
  BY <1>1, <1>3, <1>4, OtherRowsAside
<1>7. ASSUME NEW r \in Referees PROVE Closed(r)'
  <2>1. Validating(r)' \subseteq Validating(r)
    BY <1>1, <1>4, Ends DEF RewardsInv
  <2> QED
    BY <1>1, <2>1, ClosedKept
<1>8. ReviewsAgree' /\ HoldsWallet(w)
  BY <1>1 DEF RewardsInv, ReviewsAgree, HoldsWallet
<1> QED
  BY <1>1, <1>3, <1>4, <1>5, <1>6, <1>7, <1>8, CommitKeeps DEF RewardsInv, TypeOK

LEMMA DebitKeeps ==
  ASSUME RewardsInv, NEW w \in Workers, Debit(w)
  PROVE  RewardsInv'
<1> DEFINE row == [type |-> "DEBIT", amount |-> -proc[w].job.amount, about |-> {}, live |-> TRUE]
<1>1. proc[w].at = "covered" /\ CommitRow(w, "DEBIT", -proc[w].job.amount, {})
      /\ UNCHANGED <<orders, issued, submission, faults, rivals>>
  BY DEF Debit
<1>2. proc[w].job.op = "debit" /\ proc[w].job.amount \in Amounts /\ proc[w].job.amount <= Total(ledger)
  BY <1>1, RequestFacts, JobFacts DEF RewardsInv, TypeOK, OnItsWay, Enough
<1>3. row \in Rows /\ row.amount = -proc[w].job.amount /\ row.type = "DEBIT"
  BY <1>2 DEF Rows
<1>4. opened' = TRUE /\ ledger' = Append(ledger, row) /\ proc' = [proc EXCEPT ![w] = Idle]
  BY <1>1 DEF CommitRow
<1> HIDE DEF row
<1>5. Total(ledger) + row.amount >= 0
  BY <1>2, <1>3, AmountFacts, LedgerFacts DEF RewardsInv, TypeOK
<1>6. RewardsArePaid'
  BY <1>1, <1>3, <1>4, OtherRowsAside
<1>7. ASSUME NEW r \in Referees PROVE Closed(r)'
  <2>1. Validating(r)' \subseteq Validating(r)
    BY <1>1, <1>4, Ends DEF RewardsInv
  <2> QED
    BY <1>1, <2>1, ClosedKept
<1>8. ReviewsAgree' /\ HoldsWallet(w)
  BY <1>1 DEF RewardsInv, ReviewsAgree, HoldsWallet
<1> QED
  BY <1>1, <1>3, <1>4, <1>5, <1>6, <1>7, <1>8, CommitKeeps DEF RewardsInv, TypeOK

\* A referral's reward: the first one closes it, a later one was in flight by then.
LEMMA RewardKeeps ==
  ASSUME RewardsInv, NEW w \in Workers, Reward(w)
  PROVE  RewardsInv'
<1> DEFINE row == [type |-> "REFERRAL_CREDIT", amount |-> REFERRAL_REWARD_AMOUNT, about |-> {proc[w].job.referee}, live |-> TRUE]
<1>1. proc[w].at = "locked" /\ proc[w].job.op = "validate"
      /\ CommitRow(w, "REFERRAL_CREDIT", REFERRAL_REWARD_AMOUNT, {proc[w].job.referee})
      /\ issued' = [issued EXCEPT ![proc[w].job.referee] = @ + 1]
      /\ rivals' = [rivals EXCEPT ![proc[w].job.referee] = IF @ = {} THEN Validating(proc[w].job.referee) ELSE @]
      /\ UNCHANGED <<orders, submission, faults>>
  BY DEF Reward
<1>2. PICK ref \in Referees : ref = proc[w].job.referee
  BY <1>1, RequestFacts, JobFacts DEF RewardsInv, TypeOK
<1>3. row \in Rows /\ row.amount >= 0 /\ row.amount \in Int /\ row.type = "REFERRAL_CREDIT" /\ row.about = {ref}
  BY <1>2 DEF Rows, REFERRAL_REWARD_AMOUNT
<1>4. opened' = TRUE /\ ledger' = Append(ledger, row) /\ proc' = [proc EXCEPT ![w] = Idle]
  BY <1>1 DEF CommitRow
<1> HIDE DEF row
<1>5. ledger \in Seq(Rows) /\ issued \in [Referees -> Nat] /\ Total(ledger) + row.amount >= 0
  BY <1>3, LedgerFacts DEF RewardsInv, TypeOK
<1>6. issued' \in [Referees -> Nat] /\ issued'[ref] = issued[ref] + 1 /\ \A r \in Referees : r # ref => issued'[r] = issued[r]
  BY <1>1, <1>2, <1>5
<1>7. PICK n : Extended(ledger', ledger, row, n)
  BY <1>4 DEF Extended
<1>8. ASSUME NEW r \in Referees PROVE Cardinality(CreditsFor("REFERRAL_CREDIT", r))' = issued'[r]
  <2>1. Cardinality(CreditsFor("REFERRAL_CREDIT", r)) = issued[r]
    BY DEF RewardsInv, RewardsArePaid
  <2>2. CASE r = ref
    <3>1. Cardinality(CreditsFor("REFERRAL_CREDIT", r)') = Cardinality(CreditsFor("REFERRAL_CREDIT", r)) + 1
      BY <1>3, <1>5, <1>7, <2>2, CreditsGrow
    <3> QED
      BY <1>6, <2>1, <2>2, <3>1
  <2>3. CASE r # ref
    <3>1. ~(row.type = "REFERRAL_CREDIT" /\ row.about = {r})
      BY <1>3, <2>3
    <3>2. row \in Rows
      BY <1>3
    <3>3. CreditsFor("REFERRAL_CREDIT", r)' = CreditsFor("REFERRAL_CREDIT", r)
      BY <1>5, <1>7, <3>1, <3>2, CreditsGrow
    <3> QED
      BY <1>6, <2>1, <2>3, <3>3
  <2> QED
    BY <2>2, <2>3
<1>9. ASSUME NEW s \in Submissions
      PROVE  /\ CreditsFor("UGC_CREDIT", s)' = CreditsFor("UGC_CREDIT", s)
             /\ \A i \in CreditsFor("UGC_CREDIT", s) : ledger'[i] = ledger[i]
  <2>1. CreditsFor("UGC_CREDIT", s)' = CreditsFor("UGC_CREDIT", s)
    BY <1>3, <1>5, <1>7, CreditsGrow
  <2>2. \A i \in DOMAIN ledger : ledger'[i] = ledger[i]
    BY <1>3, <1>5, <1>7, LastRow
  <2> QED
    BY <2>1, <2>2 DEF CreditsFor
<1>10. RewardsArePaid'
  BY <1>1, <1>8, <1>9 DEF RewardsInv, RewardsArePaid
<1>11. /\ rivals' \in [Referees -> SUBSET Workers]
       /\ rivals'[ref] = IF rivals[ref] = {} THEN Validating(ref) ELSE rivals[ref]
       /\ \A r \in Referees : r # ref => rivals'[r] = rivals[r]
  <2>1. rivals \in [Referees -> SUBSET Workers] /\ Validating(ref) \subseteq Workers
    BY DEF RewardsInv, TypeOK, Validating
  <2>2. rivals' = [rivals EXCEPT ![ref] = IF rivals[ref] = {} THEN Validating(ref) ELSE rivals[ref]]
    BY <1>1, <1>2
  <2> QED
    BY <2>1, <2>2
<1>14. ASSUME NEW r \in Referees PROVE Closed(r)'
  <2>1. Validating(r)' = Validating(r) \ {w}
    BY <1>1, <1>4, Ends DEF RewardsInv
  <2>2. CASE r = ref
    <3>1. w \in Validating(r) /\ Closed(r) /\ issued[r] \in Nat
      BY <1>1, <1>2, <1>5, <2>2 DEF Validating, RewardsInv
    <3>2. /\ IsFiniteSet(Validating(r)) /\ Cardinality(Validating(r)) \in Nat
          /\ Cardinality(Validating(r)') = Cardinality(Validating(r)) - 1
      BY <2>1, <3>1, ValidatingFacts, FS_RemoveElement
    <3>3. CASE issued[r] = 0
      BY <1>6, <1>11, <2>2, <3>1, <3>2, <3>3 DEF Closed
    <3>4. CASE issued[r] > 0
      <4>1. Cardinality(rivals[r]) \in Nat
        BY <3>1, <3>4, FS_CardinalityType DEF Closed
      <4> QED
        BY <1>6, <1>11, <2>2, <3>1, <3>2, <3>4, <4>1 DEF Closed
    <3> QED
      BY <3>1, <3>3, <3>4
  <2>3. CASE r # ref
    BY <1>6, <1>11, <2>1, <2>3, ClosedKept
  <2> QED
    BY <2>2, <2>3
<1>12. ReviewsAgree' /\ HoldsWallet(w) /\ submission' \in [Submissions -> Submission]
  BY <1>1 DEF RewardsInv, ReviewsAgree, HoldsWallet, TypeOK
<1>13. UNCHANGED <<orders, faults>>
  BY <1>1
<1> QED
  BY <1>3, <1>4, <1>5, <1>6, <1>10, <1>11, <1>12, <1>13, <1>14, CommitKeeps

\* What a decision writes to the post.
LEMMA ReviewedFacts ==
  ASSUME TypeOK, NEW w \in Workers, proc[w].at # "idle", proc[w].job.op = "review"
  PROVE  /\ Reviewed(w) \in Submission /\ Reviewed(w).reward = submission[proc[w].job.post].reward
         /\ proc[w].job.decision = "APPROVED" => Reviewed(w).status = "APPROVED" /\ Reviewed(w).adminVerified
         /\ proc[w].job.decision = "REJECTED" =>
              /\ Reviewed(w).adminVerified = submission[proc[w].job.post].adminVerified
              /\ Reviewed(w).status = "APPROVED" => submission[proc[w].job.post].status = "APPROVED"
<1>1. PICK j \in Jobs : j = proc[w].job
  BY RequestFacts DEF TypeOK
<1>2. /\ j.op = "review" /\ j.post \in Submissions /\ j.decision \in {"APPROVED", "REJECTED"} /\ j.read \in {"PENDING", "REJECTED"}
  BY <1>1, JobFacts
<1>3. PICK row \in Submission : row = submission[j.post]
  BY <1>2 DEF TypeOK
<1>4. Reviewed(w) = [row EXCEPT !.status = IF j.decision = j.read THEN row.status ELSE j.decision,
                                !.adminVerified = row.adminVerified \/ j.decision = "APPROVED"]
  BY <1>1, <1>3, Zenon DEF Reviewed
<1>5. row.status \in {"NONE", "PENDING", "APPROVED", "REJECTED"} /\ row.adminVerified \in BOOLEAN
  BY <1>3 DEF Submission
<1>6. CASE j.decision = "APPROVED"
  <2>1. Reviewed(w) = [row EXCEPT !.status = "APPROVED", !.adminVerified = TRUE]
    BY <1>2, <1>4, <1>6
  <2> QED
    BY <1>1, <1>3, <1>6, <2>1 DEF Submission
<1>7. CASE j.decision = "REJECTED"
  <2>1. PICK status \in {row.status, "REJECTED"} : status = IF j.decision = j.read THEN row.status ELSE j.decision
    BY <1>7
  <2>2. Reviewed(w) = [row EXCEPT !.status = status, !.adminVerified = row.adminVerified]
    BY <1>4, <1>5, <1>7, <2>1
  <2> QED
    BY <1>1, <1>3, <1>5, <1>7, <2>1, <2>2 DEF Submission
<1> QED
  BY <1>2, <1>6, <1>7

LEMMA RewardPostKeeps ==
  ASSUME RewardsInv, NEW w \in Workers, RewardPost(w), Unrewarded(proc[w].job.post),
         CommitRow(w, "UGC_CREDIT", proc[w].job.amount, {proc[w].job.post}),
         submission' = [submission EXCEPT ![proc[w].job.post] = [Reviewed(w) EXCEPT !.reward = proc[w].job.amount]],
         UNCHANGED <<orders, issued, rivals, faults>>
  PROVE  RewardsInv'
<1>1. proc[w].at = "locked" /\ proc[w].job.op = "review" /\ proc[w].job.decision = "APPROVED"
  BY DEF RewardPost, RewardsInv, OnItsWay
<1>2. PICK j \in Jobs, s \in Submissions, a \in Amounts : j = proc[w].job /\ s = j.post /\ a = j.amount
  BY <1>1, RequestFacts, JobFacts DEF RewardsInv, TypeOK
<1> DEFINE row == [type |-> "UGC_CREDIT", amount |-> a, about |-> {s}, live |-> TRUE]
<1>3. row \in Rows /\ row.amount = a /\ row.type = "UGC_CREDIT" /\ row.about = {s}
  BY DEF Rows
<1>4. opened' = TRUE /\ ledger' = Append(ledger, row) /\ proc' = [proc EXCEPT ![w] = Idle]
  BY <1>2 DEF CommitRow
<1> HIDE DEF row
<1>5. ledger \in Seq(Rows) /\ a \in Nat /\ a > 0 /\ Total(ledger) + row.amount >= 0
  BY <1>2, <1>3, LedgerFacts, AmountFacts DEF RewardsInv, TypeOK
<1>6. PICK p \in Submission : p = Reviewed(w)
  BY <1>1, ReviewedFacts DEF RewardsInv
<1>7. p.status = "APPROVED" /\ p.adminVerified /\ p.reward = submission[s].reward
  BY <1>1, <1>2, <1>6, ReviewedFacts DEF RewardsInv
<1>8. submission[s].reward = 0
  BY <1>2 DEF Unrewarded
<1> DEFINE post == [p EXCEPT !.reward = a]
<1>9. post \in Submission /\ post.status = "APPROVED" /\ post.adminVerified = TRUE /\ post.reward = a
  BY <1>2, <1>6, <1>7 DEF Submission
<1>10. submission' = [submission EXCEPT ![s] = post]
  BY <1>2, <1>6
<1> HIDE DEF post
<1>11. submission \in [Submissions -> Submission]
  BY DEF RewardsInv, TypeOK
<1>12. submission' \in [Submissions -> Submission] /\ submission'[s] = post
       /\ \A q \in Submissions : q # s => submission'[q] = submission[q]
  BY <1>9, <1>10, <1>11
<1>13. PICK n : Extended(ledger', ledger, row, n)
  BY <1>4 DEF Extended
<1>14. ledger'[n] = row /\ \A i \in DOMAIN ledger : ledger'[i] = ledger[i]
  BY <1>3, <1>5, <1>13, LastRow
<1>15. \A r \in Referees : CreditsFor("REFERRAL_CREDIT", r)' = CreditsFor("REFERRAL_CREDIT", r)
  BY <1>3, <1>5, <1>13, CreditsGrow
<1>16. ASSUME NEW q \in Submissions, q # s
       PROVE  /\ CreditsFor("UGC_CREDIT", q)' = CreditsFor("UGC_CREDIT", q)
              /\ \A i \in CreditsFor("UGC_CREDIT", q) : ledger'[i] = ledger[i]
  <2>1. row.about # {q}
    BY <1>3, <1>16
  <2>2. CreditsFor("UGC_CREDIT", q)' = CreditsFor("UGC_CREDIT", q)
    BY <1>3, <1>5, <1>13, <2>1, CreditsGrow
  <2> QED
    BY <1>14, <2>2 DEF CreditsFor
<1>17. Cardinality(CreditsFor("UGC_CREDIT", s)') = 1 /\ CreditsFor("UGC_CREDIT", s)' = {n}
  <2>1. Cardinality(CreditsFor("UGC_CREDIT", s)) = 0
    BY <1>8 DEF RewardsInv, RewardsArePaid
  <2>2. IsFiniteSet(CreditsFor("UGC_CREDIT", s))
    BY <1>3, <1>5, <1>13, CreditsGrow
  <2>3. CreditsFor("UGC_CREDIT", s) = {}
    BY <2>1, <2>2, FS_EmptySet
  <2>4. CreditsFor("UGC_CREDIT", s)' = CreditsFor("UGC_CREDIT", s) \union {n}
    BY <1>3, <1>5, <1>13, CreditsGrow
  <2>5. CreditsFor("UGC_CREDIT", s)' = {n}
    BY <2>3, <2>4
  <2> QED
    BY <2>5, FS_Singleton
<1>18. ASSUME NEW q \in Submissions
       PROVE  /\ Cardinality(CreditsFor("UGC_CREDIT", q)') = IF submission'[q].reward = 0 THEN 0 ELSE 1
              /\ \A i \in CreditsFor("UGC_CREDIT", q)' : ledger'[i].amount = submission'[q].reward
  <2>1. CASE q = s
    <3>1. submission'[q].reward = a /\ a # 0
      <4>1. submission'[q] = post
        BY <1>12, <2>1
      <4>2. a # 0
        BY <1>5
      <4> QED
        BY <1>9, <4>1, <4>2
    <3>2. Cardinality(CreditsFor("UGC_CREDIT", q)') = 1
      BY <1>17, <2>1
    <3>3. ASSUME NEW i \in CreditsFor("UGC_CREDIT", q)' PROVE ledger'[i].amount = a
      <4>1. i = n
        BY <1>17, <2>1, <3>3
      <4> QED
        BY <1>3, <1>14, <4>1
    <3> QED
      BY <3>1, <3>2, <3>3
  <2>2. CASE q # s
    <3>1. submission'[q] = submission[q]
      BY <1>12, <2>2
    <3>2. Cardinality(CreditsFor("UGC_CREDIT", q)') = IF submission'[q].reward = 0 THEN 0 ELSE 1
      BY <1>16, <2>2, <3>1 DEF RewardsInv, RewardsArePaid
    <3>3. ASSUME NEW i \in CreditsFor("UGC_CREDIT", q)' PROVE ledger'[i].amount = submission'[q].reward
      <4>1. i \in CreditsFor("UGC_CREDIT", q) /\ ledger'[i] = ledger[i]
        BY <1>16, <2>2, <3>3
      <4> QED
        BY <3>1, <4>1 DEF RewardsInv, RewardsArePaid
    <3> QED
      BY <3>2, <3>3
  <2> QED
    BY <2>1, <2>2
<1>19. RewardsArePaid'
  BY <1>15, <1>18 DEF RewardsInv, RewardsArePaid
<1>20. ReviewsAgree'
  <2>1. ASSUME NEW q \in Submissions
        PROVE  (/\ submission[q].status = "APPROVED" => submission[q].adminVerified
                /\ submission[q].adminVerified <=> submission[q].reward > 0)'
    <3>1. CASE q = s
      BY <1>5, <1>9, <1>12, <3>1
    <3>2. CASE q # s
      BY <1>12, <3>2 DEF RewardsInv, ReviewsAgree
    <3> QED
      BY <3>1, <3>2
  <2> QED
    BY <2>1 DEF ReviewsAgree
<1>21. ASSUME NEW r \in Referees PROVE Closed(r)'
  <2>1. Validating(r)' \subseteq Validating(r)
    BY <1>1, <1>4, Ends DEF RewardsInv
  <2> QED
    BY <2>1, ClosedKept
<1>22. HoldsWallet(w) /\ issued' \in [Referees -> Nat] /\ rivals' \in [Referees -> SUBSET Workers]
  BY <1>1 DEF RewardsInv, HoldsWallet, TypeOK
<1> QED
  BY <1>3, <1>4, <1>5, <1>12, <1>19, <1>20, <1>21, <1>22, CommitKeeps

\* The orders of the referees move: nothing of the wallet does.
LEMMA OrdersAside ==
  ASSUME RewardsInv, UNCHANGED <<opened, ledger, issued, submission, proc, rivals>>,
         order' \in [Referees -> [Orders -> OrderStatus]], events' \in [Referees -> SUBSET Stages],
         windowOver' \in [Referees -> BOOLEAN], faults' \in 0..MaxFaults
  PROVE  RewardsInv'
<1>1. TypeOK'
  BY DEF RewardsInv, TypeOK
<1>2. Room' /\ OneHolder' /\ (Total(ledger) >= 0)'
  BY DEF RewardsInv, Room, Busy, OneHolder, HoldsWallet
<1>3. (\A r \in Referees : Closed(r)') /\ (\A w \in Workers : OnItsWay(w)' /\ Enough(w)')
  BY DEF RewardsInv, OnItsWay, Enough, Closed, Validating
<1>4. RewardsArePaid' /\ ReviewsAgree'
  BY DEF RewardsInv, RewardsArePaid, CreditsFor, ReviewsAgree
<1> QED
  BY <1>1, <1>2, <1>3, <1>4 DEF RewardsInv

LEMMA OneFault ==
  ASSUME faults \in 0..MaxFaults
  PROVE  faults < MaxFaults => faults + 1 \in 0..MaxFaults
BY RewardsAssumption

LEMMA OrdersKeep ==
  ASSUME RewardsInv, NEW r \in Referees, MoveOrder(r) \/ MoveHalf(r) \/ WindowCloses(r)
  PROVE  RewardsInv'
<1>1. /\ order \in [Referees -> [Orders -> OrderStatus]] /\ events \in [Referees -> SUBSET Stages]
      /\ windowOver \in [Referees -> BOOLEAN] /\ faults \in 0..MaxFaults
  BY DEF RewardsInv, TypeOK
<1>2. ASSUME NEW status PROVE Recorded(r, status) \in SUBSET Stages
  BY <1>1 DEF Recorded, Stages
<1>3. ASSUME NEW o \in Orders, NEW status \in Moves(order[r][o])
      PROVE  /\ [order EXCEPT ![r][o] = status] \in [Referees -> [Orders -> OrderStatus]]
             /\ [events EXCEPT ![r] = Recorded(r, status)] \in [Referees -> SUBSET Stages]
  <2>1. status \in OrderStatus
    BY <1>3 DEF Moves, OrderStatus
  <2> QED
    BY <1>1, <1>2, <2>1
<1>4. CASE MoveOrder(r)
  <2>1. PICK o \in Orders : \E status \in Moves(order[r][o]) :
          /\ order' = [order EXCEPT ![r][o] = status]
          /\ events' = [events EXCEPT ![r] = Recorded(r, status)]
          /\ UNCHANGED <<opened, ledger, issued, windowOver, submission, proc, faults, rivals>>
    BY <1>4 DEF MoveOrder
  <2> QED
    BY <1>1, <1>3, <2>1, OrdersAside
<1>5. CASE MoveHalf(r)
  <2>0. PICK o \in Orders : \E status \in Moves(order[r][o]) :
          /\ faults < MaxFaults
          /\ \/ order' = [order EXCEPT ![r][o] = status] /\ UNCHANGED events
             \/ events' = [events EXCEPT ![r] = Recorded(r, status)] /\ UNCHANGED order
          /\ faults' = faults + 1
          /\ UNCHANGED <<opened, ledger, issued, windowOver, submission, proc, rivals>>
    BY <1>5 DEF MoveHalf
  <2>1. PICK status \in Moves(order[r][o]) :
          /\ faults < MaxFaults
          /\ \/ order' = [order EXCEPT ![r][o] = status] /\ UNCHANGED events
             \/ events' = [events EXCEPT ![r] = Recorded(r, status)] /\ UNCHANGED order
          /\ faults' = faults + 1
          /\ UNCHANGED <<opened, ledger, issued, windowOver, submission, proc, rivals>>
    BY <2>0
  <2>2. /\ order' \in [Referees -> [Orders -> OrderStatus]] /\ events' \in [Referees -> SUBSET Stages]
        /\ faults' \in 0..MaxFaults /\ windowOver' \in [Referees -> BOOLEAN]
    <3>1. /\ [order EXCEPT ![r][o] = status] \in [Referees -> [Orders -> OrderStatus]]
          /\ [events EXCEPT ![r] = Recorded(r, status)] \in [Referees -> SUBSET Stages]
      BY <1>3, <2>1
    <3>2. faults' \in 0..MaxFaults /\ windowOver' \in [Referees -> BOOLEAN]
      BY <1>1, <2>1, OneFault
    <3>3. order' \in [Referees -> [Orders -> OrderStatus]]
      BY <1>1, <2>1, <3>1
    <3>4. events' \in [Referees -> SUBSET Stages]
      BY <1>1, <2>1, <3>1
    <3> QED
      BY <3>2, <3>3, <3>4
  <2>3. UNCHANGED <<opened, ledger, issued, submission, proc, rivals>>
    BY <2>1
  <2> QED
    BY <2>2, <2>3, OrdersAside
<1>6. CASE WindowCloses(r)
  <2>1. windowOver' \in [Referees -> BOOLEAN]
    BY <1>1, <1>6 DEF WindowCloses
  <2>2. UNCHANGED <<opened, ledger, order, events, issued, submission, proc, faults, rivals>>
    BY <1>6 DEF WindowCloses
  <2> QED
    BY <1>1, <2>1, <2>2, OrdersAside
<1> QED
  BY <1>4, <1>5, <1>6

LEMMA FlagKeeps ==
  ASSUME RewardsInv, FlagFraud
  PROVE  RewardsInv'
<1>1. PICK r \in Referees : events' = [events EXCEPT ![r] = @ \union {"FRAUD_FLAGGED"}]
  BY DEF FlagFraud
<1>2. UNCHANGED <<opened, ledger, order, issued, windowOver, submission, proc, faults, rivals>>
  BY DEF FlagFraud
<1>3. events' \in [Referees -> SUBSET Stages]
  BY <1>1 DEF RewardsInv, TypeOK, Stages
<1> QED
  BY <1>2, <1>3, OrdersAside DEF RewardsInv, TypeOK

LEMMA SubmitKeeps ==
  ASSUME RewardsInv, NEW s \in Submissions, Submit(s)
  PROVE  RewardsInv'
<1>1. submission[s].status = "NONE" /\ submission' = [submission EXCEPT ![s].status = "PENDING"]
      /\ UNCHANGED <<opened, ledger, orders, issued, proc, faults, rivals>>
  BY DEF Submit
<1> DEFINE post == [submission[s] EXCEPT !.status = "PENDING"]
<1>2. submission \in [Submissions -> Submission]
  BY DEF RewardsInv, TypeOK
<1>3. /\ post \in Submission /\ post.status = "PENDING" /\ post.adminVerified = submission[s].adminVerified
      /\ post.reward = submission[s].reward
  BY <1>2 DEF Submission
<1>4. submission' = [submission EXCEPT ![s] = post]
  BY <1>1, Zenon
<1> HIDE DEF post
<1>5. submission' \in [Submissions -> Submission] /\ submission'[s] = post
      /\ \A q \in Submissions : q # s => submission'[q] = submission[q]
  BY <1>2, <1>3, <1>4
<1>6. ASSUME NEW q \in Submissions
      PROVE  /\ submission'[q].reward = submission[q].reward /\ submission'[q].adminVerified = submission[q].adminVerified
             /\ submission'[q].status = "APPROVED" => submission[q].status = "APPROVED"
  BY <1>3, <1>5
<1>7. ReviewsAgree'
  BY <1>6 DEF RewardsInv, ReviewsAgree
<1>8. RewardsArePaid'
  <2>1. \A type, x : CreditsFor(type, x)' = CreditsFor(type, x)
    BY <1>1 DEF CreditsFor
  <2> QED
    BY <1>1, <1>6, <2>1 DEF RewardsInv, RewardsArePaid
<1>9. TypeOK'
  BY <1>1, <1>5 DEF RewardsInv, TypeOK, orders
<1>10. Room' /\ OneHolder' /\ (Total(ledger) >= 0)' /\ (\A r \in Referees : Closed(r)')
       /\ (\A w \in Workers : OnItsWay(w)' /\ Enough(w)')
  BY <1>1 DEF RewardsInv, Room, Busy, OneHolder, HoldsWallet, OnItsWay, Enough, Closed, Validating
<1> QED
  BY <1>7, <1>8, <1>9, <1>10 DEF RewardsInv

LEMMA ExpiringKeeps ==
  ASSUME RewardsInv, CreditExpires
  PROVE  RewardsInv'
<1>1. PICK i \in DOMAIN ledger : ledger[i].amount > 0 /\ ledger' = [ledger EXCEPT ![i].live = FALSE]
  BY DEF CreditExpires
<1>2. UNCHANGED <<opened, orders, issued, submission, proc, faults, rivals>>
  BY DEF CreditExpires
<1>3. ledger \in Seq(Rows)
  BY DEF RewardsInv, TypeOK
<1>4. PICK l, m : l \in Seq(Rows) /\ l = ledger /\ m = ledger'
  BY <1>3
<1>5. l \in Seq(Rows) /\ i \in DOMAIN l /\ l[i].amount > 0 /\ Ended(m, l, i)
  BY <1>1, <1>4, Zenon DEF Ended
<1>6. /\ m \in Seq(Rows) /\ Len(m) = Len(l) /\ DOMAIN m = DOMAIN l /\ Total(m) = Total(l)
      /\ \A j \in DOMAIN l : m[j].type = l[j].type /\ m[j].about = l[j].about /\ m[j].amount = l[j].amount
  BY <1>5, CreditEnds
<1>7. TypeOK' /\ Room' /\ (Total(ledger) >= 0)'
  BY <1>2, <1>4, <1>6 DEF RewardsInv, TypeOK, orders, Room, Busy
<1>8. OneHolder' /\ (\A r \in Referees : Closed(r)') /\ (\A w \in Workers : OnItsWay(w)' /\ Enough(w)')
  BY <1>2, <1>4, <1>6 DEF RewardsInv, OneHolder, HoldsWallet, OnItsWay, Enough, Closed, Validating
<1>9. ASSUME NEW type, NEW x
      PROVE  /\ CreditsFor(type, x)' = CreditsFor(type, x)
             /\ \A j \in CreditsFor(type, x) : ledger'[j].amount = ledger[j].amount
  BY <1>4, <1>6 DEF CreditsFor
<1>10. RewardsArePaid' /\ ReviewsAgree'
  BY <1>2, <1>9 DEF RewardsInv, RewardsArePaid, ReviewsAgree
<1> QED
  BY <1>7, <1>8, <1>10 DEF RewardsInv

\* A request that begins.
LEMMA BeginningKeeps ==
  ASSUME RewardsInv, NEW w \in Workers, NEW at \in {"read", "find"}, NEW job \in Jobs, Begin(w, at, job),
         at = "read" <=> job.op = "review",
         UNCHANGED <<opened, ledger, orders, issued, submission, faults>>,
         UNCHANGED rivals, job.op = "validate" => issued[job.referee] = 0
  PROVE  RewardsInv'
<1>1. at \in Steps /\ at \notin {"locked", "covered"}
  BY DEF Steps
<1>2. /\ proc[w].at = "idle" /\ proc' \in [Workers -> Requests]
      /\ proc'[w].at = at /\ proc'[w].job = job /\ \A v \in Workers : v # w => proc'[v] = proc[v]
      /\ IsFiniteSet(Busy') /\ Len(ledger) + Cardinality(Busy') <= MaxRows
  BY <1>1, Starts DEF RewardsInv
<1>3. TypeOK' /\ Room'
  BY <1>2 DEF RewardsInv, TypeOK, orders, Room
<1>4. OneHolder'
  BY <1>1, <1>2 DEF RewardsInv, OneHolder, HoldsWallet
<1>5. ASSUME NEW v \in Workers PROVE OnItsWay(v)' /\ Enough(v)'
  <2>1. CASE v = w
    BY <1>1, <1>2, <2>1 DEF OnItsWay, Enough
  <2>2. CASE v # w
    BY <1>2, <2>2 DEF RewardsInv, OnItsWay, Enough
  <2> QED
    BY <2>1, <2>2
<1>6. ASSUME NEW r \in Referees PROVE Closed(r)'
  <2>1. CASE job.op = "validate" /\ job.referee = r
    BY <2>1 DEF RewardsInv, Closed
  <2>2. CASE ~(job.op = "validate" /\ job.referee = r)
    <3>1. Validating(r)' = Validating(r)
      BY <1>2, <2>2 DEF Validating
    <3> QED
      BY <3>1, ClosedKept
  <2> QED
    BY <2>1, <2>2
<1>7. (Total(ledger) >= 0)' /\ RewardsArePaid' /\ ReviewsAgree'
  BY DEF RewardsInv, RewardsArePaid, CreditsFor, ReviewsAgree
<1> QED
  BY <1>3, <1>4, <1>5, <1>6, <1>7 DEF RewardsInv

LEMMA BeginsKeep ==
  ASSUME RewardsInv, NEW w \in Workers, BeginValidate(w) \/ BeginReview(w) \/ BeginCredit(w) \/ BeginDebit(w)
  PROVE  RewardsInv'
<1>0. submission \in [Submissions -> Submission]
  BY DEF RewardsInv, TypeOK
<1>1. CASE BeginValidate(w)
  <2>1. PICK r \in Referees : Eligible(r) /\ Begin(w, "find", [op |-> "validate", referee |-> r])
    BY <1>1 DEF BeginValidate
  <2>2. UNCHANGED <<opened, ledger, orders, issued, submission, faults, rivals>>
    BY <1>1 DEF BeginValidate
  <2>3. PICK job \in Jobs : job = [op |-> "validate", referee |-> r]
    BY DEF Jobs
  <2>4. job.op = "validate" /\ job.referee = r
    BY <2>3
  <2>6. issued[r] = 0 /\ Begin(w, "find", job)
    BY <2>1, <2>3 DEF Eligible
  <2> QED
    BY <2>2, <2>3, <2>4, <2>6, BeginningKeeps
<1>2. CASE BeginReview(w)
  <2>1. PICK s \in Submissions, d \in {"APPROVED", "REJECTED"}, a \in Amounts :
          /\ submission[s].status \in {"PENDING", "REJECTED"}
          /\ Begin(w, "read", [op |-> "review", post |-> s, decision |-> d, amount |-> a, read |-> submission[s].status])
    BY <1>2 DEF BeginReview
  <2>2. UNCHANGED <<opened, ledger, orders, issued, submission, faults, rivals>>
    BY <1>2 DEF BeginReview
  <2>3. PICK job \in Jobs : job = [op |-> "review", post |-> s, decision |-> d, amount |-> a, read |-> submission[s].status]
    BY <2>1 DEF Jobs
  <2>4. job.op = "review" /\ Begin(w, "read", job)
    BY <2>1, <2>3
  <2> QED
    BY <1>0, <2>2, <2>3, <2>4, BeginningKeeps
<1>3. CASE BeginCredit(w) \/ BeginDebit(w)
  <2>1. PICK a \in Amounts, op \in {"credit", "debit"} : Begin(w, "find", [op |-> op, amount |-> a])
    BY <1>3 DEF BeginCredit, BeginDebit
  <2>2. UNCHANGED <<opened, ledger, orders, issued, submission, faults, rivals>>
    BY <1>3 DEF BeginCredit, BeginDebit
  <2>3. PICK job \in Jobs : job = [op |-> op, amount |-> a]
    BY <2>1 DEF Jobs
  <2>4. job.op = op /\ Begin(w, "find", job)
    BY <2>1, <2>3
  <2> QED
    BY <1>0, <2>1, <2>2, <2>3, <2>4, BeginningKeeps
<1> QED
  BY <1>1, <1>2, <1>3

\* Steps towards the wallet, and the check of the balance.
LEMMA StepsKeep ==
  ASSUME RewardsInv, NEW w \in Workers, FindWallet(w) \/ CreateWallet(w) \/ Approve(w)
  PROVE  RewardsInv'
<1>1. CASE FindWallet(w)
  <2>1. PICK to \in {"locked", "create"} :
          /\ to = "locked" => opened
          /\ proc' = [proc EXCEPT ![w].at = to]
    BY <1>1 DEF FindWallet, Step
  <2>2. /\ proc[w].at = "find" /\ (opened => \A v \in Workers : ~HoldsWallet(v))
        /\ UNCHANGED <<opened, ledger, orders, issued, submission, faults, rivals>>
    BY <1>1 DEF FindWallet, Step
  <2>3. to \in Steps /\ to \notin {"read", "covered"} /\ proc[w].at \in Steps
    BY <2>2 DEF Steps
  <2> QED
    BY <2>1, <2>2, <2>3, GoingKeeps
<1>2. CASE CreateWallet(w)
  <2>1. /\ proc[w].at = "create" /\ proc' = [proc EXCEPT ![w].at = "locked"] /\ (\A v \in Workers : ~HoldsWallet(v))
        /\ UNCHANGED <<opened, ledger, orders, issued, submission, faults, rivals>>
    BY <1>2 DEF CreateWallet, Step
  <2>2. "locked" \in Steps /\ "create" \in Steps
    BY DEF Steps
  <2> QED
    BY <2>1, <2>2, GoingKeeps
<1>3. CASE Approve(w)
  <2>1. /\ proc[w].at = "read" /\ proc[w].job.decision = "APPROVED" /\ proc' = [proc EXCEPT ![w].at = "find"]
        /\ UNCHANGED <<opened, ledger, orders, issued, submission, faults, rivals>>
    BY <1>3 DEF Approve, Step
  <2>2. "find" \in Steps /\ "read" \in Steps /\ proc[w].job.op = "review"
    BY <2>1 DEF Steps, RewardsInv, OnItsWay
  <2> QED
    BY <2>1, <2>2, GoingKeeps
<1> QED
  BY <1>1, <1>2, <1>3

LEMMA AbortKeeps ==
  ASSUME RewardsInv, NEW w \in Workers, proc[w].at # "idle", Abort(w), faults' \in 0..MaxFaults
  PROVE  RewardsInv'
<1>1. proc' = [proc EXCEPT ![w] = Idle] /\ UNCHANGED <<opened, ledger, orders, issued, submission, rivals>>
  BY DEF Abort
<1>2. ReviewsAgree' /\ submission' \in [Submissions -> Submission]
  BY <1>1 DEF RewardsInv, ReviewsAgree, TypeOK
<1> QED
  BY <1>1, <1>2, EndingKeeps

LEMMA CheckKeeps ==
  ASSUME RewardsInv, NEW w \in Workers, CheckBalance(w)
  PROVE  RewardsInv'
<1>1. proc[w].at = "locked" /\ proc[w].job.op = "debit" /\ UNCHANGED faults
  BY DEF CheckBalance
<1>2. CASE Covers(proc[w].job.amount) /\ Step(w, "locked", "covered")
           /\ UNCHANGED <<opened, ledger, orders, issued, submission, rivals>>
  <2>1. PICK a \in Amounts : a = proc[w].job.amount
    BY <1>1, RequestFacts, JobFacts DEF RewardsInv, TypeOK
  <2>2. a > 0 /\ a \in Nat /\ SumBalance \in Int /\ SumBalance <= Total(ledger) /\ Total(ledger) \in Int
    BY <2>1, AmountFacts, BalanceIsCovered, LedgerFacts DEF RewardsInv, TypeOK
  <2>3. a <= Total(ledger)
    BY <1>2, <2>1, <2>2 DEF Covers, Balance
  <2>4. "covered" \in Steps /\ "locked" \in Steps /\ proc' = [proc EXCEPT ![w].at = "covered"]
    BY <1>2 DEF Steps, Step
  <2> QED
    BY <1>1, <1>2, <2>1, <2>3, <2>4, GoingKeeps
<1>3. CASE Abort(w)
  BY <1>1, <1>3, AbortKeeps DEF RewardsInv, TypeOK
<1> QED
  BY <1>2, <1>3 DEF CheckBalance

LEMMA EndsKeep ==
  ASSUME RewardsInv, NEW w \in Workers, CreateRefused(w) \/ Fail(w)
  PROVE  RewardsInv'
<1>1. CASE CreateRefused(w)
  BY <1>1, AbortKeeps DEF CreateRefused, RewardsInv, TypeOK
<1>2. CASE Fail(w)
  <2>1. proc[w].at # "idle" /\ Abort(w) /\ faults < MaxFaults /\ faults' = faults + 1
    BY <1>2 DEF Fail
  <2>2. faults' \in 0..MaxFaults
    BY <2>1, OneFault DEF RewardsInv, TypeOK
  <2> QED
    BY <2>1, <2>2, AbortKeeps
<1> QED
  BY <1>1, <1>2

LEMMA RejectKeeps ==
  ASSUME RewardsInv, NEW w \in Workers, Reject(w)
  PROVE  RewardsInv'
<1>1. /\ proc[w].at = "read" /\ proc[w].job.decision = "REJECTED" /\ proc' = [proc EXCEPT ![w] = Idle]
      /\ submission' = [submission EXCEPT ![proc[w].job.post] = Reviewed(w)]
      /\ UNCHANGED <<opened, ledger, orders, issued, faults, rivals>>
  BY DEF Reject
<1>2. proc[w].job.op = "review"
  BY <1>1 DEF RewardsInv, OnItsWay
<1>3. PICK s \in Submissions : s = proc[w].job.post
  BY <1>1, <1>2, RequestFacts, JobFacts DEF RewardsInv, TypeOK
<1>4. PICK p \in Submission : p = Reviewed(w)
  BY <1>1, <1>2, ReviewedFacts DEF RewardsInv
<1>5. /\ p.reward = submission[s].reward /\ p.adminVerified = submission[s].adminVerified
      /\ p.status = "APPROVED" => submission[s].status = "APPROVED"
  BY <1>1, <1>2, <1>3, <1>4, ReviewedFacts DEF RewardsInv
<1>6. submission \in [Submissions -> Submission] /\ submission' = [submission EXCEPT ![s] = p]
  BY <1>1, <1>3, <1>4 DEF RewardsInv, TypeOK
<1>7. /\ submission' \in [Submissions -> Submission] /\ submission'[s] = p
      /\ \A q \in Submissions : q # s => submission'[q] = submission[q]
  BY <1>4, <1>6
<1>8. ASSUME NEW q \in Submissions
      PROVE  /\ submission'[q].reward = submission[q].reward /\ submission'[q].adminVerified = submission[q].adminVerified
             /\ submission'[q].status = "APPROVED" => submission[q].status = "APPROVED"
  BY <1>5, <1>7
<1>9. ReviewsAgree'
  BY <1>8 DEF RewardsInv, ReviewsAgree
<1>10. faults' \in 0..MaxFaults
  BY <1>1 DEF RewardsInv, TypeOK
<1> QED
  BY <1>1, <1>7, <1>8, <1>9, <1>10, EndingKeeps

LEMMA RewardingPostKeeps ==
  ASSUME RewardsInv, NEW w \in Workers, RewardPost(w)
  PROVE  RewardsInv'
<1>1. CASE /\ Unrewarded(proc[w].job.post)
           /\ CommitRow(w, "UGC_CREDIT", proc[w].job.amount, {proc[w].job.post})
           /\ submission' = [submission EXCEPT ![proc[w].job.post] = [Reviewed(w) EXCEPT !.reward = proc[w].job.amount]]
           /\ UNCHANGED <<orders, issued, rivals, faults>>
  BY <1>1, RewardPostKeeps
<1>2. CASE proc[w].at = "locked" /\ Abort(w) /\ UNCHANGED faults
  BY <1>2, AbortKeeps DEF RewardsInv, TypeOK
<1> QED
  BY <1>1, <1>2, Zenon DEF RewardPost

\* The wallet and the rewards are inductive.
THEOREM RewardsHold ==
  Spec => [](TypeOK /\ RewardsArePaid /\ ReviewsAgree /\ RewardedOnce /\ NeverOverdrawn)
<1>1. Init => RewardsInv
  <2> SUFFICES ASSUME Init PROVE RewardsInv
    OBVIOUS
  <2>1. Idle \in Requests /\ Idle.at = "idle" /\ << >> \in Seq(Rows) /\ Len(<< >>) = 0 /\ DOMAIN << >> = {}
    BY DEF Requests, Idle
  <2>2. Total(<< >>) = 0
    BY <2>1, FS_EmptySet, SumFolds DEF Total
  <2>3. TypeOK
    <3>1. [status |-> "NONE", adminVerified |-> FALSE, reward |-> 0] \in Submission
      BY DEF Submission
    <3>2. order \in [Referees -> [Orders -> OrderStatus]] /\ events \in [Referees -> SUBSET Stages]
      BY DEF Init, OrderStatus, Stages
    <3>3. ledger \in Seq(Rows) /\ Len(ledger) <= MaxRows /\ faults \in 0..MaxFaults
      BY <2>1, RewardsAssumption DEF Init
    <3> QED
      BY <2>1, <3>1, <3>2, <3>3, RewardsAssumption DEF Init, TypeOK
  <2>4. Busy = {} /\ \A r : Validating(r) = {}
    BY <2>1 DEF Init, Busy, Validating
  <2>5. Room
    BY <2>1, <2>4, FS_EmptySet, RewardsAssumption DEF Room, Init
  <2>6. OneHolder /\ (\A w \in Workers : OnItsWay(w) /\ Enough(w)) /\ (\A r \in Referees : Closed(r))
    BY <2>1, <2>4 DEF Init, OneHolder, HoldsWallet, OnItsWay, Enough, Closed
  <2>7. \A type, x : CreditsFor(type, x) = {}
    BY <2>1 DEF CreditsFor, Init
  <2>8. RewardsArePaid /\ ReviewsAgree
    <3>1. \A s \in Submissions : submission[s] = [status |-> "NONE", adminVerified |-> FALSE, reward |-> 0]
      BY DEF Init
    <3>2. \A s \in Submissions : submission[s].status = "NONE" /\ submission[s].adminVerified = FALSE /\ submission[s].reward = 0
      BY <3>1
    <3>3. ReviewsAgree
      BY <3>2 DEF ReviewsAgree
    <3>4. \A r \in Referees : issued[r] = 0
      BY DEF Init
    <3>5. Cardinality({}) = 0
      BY FS_EmptySet
    <3> QED
      BY <2>7, <3>2, <3>3, <3>4, <3>5 DEF RewardsArePaid
  <2>9. Total(ledger) >= 0
    BY <2>2 DEF Init
  <2> QED
    BY <2>3, <2>5, <2>6, <2>8, <2>9 DEF RewardsInv
<1>2. RewardsInv /\ [Next]_vars => RewardsInv'
  <2> SUFFICES ASSUME RewardsInv, [Next]_vars PROVE RewardsInv'
    OBVIOUS
  <2>1. CASE UNCHANGED vars
    <3>1. UNCHANGED <<opened, ledger, order, events, issued, windowOver, submission, proc, faults, rivals>>
      BY <2>1 DEF vars
    <3> QED
      BY <3>1, OrdersAside DEF RewardsInv, TypeOK
  <2>2. ASSUME NEW w \in Workers,
               \/ BeginValidate(w) \/ BeginReview(w) \/ BeginCredit(w) \/ BeginDebit(w)
               \/ FindWallet(w) \/ CreateWallet(w) \/ CreateRefused(w) \/ Fail(w)
               \/ Credit(w) \/ CheckBalance(w) \/ Debit(w)
               \/ Reward(w) \/ Reject(w) \/ Approve(w) \/ RewardPost(w)
        PROVE  RewardsInv'
    BY <2>2, BeginsKeep, StepsKeep, EndsKeep, CreditKeeps, CheckKeeps, DebitKeeps, RewardKeeps, RejectKeeps, RewardingPostKeeps
  <2> QED
    BY <2>1, <2>2, OrdersKeep, SubmitKeeps, FlagKeeps, ExpiringKeeps DEF Next
<1>3. RewardsInv => TypeOK /\ RewardsArePaid /\ ReviewsAgree /\ RewardedOnce /\ NeverOverdrawn
  <2> SUFFICES ASSUME RewardsInv PROVE RewardedOnce /\ NeverOverdrawn
    BY DEF RewardsInv
  <2>1. ASSUME NEW r \in Referees PROVE issued[r] <= Cardinality(rivals[r])
    <3>1. Closed(r) /\ issued[r] \in Nat /\ Cardinality(Validating(r)) \in Nat
      BY ValidatingFacts DEF RewardsInv, TypeOK
    <3>2. CASE issued[r] = 0
      BY <3>1, <3>2, FS_EmptySet DEF Closed
    <3>3. CASE issued[r] > 0
      BY <3>1, <3>3, FS_CardinalityType DEF Closed
    <3> QED
      BY <3>1, <3>2, <3>3
  <2>2. ledger \in Seq(Rows) /\ Total(ledger) >= 0
    BY DEF RewardsInv, TypeOK
  <2>3. MapThenSumSet(LAMBDA i : ledger[i].amount, DOMAIN ledger) = Total(ledger)
    BY <2>2, SumOfEntries, Zenon DEF Total
  <2> QED
    BY <2>1, <2>2, <2>3 DEF RewardedOnce, NeverOverdrawn
<1> QED
  BY <1>1, <1>2, <1>3, PTL DEF Spec

=============================================================================
