------------------------------- MODULE Rewards -------------------------------
(***************************************************************************)
(* Store credit of one customer: the wallet ledger (wallet.service), the   *)
(* rewards for customers they referred (referral.service) and the rewards  *)
(* for their posts (ugc.service).  A reward checks what it is for outside  *)
(* its transaction and pays into the wallet inside it; an error of the     *)
(* payment is swallowed, and PostgreSQL then turns the commit into a       *)
(* rollback.  One unit of money is the default reward of a post.           *)
(***************************************************************************)
EXTENDS Integers, Sequences, FiniteSetsExt

CONSTANTS Workers,      \* requests in flight at the same time
          Referees,     \* users who may have registered with the customer's code
          Orders,       \* orders of one referee
          Submissions,  \* posts of the customer
          MaxAmount,    \* largest credit or debit, in units
          MaxRows,      \* bound: rows the ledger may get
          MaxFaults     \* bound: errors and crashes

ASSUME RewardsAssumption == MaxAmount \in Nat /\ MaxRows \in Nat /\ MaxFaults \in Nat

VARIABLES opened,      \* the wallet's row exists
          ledger,      \* its transactions, oldest first
          order,       \* per referee and order: the order's status
          events,      \* per referee: stages that were recorded
          issued,      \* per referee: number of REWARD_ISSUED events
          windowOver,  \* per referee: the return window of the delivery has passed
          submission,  \* per post: its row, and the amount of its ugc_rewards row
          proc,        \* per request: the step it is at
          faults,      \* errors and crashes so far
          rivals       \* history: per referee, the validations in flight when it was first rewarded

vars == <<opened, ledger, order, events, issued, windowOver, submission, proc, faults, rivals>>

REFERRAL_REWARD_AMOUNT == 2
Amounts == 1..MaxAmount

\* The order statuses that referrals look at; "OPEN" is every status before
\* delivery, a return is "RETURNED" from its request on.
OrderStatus == {"OPEN", "DELIVERED", "RETURNED", "CANCELLED"}
Stages == {"SIGNED_UP", "DELIVERED", "CANCELLED", "FRAUD_FLAGGED"}

\* about: the referee or post the row refers to; live: it has not expired.
Rows == [type : {"REFERRAL_CREDIT", "UGC_CREDIT", "STAFF_CREDIT"},
         amount : Amounts \union {REFERRAL_REWARD_AMOUNT},
         about : SUBSET (Referees \union Submissions), live : BOOLEAN]
  \union [type : {"DEBIT"}, amount : {-a : a \in Amounts}, about : {{}}, live : {TRUE}]

Submission == [status : {"NONE", "PENDING", "APPROVED", "REJECTED"},
               adminVerified : BOOLEAN, reward : {0} \union Amounts]

Idle == [at |-> "idle"]
Jobs == [op : {"validate"}, referee : Referees]
  \union [op : {"review"}, post : Submissions, decision : {"APPROVED", "REJECTED"},
          amount : Amounts, read : {"PENDING", "REJECTED"}]
  \union [op : {"credit", "debit"}, amount : Amounts]
Requests == {Idle} \union [at : {"read", "find", "create", "locked", "covered"}, job : Jobs]

TypeOK ==
  /\ opened \in BOOLEAN
  /\ ledger \in Seq(Rows) /\ Len(ledger) <= MaxRows
  /\ order \in [Referees -> [Orders -> OrderStatus]]
  /\ events \in [Referees -> SUBSET Stages]
  /\ issued \in [Referees -> Nat]
  /\ windowOver \in [Referees -> BOOLEAN]
  /\ submission \in [Submissions -> Submission]
  /\ proc \in [Workers -> Requests]
  /\ faults \in 0..MaxFaults
  /\ rivals \in [Referees -> SUBSET Workers]

\* Users who registered with the customer's code are SIGNED_UP (recordSignup).
Init ==
  /\ opened = FALSE
  /\ ledger = << >>
  /\ order = [r \in Referees |-> [o \in Orders |-> "OPEN"]]
  /\ events \in [Referees -> {{}, {"SIGNED_UP"}}]
  /\ issued = [r \in Referees |-> 0]
  /\ windowOver = [r \in Referees |-> FALSE]
  /\ submission = [s \in Submissions |-> [status |-> "NONE", adminVerified |-> FALSE, reward |-> 0]]
  /\ proc = [w \in Workers |-> Idle]
  /\ faults = 0
  /\ rivals = [r \in Referees |-> {}]

orders == <<order, events, windowOver>>

-----------------------------------------------------------------------------
\* The referee's orders.  notifyReferral records the stage on a connection of its
\* own, before the transition commits; its errors are swallowed.

\* recordStage: only users who signed up with a code have stages.
Recorded(r, status) ==
  IF "SIGNED_UP" \in events[r] /\ status \in {"DELIVERED", "CANCELLED"}
    THEN events[r] \union {status} ELSE events[r]

Moves(from) == CASE from = "OPEN" -> {"DELIVERED", "CANCELLED"}
                 [] from = "DELIVERED" -> {"RETURNED"}
                 [] OTHER -> {}

MoveOrder(r) == \E o \in Orders : \E status \in Moves(order[r][o]) :
  /\ order' = [order EXCEPT ![r][o] = status]
  /\ events' = [events EXCEPT ![r] = Recorded(r, status)]
  /\ UNCHANGED <<opened, ledger, issued, windowOver, submission, proc, faults, rivals>>

\* The notification fails and the order moves, or the transition fails after the
\* notification was committed.
MoveHalf(r) == \E o \in Orders : \E status \in Moves(order[r][o]) :
  /\ faults < MaxFaults
  /\ \/ order' = [order EXCEPT ![r][o] = status] /\ UNCHANGED events
     \/ events' = [events EXCEPT ![r] = Recorded(r, status)] /\ UNCHANGED order
  /\ faults' = faults + 1
  /\ UNCHANGED <<opened, ledger, issued, windowOver, submission, proc, rivals>>

\* Time passes: returnWindowDays since the DELIVERED event.
WindowCloses(r) ==
  /\ "DELIVERED" \in events[r] /\ ~windowOver[r]
  /\ windowOver' = [windowOver EXCEPT ![r] = TRUE]
  /\ UNCHANGED <<opened, ledger, order, events, issued, submission, proc, faults, rivals>>

-----------------------------------------------------------------------------
\* The wallet.  Every transaction on it finds its row for update, or creates it.

Begin(w, at, job) ==
  /\ proc[w].at = "idle"
  /\ Len(ledger) + Cardinality({v \in Workers : proc[v].at # "idle"}) < MaxRows
  /\ proc' = [proc EXCEPT ![w] = [at |-> at, job |-> job]]

Step(w, from, to) ==
  /\ proc[w].at = from
  /\ proc' = [proc EXCEPT ![w].at = to]

\* Holds the lock of the wallet's row, or has inserted it.
HoldsWallet(w) == proc[w].at \in {"locked", "covered"}

\* (Slip: the wallet is found without FOR UPDATE.)
FindWallet_NoLock(w) ==
  /\ Step(w, "find", IF opened THEN "locked" ELSE "create")
  /\ UNCHANGED <<opened, ledger, orders, issued, submission, faults, rivals>>

\* ensureWallet: a row that somebody is inserting is not visible.
FindWallet(w) ==
  /\ opened => \A v \in Workers : ~HoldsWallet(v)
  /\ Step(w, "find", IF opened THEN "locked" ELSE "create")
  /\ UNCHANGED <<opened, ledger, orders, issued, submission, faults, rivals>>

\* The insert waits for another one of the same customer, and succeeds if that
\* one was rolled back.
CreateWallet(w) ==
  /\ ~opened
  /\ \A v \in Workers : ~HoldsWallet(v)
  /\ Step(w, "create", "locked")
  /\ UNCHANGED <<opened, ledger, orders, issued, submission, faults, rivals>>

Counted == {i \in DOMAIN ledger : ledger[i].live \/ ledger[i].amount < 0}
SumBalance == MapThenSumSet(LAMBDA i : ledger[i].amount, Counted)
Balance == IF SumBalance < 0 THEN 0 ELSE SumBalance

\* The transaction's last step: the wallet and a row of its ledger are committed.
CommitRow(w, type, amount, about) ==
  /\ opened' = TRUE
  /\ ledger' = Append(ledger, [type |-> type, amount |-> amount, about |-> about, live |-> TRUE])
  /\ proc' = [proc EXCEPT ![w] = Idle]

\* A rollback.
Abort(w) ==
  /\ proc' = [proc EXCEPT ![w] = Idle]
  /\ UNCHANGED <<opened, ledger, orders, issued, submission, rivals>>

\* The wallet was created by somebody else in the meantime: the unique key on
\* the customer refuses the insert.
CreateRefused(w) ==
  /\ proc[w].at = "create" /\ opened
  /\ Abort(w)
  /\ UNCHANGED faults

\* Any statement fails, or the process dies.
Fail(w) ==
  /\ proc[w].at # "idle"
  /\ faults < MaxFaults
  /\ Abort(w)
  /\ faults' = faults + 1

BeginCredit(w) == \E a \in Amounts :
  /\ Begin(w, "find", [op |-> "credit", amount |-> a])
  /\ UNCHANGED <<opened, ledger, orders, issued, submission, faults, rivals>>

Credit(w) ==
  /\ proc[w].at = "locked" /\ proc[w].job.op = "credit"
  /\ CommitRow(w, "STAFF_CREDIT", proc[w].job.amount, {})
  /\ UNCHANGED <<orders, issued, submission, faults, rivals>>

BeginDebit(w) == \E a \in Amounts :
  /\ Begin(w, "find", [op |-> "debit", amount |-> a])
  /\ UNCHANGED <<opened, ledger, orders, issued, submission, faults, rivals>>

Covers(amount) == Balance >= amount

\* The balance is computed from the rows that have not expired now.
CheckBalance(w) ==
  /\ proc[w].at = "locked" /\ proc[w].job.op = "debit"
  /\ \/ Covers(proc[w].job.amount)
        /\ Step(w, "locked", "covered")
        /\ UNCHANGED <<opened, ledger, orders, issued, submission, rivals>>
     \/ ~Covers(proc[w].job.amount) /\ Abort(w)
  /\ UNCHANGED faults

Debit(w) ==
  /\ proc[w].at = "covered"
  /\ CommitRow(w, "DEBIT", -proc[w].job.amount, {})
  /\ UNCHANGED <<orders, issued, submission, faults, rivals>>

CreditExpires == \E i \in DOMAIN ledger :
  /\ ledger[i].live /\ ledger[i].amount > 0
  /\ ledger' = [ledger EXCEPT ![i].live = FALSE]
  /\ UNCHANGED <<opened, orders, issued, submission, proc, faults, rivals>>

-----------------------------------------------------------------------------
\* validateAndReward

Validating(r) == {w \in Workers : proc[w].at # "idle" /\ proc[w].job.op = "validate"
                                    /\ proc[w].job.referee = r}

\* (Slip: the reward that was issued is not looked for.)
Eligible_Again(r) ==
  {"SIGNED_UP", "DELIVERED"} \subseteq events[r] /\ "CANCELLED" \notin events[r] /\ windowOver[r]

\* All that is checked, on events read outside the transaction.
Eligible(r) ==
  /\ {"SIGNED_UP", "DELIVERED"} \subseteq events[r]
  /\ issued[r] = 0
  /\ "CANCELLED" \notin events[r]
  /\ windowOver[r]

\* The signals are not suspicious: a transaction begins.
BeginValidate(w) == \E r \in Referees :
  /\ Eligible(r)
  /\ Begin(w, "find", [op |-> "validate", referee |-> r])
  /\ UNCHANGED <<opened, ledger, orders, issued, submission, faults, rivals>>

\* The signals are suspicious: that is recorded, and the request ends with 409.
FlagFraud == \E r \in Referees :
  /\ Eligible(r)
  /\ events' = [events EXCEPT ![r] = @ \union {"FRAUD_FLAGGED"}]
  /\ UNCHANGED <<opened, ledger, order, issued, windowOver, submission, proc, faults, rivals>>

\* VALIDATED and REWARD_ISSUED are committed with the referrer's credit.
Reward(w) ==
  /\ proc[w].at = "locked" /\ proc[w].job.op = "validate"
  /\ CommitRow(w, "REFERRAL_CREDIT", REFERRAL_REWARD_AMOUNT, {proc[w].job.referee})
  /\ issued' = [issued EXCEPT ![proc[w].job.referee] = @ + 1]
  /\ rivals' = [rivals EXCEPT ![proc[w].job.referee] = IF @ = {} THEN Validating(proc[w].job.referee) ELSE @]
  /\ UNCHANGED <<orders, submission, faults>>

-----------------------------------------------------------------------------
\* Posts

\* submit: for a delivered order of the customer, which makes it orderVerified.
Submit(s) ==
  /\ submission[s].status = "NONE"
  /\ submission' = [submission EXCEPT ![s].status = "PENDING"]
  /\ UNCHANGED <<opened, ledger, orders, issued, proc, faults, rivals>>

\* verifyAndReward reads the row outside the transaction and refuses one that
\* was approved or verified.
BeginReview(w) == \E s \in Submissions, d \in {"APPROVED", "REJECTED"}, a \in Amounts :
  /\ submission[s].status \in {"PENDING", "REJECTED"}
  /\ ~submission[s].adminVerified
  /\ Begin(w, "read", [op |-> "review", post |-> s, decision |-> d, amount |-> a,
                       read |-> submission[s].status])
  /\ UNCHANGED <<opened, ledger, orders, issued, submission, faults, rivals>>

\* An approval has updated the row and not committed yet.
HoldsPost(w, s) ==
  proc[w].at \in {"find", "create", "locked"} /\ proc[w].job.op = "review" /\ proc[w].job.post = s

\* (Slip: every column of the decision is written.)
Reviewed_AllColumns(w) ==
  LET job == proc[w].job
  IN  [submission[job.post] EXCEPT !.status = job.decision, !.adminVerified = (job.decision = "APPROVED")]

\* The UPDATE waits for the row; it writes only the columns that differ from
\* what was read.
Reviewed(w) ==
  LET job == proc[w].job
  IN  [submission[job.post] EXCEPT
         !.status = IF job.decision = job.read THEN @ ELSE job.decision,
         !.adminVerified = @ \/ job.decision = "APPROVED"]

RowFree(w) == \A v \in Workers : ~HoldsPost(v, proc[w].job.post)

Reject(w) ==
  /\ proc[w].at = "read" /\ proc[w].job.decision = "REJECTED"
  /\ RowFree(w)
  /\ submission' = [submission EXCEPT ![proc[w].job.post] = Reviewed(w)]
  /\ proc' = [proc EXCEPT ![w] = Idle]
  /\ UNCHANGED <<opened, ledger, orders, issued, faults, rivals>>

Approve(w) ==
  /\ proc[w].at = "read" /\ proc[w].job.decision = "APPROVED"
  /\ RowFree(w)
  /\ Step(w, "read", "find")
  /\ UNCHANGED <<opened, ledger, orders, issued, submission, faults, rivals>>

\* (Slip: ugc_rewards has no unique key, the later reward replaces the first.)
Unrewarded_NoUniqueKey(s) == TRUE

\* The unique key of ugc_rewards.
Unrewarded(s) == submission[s].reward = 0

\* The credit, the reward's row and the post are committed, or the unique key
\* refuses the reward and all of it is rolled back.
RewardPost(w) ==
  LET job == proc[w].job
  IN  /\ proc[w].at = "locked" /\ job.op = "review"
      /\ \/ /\ Unrewarded(job.post)
            /\ CommitRow(w, "UGC_CREDIT", job.amount, {job.post})
            /\ submission' = [submission EXCEPT ![job.post] = [Reviewed(w) EXCEPT !.reward = job.amount]]
            /\ UNCHANGED <<orders, issued, rivals>>
         \/ ~Unrewarded(job.post) /\ Abort(w)
      /\ UNCHANGED faults

-----------------------------------------------------------------------------

Next ==
  \/ \E r \in Referees : MoveOrder(r) \/ MoveHalf(r) \/ WindowCloses(r)
  \/ \E s \in Submissions : Submit(s)
  \/ FlagFraud \/ CreditExpires
  \/ \E w \in Workers :
       \/ BeginValidate(w) \/ BeginReview(w) \/ BeginCredit(w) \/ BeginDebit(w)
       \/ FindWallet(w) \/ CreateWallet(w) \/ CreateRefused(w) \/ Fail(w)
       \/ Credit(w) \/ CheckBalance(w) \/ Debit(w)
       \/ Reward(w) \/ Reject(w) \/ Approve(w) \/ RewardPost(w)

Spec == Init /\ [][Next]_vars

-----------------------------------------------------------------------------

CreditsFor(type, x) == {i \in DOMAIN ledger : ledger[i].type = type /\ ledger[i].about = {x}}

\* Whatever races or fails while a reward is paid (the error of the payment is
\* swallowed by referral.service.js:87 and ugc.service.js:118), a referral's
\* REWARD_ISSUED events and a post's reward are in the tables together with
\* their credits or not at all, and a post is paid at most once.
RewardsArePaid ==
  /\ \A r \in Referees : Cardinality(CreditsFor("REFERRAL_CREDIT", r)) = issued[r]
  /\ \A s \in Submissions :
       /\ Cardinality(CreditsFor("UGC_CREDIT", s)) = IF submission[s].reward = 0 THEN 0 ELSE 1
       /\ \A i \in CreditsFor("UGC_CREDIT", s) : ledger[i].amount = submission[s].reward

\* Moderators who decide about one post at the same time: an approved post is
\* rewarded and a rewarded one stays verified, so that it is not reviewed again
\* (a rejection that comes too late may still change its status).
ReviewsAgree ==
  \A s \in Submissions :
    /\ submission[s].status = "APPROVED" => submission[s].adminVerified
    /\ submission[s].adminVerified <=> submission[s].reward > 0

\* The first reward closes a referral, whatever fails or rolls back around it: a
\* validation that begins later never pays, so that a referral is rewarded at most
\* as often as validations had already passed the check (referral.service.js:62)
\* when the first of them was paid, and once if that one was alone.
RewardedOnce == \A r \in Referees : issued[r] <= Cardinality(rivals[r])

\* wallet.service.js:36: two concurrent redemptions cannot both succeed past
\* what is available.  Debits never exceed the credits that were ever granted.
NeverOverdrawn == MapThenSumSet(LAMBDA i : ledger[i].amount, DOMAIN ledger) >= 0
=============================================================================
