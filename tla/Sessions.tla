------------------------------- MODULE Sessions -------------------------------
(***************************************************************************)
(* auth.service: registration, login with its failure counter and lock,    *)
(* refresh tokens that are rotated at every use, password resets, and the  *)
(* status changes of user.service.  Every handler reads a row, leaves the  *)
(* event loop (a query, or bcrypt) and then writes columns computed from   *)
(* the copy it holds, so requests of one account overlap freely.           *)
(***************************************************************************)
EXTENDS Naturals, FiniteSets

CONSTANTS Accounts,
          RefreshTokens,      \* bound: ids of refresh tokens that can be issued in one behaviour
          ResetTokens,        \* bound: ids of password reset tokens
          Clients,            \* requests in flight at the same time
          MaxRequests,        \* bound: requests of one behaviour
          Nobody, Nothing,    \* fields without a value
          UserStatus,         \* bound: statuses of users.status a behaviour uses
          MaxFailedAttempts   \* config.auth.maxFailedAttempts

ASSUME SessionsAssumption ==
  /\ MaxFailedAttempts \in Nat \ {0} /\ MaxRequests \in Nat
  /\ "ACTIVE" \in UserStatus
  /\ UserStatus \subseteq {"ACTIVE", "INACTIVE", "SUSPENDED", "PENDING_VERIFICATION"}
  /\ RefreshTokens \subseteq Nat /\ ResetTokens \subseteq Nat
  /\ Nobody \notin Accounts /\ Nothing \notin RefreshTokens \union ResetTokens
  /\ RefreshTokens \intersect ResetTokens = {}

VARIABLES account,   \* per account: the columns of users that login reads and writes
          refresh,   \* per refresh token: its row
          reset,     \* per reset token: its row
          client,    \* per request: the step it is at, and the copies it holds
          arrived,   \* requests so far
          failures,  \* history: wrong passwords since the counter last restarted
          blurred,   \* history: accounts whose counter was written from an outdated copy
          forked     \* history: logins whose token was rotated by two overlapping requests

history == <<failures, blurred, forked>>
sessionsVars == <<account, refresh, reset, client, arrived, failures, blurred, forked>>

Locks == {"open", "running", "past"}   \* lockedUntil: null, in the future, in the past
Unregistered == [status |-> "ABSENT", attempts |-> 0, lock |-> "open"]
Seeded == [status |-> "ACTIVE", attempts |-> 0, lock |-> "open"]
User == [status : UserStatus, attempts : 0..MaxFailedAttempts, lock : Locks]
UserRow == User \union {Unregistered}

\* What became of the authority a session was granted with.  A password reset and
\* the detection of reuse end every session of the account ("ended"); a request that
\* was under way at that moment carries on ("overlapped").
Origins == {"valid", "ended", "overlapped"}

Unissued == [user |-> Nobody]
RefreshToken ==
  [user : Accounts, revoked : {"NO", "ROTATED", "LOGOUT", "REUSE_DETECTED", "PASSWORD_RESET"},
   next : RefreshTokens \union {Nothing}, login : RefreshTokens, origin : Origins]
ResetToken == [user : Accounts, used : BOOLEAN]

Idle == [at |-> "idle", user |-> Nobody, key |-> Nothing, seen |-> {}, to |-> "ACTIVE",
         copy |-> Unregistered, crossed |-> FALSE, origin |-> "valid"]
Requests ==
  [at : {"idle", "compare", "register", "issue", "account", "rotate", "reuse", "logout",
         "reset", "confirm", "change"},
   user : Accounts \union {Nobody},
   key : RefreshTokens \union ResetTokens \union {Nothing},   \* the token presented
   seen : SUBSET ResetTokens,                                \* rows its UPDATE matched
   to : UserStatus,                                          \* status asked for
   copy : UserRow, crossed : BOOLEAN, origin : Origins]

SessionsTypeOK ==
  /\ account \in [Accounts -> UserRow]
  /\ refresh \in [RefreshTokens -> RefreshToken \union {Unissued}]
  /\ reset \in [ResetTokens -> ResetToken \union {Unissued}]
  /\ client \in [Clients -> Requests]
  /\ arrived \in 0..MaxRequests
  /\ failures \in [Accounts -> Nat]
  /\ blurred \in SUBSET Accounts
  /\ forked \in SUBSET RefreshTokens

SessionsInit ==
  /\ account \in [Accounts -> {Unregistered, Seeded}]
  /\ refresh = [t \in RefreshTokens |-> Unissued]
  /\ reset = [r \in ResetTokens |-> Unissued]
  /\ client = [c \in Clients |-> Idle]
  /\ arrived = 0
  /\ failures = [u \in Accounts |-> 0]
  /\ blurred = {} /\ forked = {}

Exists(u) == account[u].status # "ABSENT"
Issued(t) == refresh[t] # Unissued
\* Rows are inserted in the order of their ids.
NextOf(free) == {i \in free : \A j \in free : i <= j}
NextToken == NextOf({t \in RefreshTokens : ~Issued(t)})

Usable(t) == Issued(t) /\ refresh[t].revoked = "NO"

-----------------------------------------------------------------------------
(* Writes of a copy: the columns whose value differs from the copy.        *)

\* instance.update(fields): a column equal to the copy's is not written.
Write(row, copy, fields) ==
  [col \in DOMAIN row |-> IF col \in DOMAIN fields /\ fields[col] # copy[col] THEN fields[col] ELSE row[col]]

\* The counter of account u restarts or moves under request c: every other request
\* that holds a copy of the row now writes from an outdated one.
CrossUser(reqs, c, u) ==
  [d \in Clients |->
     IF d # c /\ reqs[d].user = u /\ reqs[d].at \in {"compare", "confirm", "change"}
     THEN [reqs[d] EXCEPT !.crossed = TRUE] ELSE reqs[d]]

CrossToken(reqs, c, t) ==
  [d \in Clients |-> IF d # c /\ reqs[d].key = t THEN [reqs[d] EXCEPT !.crossed = TRUE] ELSE reqs[d]]

\* The history of the failure counter: n failures since it restarted.
Counted(c, u, n) ==
  /\ failures' = [failures EXCEPT ![u] = n]
  /\ blurred' = IF client[c].crossed THEN blurred \union {u}
                ELSE IF n = 0 THEN blurred \ {u} ELSE blurred
  /\ UNCHANGED forked

Arrive(c, request) ==
  /\ client[c].at = "idle"
  /\ arrived < MaxRequests
  /\ client' = [client EXCEPT ![c] = request]
  /\ arrived' = arrived + 1
  /\ UNCHANGED <<account, refresh, reset, history>>
Request(at, u, key) == [Idle EXCEPT !.at = at, !.user = u, !.key = key]
WithCopy(at, u, key) == [Request(at, u, key) EXCEPT !.copy = account[u]]
Finished(c) == [client EXCEPT ![c] = Idle]
Moves(c, at) == [client EXCEPT ![c].at = at]

-----------------------------------------------------------------------------
(* register and login                                                      *)

BeginRegister(c, u) ==
  /\ ~Exists(u)
  /\ Arrive(c, Request("register", u, Nothing))

\* users.email is unique: of two registrations that both found the address free, the
\* second transaction is rolled back.
Register(c) ==
  LET u == client[c].user IN
  /\ client[c].at = "register"
  /\ IF Exists(u)
     THEN client' = Finished(c) /\ UNCHANGED account
     ELSE /\ account' = [account EXCEPT ![u].status = "ACTIVE"]
          /\ client' = Moves(c, "issue")
  /\ UNCHANGED <<refresh, reset, history>>

BeginLogin(c, u) ==
  /\ Exists(u)
  /\ account[u].lock # "running"
  /\ account[u].status \notin {"SUSPENDED", "INACTIVE"}
  /\ Arrive(c, WithCopy("compare", u, Nothing))

\* (Slip: the counter forgets to lock.)
FailureFields_NoLock(copy) == [attempts |-> (copy.attempts + 1) % (MaxFailedAttempts + 1)]

\* (Slip: the counter goes on when it locks.)
FailureFields_KeepsCounting(copy) ==
  IF copy.attempts + 1 >= MaxFailedAttempts THEN [attempts |-> copy.attempts + 1, lock |-> "running"]
  ELSE [attempts |-> copy.attempts + 1]

\* The columns registerFailedAttempt computes from its copy.
FailureFields(copy) ==
  IF copy.attempts + 1 >= MaxFailedAttempts THEN [attempts |-> 0, lock |-> "running"]
  ELSE [attempts |-> copy.attempts + 1]

RegisterFailedAttempt(c) ==
  LET u == client[c].user
      fields == FailureFields(client[c].copy)
  IN
  /\ client[c].at = "compare"
  /\ account' = [account EXCEPT ![u] = Write(@, client[c].copy, fields)]
  /\ client' = CrossUser(Finished(c), c, u)
  /\ Counted(c, u, IF fields.attempts = 0 THEN 0 ELSE failures[u] + 1)
  /\ UNCHANGED <<refresh, reset>>

Unlocked == [attempts |-> 0, lock |-> "open"]

PasswordMatches(c) ==
  LET u == client[c].user IN
  /\ client[c].at = "compare"
  /\ account' = [account EXCEPT ![u] = Write(@, client[c].copy, Unlocked)]
  /\ client' = CrossUser(Moves(c, "issue"), c, u)
  /\ Counted(c, u, 0)
  /\ UNCHANGED <<refresh, reset>>

\* One row of refresh_tokens; a login's first token names the login.
Insert(t, u, login, origin) ==
  [user |-> u, revoked |-> "NO", next |-> Nothing, login |-> login, origin |-> origin]

IssueSession(c) ==
  /\ client[c].at = "issue"
  /\ \E t \in NextToken :
       refresh' = [refresh EXCEPT ![t] = Insert(t, client[c].user, t, client[c].origin)]
  /\ client' = Finished(c)
  /\ UNCHANGED <<account, reset, history>>

-----------------------------------------------------------------------------
(* refresh and logout.  An expired token is refused without a trace: it is *)
(* one that is never presented again.                                      *)

\* What a request holds of the token it presents.
Presented(at, t) == [Request(at, refresh[t].user, t) EXCEPT !.origin = refresh[t].origin]

BeginRefresh(c, t) ==
  /\ Issued(t)
  /\ \/ /\ refresh[t].revoked # "NO"
        /\ Arrive(c, Request("reuse", refresh[t].user, Nothing))
     \/ /\ refresh[t].revoked = "NO"
        /\ Arrive(c, Presented("account", t))

\* revokeAllRefreshTokensForUser: the rows of u that are not revoked yet.
Revoked(u, reason) ==
  [t \in RefreshTokens |->
     IF Usable(t) /\ refresh[t].user = u THEN [refresh[t] EXCEPT !.revoked = reason] ELSE refresh[t]]

\* Every session of u granted so far has ended, whatever became of its row.
Ended(rows, u) ==
  [t \in RefreshTokens |->
     IF rows[t] # Unissued /\ rows[t].user = u THEN [rows[t] EXCEPT !.origin = "ended"] ELSE rows[t]]
Overlapped(reqs, c, u) ==
  [d \in Clients |-> IF d # c /\ reqs[d].user = u THEN [reqs[d] EXCEPT !.origin = "overlapped"] ELSE reqs[d]]
\* Requests that hold a row the revocation wrote.
CrossTokens(reqs, c, u) ==
  [d \in Clients |->
     IF d # c /\ reqs[d].user = u /\ reqs[d].at \in {"account", "rotate"}
     THEN [reqs[d] EXCEPT !.crossed = TRUE] ELSE reqs[d]]

ReuseDetected(c) ==
  LET u == client[c].user IN
  /\ client[c].at = "reuse"
  /\ refresh' = Ended(Revoked(u, "REUSE_DETECTED"), u)
  /\ client' = CrossTokens(Overlapped(Finished(c), c, u), c, u)
  /\ UNCHANGED <<account, reset, history>>

\* The account of the token is read after the token: it must be active by then.
ReadAccount(c) ==
  /\ client[c].at = "account"
  /\ client' = IF account[client[c].user].status = "ACTIVE" THEN Moves(c, "rotate") ELSE Finished(c)
  /\ UNCHANGED <<account, refresh, reset, history>>

\* One transaction: the successor is inserted and the presented row overwritten,
\* whatever it says by now.
Rotate(c) ==
  LET old == client[c].key IN
  /\ client[c].at = "rotate"
  /\ \E t \in NextToken :
       refresh' = [refresh EXCEPT
            ![t] = Insert(t, client[c].user, refresh[old].login, client[c].origin),
            ![old].revoked = "ROTATED", ![old].next = t]
  /\ client' = CrossToken(Finished(c), c, old)
  /\ forked' = IF client[c].crossed THEN forked \union {refresh[old].login} ELSE forked
  /\ UNCHANGED <<account, reset, failures, blurred>>

BeginLogout(c, t) ==
  /\ Usable(t)
  /\ Arrive(c, Presented("logout", t))

Logout(c) ==
  LET t == client[c].key IN
  /\ client[c].at = "logout"
  /\ refresh' = [refresh EXCEPT ![t].revoked = "LOGOUT"]
  /\ client' = CrossToken(Finished(c), c, t)
  /\ UNCHANGED <<account, reset, history>>

-----------------------------------------------------------------------------
(* password reset, and the status changes of user.service                  *)

\* The UPDATE of the transaction sees the tokens committed so far.
BeginResetRequest(c, u) ==
  /\ Exists(u)
  /\ Arrive(c, [Request("reset", u, Nothing) EXCEPT !.seen =
       {r \in ResetTokens : reset[r] # Unissued /\ reset[r].user = u /\ ~reset[r].used}])

CreateResetToken(c) ==
  /\ client[c].at = "reset"
  /\ \E r \in NextOf({s \in ResetTokens : reset[s] = Unissued}) :
       reset' = [s \in ResetTokens |->
            IF s = r THEN [user |-> client[c].user, used |-> FALSE]
            ELSE IF s \in client[c].seen THEN [reset[s] EXCEPT !.used = TRUE] ELSE reset[s]]
  /\ client' = Finished(c)
  /\ UNCHANGED <<account, refresh, history>>

BeginConfirm(c, r) ==
  /\ reset[r] # Unissued /\ ~reset[r].used
  /\ Arrive(c, WithCopy("confirm", reset[r].user, r))

\* (Slip: a new password leaves the sessions alone.)
ConfirmReset_SessionsKept(c) ==
  LET u == client[c].user IN
  /\ client[c].at = "confirm"
  /\ account' = [account EXCEPT ![u] = Write(@, client[c].copy, Unlocked)]
  /\ reset' = [reset EXCEPT ![client[c].key].used = TRUE]
  /\ refresh' = Ended(refresh, u)
  /\ client' = CrossUser(Overlapped(Finished(c), c, u), c, u)
  /\ Counted(c, u, 0)

\* One transaction: the password and the counter, the token, the sessions.
ConfirmReset(c) ==
  LET u == client[c].user IN
  /\ client[c].at = "confirm"
  /\ account' = [account EXCEPT ![u] = Write(@, client[c].copy, Unlocked)]
  /\ reset' = [reset EXCEPT ![client[c].key].used = TRUE]
  /\ refresh' = Ended(Revoked(u, "PASSWORD_RESET"), u)
  /\ client' = CrossTokens(CrossUser(Overlapped(Finished(c), c, u), c, u), c, u)
  /\ Counted(c, u, 0)

BeginStatusChange(c, u, status) ==
  /\ Exists(u)
  /\ Arrive(c, [WithCopy("change", u, Nothing) EXCEPT !.to = status])

\* changeStatus: activating an account also clears its counter and its lock.
ChangeStatus(c) ==
  LET u == client[c].user
      status == client[c].to
      fields == IF status = "ACTIVE" THEN [status |-> status, attempts |-> 0, lock |-> "open"]
                ELSE [status |-> status]
  IN
  /\ client[c].at = "change"
  /\ account' = [account EXCEPT ![u] = Write(@, client[c].copy, fields)]
  /\ IF status = "ACTIVE"
     THEN client' = CrossUser(Finished(c), c, u) /\ Counted(c, u, 0)
     ELSE client' = Finished(c) /\ UNCHANGED history
  /\ UNCHANGED <<refresh, reset>>

-----------------------------------------------------------------------------
(* time, and requests that die between two statements                      *)

LockRunsOut(u) ==
  /\ account[u].lock = "running"
  /\ account' = [account EXCEPT ![u].lock = "past"]
  /\ UNCHANGED <<refresh, reset, client, arrived, history>>

Dies(c) ==
  /\ client[c].at # "idle"
  /\ client' = Finished(c)
  /\ UNCHANGED <<account, refresh, reset, history>>

Starts(c) ==
  \/ \E u \in Accounts :
       \/ BeginRegister(c, u) \/ BeginLogin(c, u) \/ BeginResetRequest(c, u)
       \/ \E status \in UserStatus : BeginStatusChange(c, u, status)
  \/ \E t \in RefreshTokens : BeginRefresh(c, t) \/ BeginLogout(c, t)
  \/ \E r \in ResetTokens : BeginConfirm(c, r)

Continues(c) ==
  \/ Register(c) \/ RegisterFailedAttempt(c) \/ PasswordMatches(c) \/ IssueSession(c)
  \/ ReadAccount(c) \/ Rotate(c) \/ ReuseDetected(c) \/ Logout(c)
  \/ CreateResetToken(c) \/ ConfirmReset(c) \/ ChangeStatus(c) \/ Dies(c)

SessionsNext ==
  \/ \E c \in Clients : Starts(c) \/ (Continues(c) /\ UNCHANGED arrived)
  \/ \E u \in Accounts : LockRunsOut(u)

SessionsSpec == SessionsInit /\ [][SessionsNext]_sessionsVars

-----------------------------------------------------------------------------

\* What has ended stays ended.  After a password reset or a detected reuse no session
\* granted before it can be refreshed any more, however often its token was rotated; the
\* exception is a request that was already under way at that moment.  And of all the
\* tokens descended from a login at most one can be used, unless two requests presented
\* the same token at the same time, when both get a successor (auth.service.js:173-236).
SessionsStayEnded ==
  /\ \A t \in RefreshTokens : Usable(t) => refresh[t].origin # "ended"
  /\ \A login \in RefreshTokens \ forked :
       Cardinality({t \in RefreshTokens : Usable(t) /\ refresh[t].login = login}) <= 1

\* The counter that locks an account equals the number of wrong passwords since it last
\* restarted, unless overlapping requests wrote it from outdated copies; and it never
\* reaches the limit without the account being locked (auth.service.js:113-123).
CounterCountsFailures ==
  \A u \in Accounts \ blurred :
    account[u].attempts = failures[u] /\ failures[u] < MaxFailedAttempts
=============================================================================
