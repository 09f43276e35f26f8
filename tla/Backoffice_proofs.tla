--------------------------- MODULE Backoffice_proofs ---------------------------
(***************************************************************************)
(* What the modules of accounts, staff and keys promise, for any number of *)
(* users, requests, rows and processes: the failure counter counts and     *)
(* ended sessions stay ended (Sessions), somebody administers (UserAdmin), *)
(* closed books are kept and reports add up (Finance), opt-outs are        *)
(* respected and messages delivered once (Notifications), a published      *)
(* review shows the text a moderator saw (Reviews), all of it side by side *)
(* with the types of every variable (MCBackoffice), and nothing becomes    *)
(* unreadable (KeyRotation).                                               *)
(***************************************************************************)
EXTENDS MCBackoffice, KeyRotation, SumLemmas, FiniteSetTheorems, TLAPS

-----------------------------------------------------------------------------
\* What a column is after a write of the columns that differ from the copy.
Either(new, copied, now) == IF new # copied THEN new ELSE now

\* Sessions.  A request that nobody crossed holds the counter as it is, and its token is
\* usable; no request carries the authority of a session that has ended.

AccountRow == [status : UserStatus \union {"ABSENT"}, attempts : 0..MaxFailedAttempts, lock : Locks]
ClientStates ==
  [at : {"idle", "compare", "register", "issue", "account", "rotate", "reuse", "logout", "reset", "confirm", "change"},
   user : Accounts \union {Nobody}, key : RefreshTokens \union ResetTokens \union {Nothing},
   seen : SUBSET ResetTokens, to : UserStatus, copy : AccountRow, crossed : BOOLEAN, origin : Origins]

STypes ==
  /\ account \in [Accounts -> AccountRow]
  /\ refresh \in [RefreshTokens -> RefreshToken \union {Unissued}]
  /\ reset \in [ResetTokens -> ResetToken \union {Unissued}]
  /\ client \in [Clients -> ClientStates]
  /\ failures \in [Accounts -> Nat]
  /\ \A c \in Clients : /\ client[c].at # "idle" => client[c].user \in Accounts
                        /\ client[c].at \in {"account", "rotate", "logout"} => client[c].key \in RefreshTokens

HoldsCounter(c) == client[c].at \in {"compare", "confirm", "change"}
CopyCounts(c) ==
  HoldsCounter(c) /\ client[c].crossed = FALSE => client[c].copy.attempts = account[client[c].user].attempts
SCounter == (\A c \in Clients : CopyCounts(c)) /\ CounterCountsFailures

Stale(request) == request.crossed = TRUE

HoldsToken(c) == client[c].at \in {"account", "rotate"}
TokenStands(c) ==
  /\ client[c].origin # "ended"
  /\ HoldsToken(c) => Issued(client[c].key) /\ refresh[client[c].key].user = client[c].user
  /\ HoldsToken(c) /\ client[c].crossed = FALSE => Usable(client[c].key)
STokens ==
  /\ \A c \in Clients : TokenStands(c)
  /\ \A t \in RefreshTokens : Issued(t) => Issued(refresh[t].login)
  /\ \A t \in RefreshTokens : Usable(t) => refresh[t].origin # "ended"
  /\ \A t, q \in RefreshTokens :
       Usable(t) /\ Usable(q) /\ refresh[t].login = refresh[q].login /\ refresh[t].login \notin forked => t = q

\* What the other requests become while one of them commits: crossed or overlapped, in
\* everything else as they were.
Like(new, old) ==
  /\ new \in ClientStates
  /\ new.at = old.at /\ new.user = old.user /\ new.key = old.key /\ new.copy = old.copy
  /\ new.crossed = FALSE => old.crossed = FALSE
  /\ new.origin = old.origin \/ new.origin = "overlapped"

LEMMA IdleClient == Idle \in ClientStates /\ Idle.at = "idle" /\ Idle.origin = "valid"
<1>1. Unregistered \in AccountRow
  BY SessionsAssumption DEF Unregistered, AccountRow, Locks
<1>2. "ACTIVE" \in UserStatus
  BY SessionsAssumption
<1> QED
  BY <1>1, <1>2 DEF Idle, ClientStates, Origins

LEMMA MarkedAlike ==
  ASSUME NEW old \in ClientStates
  PROVE  /\ Like(old, old)
         /\ Like([old EXCEPT !.crossed = TRUE], old) /\ Stale([old EXCEPT !.crossed = TRUE])
         /\ Like([old EXCEPT !.origin = "overlapped"], old)
BY DEF Like, Stale, ClientStates, Origins

LEMMA LikeIsTransitive ==
  ASSUME NEW x, NEW y, NEW z, Like(x, y), Like(y, z)
  PROVE  Like(x, z)
BY DEF Like

\* Each of the operators that mark requests.
LEMMA Marking ==
  ASSUME NEW reqs \in [Clients -> ClientStates], NEW c \in Clients, NEW u, NEW t
  PROVE  /\ CrossUser(reqs, c, u) \in [Clients -> ClientStates] /\ CrossUser(reqs, c, u)[c] = reqs[c]
         /\ \A d \in Clients : Like(CrossUser(reqs, c, u)[d], reqs[d])
         /\ \A d \in Clients \ {c} : reqs[d].user = u /\ reqs[d].at \in {"compare", "confirm", "change"} =>
              Stale(CrossUser(reqs, c, u)[d])
         /\ CrossToken(reqs, c, t) \in [Clients -> ClientStates] /\ CrossToken(reqs, c, t)[c] = reqs[c]
         /\ \A d \in Clients : Like(CrossToken(reqs, c, t)[d], reqs[d])
         /\ \A d \in Clients \ {c} : reqs[d].key = t => Stale(CrossToken(reqs, c, t)[d])
         /\ CrossTokens(reqs, c, u) \in [Clients -> ClientStates] /\ CrossTokens(reqs, c, u)[c] = reqs[c]
         /\ \A d \in Clients : Like(CrossTokens(reqs, c, u)[d], reqs[d])
         /\ \A d \in Clients \ {c} : reqs[d].user = u /\ reqs[d].at \in {"account", "rotate"} =>
              Stale(CrossTokens(reqs, c, u)[d])
         /\ Overlapped(reqs, c, u) \in [Clients -> ClientStates] /\ Overlapped(reqs, c, u)[c] = reqs[c]
         /\ \A d \in Clients : Like(Overlapped(reqs, c, u)[d], reqs[d])
<1>1. ASSUME NEW d \in Clients
      PROVE  /\ Like(CrossUser(reqs, c, u)[d], reqs[d]) /\ Like(CrossToken(reqs, c, t)[d], reqs[d])
             /\ Like(CrossTokens(reqs, c, u)[d], reqs[d]) /\ Like(Overlapped(reqs, c, u)[d], reqs[d])
             /\ d # c /\ reqs[d].user = u /\ reqs[d].at \in {"compare", "confirm", "change"} =>
                  Stale(CrossUser(reqs, c, u)[d])
             /\ d # c /\ reqs[d].key = t => Stale(CrossToken(reqs, c, t)[d])
             /\ d # c /\ reqs[d].user = u /\ reqs[d].at \in {"account", "rotate"} =>
                  Stale(CrossTokens(reqs, c, u)[d])
  <2>1. reqs[d] \in ClientStates
    OBVIOUS
  <2> QED
    BY <2>1, MarkedAlike DEF CrossUser, CrossToken, CrossTokens, Overlapped
<1>2. \A d \in Clients : /\ CrossUser(reqs, c, u)[d] \in ClientStates /\ CrossToken(reqs, c, t)[d] \in ClientStates
                         /\ CrossTokens(reqs, c, u)[d] \in ClientStates /\ Overlapped(reqs, c, u)[d] \in ClientStates
  BY <1>1 DEF Like
<1>3. /\ CrossUser(reqs, c, u) = [d \in Clients |-> CrossUser(reqs, c, u)[d]]
      /\ CrossToken(reqs, c, t) = [d \in Clients |-> CrossToken(reqs, c, t)[d]]
      /\ CrossTokens(reqs, c, u) = [d \in Clients |-> CrossTokens(reqs, c, u)[d]]
      /\ Overlapped(reqs, c, u) = [d \in Clients |-> Overlapped(reqs, c, u)[d]]
  BY DEF CrossUser, CrossToken, CrossTokens, Overlapped
<1>4. /\ CrossUser(reqs, c, u)[c] = reqs[c] /\ CrossToken(reqs, c, t)[c] = reqs[c]
      /\ CrossTokens(reqs, c, u)[c] = reqs[c] /\ Overlapped(reqs, c, u)[c] = reqs[c]
  BY DEF CrossUser, CrossToken, CrossTokens, Overlapped
<1>5. /\ CrossUser(reqs, c, u) \in [Clients -> ClientStates] /\ CrossToken(reqs, c, t) \in [Clients -> ClientStates]
      /\ CrossTokens(reqs, c, u) \in [Clients -> ClientStates] /\ Overlapped(reqs, c, u) \in [Clients -> ClientStates]
  BY <1>2, <1>3
<1> QED
  BY <1>1, <1>4, <1>5

\* Columns that differ from the copy.
LEMMA WrittenRow ==
  ASSUME NEW row \in AccountRow, NEW copy \in AccountRow, NEW n \in 0..MaxFailedAttempts, NEW lock \in Locks, NEW status \in UserStatus
  PROVE  /\ Write(row, copy, [attempts |-> n]) \in AccountRow
         /\ Write(row, copy, [attempts |-> n]).attempts = Either(n, copy.attempts, row.attempts)
         /\ Write(row, copy, [attempts |-> n, lock |-> lock]) \in AccountRow
         /\ Write(row, copy, [attempts |-> n, lock |-> lock]).attempts = Either(n, copy.attempts, row.attempts)
         /\ Write(row, copy, [status |-> status]) \in AccountRow
         /\ Write(row, copy, [status |-> status]).attempts = row.attempts
         /\ Write(row, copy, [status |-> status, attempts |-> n, lock |-> lock]) \in AccountRow
         /\ Write(row, copy, [status |-> status, attempts |-> n, lock |-> lock]).attempts =
              Either(n, copy.attempts, row.attempts)
<1>1. /\ Write(row, copy, [attempts |-> n]) \in AccountRow
      /\ Write(row, copy, [attempts |-> n]).attempts = Either(n, copy.attempts, row.attempts)
  BY DEF Write, AccountRow, Either
<1>2. /\ Write(row, copy, [attempts |-> n, lock |-> lock]) \in AccountRow
      /\ Write(row, copy, [attempts |-> n, lock |-> lock]).attempts = Either(n, copy.attempts, row.attempts)
  BY DEF Write, AccountRow, Either
<1>3. /\ Write(row, copy, [status |-> status]) \in AccountRow
      /\ Write(row, copy, [status |-> status]).attempts = row.attempts
  BY DEF Write, AccountRow
<1>4. /\ Write(row, copy, [status |-> status, attempts |-> n, lock |-> lock]) \in AccountRow
      /\ Write(row, copy, [status |-> status, attempts |-> n, lock |-> lock]).attempts =
           Either(n, copy.attempts, row.attempts)
  BY DEF Write, AccountRow, Either
<1> QED
  BY <1>1, <1>2, <1>3, <1>4

-----------------------------------------------------------------------------

\* All but c are as they were, up to their marks.
OthersAlike(c) == client' \in [Clients -> ClientStates] /\ \A d \in Clients \ {c} : Like(client'[d], client[d])

WellFormed(request) ==
  /\ request \in ClientStates
  /\ request.at # "idle" => request.user \in Accounts
  /\ request.at \in {"account", "rotate", "logout"} => request.key \in RefreshTokens

SInv == STypes /\ SCounter /\ STokens

LEMMA SessionsStart == SessionsInit => SInv
<1> SUFFICES ASSUME SessionsInit PROVE SInv
  OBVIOUS
<1>1. /\ \A u \in Accounts : account[u] \in AccountRow /\ account[u].attempts = 0
      /\ account \in [Accounts -> AccountRow]
  BY SessionsAssumption DEF SessionsInit, Unregistered, Seeded, AccountRow, Locks
<1>2. STypes
  BY <1>1, IdleClient DEF SessionsInit, STypes
<1>3. SCounter
  BY <1>1, IdleClient, SessionsAssumption DEF SessionsInit, SCounter, CopyCounts, HoldsCounter, CounterCountsFailures
<1>4. STokens
  BY IdleClient DEF SessionsInit, STokens, TokenStands, HoldsToken, Issued, Usable
<1> QED
  BY <1>2, <1>3, <1>4 DEF SInv

LEMMA TypesMove ==
  ASSUME STypes, NEW c \in Clients, OthersAlike(c), WellFormed(client'[c]),
         account' \in [Accounts -> AccountRow],
         refresh' \in [RefreshTokens -> RefreshToken \union {Unissued}],
         reset' \in [ResetTokens -> ResetToken \union {Unissued}],
         failures' \in [Accounts -> Nat]
  PROVE  STypes'
<1>1. ASSUME NEW d \in Clients
      PROVE  /\ client'[d].at # "idle" => client'[d].user \in Accounts
             /\ client'[d].at \in {"account", "rotate", "logout"} => client'[d].key \in RefreshTokens
  <2>1. CASE d = c
    BY <2>1 DEF WellFormed
  <2>2. CASE d # c
    <3>1. Like(client'[d], client[d])
      BY <2>2 DEF OthersAlike
    <3> QED
      BY <3>1 DEF Like, STypes
  <2> QED
    BY <2>1, <2>2
<1> QED
  BY <1>1 DEF STypes, OthersAlike

\* No counter moves.
LEMMA CounterRests ==
  ASSUME STypes, SCounter, NEW c \in Clients, OthersAlike(c), CopyCounts(c)',
         \A u \in Accounts : account'[u].attempts = account[u].attempts,
         UNCHANGED <<failures, blurred>>
  PROVE  SCounter'
<1>1. ASSUME NEW d \in Clients \ {c} PROVE CopyCounts(d)'
  <2>1. Like(client'[d], client[d])
    BY DEF OthersAlike
  <2>2. HoldsCounter(d) => client[d].user \in Accounts
    BY DEF STypes, HoldsCounter
  <2> QED
    BY <2>1, <2>2 DEF Like, SCounter, CopyCounts, HoldsCounter
<1>2. CounterCountsFailures'
  BY DEF SCounter, CounterCountsFailures
<1> QED
  BY <1>1, <1>2 DEF SCounter

\* The counter of account u is written through the copy of c: m is the column's new
\* value, n the number of failures it stands for.
WritesCounter(c, u, n, m, row) ==
  /\ HoldsCounter(c) /\ u = client[c].user
  /\ n \in Nat /\ m \in Nat /\ row \in AccountRow
  /\ Counted(c, u, n) /\ account' = [account EXCEPT ![u] = row]
  /\ row.attempts = Either(m, client[c].copy.attempts, account[u].attempts)
  /\ n = 0 => m = 0
  /\ n # 0 => m = client[c].copy.attempts + 1 /\ n = failures[u] + 1 /\ m < MaxFailedAttempts

LEMMA CounterMoves ==
  ASSUME STypes, SCounter, NEW c \in Clients, NEW u, NEW n, NEW m, NEW row, WritesCounter(c, u, n, m, row),
         OthersAlike(c), ~HoldsCounter(c)',
         \A d \in Clients \ {c} : HoldsCounter(d) /\ client[d].user = u => Stale(client'[d])
  PROVE  SCounter'
<1>0. /\ HoldsCounter(c) /\ u = client[c].user
      /\ n \in Nat /\ m \in Nat /\ row \in AccountRow
      /\ Counted(c, u, n) /\ account' = [account EXCEPT ![u] = row]
      /\ row.attempts = Either(m, client[c].copy.attempts, account[u].attempts)
      /\ n = 0 => m = 0
      /\ n # 0 => m = client[c].copy.attempts + 1 /\ n = failures[u] + 1 /\ m < MaxFailedAttempts
  BY DEF WritesCounter
<1>1. u \in Accounts /\ client[c] \in ClientStates
  BY <1>0 DEF STypes, HoldsCounter
<1>2. /\ \A v \in Accounts : account'[v] = IF v = u THEN row ELSE account[v]
      /\ \A v \in Accounts : failures'[v] = IF v = u THEN n ELSE failures[v]
      /\ blurred' = IF client[c].crossed THEN blurred \union {u} ELSE IF n = 0 THEN blurred \ {u} ELSE blurred
  BY <1>0, <1>1 DEF STypes, Counted
<1>3. ASSUME NEW d \in Clients PROVE CopyCounts(d)'
  <2>1. CASE d = c
    BY <2>1 DEF CopyCounts
  <2>2. CASE d # c
    <3>1. Like(client'[d], client[d])
      BY <2>2 DEF OthersAlike
    <3>2. HoldsCounter(d) => client[d].user \in Accounts
      BY DEF STypes, HoldsCounter
    <3>3. CASE HoldsCounter(d) /\ client[d].user = u
      BY <2>2, <3>3 DEF CopyCounts, Stale
    <3>4. CASE ~(HoldsCounter(d) /\ client[d].user = u)
      BY <1>2, <3>1, <3>2, <3>4 DEF Like, SCounter, CopyCounts, HoldsCounter
    <3> QED
      BY <3>3, <3>4
  <2> QED
    BY <2>1, <2>2
<1>4. ASSUME NEW v \in Accounts \ blurred'
      PROVE  account'[v].attempts = failures'[v] /\ failures'[v] < MaxFailedAttempts
  <2>1. CASE v # u
    BY <1>2, <2>1 DEF SCounter, CounterCountsFailures
  <2>2. CASE v = u
    <3>1. client[c].crossed = FALSE
      BY <1>1, <1>2, <2>2 DEF ClientStates
    <3>2. row.attempts = m
      BY <1>0, <3>1 DEF SCounter, CopyCounts, Either
    <3>3. CASE n = 0
      BY <1>0, <1>2, <2>2, <3>2, <3>3, SessionsAssumption
    <3>4. CASE n # 0
      <4>1. v \notin blurred
        BY <1>2, <3>1, <3>4
      <4>2. client[c].copy.attempts = failures[u]
        BY <1>0, <2>2, <3>1, <4>1 DEF SCounter, CopyCounts, CounterCountsFailures
      <4> QED
        BY <1>0, <1>2, <2>2, <3>2, <3>4, <4>2
    <3> QED
      BY <3>3, <3>4
  <2> QED
    BY <2>1, <2>2
<1> QED
  BY <1>3, <1>4 DEF SCounter, CounterCountsFailures

\* No token changes.
LEMMA TokensRest ==
  ASSUME STypes, STokens, NEW c \in Clients, OthersAlike(c), TokenStands(c)', UNCHANGED <<refresh, forked>>
  PROVE  STokens'
<1>1. ASSUME NEW d \in Clients \ {c} PROVE TokenStands(d)'
  <2>1. Like(client'[d], client[d])
    BY DEF OthersAlike
  <2> QED
    BY <2>1 DEF Like, STokens, TokenStands, HoldsToken, Usable, Issued
<1> QED
  BY <1>1 DEF STokens, Usable, Issued

\* Tokens of u are revoked, and their sessions ended.
LEMMA TokensRevoked ==
  ASSUME STypes, STokens, NEW c \in Clients, OthersAlike(c), TokenStands(c)', ~HoldsToken(c)',
         NEW u \in Accounts, NEW reason \in {"REUSE_DETECTED", "PASSWORD_RESET"},
         refresh' = Ended(Revoked(u, reason), u), UNCHANGED forked,
         \A d \in Clients \ {c} : HoldsToken(d) /\ client[d].user = u => Stale(client'[d])
  PROVE  STokens' /\ refresh' \in [RefreshTokens -> RefreshToken \union {Unissued}]
<1>1. ASSUME NEW t \in RefreshTokens
      PROVE  /\ refresh'[t] \in RefreshToken \union {Unissued}
             /\ Issued(t)' <=> Issued(t)
             /\ refresh'[t].user = refresh[t].user /\ refresh'[t].login = refresh[t].login
             /\ Usable(t)' => Usable(t) /\ refresh'[t] = refresh[t]
             /\ Usable(t) /\ refresh[t].user # u => Usable(t)'
  <2>1. Unissued \notin RefreshToken
    BY DEF Unissued, RefreshToken
  <2>2. CASE refresh[t] = Unissued
    <3>1. Revoked(u, reason)[t] = Unissued
      BY <2>2 DEF Revoked, Usable, Issued
    <3>2. refresh'[t] = Unissued
      BY <3>1 DEF Ended
    <3> QED
      BY <2>2, <3>2 DEF Issued, Usable
  <2>3. CASE refresh[t] # Unissued /\ refresh[t].user # u
    <3>1. Revoked(u, reason)[t] = refresh[t]
      BY <2>3 DEF Revoked
    <3>2. refresh'[t] = refresh[t]
      BY <2>3, <3>1 DEF Ended
    <3> QED
      BY <3>2 DEF STypes, Issued, Usable
  <2>4. CASE refresh[t] # Unissued /\ refresh[t].user = u
    <3> DEFINE row == Revoked(u, reason)[t]
    <3>1. refresh[t] \in RefreshToken
      BY <2>4 DEF STypes
    <3>2. /\ row \in RefreshToken /\ row.user = u /\ row.login = refresh[t].login /\ row.revoked # "NO"
      <4>1. CASE refresh[t].revoked = "NO"
        <5>1. row = [refresh[t] EXCEPT !.revoked = reason]
          BY <2>4, <4>1 DEF Revoked, Usable, Issued
        <5> QED
          BY <2>4, <3>1, <5>1 DEF RefreshToken
      <4>2. CASE refresh[t].revoked # "NO"
        <5>1. row = refresh[t]
          BY <4>2 DEF Revoked, Usable
        <5> QED
          BY <2>4, <3>1, <4>2, <5>1
      <4> QED
        BY <4>1, <4>2
    <3>3. refresh'[t] = [row EXCEPT !.origin = "ended"]
      BY <2>1, <3>2 DEF Ended
    <3> HIDE DEF row
    <3>4. /\ refresh'[t] \in RefreshToken /\ refresh'[t].user = u /\ refresh'[t].login = refresh[t].login
          /\ refresh'[t].revoked # "NO"
      BY <3>2, <3>3 DEF RefreshToken, Origins
    <3> QED
      BY <2>1, <2>4, <3>4 DEF Issued, Usable
  <2> QED
    BY <2>2, <2>3, <2>4
<1>2. refresh' \in [RefreshTokens -> RefreshToken \union {Unissued}]
  <2>1. refresh' = [t \in RefreshTokens |-> refresh'[t]]
    BY DEF Ended
  <2> QED
    BY <1>1, <2>1
<1>3. ASSUME NEW d \in Clients PROVE TokenStands(d)'
  <2>1. CASE d = c
    BY <2>1
  <2>2. CASE d # c
    <3>1. Like(client'[d], client[d]) /\ TokenStands(d) /\ (HoldsToken(d) => client[d].key \in RefreshTokens)
      BY <2>2 DEF OthersAlike, STokens, STypes, HoldsToken
    <3>2. client'[d].origin # "ended"
      BY <3>1 DEF Like, TokenStands
    <3>3. CASE HoldsToken(d)'
      <4>1. HoldsToken(d) /\ client'[d].key = client[d].key /\ client'[d].user = client[d].user
        BY <3>1, <3>3 DEF Like, HoldsToken
      <4>2. Issued(client[d].key)' /\ refresh'[client[d].key].user = client[d].user
        BY <1>1, <3>1, <4>1 DEF TokenStands
      <4>3. client'[d].crossed = FALSE => Usable(client[d].key)'
        BY <1>1, <2>2, <3>1, <4>1 DEF Like, Stale, TokenStands
      <4> QED
        BY <3>2, <4>1, <4>2, <4>3 DEF TokenStands, Issued, Usable
    <3> QED
      BY <3>2, <3>3 DEF TokenStands
  <2> QED
    BY <2>1, <2>2
<1>4. \A t \in RefreshTokens : Issued(t) => refresh[t].login \in RefreshTokens
  BY DEF STypes, Issued, RefreshToken
<1>5. \A t \in RefreshTokens : Issued(t)' => Issued(refresh[t].login)'
  <2> SUFFICES ASSUME NEW t \in RefreshTokens, Issued(t)' PROVE Issued(refresh[t].login)'
    OBVIOUS
  <2>1. Issued(refresh[t].login) /\ refresh[t].login \in RefreshTokens /\ refresh'[t].login = refresh[t].login
    BY <1>1, <1>4 DEF STokens
  <2> QED
    BY <1>1, <2>1 DEF Issued
<1> QED
  BY <1>1, <1>2, <1>3, <1>5 DEF STokens

-----------------------------------------------------------------------------

\* What requests are made of.
Kinds == {"compare", "register", "issue", "account", "rotate", "reuse", "logout", "reset", "confirm", "change"}
Keys == RefreshTokens \union ResetTokens \union {Nothing}

LEMMA Ingredients ==
  /\ \A kind \in {"compare", "register", "account", "reuse", "logout", "reset", "confirm", "change"} : kind \in Kinds
  /\ Nothing \in Keys /\ RefreshTokens \subseteq Keys /\ ResetTokens \subseteq Keys
BY DEF Kinds, Keys

LEMMA Requesting ==
  ASSUME STypes, NEW at \in Kinds, NEW u \in Accounts, NEW key \in Keys,
         NEW request, request = Request(at, u, key)
  PROVE  /\ request \in ClientStates /\ request.at = at /\ request.user = u /\ request.key = key
         /\ request.origin = "valid"
<1>1. Idle \in ClientStates /\ Idle.origin = "valid"
  BY IdleClient
<1> QED
  BY <1>1 DEF Request, ClientStates, Kinds, Keys

LEMMA Copying ==
  ASSUME STypes, NEW at \in Kinds, NEW u \in Accounts, NEW key \in Keys,
         NEW request, request = WithCopy(at, u, key)
  PROVE  /\ request \in ClientStates /\ request.at = at /\ request.user = u /\ request.key = key
         /\ request.origin = "valid" /\ request.copy = account[u]
<1>1. PICK plain : plain = Request(at, u, key)
  OBVIOUS
<1>2. plain \in ClientStates /\ plain.at = at /\ plain.user = u /\ plain.key = key /\ plain.origin = "valid"
  BY <1>1, Requesting
<1>3. request = [plain EXCEPT !.copy = account[u]] /\ account[u] \in AccountRow
  BY <1>1 DEF WithCopy, STypes
<1>4. \A r \in ClientStates, row \in AccountRow :
        LET copied == [r EXCEPT !.copy = row] IN
        /\ copied \in ClientStates /\ copied.at = r.at /\ copied.user = r.user /\ copied.key = r.key
        /\ copied.origin = r.origin /\ copied.copy = row
  BY DEF ClientStates
<1> QED
  BY <1>2, <1>3, <1>4

\* Only the request of c changes.
LEMMA Alone ==
  ASSUME STypes, NEW c \in Clients, NEW own \in ClientStates, client' = [client EXCEPT ![c] = own]
  PROVE  OthersAlike(c) /\ client'[c] = own
<1>1. client' \in [Clients -> ClientStates] /\ client'[c] = own /\ \A d \in Clients \ {c} : client'[d] = client[d]
  BY DEF STypes
<1>2. \A d \in Clients : Like(client[d], client[d])
  BY MarkedAlike DEF STypes
<1> QED
  BY <1>1, <1>2 DEF OthersAlike

LEMMA ArrivingKeeps ==
  ASSUME SInv, NEW c \in Clients, NEW request, Arrive(c, request), WellFormed(request),
         request.at \in {"compare", "confirm", "change"} => request.copy = account[request.user],
         request.at \in {"account", "rotate"} => Usable(request.key) /\ refresh[request.key].user = request.user,
         request.origin # "ended"
  PROVE  SInv'
<1>1. UNCHANGED <<account, refresh, reset, failures, blurred, forked>> /\ client' = [client EXCEPT ![c] = request]
  BY DEF Arrive, history
<1>2. OthersAlike(c) /\ client'[c] = request
  BY <1>1, Alone DEF SInv, WellFormed
<1>3. STypes'
  BY <1>1, <1>2, TypesMove DEF SInv, STypes
<1>4. SCounter'
  <2>1. CopyCounts(c)'
    BY <1>1, <1>2 DEF CopyCounts, HoldsCounter
  <2> QED
    BY <1>1, <1>2, <2>1, CounterRests DEF SInv
<1>5. STokens'
  <2>1. TokenStands(c)'
    BY <1>1, <1>2 DEF TokenStands, HoldsToken, Usable, Issued
  <2> QED
    BY <1>1, <1>2, <2>1, TokensRest DEF SInv
<1> QED
  BY <1>3, <1>4, <1>5 DEF SInv

LEMMA BeginningKeeps ==
  ASSUME SInv, NEW c \in Clients, Starts(c)
  PROVE  SInv'
<1>0. /\ STypes /\ Nothing \in Keys /\ RefreshTokens \subseteq Keys /\ ResetTokens \subseteq Keys
      /\ "compare" \in Kinds /\ "register" \in Kinds /\ "account" \in Kinds /\ "reuse" \in Kinds
      /\ "logout" \in Kinds /\ "reset" \in Kinds /\ "confirm" \in Kinds /\ "change" \in Kinds
  BY Ingredients DEF SInv
<1>1. ASSUME NEW u \in Accounts, BeginRegister(c, u) PROVE SInv'
  <2>1. PICK request : request = Request("register", u, Nothing)
    OBVIOUS
  <2>2. request \in ClientStates /\ request.at = "register" /\ request.user = u /\ request.origin = "valid"
    BY <1>0, <2>1, Requesting
  <2>3. WellFormed(request)
    BY <2>2 DEF WellFormed
  <2> QED
    BY <1>1, <2>1, <2>2, <2>3, ArrivingKeeps DEF BeginRegister
<1>2. ASSUME NEW u \in Accounts, BeginLogin(c, u) PROVE SInv'
  <2>1. PICK request : request = WithCopy("compare", u, Nothing)
    OBVIOUS
  <2>2. request \in ClientStates /\ request.at = "compare" /\ request.user = u /\ request.origin = "valid"
        /\ request.copy = account[u]
    BY <1>0, <2>1, Copying
  <2>3. WellFormed(request)
    BY <2>2 DEF WellFormed
  <2> QED
    BY <1>2, <2>1, <2>2, <2>3, ArrivingKeeps DEF BeginLogin
<1>3. ASSUME NEW u \in Accounts, BeginResetRequest(c, u) PROVE SInv'
  <2>1. PICK plain : plain = Request("reset", u, Nothing)
    OBVIOUS
  <2>2. plain \in ClientStates /\ plain.at = "reset" /\ plain.user = u /\ plain.origin = "valid"
    BY <1>0, <2>1, Requesting
  <2>3. PICK seen \in SUBSET ResetTokens : Arrive(c, [plain EXCEPT !.seen = seen])
    BY <1>3, <2>1 DEF BeginResetRequest
  <2>4. PICK request : request = [plain EXCEPT !.seen = seen]
    OBVIOUS
  <2>5. request \in ClientStates /\ request.at = "reset" /\ request.user = u /\ request.origin = "valid"
    BY <2>2, <2>4 DEF ClientStates
  <2>6. WellFormed(request)
    BY <2>5 DEF WellFormed
  <2> QED
    BY <2>3, <2>4, <2>5, <2>6, ArrivingKeeps
<1>4. ASSUME NEW u \in Accounts, NEW status \in UserStatus, BeginStatusChange(c, u, status) PROVE SInv'
  <2>1. PICK plain : plain = WithCopy("change", u, Nothing)
    OBVIOUS
  <2>2. plain \in ClientStates /\ plain.at = "change" /\ plain.user = u /\ plain.origin = "valid" /\ plain.copy = account[u]
    BY <1>0, <2>1, Copying
  <2>3. PICK request : request = [plain EXCEPT !.to = status]
    OBVIOUS
  <2>4. Arrive(c, request)
    BY <1>4, <2>1, <2>3 DEF BeginStatusChange
  <2>5. request \in ClientStates /\ request.at = "change" /\ request.user = u /\ request.origin = "valid"
        /\ request.copy = account[u]
    BY <2>2, <2>3 DEF ClientStates
  <2>6. WellFormed(request)
    BY <2>5 DEF WellFormed
  <2> QED
    BY <2>4, <2>5, <2>6, ArrivingKeeps
<1>5. ASSUME NEW t \in RefreshTokens, BeginRefresh(c, t) \/ BeginLogout(c, t) PROVE SInv'
  <2>1. Issued(t)
    BY <1>5 DEF BeginRefresh, BeginLogout, Usable
  <2>2. refresh[t] \in RefreshToken
    BY <2>1 DEF SInv, STypes, Issued
  <2>3. refresh[t].user \in Accounts /\ refresh[t].origin \in Origins
    BY <2>2 DEF RefreshToken
  <2>4. CASE Arrive(c, Request("reuse", refresh[t].user, Nothing))
    <3>1. PICK request : request = Request("reuse", refresh[t].user, Nothing)
      OBVIOUS
    <3>2. request \in ClientStates /\ request.at = "reuse" /\ request.user = refresh[t].user /\ request.origin = "valid"
      BY <1>0, <2>3, <3>1, Requesting
    <3>3. WellFormed(request)
      BY <2>3, <3>2 DEF WellFormed
    <3> QED
      BY <2>4, <3>1, <3>2, <3>3, ArrivingKeeps
  <2>5. ASSUME NEW at \in {"account", "logout"}, Usable(t), Arrive(c, Presented(at, t)) PROVE SInv'
    <3>1. PICK plain : plain = Request(at, refresh[t].user, t)
      OBVIOUS
    <3>2. plain \in ClientStates /\ plain.at = at /\ plain.user = refresh[t].user /\ plain.key = t
      <4>1. at \in Kinds /\ t \in Keys
        BY <1>0
      <4> QED
        BY <1>0, <2>3, <3>1, <4>1, Requesting
    <3>3. PICK request : request = [plain EXCEPT !.origin = refresh[t].origin]
      OBVIOUS
    <3>4. Arrive(c, request)
      BY <2>5, <3>1, <3>3 DEF Presented
    <3>5. refresh[t].origin # "ended"
      BY <2>5 DEF SInv, STokens
    <3>6. /\ request \in ClientStates /\ request.at = at /\ request.user = refresh[t].user /\ request.key = t
          /\ request.origin # "ended"
      BY <2>3, <3>2, <3>3, <3>5 DEF ClientStates
    <3>7. WellFormed(request)
      BY <2>3, <3>6 DEF WellFormed
    <3> QED
      BY <2>5, <3>4, <3>6, <3>7, ArrivingKeeps
  <2> QED
    BY <1>5, <2>1, <2>4, <2>5 DEF BeginRefresh, BeginLogout, Usable
<1>6. ASSUME NEW r \in ResetTokens, BeginConfirm(c, r) PROVE SInv'
  <2>1. reset[r].user \in Accounts
    BY <1>6 DEF BeginConfirm, SInv, STypes, ResetToken
  <2>2. PICK request : request = WithCopy("confirm", reset[r].user, r)
    OBVIOUS
  <2>3. request \in ClientStates /\ request.at = "confirm" /\ request.user = reset[r].user /\ request.origin = "valid"
        /\ request.copy = account[reset[r].user]
    <3>1. r \in Keys
      BY <1>0
    <3> QED
      BY <1>0, <2>1, <2>2, <3>1, Copying
  <2>4. WellFormed(request)
    BY <2>1, <2>3 DEF WellFormed
  <2> QED
    BY <1>6, <2>2, <2>3, <2>4, ArrivingKeeps DEF BeginConfirm
<1> QED
  BY <1>1, <1>2, <1>3, <1>4, <1>5, <1>6 DEF Starts

-----------------------------------------------------------------------------

\* The request of c goes on to another step, or ends; the others are as before.
LEMMA MovingOn ==
  ASSUME STypes, NEW c \in Clients, NEW at \in Kinds, NEW reqs, reqs = Moves(c, at)
  PROVE  /\ reqs \in [Clients -> ClientStates] /\ \A d \in Clients \ {c} : reqs[d] = client[d]
         /\ reqs[c].at = at /\ reqs[c].user = client[c].user /\ reqs[c].key = client[c].key
         /\ reqs[c].origin = client[c].origin /\ reqs[c].crossed = client[c].crossed
<1>1. client[c] \in ClientStates
  BY DEF STypes
<1>2. PICK own : own = [client[c] EXCEPT !.at = at]
  OBVIOUS
<1>3. /\ own \in ClientStates /\ own.at = at /\ own.user = client[c].user /\ own.key = client[c].key
      /\ own.origin = client[c].origin /\ own.crossed = client[c].crossed
  BY <1>1, <1>2 DEF ClientStates, Kinds
<1>4. reqs = [client EXCEPT ![c] = own]
  BY <1>2 DEF Moves
<1> QED
  BY <1>3, <1>4 DEF STypes

LEMMA Finishing ==
  ASSUME STypes, NEW c \in Clients, NEW reqs, reqs = Finished(c)
  PROVE  reqs \in [Clients -> ClientStates] /\ reqs[c] = Idle /\ \A d \in Clients \ {c} : reqs[d] = client[d]
BY IdleClient DEF Finished, STypes

\* An idle request carries nothing.
LEMMA IdleIsFine ==
  ASSUME NEW c \in Clients, client'[c] = Idle
  PROVE  WellFormed(client'[c]) /\ CopyCounts(c)' /\ ~HoldsCounter(c)' /\ TokenStands(c)' /\ ~HoldsToken(c)'
BY IdleClient DEF WellFormed, CopyCounts, HoldsCounter, TokenStands, HoldsToken

LEMMA Unmarked ==
  ASSUME STypes, NEW c \in Clients, client' \in [Clients -> ClientStates], \A d \in Clients \ {c} : client'[d] = client[d]
  PROVE  OthersAlike(c)
<1>1. \A d \in Clients : Like(client[d], client[d])
  BY MarkedAlike DEF STypes
<1> QED
  BY <1>1 DEF OthersAlike

LEMMA RegisteringKeeps ==
  ASSUME SInv, NEW c \in Clients, Register(c)
  PROVE  SInv'
<1>1. client[c].at = "register" /\ UNCHANGED <<refresh, reset, failures, blurred, forked>> /\ STypes
  BY DEF Register, history, SInv
<1>2. client[c].user \in Accounts /\ TokenStands(c)
  BY <1>1 DEF SInv, STypes, STokens
<1>3. OthersAlike(c) /\ WellFormed(client'[c]) /\ CopyCounts(c)' /\ TokenStands(c)'
  <2>1. CASE client' = Finished(c)
    BY <1>1, <2>1, Finishing, Unmarked, IdleIsFine
  <2>2. CASE client' = Moves(c, "issue")
    <3>1. "issue" \in Kinds
      BY DEF Kinds
    <3>2. /\ client' \in [Clients -> ClientStates] /\ \A d \in Clients \ {c} : client'[d] = client[d]
          /\ client'[c].at = "issue" /\ client'[c].user = client[c].user /\ client'[c].origin = client[c].origin
      BY <1>1, <2>2, <3>1, MovingOn
    <3> QED
      BY <1>1, <1>2, <3>2, Unmarked DEF WellFormed, CopyCounts, HoldsCounter, TokenStands, HoldsToken
  <2> QED
    BY <2>1, <2>2 DEF Register
<1>4. account' \in [Accounts -> AccountRow] /\ \A u \in Accounts : account'[u].attempts = account[u].attempts
  <2>1. CASE UNCHANGED account
    BY <1>1, <2>1 DEF STypes
  <2>2. CASE account' = [account EXCEPT ![client[c].user].status = "ACTIVE"]
    BY <1>1, <1>2, <2>2, SessionsAssumption DEF STypes, AccountRow
  <2> QED
    BY <2>1, <2>2 DEF Register
<1>5. STypes'
  BY <1>1, <1>3, <1>4, TypesMove DEF STypes
<1>6. SCounter'
  BY <1>1, <1>3, <1>4, CounterRests DEF SInv
<1>7. STokens'
  BY <1>1, <1>3, TokensRest DEF SInv
<1> QED
  BY <1>5, <1>6, <1>7 DEF SInv

\* A step that writes neither accounts nor tokens.
LEMMA GoingOnKeeps ==
  ASSUME SInv, NEW c \in Clients, UNCHANGED <<account, refresh, failures, blurred, forked>>,
         reset' \in [ResetTokens -> ResetToken \union {Unissued}], client' = Finished(c)
  PROVE  SInv'
<1>1. OthersAlike(c) /\ WellFormed(client'[c]) /\ CopyCounts(c)' /\ TokenStands(c)'
  BY Finishing, Unmarked, IdleIsFine DEF SInv
<1>2. STypes'
  BY <1>1, TypesMove DEF SInv, STypes
<1>3. SCounter'
  BY <1>1, CounterRests DEF SInv
<1>4. STokens'
  BY <1>1, TokensRest DEF SInv
<1> QED
  BY <1>2, <1>3, <1>4 DEF SInv

LEMMA ReadingKeeps ==
  ASSUME SInv, NEW c \in Clients, ReadAccount(c)
  PROVE  SInv'
<1>1. /\ client[c].at = "account" /\ UNCHANGED <<account, refresh, reset, failures, blurred, forked>> /\ STypes
      /\ client' = Finished(c) \/ client' = Moves(c, "rotate")
  BY DEF ReadAccount, history, SInv
<1>2. CASE client' = Finished(c)
  BY <1>1, <1>2, GoingOnKeeps DEF STypes
<1>3. CASE client' = Moves(c, "rotate")
  <2>1. "rotate" \in Kinds
    BY DEF Kinds
  <2>2. /\ client' \in [Clients -> ClientStates] /\ \A d \in Clients \ {c} : client'[d] = client[d]
        /\ client'[c].at = "rotate" /\ client'[c].user = client[c].user /\ client'[c].key = client[c].key
        /\ client'[c].origin = client[c].origin /\ client'[c].crossed = client[c].crossed
    BY <1>1, <1>3, <2>1, MovingOn
  <2>3. client[c].user \in Accounts /\ client[c].key \in RefreshTokens /\ TokenStands(c)
    BY <1>1 DEF SInv, STypes, STokens
  <2>4. WellFormed(client'[c]) /\ CopyCounts(c)'
    BY <2>2, <2>3 DEF WellFormed, CopyCounts, HoldsCounter
  <2>5. TokenStands(c)'
    BY <1>1, <2>2, <2>3 DEF TokenStands, HoldsToken, Issued, Usable
  <2>6. OthersAlike(c)
    BY <1>1, <2>2, Unmarked
  <2>7. STypes'
    BY <1>1, <2>4, <2>6, TypesMove DEF STypes
  <2>8. SCounter'
    BY <1>1, <2>4, <2>6, CounterRests DEF SInv
  <2>9. STokens'
    BY <1>1, <2>5, <2>6, TokensRest DEF SInv
  <2> QED
    BY <2>7, <2>8, <2>9 DEF SInv
<1> QED
  BY <1>1, <1>2, <1>3

\* A counter is written; the requests that hold it are crossed.
LEMMA CountingKeeps ==
  ASSUME SInv, NEW c \in Clients, NEW u, NEW n, NEW m, NEW row, WritesCounter(c, u, n, m, row),
         UNCHANGED <<refresh, reset>>,
         client' = CrossUser(Finished(c), c, u) \/ client' = CrossUser(Moves(c, "issue"), c, u)
  PROVE  SInv'
<1>1. u = client[c].user /\ u \in Accounts /\ TokenStands(c) /\ UNCHANGED forked /\ STypes
  BY DEF SInv, STypes, STokens, HoldsCounter, Counted, WritesCounter
<1>2. PICK reqs : client' = CrossUser(reqs, c, u) /\ (reqs = Finished(c) \/ reqs = Moves(c, "issue"))
  OBVIOUS
<1>3. /\ reqs \in [Clients -> ClientStates] /\ \A d \in Clients \ {c} : reqs[d] = client[d]
      /\ \/ reqs[c] = Idle
         \/ reqs[c].at = "issue" /\ reqs[c].user = client[c].user /\ reqs[c].origin = client[c].origin
  <2>1. "issue" \in Kinds
    BY DEF Kinds
  <2> QED
    BY <1>1, <1>2, <2>1, Finishing, MovingOn
<1>4. /\ client' \in [Clients -> ClientStates] /\ client'[c] = reqs[c]
      /\ \A d \in Clients : Like(client'[d], reqs[d])
      /\ \A d \in Clients \ {c} : reqs[d].user = u /\ reqs[d].at \in {"compare", "confirm", "change"} =>
           Stale(client'[d])
  BY <1>2, <1>3, Marking
<1>5. OthersAlike(c)
  BY <1>3, <1>4 DEF OthersAlike
<1>6. WellFormed(client'[c]) /\ ~HoldsCounter(c)' /\ TokenStands(c)'
  <2>1. CASE client'[c] = Idle
    BY <2>1, IdleIsFine
  <2>2. CASE client'[c].at = "issue" /\ client'[c].user = client[c].user /\ client'[c].origin = client[c].origin
    <3>1. client'[c] \in ClientStates
      BY <1>4
    <3>2. WellFormed(client'[c])
      BY <1>1, <2>2, <3>1 DEF WellFormed
    <3>3. ~HoldsCounter(c)'
      BY <2>2 DEF HoldsCounter
    <3>4. client[c].origin # "ended"
      BY <1>1 DEF TokenStands
    <3>5. TokenStands(c)'
      BY <2>2, <3>4 DEF TokenStands, HoldsToken
    <3> QED
      BY <3>2, <3>3, <3>5
  <2> QED
    BY <1>3, <1>4, <2>1, <2>2
<1>7. \A d \in Clients \ {c} : HoldsCounter(d) /\ client[d].user = u => Stale(client'[d])
  BY <1>3, <1>4 DEF HoldsCounter
<1>8. STypes'
  <2>1. /\ account' = [account EXCEPT ![u] = row] /\ failures' = [failures EXCEPT ![u] = n]
        /\ row \in AccountRow /\ n \in Nat
    BY DEF Counted, WritesCounter
  <2>2. account' \in [Accounts -> AccountRow]
    BY <1>1, <2>1 DEF STypes
  <2>3. failures' \in [Accounts -> Nat]
    BY <1>1, <2>1 DEF STypes
  <2>4. refresh' \in [RefreshTokens -> RefreshToken \union {Unissued}] /\ reset' \in [ResetTokens -> ResetToken \union {Unissued}]
    BY <1>1 DEF STypes
  <2> QED
    BY <1>1, <1>5, <1>6, <2>2, <2>3, <2>4, TypesMove
<1>9. SCounter'
  BY <1>5, <1>6, <1>7, CounterMoves DEF SInv
<1>10. STokens'
  BY <1>1, <1>5, <1>6, TokensRest DEF SInv
<1> QED
  BY <1>8, <1>9, <1>10 DEF SInv

LEMMA FailingKeeps ==
  ASSUME SInv, NEW c \in Clients, RegisterFailedAttempt(c)
  PROVE  SInv'
<1> DEFINE u == client[c].user
           copy == client[c].copy
           fields == FailureFields(copy)
           row == Write(account[u], copy, fields)
<1>1. /\ client[c].at = "compare" /\ account' = [account EXCEPT ![u] = row]
      /\ client' = CrossUser(Finished(c), c, u)
      /\ Counted(c, u, IF fields.attempts = 0 THEN 0 ELSE failures[u] + 1) /\ UNCHANGED <<refresh, reset>>
  BY DEF RegisterFailedAttempt
<1>2. client[c] \in ClientStates /\ u \in Accounts
  BY <1>1 DEF SInv, STypes
<1>3. copy \in AccountRow /\ account[u] \in AccountRow /\ failures[u] \in Nat /\ HoldsCounter(c)
  BY <1>1, <1>2 DEF ClientStates, SInv, STypes, HoldsCounter
<1>4. copy.attempts \in Nat /\ MaxFailedAttempts \in Nat \ {0} /\ "ACTIVE" \in UserStatus
      /\ "open" \in Locks /\ "running" \in Locks
  BY <1>3, SessionsAssumption DEF AccountRow, Locks
<1>5. CASE copy.attempts + 1 >= MaxFailedAttempts
  <2>1. fields = [attempts |-> 0, lock |-> "running"]
    BY <1>5 DEF FailureFields
  <2>2. 0 \in 0..MaxFailedAttempts
    BY <1>4
  <2>3. row \in AccountRow /\ row.attempts = Either(0, copy.attempts, account[u].attempts)
    <3>1. row = Write(account[u], copy, [attempts |-> 0, lock |-> "running"])
      BY <2>1
    <3> HIDE DEF row
    <3>2. /\ Write(account[u], copy, [attempts |-> 0, lock |-> "running"]) \in AccountRow
          /\ Write(account[u], copy, [attempts |-> 0, lock |-> "running"]).attempts = Either(0, copy.attempts, account[u].attempts)
      BY <1>3, <1>4, <2>2, WrittenRow
    <3> QED
      BY <3>1, <3>2
  <2>4. Counted(c, u, 0)
    BY <1>1, <2>1
  <2> HIDE DEF row
  <2>5. WritesCounter(c, u, 0, 0, row)
    BY <1>1, <1>3, <2>3, <2>4 DEF WritesCounter
  <2> QED
    BY <1>1, <2>5, CountingKeeps
<1>6. CASE ~(copy.attempts + 1 >= MaxFailedAttempts)
  <2>1. fields = [attempts |-> copy.attempts + 1]
    BY <1>6 DEF FailureFields
  <2>2. copy.attempts + 1 \in 0..MaxFailedAttempts /\ copy.attempts + 1 < MaxFailedAttempts /\ copy.attempts + 1 # 0
    BY <1>4, <1>6
  <2>3. row \in AccountRow /\ row.attempts = Either(copy.attempts + 1, copy.attempts, account[u].attempts)
    <3>1. row = Write(account[u], copy, [attempts |-> copy.attempts + 1])
      BY <2>1
    <3> HIDE DEF row
    <3>2. /\ Write(account[u], copy, [attempts |-> copy.attempts + 1]) \in AccountRow
          /\ Write(account[u], copy, [attempts |-> copy.attempts + 1]).attempts = Either(copy.attempts + 1, copy.attempts, account[u].attempts)
      BY <1>3, <1>4, <2>2, WrittenRow
    <3> QED
      BY <3>1, <3>2
  <2>4. Counted(c, u, failures[u] + 1)
    BY <1>1, <2>1, <2>2
  <2>5. failures[u] + 1 \in Nat /\ failures[u] + 1 # 0 /\ copy.attempts + 1 \in Nat
    BY <1>3, <1>4
  <2> HIDE DEF row
  <2>6. WritesCounter(c, u, failures[u] + 1, copy.attempts + 1, row)
    BY <1>1, <1>3, <2>2, <2>3, <2>4, <2>5 DEF WritesCounter
  <2> QED
    BY <1>1, <2>6, CountingKeeps
<1> QED
  BY <1>5, <1>6

LEMMA MatchingKeeps ==
  ASSUME SInv, NEW c \in Clients, PasswordMatches(c)
  PROVE  SInv'
<1> DEFINE u == client[c].user
           copy == client[c].copy
           row == Write(account[u], copy, Unlocked)
<1>1. /\ client[c].at = "compare" /\ account' = [account EXCEPT ![u] = row]
      /\ client' = CrossUser(Moves(c, "issue"), c, u)
      /\ Counted(c, u, 0) /\ UNCHANGED <<refresh, reset>>
  BY DEF PasswordMatches
<1>2. client[c] \in ClientStates /\ u \in Accounts
  BY <1>1 DEF SInv, STypes
<1>3. copy \in AccountRow /\ account[u] \in AccountRow /\ HoldsCounter(c)
  BY <1>1, <1>2 DEF ClientStates, SInv, STypes, HoldsCounter
<1>4. 0 \in 0..MaxFailedAttempts /\ "ACTIVE" \in UserStatus /\ "open" \in Locks
  BY SessionsAssumption DEF Locks
<1>5. row \in AccountRow /\ row.attempts = Either(0, copy.attempts, account[u].attempts)
  BY <1>3, <1>4, WrittenRow DEF Unlocked
<1> HIDE DEF row
<1>6. WritesCounter(c, u, 0, 0, row)
  BY <1>1, <1>3, <1>5 DEF WritesCounter
<1> QED
  BY <1>1, <1>6, CountingKeeps

-----------------------------------------------------------------------------

\* A token keeps its account and its login; the requests that hold one that stops being
\* usable are crossed.
KeepsTokens(c) ==
  /\ \A q \in RefreshTokens :
       Issued(q) => Issued(q)' /\ refresh'[q].user = refresh[q].user /\ refresh'[q].login = refresh[q].login
  /\ \A q \in RefreshTokens : Usable(q) /\ ~Usable(q)' =>
       \A d \in Clients \ {c} : HoldsToken(d) /\ client[d].key = q => Stale(client'[d])

LEMMA HoldersStand ==
  ASSUME STypes, STokens, NEW c \in Clients, OthersAlike(c), TokenStands(c)', KeepsTokens(c)
  PROVE  \A d \in Clients : TokenStands(d)'
<1> SUFFICES ASSUME NEW d \in Clients, d # c PROVE TokenStands(d)'
  OBVIOUS
<1>1. Like(client'[d], client[d]) /\ TokenStands(d)
  BY DEF OthersAlike, STokens
<1>2. client'[d].origin # "ended"
  BY <1>1 DEF Like, TokenStands
<1>3. CASE ~HoldsToken(d)'
  BY <1>2, <1>3 DEF TokenStands
<1>4. CASE HoldsToken(d)'
  <2>1. HoldsToken(d) /\ client'[d].key = client[d].key /\ client'[d].user = client[d].user
    BY <1>1, <1>4 DEF Like, HoldsToken
  <2>2. PICK q \in RefreshTokens : q = client[d].key
    BY <2>1 DEF STypes, HoldsToken
  <2>3. Issued(q) /\ refresh[q].user = client[d].user
    BY <1>1, <2>1, <2>2 DEF TokenStands
  <2>4. Issued(q)' /\ refresh'[q].user = client'[d].user
    BY <2>1, <2>3 DEF KeepsTokens
  <2>5. client'[d].crossed = FALSE => Usable(q)
    BY <1>1, <2>1, <2>2 DEF Like, TokenStands
  <2>6. client'[d].crossed = FALSE => Usable(q)'
    BY <2>1, <2>2, <2>5 DEF KeepsTokens, Stale
  <2> QED
    BY <1>2, <2>1, <2>2, <2>4, <2>6 DEF TokenStands, Issued, Usable
<1> QED
  BY <1>3, <1>4

\* What a session's first token, or its next, is.
LEMMA Inserted ==
  ASSUME SInv, NEW c \in Clients, client[c].at # "idle", NEW t \in RefreshTokens, NEW login \in RefreshTokens,
         NEW row, row = Insert(t, client[c].user, login, client[c].origin)
  PROVE  /\ row \in RefreshToken /\ row # Unissued /\ row.user = client[c].user /\ row.login = login
         /\ row.revoked = "NO" /\ row.origin # "ended"
<1>1. client[c].user \in Accounts /\ client[c].origin \in Origins /\ client[c].origin # "ended"
  BY DEF SInv, STypes, ClientStates, STokens, TokenStands
<1>2. row \in RefreshToken
  BY <1>1 DEF Insert, RefreshToken
<1>3. row.user = client[c].user /\ row.login = login /\ row.revoked = "NO" /\ row.origin = client[c].origin
  BY DEF Insert
<1>4. row # Unissued
  BY <1>2 DEF Unissued, RefreshToken
<1> QED
  BY <1>1, <1>2, <1>3, <1>4

LEMMA IssuingKeeps ==
  ASSUME SInv, NEW c \in Clients, IssueSession(c)
  PROVE  SInv'
<1>1. /\ client[c].at = "issue" /\ UNCHANGED <<account, reset, failures, blurred, forked>> /\ STypes /\ STokens
      /\ client' = Finished(c)
  BY DEF IssueSession, history, SInv
<1>2. PICK t \in RefreshTokens :
        ~Issued(t) /\ refresh' = [refresh EXCEPT ![t] = Insert(t, client[c].user, t, client[c].origin)]
  BY DEF IssueSession, NextToken, NextOf
<1>3. PICK row : row = Insert(t, client[c].user, t, client[c].origin)
  OBVIOUS
<1>4. /\ row \in RefreshToken /\ row # Unissued /\ row.login = t /\ row.revoked = "NO" /\ row.origin # "ended"
  BY <1>1, <1>3, Inserted
<1>5. /\ refresh' \in [RefreshTokens -> RefreshToken \union {Unissued}]
      /\ refresh'[t] = row /\ \A q \in RefreshTokens \ {t} : refresh'[q] = refresh[q]
  BY <1>1, <1>2, <1>3, <1>4 DEF STypes
<1>6. OthersAlike(c) /\ WellFormed(client'[c]) /\ CopyCounts(c)' /\ TokenStands(c)'
  BY <1>1, Finishing, Unmarked, IdleIsFine
<1>7. STypes'
  BY <1>1, <1>5, <1>6, TypesMove DEF STypes
<1>8. SCounter'
  BY <1>1, <1>6, CounterRests DEF SInv
<1>9. \A q \in RefreshTokens \ {t} : (Issued(q)' <=> Issued(q)) /\ (Usable(q)' <=> Usable(q))
  BY <1>5 DEF Usable, Issued
<1>10. Issued(t)' /\ ~Usable(t)
  BY <1>2, <1>4, <1>5 DEF Usable, Issued
<1>11. KeepsTokens(c)
  BY <1>2, <1>5, <1>9, <1>10 DEF KeepsTokens
<1>12. \A d \in Clients : TokenStands(d)'
  BY <1>1, <1>6, <1>11, HoldersStand
<1>13. \A q \in RefreshTokens : Issued(q) => refresh[q].login \in RefreshTokens /\ Issued(refresh[q].login)
  BY <1>1 DEF STypes, STokens, Issued, RefreshToken
<1>14. \A q \in RefreshTokens \ {t} : Issued(q) => refresh'[q].login # t
  BY <1>2, <1>5, <1>13
<1>15. ASSUME NEW q \in RefreshTokens, Issued(q)' PROVE Issued(refresh[q].login)'
  <2>1. CASE q = t
    BY <1>4, <1>5, <1>10, <2>1 DEF Issued
  <2>2. CASE q # t
    BY <1>5, <1>9, <1>13, <1>14, <1>15, <2>2 DEF Issued
  <2> QED
    BY <2>1, <2>2
<1>16. ASSUME NEW q \in RefreshTokens, Usable(q)' PROVE refresh'[q].origin # "ended"
  BY <1>1, <1>4, <1>5, <1>9, <1>16 DEF STokens
<1>17. ASSUME NEW p \in RefreshTokens, NEW q \in RefreshTokens, Usable(p)', Usable(q)',
              refresh'[p].login = refresh'[q].login, refresh'[p].login \notin forked'
       PROVE  p = q
  <2>1. CASE p # t /\ q # t
    BY <1>1, <1>5, <1>9, <1>17, <2>1 DEF STokens
  <2>2. CASE p = t \/ q = t
    BY <1>4, <1>5, <1>9, <1>14, <1>17, <2>2 DEF Usable
  <2> QED
    BY <2>1, <2>2
<1> QED
  BY <1>7, <1>8, <1>12, <1>15, <1>16, <1>17 DEF SInv, STokens

LEMMA RotatingKeeps ==
  ASSUME SInv, NEW c \in Clients, Rotate(c)
  PROVE  SInv'
<1>0. PICK old, login : old = client[c].key /\ login = refresh[old].login
  OBVIOUS
<1>1. /\ client[c].at = "rotate" /\ UNCHANGED <<account, reset, failures, blurred>> /\ STypes /\ STokens
      /\ client' = CrossToken(Finished(c), c, old)
      /\ forked' = IF client[c].crossed THEN forked \union {login} ELSE forked
  BY <1>0 DEF Rotate, SInv
<1>2. PICK t \in RefreshTokens :
        /\ ~Issued(t)
        /\ refresh' = [refresh EXCEPT ![t] = Insert(t, client[c].user, login, client[c].origin),
                                      ![old].revoked = "ROTATED", ![old].next = t]
  BY <1>0 DEF Rotate, NextToken, NextOf
<1>3. /\ old \in RefreshTokens /\ Issued(old) /\ (client[c].crossed = FALSE => Usable(old))
      /\ client[c] \in ClientStates /\ refresh[old].user = client[c].user
  BY <1>0, <1>1 DEF STypes, STokens, TokenStands, HoldsToken
<1>4. old # t /\ refresh[old] \in RefreshToken /\ login \in RefreshTokens
  BY <1>0, <1>1, <1>2, <1>3 DEF STypes, Issued, RefreshToken
<1>5. PICK row : row = Insert(t, client[c].user, login, client[c].origin)
  OBVIOUS
<1>6. /\ row \in RefreshToken /\ row # Unissued /\ row.login = login /\ row.revoked = "NO" /\ row.origin # "ended"
  BY <1>1, <1>4, <1>5, Inserted
<1>7. PICK past : past = [[refresh[old] EXCEPT !.revoked = "ROTATED"] EXCEPT !.next = t]
  OBVIOUS
<1>8. past \in RefreshToken /\ past.user = refresh[old].user /\ past.login = login /\ past.revoked = "ROTATED"
  BY <1>0, <1>4, <1>7 DEF RefreshToken
<1>9. /\ refresh' \in [RefreshTokens -> RefreshToken \union {Unissued}]
      /\ refresh'[t] = row /\ refresh'[old] = past
      /\ \A q \in RefreshTokens \ {t, old} : refresh'[q] = refresh[q]
  <2>1. refresh' = [[refresh EXCEPT ![t] = row] EXCEPT ![old] = past]
    BY <1>1, <1>2, <1>3, <1>4, <1>5, <1>7 DEF STypes
  <2> QED
    BY <1>1, <1>3, <1>4, <1>6, <1>8, <2>1 DEF STypes
<1>10. past # Unissued
  BY <1>8 DEF Unissued, RefreshToken
<1>11. PICK reqs : reqs = Finished(c)
  OBVIOUS
<1>12. reqs \in [Clients -> ClientStates] /\ reqs[c] = Idle /\ \A d \in Clients \ {c} : reqs[d] = client[d]
  BY <1>1, <1>11, Finishing
<1>13. /\ client' \in [Clients -> ClientStates] /\ client'[c] = Idle
       /\ \A d \in Clients : Like(client'[d], reqs[d])
       /\ \A d \in Clients \ {c} : reqs[d].key = old => Stale(client'[d])
  BY <1>1, <1>11, <1>12, Marking
<1>14. OthersAlike(c) /\ WellFormed(client'[c]) /\ CopyCounts(c)' /\ TokenStands(c)'
  BY <1>12, <1>13, IdleIsFine DEF OthersAlike
<1>15. STypes'
  BY <1>1, <1>9, <1>14, TypesMove DEF STypes
<1>16. SCounter'
  BY <1>1, <1>14, CounterRests DEF SInv
<1>17. /\ \A q \in RefreshTokens \ {t} : (Issued(q)' <=> Issued(q)) /\ refresh'[q].login = refresh[q].login
       /\ \A q \in RefreshTokens \ {t, old} : Usable(q)' <=> Usable(q)
       /\ Issued(t)' /\ ~Usable(t) /\ ~Usable(old)'
  <2>1. ~Issued(t)
    BY <1>2
  <2>2. ASSUME NEW q \in RefreshTokens \ {t}
        PROVE  (Issued(q)' <=> Issued(q)) /\ refresh'[q].login = refresh[q].login
    BY <1>0, <1>3, <1>8, <1>9, <1>10 DEF Issued
  <2>3. \A q \in RefreshTokens \ {t, old} : Usable(q)' <=> Usable(q)
    BY <1>9 DEF Usable, Issued
  <2>4. Issued(t)' /\ ~Usable(t) /\ ~Usable(old)'
    BY <1>6, <1>8, <1>9, <2>1 DEF Usable, Issued
  <2> QED
    BY <2>2, <2>3, <2>4
<1>18. KeepsTokens(c)
  <2>1. ASSUME NEW q \in RefreshTokens, Issued(q) PROVE Issued(q)' /\ refresh'[q].user = refresh[q].user
    BY <1>2, <1>8, <1>9, <1>17, <2>1
  <2>2. ASSUME NEW q \in RefreshTokens, Usable(q), ~Usable(q)' PROVE q = old
    BY <1>17, <2>2
  <2>3. \A q \in RefreshTokens : Issued(q) => q # t
    BY <1>2
  <2> QED
    BY <1>12, <1>13, <1>17, <2>1, <2>2, <2>3 DEF KeepsTokens
<1>19. \A d \in Clients : TokenStands(d)'
  BY <1>1, <1>14, <1>18, HoldersStand
<1>20. \A q \in RefreshTokens : Issued(q) => refresh[q].login \in RefreshTokens /\ Issued(refresh[q].login)
  BY <1>1 DEF STypes, STokens, Issued, RefreshToken
<1>21. refresh'[t].login = refresh[old].login /\ refresh[old].login = login
  BY <1>0, <1>6, <1>9
<1>22. \A q \in RefreshTokens : Issued(q) => Issued(q)'
  BY <1>17
<1>23. ASSUME NEW q \in RefreshTokens, Issued(q)' PROVE Issued(refresh[q].login)'
  <2>1. PICK p \in RefreshTokens : Issued(p) /\ refresh'[q].login = refresh[p].login
    BY <1>3, <1>17, <1>21, <1>23
  <2>2. PICK first \in RefreshTokens : first = refresh[p].login /\ Issued(first)
    BY <1>20, <2>1
  <2>3. Issued(first)'
    BY <1>22, <2>2
  <2> QED
    BY <2>1, <2>2, <2>3 DEF Issued
<1>24. ASSUME NEW q \in RefreshTokens, Usable(q)' PROVE refresh'[q].origin # "ended"
  <2>1. q # old
    BY <1>17, <1>24
  <2>2. CASE q = t
    BY <1>6, <1>9, <2>2
  <2>3. CASE q # t
    BY <1>1, <1>9, <1>17, <1>24, <2>1, <2>3 DEF STokens
  <2> QED
    BY <2>2, <2>3
<1>25. \A q \in RefreshTokens \ {t} : Usable(q)' => Usable(q) /\ q # old
  BY <1>17
<1>26. ASSUME NEW q \in RefreshTokens, q # t, Usable(q)', refresh'[q].login = login, login \notin forked'
       PROVE  FALSE
  <2>1. client[c].crossed = FALSE
    BY <1>1, <1>3, <1>26 DEF ClientStates
  <2>2. Usable(old) /\ Usable(q) /\ refresh[q].login = login /\ login \notin forked
    BY <1>1, <1>3, <1>17, <1>25, <1>26, <2>1
  <2>3. q = old
    BY <1>1, <1>3, <1>21, <2>2 DEF STokens
  <2> QED
    BY <1>25, <1>26, <2>3
<1>27. \A x : x \notin forked' => x \notin forked
  BY <1>1
<1>28. ASSUME NEW p \in RefreshTokens, NEW q \in RefreshTokens, Usable(p)', Usable(q)',
              refresh'[p].login = refresh'[q].login, refresh'[p].login \notin forked'
       PROVE  p = q
  <2>1. CASE p # t /\ q # t
    BY <1>1, <1>17, <1>25, <1>27, <1>28, <2>1 DEF STokens
  <2>2. CASE p = t \/ q = t
    BY <1>21, <1>26, <1>28, <2>2
  <2> QED
    BY <2>1, <2>2
<1> QED
  BY <1>15, <1>16, <1>19, <1>23, <1>24, <1>28 DEF SInv, STokens

LEMMA LoggingOutKeeps ==
  ASSUME SInv, NEW c \in Clients, Logout(c)
  PROVE  SInv'
<1> DEFINE old == client[c].key
<1>1. /\ client[c].at = "logout" /\ UNCHANGED <<account, reset, failures, blurred, forked>> /\ STypes /\ STokens
      /\ client' = CrossToken(Finished(c), c, old)
      /\ refresh' = [refresh EXCEPT ![old].revoked = "LOGOUT"]
  BY DEF Logout, history, SInv
<1>2. old \in RefreshTokens
  BY <1>1 DEF STypes
<1>3. PICK past : past = [refresh[old] EXCEPT !.revoked = "LOGOUT"]
  OBVIOUS
<1>4. /\ past \in RefreshToken \union {Unissued} /\ (past = Unissued <=> refresh[old] = Unissued)
      /\ refresh[old] # Unissued => past.user = refresh[old].user /\ past.login = refresh[old].login /\ past.revoked = "LOGOUT"
  <2>1. CASE refresh[old] = Unissued
    <3>1. past = Unissued
      BY <1>3, <2>1 DEF Unissued
    <3> QED
      BY <2>1, <3>1
  <2>2. CASE refresh[old] \in RefreshToken
    <3>1. /\ past \in RefreshToken /\ past.user = refresh[old].user /\ past.login = refresh[old].login
          /\ past.revoked = "LOGOUT"
      BY <1>3, <2>2 DEF RefreshToken
    <3>2. past # Unissued /\ refresh[old] # Unissued
      BY <2>2, <3>1 DEF Unissued, RefreshToken
    <3> QED
      BY <3>1, <3>2
  <2> QED
    BY <1>1, <1>2, <2>1, <2>2 DEF STypes
<1>5. /\ refresh' \in [RefreshTokens -> RefreshToken \union {Unissued}]
      /\ refresh'[old] = past /\ \A q \in RefreshTokens \ {old} : refresh'[q] = refresh[q]
  <2>1. refresh' = [refresh EXCEPT ![old] = past]
    BY <1>1, <1>3
  <2> QED
    BY <1>1, <1>2, <1>4, <2>1 DEF STypes
<1> HIDE DEF old
<1>6. PICK reqs : reqs = Finished(c)
  OBVIOUS
<1>7. reqs \in [Clients -> ClientStates] /\ reqs[c] = Idle /\ \A d \in Clients \ {c} : reqs[d] = client[d]
  BY <1>1, <1>6, Finishing
<1>8. /\ client' \in [Clients -> ClientStates] /\ client'[c] = Idle
      /\ \A d \in Clients : Like(client'[d], reqs[d])
      /\ \A d \in Clients \ {c} : reqs[d].key = old => Stale(client'[d])
  BY <1>1, <1>6, <1>7, Marking
<1>9. OthersAlike(c) /\ WellFormed(client'[c]) /\ CopyCounts(c)' /\ TokenStands(c)'
  BY <1>7, <1>8, IdleIsFine DEF OthersAlike
<1>10. STypes'
  BY <1>1, <1>5, <1>9, TypesMove DEF STypes
<1>11. SCounter'
  BY <1>1, <1>9, CounterRests DEF SInv
<1>12. ASSUME NEW q \in RefreshTokens
       PROVE  /\ Issued(q)' <=> Issued(q)
              /\ Issued(q) => refresh'[q].user = refresh[q].user /\ refresh'[q].login = refresh[q].login
              /\ Usable(q)' => Usable(q) /\ refresh'[q] = refresh[q]
              /\ Usable(q) /\ ~Usable(q)' => q = old
  BY <1>4, <1>5 DEF Issued, Usable
<1>13. KeepsTokens(c)
  BY <1>7, <1>8, <1>12 DEF KeepsTokens
<1>14. \A d \in Clients : TokenStands(d)'
  BY <1>1, <1>9, <1>13, HoldersStand
<1>15. ASSUME NEW q \in RefreshTokens, Issued(q)' PROVE Issued(refresh[q].login)'
  <2>1. refresh'[q].login = refresh[q].login /\ Issued(q)
    BY <1>12, <1>15
  <2>2. PICK first \in RefreshTokens : first = refresh[q].login /\ Issued(first)
    BY <1>1, <2>1 DEF STypes, STokens, Issued, RefreshToken
  <2>3. Issued(first)'
    BY <1>12, <2>2
  <2> QED
    BY <2>1, <2>2, <2>3 DEF Issued
<1>16. ASSUME NEW q \in RefreshTokens, Usable(q)' PROVE refresh'[q].origin # "ended"
  BY <1>1, <1>12, <1>16 DEF STokens
<1>17. ASSUME NEW p \in RefreshTokens, NEW q \in RefreshTokens, Usable(p)', Usable(q)',
              refresh'[p].login = refresh'[q].login, refresh'[p].login \notin forked'
       PROVE  p = q
  BY <1>1, <1>12, <1>17 DEF STokens
<1> QED
  BY <1>10, <1>11, <1>14, <1>15, <1>16, <1>17 DEF SInv, STokens

-----------------------------------------------------------------------------

LEMMA ReuseKeeps ==
  ASSUME SInv, NEW c \in Clients, ReuseDetected(c)
  PROVE  SInv'
<1>0. PICK u : u = client[c].user
  OBVIOUS
<1>1. /\ client[c].at = "reuse" /\ UNCHANGED <<account, reset, failures, blurred, forked>> /\ STypes /\ STokens
      /\ client' = CrossTokens(Overlapped(Finished(c), c, u), c, u)
      /\ refresh' = Ended(Revoked(u, "REUSE_DETECTED"), u)
  BY <1>0 DEF ReuseDetected, history, SInv
<1>2. u \in Accounts
  BY <1>0, <1>1 DEF STypes
<1>3. PICK done, late : done = Finished(c) /\ late = Overlapped(done, c, u)
  OBVIOUS
<1>4. done \in [Clients -> ClientStates] /\ done[c] = Idle /\ \A d \in Clients \ {c} : done[d] = client[d]
  BY <1>1, <1>3, Finishing
<1>5. late \in [Clients -> ClientStates] /\ late[c] = done[c] /\ \A d \in Clients : Like(late[d], done[d])
  BY <1>3, <1>4, Marking
<1>6. /\ client' \in [Clients -> ClientStates] /\ client'[c] = late[c] /\ \A d \in Clients : Like(client'[d], late[d])
      /\ \A d \in Clients \ {c} : late[d].user = u /\ late[d].at \in {"account", "rotate"} => Stale(client'[d])
  BY <1>1, <1>3, <1>5, Marking
<1>7. \A d \in Clients \ {c} : Like(client'[d], client[d])
  BY <1>4, <1>5, <1>6, LikeIsTransitive
<1>8. OthersAlike(c) /\ client'[c] = Idle
  BY <1>4, <1>5, <1>6, <1>7 DEF OthersAlike
<1>9. WellFormed(client'[c]) /\ CopyCounts(c)' /\ ~HoldsCounter(c)' /\ TokenStands(c)' /\ ~HoldsToken(c)'
  BY <1>8, IdleIsFine
<1>10. \A d \in Clients \ {c} : HoldsToken(d) /\ client[d].user = u => Stale(client'[d])
  BY <1>4, <1>5, <1>6 DEF HoldsToken, Like
<1>11. STokens' /\ refresh' \in [RefreshTokens -> RefreshToken \union {Unissued}]
  BY <1>1, <1>2, <1>8, <1>9, <1>10, TokensRevoked
<1>12. STypes'
  BY <1>1, <1>8, <1>9, <1>11, TypesMove DEF STypes
<1>13. SCounter'
  BY <1>1, <1>8, <1>9, CounterRests DEF SInv
<1> QED
  BY <1>11, <1>12, <1>13 DEF SInv

LEMMA ConfirmingKeeps ==
  ASSUME SInv, NEW c \in Clients, ConfirmReset(c)
  PROVE  SInv'
<1>0. PICK u, copy : u = client[c].user /\ copy = client[c].copy
  OBVIOUS
<1>1. PICK row : row = Write(account[u], copy, Unlocked)
  OBVIOUS
<1>2. /\ client[c].at = "confirm" /\ account' = [account EXCEPT ![u] = row] /\ Counted(c, u, 0) /\ STypes /\ STokens
      /\ reset' = [reset EXCEPT ![client[c].key].used = TRUE]
      /\ client' = CrossTokens(CrossUser(Overlapped(Finished(c), c, u), c, u), c, u)
      /\ refresh' = Ended(Revoked(u, "PASSWORD_RESET"), u)
  BY <1>0, <1>1 DEF ConfirmReset, SInv
<1>3. u \in Accounts /\ client[c] \in ClientStates /\ HoldsCounter(c)
  BY <1>0, <1>2 DEF STypes, HoldsCounter
<1>4. copy \in AccountRow /\ account[u] \in AccountRow
  BY <1>0, <1>2, <1>3 DEF ClientStates, STypes
<1>5. 0 \in 0..MaxFailedAttempts /\ "ACTIVE" \in UserStatus /\ "open" \in Locks
  BY SessionsAssumption DEF Locks
<1>6. row \in AccountRow /\ row.attempts = Either(0, copy.attempts, account[u].attempts)
  BY <1>1, <1>4, <1>5, WrittenRow DEF Unlocked
<1>7. WritesCounter(c, u, 0, 0, row)
  BY <1>0, <1>2, <1>3, <1>6 DEF WritesCounter
<1>8. PICK done, late, counted :
        done = Finished(c) /\ late = Overlapped(done, c, u) /\ counted = CrossUser(late, c, u)
  OBVIOUS
<1>9. done \in [Clients -> ClientStates] /\ done[c] = Idle /\ \A d \in Clients \ {c} : done[d] = client[d]
  BY <1>2, <1>8, Finishing
<1>10. late \in [Clients -> ClientStates] /\ late[c] = done[c] /\ \A d \in Clients : Like(late[d], done[d])
  BY <1>8, <1>9, Marking
<1>11. /\ counted \in [Clients -> ClientStates] /\ counted[c] = late[c] /\ \A d \in Clients : Like(counted[d], late[d])
       /\ \A d \in Clients \ {c} : late[d].user = u /\ late[d].at \in {"compare", "confirm", "change"} =>
            Stale(counted[d])
  BY <1>8, <1>10, Marking
<1>12. /\ client' \in [Clients -> ClientStates] /\ client'[c] = counted[c]
       /\ \A d \in Clients : Like(client'[d], counted[d])
       /\ \A d \in Clients \ {c} : counted[d].user = u /\ counted[d].at \in {"account", "rotate"} => Stale(client'[d])
  BY <1>2, <1>8, <1>11, Marking
<1>13. \A d \in Clients : Like(counted[d], done[d])
  BY <1>10, <1>11, LikeIsTransitive
<1>14. \A d \in Clients \ {c} : Like(client'[d], client[d])
  BY <1>9, <1>12, <1>13, LikeIsTransitive
<1>15. OthersAlike(c) /\ client'[c] = Idle
  BY <1>9, <1>10, <1>11, <1>12, <1>14 DEF OthersAlike
<1>16. WellFormed(client'[c]) /\ ~HoldsCounter(c)' /\ TokenStands(c)' /\ ~HoldsToken(c)'
  BY <1>15, IdleIsFine
<1>17. \A d \in Clients \ {c} : HoldsToken(d) /\ client[d].user = u => Stale(client'[d])
  BY <1>9, <1>12, <1>13 DEF HoldsToken, Like
<1>18. \A d \in Clients \ {c} : HoldsCounter(d) /\ client[d].user = u => Stale(client'[d])
  <2>1. \A d \in Clients \ {c} : HoldsCounter(d) /\ client[d].user = u => Stale(counted[d])
    BY <1>9, <1>10, <1>11 DEF HoldsCounter, Like
  <2>2. ASSUME NEW d \in Clients, Stale(counted[d]) PROVE Stale(client'[d])
    BY <1>12, <2>2 DEF Like, Stale, ClientStates
  <2> QED
    BY <2>1, <2>2
<1>19. UNCHANGED forked
  BY <1>2 DEF Counted
<1>20. STokens' /\ refresh' \in [RefreshTokens -> RefreshToken \union {Unissued}]
  BY <1>2, <1>3, <1>15, <1>16, <1>17, <1>19, TokensRevoked
<1>21. SCounter'
  BY <1>2, <1>7, <1>15, <1>16, <1>18, CounterMoves DEF SInv
<1>22. reset' \in [ResetTokens -> ResetToken \union {Unissued}]
  <2>1. PICK key : key = client[c].key
    OBVIOUS
  <2>2. PICK row2 : row2 = [reset[key] EXCEPT !.used = TRUE]
    OBVIOUS
  <2>3. CASE key \notin ResetTokens
    <3>1. reset' = reset
      BY <1>2, <2>1, <2>3 DEF STypes
    <3> QED
      BY <1>2, <3>1 DEF STypes
  <2>4. CASE key \in ResetTokens
    <3>1. row2 \in ResetToken \union {Unissued}
      <4>1. CASE reset[key] = Unissued
        BY <2>2, <4>1 DEF Unissued
      <4>2. CASE reset[key] \in ResetToken
        BY <2>2, <4>2 DEF ResetToken
      <4> QED
        BY <1>2, <2>4, <4>1, <4>2 DEF STypes
    <3>2. reset' = [reset EXCEPT ![key] = row2]
      BY <1>2, <2>1, <2>2
    <3> QED
      BY <1>2, <3>1, <3>2 DEF STypes
  <2> QED
    BY <2>3, <2>4
<1>23. account' \in [Accounts -> AccountRow] /\ failures' \in [Accounts -> Nat]
  <2>1. account' = [account EXCEPT ![u] = row] /\ failures' = [failures EXCEPT ![u] = 0]
    BY <1>2 DEF Counted
  <2> QED
    BY <1>2, <1>6, <2>1 DEF STypes
<1>24. STypes'
  BY <1>2, <1>15, <1>16, <1>20, <1>22, <1>23, TypesMove
<1> QED
  BY <1>20, <1>21, <1>24 DEF SInv

LEMMA ChangingKeeps ==
  ASSUME SInv, NEW c \in Clients, ChangeStatus(c)
  PROVE  SInv'
<1>0. PICK u, copy, status : u = client[c].user /\ copy = client[c].copy /\ status = client[c].to
  OBVIOUS
<1>1. client[c].at = "change" /\ UNCHANGED <<refresh, reset>> /\ STypes
  BY DEF ChangeStatus, SInv
<1>2. u \in Accounts /\ client[c] \in ClientStates /\ HoldsCounter(c)
  BY <1>0, <1>1 DEF STypes, HoldsCounter
<1>3. copy \in AccountRow /\ account[u] \in AccountRow /\ status \in UserStatus
  BY <1>0, <1>1, <1>2 DEF ClientStates, STypes
<1>4. 0 \in 0..MaxFailedAttempts /\ "open" \in Locks /\ "ACTIVE" \in UserStatus
  BY SessionsAssumption DEF Locks
<1>5. CASE status = "ACTIVE"
  <2>1. PICK row : row = Write(account[u], copy, [status |-> status, attempts |-> 0, lock |-> "open"])
    OBVIOUS
  <2>2. row \in AccountRow /\ row.attempts = Either(0, copy.attempts, account[u].attempts)
    <3>1. PICK lock \in Locks : lock = "open"
      BY <1>4
    <3>2. row = Write(account[u], copy, [status |-> status, attempts |-> 0, lock |-> lock])
      BY <2>1, <3>1
    <3>3. PICK none \in 0..MaxFailedAttempts : none = 0
      BY <1>4
    <3>4. row = Write(account[u], copy, [status |-> status, attempts |-> none, lock |-> lock])
      BY <3>2, <3>3
    <3>5. row \in AccountRow /\ row.attempts = Either(none, copy.attempts, account[u].attempts)
      BY <1>3, <3>4 DEF Write, AccountRow, Either
    <3> QED
      BY <3>3, <3>5
  <2>3. /\ account' = [account EXCEPT ![u] = row] /\ client' = CrossUser(Finished(c), c, u) /\ Counted(c, u, 0)
    BY <1>0, <1>5, <2>1 DEF ChangeStatus
  <2>4. WritesCounter(c, u, 0, 0, row)
    BY <1>0, <1>2, <2>2, <2>3 DEF WritesCounter
  <2> QED
    BY <1>1, <2>3, <2>4, CountingKeeps
<1>6. CASE status # "ACTIVE"
  <2>1. PICK row : row = Write(account[u], copy, [status |-> status])
    OBVIOUS
  <2>2. row \in AccountRow /\ row.attempts = account[u].attempts
    BY <1>3, <1>4, <2>1, WrittenRow
  <2>3. /\ account' = [account EXCEPT ![u] = row] /\ client' = Finished(c)
        /\ UNCHANGED <<failures, blurred, forked>>
    BY <1>0, <1>6, <2>1 DEF ChangeStatus, history
  <2>4. account' \in [Accounts -> AccountRow] /\ \A v \in Accounts : account'[v].attempts = account[v].attempts
    BY <1>1, <1>2, <2>2, <2>3 DEF STypes
  <2>5. OthersAlike(c) /\ WellFormed(client'[c]) /\ CopyCounts(c)' /\ TokenStands(c)'
    BY <1>1, <2>3, Finishing, Unmarked, IdleIsFine
  <2>6. STypes'
    BY <1>1, <2>3, <2>4, <2>5, TypesMove DEF STypes
  <2>7. SCounter'
    BY <1>1, <2>3, <2>4, <2>5, CounterRests DEF SInv
  <2>8. STokens'
    BY <1>1, <2>3, <2>5, TokensRest DEF SInv
  <2> QED
    BY <2>6, <2>7, <2>8 DEF SInv
<1> QED
  BY <1>5, <1>6

LEMMA CreatingKeeps ==
  ASSUME SInv, NEW c \in Clients, CreateResetToken(c)
  PROVE  SInv'
<1>1. /\ client[c].at = "reset" /\ UNCHANGED <<account, refresh, failures, blurred, forked>> /\ STypes
      /\ client' = Finished(c)
  BY DEF CreateResetToken, history, SInv
<1>2. PICK r \in ResetTokens :
        reset' = [s \in ResetTokens |->
            IF s = r THEN [user |-> client[c].user, used |-> FALSE]
            ELSE IF s \in client[c].seen THEN [reset[s] EXCEPT !.used = TRUE] ELSE reset[s]]
  BY DEF CreateResetToken, NextOf
<1>3. [user |-> client[c].user, used |-> FALSE] \in ResetToken
  BY <1>1 DEF STypes, ResetToken
<1>4. ASSUME NEW s \in ResetTokens PROVE [reset[s] EXCEPT !.used = TRUE] \in ResetToken \union {Unissued}
  <2>1. CASE reset[s] = Unissued
    <3>1. [reset[s] EXCEPT !.used = TRUE] = Unissued
      BY <2>1 DEF Unissued
    <3> QED
      BY <3>1
  <2>2. CASE reset[s] \in ResetToken
    BY <2>2 DEF ResetToken
  <2> QED
    BY <1>1, <2>1, <2>2 DEF STypes
<1>5. reset' \in [ResetTokens -> ResetToken \union {Unissued}]
  BY <1>1, <1>2, <1>3, <1>4 DEF STypes
<1> QED
  BY <1>1, <1>5, GoingOnKeeps

\* A lock that runs out leaves the counter as it is.
LEMMA LockingKeeps ==
  ASSUME SInv, NEW u \in Accounts, LockRunsOut(u)
  PROVE  SInv'
<1>1. /\ account' = [account EXCEPT ![u].lock = "past"]
      /\ UNCHANGED <<refresh, reset, client, failures, blurred, forked>> /\ STypes
  BY DEF LockRunsOut, history, SInv
<1>2. account' \in [Accounts -> AccountRow] /\ \A v \in Accounts : account'[v].attempts = account[v].attempts
  BY <1>1 DEF STypes, AccountRow, Locks
<1>3. STypes'
  BY <1>1, <1>2 DEF STypes
<1>4. SCounter'
  BY <1>1, <1>2 DEF SInv, STypes, SCounter, CopyCounts, HoldsCounter, CounterCountsFailures
<1>5. STokens'
  BY <1>1 DEF SInv, STokens, TokenStands, HoldsToken, Issued, Usable
<1> QED
  BY <1>3, <1>4, <1>5 DEF SInv

LEMMA SessionsStep == SInv /\ [SessionsNext]_sessionsVars => SInv'
<1> SUFFICES ASSUME SInv, [SessionsNext]_sessionsVars PROVE SInv'
  OBVIOUS
<1>1. ASSUME NEW c \in Clients, Starts(c) PROVE SInv'
  BY <1>1, BeginningKeeps
<1>2. ASSUME NEW c \in Clients, Continues(c) PROVE SInv'
  <2>1. ASSUME Dies(c) PROVE SInv'
    <3>1. /\ UNCHANGED <<account, refresh, reset, failures, blurred, forked>> /\ client' = Finished(c)
      BY <2>1 DEF Dies, history
    <3>2. reset' \in [ResetTokens -> ResetToken \union {Unissued}]
      BY <3>1 DEF SInv, STypes
    <3> QED
      BY <3>1, <3>2, GoingOnKeeps
  <2> QED
    BY <1>2, <2>1, RegisteringKeeps, FailingKeeps, MatchingKeeps, IssuingKeeps, ReadingKeeps, RotatingKeeps,
       ReuseKeeps, LoggingOutKeeps, CreatingKeeps, ConfirmingKeeps, ChangingKeeps DEF Continues
<1>3. ASSUME NEW u \in Accounts, LockRunsOut(u) PROVE SInv'
  BY <1>3, LockingKeeps
<1>4. CASE UNCHANGED sessionsVars
  <2>1. UNCHANGED <<account, refresh, reset, client, failures, blurred, forked>>
    BY <1>4 DEF sessionsVars
  <2> QED
    BY <2>1 DEF SInv, STypes, SCounter, CopyCounts, HoldsCounter, CounterCountsFailures, STokens, TokenStands,
                HoldsToken, Issued, Usable
<1> QED
  BY <1>1, <1>2, <1>3, <1>4 DEF SessionsNext

\* The failure counter of an account stands for the wrong passwords since it restarted
\* and stays below the limit, unless overlapping requests blurred it (auth.service.js:113-123).
THEOREM FailuresAreCounted == SessionsSpec => []CounterCountsFailures
<1>1. SInv => CounterCountsFailures
  BY DEF SInv, SCounter
<1> QED
  BY SessionsStart, SessionsStep, <1>1, PTL DEF SessionsSpec

\* A session that a reset or a detected reuse has ended stays ended, and a login has one
\* usable token at most unless overlapping rotations forked it (auth.service.js:173-236).
THEOREM EndedSessionsStayEnded == SessionsSpec => []SessionsStayEnded
<1>1. ASSUME SInv PROVE SessionsStayEnded
  <2>1. ASSUME NEW login \in RefreshTokens \ forked
        PROVE  Cardinality({t \in RefreshTokens : Usable(t) /\ refresh[t].login = login}) <= 1
    <3> DEFINE S == {t \in RefreshTokens : Usable(t) /\ refresh[t].login = login}
    <3>1. \A t, q \in S : t = q
      BY <1>1, <2>1 DEF SInv, STokens
    <3> SUFFICES Cardinality(S) <= 1
      OBVIOUS
    <3> HIDE DEF S
    <3>2. ASSUME S = {} PROVE Cardinality(S) <= 1
      <4>1. Cardinality(S) = 0
        BY <3>2, FS_EmptySet
      <4> QED
        BY <4>1
    <3>3. ASSUME S # {} PROVE Cardinality(S) <= 1
      <4>1. PICK t \in S : S = {t}
        BY <3>1, <3>3
      <4>2. Cardinality(S) = 1
        BY <4>1, FS_Singleton
      <4> QED
        BY <4>2
    <3> QED
      BY <3>2, <3>3
  <2> QED
    BY <1>1, <2>1 DEF SInv, STokens, SessionsStayEnded
<1> QED
  BY SessionsStart, SessionsStep, <1>1, PTL DEF SessionsSpec

-----------------------------------------------------------------------------
\* UserAdmin.  A handler that has read its target acts on somebody else, or creates.

ActsOnOthers(d) ==
  /\ desk[d].at \in {"write", "assign"} /\ desk[d].request.op # "create" => desk[d].actor # desk[d].target
  /\ desk[d].at = "assign" => desk[d].request.op = "roles"

UInv ==
  /\ UserAdminTypeOK
  /\ \A d \in Desks : ActsOnOthers(d)
  /\ SomebodyAdministers

\* Whoever may send an administrative request may administer.
LEMMA AuthorityAdministers ==
  ASSUME UserAdminTypeOK, NEW d \in Desks, desk[d].at \in {"authorize", "read", "write", "assign"},
         May(desk[d].actor, desk[d].request.permission)
  PROVE  /\ desk[d].actor \in Members /\ desk[d].target \in Members
         /\ May(desk[d].actor, "users:update")
<1>1. desk[d] \in Handled({"authorize", "read", "write", "assign"})
  BY DEF UserAdminTypeOK, Free
<1>2. desk[d].request.permission \in {"users:create", "users:update", "users:delete"}
  BY <1>1 DEF Handled, UserRequests, StatusRequests, RoleRequests, RemovalRequests, NewUserRequests
<1> QED
  BY <1>1, <1>2 DEF Handled, May, Permitted, Grants

\* What a request does to its target leaves whoever else administers alone.
LEMMA OthersAdminister ==
  ASSUME NEW x \in Members, May(x, "users:update"), member'[x] = member[x], roles'[x] = roles[x]
  PROVE  SomebodyAdministers'
BY DEF SomebodyAdministers, May, Permitted

\* Requests that look and do not write, or die.
LEMMA LookingKeepsAuthority ==
  ASSUME UInv, NEW d \in Desks,
         Authenticate(d) \/ Authorize(d) \/ ReadTarget(d) \/ ReadRoles(d) \/ AdminRequestDies(d)
  PROVE  UInv'
<1> DEFINE Desk == Handled({"authorize", "read", "write", "assign"})
<1>1. UNCHANGED <<member, roles, lapsed>>
  BY DEF Authenticate, Authorize, ReadTarget, ReadRoles, AdminRequestDies
<1>2. ASSUME NEW next \in Desk, desk' = [desk EXCEPT ![d] = next],
             next.at \in {"write", "assign"} /\ next.request.op # "create" => next.actor # next.target,
             next.at = "assign" => next.request.op = "roles"
      PROVE  UInv'
  BY <1>1, <1>2 DEF UInv, UserAdminTypeOK, ActsOnOthers, SomebodyAdministers, May, Permitted
<1>3. ASSUME desk' = [desk EXCEPT ![d] = Free] PROVE UInv'
  BY <1>1, <1>3 DEF UInv, UserAdminTypeOK, ActsOnOthers, Free, SomebodyAdministers, May, Permitted
<1>4. CASE Authenticate(d)
  <2>1. PICK actor \in Members, target \in Members, request \in UserRequests :
          desk' = [desk EXCEPT ![d] =
            [at |-> "authorize", actor |-> actor, target |-> target, request |-> request,
             copy |-> Absent, held |-> {}, left |-> {}]]
    BY <1>4 DEF Authenticate
  <2> DEFINE next == [at |-> "authorize", actor |-> actor, target |-> target, request |-> request,
                      copy |-> Absent, held |-> {}, left |-> {}]
  <2>2. next \in Desk /\ next.at = "authorize"
    BY DEF Handled
  <2> HIDE DEF next, Desk
  <2> QED
    BY <1>2, <2>1, <2>2 DEF next
<1>5. CASE Authorize(d)
  <2> DEFINE next == [desk[d] EXCEPT !.at = "read"]
  <2>1. desk[d] \in Desk
    BY <1>5 DEF Authorize, UInv, UserAdminTypeOK, Free
  <2>2. next \in Desk /\ next.at = "read"
    BY <2>1 DEF Handled
  <2>3. desk' = [desk EXCEPT ![d] = next] \/ desk' = [desk EXCEPT ![d] = Free]
    BY <1>5 DEF Authorize, Leaves
  <2> HIDE DEF next, Desk
  <2> QED
    BY <1>2, <1>3, <2>2, <2>3
<1>6. CASE ReadTarget(d)
  <2> DEFINE next == [desk[d] EXCEPT !.at = "write", !.copy = member[desk[d].target]]
             ok == IF desk[d].request.op = "create" THEN member[desk[d].target] = Absent
                   ELSE Visible(desk[d].target) /\ ~Forbidden(desk[d].actor, desk[d].target)
  <2>1. desk[d] \in Desk
    BY <1>6 DEF ReadTarget, UInv, UserAdminTypeOK, Free
  <2>2. ASSUME ok PROVE next \in Desk
    BY <2>1, <2>2 DEF Handled, Visible
  <2>3. /\ next.at = "write" /\ next.request = desk[d].request
        /\ next.actor = desk[d].actor /\ next.target = desk[d].target
    BY <2>1 DEF Handled
  <2>4. \/ ok /\ desk' = [desk EXCEPT ![d] = next]
        \/ desk' = [desk EXCEPT ![d] = Free]
    BY <1>6 DEF ReadTarget, Leaves
  <2>5. ok /\ desk[d].request.op # "create" => desk[d].actor # desk[d].target
    BY DEF Forbidden
  <2> HIDE DEF next, Desk, ok
  <2> QED
    BY <1>2, <1>3, <2>2, <2>3, <2>4, <2>5
<1>7. CASE ReadRoles(d)
  <2> DEFINE left == {part \in {"drop", "grant"} :
                 IF part = "drop" THEN ~(roles[desk[d].target] \subseteq desk[d].request.list)
                 ELSE ~(desk[d].request.list \subseteq roles[desk[d].target])}
             next == [desk[d] EXCEPT !.at = "assign", !.held = roles[desk[d].target], !.left = left]
  <2>1. desk[d] \in Desk /\ desk[d].at = "write" /\ desk[d].target \in Members
    BY <1>7 DEF ReadRoles, UInv, UserAdminTypeOK, Free, Handled
  <2>2. roles[desk[d].target] \in SUBSET Roles /\ left \in SUBSET {"drop", "grant"}
    BY <2>1 DEF UInv, UserAdminTypeOK
  <2>3. desk' = [desk EXCEPT ![d] = next] \/ desk' = [desk EXCEPT ![d] = Free]
    BY <1>7 DEF ReadRoles, Leaves
  <2> HIDE DEF left
  <2>4. /\ next \in Desk /\ next.request = desk[d].request
        /\ next.actor = desk[d].actor /\ next.target = desk[d].target
    BY <2>1, <2>2 DEF Handled
  <2>5. /\ desk[d].request.op # "create" => desk[d].actor # desk[d].target
        /\ desk[d].request.op = "roles"
    BY <1>7, <2>1 DEF UInv, ActsOnOthers, ReadRoles
  <2> HIDE DEF next, Desk
  <2> QED
    BY <1>2, <1>3, <2>3, <2>4, <2>5
<1>8. CASE AdminRequestDies(d)
  BY <1>3, <1>8 DEF AdminRequestDies
<1> QED
  BY <1>4, <1>5, <1>6, <1>7, <1>8

\* Requests that write: their sender stays in office, or has lost it already.
LEMMA WritingKeepsAuthority ==
  ASSUME UInv, NEW d \in Desks,
         \/ ChangeMemberStatus(d) \/ RemoveUser(d) \/ CreateUser(d)
         \/ DropRoles(d) \/ GrantRoles(d)
  PROVE  UInv'
<1> DEFINE x == desk[d].actor
           m == desk[d].target
           Desk == Handled({"authorize", "read", "write", "assign"})
<1>1. /\ desk[d] \in Desk /\ desk[d].at \in {"write", "assign"} /\ m \in Members
      /\ desk[d].request \in UserRequests
  BY DEF ChangeMemberStatus, RemoveUser, CreateUser, DropRoles, GrantRoles, Runs, Writing,
         UInv, UserAdminTypeOK, Free, Handled
<1>2. lapsed' = (lapsed \/ ~May(x, desk[d].request.permission))
  BY DEF ChangeMemberStatus, RemoveUser, CreateUser, DropRoles, GrantRoles, Runs, Writing, Overruled
<1>3. /\ desk' \in [Desks -> {Free} \union Desk]
      /\ \A e \in Desks : ActsOnOthers(e)'
  <2>1. CASE desk' = [desk EXCEPT ![d] = Free]
    BY <2>1 DEF UInv, UserAdminTypeOK, ActsOnOthers, Free
  <2>2. ASSUME NEW part, desk' = [desk EXCEPT ![d].left = @ \ {part}] PROVE <1>3
    <3> DEFINE next == [desk[d] EXCEPT !.left = @ \ {part}]
    <3>1. /\ next \in Desk /\ next.at = desk[d].at /\ next.request = desk[d].request
          /\ next.actor = desk[d].actor /\ next.target = desk[d].target
      BY <1>1 DEF Handled
    <3>2. desk' = [desk EXCEPT ![d] = next]
      BY <2>2
    <3> HIDE DEF next, Desk
    <3> QED
      BY <1>1, <3>1, <3>2 DEF UInv, UserAdminTypeOK, ActsOnOthers, Desk
  <2> QED
    BY <2>1, <2>2 DEF ChangeMemberStatus, RemoveUser, CreateUser, DropRoles, GrantRoles, Runs, Writing, Leaves
<1>4. /\ desk[d].request.op = "status" => desk[d].request.to \in Statuses
      /\ desk[d].request.op = "create" => desk[d].request.list \in SUBSET Roles
      /\ desk[d].request.op = "roles" => desk[d].request.list \in SUBSET Roles
  BY <1>1, RoleListsAssumption DEF UserRequests, StatusRequests, RoleRequests, RemovalRequests, NewUserRequests
<1>5. UserAdminTypeOK'
  <2>1. CASE ChangeMemberStatus(d) \/ RemoveUser(d) \/ CreateUser(d)
    <3>1. member' \in [Members -> Statuses \union {Absent, Removed}]
      BY <1>1, <1>4, <2>1 DEF ChangeMemberStatus, RemoveUser, CreateUser, Writing, UInv, UserAdminTypeOK
    <3>2. roles' \in [Members -> SUBSET Roles]
      BY <1>1, <1>4, <2>1 DEF ChangeMemberStatus, RemoveUser, CreateUser, Writing, UInv, UserAdminTypeOK
    <3> QED
      BY <1>2, <1>3, <3>1, <3>2 DEF UInv, UserAdminTypeOK
  <2>2. CASE DropRoles(d) \/ GrantRoles(d)
    <3>1. member' = member
      BY <2>2 DEF DropRoles, GrantRoles, Runs
    <3>2. desk[d].request.list \in SUBSET Roles
      BY <1>4, <2>2 DEF DropRoles, GrantRoles, Runs, UInv, ActsOnOthers
    <3>3. roles' \in [Members -> SUBSET Roles]
      BY <1>1, <2>2, <3>2 DEF DropRoles, GrantRoles, UInv, UserAdminTypeOK, Lacking
    <3> QED
      BY <1>2, <1>3, <3>1, <3>3 DEF UInv, UserAdminTypeOK
  <2> QED
    BY <2>1, <2>2
<1>6. SomebodyAdministers'
  <2>1. CASE ~May(x, desk[d].request.permission)
    BY <1>2, <2>1 DEF SomebodyAdministers
  <2>2. CASE May(x, desk[d].request.permission)
    <3>1. x \in Members /\ May(x, "users:update")
      BY <1>1, <2>2, AuthorityAdministers DEF UInv
    <3>2. x # m \/ desk[d].request.op = "create"
      BY <1>1 DEF UInv, ActsOnOthers
    <3>3. \A y \in Members : y # m => member'[y] = member[y] /\ roles'[y] = roles[y]
      BY DEF ChangeMemberStatus, DropRoles, GrantRoles, Runs, Writing, RemoveUser, CreateUser, UInv, UserAdminTypeOK
    <3>4. desk[d].request.op = "create" /\ x = m => UNCHANGED <<member, roles>>
      BY <3>1 DEF ChangeMemberStatus, DropRoles, GrantRoles, Runs, RemoveUser, CreateUser, Writing,
                  May, Absent, UInv, UserAdminTypeOK, ActsOnOthers
    <3> QED
      BY <3>1, <3>2, <3>3, <3>4, OthersAdminister
  <2> QED
    BY <2>1, <2>2
<1> QED
  BY <1>3, <1>5, <1>6 DEF UInv

LEMMA AdministrationKept == UserAdminSpec => []UInv
<1>1. UserAdminInit => UInv
  <2> SUFFICES ASSUME UserAdminInit PROVE UInv
    OBVIOUS
  <2>1. UserAdminTypeOK /\ \A d \in Desks : ActsOnOthers(d)
    BY UserAdminAssumption DEF UserAdminInit, UserAdminTypeOK, Roles, Free, ActsOnOthers
  <2>2. May(Administrator, "users:update")
    BY UserAdminAssumption DEF UserAdminInit, May, Permitted, Grants
  <2> QED
    BY <2>1, <2>2, UserAdminAssumption DEF UInv, SomebodyAdministers
<1>2. UInv /\ [UserAdminNext]_userAdminVars => UInv'
  <2>1. ASSUME UInv, NEW m \in Members, RegisterCustomer(m) PROVE UInv'
    <3>1. UserAdminTypeOK' /\ \A d \in Desks : ActsOnOthers(d)'
      BY <2>1, UserAdminAssumption DEF RegisterCustomer, UInv, UserAdminTypeOK, Roles, ActsOnOthers
    <3>2. \A x \in Members : May(x, "users:update") => x # m /\ member'[x] = member[x] /\ roles'[x] = roles[x]
      BY <2>1 DEF RegisterCustomer, UInv, UserAdminTypeOK, May, Absent
    <3>3. SomebodyAdministers'
      BY <2>1, <3>2, OthersAdminister DEF RegisterCustomer, UInv, SomebodyAdministers
    <3> QED
      BY <3>1, <3>3 DEF UInv
  <2>2. ASSUME UInv, ResetAdmin PROVE UInv'
    <3>1. UserAdminTypeOK' /\ \A d \in Desks : ActsOnOthers(d)'
      BY <2>2, UserAdminAssumption DEF ResetAdmin, UInv, UserAdminTypeOK, ActsOnOthers
    <3>2. \A x \in Members : May(x, "users:update") => member'[x] = member[x] /\ roles'[x] = roles[x]
      BY <2>2 DEF ResetAdmin, UInv, UserAdminTypeOK, May
    <3>3. SomebodyAdministers'
      BY <2>2, <3>2, OthersAdminister DEF ResetAdmin, UInv, SomebodyAdministers
    <3> QED
      BY <3>1, <3>3 DEF UInv
  <2>3. UInv /\ UNCHANGED userAdminVars => UInv'
    BY DEF userAdminVars, UInv, UserAdminTypeOK, ActsOnOthers, SomebodyAdministers, May, Permitted
  <2> QED
    BY <2>1, <2>2, <2>3, LookingKeepsAuthority, WritingKeepsAuthority DEF UserAdminNext
<1> QED
  BY <1>1, <1>2, PTL DEF UserAdminSpec

\* Whatever administrators do to each other, somebody can still administer, unless a write
\* was made on an authority that had been taken away after it was checked.
THEOREM NobodyLocksThemselvesOut == UserAdminSpec => []SomebodyAdministers
<1>1. UInv => SomebodyAdministers
  BY DEF UInv
<1> QED
  BY <1>1, AdministrationKept, PTL

-----------------------------------------------------------------------------
\* Finance.  A request that no closing overtook writes to open days only, or to periods
\* that an overtaken one amended before it.

InClosed(p, day) == Closed(p) /\ Covers(p, day)
Untouchable(day) == {p \in Periods \ amended : InClosed(p, day)}

FTypes ==
  /\ expense \in [Expenses -> Expense \union {NoRow}]
  /\ period \in [Periods -> Period \union {NotCreated}]
  /\ clerk \in [Clerks -> ClerkState]
  /\ books = [p \in Periods |-> books[p]]

\* The days of a request that is not overtaken are open; the expense it is about may have
\* been moved since, by an overtaken one.
DaysAreOpen(k) ==
  clerk[k] # Waiting /\ clerk[k].overtaken = FALSE =>
    /\ clerk[k].does \in {"create", "update"} => ~IsDateInClosedPeriod(clerk[k].fields.date)
    /\ clerk[k].does \in {"update", "delete"} /\ expense[clerk[k].id] # NoRow =>
         Untouchable(expense[clerk[k].id].date) = {}
ClosesCreated(k) == clerk[k].does = "close" => period[clerk[k].id] # NotCreated

FInv ==
  /\ FTypes
  /\ \A k \in Clerks : DaysAreOpen(k) /\ ClosesCreated(k)
  /\ ClosedBooksAreKept

LEMMA FinanceStart == FinanceInit => FInv
BY DEF FinanceInit, FInv, FTypes, DaysAreOpen, ClosesCreated, ClosedBooksAreKept, Closed, Waiting, NotCreated, ClerkState

LEMMA BooksUnchanged ==
  UNCHANGED <<expense, period>> =>
    /\ \A p \in Periods : \A day : Covers(p, day)' = Covers(p, day)
    /\ \A p \in Periods : Closed(p)' = Closed(p) /\ Held(expense, p)' = Held(expense, p)
BY DEF Covers, Closed, Held

\* A request that begins reads open days.
LEMMA BeginningKeepsBooks ==
  ASSUME FInv, NEW k \in Clerks, NEW request \in ClerkState, Takes(k, request), request # Waiting,
         request.does \in {"create", "update"} => ~IsDateInClosedPeriod(request.fields.date),
         request.does \in {"update", "delete"} => ~IsDateInClosedPeriod(expense[request.id].date),
         request.does = "close" => period[request.id] # NotCreated
  PROVE  FInv'
<1>1. UNCHANGED <<category, expense, period, books, amended>> /\ clerk' = [clerk EXCEPT ![k] = request]
  BY DEF Takes, ledger
<1>2. FTypes'
  BY <1>1 DEF FInv, FTypes
<1>3. ASSUME NEW j \in Clerks PROVE DaysAreOpen(j)' /\ ClosesCreated(j)'
  <2>1. CASE j # k
    BY <1>1, <2>1 DEF FInv, FTypes, DaysAreOpen, ClosesCreated, IsDateInClosedPeriod, Untouchable, InClosed, Closed, Covers
  <2>2. CASE j = k
    <3>1. clerk'[j] = request
      BY <1>1, <2>2 DEF FInv, FTypes
    <3> QED
      BY <1>1, <3>1 DEF DaysAreOpen, ClosesCreated, IsDateInClosedPeriod, Untouchable, InClosed, Closed, Covers
  <2> QED
    BY <2>1, <2>2
<1>4. ClosedBooksAreKept'
  BY <1>1 DEF FInv, ClosedBooksAreKept, Closed, Held, Covers
<1> QED
  BY <1>2, <1>3, <1>4 DEF FInv

\* One row is written: unless the request was overtaken, both what the row was and what it
\* becomes lie outside every closed period that has not been amended.
LEMMA WritingKeepsBooks ==
  ASSUME FInv, NEW k \in Clerks, NEW e \in Expenses, NEW row \in Expense \union {NoRow},
         clerk[k] # Waiting,
         Writes(k, [expense EXCEPT ![e] = row]),
         clerk[k].overtaken = FALSE /\ expense[e] # NoRow => Untouchable(expense[e].date) = {},
         clerk[k].overtaken = FALSE /\ row # NoRow => Untouchable(row.date) = {}
  PROVE  FInv'
<1> DEFINE rows == [expense EXCEPT ![e] = row]
<1>1. /\ expense' = rows /\ UNCHANGED <<category, period, books>>
      /\ clerk' = [clerk EXCEPT ![k] = Waiting]
      /\ amended' = amended \union
           {p \in Periods : clerk[k].overtaken /\ Closed(p) /\ Held(rows, p) # Held(expense, p)}
  BY DEF Writes
<1>2. /\ rows \in [Expenses -> Expense \union {NoRow}]
      /\ \A x \in Expenses : rows[x] = IF x = e THEN row ELSE expense[x]
  BY DEF FInv, FTypes
<1>3. \A p \in Periods : \A day : Covers(p, day)' = Covers(p, day) /\ Closed(p)' = Closed(p)
  BY <1>1 DEF Covers, Closed
<1>4. clerk[k].overtaken \in BOOLEAN
  <2>1. clerk[k] \in ClerkState
    BY DEF FInv, FTypes
  <2> QED
    BY <2>1 DEF ClerkState, Waiting
<1> HIDE DEF rows
<1>5. FTypes'
  BY <1>1, <1>2 DEF FInv, FTypes, ClerkState
<1>6. ASSUME NEW p \in Periods \ amended', Closed(p)
      PROVE  /\ Held(rows, p) = Held(expense, p)
             /\ p \notin amended
  <2>1. p \notin amended
    BY <1>1, <1>6
  <2>2. CASE clerk[k].overtaken = TRUE
    BY <1>1, <1>6, <2>1, <2>2
  <2>3. CASE clerk[k].overtaken = FALSE
    <3>1. expense[e] # NoRow => ~Covers(p, expense[e].date)
      BY <1>6, <2>1, <2>3 DEF Untouchable, InClosed
    <3>2. row # NoRow => ~Covers(p, row.date)
      BY <1>6, <2>1, <2>3 DEF Untouchable, InClosed
    <3>3. \A x \in Expenses : rows[x] # expense[x] =>
            ~(rows[x] # NoRow /\ Covers(p, rows[x].date)) /\ ~(expense[x] # NoRow /\ Covers(p, expense[x].date))
      BY <1>2, <3>1, <3>2
    <3> QED
      BY <2>1, <3>3 DEF Held
  <2> QED
    BY <1>4, <2>2, <2>3
<1>7. ASSUME NEW j \in Clerks PROVE DaysAreOpen(j)' /\ ClosesCreated(j)'
  <2>1. CASE j = k
    <3>1. clerk'[j] = Waiting
      BY <1>1, <2>1 DEF FInv, FTypes
    <3> QED
      BY <3>1 DEF DaysAreOpen, ClosesCreated, Waiting
  <2>2. CASE j # k
    <3>1. clerk'[j] = clerk[j]
      BY <1>1, <2>2 DEF FInv, FTypes
    <3>2. ClosesCreated(j)'
      BY <1>1, <3>1 DEF FInv, ClosesCreated
    <3>3. SUFFICES ASSUME clerk[j] # Waiting, clerk[j].overtaken = FALSE
                   PROVE  DaysAreOpen(j)'
      BY <3>1, <3>2 DEF DaysAreOpen
    <3>4. clerk[j].does \in {"create", "update"} => ~IsDateInClosedPeriod(clerk[j].fields.date)'
      BY <1>3, <3>1, <3>3 DEF FInv, DaysAreOpen, IsDateInClosedPeriod
    <3>5. ASSUME clerk[j].does \in {"update", "delete"}, expense'[clerk[j].id] # NoRow,
                 NEW p \in Periods \ amended', Closed(p), Covers(p, expense'[clerk[j].id].date)
          PROVE  FALSE
      <4>1. clerk[j].id \in Expenses
        <5>1. clerk[j] \in ClerkState
          BY DEF FInv, FTypes
        <5> QED
          BY <3>5, <5>1 DEF ClerkState, Waiting
      <4>2. <<clerk[j].id, rows[clerk[j].id]>> \in Held(rows, p)
        BY <1>1, <3>5, <4>1 DEF Held
      <4>3. <<clerk[j].id, rows[clerk[j].id]>> \in Held(expense, p)
        BY <1>6, <3>5, <4>2
      <4>4. expense[clerk[j].id] = rows[clerk[j].id] /\ Covers(p, expense[clerk[j].id].date)
            /\ expense[clerk[j].id] # NoRow
        BY <4>3 DEF Held
      <4>5. p \in Untouchable(expense[clerk[j].id].date)
        BY <1>6, <3>5, <4>4 DEF Untouchable, InClosed
      <4> QED
        BY <3>3, <3>5, <4>4, <4>5 DEF FInv, DaysAreOpen
    <3> QED
      BY <1>3, <3>1, <3>4, <3>5 DEF DaysAreOpen, Untouchable, InClosed
  <2> QED
    BY <2>1, <2>2
<1>8. ClosedBooksAreKept'
  <2> SUFFICES ASSUME NEW p \in Periods, Closed(p)', p \notin amended'
               PROVE  Held(expense, p)' = books'[p]
    BY DEF ClosedBooksAreKept
  <2>1. Held(expense, p)' = Held(rows, p)
    BY <1>1, <1>3 DEF Held
  <2>2. Held(rows, p) = Held(expense, p) /\ p \notin amended /\ Closed(p)
    BY <1>3, <1>6
  <2> QED
    BY <1>1, <2>1, <2>2 DEF FInv, ClosedBooksAreKept
<1> QED
  BY <1>5, <1>7, <1>8 DEF FInv

LEMMA OpenDayIsUntouched ==
  ASSUME NEW day, ~IsDateInClosedPeriod(day)
  PROVE  Untouchable(day) = {}
BY DEF IsDateInClosedPeriod, Untouchable, InClosed

LEMMA PostingKeepsBooks ==
  ASSUME FInv, NEW k \in Clerks, PostExpense(k)
  PROVE  FInv'
<1>1. PICK e \in Expenses : expense[e] = NoRow /\ Writes(k, [expense EXCEPT ![e] = clerk[k].fields])
  BY DEF PostExpense, NextIdOf
<1>2. clerk[k].does = "create" /\ clerk[k] \in ClerkState
  BY DEF PostExpense, FInv, FTypes
<1>3. clerk[k] # Waiting /\ clerk[k].fields \in Expense
  BY <1>2 DEF ClerkState, Waiting
<1>4. clerk[k].overtaken = FALSE => Untouchable(clerk[k].fields.date) = {}
  BY <1>2, <1>3, OpenDayIsUntouched DEF FInv, DaysAreOpen
<1> QED
  BY <1>1, <1>3, <1>4, WritingKeepsBooks

LEMMA AmendingKeepsBooks ==
  ASSUME FInv, NEW k \in Clerks, AmendExpense(k)
  PROVE  FInv'
<1> DEFINE e == clerk[k].id
           c == clerk[k].copy
           f == clerk[k].fields
           merged == [col \in DOMAIN expense[e] |-> IF f[col] # c[col] THEN f[col] ELSE expense[e][col]]
<1>1. clerk[k].does = "update" /\ clerk[k] \in ClerkState
  BY DEF AmendExpense, FInv, FTypes
<1>2. clerk[k] # Waiting /\ e \in Expenses /\ c \in Expense /\ f \in Expense
  BY <1>1 DEF ClerkState, Waiting
<1>3. CASE expense[e] = NoRow
  <2>1. expense = [expense EXCEPT ![e] = NoRow]
    BY <1>2, <1>3 DEF FInv, FTypes
  <2>2. Writes(k, [expense EXCEPT ![e] = NoRow])
    BY <1>3, <2>1 DEF AmendExpense
  <2> QED
    BY <1>2, <1>3, <2>2, WritingKeepsBooks
<1>4. CASE expense[e] # NoRow
  <2>1. expense[e] \in Expense
    BY <1>2, <1>4 DEF FInv, FTypes
  <2>2. merged \in Expense
    BY <1>2, <2>1 DEF Expense
  <2>3. merged.date = IF f.date # c.date THEN f.date ELSE expense[e].date
    BY <2>1 DEF Expense
  <2>4. Writes(k, [expense EXCEPT ![e] = merged])
    BY <1>4 DEF AmendExpense
  <2>5. clerk[k].overtaken = FALSE =>
          Untouchable(f.date) = {} /\ Untouchable(expense[e].date) = {}
    BY <1>1, <1>2, <1>4, OpenDayIsUntouched DEF FInv, DaysAreOpen
  <2> HIDE DEF merged
  <2>6. clerk[k].overtaken = FALSE => Untouchable(merged.date) = {}
    BY <2>3, <2>5
  <2> QED
    BY <1>2, <2>2, <2>4, <2>5, <2>6, WritingKeepsBooks
<1> QED
  BY <1>3, <1>4

LEMMA DroppingKeepsBooks ==
  ASSUME FInv, NEW k \in Clerks, DropExpense(k)
  PROVE  FInv'
<1>1. clerk[k].does = "delete" /\ clerk[k] \in ClerkState /\ Writes(k, [expense EXCEPT ![clerk[k].id] = NoRow])
  BY DEF DropExpense, FInv, FTypes
<1>2. clerk[k] # Waiting /\ clerk[k].id \in Expenses
  BY <1>1 DEF ClerkState, Waiting
<1>3. clerk[k].overtaken = FALSE /\ expense[clerk[k].id] # NoRow => Untouchable(expense[clerk[k].id].date) = {}
  BY <1>1, <1>2 DEF FInv, DaysAreOpen
<1> QED
  BY <1>1, <1>2, <1>3, WritingKeepsBooks

\* A closing keeps what the period holds, and overtakes whatever is under way.
LEMMA ClosingKeepsBooks ==
  ASSUME FInv, NEW k \in Clerks, ClosePeriod(k)
  PROVE  FInv'
<1> DEFINE p == clerk[k].id
<1>1. clerk[k].does = "close" /\ clerk[k] \in ClerkState
  BY DEF ClosePeriod, FInv, FTypes
<1>2. p \in Periods /\ period[p] # NotCreated
  BY <1>1 DEF ClerkState, Waiting, FInv, ClosesCreated
<1>3. /\ period' = [period EXCEPT ![p].closed = TRUE]
      /\ books' = IF Closed(p) THEN books ELSE [books EXCEPT ![p] = Held(expense, p)]
      /\ clerk' = [j \in Clerks |-> IF j = k \/ clerk[j] = Waiting THEN Waiting
                                    ELSE [clerk[j] EXCEPT !.overtaken = TRUE]]
      /\ UNCHANGED <<category, expense, bookings, amended>>
  BY DEF ClosePeriod
<1>4. period[p] \in Period
  BY <1>2 DEF FInv, FTypes
<1> DEFINE row == [period[p] EXCEPT !.closed = TRUE]
<1>5. row \in Period /\ row.from = period[p].from /\ row.to = period[p].to /\ row.closed = TRUE /\ row # NotCreated
  BY <1>4 DEF Period, NotCreated
<1>6. /\ period' \in [Periods -> Period \union {NotCreated}]
      /\ \A q \in Periods : period'[q] = IF q = p THEN row ELSE period[q]
  BY <1>2, <1>3, <1>5 DEF FInv, FTypes
<1> HIDE DEF row
<1>7. \A q \in Periods : \A day : Covers(q, day)' = Covers(q, day)
  BY <1>2, <1>5, <1>6 DEF Covers
<1>8. ASSUME NEW j \in Clerks
      PROVE  /\ clerk'[j] \in ClerkState
             /\ clerk'[j] # Waiting => /\ clerk'[j].overtaken = TRUE /\ clerk'[j].does = clerk[j].does
                                       /\ clerk'[j].does = "close" => clerk'[j].id = clerk[j].id
  <2>1. CASE j = k \/ clerk[j] = Waiting
    BY <1>3, <2>1 DEF ClerkState
  <2>2. CASE ~(j = k \/ clerk[j] = Waiting)
    <3>1. clerk'[j] = [clerk[j] EXCEPT !.overtaken = TRUE]
      BY <1>3, <2>2
    <3>2. clerk[j] \in ClerkState \ {Waiting}
      BY <2>2 DEF FInv, FTypes
    <3>3. CASE clerk[j].does = "create"
      BY <3>1, <3>2, <3>3 DEF ClerkState
    <3>4. CASE clerk[j].does = "update"
      BY <3>1, <3>2, <3>4 DEF ClerkState
    <3>5. CASE clerk[j].does = "delete"
      BY <3>1, <3>2, <3>5 DEF ClerkState
    <3>6. CASE clerk[j].does = "close"
      BY <3>1, <3>2, <3>6 DEF ClerkState
    <3> QED
      BY <3>2, <3>3, <3>4, <3>5, <3>6 DEF ClerkState
  <2> QED
    BY <2>1, <2>2
<1>9. FTypes'
  <2>1. clerk' \in [Clerks -> ClerkState]
    <3>1. clerk' = [j \in Clerks |-> clerk'[j]]
      BY <1>3
    <3> QED
      BY <1>8, <3>1
  <2>2. books' = [q \in Periods |-> books'[q]]
    BY <1>2, <1>3 DEF FInv, FTypes
  <2> QED
    BY <1>3, <1>6, <2>1, <2>2 DEF FInv, FTypes
<1>10. ASSUME NEW j \in Clerks PROVE DaysAreOpen(j)' /\ ClosesCreated(j)'
  <2>1. DaysAreOpen(j)'
    BY <1>8 DEF DaysAreOpen
  <2>2. ASSUME clerk'[j].does = "close"
        PROVE  clerk[j].does = "close" /\ clerk'[j].id = clerk[j].id
    <3>1. clerk'[j] # Waiting
      BY <2>2 DEF Waiting
    <3> QED
      BY <1>8, <2>2, <3>1
  <2>3. clerk[j].does = "close" => clerk[j].id \in Periods
    <3>1. clerk[j] \in ClerkState
      BY DEF FInv, FTypes
    <3> QED
      BY <3>1 DEF ClerkState, Waiting
  <2>4. clerk[j].does = "close" => period'[clerk[j].id] # NotCreated
    BY <1>5, <1>6, <2>3 DEF FInv, ClosesCreated
  <2> QED
    BY <2>1, <2>2, <2>4 DEF ClosesCreated
<1>11. ClosedBooksAreKept'
  <2> SUFFICES ASSUME NEW q \in Periods, Closed(q)', q \notin amended'
               PROVE  Held(expense, q)' = books'[q]
    BY DEF ClosedBooksAreKept
  <2>1. Held(expense, q)' = Held(expense, q)
    BY <1>3, <1>7 DEF Held
  <2>2. CASE q = p /\ ~Closed(p)
    BY <1>2, <1>3, <2>1, <2>2 DEF FInv, FTypes
  <2>3. CASE q # p \/ Closed(p)
    <3>1. Closed(q)
      BY <1>6, <2>3 DEF Closed
    <3>2. books'[q] = books[q]
      BY <1>2, <1>3, <2>3 DEF FInv, FTypes
    <3> QED
      BY <1>3, <2>1, <3>1, <3>2 DEF FInv, ClosedBooksAreKept
  <2> QED
    BY <2>2, <2>3
<1> QED
  BY <1>9, <1>10, <1>11 DEF FInv

\* A new period is open: no day becomes closed, no closed period covers another day.
LEMMA CreatingKeepsBooks ==
  ASSUME FInv, NEW p \in Periods, NEW from \in Days, NEW to \in Days, CreatePeriod(p, from, to)
  PROVE  FInv'
<1> DEFINE row == [from |-> from, to |-> to, closed |-> FALSE]
<1>1. /\ period[p] = NotCreated /\ period' = [period EXCEPT ![p] = row]
      /\ UNCHANGED <<category, expense, clerk, bookings, books, amended>>
  BY DEF CreatePeriod, NextIdOf
<1>2. row \in Period /\ row.closed = FALSE /\ row # NotCreated
  BY DEF CreatePeriod, Period, NotCreated
<1> HIDE DEF row
<1>3. /\ period' \in [Periods -> Period \union {NotCreated}]
      /\ \A q \in Periods : period'[q] = IF q = p THEN row ELSE period[q]
  BY <1>1, <1>2 DEF FInv, FTypes
<1>4. \A q \in Periods : Closed(q)' => Closed(q) /\ q # p
  BY <1>2, <1>3 DEF Closed
<1>5. \A q \in Periods : \A day : q # p => Covers(q, day)' = Covers(q, day)
  BY <1>3 DEF Covers
<1>6. FTypes'
  BY <1>1, <1>3 DEF FInv, FTypes
<1>7. ASSUME NEW j \in Clerks PROVE DaysAreOpen(j)' /\ ClosesCreated(j)'
  <2>1. clerk[j].does = "close" => clerk[j].id \in Periods
    <3>1. clerk[j] \in ClerkState
      BY DEF FInv, FTypes
    <3> QED
      BY <3>1 DEF ClerkState, Waiting
  <2>2. ClosesCreated(j)'
    BY <1>1, <1>2, <1>3, <2>1 DEF FInv, ClosesCreated
  <2>3. DaysAreOpen(j)'
    <3>1. DaysAreOpen(j)
      BY DEF FInv
    <3>2. clerk[j].does \in {"create", "update"} =>
            (IsDateInClosedPeriod(clerk[j].fields.date)' => IsDateInClosedPeriod(clerk[j].fields.date))
      BY <1>1, <1>4, <1>5 DEF IsDateInClosedPeriod
    <3>3. Untouchable(expense[clerk[j].id].date)' \subseteq Untouchable(expense[clerk[j].id].date)
      BY <1>1, <1>4, <1>5 DEF Untouchable, InClosed
    <3> QED
      BY <1>1, <3>1, <3>2, <3>3 DEF DaysAreOpen
  <2> QED
    BY <2>2, <2>3
<1>8. ClosedBooksAreKept'
  BY <1>1, <1>4, <1>5 DEF FInv, ClosedBooksAreKept, Held
<1> QED
  BY <1>6, <1>7, <1>8 DEF FInv

\* Steps that write neither expenses nor periods.
LEMMA ResettingKeepsBooks ==
  ASSUME FInv, UNCHANGED <<expense, period, books, amended>>,
         clerk' \in [Clerks -> ClerkState], \A j \in Clerks : clerk'[j] \in {clerk[j], Waiting}
  PROVE  FInv'
<1>1. FTypes'
  BY DEF FInv, FTypes
<1>2. ASSUME NEW j \in Clerks PROVE DaysAreOpen(j)' /\ ClosesCreated(j)'
  <2>1. CASE clerk'[j] = clerk[j]
    BY <2>1 DEF FInv, DaysAreOpen, ClosesCreated, IsDateInClosedPeriod, Untouchable, InClosed, Closed, Covers
  <2>2. CASE clerk'[j] = Waiting
    BY <2>2 DEF DaysAreOpen, ClosesCreated, Waiting
  <2> QED
    BY <2>1, <2>2
<1>3. ClosedBooksAreKept'
  BY DEF FInv, ClosedBooksAreKept, Held, Closed, Covers
<1> QED
  BY <1>1, <1>2, <1>3 DEF FInv

LEMMA FinanceStep == FInv /\ [FinanceNext]_financeVars => FInv'
<1> SUFFICES ASSUME FInv, [FinanceNext]_financeVars PROVE FInv'
  OBVIOUS
<1>1. ASSUME NEW k \in Clerks, NEW fields \in Expense, BeginCreateExpense(k, fields) PROVE FInv'
  <2> DEFINE request == [does |-> "create", fields |-> fields, overtaken |-> FALSE]
  <2>1. request \in ClerkState /\ request # Waiting /\ request.does = "create" /\ request.fields = fields
    BY DEF ClerkState, Waiting
  <2>2. Takes(k, request) /\ ~IsDateInClosedPeriod(fields.date)
    BY <1>1 DEF BeginCreateExpense
  <2> HIDE DEF request
  <2> QED
    BY <2>1, <2>2, BeginningKeepsBooks
<1>2. ASSUME NEW k \in Clerks, NEW e \in Expenses, NEW fields \in Expense, BeginUpdateExpense(k, e, fields)
      PROVE  FInv'
  <2> DEFINE request == [does |-> "update", id |-> e, copy |-> expense[e], fields |-> fields, overtaken |-> FALSE]
  <2>1. expense[e] \in Expense
    BY <1>2 DEF BeginUpdateExpense, FInv, FTypes
  <2>2. /\ request \in ClerkState /\ request # Waiting
        /\ request.does = "update" /\ request.fields = fields /\ request.id = e
    BY <2>1 DEF ClerkState, Waiting
  <2>3. /\ Takes(k, request) /\ ~IsDateInClosedPeriod(expense[e].date)
        /\ fields.date # expense[e].date => ~IsDateInClosedPeriod(fields.date)
    BY <1>2 DEF BeginUpdateExpense
  <2>4. ~IsDateInClosedPeriod(fields.date)
    BY <2>3
  <2> HIDE DEF request
  <2> QED
    BY <2>2, <2>3, <2>4, BeginningKeepsBooks
<1>3. ASSUME NEW k \in Clerks, NEW e \in Expenses, BeginDeleteExpense(k, e) PROVE FInv'
  <2> DEFINE request == [does |-> "delete", id |-> e, overtaken |-> FALSE]
  <2>1. request \in ClerkState /\ request # Waiting /\ request.does = "delete" /\ request.id = e
    BY DEF ClerkState, Waiting
  <2>2. Takes(k, request) /\ ~IsDateInClosedPeriod(expense[e].date)
    BY <1>3 DEF BeginDeleteExpense
  <2> HIDE DEF request
  <2> QED
    BY <2>1, <2>2, BeginningKeepsBooks
<1>4. ASSUME NEW k \in Clerks, NEW p \in Periods, BeginClosePeriod(k, p) PROVE FInv'
  <2> DEFINE request == [does |-> "close", id |-> p, overtaken |-> FALSE]
  <2>1. request \in ClerkState /\ request # Waiting /\ request.does = "close" /\ request.id = p
    BY DEF ClerkState, Waiting
  <2>2. Takes(k, request) /\ period[p] # NotCreated
    BY <1>4 DEF BeginClosePeriod
  <2> HIDE DEF request
  <2> QED
    BY <2>1, <2>2, BeginningKeepsBooks
<1>5. ASSUME NEW k \in Clerks, RequestDies(k) PROVE FInv'
  <2>1. Waiting \in ClerkState
    BY DEF ClerkState
  <2> QED
    BY <1>5, <2>1, ResettingKeepsBooks DEF RequestDies, ledger, FInv, FTypes
<1>6. ASSUME NEW c \in Categories, CreateCategory(c) \/ UpdateCategory(c) PROVE FInv'
  BY <1>6, ResettingKeepsBooks DEF CreateCategory, UpdateCategory, FInv, FTypes
<1>7. CASE UNCHANGED financeVars
  BY <1>7, ResettingKeepsBooks DEF financeVars, FInv, FTypes
<1> QED
  BY <1>1, <1>2, <1>3, <1>4, <1>5, <1>6, <1>7, PostingKeepsBooks, AmendingKeepsBooks, DroppingKeepsBooks,
     ClosingKeepsBooks, CreatingKeepsBooks DEF FinanceNext, ExpenseRequest, CloseRequest

\* However requests and closings interleave, a closed period holds what it was closed
\* with, unless a request that a closing overtook wrote to it (expense.service.js:83-202).
THEOREM BooksStayClosed == FinanceSpec => []ClosedBooksAreKept
<1>1. FInv => ClosedBooksAreKept
  BY DEF FInv
<1> QED
  BY <1>1, FinanceStart, FinanceStep, PTL DEF FinanceSpec

\* The sum of a column of some rows, as the reports compute it and as the lemmas know it.
Column(rows, col, S) == [s \in S |-> rows[s][col]]
ColumnSum(rows, col, S) ==
  (CHOOSE f : f = [s \in SUBSET S |-> IF s = {} THEN 0
                                      ELSE rows[CHOOSE x \in s : TRUE][col] + f[s \ {CHOOSE x \in s : TRUE}]])[S]

LEMMA SumOfColumn ==
  ASSUME NEW S, IsFiniteSet(S), NEW rows, NEW col
  PROVE  ColumnSum(rows, col, S) = SumOver(Column(rows, col, S), S)
<1> DEFINE g == Column(rows, col, S)
           Body(f, s) == IF s = {} THEN 0
                         ELSE rows[CHOOSE x \in s : TRUE][col] + f[s \ {CHOOSE x \in s : TRUE}]
           Sums(f) == f = [s \in SUBSET S |-> Body(f, s)]
           F == CHOOSE f : Sums(f)
<1>1. ColumnSum(rows, col, S) = F[S]
  BY Zenon DEF ColumnSum
<1>2. ASSUME NEW f PROVE Sums(f) <=> Folding(f, g, S)
  <2>1. ASSUME NEW s \in SUBSET S
        PROVE  Body(f, s) = IF s = {} THEN 0 ELSE g[Pick(s)] + f[s \ {Pick(s)}]
    <3>1. CASE s = {}
      BY <3>1
    <3>2. CASE s # {}
      <4>1. Pick(s) \in S
        BY <3>2, Picked
      <4>2. g[Pick(s)] = rows[Pick(s)][col]
        BY <4>1 DEF Column
      <4> QED
        BY <3>2, <4>2 DEF Pick
    <3> QED
      BY <3>1, <3>2
  <2> HIDE DEF Body
  <2>2. [s \in SUBSET S |-> Body(f, s)] = [s \in SUBSET S |-> IF s = {} THEN 0 ELSE g[Pick(s)] + f[s \ {Pick(s)}]]
    BY <2>1
  <2> QED
    BY <2>2, Zenon DEF Folding
<1> HIDE DEF Sums, g
<1>4. \E f : Folding(f, g, S)
  BY FoldingExists
<1>5. Folding(F, g, S)
  BY <1>2, <1>4
<1>6. Folding(CHOOSE f : Folding(f, g, S), g, S)
  BY <1>4
<1>7. F[S] = SumOver(g, S)
  <2> DEFINE G == CHOOSE f : Folding(f, g, S)
  <2> HIDE DEF F, G
  <2>1. F[S] = G[S]
    BY <1>5, <1>6, FoldingUnique DEF G
  <2> QED
    BY <2>1 DEF SumOver, G
<1> QED
  BY <1>1, <1>7 DEF g

LEMMA Totals ==
  ASSUME NEW S
  PROVE  /\ TotalOf(S, LAMBDA s : Sale[s].subtotal) = ColumnSum(Sale, "subtotal", S)
         /\ TotalOf(S, LAMBDA s : Sale[s].discount) = ColumnSum(Sale, "discount", S)
         /\ TotalOf(S, LAMBDA s : Sale[s].shipping) = ColumnSum(Sale, "shipping", S)
         /\ TotalOf(S, LAMBDA s : Sale[s].refunds) = ColumnSum(Sale, "refunds", S)
         /\ TotalOf(S, LAMBDA s : Sale[s].cost) = ColumnSum(Sale, "cost", S)
         /\ TotalOf(S, LAMBDA e : expense[e].amount) = ColumnSum(expense, "amount", S)
BY Zenon DEF TotalOf, MapThenSumSet, MapThenFoldSet, ColumnSum


LEMMA PartsOfColumn ==
  ASSUME NEW S, IsFiniteSet(S), NEW rows, NEW col, \A x \in S : rows[x][col] \in Int, NEW P \in SUBSET S
  PROVE  /\ ColumnSum(rows, col, S) = ColumnSum(rows, col, P) + ColumnSum(rows, col, S \ P)
         /\ ColumnSum(rows, col, P) \in Int /\ ColumnSum(rows, col, S \ P) \in Int
<1> DEFINE g == Column(rows, col, S)
           Q == S \ P
<1>1. IsFiniteSet(P) /\ IsFiniteSet(Q) /\ Q \in SUBSET S
  BY FS_Subset
<1>2. \A x \in S : g[x] = rows[x][col] /\ g[x] \in Int
  BY DEF Column
<1>3. /\ \A x \in P : Column(rows, col, P)[x] = g[x]
      /\ \A x \in Q : Column(rows, col, Q)[x] = g[x]
  BY <1>1, <1>2 DEF Column
<1> HIDE DEF g
<1>4. SumOver(g, S) = SumOver(g, P) + SumOver(g, Q)
  BY <1>2, SumSplits
<1> HIDE DEF Q
<1>5. SumOver(Column(rows, col, P), P) = SumOver(g, P) /\ SumOver(Column(rows, col, Q), Q) = SumOver(g, Q)
  BY <1>1, <1>3, SumSame
<1>6. SumOver(g, P) \in Int /\ SumOver(g, Q) \in Int
  <2>1. (\A x \in P : g[x] \in Int) /\ (\A x \in Q : g[x] \in Int)
    BY <1>1, <1>2
  <2> QED
    BY <1>1, <2>1, SumType
<1>7. ColumnSum(rows, col, S) = SumOver(g, S)
  BY SumOfColumn DEF g
<1>8. ColumnSum(rows, col, P) = SumOver(g, P) /\ ColumnSum(rows, col, Q) = SumOver(g, Q)
  BY <1>1, <1>5, SumOfColumn
<1> QED
  BY <1>4, <1>6, <1>7, <1>8 DEF Q

\* What the sums of a report range over.
Refunded(from, to) == {s \in Sales : Between(Sale[s].refunded, from, to)}
Shipped(from, to) == {s \in PaidSales(from, to) : ~Sale[s].cancelled}
Spent(from, to) == {e \in Expenses : expense[e] # NoRow /\ expense[e].status \in {"PAID", "APPROVED"}
                                     /\ from <= expense[e].date /\ expense[e].date <= to}

LEMMA RevenueLines ==
  ASSUME NEW from \in Days, NEW to \in Days
  PROVE  /\ RevenueSummary[from][to].grossSubtotal = ColumnSum(Sale, "subtotal", PaidSales(from, to))
         /\ RevenueSummary[from][to].totalDiscounts = ColumnSum(Sale, "discount", PaidSales(from, to))
         /\ RevenueSummary[from][to].totalShipping = ColumnSum(Sale, "shipping", PaidSales(from, to))
         /\ RevenueSummary[from][to].totalRefunds = ColumnSum(Sale, "refunds", Refunded(from, to))
         /\ TotalCOGS[from][to] = ColumnSum(Sale, "cost", Shipped(from, to))
         /\ OperatingExpenses(from, to) = ColumnSum(expense, "amount", Spent(from, to))
<1>1. /\ RevenueSummary[from][to].grossSubtotal = TotalOf(PaidSales(from, to), LAMBDA s : Sale[s].subtotal)
      /\ RevenueSummary[from][to].totalDiscounts = TotalOf(PaidSales(from, to), LAMBDA s : Sale[s].discount)
      /\ RevenueSummary[from][to].totalShipping = TotalOf(PaidSales(from, to), LAMBDA s : Sale[s].shipping)
  BY Zenon DEF RevenueSummary
<1>2. RevenueSummary[from][to].totalRefunds = TotalOf(Refunded(from, to), LAMBDA s : Sale[s].refunds)
  BY Zenon DEF RevenueSummary, Refunded
<1>3. TotalCOGS[from][to] = TotalOf(Shipped(from, to), LAMBDA s : Sale[s].cost)
  BY Zenon DEF TotalCOGS, Shipped
<1>4. OperatingExpenses(from, to) = TotalOf(Spent(from, to), LAMBDA e : expense[e].amount)
  BY Zenon DEF OperatingExpenses, Spent
<1>5. ASSUME NEW S
      PROVE  /\ TotalOf(S, LAMBDA s : Sale[s].subtotal) = ColumnSum(Sale, "subtotal", S)
             /\ TotalOf(S, LAMBDA s : Sale[s].discount) = ColumnSum(Sale, "discount", S)
             /\ TotalOf(S, LAMBDA s : Sale[s].shipping) = ColumnSum(Sale, "shipping", S)
             /\ TotalOf(S, LAMBDA s : Sale[s].refunds) = ColumnSum(Sale, "refunds", S)
             /\ TotalOf(S, LAMBDA s : Sale[s].cost) = ColumnSum(Sale, "cost", S)
             /\ TotalOf(S, LAMBDA e : expense[e].amount) = ColumnSum(expense, "amount", S)
  BY Totals
<1> QED
  BY <1>1, <1>2, <1>3, <1>4, <1>5, Zenon

LEMMA ReportLines ==
  ASSUME NEW from \in Days, NEW to \in Days
  PROVE  /\ PnLReport(from, to)["netSales"] =
              ColumnSum(Sale, "subtotal", PaidSales(from, to)) - ColumnSum(Sale, "discount", PaidSales(from, to))
                - ColumnSum(Sale, "refunds", Refunded(from, to))
         /\ PnLReport(from, to)["netRevenue"] =
              PnLReport(from, to)["netSales"] + ColumnSum(Sale, "shipping", PaidSales(from, to))
         /\ PnLReport(from, to)["grossProfit"] =
              PnLReport(from, to)["netSales"] - ColumnSum(Sale, "cost", Shipped(from, to))
         /\ PnLReport(from, to)["netProfit"] =
              PnLReport(from, to)["grossProfit"] - ColumnSum(expense, "amount", Spent(from, to))
BY RevenueLines DEF PnLReport

LEMMA DatesOfSales ==
  ASSUME NEW s \in Sales
  PROVE  Sale[s].placed \in Moment /\ Sale[s].refunded \in Moment
<1>1. PICK row \in SaleRow : row = Sale[s]
  BY FinanceAssumption
<1> QED
  BY <1>1 DEF SaleRow

\* Its first and last millisecond belong to a range of days.
LEMMA RangeOfDays ==
  ASSUME NEW x \in Moment, NEW from \in Nat, NEW to \in Nat
  PROVE  x.day \in Nat /\ (Between(x, from, to) <=> from <= x.day /\ x.day <= to)
<1>1. x.day \in Days /\ x.moment \in 0..2
  BY DEF Moment
<1>2. x.day \in Nat
  BY <1>1, FinanceAssumption
<1> QED
  BY <1>1, <1>2 DEF Between, NotAfter, DayStart, DayEnd

\* Every sale, refund and expense of a range belongs to one of its parts.
LEMMA RangeSplits ==
  ASSUME expense \in [Expenses -> Expense \union {NoRow}],
         NEW from \in Days, NEW mid \in Days, NEW to \in Days, from <= mid, mid < to, NEW next, next = mid + 1
  PROVE  /\ PaidSales(from, mid) \in SUBSET PaidSales(from, to)
         /\ PaidSales(from, to) \ PaidSales(from, mid) = PaidSales(next, to)
         /\ Refunded(from, mid) \in SUBSET Refunded(from, to)
         /\ Refunded(from, to) \ Refunded(from, mid) = Refunded(next, to)
         /\ Shipped(from, mid) \in SUBSET Shipped(from, to)
         /\ Shipped(from, to) \ Shipped(from, mid) = Shipped(next, to)
         /\ Spent(from, mid) \in SUBSET Spent(from, to)
         /\ Spent(from, to) \ Spent(from, mid) = Spent(next, to)
<1>1. Days \subseteq Nat /\ next \in Nat
  BY FinanceAssumption
<1>2. ASSUME NEW s \in Sales
      PROVE  Sale[s].placed.day \in Nat /\ Sale[s].refunded.day \in Nat
  BY <1>1, DatesOfSales, RangeOfDays
<1>3. ASSUME NEW s \in Sales, NEW a \in Nat, NEW b \in Nat
      PROVE  /\ Between(Sale[s].placed, a, b) <=> a <= Sale[s].placed.day /\ Sale[s].placed.day <= b
             /\ Between(Sale[s].refunded, a, b) <=> a <= Sale[s].refunded.day /\ Sale[s].refunded.day <= b
  BY DatesOfSales, RangeOfDays
<1>4. /\ PaidSales(from, mid) \in SUBSET PaidSales(from, to)
      /\ PaidSales(from, to) \ PaidSales(from, mid) = PaidSales(next, to)
  <2>1. ASSUME NEW s \in Sales
        PROVE  /\ Between(Sale[s].placed, from, mid) => Between(Sale[s].placed, from, to)
               /\ Between(Sale[s].placed, next, to) <=>
                    Between(Sale[s].placed, from, to) /\ ~Between(Sale[s].placed, from, mid)
    BY <1>1, <1>2, <1>3
  <2> QED
    BY <2>1 DEF PaidSales
<1>5. /\ Refunded(from, mid) \in SUBSET Refunded(from, to)
      /\ Refunded(from, to) \ Refunded(from, mid) = Refunded(next, to)
  <2>1. ASSUME NEW s \in Sales
        PROVE  /\ Between(Sale[s].refunded, from, mid) => Between(Sale[s].refunded, from, to)
               /\ Between(Sale[s].refunded, next, to) <=>
                    Between(Sale[s].refunded, from, to) /\ ~Between(Sale[s].refunded, from, mid)
    BY <1>1, <1>2, <1>3
  <2> QED
    BY <2>1 DEF Refunded
<1>6. /\ Shipped(from, mid) \in SUBSET Shipped(from, to)
      /\ Shipped(from, to) \ Shipped(from, mid) = Shipped(next, to)
  BY <1>4 DEF Shipped
<1>7. \A e \in Expenses : expense[e] # NoRow => expense[e].date \in Nat
  BY <1>1 DEF Expense
<1>8. /\ Spent(from, mid) \in SUBSET Spent(from, to)
      /\ Spent(from, to) \ Spent(from, mid) = Spent(next, to)
  BY <1>1, <1>7 DEF Spent
<1> QED
  BY <1>4, <1>5, <1>6, <1>8

\* What a report sums are numbers, and finitely many.
LEMMA ReportColumns ==
  ASSUME expense \in [Expenses -> Expense \union {NoRow}], NEW from, NEW to
  PROVE  /\ IsFiniteSet(PaidSales(from, to)) /\ IsFiniteSet(Refunded(from, to))
         /\ IsFiniteSet(Shipped(from, to)) /\ IsFiniteSet(Spent(from, to))
         /\ \A s \in Sales : \A col \in {"subtotal", "discount", "shipping", "refunds", "cost"} : Sale[s][col] \in Int
         /\ PaidSales(from, to) \subseteq Sales /\ Refunded(from, to) \subseteq Sales /\ Shipped(from, to) \subseteq Sales
         /\ \A e \in Spent(from, to) : expense[e]["amount"] \in Int
<1>1. /\ PaidSales(from, to) \in SUBSET Sales /\ Refunded(from, to) \in SUBSET Sales
      /\ Shipped(from, to) \in SUBSET Sales /\ Spent(from, to) \in SUBSET Expenses
  BY DEF PaidSales, Refunded, Shipped, Spent
<1>2. /\ IsFiniteSet(PaidSales(from, to)) /\ IsFiniteSet(Refunded(from, to))
      /\ IsFiniteSet(Shipped(from, to)) /\ IsFiniteSet(Spent(from, to))
  BY <1>1, FinanceAssumption, FS_Subset
<1>3. \A s \in Sales : \A col \in {"subtotal", "discount", "shipping", "refunds", "cost"} : Sale[s][col] \in Int
  BY FinanceAssumption DEF SaleRow
<1>4. ASSUME NEW e \in Spent(from, to) PROVE expense[e]["amount"] \in Int
  <2>1. e \in Expenses /\ expense[e] # NoRow
    BY DEF Spent
  <2>2. PICK row \in Expense : row = expense[e]
    BY <2>1
  <2>3. row["amount"] \in Amounts
    BY DEF Expense
  <2> QED
    BY <2>2, <2>3, FinanceAssumption
<1> QED
  BY <1>1, <1>2, <1>3, <1>4

LEMMA ReportsAdd ==
  ASSUME expense \in [Expenses -> Expense \union {NoRow}],
         NEW from \in Days, NEW mid \in Days, NEW to \in Days, from <= mid, mid < to, NEW next, next = mid + 1
  PROVE  \A line \in {"netSales", "netRevenue", "grossProfit", "netProfit"} :
           PnLReport(from, to)[line] = PnLReport(from, mid)[line] + PnLReport(next, to)[line]
<1>1. next \in Days
  BY FinanceAssumption
<1>2. \A s \in PaidSales(from, to) :
        Sale[s]["subtotal"] \in Int /\ Sale[s]["discount"] \in Int /\ Sale[s]["shipping"] \in Int
  BY ReportColumns
<1>3. ASSUME NEW col \in {"subtotal", "discount", "shipping"}
      PROVE  /\ ColumnSum(Sale, col, PaidSales(from, to)) =
                  ColumnSum(Sale, col, PaidSales(from, mid)) + ColumnSum(Sale, col, PaidSales(next, to))
             /\ ColumnSum(Sale, col, PaidSales(from, mid)) \in Int /\ ColumnSum(Sale, col, PaidSales(next, to)) \in Int
  <2>1. PICK S, P, Q : S = PaidSales(from, to) /\ P = PaidSales(from, mid) /\ Q = PaidSales(next, to)
    OBVIOUS
  <2>2. P \in SUBSET S /\ S \ P = Q
    BY <2>1, RangeSplits
  <2>3. IsFiniteSet(S) /\ \A x \in S : Sale[x][col] \in Int
    BY <1>2, <1>3, <2>1, ReportColumns
  <2>4. ColumnSum(Sale, col, S) = ColumnSum(Sale, col, P) + ColumnSum(Sale, col, Q)
        /\ ColumnSum(Sale, col, P) \in Int /\ ColumnSum(Sale, col, Q) \in Int
    BY <2>2, <2>3, PartsOfColumn
  <2> QED
    BY <2>1, <2>4
<1>4. /\ ColumnSum(Sale, "refunds", Refunded(from, to)) =
           ColumnSum(Sale, "refunds", Refunded(from, mid)) + ColumnSum(Sale, "refunds", Refunded(next, to))
      /\ ColumnSum(Sale, "refunds", Refunded(from, mid)) \in Int /\ ColumnSum(Sale, "refunds", Refunded(next, to)) \in Int
  <2>1. PICK S, P, Q, col : S = Refunded(from, to) /\ P = Refunded(from, mid) /\ Q = Refunded(next, to)
                           /\ col = "refunds"
    OBVIOUS
  <2>2. P \in SUBSET S /\ S \ P = Q
    BY <2>1, RangeSplits
  <2>3. IsFiniteSet(S) /\ \A x \in S : Sale[x][col] \in Int
    BY <2>1, ReportColumns
  <2>4. ColumnSum(Sale, col, S) = ColumnSum(Sale, col, P) + ColumnSum(Sale, col, Q)
        /\ ColumnSum(Sale, col, P) \in Int /\ ColumnSum(Sale, col, Q) \in Int
    BY <2>2, <2>3, PartsOfColumn
  <2> QED
    BY <2>1, <2>4
<1>5. /\ ColumnSum(Sale, "cost", Shipped(from, to)) =
           ColumnSum(Sale, "cost", Shipped(from, mid)) + ColumnSum(Sale, "cost", Shipped(next, to))
      /\ ColumnSum(Sale, "cost", Shipped(from, mid)) \in Int /\ ColumnSum(Sale, "cost", Shipped(next, to)) \in Int
  <2>1. PICK S, P, Q : S = Shipped(from, to) /\ P = Shipped(from, mid) /\ Q = Shipped(next, to)
    OBVIOUS
  <2>2. P \in SUBSET S /\ S \ P = Q
    BY <2>1, RangeSplits
  <2>3. IsFiniteSet(S) /\ \A x \in S : Sale[x]["cost"] \in Int
    BY <2>1, ReportColumns
  <2>4. ColumnSum(Sale, "cost", S) = ColumnSum(Sale, "cost", P) + ColumnSum(Sale, "cost", Q)
        /\ ColumnSum(Sale, "cost", P) \in Int /\ ColumnSum(Sale, "cost", Q) \in Int
    BY <2>2, <2>3, PartsOfColumn
  <2> QED
    BY <2>1, <2>4
<1>6. /\ ColumnSum(expense, "amount", Spent(from, to)) =
           ColumnSum(expense, "amount", Spent(from, mid)) + ColumnSum(expense, "amount", Spent(next, to))
      /\ ColumnSum(expense, "amount", Spent(from, mid)) \in Int /\ ColumnSum(expense, "amount", Spent(next, to)) \in Int
  <2>1. PICK S, P, Q, rows : S = Spent(from, to) /\ P = Spent(from, mid) /\ Q = Spent(next, to) /\ rows = expense
    OBVIOUS
  <2>2. P \in SUBSET S /\ S \ P = Q
    BY <2>1, RangeSplits
  <2>3. IsFiniteSet(S) /\ \A x \in S : rows[x]["amount"] \in Int
    BY <2>1, ReportColumns
  <2>4. ColumnSum(rows, "amount", S) = ColumnSum(rows, "amount", P) + ColumnSum(rows, "amount", Q)
        /\ ColumnSum(rows, "amount", P) \in Int /\ ColumnSum(rows, "amount", Q) \in Int
    BY <2>2, <2>3, PartsOfColumn
  <2> QED
    BY <2>1, <2>4
<1>7. PnLReport(from, to)["netSales"] = PnLReport(from, mid)["netSales"] + PnLReport(next, to)["netSales"]
      /\ PnLReport(from, mid)["netSales"] \in Int /\ PnLReport(next, to)["netSales"] \in Int
  BY <1>1, <1>3, <1>4, ReportLines
<1>8. PnLReport(from, to)["netRevenue"] = PnLReport(from, mid)["netRevenue"] + PnLReport(next, to)["netRevenue"]
  BY <1>1, <1>3, <1>7, ReportLines
<1>9. PnLReport(from, to)["grossProfit"] = PnLReport(from, mid)["grossProfit"] + PnLReport(next, to)["grossProfit"]
      /\ PnLReport(from, mid)["grossProfit"] \in Int /\ PnLReport(next, to)["grossProfit"] \in Int
  BY <1>1, <1>5, <1>7, ReportLines
<1>10. PnLReport(from, to)["netProfit"] = PnLReport(from, mid)["netProfit"] + PnLReport(next, to)["netProfit"]
  BY <1>1, <1>6, <1>9, ReportLines
<1> QED
  BY <1>7, <1>8, <1>9, <1>10

\* The reports of two adjacent ranges of days add up to the report of the whole, whatever
\* sales there are and whatever is booked (finance.repository.js:6-24, 51-85).
THEOREM ReportsStayAdditive == FinanceSpec => []ReportsAddUp
<1>1. FInv => ReportsAddUp
  <2> SUFFICES ASSUME FInv, NEW from \in Days, NEW mid \in Days, NEW to \in Days, from <= mid, mid < to,
                      NEW line \in {"netSales", "netRevenue", "grossProfit", "netProfit"}
               PROVE  PnLReport(from, to)[line] = PnLReport(from, mid)[line] + PnLReport(mid + 1, to)[line]
    BY DEF ReportsAddUp
  <2>1. expense \in [Expenses -> Expense \union {NoRow}]
    BY DEF FInv, FTypes
  <2>2. PICK next : next = mid + 1
    OBVIOUS
  <2>3. PnLReport(from, to)[line] = PnLReport(from, mid)[line] + PnLReport(next, to)[line]
    BY <2>1, <2>2, ReportsAdd
  <2> QED
    BY <2>2, <2>3
<1>2. FinanceInit => FInv
  BY FinanceStart
<1>3. FInv /\ [FinanceNext]_financeVars => FInv'
  BY FinanceStep
<1> QED
  BY <1>1, <1>2, <1>3, PTL DEF FinanceSpec

-----------------------------------------------------------------------------
\* Notifications.  A call that has a row sends it: nothing but such a call delivers.
Sending == {"send", "sent", "failed"}
Sends(s, n) == task[s].at \in Sending /\ task[s].id = n

NTypes ==
  /\ message \in [Messages -> MessageRow \union {NoMessage}]
  /\ delivered \in [Messages -> Nat]
  /\ task = [s \in Tasks |-> task[s]]
  /\ \A s \in Tasks : task[s].at \in Sending => task[s] \in [at : Sending, id : Messages, retry : BOOLEAN]

\* Only what the customer took when the service looked has a row that can be sent.
NAgreed ==
  /\ \A s \in Tasks : task[s].at = "pending" => task[s].allowed = TRUE
  /\ \A s \in Tasks : task[s].at \in Sending => message[task[s].id].status \in {"PENDING", "SENT", "FAILED"}
  /\ \A n \in Messages : message[n].status \in {"PENDING", "SENT", "FAILED"} => n \in agreed
  /\ \A n \in Messages : delivered[n] # 0 => n \in agreed

\* At most one call sends a message, unless it is in doubt; how often it was delivered
\* follows from where that call is or, when there is none, from the row.
NCounted ==
  /\ \A s, t \in Tasks, n \in Messages \ doubtful : Sends(s, n) /\ Sends(t, n) => s = t
  /\ \A s \in Tasks, n \in Messages \ doubtful : Sends(s, n) =>
       /\ message[n].status \in {"PENDING", "FAILED"}
       /\ delivered[n] = IF task[s].at = "sent" THEN 1 ELSE 0
  /\ \A n \in Messages \ doubtful : (\A s \in Tasks : ~Sends(s, n)) =>
       delivered[n] = IF message[n].status = "SENT" THEN 1 ELSE 0

NInv == NTypes /\ NAgreed /\ NCounted

LEMMA NotificationsStart == NotificationsInit => NInv
BY DEF NotificationsInit, NInv, NTypes, NAgreed, NCounted, Sends, Sending, NoTask, NoMessage, MessageRow

\* A call that does not send, before and after a step that leaves the rows alone.
LEMMA PreparingKeepsRows ==
  ASSUME NInv, NEW s \in Tasks, NEW next, Step(s, next), next.at \notin Sending,
         next.at = "pending" => next.allowed = TRUE,
         UNCHANGED <<message, trail>>,
         task[s].at \in {"sent", "failed"} => FALSE
  PROVE  NInv'
<1>1. \A t \in Tasks : task'[t] = IF t = s THEN next ELSE task[t]
  BY DEF Step, NInv, NTypes
<1>2. task' = [t \in Tasks |-> task'[t]]
  BY DEF Step, NInv, NTypes
<1>3. NTypes'
  BY <1>1, <1>2 DEF NInv, NTypes, trail, Sending
<1>4. NAgreed'
  BY <1>1 DEF NInv, NAgreed, trail, Sending
<1>5. NCounted'
  <2>1. \A t \in Tasks, n \in Messages : Sends(t, n)' => Sends(t, n)
    BY <1>1 DEF Sends
  <2>2. \A t \in Tasks, n \in Messages : Sends(t, n) => Sends(t, n)' \/ t = s
    BY <1>1 DEF Sends
  <2>3. \A t \in Tasks, n \in Messages : Sends(t, n)' => task'[t].at = task[t].at
    BY <1>1 DEF Sends
  <2>4. \A n \in Messages : Sends(s, n) => task[s].at = "send"
    BY DEF Sends, Sending
  <2> QED
    BY <2>1, <2>2, <2>3, <2>4 DEF NInv, NTypes, NCounted, trail, MessageRow, NoMessage
<1> QED
  BY <1>3, <1>4, <1>5 DEF NInv

LEMMA LookingRespects ==
  ASSUME NInv, NEW s \in Tasks, LookUpCustomer(s)
  PROVE  NInv'
<1> DEFINE ask == task[s].ask
           allowed == ask.marketing /\ ~ask.forced /\ ask.to # NoSubscriber => TakesMarketing(ask.to, ask.channel)
           next == [at |-> IF allowed THEN "pending" ELSE "cancelled", allowed |-> allowed]
<1>1. Step(s, next) /\ UNCHANGED <<message, trail>> /\ task[s].at = "look"
  BY DEF LookUpCustomer
<1>2. CASE allowed
  <2>1. next = [at |-> "pending", allowed |-> TRUE]
    BY <1>2
  <2> HIDE DEF next
  <2> QED
    BY <1>1, <2>1, PreparingKeepsRows DEF Sending
<1>3. CASE ~allowed
  <2>1. next = [at |-> "cancelled", allowed |-> FALSE]
    BY <1>3
  <2> HIDE DEF next
  <2> QED
    BY <1>1, <2>1, PreparingKeepsRows DEF Sending
<1> QED
  BY <1>2, <1>3

LEMMA RecordingRespects ==
  ASSUME NInv, NEW s \in Tasks, RecordMessage(s)
  PROVE  NInv'
<1>1. PICK n \in Messages :
        /\ message[n] = NoMessage
        /\ message' = [message EXCEPT ![n] = [status |-> IF task[s].at = "pending" THEN "PENDING" ELSE "CANCELLED"]]
        /\ agreed' = IF task[s].allowed THEN agreed \union {n} ELSE agreed
        /\ Step(s, IF task[s].at = "pending" THEN [at |-> "send", id |-> n, retry |-> FALSE] ELSE NoTask)
  BY DEF RecordMessage, NextMessage
<1>2. UNCHANGED <<delivered, doubtful>> /\ task[s].at \in {"cancelled", "pending"}
  BY DEF RecordMessage
<1>3. \A t \in Tasks : ~Sends(t, n)
  BY <1>1 DEF NInv, NAgreed, NoMessage, Sends
<1> DEFINE row == [status |-> IF task[s].at = "pending" THEN "PENDING" ELSE "CANCELLED"]
           next == IF task[s].at = "pending" THEN [at |-> "send", id |-> n, retry |-> FALSE] ELSE NoTask
<1>4. /\ row \in MessageRow /\ row.status = IF task[s].at = "pending" THEN "PENDING" ELSE "CANCELLED"
      /\ \A m \in Messages : message'[m] = IF m = n THEN row ELSE message[m]
      /\ message' \in [Messages -> MessageRow \union {NoMessage}]
  BY <1>1 DEF NInv, NTypes, MessageRow
<1>5. /\ task' = [t \in Tasks |-> task'[t]]
      /\ \A t \in Tasks : task'[t] = IF t = s THEN next ELSE task[t]
  BY <1>1 DEF Step, NInv, NTypes
<1>6. /\ next.at = "send" => /\ next \in [at : Sending, id : Messages, retry : BOOLEAN] /\ next.id = n
                             /\ task[s].at = "pending"
      /\ next.at \in {"send", "none"}
      /\ next.at = "none" => task[s].at # "pending"
  BY DEF Sending, NoTask
<1> HIDE DEF row, next
<1>7. NTypes'
  BY <1>2, <1>4, <1>5, <1>6 DEF NInv, NTypes, Sending
<1>8. NAgreed'
  <2>1. task[s].at = "pending" => n \in agreed'
    BY <1>1 DEF NInv, NAgreed
  <2>2. agreed \subseteq agreed'
    BY <1>1
  <2> QED
    BY <1>1, <1>2, <1>3, <1>4, <1>5, <1>6, <2>1, <2>2 DEF NInv, NAgreed, Sends, Sending
<1>9. NCounted'
  <2>1. \A t \in Tasks, m \in Messages : Sends(t, m)' <=> \/ t # s /\ Sends(t, m)
                                                          \/ t = s /\ m = n /\ next.at = "send"
    BY <1>5, <1>6 DEF Sends, Sending
  <2>2. \A m \in Messages : ~Sends(s, m)
    BY <1>2 DEF Sends, Sending
  <2>3. n \notin doubtful => delivered[n] = 0
    BY <1>1, <1>3 DEF NInv, NCounted, NoMessage
  <2> QED
    BY <1>2, <1>3, <1>4, <1>5, <1>6, <2>1, <2>2, <2>3 DEF NInv, NCounted
<1> QED
  BY <1>7, <1>8, <1>9 DEF NInv

\* A call that sends goes on to the next of its steps.
LEMMA Progressing ==
  ASSUME NInv, NEW s \in Tasks, NEW at \in Sending, task[s].at \in Sending, Step(s, [task[s] EXCEPT !.at = at])
  PROVE  /\ task[s].id \in Messages
         /\ task' = [t \in Tasks |-> task'[t]]
         /\ \A t \in Tasks : t # s => task'[t] = task[t]
         /\ task'[s] \in [at : Sending, id : Messages, retry : BOOLEAN]
         /\ task'[s].at = at /\ task'[s].id = task[s].id
         /\ \A t \in Tasks, m \in Messages : Sends(t, m)' <=> Sends(t, m)
<1>1. task[s] \in [at : Sending, id : Messages, retry : BOOLEAN]
  BY DEF NInv, NTypes
<1> DEFINE next == [task[s] EXCEPT !.at = at]
<1>2. next \in [at : Sending, id : Messages, retry : BOOLEAN] /\ next.at = at /\ next.id = task[s].id
  BY <1>1
<1>3. /\ task' = [t \in Tasks |-> task'[t]]
      /\ \A t \in Tasks : task'[t] = IF t = s THEN next ELSE task[t]
  BY DEF Step, NInv, NTypes
<1> HIDE DEF next
<1> QED
  BY <1>1, <1>2, <1>3 DEF Sends

LEMMA DeliveringCounts ==
  ASSUME NInv, NEW s \in Tasks, Deliver(s)
  PROVE  NInv'
<1>1. PICK at \in {"sent", "failed"} :
        /\ Step(s, [task[s] EXCEPT !.at = at])
        /\ delivered' = IF at = "sent" THEN [delivered EXCEPT ![task[s].id] = @ + 1] ELSE delivered
  BY DEF Deliver
<1>2. task[s].at = "send" /\ UNCHANGED <<message, agreed, doubtful>>
  BY DEF Deliver
<1>3. at \in Sending /\ task[s].at \in Sending
  BY <1>2 DEF Sending
<1>4. /\ task[s].id \in Messages
      /\ task' = [t \in Tasks |-> task'[t]]
      /\ \A t \in Tasks : t # s => task'[t] = task[t]
      /\ task'[s] \in [at : Sending, id : Messages, retry : BOOLEAN]
      /\ task'[s].at = at /\ task'[s].id = task[s].id
      /\ \A t \in Tasks, m \in Messages : Sends(t, m)' <=> Sends(t, m)
  BY <1>1, <1>3, Progressing
<1>5. /\ delivered' \in [Messages -> Nat]
      /\ \A m \in Messages : delivered'[m] = IF m = task[s].id /\ at = "sent" THEN delivered[m] + 1 ELSE delivered[m]
  BY <1>1, <1>4 DEF NInv, NTypes
<1>6. NTypes'
  BY <1>2, <1>4, <1>5 DEF NInv, NTypes
<1>7. NAgreed'
  BY <1>2, <1>3, <1>4, <1>5 DEF NInv, NAgreed, Sending
<1>8. NCounted'
  <2>1. Sends(s, task[s].id)
    BY <1>3 DEF Sends
  <2>2. \A m \in Messages : Sends(s, m) => m = task[s].id
    BY DEF Sends
  <2> QED
    BY <1>1, <1>2, <1>4, <1>5, <2>1, <2>2 DEF NInv, NTypes, NCounted
<1> QED
  BY <1>6, <1>7, <1>8 DEF NInv

\* The outcome of a delivery is recorded.
LEMMA MarkingSettles ==
  ASSUME NInv, NEW s \in Tasks, MarkSent(s) \/ MarkFailed(s)
  PROVE  NInv'
<1> DEFINE n == task[s].id
           status == IF task[s].at = "sent" THEN "SENT" ELSE "FAILED"
<1>1. /\ task[s].at \in {"sent", "failed"} /\ UNCHANGED trail /\ Step(s, NoTask)
      /\ message' = [message EXCEPT ![n].status = status]
  BY DEF MarkSent, MarkFailed
<1>2. n \in Messages /\ message[n].status \in {"PENDING", "SENT", "FAILED"}
  BY <1>1 DEF NInv, NTypes, NAgreed, Sending
<1>3. message[n] \in MessageRow
  BY <1>2 DEF NInv, NTypes, NoMessage
<1>4. /\ message' \in [Messages -> MessageRow \union {NoMessage}]
      /\ \A m \in Messages : message'[m].status = IF m = n THEN status ELSE message[m].status
  BY <1>1, <1>2, <1>3 DEF NInv, NTypes, MessageRow
<1>5. /\ task' = [t \in Tasks |-> task'[t]]
      /\ \A t \in Tasks : task'[t] = IF t = s THEN NoTask ELSE task[t]
  BY <1>1 DEF Step, NInv, NTypes
<1>6. \A t \in Tasks, m \in Messages : Sends(t, m)' <=> t # s /\ Sends(t, m)
  BY <1>5 DEF Sends, Sending, NoTask
<1>7. Sends(s, n) /\ status \in {"SENT", "FAILED"} /\ status = IF task[s].at = "sent" THEN "SENT" ELSE "FAILED"
  BY <1>1 DEF Sends, Sending
<1>8. \A m \in Messages : Sends(s, m) => m = n
  BY DEF Sends
<1> HIDE DEF n, status
<1>9. NTypes'
  BY <1>1, <1>4, <1>5 DEF NInv, NTypes, trail, Sending, NoTask
<1>10. NAgreed'
  BY <1>1, <1>2, <1>4, <1>5, <1>7 DEF NInv, NAgreed, trail, Sending, NoTask
<1>11. NCounted'
  BY <1>1, <1>2, <1>4, <1>5, <1>6, <1>7, <1>8 DEF NInv, NCounted, trail
<1> QED
  BY <1>9, <1>10, <1>11 DEF NInv

\* A delivery whose outcome is lost leaves its message in doubt.
LEMMA LosingTrackIsDoubt ==
  ASSUME NInv, NEW s \in Tasks, task[s].at \in {"sent", "failed"},
         \/ Step(s, NoTask)
         \/ Step(s, [task[s] EXCEPT !.at = "failed"]),
         doubtful' = doubtful \union {task[s].id}, UNCHANGED <<message, delivered, agreed>>
  PROVE  NInv'
<1>1. /\ task' = [t \in Tasks |-> task'[t]]
      /\ \A t \in Tasks : t # s => task'[t] = task[t]
      /\ task[s].id \in Messages
      /\ \/ task'[s] = NoTask
         \/ task'[s] \in [at : Sending, id : Messages, retry : BOOLEAN] /\ task'[s].id = task[s].id
            /\ task'[s].at = "failed"
  <2>1. CASE Step(s, NoTask)
    BY <2>1 DEF Step, NInv, NTypes, Sending
  <2>2. CASE Step(s, [task[s] EXCEPT !.at = "failed"])
    BY <2>2, Progressing DEF Sending
  <2> QED
    BY <2>1, <2>2
<1>2. NTypes'
  BY <1>1 DEF NInv, NTypes, Sending, NoTask
<1>3. NAgreed'
  BY <1>1 DEF NInv, NAgreed, Sending, NoTask
<1>4. \A t \in Tasks, m \in Messages \ doubtful' : Sends(t, m)' <=> Sends(t, m)
  BY <1>1 DEF Sends, NoTask, Sending
<1>5. \A t \in Tasks, m \in Messages \ doubtful' : Sends(t, m) => t # s
  BY DEF Sends
<1>6. NCounted'
  BY <1>1, <1>4, <1>5 DEF NInv, NCounted
<1> QED
  BY <1>2, <1>3, <1>6 DEF NInv

LEMMA RetryingRespects ==
  ASSUME NInv, NEW s \in Tasks, NEW n \in Messages, RetryNotification(s, n)
  PROVE  NInv'
<1> DEFINE next == [at |-> "send", id |-> n, retry |-> TRUE]
<1>1. /\ task[s] = NoTask /\ message[n].status \in {"PENDING", "FAILED"} /\ Step(s, next)
      /\ doubtful' = IF InFlight(n) THEN doubtful \union {n} ELSE doubtful
      /\ UNCHANGED <<message, delivered, agreed>>
  BY DEF RetryNotification, Retryable
<1>2. next \in [at : Sending, id : Messages, retry : BOOLEAN] /\ next.at = "send" /\ next.id = n
  BY DEF Sending
<1>3. /\ task' = [t \in Tasks |-> task'[t]]
      /\ \A t \in Tasks : task'[t] = IF t = s THEN next ELSE task[t]
  BY <1>1 DEF Step, NInv, NTypes
<1> HIDE DEF next
<1>4. NTypes'
  BY <1>1, <1>2, <1>3 DEF NInv, NTypes, Sending
<1>5. NAgreed'
  BY <1>1, <1>2, <1>3 DEF NInv, NAgreed, Sending
<1>6. NCounted'
  <2>1. \A t \in Tasks, m \in Messages : Sends(t, m)' <=> (t = s /\ m = n) \/ Sends(t, m)
    BY <1>1, <1>2, <1>3 DEF Sends, Sending, NoTask
  <2>2. \A m \in Messages : ~Sends(s, m)
    BY <1>1 DEF Sends, Sending, NoTask
  <2>3. \A t \in Tasks : Sends(t, n) => n \in doubtful'
    BY <1>1 DEF InFlight, Sends, Sending
  <2>4. doubtful \subseteq doubtful'
    BY <1>1
  <2> QED
    BY <1>1, <1>2, <1>3, <2>1, <2>2, <2>3, <2>4 DEF NInv, NCounted
<1> QED
  BY <1>4, <1>5, <1>6 DEF NInv

LEMMA NotificationsStep == NInv /\ [NotificationsNext]_notificationsVars => NInv'
<1> SUFFICES ASSUME NInv, [NotificationsNext]_notificationsVars PROVE NInv'
  OBVIOUS
<1>1. ASSUME NEW s \in Tasks, NEW to, NEW type, NEW channel, NEW forced, Asks(s, to, type, channel, forced) PROVE NInv'
  <2> DEFINE next == [at |-> "look", ask |-> [to |-> to, marketing |-> type \in MARKETING_TYPES,
                                              channel |-> channel, forced |-> forced]]
  <2>1. next.at = "look"
    OBVIOUS
  <2>2. Step(s, next) /\ UNCHANGED <<message, trail>> /\ task[s].at = "none"
    BY <1>1 DEF Asks, NoTask
  <2> HIDE DEF next
  <2> QED
    BY <2>1, <2>2, PreparingKeepsRows DEF Sending
<1>2. ASSUME NEW s \in Tasks, SendByHand(s) \/ RunRewardExpirationJob(s) \/ RunAbandonedCartJob(s)
                              \/ RunLowStockAlertJob(s) \/ RunReviewReminderJob(s)
      PROVE  NInv'
  BY <1>1, <1>2 DEF SendByHand, RunRewardExpirationJob, RunAbandonedCartJob, RunLowStockAlertJob, RunReviewReminderJob
<1>3. ASSUME NEW s \in Tasks, MarkSentFails(s) PROVE NInv'
  BY <1>3, LosingTrackIsDoubt DEF MarkSentFails
<1>4. ASSUME NEW s \in Tasks, TaskDies(s) PROVE NInv'
  <2>1. CASE task[s].at \in {"sent", "failed"}
    BY <1>4, <2>1, LosingTrackIsDoubt DEF TaskDies
  <2>2. CASE task[s].at \notin {"sent", "failed"}
    BY <1>4, <2>2, PreparingKeepsRows DEF TaskDies, trail, NoTask, Sending
  <2> QED
    BY <2>1, <2>2
<1>5. ASSUME NEW s \in Tasks, NEW c \in Subscribers, BeginPreferences(s, c) PROVE NInv'
  <2>1. PICK next : next.at = "prefer" /\ Step(s, next)
    BY <1>5 DEF BeginPreferences
  <2>2. UNCHANGED <<message, trail>> /\ task[s].at = "none"
    BY <1>5 DEF BeginPreferences, NoTask
  <2> QED
    BY <2>1, <2>2, PreparingKeepsRows DEF Sending
<1>6. ASSUME NEW s \in Tasks, SetMarketingPreferences(s) PROVE NInv'
  BY <1>6, PreparingKeepsRows DEF SetMarketingPreferences, NoTask, Sending
<1>7. CASE UNCHANGED notificationsVars
  BY <1>7 DEF notificationsVars, NInv, NTypes, NAgreed, NCounted, Sends
<1> QED
  BY <1>2, <1>3, <1>4, <1>5, <1>6, <1>7, LookingRespects, RecordingRespects, DeliveringCounts, MarkingSettles,
     RetryingRespects DEF NotificationsNext

LEMMA NotificationsKept == NotificationsSpec => []NInv
BY NotificationsStart, NotificationsStep, PTL DEF NotificationsSpec

\* However requests, retries, crashes and changes of preference interleave, marketing
\* reaches only customers who took it when the service looked
\* (notification.service.js:62-127, 167-171).
THEOREM MarketingIsWanted == NotificationsSpec => []OptOutsAreRespected
<1>1. NInv => OptOutsAreRespected
  BY DEF NInv, NTypes, NAgreed, OptOutsAreRespected
<1> QED
  BY <1>1, NotificationsKept, PTL

\* A message that is not in doubt is delivered at most once, and its status says whether
\* it was, for any number of calls (notification.service.js:129-205).
THEOREM MessagesArriveOnce == NotificationsSpec => []DeliveredOnce
<1>1. NInv => DeliveredOnce
  <2> SUFFICES ASSUME NInv, NEW n \in Messages \ doubtful
               PROVE  /\ delivered[n] <= 1
                      /\ message[n].status = "SENT" => delivered[n] = 1
                      /\ message[n].status \in {"FAILED", "CANCELLED"} /\ ~InFlight(n) => delivered[n] = 0
    BY DEF DeliveredOnce
  <2>1. CASE \E s \in Tasks : Sends(s, n)
    <3>1. PICK s \in Tasks : Sends(s, n)
      BY <2>1
    <3>2. message[n].status \in {"PENDING", "FAILED"} /\ delivered[n] \in {0, 1}
      BY <3>1 DEF NInv, NCounted
    <3>3. InFlight(n)
      BY <3>1 DEF Sends, Sending, InFlight
    <3> QED
      BY <3>2, <3>3
  <2>2. CASE ~ \E s \in Tasks : Sends(s, n)
    BY <2>2 DEF NInv, NCounted
  <2> QED
    BY <2>1, <2>2
<1> QED
  BY <1>1, NotificationsKept, PTL

-----------------------------------------------------------------------------
\* Reviews.  A copy that is not outdated shows the text and the status the row still has.

Changes(h) == handler[h].does \in {"edit", "staff edit", "moderate"}
CopyIsCurrent(h) ==
  Changes(h) /\ handler[h].outdated = FALSE =>
    LET r == handler[h].id IN
    /\ review[r] \in Review
    /\ review[r].text = handler[h].copy.text /\ review[r].status = handler[h].copy.status

RTypes ==
  /\ review \in [ReviewIds -> Review \union {NoReview, Deleted}]
  /\ handler \in [Handlers -> HandlerState]
  /\ vetted = [r \in ReviewIds |-> vetted[r]]

RInv == RTypes /\ (\A h \in Handlers : CopyIsCurrent(h)) /\ PublishedAsModerated

LEMMA ReviewsStart == ReviewsInit => RInv
<1> SUFFICES ASSUME ReviewsInit PROVE RInv
  OBVIOUS
<1>1. AtRest \in HandlerState /\ AtRest.does = "nothing"
  BY DEF HandlerState, AtRest
<1>2. RTypes
  BY <1>1 DEF ReviewsInit, RTypes
<1>3. ASSUME NEW h \in Handlers PROVE CopyIsCurrent(h)
  BY <1>1 DEF ReviewsInit, CopyIsCurrent, Changes
<1>4. PublishedAsModerated
  BY DEF ReviewsInit, PublishedAsModerated, Present, NoReview, ReviewStatus
<1> QED
  BY <1>2, <1>3, <1>4 DEF RInv

LEMMA PresentRows ==
  ASSUME RTypes, NEW r \in ReviewIds
  PROVE  Present(r) <=> review[r] \in Review
BY DEF RTypes, Present, Review, ReviewStatus, NoReview, Deleted

Edits == [does : {"edit", "staff edit"}, id : ReviewIds, copy : Review, text : Texts, outdated : BOOLEAN]
Moderations == [does : {"moderate"}, id : ReviewIds, copy : Review, to : {"APPROVED", "REJECTED"}, outdated : BOOLEAN]

LEMMA HandlerKinds ==
  ASSUME NEW request \in HandlerState
  PROVE  /\ request.does \in {"edit", "staff edit"} => request \in Edits
         /\ request.does = "moderate" => request \in Moderations
         /\ request.does \in {"vote", "remove"} => request.id \in ReviewIds
         /\ request.does = "create" => request.author \in Authors /\ request.variant \in Goods /\ request.text \in Texts
<1>1. \/ request = AtRest
      \/ request \in [does : {"create"}, author : Authors, variant : Goods, text : Texts]
      \/ request \in Edits
      \/ request \in Moderations
      \/ request \in [does : {"vote", "remove"}, id : ReviewIds]
  BY DEF HandlerState, Edits, Moderations
<1>2. CASE request = AtRest
  BY <1>2 DEF AtRest
<1>3. CASE request \in [does : {"create"}, author : Authors, variant : Goods, text : Texts]
  BY <1>3
<1>4. CASE request \in Edits
  <2>1. request.does \in {"edit", "staff edit"}
    BY <1>4 DEF Edits
  <2> QED
    BY <1>4, <2>1
<1>5. CASE request \in Moderations
  <2>1. request.does = "moderate"
    BY <1>5 DEF Moderations
  <2> QED
    BY <1>5, <2>1
<1>6. CASE request \in [does : {"vote", "remove"}, id : ReviewIds]
  BY <1>6
<1> QED
  BY <1>1, <1>2, <1>3, <1>4, <1>5, <1>6

\* A request that begins holds the row as it is.
LEMMA HandlingKeepsTruth ==
  ASSUME RInv, NEW h \in Handlers, NEW request \in HandlerState, Handles(h, request),
         request.does \in {"edit", "staff edit", "moderate"} =>
           review[request.id] \in Review /\ request.copy = review[request.id]
  PROVE  RInv'
<1>1. handler' = [handler EXCEPT ![h] = request] /\ UNCHANGED <<review, received, vetted, outpaced>>
  BY DEF Handles
<1>2. RTypes'
  BY <1>1 DEF RInv, RTypes
<1>3. ASSUME NEW g \in Handlers PROVE CopyIsCurrent(g)'
  <2>1. handler'[g] = IF g = h THEN request ELSE handler[g]
    BY <1>1 DEF RInv, RTypes
  <2> QED
    BY <1>1, <2>1 DEF RInv, CopyIsCurrent, Changes
<1>4. PublishedAsModerated'
  BY <1>1 DEF RInv, PublishedAsModerated, Present
<1> QED
  BY <1>2, <1>3, <1>4 DEF RInv

\* A request that ends makes the other copies of its review outdated.
LEMMA EndingOutdates ==
  ASSUME RTypes, NEW h \in Handlers, NEW r, Ends(h, r)
  PROVE  /\ handler' \in [Handlers -> HandlerState]
         /\ \A g \in Handlers : Changes(g)' /\ handler'[g].outdated = FALSE =>
              handler'[g] = handler[g] /\ handler[g].id # r /\ g # h
<1>1. ASSUME NEW g \in Handlers
      PROVE  /\ handler'[g] \in HandlerState
             /\ Changes(g)' /\ handler'[g].outdated = FALSE =>
                  handler'[g] = handler[g] /\ handler[g].id # r /\ g # h
  <2>1. CASE g = h
    <3>1. handler'[g] = AtRest
      BY <2>1 DEF Ends
    <3> QED
      BY <3>1 DEF HandlerState, AtRest, Changes
  <2>2. CASE g # h /\ Changes(g) /\ handler[g].id = r
    <3>1. handler'[g] = [handler[g] EXCEPT !.outdated = TRUE]
      BY <2>2 DEF Ends, Changes
    <3>2. handler[g] \in HandlerState
      BY DEF RTypes
    <3>3. CASE handler[g].does = "edit" \/ handler[g].does = "staff edit"
      <4>1. handler[g] \in Edits
        BY <3>2, <3>3, HandlerKinds
      <4>2. handler'[g] \in Edits /\ handler'[g].outdated = TRUE
        BY <3>1, <4>1 DEF Edits
      <4> QED
        BY <4>2 DEF HandlerState, Edits
    <3>4. CASE handler[g].does = "moderate"
      <4>1. handler[g] \in Moderations
        BY <3>2, <3>4, HandlerKinds
      <4>2. handler'[g] \in Moderations /\ handler'[g].outdated = TRUE
        BY <3>1, <4>1 DEF Moderations
      <4> QED
        BY <4>2 DEF HandlerState, Moderations
    <3> QED
      BY <2>2, <3>3, <3>4 DEF Changes
  <2>3. CASE g # h /\ ~(Changes(g) /\ handler[g].id = r)
    <3>1. handler'[g] = handler[g]
      BY <2>3 DEF Ends, Changes
    <3> QED
      BY <2>3, <3>1 DEF RTypes, Changes
  <2> QED
    BY <2>1, <2>2, <2>3
<1>2. handler' = [g \in Handlers |-> handler'[g]]
  BY DEF Ends
<1> QED
  BY <1>1, <1>2

\* Writing one review: only copies of other reviews remain current.
LEMMA WritingKeepsTruth ==
  ASSUME RInv, NEW h \in Handlers, NEW r \in ReviewIds, Ends(h, r),
         NEW row \in Review \union {NoReview, Deleted},
         review' = [review EXCEPT ![r] = row],
         \A q \in ReviewIds \ {r} : vetted'[q] = vetted[q] /\ (q \in outpaced' <=> q \in outpaced),
         vetted' = [q \in ReviewIds |-> vetted'[q]],
         row \in Review /\ r \notin outpaced' /\ row.status = "APPROVED" => row.text \in vetted'[r]
  PROVE  RInv'
<1>1. /\ review' \in [ReviewIds -> Review \union {NoReview, Deleted}]
      /\ \A q \in ReviewIds : review'[q] = IF q = r THEN row ELSE review[q]
  BY DEF RInv, RTypes
<1>2. RTypes'
  BY <1>1, EndingOutdates DEF RInv, RTypes
<1>3. ASSUME NEW g \in Handlers PROVE CopyIsCurrent(g)'
  <2> SUFFICES ASSUME Changes(g)', handler'[g].outdated = FALSE PROVE CopyIsCurrent(g)'
    BY DEF CopyIsCurrent
  <2>1. handler'[g] = handler[g] /\ handler[g].id # r /\ Changes(g)
    BY EndingOutdates DEF RInv, Changes
  <2>2. handler[g].id \in ReviewIds
    BY <2>1, HandlerKinds DEF RInv, RTypes, Changes, Edits, Moderations
  <2> QED
    BY <1>1, <2>1, <2>2 DEF RInv, CopyIsCurrent, Changes
<1>4. PublishedAsModerated'
  <2> SUFFICES ASSUME NEW q \in ReviewIds \ outpaced', Present(q)', review'[q].status = "APPROVED"
               PROVE  review'[q].text \in vetted'[q]
    BY DEF PublishedAsModerated
  <2>1. CASE q = r
    <3>1. row \in Review
      BY <1>1, <2>1 DEF Present, ReviewStatus, NoReview, Deleted
    <3> QED
      BY <1>1, <2>1, <3>1
  <2>2. CASE q # r
    BY <1>1, <2>2 DEF RInv, PublishedAsModerated, Present
  <2> QED
    BY <2>1, <2>2
<1> QED
  BY <1>2, <1>3, <1>4 DEF RInv

\* A request that goes away changes nothing.
LEMMA RestingKeepsTruth ==
  ASSUME RInv, NEW h \in Handlers, handler' = [handler EXCEPT ![h] = AtRest], UNCHANGED <<vetted, outpaced>>,
         review' \in [ReviewIds -> Review \union {NoReview, Deleted}],
         \A r \in ReviewIds : review'[r].text = review[r].text /\ review'[r].status = review[r].status
                              /\ (review[r] \in Review => review'[r] \in Review)
  PROVE  RInv'
<1>1. RTypes'
  BY DEF RInv, RTypes, HandlerState
<1>2. ASSUME NEW g \in Handlers PROVE CopyIsCurrent(g)'
  <2>1. CASE g = h
    BY <2>1 DEF RInv, RTypes, CopyIsCurrent, Changes, AtRest
  <2>2. CASE g # h
    <3>1. handler'[g] = handler[g] /\ (Changes(g) => handler[g].id \in ReviewIds)
      BY <2>2, HandlerKinds DEF RInv, RTypes, Changes, Edits, Moderations
    <3>2. SUFFICES ASSUME Changes(g), handler[g].outdated = FALSE PROVE CopyIsCurrent(g)'
      BY <3>1 DEF CopyIsCurrent, Changes
    <3>3. PICK r \in ReviewIds : r = handler[g].id
      BY <3>1, <3>2
    <3>4. review[r] \in Review /\ review[r].text = handler[g].copy.text /\ review[r].status = handler[g].copy.status
      BY <3>2, <3>3 DEF RInv, CopyIsCurrent
    <3>5. review'[r] \in Review /\ review'[r].text = review[r].text /\ review'[r].status = review[r].status
      BY <3>4
    <3> QED
      BY <3>1, <3>3, <3>4, <3>5 DEF CopyIsCurrent
  <2> QED
    BY <2>1, <2>2
<1>3. PublishedAsModerated'
  BY DEF RInv, PublishedAsModerated, Present
<1> QED
  BY <1>1, <1>2, <1>3 DEF RInv


LEMMA UpdatedRow ==
  ASSUME RTypes, NEW r \in ReviewIds, NEW copy \in Review, Present(r)
  PROVE  /\ \A text \in Texts : \E row \in Review :
              /\ Updated(r, copy, [text |-> text]) = [review EXCEPT ![r] = row]
              /\ row.text = Either(text, copy.text, review[r].text)
         /\ \A text \in Texts : \E row \in Review :
              /\ Updated(r, copy, [text |-> text, status |-> "PENDING"]) = [review EXCEPT ![r] = row]
              /\ row.status = Either("PENDING", copy.status, review[r].status)
         /\ \A status \in {"APPROVED", "REJECTED"} : \E row \in Review :
              /\ Updated(r, copy, [status |-> status]) = [review EXCEPT ![r] = row]
              /\ row.text = review[r].text /\ row.status = Either(status, copy.status, review[r].status)
<1> DEFINE row(fields) == [col \in DOMAIN review[r] |->
                             IF col \in DOMAIN fields /\ fields[col] # copy[col] THEN fields[col] ELSE review[r][col]]
<1>1. review[r] \in Review
  BY PresentRows
<1>2. ASSUME NEW fields PROVE Updated(r, copy, fields) = [review EXCEPT ![r] = row(fields)]
  BY DEF Updated, RTypes
<1>3. ASSUME NEW text \in Texts
      PROVE  row([text |-> text]) \in Review /\ row([text |-> text]).text = Either(text, copy.text, review[r].text)
  BY <1>1 DEF Review, Either
<1>4. ASSUME NEW text \in Texts
      PROVE  /\ row([text |-> text, status |-> "PENDING"]) \in Review
             /\ row([text |-> text, status |-> "PENDING"]).status = Either("PENDING", copy.status, review[r].status)
  BY <1>1 DEF Review, ReviewStatus, Either
<1>5. ASSUME NEW status \in {"APPROVED", "REJECTED"}
      PROVE  /\ row([status |-> status]) \in Review
             /\ row([status |-> status]).text = review[r].text
             /\ row([status |-> status]).status = Either(status, copy.status, review[r].status)
  BY <1>1 DEF Review, ReviewStatus, Either
<1> HIDE DEF row
<1>6. ASSUME NEW text \in Texts
      PROVE  \E new \in Review : /\ Updated(r, copy, [text |-> text]) = [review EXCEPT ![r] = new]
                                 /\ new.text = Either(text, copy.text, review[r].text)
  BY <1>2, <1>3
<1>7. ASSUME NEW text \in Texts
      PROVE  \E new \in Review :
               /\ Updated(r, copy, [text |-> text, status |-> "PENDING"]) = [review EXCEPT ![r] = new]
               /\ new.status = Either("PENDING", copy.status, review[r].status)
  BY <1>2, <1>4
<1>8. ASSUME NEW status \in {"APPROVED", "REJECTED"}
      PROVE  \E new \in Review :
               /\ Updated(r, copy, [status |-> status]) = [review EXCEPT ![r] = new]
               /\ new.text = review[r].text /\ new.status = Either(status, copy.status, review[r].status)
  BY <1>2, <1>5
<1> QED
  BY <1>6, <1>7, <1>8

\* A row that is not there is left alone.
LEMMA UpdatedNothing ==
  ASSUME RTypes, NEW r \in ReviewIds, NEW copy, NEW fields, ~Present(r)
  PROVE  /\ Updated(r, copy, fields) = [review EXCEPT ![r] = review[r]]
         /\ review[r] \in {NoReview, Deleted}
<1>1. review[r] \in {NoReview, Deleted}
  BY PresentRows DEF RTypes
<1>2. review = [review EXCEPT ![r] = review[r]]
  BY DEF RTypes
<1> QED
  BY <1>1, <1>2 DEF Updated

LEMMA CreatingKeepsTruth ==
  ASSUME RInv, NEW h \in Handlers, CreateReview(h)
  PROVE  RInv'
<1> DEFINE new == handler[h]
           row == [author |-> new.author, variant |-> new.variant, text |-> new.text,
                   status |-> "PENDING", helpful |-> 0]
<1>1. new.does = "create" /\ new \in HandlerState /\ UNCHANGED <<vetted, outpaced>>
  BY DEF CreateReview, RInv, RTypes
<1>2. row \in Review /\ row.status = "PENDING"
  <2>1. new.author \in Authors /\ new.variant \in Goods /\ new.text \in Texts
    BY <1>1, HandlerKinds
  <2>2. 0 \in 0..MaxHelpful
    BY ReviewsAssumption
  <2> QED
    BY <2>1, <2>2 DEF Review, ReviewStatus
<1>3. CASE handler' = [handler EXCEPT ![h] = AtRest] /\ UNCHANGED review
  BY <1>1, <1>3, RestingKeepsTruth DEF RInv, RTypes
<1>4. CASE \E r \in NextReview : review' = [review EXCEPT ![r] = row] /\ Ends(h, r)
  <2>1. PICK r \in ReviewIds : review' = [review EXCEPT ![r] = row] /\ Ends(h, r)
    BY <1>4 DEF NextReview
  <2>2. vetted' = [q \in ReviewIds |-> vetted'[q]]
    BY <1>1 DEF RInv, RTypes
  <2> HIDE DEF row, new
  <2> QED
    BY <1>1, <1>2, <2>1, <2>2, WritingKeepsTruth
<1> QED
  BY <1>3, <1>4 DEF CreateReview

LEMMA EditingKeepsTruth ==
  ASSUME RInv, NEW h \in Handlers, UpdateReview(h)
  PROVE  RInv'
<1> DEFINE r == handler[h].id
           copy == handler[h].copy
           fields == UpdateFields(handler[h])
<1>1. /\ handler[h].does \in {"edit", "staff edit"} /\ Ends(h, r)
      /\ review' = Updated(r, copy, fields)
      /\ vetted' = IF handler[h].does = "staff edit" THEN [vetted EXCEPT ![r] = @ \union {handler[h].text}] ELSE vetted
      /\ outpaced' = IF handler[h].outdated THEN outpaced \union {r} ELSE outpaced
  BY DEF UpdateReview
<1>2. handler[h] \in Edits
  BY <1>1, HandlerKinds DEF RInv, RTypes
<1>3. r \in ReviewIds /\ copy \in Review /\ handler[h].text \in Texts /\ handler[h].outdated \in BOOLEAN
  BY <1>2 DEF Edits
<1>4. /\ \A q \in ReviewIds \ {r} : vetted'[q] = vetted[q] /\ (q \in outpaced' <=> q \in outpaced)
      /\ vetted' = [q \in ReviewIds |-> vetted'[q]]
  BY <1>1, <1>3 DEF RInv, RTypes
<1>5. CASE ~Present(r)
  <2>1. review' = [review EXCEPT ![r] = review[r]] /\ review[r] \in {NoReview, Deleted}
    BY <1>1, <1>3, <1>5, UpdatedNothing DEF RInv
  <2>2. review[r] \notin Review
    BY <1>3, <1>5, PresentRows DEF RInv
  <2> HIDE DEF r
  <2> QED
    BY <1>1, <1>3, <1>4, <2>1, <2>2, WritingKeepsTruth
<1>6. CASE Present(r)
  <2>1. CASE handler[h].does = "edit"
    <3>1. PICK row \in Review : /\ review' = [review EXCEPT ![r] = row]
                               /\ row.status = Either("PENDING", copy.status, review[r].status)
      <4> DEFINE t == handler[h].text
      <4>1. review' = Updated(r, copy, [text |-> t, status |-> "PENDING"])
        BY <1>1, <2>1 DEF UpdateFields
      <4>2. RTypes /\ t \in Texts
        BY <1>3 DEF RInv
      <4> HIDE DEF r, copy, t
      <4>3. \E row \in Review :
              /\ Updated(r, copy, [text |-> t, status |-> "PENDING"]) = [review EXCEPT ![r] = row]
              /\ row.status = Either("PENDING", copy.status, review[r].status)
        BY <1>3, <1>6, <4>2, UpdatedRow
      <4> QED
        BY <4>1, <4>3
    <3>2. ASSUME r \notin outpaced' PROVE row.status = "PENDING"
      <4>1. handler[h].outdated = FALSE
        BY <1>1, <1>3, <3>2
      <4>2. review[r].status = copy.status
        BY <1>1, <4>1 DEF RInv, CopyIsCurrent, Changes
      <4> QED
        BY <3>1, <4>2 DEF Either
    <3> HIDE DEF r
    <3> QED
      BY <1>1, <1>3, <1>4, <3>1, <3>2, WritingKeepsTruth
  <2>2. CASE handler[h].does = "staff edit"
    <3>1. PICK row \in Review : /\ review' = [review EXCEPT ![r] = row]
                               /\ row.text = Either(handler[h].text, copy.text, review[r].text)
      <4> DEFINE t == handler[h].text
      <4>1. review' = Updated(r, copy, [text |-> t])
        BY <1>1, <2>2 DEF UpdateFields
      <4>2. RTypes /\ t \in Texts
        BY <1>3 DEF RInv
      <4> HIDE DEF r, copy, t
      <4>3. \E row \in Review :
              /\ Updated(r, copy, [text |-> t]) = [review EXCEPT ![r] = row]
              /\ row.text = Either(t, copy.text, review[r].text)
        BY <1>3, <1>6, <4>2, UpdatedRow
      <4> QED
        BY <4>1, <4>3 DEF t
    <3>2. ASSUME r \notin outpaced' PROVE row.text \in vetted'[r]
      <4>1. handler[h].outdated = FALSE
        BY <1>1, <1>3, <3>2
      <4>2. review[r].text = copy.text
        BY <1>1, <4>1 DEF RInv, CopyIsCurrent, Changes
      <4>3. row.text = handler[h].text
        BY <3>1, <4>2 DEF Either
      <4> QED
        BY <1>1, <1>3, <2>2, <4>3 DEF RInv, RTypes
    <3> HIDE DEF r
    <3> QED
      BY <1>1, <1>3, <1>4, <3>1, <3>2, WritingKeepsTruth
  <2> QED
    BY <1>1, <2>1, <2>2
<1> QED
  BY <1>5, <1>6

LEMMA ModeratingKeepsTruth ==
  ASSUME RInv, NEW h \in Handlers, Moderate(h)
  PROVE  RInv'
<1> DEFINE r == handler[h].id
           copy == handler[h].copy
           fields == [status |-> handler[h].to]
<1>1. /\ handler[h].does = "moderate" /\ Ends(h, r)
      /\ review' = Updated(r, copy, fields)
      /\ vetted' = [vetted EXCEPT ![r] = IF handler[h].to = "APPROVED" THEN {copy.text} ELSE {}]
      /\ outpaced' = IF handler[h].outdated THEN outpaced \union {r} ELSE outpaced \ {r}
  BY DEF Moderate
<1>2. handler[h] \in Moderations
  BY <1>1, HandlerKinds DEF RInv, RTypes
<1>3. r \in ReviewIds /\ copy \in Review /\ handler[h].to \in {"APPROVED", "REJECTED"} /\ handler[h].outdated \in BOOLEAN
  BY <1>2 DEF Moderations
<1>4. /\ \A q \in ReviewIds \ {r} : vetted'[q] = vetted[q] /\ (q \in outpaced' <=> q \in outpaced)
      /\ vetted' = [q \in ReviewIds |-> vetted'[q]]
  BY <1>1, <1>3 DEF RInv, RTypes
<1>5. CASE ~Present(r)
  <2>1. review' = [review EXCEPT ![r] = review[r]] /\ review[r] \in {NoReview, Deleted}
    BY <1>1, <1>3, <1>5, UpdatedNothing DEF RInv
  <2>2. review[r] \notin Review
    BY <1>3, <1>5, PresentRows DEF RInv
  <2> HIDE DEF r
  <2> QED
    BY <1>1, <1>3, <1>4, <2>1, <2>2, WritingKeepsTruth
<1>6. CASE Present(r)
  <2>1. PICK row \in Review : /\ review' = [review EXCEPT ![r] = row]
                             /\ row.text = review[r].text
                             /\ row.status = Either(handler[h].to, copy.status, review[r].status)
    <3> DEFINE to == handler[h].to
    <3>1. RTypes /\ to \in {"APPROVED", "REJECTED"} /\ review' = Updated(r, copy, [status |-> to])
      BY <1>1, <1>3 DEF RInv
    <3> HIDE DEF r, copy, to
    <3>2. \E row \in Review :
            /\ Updated(r, copy, [status |-> to]) = [review EXCEPT ![r] = row]
            /\ row.text = review[r].text /\ row.status = Either(to, copy.status, review[r].status)
      BY <1>3, <1>6, <3>1, UpdatedRow
    <3> QED
      BY <3>1, <3>2 DEF to
  <2>2. ASSUME r \notin outpaced', row.status = "APPROVED" PROVE row.text \in vetted'[r]
    <3>1. handler[h].outdated = FALSE
      BY <1>1, <1>3, <2>2
    <3>2. review[r].text = copy.text /\ review[r].status = copy.status
      BY <1>1, <3>1 DEF RInv, CopyIsCurrent, Changes
    <3>3. row.status = handler[h].to /\ row.text = copy.text
      BY <2>1, <3>2 DEF Either
    <3> QED
      BY <1>1, <1>3, <2>2, <3>3 DEF RInv, RTypes
  <2> HIDE DEF r
  <2> QED
    BY <1>1, <1>3, <1>4, <2>1, <2>2, WritingKeepsTruth
<1> QED
  BY <1>5, <1>6

LEMMA VotingKeepsTruth ==
  ASSUME RInv, NEW h \in Handlers, VoteHelpful(h)
  PROVE  RInv'
<1> DEFINE r == handler[h].id
<1>1. /\ handler[h].does = "vote" /\ (Present(r) => review[r].helpful < MaxHelpful)
      /\ review' = IF Present(r) THEN [review EXCEPT ![r].helpful = @ + 1] ELSE review
      /\ handler' = [handler EXCEPT ![h] = AtRest] /\ UNCHANGED <<vetted, outpaced>>
  BY DEF VoteHelpful
<1>2. r \in ReviewIds
  BY <1>1, HandlerKinds DEF RInv, RTypes
<1>3. CASE ~Present(r)
  BY <1>1, <1>3, RestingKeepsTruth DEF RInv, RTypes
<1>4. CASE Present(r)
  <2>1. review[r] \in Review
    BY <1>2, <1>4, PresentRows DEF RInv
  <2> DEFINE row == [review[r] EXCEPT !.helpful = @ + 1]
  <2>2. row \in Review /\ row.text = review[r].text /\ row.status = review[r].status
    BY <1>1, <1>4, <2>1, ReviewsAssumption DEF Review
  <2>3. review' = [review EXCEPT ![r] = row]
    BY <1>1, <1>4
  <2> HIDE DEF row, r
  <2>4. review' \in [ReviewIds -> Review \union {NoReview, Deleted}]
    BY <2>2, <2>3 DEF RInv, RTypes
  <2>5. \A q \in ReviewIds : review'[q] = IF q = r THEN row ELSE review[q]
    BY <2>3 DEF RInv, RTypes
  <2> QED
    BY <1>1, <2>2, <2>4, <2>5, RestingKeepsTruth
<1> QED
  BY <1>3, <1>4

LEMMA RemovingKeepsTruth ==
  ASSUME RInv, NEW h \in Handlers, RemoveReview(h)
  PROVE  RInv'
<1> DEFINE r == handler[h].id
           row == IF Present(r) THEN Deleted ELSE review[r]
<1>1. /\ handler[h].does = "remove" /\ Ends(h, r) /\ UNCHANGED <<vetted, outpaced>>
      /\ review' = [review EXCEPT ![r] = row]
  BY DEF RemoveReview
<1>2. r \in ReviewIds
  BY <1>1, HandlerKinds DEF RInv, RTypes
<1>3. row \in {NoReview, Deleted} /\ row \notin Review
  BY <1>2, PresentRows DEF RInv, RTypes, Deleted, Review, ReviewStatus
<1>4. vetted' = [q \in ReviewIds |-> vetted'[q]]
  BY <1>1 DEF RInv, RTypes
<1> HIDE DEF r, row
<1> QED
  BY <1>1, <1>2, <1>3, <1>4, WritingKeepsTruth

LEMMA ReviewsStep == RInv /\ [ReviewsNext]_reviewsVars => RInv'
<1> SUFFICES ASSUME RInv, [ReviewsNext]_reviewsVars PROVE RInv'
  OBVIOUS
<1>1. ASSUME NEW h \in Handlers, NEW a \in Authors, NEW v \in Goods, NEW text \in Texts, BeginCreateReview(h, a, v, text)
      PROVE  RInv'
  <2> DEFINE request == [does |-> "create", author |-> a, variant |-> v, text |-> text]
  <2>1. request \in HandlerState /\ request.does = "create"
    BY DEF HandlerState
  <2>2. Handles(h, request)
    BY <1>1 DEF BeginCreateReview
  <2> HIDE DEF request
  <2> QED
    BY <2>1, <2>2, HandlingKeepsTruth
<1>2. ASSUME NEW h \in Handlers, NEW r \in ReviewIds, NEW who \in {"edit", "staff edit"}, NEW text \in Texts,
             BeginUpdateReview(h, r, who, text)
      PROVE  RInv'
  <2> DEFINE request == [does |-> who, id |-> r, copy |-> review[r], text |-> text, outdated |-> FALSE]
  <2>1. review[r] \in Review
    BY <1>2, PresentRows DEF BeginUpdateReview, RInv
  <2>2. request \in HandlerState /\ request.id = r /\ request.copy = review[r]
    BY <2>1 DEF HandlerState
  <2>3. Handles(h, request)
    BY <1>2 DEF BeginUpdateReview
  <2> HIDE DEF request
  <2> QED
    BY <2>1, <2>2, <2>3, HandlingKeepsTruth
<1>3. ASSUME NEW h \in Handlers, NEW r \in ReviewIds, NEW status \in {"APPROVED", "REJECTED"}, BeginModerate(h, r, status)
      PROVE  RInv'
  <2> DEFINE request == [does |-> "moderate", id |-> r, copy |-> review[r], to |-> status, outdated |-> FALSE]
  <2>1. review[r] \in Review
    BY <1>3, PresentRows DEF BeginModerate, RInv
  <2>2. request \in HandlerState /\ request.id = r /\ request.copy = review[r]
    BY <2>1 DEF HandlerState
  <2>3. Handles(h, request)
    BY <1>3 DEF BeginModerate
  <2> HIDE DEF request
  <2> QED
    BY <2>1, <2>2, <2>3, HandlingKeepsTruth
<1>4. ASSUME NEW h \in Handlers, NEW r \in ReviewIds, BeginVoteHelpful(h, r) \/ BeginRemoveReview(h, r)
      PROVE  RInv'
  <2>1. PICK what \in {"vote", "remove"} : Handles(h, [does |-> what, id |-> r])
    BY <1>4 DEF BeginVoteHelpful, BeginRemoveReview
  <2> DEFINE request == [does |-> what, id |-> r]
  <2>2. request \in HandlerState /\ request.does \in {"vote", "remove"}
    BY DEF HandlerState
  <2>3. Handles(h, request)
    BY <2>1
  <2> HIDE DEF request
  <2> QED
    BY <2>2, <2>3, HandlingKeepsTruth
<1>5. ASSUME NEW h \in Handlers, HandlerDies(h) PROVE RInv'
  BY <1>5, RestingKeepsTruth DEF HandlerDies, RInv, RTypes
<1>6. ASSUME NEW a \in Authors, NEW v \in Goods, DeliveryChanges(a, v) PROVE RInv'
  BY <1>6 DEF DeliveryChanges, RInv, RTypes, CopyIsCurrent, Changes, PublishedAsModerated, Present
<1>7. CASE UNCHANGED reviewsVars
  BY <1>7 DEF reviewsVars, RInv, RTypes, CopyIsCurrent, Changes, PublishedAsModerated, Present
<1> QED
  BY <1>1, <1>2, <1>3, <1>4, <1>5, <1>6, <1>7, CreatingKeepsTruth, EditingKeepsTruth, ModeratingKeepsTruth,
     VotingKeepsTruth, RemovingKeepsTruth DEF ReviewsNext, ReviewRequest

\* However edits, moderations, votes and removals interleave, what is published is what
\* staff approved or wrote, unless a request wrote through an outdated copy
\* (review.service.js:98-178).
THEOREM PublishedReviewsWereModerated == ReviewsSpec => []PublishedAsModerated
<1>1. RInv => PublishedAsModerated
  BY DEF RInv
<1> QED
  BY <1>1, ReviewsStart, ReviewsStep, PTL DEF ReviewsSpec

-----------------------------------------------------------------------------
\* The types of the back office's five modules.  UserAdmin's are part of UInv; the others
\* need, next to the invariants above, what those did not have to say.

\* Sessions: who holds a copy of an account, or a token of it, holds it of an account
\* that was registered, and registered accounts stay so.

\* Every row an account has had since it was registered.
Holding == {"compare", "confirm", "change", "reset"}
SRest ==
  /\ \A u \in Accounts : Exists(u) \/ account[u] = Unregistered
  /\ \A c \in Clients : /\ client[c].copy \in UserRow
                        /\ client[c].at \in Holding => Exists(client[c].user)
  /\ \A r \in ResetTokens : reset[r] # Unissued => Exists(reset[r].user)
  /\ arrived \in 0..MaxRequests /\ blurred \subseteq Accounts /\ forked \subseteq RefreshTokens

LEMMA RegisteredRows ==
  /\ Unregistered.status = "ABSENT" /\ Unregistered \in UserRow
  /\ \A row \in AccountRow : row.status # "ABSENT" => row \in UserRow
<1>1. Unregistered.status = "ABSENT" /\ Unregistered \in UserRow
  BY DEF Unregistered, UserRow
<1>2. \A row \in AccountRow : row.status # "ABSENT" => row \in UserRow
  BY DEF AccountRow, UserRow, User
<1> QED
  BY <1>1, <1>2

\* The other requests go on as they are; that of c ends, or goes on with its copy to a
\* step that no longer needs the row.
GoesOn(c, reqs) ==
  /\ reqs \in [Clients -> ClientStates]
  /\ \A d \in Clients \ {c} : Like(reqs[d], client[d])
  /\ reqs[c] = Idle \/ (reqs[c].at \notin Holding /\ reqs[c].copy = client[c].copy)

LEMMA EndingGoesOn ==
  ASSUME STypes, NEW c \in Clients, NEW reqs,
         reqs = Finished(c) \/ reqs = Moves(c, "issue") \/ reqs = Moves(c, "rotate")
  PROVE  GoesOn(c, reqs)
<1>1. \A d \in Clients : Like(client[d], client[d])
  BY MarkedAlike DEF STypes
<1>2. CASE reqs = Finished(c)
  <2>1. reqs \in [Clients -> ClientStates] /\ reqs[c] = Idle /\ \A d \in Clients \ {c} : reqs[d] = client[d]
    BY <1>2, Finishing
  <2> QED
    BY <1>1, <2>1 DEF GoesOn
<1>3. ASSUME NEW at \in {"issue", "rotate"}, reqs = Moves(c, at) PROVE GoesOn(c, reqs)
  <2>1. at \in Kinds /\ at \notin Holding
    BY DEF Kinds, Holding
  <2>2. /\ reqs \in [Clients -> ClientStates] /\ \A d \in Clients \ {c} : reqs[d] = client[d]
        /\ reqs[c].at = at
    BY <1>3, <2>1, MovingOn
  <2>3. reqs[c].copy = client[c].copy
    <3>1. client[c] \in ClientStates
      BY DEF STypes
    <3>2. reqs[c] = [client[c] EXCEPT !.at = at]
      BY <1>3 DEF Moves, STypes
    <3> QED
      BY <3>1, <3>2 DEF ClientStates
  <2> QED
    BY <1>1, <2>1, <2>2, <2>3 DEF GoesOn
<1> QED
  BY <1>2, <1>3

LEMMA MarkingGoesOn ==
  ASSUME NEW c \in Clients, NEW reqs, GoesOn(c, reqs), NEW u, NEW t
  PROVE  /\ GoesOn(c, CrossUser(reqs, c, u)) /\ GoesOn(c, CrossToken(reqs, c, t))
         /\ GoesOn(c, CrossTokens(reqs, c, u)) /\ GoesOn(c, Overlapped(reqs, c, u))
<1>1. reqs \in [Clients -> ClientStates]
  BY DEF GoesOn
<1>2. ASSUME NEW marked, marked \in [Clients -> ClientStates], marked[c] = reqs[c],
             \A d \in Clients : Like(marked[d], reqs[d])
      PROVE  GoesOn(c, marked)
  <2>1. \A d \in Clients \ {c} : Like(marked[d], client[d])
    BY <1>2, LikeIsTransitive DEF GoesOn
  <2> QED
    BY <1>2, <2>1 DEF GoesOn
<1> QED
  BY <1>1, <1>2, Marking

LEMMA RequestsGoOn ==
  ASSUME STypes, NEW c \in Clients, Continues(c)
  PROVE  GoesOn(c, client')
<1>1. ASSUME NEW x, x = Finished(c) PROVE GoesOn(c, x)
  BY <1>1, EndingGoesOn
<1>2. GoesOn(c, Finished(c)) /\ GoesOn(c, Moves(c, "issue")) /\ GoesOn(c, Moves(c, "rotate"))
  BY EndingGoesOn
<1>3. CASE \/ Register(c) \/ IssueSession(c) \/ ReadAccount(c) \/ CreateResetToken(c) \/ Dies(c)
  BY <1>2, <1>3 DEF Register, IssueSession, ReadAccount, CreateResetToken, Dies
<1>4. CASE RegisterFailedAttempt(c) \/ PasswordMatches(c) \/ ChangeStatus(c)
  <2>1. PICK u : u = client[c].user
    OBVIOUS
  <2>2. GoesOn(c, CrossUser(Finished(c), c, u)) /\ GoesOn(c, CrossUser(Moves(c, "issue"), c, u))
    BY <1>2, MarkingGoesOn
  <2> QED
    BY <1>2, <1>4, <2>1, <2>2 DEF RegisterFailedAttempt, PasswordMatches, ChangeStatus
<1>5. CASE Rotate(c) \/ Logout(c)
  <2>1. PICK t : t = client[c].key
    OBVIOUS
  <2>2. GoesOn(c, CrossToken(Finished(c), c, t))
    BY <1>2, MarkingGoesOn
  <2> QED
    BY <1>5, <2>1, <2>2 DEF Rotate, Logout
<1>6. CASE ReuseDetected(c) \/ ConfirmReset(c)
  <2>1. PICK u : u = client[c].user
    OBVIOUS
  <2>2. PICK late, counted : late = Overlapped(Finished(c), c, u) /\ counted = CrossUser(late, c, u)
    OBVIOUS
  <2>3. GoesOn(c, late)
    BY <1>2, <2>2, MarkingGoesOn
  <2>4. GoesOn(c, counted)
    BY <2>2, <2>3, MarkingGoesOn
  <2>5. GoesOn(c, CrossTokens(late, c, u)) /\ GoesOn(c, CrossTokens(counted, c, u))
    BY <2>3, <2>4, MarkingGoesOn
  <2> QED
    BY <1>6, <2>1, <2>2, <2>5 DEF ReuseDetected, ConfirmReset
<1> QED
  BY <1>3, <1>4, <1>5, <1>6 DEF Continues

\* An account that is registered stays so; a reset token belongs to one that is.
AccountsGoOn ==
  \A u \in Accounts : /\ account[u].status # "ABSENT" => account'[u].status # "ABSENT"
                      /\ account'[u].status # "ABSENT" \/ account'[u] = Unregistered
ResetsGoOn ==
  \A r \in ResetTokens : reset'[r] # Unissued =>
    reset'[r].user \in Accounts /\ account[reset'[r].user].status # "ABSENT"

LEMMA StatusWritten ==
  ASSUME NEW row \in AccountRow, row.status # "ABSENT", NEW copy, NEW fields,
         "status" \in DOMAIN fields => fields.status # "ABSENT"
  PROVE  Write(row, copy, fields).status # "ABSENT"
BY DEF Write, AccountRow

LEMMA RowWritten ==
  ASSUME STypes, SRest, NEW u \in Accounts, Exists(u), NEW copy, NEW fields,
         "status" \in DOMAIN fields => fields.status # "ABSENT",
         account' = [account EXCEPT ![u] = Write(account[u], copy, fields)]
  PROVE  AccountsGoOn
<1>1. PICK row : row = Write(account[u], copy, fields)
  OBVIOUS
<1>2. row.status # "ABSENT"
  BY <1>1, StatusWritten DEF STypes, Exists
<1>3. \A v \in Accounts : account'[v] = IF v = u THEN row ELSE account[v]
  BY <1>1 DEF STypes
<1> QED
  BY <1>2, <1>3 DEF AccountsGoOn, SRest, Exists

LEMMA RowsRest == ASSUME SRest, UNCHANGED account PROVE AccountsGoOn
BY DEF SRest, AccountsGoOn, Exists

LEMMA AccountsAreKept ==
  ASSUME STypes, SRest, NEW c \in Clients, Continues(c)
  PROVE  AccountsGoOn
<1>1. /\ client[c] \in ClientStates
      /\ client[c].at # "idle" => client[c].user \in Accounts
      /\ client[c].at \in Holding => Exists(client[c].user)
  BY DEF STypes, SRest
<1>2. CASE Register(c)
  <2>1. PICK u \in Accounts : u = client[c].user
    BY <1>1, <1>2 DEF Register
  <2>2. CASE account' = [account EXCEPT ![u].status = "ACTIVE"]
    <3>1. \A v \in Accounts : account'[v] = IF v = u THEN [account[v] EXCEPT !.status = "ACTIVE"] ELSE account[v]
      BY <2>2 DEF STypes
    <3>2. account[u] \in AccountRow
      BY DEF STypes
    <3>3. [account[u] EXCEPT !.status = "ACTIVE"].status # "ABSENT"
      BY <3>2 DEF AccountRow
    <3> QED
      BY <3>1, <3>3 DEF SRest, AccountsGoOn, Exists
  <2> QED
    BY <1>2, <2>1, <2>2, RowsRest DEF Register
<1>3. CASE RegisterFailedAttempt(c)
  <2>1. PICK u, copy : u \in Accounts /\ u = client[c].user /\ copy = client[c].copy /\ Exists(u)
    BY <1>1, <1>3 DEF RegisterFailedAttempt, Holding
  <2>2. PICK fields : fields = FailureFields(copy)
    OBVIOUS
  <2>3. "status" \notin DOMAIN fields
    BY <2>2 DEF FailureFields
  <2>4. account' = [account EXCEPT ![u] = Write(account[u], copy, fields)]
    BY <1>3, <2>1, <2>2 DEF RegisterFailedAttempt
  <2> QED
    BY <2>1, <2>3, <2>4, RowWritten
<1>4. CASE PasswordMatches(c) \/ ConfirmReset(c)
  <2>1. PICK u, copy : u \in Accounts /\ u = client[c].user /\ copy = client[c].copy /\ Exists(u)
    BY <1>1, <1>4 DEF PasswordMatches, ConfirmReset, Holding
  <2>2. "status" \notin DOMAIN Unlocked
    BY DEF Unlocked
  <2>3. account' = [account EXCEPT ![u] = Write(account[u], copy, Unlocked)]
    BY <1>4, <2>1 DEF PasswordMatches, ConfirmReset
  <2> QED
    BY <2>1, <2>2, <2>3, RowWritten
<1>5. CASE ChangeStatus(c)
  <2>1. PICK u, copy : u \in Accounts /\ u = client[c].user /\ copy = client[c].copy /\ Exists(u)
    BY <1>1, <1>5 DEF ChangeStatus, Holding
  <2>2. PICK status \in UserStatus : status = client[c].to
    BY <1>1 DEF ClientStates
  <2>3. PICK fields : fields = IF status = "ACTIVE" THEN [status |-> status, attempts |-> 0, lock |-> "open"]
                               ELSE [status |-> status]
    OBVIOUS
  <2>4. fields.status # "ABSENT"
    BY <2>3, SessionsAssumption
  <2>5. account' = [account EXCEPT ![u] = Write(account[u], copy, fields)]
    BY <1>5, <2>1, <2>2, <2>3 DEF ChangeStatus
  <2> QED
    BY <2>1, <2>4, <2>5, RowWritten
<1>6. CASE UNCHANGED account
  BY <1>6, RowsRest
<1>7. Continues(c) => \/ Register(c) \/ RegisterFailedAttempt(c) \/ PasswordMatches(c) \/ ConfirmReset(c)
                      \/ ChangeStatus(c) \/ UNCHANGED account
  BY DEF Continues, IssueSession, ReadAccount, Rotate, ReuseDetected, Logout, CreateResetToken, Dies
<1> QED
  BY <1>2, <1>3, <1>4, <1>5, <1>6, <1>7

LEMMA ResetsAreKept ==
  ASSUME STypes, SRest, NEW c \in Clients, Continues(c)
  PROVE  ResetsGoOn
<1>1. \A r \in ResetTokens : reset[r] # Unissued => reset[r] \in ResetToken /\ reset[r].user \in Accounts
                                                   /\ account[reset[r].user].status # "ABSENT"
  <2> SUFFICES ASSUME NEW r \in ResetTokens, reset[r] # Unissued
               PROVE  reset[r] \in ResetToken /\ reset[r].user \in Accounts /\ account[reset[r].user].status # "ABSENT"
    OBVIOUS
  <2>1. reset[r] \in ResetToken
    BY DEF STypes
  <2> QED
    BY <2>1 DEF ResetToken, SRest, Exists
<1>2. \A x : x = Unissued => [x EXCEPT !.used = TRUE] = Unissued
  BY DEF Unissued
<1>3. ASSUME NEW r \in ResetTokens, reset'[r] = reset[r] \/ reset'[r] = [reset[r] EXCEPT !.used = TRUE],
             reset'[r] # Unissued
      PROVE  reset'[r].user \in Accounts /\ account[reset'[r].user].status # "ABSENT"
  <2>1. reset[r] # Unissued
    BY <1>2, <1>3
  <2>2. reset[r] \in ResetToken /\ reset[r].user \in Accounts /\ account[reset[r].user].status # "ABSENT"
    BY <1>1, <2>1
  <2>3. reset'[r].user = reset[r].user
    BY <1>3, <2>2 DEF ResetToken
  <2> QED
    BY <2>2, <2>3
<1>4. CASE CreateResetToken(c)
  <2>1. client[c].at = "reset" /\ client[c].user \in Accounts /\ account[client[c].user].status # "ABSENT"
    BY <1>4 DEF CreateResetToken, STypes, SRest, Holding, Exists
  <2>2. PICK r \in ResetTokens :
          reset' = [s \in ResetTokens |->
              IF s = r THEN [user |-> client[c].user, used |-> FALSE]
              ELSE IF s \in client[c].seen THEN [reset[s] EXCEPT !.used = TRUE] ELSE reset[s]]
    BY <1>4 DEF CreateResetToken, NextOf
  <2>3. reset'[r].user = client[c].user
    BY <2>2
  <2>4. \A s \in ResetTokens \ {r} : reset'[s] = reset[s] \/ reset'[s] = [reset[s] EXCEPT !.used = TRUE]
    BY <2>2
  <2> QED
    BY <1>3, <2>1, <2>3, <2>4 DEF ResetsGoOn
<1>5. CASE ConfirmReset(c)
  <2>1. reset' = [reset EXCEPT ![client[c].key].used = TRUE]
    BY <1>5 DEF ConfirmReset
  <2>2. \A s \in ResetTokens : reset'[s] = reset[s] \/ reset'[s] = [reset[s] EXCEPT !.used = TRUE]
    BY <2>1 DEF STypes
  <2> QED
    BY <1>3, <2>2 DEF ResetsGoOn
<1>6. CASE UNCHANGED reset
  BY <1>1, <1>6 DEF ResetsGoOn
<1>7. Continues(c) => CreateResetToken(c) \/ ConfirmReset(c) \/ UNCHANGED reset
  BY DEF Continues, Register, RegisterFailedAttempt, PasswordMatches, IssueSession, ReadAccount, Rotate,
         ReuseDetected, Logout, ChangeStatus, Dies
<1> QED
  BY <1>4, <1>5, <1>6, <1>7

LEMMA ArrivingRests ==
  ASSUME SInv, SRest, NEW c \in Clients, NEW request, Arrive(c, request),
         request.copy \in UserRow, request.at \in Holding => Exists(request.user)
  PROVE  SRest'
<1>1. /\ UNCHANGED <<account, reset, blurred, forked>> /\ client' = [client EXCEPT ![c] = request]
      /\ arrived < MaxRequests /\ arrived' = arrived + 1
  BY DEF Arrive, history
<1>2. \A d \in Clients : client'[d] = IF d = c THEN request ELSE client[d]
  BY <1>1 DEF SInv, STypes
<1>3. arrived' \in 0..MaxRequests
  BY <1>1, SessionsAssumption DEF SRest
<1>4. \A d \in Clients : /\ client'[d].copy \in UserRow
                         /\ client'[d].at \in Holding => account[client'[d].user].status # "ABSENT"
  BY <1>2 DEF SRest, Exists
<1> QED
  BY <1>1, <1>3, <1>4 DEF SRest, Exists

\* What a new request holds: no copy, or that of an account that is registered.
LEMMA RequestFields ==
  ASSUME NEW at, NEW u, NEW key
  PROVE  Request(at, u, key).at = at /\ Request(at, u, key).user = u /\ Request(at, u, key).copy = Unregistered
BY DEF Request, Idle

LEMMA CopyFields ==
  ASSUME NEW at, NEW u, NEW key
  PROVE  WithCopy(at, u, key).at = at /\ WithCopy(at, u, key).user = u /\ WithCopy(at, u, key).copy = account[u]
BY DEF WithCopy, Request, Idle

LEMMA BeginningRests ==
  ASSUME SInv, SRest, NEW c \in Clients, Starts(c)
  PROVE  SRest'
<1>1. Unregistered \in UserRow /\ \A u \in Accounts : account[u] \in UserRow
  BY RegisteredRows DEF SInv, STypes, SRest, Exists
<1>2. ASSUME NEW at, NEW u, NEW key, at \notin Holding, Arrive(c, Request(at, u, key)) PROVE SRest'
  <2>1. PICK request : request = Request(at, u, key)
    OBVIOUS
  <2>2. request.copy \in UserRow /\ request.at \notin Holding
    BY <1>1, <1>2, <2>1, RequestFields
  <2> QED
    BY <1>2, <2>1, <2>2, ArrivingRests
<1>3. ASSUME NEW at, NEW u \in Accounts, NEW key, Exists(u), Arrive(c, WithCopy(at, u, key)) PROVE SRest'
  <2>1. PICK request : request = WithCopy(at, u, key)
    OBVIOUS
  <2>2. request.copy \in UserRow /\ Exists(request.user)
    BY <1>1, <1>3, <2>1, CopyFields
  <2> QED
    BY <1>3, <2>1, <2>2, ArrivingRests
<1>4. ASSUME NEW at, at \notin Holding, NEW t, Arrive(c, Presented(at, t)) PROVE SRest'
  <2>1. PICK request : request = Presented(at, t)
    OBVIOUS
  <2>2. request.copy \in UserRow /\ request.at \notin Holding
    BY <1>1, <1>4, <2>1 DEF Presented, Request, Idle
  <2> QED
    BY <1>4, <2>1, <2>2, ArrivingRests
<1>5. ASSUME NEW u \in Accounts, BeginRegister(c, u) PROVE SRest'
  BY <1>2, <1>5 DEF BeginRegister, Holding
<1>6. ASSUME NEW u \in Accounts, BeginLogin(c, u) PROVE SRest'
  BY <1>3, <1>6 DEF BeginLogin
<1>7. ASSUME NEW u \in Accounts, BeginResetRequest(c, u) PROVE SRest'
  <2>1. PICK seen : Arrive(c, [Request("reset", u, Nothing) EXCEPT !.seen = seen])
    BY <1>7 DEF BeginResetRequest
  <2>2. PICK request : request = [Request("reset", u, Nothing) EXCEPT !.seen = seen]
    OBVIOUS
  <2>3. request.copy \in UserRow /\ Exists(request.user)
    BY <1>1, <1>7, <2>2 DEF BeginResetRequest, Request, Idle
  <2> QED
    BY <2>1, <2>2, <2>3, ArrivingRests
<1>8. ASSUME NEW u \in Accounts, NEW status, BeginStatusChange(c, u, status) PROVE SRest'
  <2>1. PICK request : request = [WithCopy("change", u, Nothing) EXCEPT !.to = status]
    OBVIOUS
  <2>2. Exists(u) /\ Arrive(c, request)
    BY <1>8, <2>1 DEF BeginStatusChange
  <2>3. request.copy \in UserRow /\ Exists(request.user)
    BY <1>1, <2>1, <2>2 DEF WithCopy, Request, Idle
  <2> QED
    BY <2>2, <2>3, ArrivingRests
<1>9. ASSUME NEW t \in RefreshTokens, BeginRefresh(c, t) \/ BeginLogout(c, t) PROVE SRest'
  <2>1. "reuse" \notin Holding /\ "account" \notin Holding /\ "logout" \notin Holding
    BY DEF Holding
  <2> QED
    BY <1>2, <1>4, <1>9, <2>1 DEF BeginRefresh, BeginLogout
<1>10. ASSUME NEW r \in ResetTokens, BeginConfirm(c, r) PROVE SRest'
  <2>1. reset[r] # Unissued /\ Arrive(c, WithCopy("confirm", reset[r].user, r))
    BY <1>10 DEF BeginConfirm
  <2>2. PICK u \in Accounts : u = reset[r].user /\ Exists(u)
    BY <2>1 DEF SInv, STypes, ResetToken, SRest
  <2> QED
    BY <1>3, <2>1, <2>2
<1> QED
  BY <1>5, <1>6, <1>7, <1>8, <1>9, <1>10 DEF Starts

LEMMA ContinuingRests ==
  ASSUME SInv, SRest, NEW c \in Clients, Continues(c), UNCHANGED arrived
  PROVE  SRest'
<1>1. GoesOn(c, client') /\ AccountsGoOn /\ ResetsGoOn
  BY RequestsGoOn, AccountsAreKept, ResetsAreKept DEF SInv
<1>2. \A u \in Accounts : account'[u].status # "ABSENT" \/ account'[u] = Unregistered
  BY <1>1 DEF AccountsGoOn
<1>3. ASSUME NEW d \in Clients
      PROVE  /\ client'[d].copy \in UserRow
             /\ client'[d].at \in Holding => account'[client'[d].user].status # "ABSENT"
  <2>1. CASE d = c
    <3>1. Idle.copy \in UserRow /\ Idle.at \notin Holding
      BY RegisteredRows DEF Idle, Holding
    <3> QED
      BY <1>1, <2>1, <3>1 DEF GoesOn, SRest
  <2>2. CASE d # c
    <3>1. Like(client'[d], client[d])
      BY <1>1, <2>2 DEF GoesOn
    <3>2. client[d].at \in Holding => client[d].user \in Accounts /\ account[client[d].user].status # "ABSENT"
      BY DEF SInv, STypes, SRest, Holding, Exists
    <3>3. client'[d].at = client[d].at /\ client'[d].user = client[d].user /\ client'[d].copy = client[d].copy
      BY <3>1 DEF Like
    <3> QED
      BY <1>1, <3>2, <3>3 DEF AccountsGoOn, SRest
  <2> QED
    BY <2>1, <2>2
<1>4. \A r \in ResetTokens : reset'[r] # Unissued => account'[reset'[r].user].status # "ABSENT"
  BY <1>1 DEF AccountsGoOn, ResetsGoOn
<1>5. blurred' \subseteq Accounts
  <2>1. CASE UNCHANGED blurred
    BY <2>1 DEF SRest
  <2>2. CASE RegisterFailedAttempt(c) \/ PasswordMatches(c) \/ ConfirmReset(c) \/ ChangeStatus(c)
    <3>1. client[c].user \in Accounts
      BY <2>2 DEF SInv, STypes, RegisterFailedAttempt, PasswordMatches, ConfirmReset, ChangeStatus
    <3>2. \/ UNCHANGED blurred
          \/ blurred' = blurred \union {client[c].user}
          \/ blurred' = blurred \ {client[c].user}
      BY <2>2 DEF RegisterFailedAttempt, PasswordMatches, ConfirmReset, ChangeStatus, Counted, history
    <3> QED
      BY <3>1, <3>2 DEF SRest
  <2>3. \/ RegisterFailedAttempt(c) \/ PasswordMatches(c) \/ ConfirmReset(c) \/ ChangeStatus(c)
        \/ UNCHANGED blurred
    BY DEF Continues, Register, IssueSession, ReadAccount, Rotate, ReuseDetected, Logout, CreateResetToken, Dies, history
  <2> QED
    BY <2>1, <2>2, <2>3
<1>6. forked' \subseteq RefreshTokens
  <2>1. CASE UNCHANGED forked
    BY <2>1 DEF SRest
  <2>2. CASE Rotate(c)
    <3>1. PICK old \in RefreshTokens : old = client[c].key
      BY <2>2 DEF SInv, STypes, Rotate
    <3>2. Issued(old)
      BY <2>2, <3>1 DEF SInv, STokens, TokenStands, HoldsToken, Rotate
    <3>3. refresh[old].login \in RefreshTokens
      BY <3>2 DEF SInv, STypes, Issued, RefreshToken
    <3>4. UNCHANGED forked \/ forked' = forked \union {refresh[old].login}
      BY <2>2, <3>1 DEF Rotate
    <3> QED
      BY <3>3, <3>4 DEF SRest
  <2>3. Rotate(c) \/ UNCHANGED forked
    BY DEF Continues, Register, RegisterFailedAttempt, PasswordMatches, IssueSession, ReadAccount, ReuseDetected,
           Logout, CreateResetToken, ConfirmReset, ChangeStatus, Dies, Counted, history
  <2> QED
    BY <2>1, <2>2, <2>3
<1>7. arrived' \in 0..MaxRequests
  BY DEF SRest
<1> QED
  BY <1>2, <1>3, <1>4, <1>5, <1>6, <1>7 DEF SRest, Exists

LEMMA LockingRests ==
  ASSUME SInv, SRest, NEW u \in Accounts, LockRunsOut(u)
  PROVE  SRest'
<1>1. /\ account[u].lock = "running" /\ account' = [account EXCEPT ![u].lock = "past"]
      /\ UNCHANGED <<reset, client, arrived, blurred, forked>>
  BY DEF LockRunsOut, history
<1>2. \A v \in Accounts : account'[v].status = account[v].status
  BY <1>1 DEF SInv, STypes, AccountRow
<1>3. account[u] # Unregistered
  BY <1>1 DEF Unregistered
<1>4. \A v \in Accounts : v # u => account'[v] = account[v]
  BY <1>1 DEF SInv, STypes
<1>5. \A v \in Accounts : account'[v].status # "ABSENT" \/ account'[v] = Unregistered
  BY <1>2, <1>3, <1>4 DEF SRest, Exists
<1>6. ASSUME NEW d \in Clients PROVE client[d].at \in Holding => account'[client[d].user].status # "ABSENT"
  BY <1>2 DEF SInv, STypes, SRest, Holding, Exists
<1>7. ASSUME NEW r \in ResetTokens, reset[r] # Unissued PROVE account'[reset[r].user].status # "ABSENT"
  <2>1. reset[r].user \in Accounts
    BY <1>7 DEF SInv, STypes, ResetToken
  <2> QED
    BY <1>2, <1>7, <2>1 DEF SRest, Exists
<1> QED
  BY <1>1, <1>5, <1>6, <1>7 DEF SRest, Exists

LEMMA SessionsAreTyped == SessionsSpec => []SessionsTypeOK
<1>1. SessionsInit => SRest
  <2> SUFFICES ASSUME SessionsInit PROVE SRest
    OBVIOUS
  <2>1. \A u \in Accounts : Exists(u) \/ account[u] = Unregistered
    BY DEF SessionsInit, Exists, Seeded
  <2>2. Idle.copy \in UserRow /\ Idle.at \notin Holding
    BY RegisteredRows DEF Idle, Holding
  <2> QED
    BY <2>1, <2>2, SessionsAssumption DEF SessionsInit, SRest
<1>2. SInv /\ SRest /\ [SessionsNext]_sessionsVars => SRest'
  <2> SUFFICES ASSUME SInv, SRest, [SessionsNext]_sessionsVars PROVE SRest'
    OBVIOUS
  <2>1. CASE UNCHANGED sessionsVars
    BY <2>1 DEF sessionsVars, SRest, Exists
  <2> QED
    BY <2>1, BeginningRests, ContinuingRests, LockingRests DEF SessionsNext
<1>3. ASSUME SInv, SRest PROVE SessionsTypeOK
  <2>1. \A u \in Accounts : account[u] \in UserRow
    BY <1>3, RegisteredRows DEF SInv, STypes, SRest, Exists
  <2>2. account \in [Accounts -> UserRow]
    BY <1>3, <2>1 DEF SInv, STypes
  <2>3. \A c \in Clients : client[c] \in Requests
    BY <1>3 DEF SInv, STypes, SRest, ClientStates, Requests
  <2>4. client \in [Clients -> Requests]
    BY <1>3, <2>3 DEF SInv, STypes
  <2> QED
    BY <1>3, <2>2, <2>4 DEF SInv, STypes, SRest, SessionsTypeOK
<1> QED
  BY SessionsStart, SessionsStep, <1>1, <1>2, <1>3, PTL DEF SessionsSpec

-----------------------------------------------------------------------------
\* Finance: what the requests do not read.
FRest ==
  /\ category \in [Categories -> {"absent", "active", "inactive"}]
  /\ bookings \in 0..MaxBookings
  /\ books \in [Periods -> Entries]
  /\ amended \subseteq Periods

LEMMA BooksAreEntries == ASSUME FTypes, NEW p \in Periods PROVE Held(expense, p) \in Entries
<1>1. \A e \in Expenses : expense[e] # NoRow => expense[e] \in Expense
  BY DEF FTypes
<1> QED
  BY <1>1 DEF Held, Entries

LEMMA FinanceRests ==
  ASSUME FInv, FRest, [FinanceNext]_financeVars
  PROVE  FRest'
<1>1. ASSUME NEW k \in Clerks, NEW request, Takes(k, request) PROVE FRest'
  <2>1. bookings' \in 0..MaxBookings
    BY <1>1, FinanceAssumption DEF Takes, FRest
  <2> QED
    BY <1>1, <2>1 DEF Takes, ledger, FRest
<1>2. ASSUME NEW k \in Clerks, ExpenseRequest(k) \/ CloseRequest(k) PROVE FRest'
  BY <1>1, <1>2 DEF ExpenseRequest, CloseRequest, BeginCreateExpense, BeginUpdateExpense, BeginDeleteExpense,
                    BeginClosePeriod
<1>3. ASSUME NEW k \in Clerks, NEW rows, Writes(k, rows) PROVE FRest'
  BY <1>3 DEF Writes, FRest
<1>4. ASSUME NEW k \in Clerks, PostExpense(k) \/ AmendExpense(k) \/ DropExpense(k) PROVE FRest'
  BY <1>3, <1>4 DEF PostExpense, AmendExpense, DropExpense
<1>5. ASSUME NEW k \in Clerks, ClosePeriod(k) PROVE FRest'
  <2>1. PICK p : p = clerk[k].id
    OBVIOUS
  <2>2. books' = books \/ books' = [books EXCEPT ![p] = Held(expense, p)]
    BY <1>5, <2>1 DEF ClosePeriod
  <2>3. books' \in [Periods -> Entries]
    BY <2>2, BooksAreEntries DEF FInv, FRest
  <2> QED
    BY <1>5, <2>3 DEF ClosePeriod, FRest
<1>6. ASSUME NEW c \in Categories, CreateCategory(c) \/ UpdateCategory(c) PROVE FRest'
  <2>1. PICK to \in {"active", "inactive"} : category' = [category EXCEPT ![c] = to]
    BY <1>6 DEF CreateCategory, UpdateCategory
  <2>2. category' \in [Categories -> {"absent", "active", "inactive"}]
    BY <2>1 DEF FRest
  <2> QED
    BY <1>6, <2>2 DEF CreateCategory, UpdateCategory, FRest
<1>7. ASSUME UNCHANGED <<category, bookings, books, amended>> PROVE FRest'
  BY <1>7 DEF FRest
<1>8. ASSUME NEW k \in Clerks, RequestDies(k) PROVE FRest'
  BY <1>7, <1>8 DEF RequestDies, ledger
<1>9. ASSUME NEW p \in Periods, NEW from \in Days, NEW to \in Days, CreatePeriod(p, from, to) PROVE FRest'
  BY <1>7, <1>9 DEF CreatePeriod
<1>10. CASE UNCHANGED financeVars
  BY <1>7, <1>10 DEF financeVars
<1> QED
  BY <1>2, <1>4, <1>5, <1>6, <1>8, <1>9, <1>10 DEF FinanceNext

LEMMA FinanceIsTyped == FinanceSpec => []FinanceTypeOK
<1>1. FinanceInit => FRest
  BY FinanceAssumption DEF FinanceInit, FRest, Entries
<1>2. FInv /\ FRest /\ [FinanceNext]_financeVars => FRest'
  BY FinanceRests
<1>3. FInv /\ FRest => FinanceTypeOK
  BY DEF FInv, FTypes, FRest, FinanceTypeOK
<1> QED
  BY FinanceStart, FinanceStep, <1>1, <1>2, <1>3, PTL DEF FinanceSpec

-----------------------------------------------------------------------------
\* Reviews: what was delivered, and the histories.
RRest ==
  /\ received \subseteq Authors \X Goods
  /\ started \in 0..MaxEdits
  /\ vetted \in [ReviewIds -> SUBSET Texts]
  /\ outpaced \subseteq ReviewIds

LEMMA ReviewsRest ==
  ASSUME RInv, RRest, [ReviewsNext]_reviewsVars
  PROVE  RRest'
<1>1. ASSUME NEW h \in Handlers, NEW request, Handles(h, request) PROVE RRest'
  <2>1. started' \in 0..MaxEdits
    BY <1>1, ReviewsAssumption DEF Handles, RRest
  <2> QED
    BY <1>1, <2>1 DEF Handles, RRest
<1>2. ASSUME NEW h \in Handlers, ReviewRequest(h) PROVE RRest'
  BY <1>1, <1>2 DEF ReviewRequest, BeginCreateReview, BeginUpdateReview, BeginModerate, BeginVoteHelpful, BeginRemoveReview
<1>3. ASSUME NEW h \in Handlers, UpdateReview(h) PROVE RRest'
  <2>1. handler[h] \in Edits
    BY <1>3, HandlerKinds DEF RInv, RTypes, UpdateReview
  <2>2. PICK r \in ReviewIds, text \in Texts : r = handler[h].id /\ text = handler[h].text
    BY <2>1 DEF Edits
  <2>3. vetted' = vetted \/ vetted' = [vetted EXCEPT ![r] = @ \union {text}]
    BY <1>3, <2>2 DEF UpdateReview
  <2>4. vetted' \in [ReviewIds -> SUBSET Texts]
    BY <2>2, <2>3 DEF RRest
  <2>5. outpaced' = outpaced \/ outpaced' = outpaced \union {r}
    BY <1>3, <2>2 DEF UpdateReview
  <2> QED
    BY <1>3, <2>2, <2>4, <2>5 DEF UpdateReview, RRest
<1>4. ASSUME NEW h \in Handlers, Moderate(h) PROVE RRest'
  <2>1. handler[h] \in Moderations
    BY <1>4, HandlerKinds DEF RInv, RTypes, Moderate
  <2>2. PICK r \in ReviewIds, copy \in Review : r = handler[h].id /\ copy = handler[h].copy
    BY <2>1 DEF Moderations
  <2>3. PICK texts : vetted' = [vetted EXCEPT ![r] = texts] /\ (texts = {copy.text} \/ texts = {})
    BY <1>4, <2>2 DEF Moderate
  <2>4. texts \in SUBSET Texts
    BY <2>2, <2>3 DEF Review
  <2>5. vetted' \in [ReviewIds -> SUBSET Texts]
    BY <2>2, <2>3, <2>4 DEF RRest
  <2>6. outpaced' = outpaced \union {r} \/ outpaced' = outpaced \ {r}
    BY <1>4, <2>2 DEF Moderate
  <2> QED
    BY <1>4, <2>2, <2>5, <2>6 DEF Moderate, RRest
<1>5. ASSUME UNCHANGED <<received, started, vetted, outpaced>> PROVE RRest'
  BY <1>5 DEF RRest
<1>6. ASSUME NEW h \in Handlers, CreateReview(h) \/ VoteHelpful(h) \/ RemoveReview(h) \/ HandlerDies(h) PROVE RRest'
  BY <1>5, <1>6 DEF CreateReview, VoteHelpful, RemoveReview, HandlerDies
<1>7. ASSUME NEW a \in Authors, NEW v \in Goods, DeliveryChanges(a, v) PROVE RRest'
  BY <1>7 DEF DeliveryChanges, RRest
<1>8. CASE UNCHANGED reviewsVars
  BY <1>5, <1>8 DEF reviewsVars
<1> QED
  BY <1>2, <1>3, <1>4, <1>6, <1>7, <1>8 DEF ReviewsNext

LEMMA ReviewsAreTyped == ReviewsSpec => []ReviewsTypeOK
<1>1. ReviewsInit => RRest
  BY ReviewsAssumption DEF ReviewsInit, RRest
<1>2. RInv /\ RRest /\ [ReviewsNext]_reviewsVars => RRest'
  BY ReviewsRest
<1>3. RInv /\ RRest => ReviewsTypeOK
  BY DEF RInv, RTypes, RRest, ReviewsTypeOK
<1> QED
  BY ReviewsStart, ReviewsStep, <1>1, <1>2, <1>3, PTL DEF ReviewsSpec

-----------------------------------------------------------------------------
\* Notifications: every call holds what its step needs.
Looking == [at : {"look"}, ask : Ask]
Recording == [at : {"cancelled", "pending"}, allowed : BOOLEAN]
Carrying == [at : {"send", "sent", "failed"}, id : Messages, retry : BOOLEAN]
Preferring == [at : {"prefer"}, to : Subscribers, copy : Preference, takes : SUBSET OptionalChannels]

LEMMA TaskKinds ==
  /\ NoTask \in TaskState /\ Recording \subseteq TaskState /\ Carrying \subseteq TaskState
  /\ Looking \subseteq TaskState /\ Preferring \subseteq TaskState
  /\ \A call \in TaskState : /\ call.at \in {"send", "sent", "failed"} => call \in Carrying
                             /\ call.at = "prefer" => call \in Preferring
                             /\ call.at \in {"cancelled", "pending"} => call \in Recording
<1>1. TaskState = {NoTask} \union Looking \union Recording \union Carrying \union Preferring
  BY DEF TaskState, Looking, Recording, Carrying, Preferring
<1>2. /\ NoTask.at = "none" /\ \A call \in Looking : call.at = "look"
      /\ \A call \in Recording : call.at \in {"cancelled", "pending"}
      /\ \A call \in Carrying : call.at \in {"send", "sent", "failed"}
      /\ \A call \in Preferring : call.at = "prefer"
  BY DEF NoTask, Looking, Recording, Carrying, Preferring
<1>3. ASSUME NEW call \in TaskState
      PROVE  /\ call.at \in {"send", "sent", "failed"} => call \in Carrying
             /\ call.at = "prefer" => call \in Preferring
             /\ call.at \in {"cancelled", "pending"} => call \in Recording
  BY <1>1, <1>2
<1> QED
  BY <1>1, <1>3

LEMMA Stepping ==
  ASSUME NotificationsTypeOK, NEW s \in Tasks, NEW next \in TaskState, Step(s, next),
         preference' \in [Subscribers -> Preference],
         message' \in [Messages -> MessageRow \union {NoMessage}],
         delivered' \in [Messages -> 0..MaxDeliveries],
         agreed' \subseteq Messages, doubtful' \subseteq Messages
  PROVE  NotificationsTypeOK'
BY DEF NotificationsTypeOK, Step

LEMMA NotificationsKeepTypes ==
  ASSUME NotificationsTypeOK, [NotificationsNext]_notificationsVars
  PROVE  NotificationsTypeOK'
<1>0. /\ preference \in [Subscribers -> Preference] /\ message \in [Messages -> MessageRow \union {NoMessage}]
      /\ delivered \in [Messages -> 0..MaxDeliveries] /\ agreed \subseteq Messages /\ doubtful \subseteq Messages
      /\ \A s \in Tasks : task[s] \in TaskState
      /\ NoTask \in TaskState
  BY TaskKinds DEF NotificationsTypeOK
<1>1. ASSUME NEW s \in Tasks, NEW to \in Subscribers \union {NoSubscriber}, NEW type, NEW channel \in Channels,
             NEW forced \in BOOLEAN, Asks(s, to, type, channel, forced)
      PROVE  NotificationsTypeOK'
  <2>1. PICK ask : ask = [to |-> to, marketing |-> type \in MARKETING_TYPES, channel |-> channel, forced |-> forced]
    OBVIOUS
  <2>2. ask \in Ask
    <3>1. (type \in MARKETING_TYPES) \in BOOLEAN
      OBVIOUS
    <3> QED
      BY <2>1, <3>1, Zenon DEF Ask
  <2>3. PICK next : next = [at |-> "look", ask |-> ask]
    OBVIOUS
  <2>4. next \in TaskState
    BY <2>2, <2>3, TaskKinds DEF Looking
  <2>5. Step(s, next) /\ UNCHANGED <<preference, message, delivered, agreed, doubtful>>
    BY <1>1, <2>1, <2>3 DEF Asks, trail
  <2> QED
    BY <1>0, <2>4, <2>5, Stepping
<1>2. ASSUME NEW s \in Tasks, \/ SendByHand(s) \/ RunRewardExpirationJob(s) \/ RunAbandonedCartJob(s)
                              \/ RunLowStockAlertJob(s) \/ RunReviewReminderJob(s)
      PROVE  NotificationsTypeOK'
  <2>1. "EMAIL" \in Channels
    BY NotificationsAssumption
  <2>2. ASSUME SendByHand(s) PROVE NotificationsTypeOK'
    BY <1>1, <2>2 DEF SendByHand
  <2>3. ASSUME RunLowStockAlertJob(s) PROVE NotificationsTypeOK'
    BY <1>1, <2>1, <2>3 DEF RunLowStockAlertJob
  <2>4. ASSUME RunRewardExpirationJob(s) \/ RunAbandonedCartJob(s) \/ RunReviewReminderJob(s) PROVE NotificationsTypeOK'
    BY <1>1, <2>1, <2>4 DEF RunRewardExpirationJob, RunAbandonedCartJob, RunReviewReminderJob
  <2> QED
    BY <1>2, <2>2, <2>3, <2>4
<1>3. ASSUME NEW s \in Tasks, LookUpCustomer(s) PROVE NotificationsTypeOK'
  <2>1. PICK allowed : /\ Step(s, [at |-> IF allowed THEN "pending" ELSE "cancelled", allowed |-> allowed])
                       /\ allowed \in BOOLEAN
    BY <1>3 DEF LookUpCustomer
  <2>2. PICK next : next = [at |-> IF allowed THEN "pending" ELSE "cancelled", allowed |-> allowed]
    OBVIOUS
  <2>3. next \in TaskState
    BY <2>1, <2>2, TaskKinds DEF Recording
  <2>4. Step(s, next) /\ UNCHANGED <<preference, message, delivered, agreed, doubtful>>
    BY <1>3, <2>1, <2>2 DEF LookUpCustomer, trail
  <2> QED
    BY <1>0, <2>3, <2>4, Stepping
<1>4. ASSUME NEW s \in Tasks, RecordMessage(s) PROVE NotificationsTypeOK'
  <2>1. PICK n \in Messages :
          /\ message' = [message EXCEPT ![n] =
               [status |-> IF task[s].at = "pending" THEN "PENDING" ELSE "CANCELLED"]]
          /\ agreed' = IF task[s].allowed THEN agreed \union {n} ELSE agreed
          /\ Step(s, IF task[s].at = "pending" THEN [at |-> "send", id |-> n, retry |-> FALSE] ELSE NoTask)
    BY <1>4 DEF RecordMessage, NextMessage
  <2>2. PICK next : next = IF task[s].at = "pending" THEN [at |-> "send", id |-> n, retry |-> FALSE] ELSE NoTask
    OBVIOUS
  <2>3. next \in TaskState
    BY <2>2, TaskKinds DEF Carrying
  <2>4. message' \in [Messages -> MessageRow \union {NoMessage}]
    BY <1>0, <2>1 DEF MessageRow
  <2>5. Step(s, next) /\ agreed' \subseteq Messages /\ UNCHANGED <<preference, delivered, doubtful>>
    BY <1>0, <1>4, <2>1, <2>2 DEF RecordMessage
  <2> QED
    BY <1>0, <2>3, <2>4, <2>5, Stepping
<1>5. ASSUME NEW s \in Tasks, task[s].at \in {"send", "sent", "failed"}
      PROVE  /\ task[s].id \in Messages
             /\ [task[s] EXCEPT !.at = "sent"] \in TaskState /\ [task[s] EXCEPT !.at = "failed"] \in TaskState
  <2>1. task[s] \in Carrying
    BY <1>0, <1>5, TaskKinds
  <2>2. [task[s] EXCEPT !.at = "sent"] \in Carrying /\ [task[s] EXCEPT !.at = "failed"] \in Carrying
    BY <2>1 DEF Carrying
  <2> QED
    BY <2>1, <2>2, TaskKinds DEF Carrying
<1>6. ASSUME NEW s \in Tasks, Deliver(s) PROVE NotificationsTypeOK'
  <2>1. task[s].at = "send" /\ UNCHANGED <<preference, message, agreed, doubtful>>
    BY <1>6 DEF Deliver
  <2>2. PICK n \in Messages : n = task[s].id
    BY <1>5, <2>1
  <2>3. delivered' \in [Messages -> 0..MaxDeliveries]
    <3>1. delivered' = delivered \/ (delivered[n] < MaxDeliveries /\ delivered' = [delivered EXCEPT ![n] = @ + 1])
      BY <1>6, <2>2 DEF Deliver
    <3> QED
      BY <1>0, <3>1, NotificationsAssumption
  <2>4. PICK next \in TaskState : Step(s, next)
    BY <1>5, <1>6, <2>1 DEF Deliver
  <2> QED
    BY <1>0, <2>1, <2>3, <2>4, Stepping
<1>7. ASSUME NEW s \in Tasks, MarkSent(s) \/ MarkFailed(s) PROVE NotificationsTypeOK'
  <2>1. PICK n \in Messages : n = task[s].id
    BY <1>5, <1>7 DEF MarkSent, MarkFailed
  <2>2. PICK status \in {"SENT", "FAILED"} : message' = [message EXCEPT ![n].status = status]
    BY <1>7, <2>1 DEF MarkSent, MarkFailed
  <2>3. [message[n] EXCEPT !.status = status] \in MessageRow
    <3>1. \A row \in MessageRow \union {NoMessage} : [row EXCEPT !.status = status] \in MessageRow
      BY DEF MessageRow, NoMessage
    <3> QED
      BY <1>0, <3>1
  <2>4. message' \in [Messages -> MessageRow \union {NoMessage}]
    BY <1>0, <2>2, <2>3
  <2>5. Step(s, NoTask) /\ UNCHANGED <<preference, delivered, agreed, doubtful>>
    BY <1>7 DEF MarkSent, MarkFailed, trail
  <2> QED
    BY <1>0, <2>4, <2>5, Stepping
<1>8. ASSUME NEW s \in Tasks, MarkSentFails(s) PROVE NotificationsTypeOK'
  <2>1. task[s].at = "sent" /\ UNCHANGED <<preference, message, delivered, agreed>>
    BY <1>8 DEF MarkSentFails
  <2>2. PICK next \in TaskState : Step(s, next)
    BY <1>0, <1>5, <1>8, <2>1 DEF MarkSentFails
  <2>3. doubtful' \subseteq Messages
    BY <1>0, <1>5, <1>8, <2>1 DEF MarkSentFails
  <2> QED
    BY <1>0, <2>1, <2>2, <2>3, Stepping
<1>9. ASSUME NEW s \in Tasks, NEW n \in Messages, RetryNotification(s, n) PROVE NotificationsTypeOK'
  <2>1. PICK next : next = [at |-> "send", id |-> n, retry |-> TRUE]
    OBVIOUS
  <2>2. next \in TaskState
    BY <2>1, TaskKinds DEF Carrying
  <2>3. /\ Step(s, next) /\ doubtful' \subseteq Messages
        /\ UNCHANGED <<preference, message, delivered, agreed>>
    BY <1>0, <1>9, <2>1 DEF RetryNotification
  <2> QED
    BY <1>0, <2>2, <2>3, Stepping
<1>10. ASSUME NEW s \in Tasks, TaskDies(s) PROVE NotificationsTypeOK'
  <2>1. doubtful' \subseteq Messages
    BY <1>0, <1>5, <1>10 DEF TaskDies
  <2>2. Step(s, NoTask) /\ UNCHANGED <<preference, message, delivered, agreed>>
    BY <1>10 DEF TaskDies
  <2> QED
    BY <1>0, <2>1, <2>2, Stepping
<1>11. ASSUME NEW s \in Tasks, NEW c \in Subscribers, BeginPreferences(s, c) PROVE NotificationsTypeOK'
  <2>1. PICK takes \in SUBSET OptionalChannels :
          Step(s, [at |-> "prefer", to |-> c, copy |-> preference[c], takes |-> takes])
    BY <1>11 DEF BeginPreferences
  <2>2. PICK next : next = [at |-> "prefer", to |-> c, copy |-> preference[c], takes |-> takes]
    OBVIOUS
  <2>3. next \in TaskState
    BY <1>0, <2>2, TaskKinds DEF Preferring
  <2>4. Step(s, next) /\ UNCHANGED <<preference, message, delivered, agreed, doubtful>>
    BY <1>11, <2>1, <2>2 DEF BeginPreferences, trail
  <2> QED
    BY <1>0, <2>3, <2>4, Stepping
<1>12. ASSUME NEW s \in Tasks, SetMarketingPreferences(s) PROVE NotificationsTypeOK'
  <2>1. task[s] \in Preferring
    BY <1>0, <1>12, TaskKinds DEF SetMarketingPreferences
  <2>2. PICK c \in Subscribers, copy \in Preference, takes \in SUBSET OptionalChannels :
          c = task[s].to /\ copy = task[s].copy /\ takes = task[s].takes
    BY <2>1 DEF Preferring
  <2>3. PICK changed \in SUBSET OptionalChannels, out \in BOOLEAN :
          preference' = [preference EXCEPT ![c] =
            [takes |-> (@.takes \ changed) \union (changed \intersect takes),
             optedOut |-> IF out \/ copy.optedOut THEN out ELSE @.optedOut]]
    BY <1>12, <2>2 DEF SetMarketingPreferences
  <2>4. preference[c] \in Preference
    BY <1>0
  <2>5. preference' \in [Subscribers -> Preference]
    BY <1>0, <2>2, <2>3, <2>4 DEF Preference
  <2>6. Step(s, NoTask) /\ UNCHANGED <<message, delivered, agreed, doubtful>>
    BY <1>12 DEF SetMarketingPreferences, trail
  <2> QED
    BY <1>0, <2>5, <2>6, Stepping
<1>13. CASE UNCHANGED notificationsVars
  BY <1>13 DEF notificationsVars, NotificationsTypeOK
<1> QED
  BY <1>2, <1>3, <1>4, <1>6, <1>7, <1>8, <1>9, <1>10, <1>11, <1>12, <1>13 DEF NotificationsNext

LEMMA NotificationsAreTyped == NotificationsSpec => []NotificationsTypeOK
<1>1. NotificationsInit => NotificationsTypeOK
  BY NotificationsAssumption DEF NotificationsInit, NotificationsTypeOK, TaskState, Preference, OptionalChannels
<1>2. NotificationsTypeOK /\ [NotificationsNext]_notificationsVars => NotificationsTypeOK'
  BY NotificationsKeepTypes
<1> QED
  BY <1>1, <1>2, PTL DEF NotificationsSpec

-----------------------------------------------------------------------------
\* The back office: one component takes its steps, the others rest.

LEMMA BackofficeSteps ==
  /\ BackofficeInit => SessionsInit /\ UserAdminInit /\ FinanceInit /\ ReviewsInit /\ NotificationsInit
  /\ [BackofficeNext]_backofficeVars =>
       /\ [SessionsNext]_sessionsVars /\ [UserAdminNext]_userAdminVars /\ [FinanceNext]_financeVars
       /\ [ReviewsNext]_reviewsVars /\ [NotificationsNext]_notificationsVars
<1>1. BackofficeInit => SessionsInit /\ UserAdminInit /\ FinanceInit /\ ReviewsInit /\ NotificationsInit
  BY DEF BackofficeInit
<1>2. UNCHANGED backofficeVars =>
        /\ UNCHANGED sessionsVars /\ UNCHANGED userAdminVars /\ UNCHANGED financeVars
        /\ UNCHANGED reviewsVars /\ UNCHANGED notificationsVars
  BY DEF backofficeVars
<1>3. BackofficeNext =>
        /\ [SessionsNext]_sessionsVars /\ [UserAdminNext]_userAdminVars /\ [FinanceNext]_financeVars
        /\ [ReviewsNext]_reviewsVars /\ [NotificationsNext]_notificationsVars
  BY DEF BackofficeNext
<1> QED
  BY <1>1, <1>2, <1>3

\* Whatever accounts, staff, the ledger, reviews and messages do, the variables of their
\* five modules keep their types and each module's invariants hold.
THEOREM BackofficeHolds ==
  BackofficeSpec => [](/\ BackofficeTypeOK
                       /\ CounterCountsFailures /\ SessionsStayEnded /\ SomebodyAdministers
                       /\ ClosedBooksAreKept /\ ReportsAddUp /\ PublishedAsModerated
                       /\ OptOutsAreRespected /\ DeliveredOnce)
<1>1. BackofficeSpec => SessionsSpec /\ UserAdminSpec /\ FinanceSpec /\ ReviewsSpec /\ NotificationsSpec
  BY BackofficeSteps, PTL DEF BackofficeSpec, SessionsSpec, UserAdminSpec, FinanceSpec, ReviewsSpec, NotificationsSpec
<1>2. UserAdminSpec => []UserAdminTypeOK
  <2>1. UInv => UserAdminTypeOK
    BY DEF UInv
  <2> QED
    BY <2>1, AdministrationKept, PTL
<1>3. SessionsTypeOK /\ UserAdminTypeOK /\ FinanceTypeOK /\ ReviewsTypeOK /\ NotificationsTypeOK
      => BackofficeTypeOK
  BY DEF BackofficeTypeOK
<1> QED
  BY <1>1, <1>2, <1>3, SessionsAreTyped, FinanceIsTyped, ReviewsAreTyped, NotificationsAreTyped,
     FailuresAreCounted, EndedSessionsStayEnded, NobodyLocksThemselvesOut, BooksStayClosed, ReportsStayAdditive,
     PublishedReviewsWereModerated, MarketingIsWanted, MessagesArriveOnce, PTL

-----------------------------------------------------------------------------
\* Key rotation: the inductive invariant.

KeyTypes ==
  /\ keys \in [Versions -> [dek : {0} \union Deks, active : BOOLEAN]]
  /\ node \in [Processes -> [active : {0} \union Versions, cache : [Versions -> {0} \union Deks], first : {0} \union Deks]]
  /\ rotation \in [Processes -> {NoRotation} \union [next : Versions, dek : Deks]]
  /\ record \in [Records -> Columns]
  /\ worker = [p \in Processes |-> worker[p]]

\* Only stored keys are active.
ActiveKeysAreStored == \A v \in Versions : keys[v].active => Stored(v)

\* A process that has an active version has its key cached.
ActiveIsCached == \A p \in Processes : node[p].active # 0 => node[p].cache[node[p].active] # 0

\* A column that can be read: not a ciphertext, or one whose key is stored.
Readable(column) == column.form = "cipher" => keys[column.version].dek = column.dek

\* What a batch is about to write can be read.
StagedReadable ==
  \A p \in Processes : worker[p].at = "batch" =>
    /\ worker[p].rows \subseteq Records
    /\ \A r \in worker[p].rows : worker[p].staged[r] \in Columns /\ Readable(worker[p].staged[r])
    /\ worker[p].staged = [r \in worker[p].rows |-> worker[p].staged[r]]

\* What a process has cached is what is stored.
CacheIsStored == \A p \in Processes, v \in Versions : node[p].cache[v] \in {0, keys[v].dek}

\* A run that has begun has found an active version.
RunsAreInitialized == \A p \in Processes : worker[p].at \in {"next", "batch"} => Initialized(p)

KInv ==
  /\ KeyTypes /\ RunsAreInitialized
  /\ ActiveKeysAreStored /\ ActiveIsCached /\ CacheIsStored /\ StagedReadable
  /\ \A r \in Records : Readable(record[r])

-----------------------------------------------------------------------------
\* Facts about keys and columns.

\* Versions that there are have a greatest one.
LEMMA GreatestVersion ==
  ASSUME NEW S \in SUBSET Versions, S # {}
  PROVE  Max(S) \in S
<1> DEFINE Later(x) == {y \in S : y > x}
           F == {Later(x) : x \in S}
<1>1. Versions \subseteq Nat /\ IsFiniteSet(S)
  <2>1. MaxVersion \in Int /\ Versions \subseteq Nat
    BY KeyRotationAssumption DEF Versions
  <2>2. IsFiniteSet(Versions)
    BY <2>1, FS_Interval DEF Versions
  <2> QED
    BY <2>1, <2>2, FS_Subset
<1>2. F \subseteq FiniteSubsetsOf(S) /\ F # {}
  <2>1. \A x \in S : Later(x) \in SUBSET S
    OBVIOUS
  <2>2. FiniteSubsetsOf(S) = SUBSET S
    BY <1>1, FS_FiniteSubsetsOfFinite
  <2>3. F \subseteq FiniteSubsetsOf(S)
    BY <2>1, <2>2
  <2>4. PICK x : x \in S
    OBVIOUS
  <2>5. Later(x) \in F
    BY <2>4
  <2> QED
    BY <2>3, <2>5
<1>3. PICK U \in F : \A V \in F : <<V, U>> \notin StrictSubsetOrdering(S)
  BY <1>2, FS_StrictSubsetOrderingWellFounded, WFMin
<1>4. PICK x \in S : U = Later(x)
  BY <1>3
<1>5. ASSUME NEW y \in S, ~(x >= y) PROVE FALSE
  <2>1. /\ x \in Nat /\ y \in Nat /\ y > x /\ ~(y > y)
        /\ \A z \in S : z \in Nat /\ (z > y => z > x)
    <3>1. \A z \in S : z \in Nat
      BY <1>1
    <3> QED
      BY <1>5, <3>1
  <2>2. Later(y) \subseteq U /\ y \in U /\ y \notin Later(y) /\ U \subseteq S /\ Later(y) \in F
    <3>1. Later(y) \in F /\ y \in Later(x) /\ U = Later(x)
      BY <1>4, <1>5, <2>1
    <3> QED
      BY <2>1, <3>1
  <2> QED
    BY <1>3, <2>2 DEF StrictSubsetOrdering
<1> QED
  BY <1>5 DEF Max

\* A key that is stored keeps its data key, and a new one makes nothing unreadable:
\* no column names a version that is not stored.
LEMMA NewKeyKeepsReadable ==
  ASSUME KeyTypes, NEW column \in Columns, Readable(column),
         \A v \in Versions : Stored(v) => keys'[v].dek = keys[v].dek
  PROVE  Readable(column)'
<1>1. CASE column.form = "cipher"
  <2>1. column.version \in Versions /\ column.dek \in Deks
    BY <1>1 DEF Columns
  <2>2. Stored(column.version)
    BY <1>1, <2>1 DEF Readable, Stored, Deks
  <2> QED
    BY <1>1, <2>2, <2>1 DEF Readable
<1>2. CASE column.form # "cipher"
  BY <1>2 DEF Readable
<1> QED
  BY <1>1, <1>2

\* What encrypt returns is readable.
LEMMA EncryptedIsReadable ==
  ASSUME KInv, NEW p \in Processes, Initialized(p)
  PROVE  Encrypted(p) \in Columns /\ Readable(Encrypted(p))
<1>1. /\ node[p].active \in Versions /\ node[p].cache[node[p].active] \in Deks
      /\ node[p].cache[node[p].active] = keys[node[p].active].dek
  BY DEF KInv, KeyTypes, Initialized, ActiveIsCached, CacheIsStored
<1> QED
  BY <1>1 DEF Encrypted, Columns, Readable

\* A process adopts a version that is stored.
LEMMA AdoptedIsStored ==
  ASSUME KInv, NEW p \in Processes, NEW v \in Versions, NEW d \in Deks, node' = Adopt(p, v, d),
         keys'[v].dek = d, \A x \in Versions : Stored(x) => keys'[x].dek = keys[x].dek
  PROVE  /\ node' \in [Processes -> [active : {0} \union Versions, cache : [Versions -> {0} \union Deks],
                                     first : {0} \union Deks]]
         /\ ActiveIsCached' /\ CacheIsStored'
<1> DEFINE n == [node[p] EXCEPT !.active = v, !.cache = [@ EXCEPT ![v] = d], !.first = 0]
<1>1. node[p] \in [active : {0} \union Versions, cache : [Versions -> {0} \union Deks], first : {0} \union Deks]
  BY DEF KInv, KeyTypes
<1>2. node' = [node EXCEPT ![p] = n]
  BY DEF Adopt
<1>3. /\ n \in [active : {0} \union Versions, cache : [Versions -> {0} \union Deks], first : {0} \union Deks]
      /\ n.active = v /\ n.cache = [node[p].cache EXCEPT ![v] = d]
  BY <1>1
<1> HIDE DEF n
<1>4. /\ node' \in [Processes -> [active : {0} \union Versions, cache : [Versions -> {0} \union Deks],
                                  first : {0} \union Deks]]
      /\ node'[p] = n /\ \A q \in Processes : q # p => node'[q] = node[q]
  BY <1>2, <1>3 DEF KInv, KeyTypes
<1>5. n.cache[v] = d /\ d # 0 /\ \A x \in Versions : x # v => n.cache[x] = node[p].cache[x]
  BY <1>1, <1>3 DEF Deks
<1>6. ActiveIsCached'
  BY <1>3, <1>4, <1>5 DEF KInv, ActiveIsCached
<1>7. \A q \in Processes, x \in Versions : node[q].cache[x] \in {0, keys'[x].dek}
  BY DEF KInv, CacheIsStored, Stored
<1>8. CacheIsStored'
  BY <1>4, <1>5, <1>7 DEF CacheIsStored
<1> QED
  BY <1>4, <1>6, <1>8

\* A process that forgets or drops its first key.
LEMMA FirstKeyIsNoMatter ==
  ASSUME KInv, NEW p \in Processes, NEW d \in {0} \union Deks, node' = [node EXCEPT ![p].first = d], keys' = keys
  PROVE  /\ node' \in [Processes -> [active : {0} \union Versions, cache : [Versions -> {0} \union Deks],
                                     first : {0} \union Deks]]
         /\ ActiveIsCached' /\ CacheIsStored'
<1> DEFINE n == [node[p] EXCEPT !.first = d]
<1>1. node[p] \in [active : {0} \union Versions, cache : [Versions -> {0} \union Deks], first : {0} \union Deks]
  BY DEF KInv, KeyTypes
<1>2. node' = [node EXCEPT ![p] = n]
  OBVIOUS
<1>3. /\ n \in [active : {0} \union Versions, cache : [Versions -> {0} \union Deks], first : {0} \union Deks]
      /\ n.active = node[p].active /\ n.cache = node[p].cache
  BY <1>1
<1> HIDE DEF n
<1>4. /\ node' \in [Processes -> [active : {0} \union Versions, cache : [Versions -> {0} \union Deks],
                                  first : {0} \union Deks]]
      /\ \A q \in Processes : node'[q].active = node[q].active /\ node'[q].cache = node[q].cache
  BY <1>2, <1>3 DEF KInv, KeyTypes
<1> QED
  BY <1>4 DEF KInv, ActiveIsCached, CacheIsStored

\* Columns and batches do not suffer from a new key.
LEMMA ColumnsStayReadable ==
  ASSUME KInv, \A v \in Versions : Stored(v) => keys'[v].dek = keys[v].dek,
         record' = record,
         \A q \in Processes : worker'[q].at = "batch" => worker'[q] = worker[q]
  PROVE  StagedReadable' /\ \A r \in Records : Readable(record[r])'
<1>1. \A r \in Records : Readable(record[r])'
  BY NewKeyKeepsReadable DEF KInv, KeyTypes, Readable
<1>2. ASSUME NEW q \in Processes, worker'[q].at = "batch"
      PROVE  /\ worker'[q].rows \subseteq Records
             /\ \A r \in worker'[q].rows : worker'[q].staged[r] \in Columns /\ Readable(worker[q].staged[r])'
             /\ worker'[q].staged = [r \in worker'[q].rows |-> worker'[q].staged[r]]
  <2>1. worker'[q] = worker[q] /\ worker[q].at = "batch"
    BY <1>2
  <2>2. /\ worker[q].rows \subseteq Records
        /\ worker[q].staged = [r \in worker[q].rows |-> worker[q].staged[r]]
    BY <2>1 DEF KInv, StagedReadable
  <2>3. ASSUME NEW r \in worker[q].rows
        PROVE  worker[q].staged[r] \in Columns /\ Readable(worker[q].staged[r])'
    <3>1. PICK c \in Columns : c = worker[q].staged[r] /\ Readable(c)
      BY <2>1, <2>3 DEF KInv, StagedReadable
    <3>2. Readable(c)'
      BY <3>1, NewKeyKeepsReadable DEF KInv
    <3> QED
      BY <2>1, <3>1, <3>2 DEF Readable
  <2> QED
    BY <2>1, <2>2, <2>3
<1> QED
  BY <1>1, <1>2 DEF StagedReadable

-----------------------------------------------------------------------------
\* Every step keeps the invariant.

\* Keys are loaded, generated, rotated and forgotten; no column is written.
LEMMA KeyStepsKeepInvariant ==
  ASSUME KInv, NEW p \in Processes,
         LoadActiveKey(p) \/ GenerateFirstKey(p) \/ CreateFirstKey(p) \/ InitializationFails(p)
           \/ BeginRotation(p) \/ StoreRotation(p) \/ RotationFails(p) \/ ProcessRestarts(p)
  PROVE  KInv'
<1>0. /\ NoRotation = [next |-> 0, dek |-> 0] /\ 1 \in Versions
      /\ keys \in [Versions -> [dek : {0} \union Deks, active : BOOLEAN]]
      /\ node[p] \in [active : {0} \union Versions, cache : [Versions -> {0} \union Deks], first : {0} \union Deks]
      /\ rotation[p] \in {NoRotation} \union [next : Versions, dek : Deks]
      /\ worker = [q \in Processes |-> worker[q]]
  BY KeyRotationAssumption DEF KInv, KeyTypes, NoRotation, Versions
<1>1. ASSUME LoadActiveKey(p) \/ CreateFirstKey(p) \/ StoreRotation(p)
      PROVE  KInv'
  <2>1. PICK v \in Versions, d \in Deks :
          /\ node' = Adopt(p, v, d) /\ keys'[v].dek = d
          /\ keys' \in [Versions -> [dek : {0} \union Deks, active : BOOLEAN]]
          /\ ActiveKeysAreStored'
          /\ \A x \in Versions : Stored(x) => keys'[x].dek = keys[x].dek
    <3>1. CASE LoadActiveKey(p)
      <4>1. ActiveVersions \in SUBSET Versions /\ ActiveVersions # {}
        BY <3>1 DEF LoadActiveKey, ActiveVersions
      <4>2. Max(ActiveVersions) \in ActiveVersions
        BY <4>1, GreatestVersion
      <4>3. Max(ActiveVersions) \in Versions /\ keys[Max(ActiveVersions)].active
        BY <4>2 DEF ActiveVersions
      <4>4. keys[Max(ActiveVersions)].dek \in Deks
        BY <1>0, <4>3 DEF KInv, ActiveKeysAreStored, Stored
      <4> QED
        BY <1>0, <3>1, <4>3, <4>4 DEF LoadActiveKey, KInv, ActiveKeysAreStored, Stored
    <3>2. CASE CreateFirstKey(p)
      <4>1. node[p].first \in Deks /\ ~Stored(1)
        BY <1>0, <3>2 DEF CreateFirstKey
      <4>2. keys' = [keys EXCEPT ![1] = [dek |-> node[p].first, active |-> TRUE]]
        BY <3>2 DEF CreateFirstKey
      <4>3. keys'[1] = [dek |-> node[p].first, active |-> TRUE] /\ \A x \in Versions : x # 1 => keys'[x] = keys[x]
        BY <1>0, <4>2
      <4>4. keys' \in [Versions -> [dek : {0} \union Deks, active : BOOLEAN]]
        BY <1>0, <4>1, <4>2
      <4>5. ActiveKeysAreStored'
        BY <4>1, <4>3 DEF KInv, ActiveKeysAreStored, Stored, Deks
      <4> QED
        BY <1>0, <3>2, <4>1, <4>3, <4>4, <4>5 DEF CreateFirstKey
    <3>3. CASE StoreRotation(p)
      <4> DEFINE new == rotation[p]
      <4>1. new.next \in Versions /\ new.dek \in Deks /\ ~Stored(new.next)
        BY <1>0, <3>3 DEF StoreRotation
      <4>2. keys' = [v \in Versions |->
              IF v = new.next THEN [dek |-> new.dek, active |-> TRUE] ELSE [keys[v] EXCEPT !.active = FALSE]]
        BY <3>3 DEF StoreRotation
      <4>3. \A x \in Versions : [keys[x] EXCEPT !.active = FALSE] \in [dek : {0} \union Deks, active : BOOLEAN]
                                /\ [keys[x] EXCEPT !.active = FALSE].dek = keys[x].dek
                                /\ [keys[x] EXCEPT !.active = FALSE].active = FALSE
        BY <1>0
      <4>4. keys' \in [Versions -> [dek : {0} \union Deks, active : BOOLEAN]]
        BY <4>1, <4>2, <4>3
      <4>5. keys'[new.next].dek = new.dek
            /\ \A x \in Versions : x # new.next => keys'[x].dek = keys[x].dek /\ keys'[x].active = FALSE
        BY <4>1, <4>2, <4>3
      <4>6. ActiveKeysAreStored'
        BY <4>1, <4>5 DEF ActiveKeysAreStored, Stored, Deks
      <4> QED
        BY <3>3, <4>1, <4>4, <4>5, <4>6 DEF StoreRotation
    <3> QED
      BY <1>1, <3>1, <3>2, <3>3
  <2>2. worker' = worker /\ record' = record /\ rotation' \in [Processes -> {NoRotation} \union [next : Versions, dek : Deks]]
    BY <1>1 DEF LoadActiveKey, CreateFirstKey, StoreRotation, KInv, KeyTypes
  <2>3. /\ node' \in [Processes -> [active : {0} \union Versions, cache : [Versions -> {0} \union Deks],
                                    first : {0} \union Deks]]
        /\ ActiveIsCached' /\ CacheIsStored'
    BY <2>1, AdoptedIsStored
  <2>4. StagedReadable' /\ \A r \in Records : Readable(record[r])'
    BY <2>1, <2>2, ColumnsStayReadable
  <2>5. RunsAreInitialized'
    <3>1. \A q \in Processes : Initialized(q) => Initialized(q)'
      <4>1. node'[p].active = v /\ v # 0 /\ \A q \in Processes : q # p => node'[q] = node[q]
        BY <2>1 DEF Adopt, KInv, KeyTypes, Versions
      <4> QED
        BY <4>1 DEF Initialized
    <3> QED
      BY <2>2, <3>1 DEF KInv, RunsAreInitialized
  <2> QED
    BY <1>0, <2>1, <2>2, <2>3, <2>4, <2>5 DEF KInv, KeyTypes
<1>2. ASSUME GenerateFirstKey(p) \/ InitializationFails(p)
      PROVE  KInv'
  <2>1. PICK d \in {0} \union Deks : node' = [node EXCEPT ![p].first = d]
    BY <1>2 DEF GenerateFirstKey, InitializationFails
  <2>2. /\ keys' = keys /\ rotation' = rotation /\ record' = record
        /\ worker' = worker \/ worker' = [worker EXCEPT ![p] = IF @.at = "init" THEN [at |-> "stuck"] ELSE @]
    BY <1>2 DEF GenerateFirstKey, InitializationFails
  <2>3. /\ node' \in [Processes -> [active : {0} \union Versions, cache : [Versions -> {0} \union Deks],
                                    first : {0} \union Deks]]
        /\ ActiveIsCached' /\ CacheIsStored'
    BY <2>1, <2>2, FirstKeyIsNoMatter
  <2>4. /\ worker' = [q \in Processes |-> worker'[q]]
        /\ \A q \in Processes : worker'[q] = worker[q] \/ worker'[q].at = "stuck"
    BY <1>0, <2>2
  <2>5. StagedReadable' /\ \A r \in Records : Readable(record[r])'
    BY <2>2, <2>4, ColumnsStayReadable
  <2>6. RunsAreInitialized'
    <3>1. \A q \in Processes : node'[q].active = node[q].active
      BY <1>0, <2>1 DEF KInv, KeyTypes
    <3> QED
      BY <2>4, <3>1 DEF KInv, RunsAreInitialized, Initialized
  <2> QED
    BY <1>0, <2>2, <2>3, <2>4, <2>5, <2>6 DEF KInv, KeyTypes, ActiveKeysAreStored, Stored
<1>3. ASSUME BeginRotation(p) \/ RotationFails(p)
      PROVE  KInv'
  <2>1. UNCHANGED <<keys, node, worker, record>>
    BY <1>3 DEF BeginRotation, RotationFails
  <2>2. rotation' \in [Processes -> {NoRotation} \union [next : Versions, dek : Deks]]
    <3>1. rotation \in [Processes -> {NoRotation} \union [next : Versions, dek : Deks]]
      BY DEF KInv, KeyTypes
    <3>2. \A v \in Versions, d \in Deks : [next |-> v, dek |-> d] \in [next : Versions, dek : Deks]
      OBVIOUS
    <3>3. CASE BeginRotation(p)
      <4>1. PICK v \in Versions, d \in Deks : rotation' = [rotation EXCEPT ![p] = [next |-> v, dek |-> d]]
        BY <3>3 DEF BeginRotation
      <4> QED
        BY <3>1, <3>2, <4>1
    <3>4. CASE RotationFails(p)
      BY <3>1, <3>4 DEF RotationFails
    <3> QED
      BY <1>3, <3>3, <3>4
  <2> QED
    BY <2>1, <2>2 DEF KInv, KeyTypes, ActiveKeysAreStored, Stored, ActiveIsCached, CacheIsStored, StagedReadable,
                      Readable, RunsAreInitialized, Initialized
<1>4. ASSUME ProcessRestarts(p)
      PROVE  KInv'
  <2>1. /\ keys' = keys /\ record' = record
        /\ rotation' \in [Processes -> {NoRotation} \union [next : Versions, dek : Deks]]
    BY <1>4 DEF ProcessRestarts, KInv, KeyTypes
  <2>2. /\ ColdNode \in [active : {0} \union Versions, cache : [Versions -> {0} \union Deks], first : {0} \union Deks]
        /\ ColdNode.active = 0 /\ \A v \in Versions : ColdNode.cache[v] = 0
    BY DEF ColdNode
  <2>3. /\ node' \in [Processes -> [active : {0} \union Versions, cache : [Versions -> {0} \union Deks],
                                    first : {0} \union Deks]]
        /\ node'[p] = ColdNode /\ \A q \in Processes : q # p => node'[q] = node[q]
    BY <1>4, <2>2 DEF ProcessRestarts, KInv, KeyTypes
  <2>4. ActiveIsCached' /\ CacheIsStored'
    BY <2>1, <2>2, <2>3 DEF KInv, ActiveIsCached, CacheIsStored
  <2>5. /\ worker' = [q \in Processes |-> worker'[q]] /\ worker'[p] = NotRunning
        /\ \A q \in Processes : q # p => worker'[q] = worker[q]
    BY <1>0, <1>4 DEF ProcessRestarts
  <2>6. StagedReadable' /\ \A r \in Records : Readable(record[r])'
    BY <2>1, <2>5, ColumnsStayReadable DEF NotRunning
  <2>7. RunsAreInitialized'
    BY <2>3, <2>5 DEF KInv, RunsAreInitialized, Initialized, NotRunning
  <2> QED
    BY <1>0, <2>1, <2>3, <2>4, <2>5, <2>6, <2>7 DEF KInv, KeyTypes, ActiveKeysAreStored, Stored
<1> QED
  BY <1>1, <1>2, <1>3, <1>4

\* The worker writes what it has encrypted under the key its process has cached.
LEMMA WorkerStepsKeepInvariant ==
  ASSUME KInv, NEW p \in Processes,
         StartWorker(p) \/ CountRemaining(p) \/ TakeBatch(p) \/ ReencryptItem(p) \/ CommitBatch(p) \/ BatchFails(p)
  PROVE  KInv'
<1>0. UNCHANGED <<keys, node, rotation>> /\ worker = [q \in Processes |-> worker[q]]
  BY DEF StartWorker, CountRemaining, TakeBatch, ReencryptItem, CommitBatch, BatchFails, KInv, KeyTypes
<1>1. ASSUME record' \in [Records -> Columns], worker' = [q \in Processes |-> worker'[q]], RunsAreInitialized',
             StagedReadable', \A r \in Records : Readable(record'[r])
      PROVE  KInv'
  BY <1>0, <1>1 DEF KInv, KeyTypes, ActiveKeysAreStored, Stored, ActiveIsCached, CacheIsStored, Readable
<1>2. ASSUME StartWorker(p) \/ CountRemaining(p) \/ BatchFails(p)
      PROVE  KInv'
  <2>1. /\ record' = record /\ worker' = [q \in Processes |-> worker'[q]] /\ worker'[p].at # "batch"
        /\ (worker'[p].at = "next" => Initialized(p)) /\ \A q \in Processes : q # p => worker'[q] = worker[q]
    BY <1>0, <1>2 DEF StartWorker, CountRemaining, BatchFails, NotRunning
  <2>2. RunsAreInitialized'
    BY <1>0, <2>1 DEF KInv, RunsAreInitialized, Initialized
  <2>3. StagedReadable' /\ \A r \in Records : Readable(record[r])'
    BY <1>0, <2>1, ColumnsStayReadable
  <2> QED
    BY <1>1, <2>1, <2>2, <2>3 DEF KInv, KeyTypes, Readable
<1>3. ASSUME TakeBatch(p) \/ ReencryptItem(p)
      PROVE  KInv'
  <2>1. Initialized(p) /\ record' = record
    BY <1>3 DEF TakeBatch, ReencryptItem, KInv, RunsAreInitialized
  <2>2. /\ worker' = [q \in Processes |-> worker'[q]] /\ \A q \in Processes : q # p => worker'[q] = worker[q]
        /\ worker'[p].at = "batch" =>
             /\ worker'[p].rows \subseteq Records
             /\ worker'[p].staged = [r \in worker'[p].rows |-> worker'[p].staged[r]]
             /\ \A r \in worker'[p].rows : worker'[p].staged[r] \in Columns /\ Readable(worker'[p].staged[r])
    <3>1. CASE TakeBatch(p)
      <4>1. PICK rows \in SUBSET Remaining(worker[p].version) :
              worker' = [worker EXCEPT ![p] =
                IF rows = {} THEN NotRunning
                ELSE [at |-> "batch", version |-> worker[p].version, outrun |-> worker[p].outrun,
                      rows |-> rows, todo |-> rows, staged |-> [r \in rows |-> record[r]]]]
        BY <3>1 DEF TakeBatch
      <4>2. rows \subseteq Records
        BY DEF Remaining
      <4>3. \A r \in rows : record[r] \in Columns /\ Readable(record[r])
        BY <4>2 DEF KInv, KeyTypes
      <4>4. CASE rows = {}
        BY <1>0, <4>1, <4>4 DEF NotRunning
      <4>5. CASE rows # {}
        BY <1>0, <4>1, <4>2, <4>3, <4>5
      <4> QED
        BY <4>4, <4>5
    <3>2. CASE ReencryptItem(p)
      <4> DEFINE run == worker[p]
                 r == CHOOSE x \in run.todo : TRUE
                 done == [run EXCEPT !.todo = @ \ {r}, !.staged[r] = Encrypted(p),
                                     !.outrun = @ \/ node[p].active # run.version]
                 left == [run EXCEPT !.todo = @ \ {r}]
      <4>1. worker'[p] \in {done, left} /\ run.at = "batch"
        BY <1>0, <3>2 DEF ReencryptItem
      <4>2. /\ run.rows \subseteq Records /\ run.staged = [x \in run.rows |-> run.staged[x]]
            /\ \A x \in run.rows : run.staged[x] \in Columns /\ Readable(run.staged[x])
        BY <4>1 DEF KInv, StagedReadable
      <4>3. Encrypted(p) \in Columns /\ Readable(Encrypted(p))
        BY <2>1, EncryptedIsReadable
      <4>4. left.rows = run.rows /\ left.staged = run.staged
        OBVIOUS
      <4>5. done.rows = run.rows /\ done.staged = [run.staged EXCEPT ![r] = Encrypted(p)]
        OBVIOUS
      <4>6. worker' = [q \in Processes |-> worker'[q]] /\ \A q \in Processes : q # p => worker'[q] = worker[q]
        BY <1>0, <3>2 DEF ReencryptItem
      <4> HIDE DEF done, left, r
      <4>7. CASE worker'[p] = left
        BY <4>2, <4>4, <4>6, <4>7
      <4>8. CASE worker'[p] = done
        <5>1. \A x \in run.rows : done.staged[x] \in {run.staged[x], Encrypted(p)}
          BY <4>2, <4>5
        <5>2. done.staged = [x \in run.rows |-> done.staged[x]]
          BY <4>2, <4>5
        <5> QED
          BY <4>2, <4>3, <4>5, <4>6, <4>8, <5>1, <5>2
      <4> QED
        BY <4>1, <4>7, <4>8
    <3> QED
      BY <1>3, <3>1, <3>2
  <2>3. RunsAreInitialized'
    BY <1>0, <2>1, <2>2 DEF KInv, RunsAreInitialized, Initialized
  <2>4. StagedReadable'
    BY <1>0, <2>2 DEF KInv, StagedReadable, Readable
  <2> QED
    BY <1>1, <2>1, <2>2, <2>3, <2>4 DEF KInv, KeyTypes
<1>4. ASSUME CommitBatch(p)
      PROVE  KInv'
  <2>1. /\ worker[p].at = "batch" /\ worker' = [q \in Processes |-> worker'[q]]
        /\ record' = [r \in Records |-> IF r \in worker[p].rows THEN worker[p].staged[r] ELSE record[r]]
    BY <1>0, <1>4 DEF CommitBatch
  <2>2. \A r \in Records : record'[r] \in Columns /\ Readable(record'[r])
    BY <2>1 DEF KInv, KeyTypes, StagedReadable
  <2>3. /\ worker'[p].at \in {"idle", "next"}
        /\ \A q \in Processes : q # p /\ worker'[q].at \in {"next", "batch"} =>
             /\ worker[q].at = worker'[q].at
             /\ worker'[q].at = "batch" => worker'[q].rows = worker[q].rows /\ worker'[q].staged = worker[q].staged
    <3>1. \A q \in Processes : worker'[q] =
            IF q = p
            THEN IF LastBatch(worker[p].rows) THEN NotRunning
                 ELSE [at |-> "next", version |-> worker[p].version, outrun |-> worker[p].outrun]
            ELSE IF worker[q].at \in {"next", "batch"}
            THEN [worker[q] EXCEPT !.outrun = @ \/ worker[p].outrun \/ worker[q].version # worker[p].version]
            ELSE worker[q]
      BY <1>4 DEF CommitBatch
    <3>2. worker'[p].at \in {"idle", "next"}
      <4> DEFINE next == [at |-> "next", version |-> worker[p].version, outrun |-> worker[p].outrun]
      <4>1. NotRunning.at = "idle" /\ next.at = "next"
        BY DEF NotRunning
      <4>2. worker'[p] \in {NotRunning, next}
        BY <3>1
      <4> HIDE DEF next
      <4> QED
        BY <4>1, <4>2
    <3>3. ASSUME NEW q \in Processes, q # p, worker'[q].at \in {"next", "batch"}
          PROVE  worker'[q].at = worker[q].at /\ worker'[q].rows = worker[q].rows /\ worker'[q].staged = worker[q].staged
      <4> DEFINE told == [worker[q] EXCEPT !.outrun = @ \/ worker[p].outrun \/ worker[q].version # worker[p].version]
      <4>1. told.at = worker[q].at /\ told.rows = worker[q].rows /\ told.staged = worker[q].staged
        OBVIOUS
      <4>2. worker'[q] \in {told, worker[q]}
        BY <3>1, <3>3
      <4> HIDE DEF told
      <4> QED
        BY <4>1, <4>2
    <3> QED
      BY <3>2, <3>3
  <2>4. RunsAreInitialized'
    BY <1>0, <2>1, <2>3 DEF KInv, RunsAreInitialized, Initialized
  <2>5. StagedReadable'
    BY <1>0, <2>1, <2>3 DEF KInv, StagedReadable, Readable
  <2> QED
    BY <1>1, <2>1, <2>2, <2>4, <2>5
<1> QED
  BY <1>2, <1>3, <1>4

\* The invariant holds throughout.
THEOREM KeysAreKept == KeyRotationSpec => []KInv
<1>1. KeyRotationInit => KInv
  <2> SUFFICES ASSUME KeyRotationInit PROVE KInv
    OBVIOUS
  <2>1. \A r \in Records : record[r] \in Columns /\ record[r].form # "cipher"
    BY DEF KeyRotationInit, Columns
  <2>2. record \in [Records -> Columns]
    BY <2>1 DEF KeyRotationInit
  <2>3. KeyTypes
    BY <2>2 DEF KeyRotationInit, KeyTypes, NoKey, ColdNode, NoRotation
  <2> QED
    BY <2>1, <2>3 DEF KeyRotationInit, KInv, ActiveKeysAreStored, Stored, ActiveIsCached, CacheIsStored,
                      StagedReadable, RunsAreInitialized, Readable, NoKey, ColdNode, NotRunning
<1>2. KInv /\ [KeyRotationNext]_keyRotationVars => KInv'
  <2>1. KInv /\ UNCHANGED keyRotationVars => KInv'
    BY DEF keyRotationVars, KInv, KeyTypes, ActiveKeysAreStored, Stored, ActiveIsCached, CacheIsStored, StagedReadable,
           Readable, RunsAreInitialized, Initialized
  <2> QED
    BY <2>1, KeyStepsKeepInvariant, WorkerStepsKeepInvariant DEF KeyRotationNext, WorkerSteps
<1> QED
  BY <1>1, <1>2, PTL DEF KeyRotationSpec

\* Nothing is ever encrypted under a key that could be lost, for any number of processes,
\* versions and records.
THEOREM NothingBecomesUnreadable == KeyRotationSpec => []EverythingReadable
<1>1. KInv => EverythingReadable
  BY DEF KInv, CacheIsStored, Readable, EverythingReadable
<1> QED
  BY <1>1, KeysAreKept, PTL

=============================================================================
