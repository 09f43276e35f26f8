----------------------------- MODULE MCBackoffice -----------------------------
(***************************************************************************)
(* Instance of what accounts and staff meet, for TLC: Sessions, UserAdmin, *)
(* Finance, Reviews and Notifications.  They share no column that both     *)
(* write, so a behaviour exercises one of them ("focus") and the others    *)
(* rest in their initial state.                                            *)
(***************************************************************************)
EXTENDS Sessions, UserAdmin, Finance, Reviews, Notifications, TLC

VARIABLE focus

Symmetry == Permutations(Clients) \union Permutations(Texts)

MCDays == 1..2
At(d, m) == [day |-> d, moment |-> m]
Order(placed, status, cancelled, refunded, refunds) ==
  [placed |-> placed, paymentStatus |-> status, cancelled |-> cancelled,
   refunded |-> refunded, refunds |-> refunds, subtotal |-> 10, discount |-> 2, shipping |-> 3, cost |-> 4]
MCSale == "paid" :> Order(At(1, 2), "PAID", FALSE, At(1, 2), 0) @@ "unpaid" :> Order(At(2, 1), "PENDING", FALSE, At(2, 1), 0)
       @@ "back" :> Order(At(1, 1), "REFUNDED", TRUE, At(1, 2), 11) @@ "first" :> Order(At(2, 0), "REFUNDED", TRUE, At(2, 0), 5)

backofficeVars == <<sessionsVars, userAdminVars, financeVars, reviewsVars, notificationsVars, focus>>

BackofficeInit ==
  /\ focus \in {"sessions", "users", "finance", "reviews", "notifications"}
  /\ SessionsInit /\ UserAdminInit /\ FinanceInit /\ ReviewsInit /\ NotificationsInit
  /\ focus = "sessions" \/ \A u \in Accounts : account[u] = Seeded
  /\ focus = "finance" \/ \A c \in Categories : category[c] = "active"

BackofficeNext ==
  \/ focus = "sessions" /\ SessionsNext
       /\ UNCHANGED <<userAdminVars, financeVars, reviewsVars, notificationsVars, focus>>
  \/ focus = "users" /\ UserAdminNext
       /\ UNCHANGED <<sessionsVars, financeVars, reviewsVars, notificationsVars, focus>>
  \/ focus = "finance" /\ FinanceNext
       /\ UNCHANGED <<sessionsVars, userAdminVars, reviewsVars, notificationsVars, focus>>
  \/ focus = "reviews" /\ ReviewsNext
       /\ UNCHANGED <<sessionsVars, userAdminVars, financeVars, notificationsVars, focus>>
  \/ focus = "notifications" /\ NotificationsNext
       /\ UNCHANGED <<sessionsVars, userAdminVars, financeVars, reviewsVars, focus>>

BackofficeSpec == BackofficeInit /\ [][BackofficeNext]_backofficeVars

\* The variables of the back office's modules (auth, users, expenses and finance,
\* reviews, notifications) keep their types.
BackofficeTypeOK ==
  SessionsTypeOK /\ UserAdminTypeOK /\ FinanceTypeOK /\ ReviewsTypeOK /\ NotificationsTypeOK
=============================================================================
