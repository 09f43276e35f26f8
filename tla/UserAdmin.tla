------------------------------ MODULE UserAdmin ------------------------------
(***************************************************************************)
(* user.service behind authenticate and authorize: who may change the      *)
(* status and the roles of whom.  The sender is checked first, its target  *)
(* is read then and written last, so administrators who act on each other  *)
(* at the same time may each act on an authority the other one just took.  *)
(***************************************************************************)
EXTENDS FiniteSets

CONSTANTS Members,         \* bound: users of one behaviour
          Administrator,   \* the user the seeder creates
          Desks,           \* administrative requests in flight at the same time
          Statuses,        \* bound: statuses of users.status a behaviour uses
          RoleLists        \* bound: the role sets that requests ask for

ASSUME UserAdminAssumption ==
  /\ Administrator \in Members
  /\ "ACTIVE" \in Statuses
  /\ Statuses \subseteq {"ACTIVE", "INACTIVE", "SUSPENDED", "PENDING_VERIFICATION"}

Roles == {"admin", "staff", "customer"}
ASSUME RoleListsAssumption == RoleLists \subseteq (SUBSET Roles) \ {{}}

VARIABLES member,   \* per user: status and whether the row exists and is not deleted
          roles,    \* per user: its rows of user_roles
          desk,     \* per request: the step it is at
          lapsed    \* history: some write was made by a user that had lost its authority

userAdminVars == <<member, roles, desk, lapsed>>

Absent == "ABSENT"      \* no row yet
Removed == "DELETED"    \* users is paranoid: the row stays, finders skip it

\* role_permissions of the seeder, for the permissions of these routes ('admin' is '*').
Grants(role) ==
  CASE role = "admin" -> {"users:create", "users:update", "users:delete"}
    [] role = "staff" -> {"users:update"}
    [] OTHER -> {}

StatusRequests == [permission : {"users:update"}, op : {"status"}, to : Statuses]
RoleRequests == [permission : {"users:update"}, op : {"roles"}, list : RoleLists]
RemovalRequests == [permission : {"users:delete"}, op : {"remove"}]
NewUserRequests == [permission : {"users:create"}, op : {"create"}, list : RoleLists]
UserRequests == StatusRequests \union RoleRequests \union RemovalRequests \union NewUserRequests

Free == [at |-> "free"]
Handled(steps) ==
  [at : steps, actor : Members, target : Members, request : UserRequests,
   copy : Statuses \union {Absent},   \* the target's status as it was read
   held : SUBSET Roles,               \* its rows of user_roles as setRoles read them
   left : SUBSET {"drop", "grant"}]   \* the statements setRoles has still to run

UserAdminTypeOK ==
  /\ member \in [Members -> Statuses \union {Absent, Removed}]
  /\ roles \in [Members -> SUBSET Roles]
  /\ desk \in [Desks -> {Free} \union Handled({"authorize", "read", "write", "assign"})]
  /\ lapsed \in BOOLEAN

\* The seeder: one active administrator; everybody else registers later.
UserAdminInit ==
  /\ member = [m \in Members |-> IF m = Administrator THEN "ACTIVE" ELSE Absent]
  /\ roles = [m \in Members |-> IF m = Administrator THEN {"admin"} ELSE {}]
  /\ desk = [d \in Desks |-> Free]
  /\ lapsed = FALSE

Visible(m) == member[m] \in Statuses

\* authorize with the roles the database holds now.
Permitted(m, permission) == \E role \in roles[m] : permission \in Grants(role)
May(m, permission) == member[m] = "ACTIVE" /\ Permitted(m, permission)

-----------------------------------------------------------------------------

\* The access token names the user; its row must be there and active.
Authenticate(d) ==
  /\ desk[d] = Free
  /\ \E actor, target \in Members, request \in UserRequests :
       /\ member[actor] = "ACTIVE"
       /\ desk' = [desk EXCEPT ![d] =
            [at |-> "authorize", actor |-> actor, target |-> target, request |-> request,
             copy |-> Absent, held |-> {}, left |-> {}]]
  /\ UNCHANGED <<member, roles, lapsed>>

Leaves(d) == desk' = [desk EXCEPT ![d] = Free]

\* Permissions are read from the database, once per request.
Authorize(d) ==
  /\ desk[d].at = "authorize"
  /\ IF Permitted(desk[d].actor, desk[d].request.permission)
     THEN desk' = [desk EXCEPT ![d].at = "read"]
     ELSE Leaves(d)
  /\ UNCHANGED <<member, roles, lapsed>>

\* (Slip: administrators may act on themselves.)
Forbidden_Nobody(actor, target) == FALSE

\* You cannot change your own status or roles, or delete your own account.
Forbidden(actor, target) == actor = target

\* The handler reads its target; a new user's address must be free.
ReadTarget(d) ==
  LET m == desk[d].target
      ok == IF desk[d].request.op = "create" THEN member[m] = Absent
            ELSE Visible(m) /\ ~Forbidden(desk[d].actor, m)
  IN
  /\ desk[d].at = "read"
  /\ IF ok THEN desk' = [desk EXCEPT ![d].at = "write", ![d].copy = member[m]] ELSE Leaves(d)
  /\ UNCHANGED <<member, roles, lapsed>>

Overruled(d) == lapsed \/ ~May(desk[d].actor, desk[d].request.permission)

Writing(d, op) ==
  /\ desk[d].at = "write" /\ desk[d].request.op = op
  /\ desk' = [desk EXCEPT ![d] = Free]
  /\ lapsed' = Overruled(d)

\* Through the copy: a status that it shows already is not written.  A row deleted in
\* between keeps its deletedAt: its status is of no consequence.
ChangeMemberStatus(d) ==
  LET to == desk[d].request.to IN
  /\ Writing(d, "status")
  /\ member' = [member EXCEPT ![desk[d].target] = IF @ = Removed \/ to = desk[d].copy THEN @ ELSE to]
  /\ UNCHANGED roles

\* setRoles has no transaction: it reads the rows again, and then deletes those that are
\* too many and inserts those that lack in statements that run side by side.
Superfluous(d) == desk[d].held \ desk[d].request.list
Lacking(d) == desk[d].request.list \ desk[d].held

ReadRoles(d) ==
  LET held == roles[desk[d].target]
      left == {part \in {"drop", "grant"} :
                 IF part = "drop" THEN ~(held \subseteq desk[d].request.list) ELSE ~(desk[d].request.list \subseteq held)}
  IN
  /\ desk[d].at = "write" /\ desk[d].request.op = "roles"
  /\ IF left = {} THEN Leaves(d)
     ELSE desk' = [desk EXCEPT ![d].at = "assign", ![d].held = held, ![d].left = left]
  /\ UNCHANGED <<member, roles, lapsed>>

Runs(d, part) ==
  /\ desk[d].at = "assign" /\ part \in desk[d].left
  /\ IF desk[d].left = {part} THEN Leaves(d) ELSE desk' = [desk EXCEPT ![d].left = @ \ {part}]
  /\ lapsed' = Overruled(d)
  /\ UNCHANGED member

DropRoles(d) ==
  /\ Runs(d, "drop")
  /\ roles' = [roles EXCEPT ![desk[d].target] = @ \ Superfluous(d)]

\* One statement for all rows: if somebody else has inserted one, the unique key refuses
\* them all.
GrantRoles(d) ==
  /\ Runs(d, "grant")
  /\ roles' = [roles EXCEPT ![desk[d].target] = IF Lacking(d) \intersect @ = {} THEN @ \union Lacking(d) ELSE @]

\* The process dies, or a statement fails: setRoles may leave a user without roles.
AdminRequestDies(d) ==
  /\ desk[d] # Free
  /\ desk' = [desk EXCEPT ![d] = Free]
  /\ UNCHANGED <<member, roles, lapsed>>

RemoveUser(d) ==
  /\ Writing(d, "remove")
  /\ member' = [member EXCEPT ![desk[d].target] = Removed]
  /\ UNCHANGED roles

\* One transaction; users.email is unique, so a second creation is rolled back.
CreateUser(d) ==
  LET m == desk[d].target IN
  /\ Writing(d, "create")
  /\ IF member[m] = Absent
     THEN /\ \E status \in Statuses \ {"SUSPENDED"} : member' = [member EXCEPT ![m] = status]
          /\ roles' = [roles EXCEPT ![m] = desk[d].request.list]
     ELSE UNCHANGED <<member, roles>>

\* auth.register: anybody may open a customer account.
RegisterCustomer(m) ==
  /\ member[m] = Absent
  /\ member' = [member EXCEPT ![m] = "ACTIVE"]
  /\ roles' = [roles EXCEPT ![m] = {"customer"}]
  /\ UNCHANGED <<desk, lapsed>>

\* scripts/reset_admin.js, run by hand.
ResetAdmin ==
  /\ Visible(Administrator)
  /\ member' = [member EXCEPT ![Administrator] = "ACTIVE"]
  /\ UNCHANGED <<roles, desk, lapsed>>

UserAdminNext ==
  \/ \E d \in Desks :
       \/ Authenticate(d) \/ Authorize(d) \/ ReadTarget(d)
       \/ ChangeMemberStatus(d) \/ RemoveUser(d) \/ CreateUser(d)
       \/ ReadRoles(d) \/ DropRoles(d) \/ GrantRoles(d) \/ AdminRequestDies(d)
  \/ \E m \in Members : RegisterCustomer(m)
  \/ ResetAdmin

UserAdminSpec == UserAdminInit /\ [][UserAdminNext]_userAdminVars

-----------------------------------------------------------------------------

\* The platform never locks itself out: some active user can still administer the
\* others, because nobody may demote, suspend or delete himself (user.service.js:74, 86
\* and 99), even when a change of roles stops halfway.  The exception is a write by
\* somebody who lost his own authority between authorize and the write, as two
\* administrators acting on each other do.
SomebodyAdministers == lapsed \/ \E m \in Members : May(m, "users:update")
=============================================================================
