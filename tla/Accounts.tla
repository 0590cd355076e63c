------------------------------- MODULE Accounts -------------------------------
(***************************************************************************)
(* Accounts and roles: registration (AuthService), and the administration  *)
(* of users and roles (user_handler, role_handler).                        *)
(*                                                                         *)
(* Each handler is a sequence of autocommitted statements.  Registration   *)
(* checks the e-mail, checks the username, inserts the user, looks up the  *)
(* default role and assigns it.  Edits read a row, check the new names and *)
(* write the whole row back.  Only the constraints of the tables, partial  *)
(* unique indexes and foreign keys, see what happened in between.          *)
(* The administrators who make the requests are not among Users.           *)
(***************************************************************************)
EXTENDS Naturals, FiniteSets

CONSTANTS
  Users,     \* rows of users (bound)
  Roles,     \* rows of roles (bound)
  SystemName,  \* the rows migration 8 inserts and their names: the system roles
  UserRole,    \* the one of them named DefaultName
  Emails, Names, RoleNames, DefaultName,
  Lower,     \* the SQL function LOWER on e-mails, usernames and role names
  Forms,     \* <<e-mail, username>> pairs people register with
  Patches,   \* bodies of PUT /admin/users/{id}; a field left out is None
  Requests,  \* requests that can be in flight at once (bound)
  None

ASSUME DataAssumption ==
  /\ DOMAIN SystemName \subseteq Roles
  /\ SystemName \in [DOMAIN SystemName -> RoleNames]
  /\ UserRole \in DOMAIN SystemName /\ SystemName[UserRole] = DefaultName
  /\ Lower \in [Emails \cup Names \cup RoleNames -> Emails \cup Names \cup RoleNames]
  /\ \A e \in Emails : Lower[e] \in Emails
  /\ Forms \subseteq Emails \X Names
  /\ Patches \subseteq [email : Emails \cup {None}, name : Names \cup {None},
                        active : BOOLEAN \cup {None}]
  /\ \A x \in DOMAIN SystemName :
       x # UserRole => Lower[SystemName[x]] # Lower[DefaultName]

UserRows == [email : Emails, name : Names, active : BOOLEAN, deleted : BOOLEAN]

ASSUME NoneAssumption ==
  /\ None \notin UserRows \cup Users \cup Roles \cup Emails \cup Names \cup RoleNames
  /\ None \notin BOOLEAN

VARIABLES
  users,       \* [Users -> UserRows \cup {None}]
  roles,       \* [Roles -> RoleNames \cup {None}]: the names of the roles
  has,         \* [Users -> SUBSET Roles]: user_roles
  registered,  \* history: users whose registration was answered with success
  req          \* the requests in flight and their locals

vars == <<users, roles, has, registered, req>>

Idle == [at |-> "idle"]
Registering(at, row) == [at |-> at, row |-> row]
OnUser(at, u) == [at |-> at, user |-> u]
OnRole(at, x) == [at |-> at, role |-> x]
OnBoth(at, u, x) == [at |-> at, user |-> u, role |-> x]
Updating(at, u, row, patch) == [at |-> at, user |-> u, row |-> row, patch |-> patch]
Creating(n) == [at |-> "role_insert", name |-> n]
Naming(at, x, n) == [at |-> at, role |-> x, name |-> n]

Locals ==
  {Idle}
  \cup [at : {"reg_name", "reg_insert"}, row : UserRows]
  \cup [at : {"reg_role", "delete", "restore"}, user : Users]
  \cup [at : {"reg_assign", "assign_role", "assign", "remove_role", "remove"},
        user : Users, role : Roles]
  \cup [at : {"upd_email", "upd_name", "upd_write"}, user : Users, row : UserRows,
        patch : Patches]
  \cup [at : {"role_insert"}, name : RoleNames]
  \cup [at : {"role_name", "role_write"}, role : Roles, name : RoleNames]
  \cup [at : {"role_delete"}, role : Roles]

\* Nobody holds a role that is gone, not even by an assignment that was
\* checked before the role was deleted.
RolesHeldExist == \A u \in Users, x \in Roles : x \in has[u] => roles[x] # None

Typed ==
  /\ users \in [Users -> UserRows \cup {None}]
  /\ roles \in [Roles -> RoleNames \cup {None}]
  /\ has \in [Users -> SUBSET Roles]
  /\ registered \subseteq Users
  /\ req \in [Requests -> Locals]

TypeOK == Typed /\ RolesHeldExist

Init ==
  /\ users = [u \in Users |-> None]
  /\ roles = [x \in Roles |-> IF x \in DOMAIN SystemName THEN SystemName[x] ELSE None]
  /\ has = [u \in Users |-> {}]
  /\ registered = {}
  /\ req = [r \in Requests |-> Idle]

-----------------------------------------------------------------------------
(***************************************************************************)
(* The tables.  As in the other modules, a definition whose name extends   *)
(* that of the one after it is the same code with a plausible mistake.     *)
(***************************************************************************)
Present(u) == users[u] # None /\ ~users[u].deleted

LiveUsers == {u \in Users : Present(u)}

EmailExists(e) == \E u \in LiveUsers : Lower[users[u].email] = Lower[e]
UsernameExists(n) == \E u \in LiveUsers : Lower[users[u].name] = Lower[n]

\* The unique indexes on LOWER(email) and LOWER(username) of undeleted rows.
IndexesAllowExactMatch(u, row) ==
  row.deleted \/ \A v \in LiveUsers \ {u} :
                   users[v].email # row.email /\ users[v].name # row.name
IndexesAllow(u, row) ==
  row.deleted \/ \A v \in LiveUsers \ {u} :
                   /\ Lower[users[v].email] # Lower[row.email]
                   /\ Lower[users[v].name] # Lower[row.name]

\* find_by_name ignores case; the constraint on roles.name does not.
Named(n) == {x \in Roles : roles[x] # None /\ Lower[roles[x]] = Lower[n]}
NameIsFree(x, n) == \A y \in Roles \ {x} : roles[y] # n

EditableAnyRole(x) == roles[x] # None
Editable(x) == roles[x] # None /\ x \notin DOMAIN SystemName

RemovableAnyRole(x) == roles[x] # None
Removable(x) == roles[x] # None /\ x \notin DOMAIN SystemName

Account(e, n, a, d) == [email |-> e, name |-> n, active |-> a, deleted |-> d]

Marked(row, d) == Account(row.email, row.name, row.active, d)

\* Fields a PUT body leaves out keep the value that was read.
Given(new, old) == IF new = None THEN old ELSE new

MergedActivating(row, patch) ==
  Account(Given(patch.email, row.email), Given(patch.name, row.name),
          Given(patch.active, TRUE), row.deleted)
Merged(row, patch) ==
  Account(Given(patch.email, row.email), Given(patch.name, row.name),
          Given(patch.active, row.active), row.deleted)

Continue(r, local) == req' = [req EXCEPT ![r] = local]

\* A check passed, or the request ends with an error.
ContinueIf(check, r, local) == Continue(r, IF check THEN local ELSE Idle)

Finish(r) == Continue(r, Idle)

ReadOnly == UNCHANGED <<users, roles, has, registered>>

-----------------------------------------------------------------------------
(***************************************************************************)
(* register.  The e-mail is stored in lower case, the username as typed.   *)
(***************************************************************************)
RegisterEmail(r, f) ==
  /\ req[r] = Idle
  /\ ~EmailExists(f[1])
  /\ Continue(r, Registering("reg_name", Account(Lower[f[1]], f[2], TRUE, FALSE)))
  /\ ReadOnly

RegisterName(r) ==
  /\ req[r].at = "reg_name"
  /\ ContinueIf(~UsernameExists(req[r].row.name), r,
                Registering("reg_insert", req[r].row))
  /\ ReadOnly

RegisterInsert(r, u) ==
  LET row == req[r].row IN
  /\ req[r].at = "reg_insert"
  /\ users[u] = None
  /\ users' = IF IndexesAllow(u, row) THEN [users EXCEPT ![u] = row] ELSE users
  /\ ContinueIf(IndexesAllow(u, row), r, OnUser("reg_role", u))
  /\ UNCHANGED <<roles, has, registered>>

RegisterRole(r) ==
  /\ req[r].at = "reg_role"
  /\ \/ \E x \in Named(DefaultName) : Continue(r, OnBoth("reg_assign", req[r].user, x))
     \/ Named(DefaultName) = {} /\ Finish(r)
  /\ ReadOnly

\* INSERT INTO user_roles; the foreign key refuses a role that is gone.
Give(u, x) ==
  has' = IF roles[x] = None THEN has ELSE [has EXCEPT ![u] = @ \cup {x}]

RegisterAssign(r) ==
  LET q == req[r] IN
  /\ q.at = "reg_assign"
  /\ Give(q.user, q.role)
  /\ registered' = IF roles[q.role] = None THEN registered ELSE registered \cup {q.user}
  /\ Finish(r)
  /\ UNCHANGED <<users, roles>>

-----------------------------------------------------------------------------
(***************************************************************************)
(* update_user, delete_user, restore_user.                                 *)
(***************************************************************************)
UpdateFind(r, u, patch) ==
  /\ req[r] = Idle
  /\ Present(u)
  /\ Continue(r, Updating("upd_email", u, users[u], patch))
  /\ ReadOnly

UpdateEmail(r) ==
  LET q == req[r] IN
  /\ q.at = "upd_email"
  /\ ContinueIf(q.patch.email \in {None, q.row.email} \/ ~EmailExists(q.patch.email),
                r, Updating("upd_name", q.user, q.row, q.patch))
  /\ ReadOnly

UpdateName(r) ==
  LET q == req[r] IN
  /\ q.at = "upd_name"
  /\ ContinueIf(q.patch.name \in {None, q.row.name} \/ ~UsernameExists(q.patch.name),
                r, Updating("upd_write", q.user, q.row, q.patch))
  /\ ReadOnly

\* The UPDATE sets every column but deleted_at, of a deleted row as well.
UpdateWrite(r) ==
  LET u == req[r].user
      row == Marked(Merged(req[r].row, req[r].patch), users[u].deleted)
  IN
  /\ req[r].at = "upd_write"
  /\ users' = IF IndexesAllow(u, row) THEN [users EXCEPT ![u] = row] ELSE users
  /\ Finish(r)
  /\ UNCHANGED <<roles, has, registered>>

DeleteFind(r, u) ==
  /\ req[r] = Idle
  /\ Present(u)
  /\ Continue(r, OnUser("delete", u))
  /\ ReadOnly

DeleteWrite(r) ==
  /\ req[r].at = "delete"
  /\ users' = [users EXCEPT ![req[r].user] = Marked(@, TRUE)]
  /\ Finish(r)
  /\ UNCHANGED <<roles, has, registered>>

RestoreFind(r, u) ==
  /\ req[r] = Idle
  /\ users[u] # None /\ users[u].deleted
  /\ Continue(r, OnUser("restore", u))
  /\ ReadOnly

RestoreWrite(r) ==
  LET u == req[r].user
      row == Marked(users[u], FALSE)
  IN
  /\ req[r].at = "restore"
  /\ users' = IF IndexesAllow(u, row) THEN [users EXCEPT ![u] = row] ELSE users
  /\ Finish(r)
  /\ UNCHANGED <<roles, has, registered>>

-----------------------------------------------------------------------------
(***************************************************************************)
(* Roles: create_role, update_role, delete_role.                           *)
(***************************************************************************)
RoleCreateFind(r, n) ==
  /\ req[r] = Idle
  /\ Named(n) = {}
  /\ Continue(r, Creating(n))
  /\ ReadOnly

RoleCreate(r, x) ==
  LET n == req[r].name IN
  /\ req[r].at = "role_insert"
  /\ roles[x] = None
  /\ roles' = IF NameIsFree(x, n) THEN [roles EXCEPT ![x] = n] ELSE roles
  /\ Finish(r)
  /\ UNCHANGED <<users, has, registered>>

RoleUpdateFind(r, x, n) ==
  /\ req[r] = Idle
  /\ Editable(x)
  /\ Continue(r, Naming(IF n = roles[x] THEN "role_write" ELSE "role_name", x, n))
  /\ ReadOnly

RoleUpdateName(r) ==
  LET q == req[r] IN
  /\ q.at = "role_name"
  /\ ContinueIf(Named(q.name) = {}, r, Naming("role_write", q.role, q.name))
  /\ ReadOnly

RoleUpdate(r) ==
  LET x == req[r].role
      n == req[r].name
  IN
  /\ req[r].at = "role_write"
  /\ roles' = IF roles[x] # None /\ NameIsFree(x, n) THEN [roles EXCEPT ![x] = n]
                                                     ELSE roles
  /\ Finish(r)
  /\ UNCHANGED <<users, has, registered>>

RoleDeleteFind(r, x) ==
  /\ req[r] = Idle
  /\ Editable(x)
  /\ Continue(r, OnRole("role_delete", x))
  /\ ReadOnly

\* The rows of user_roles go with the role.
RoleDeleteOnly(r) ==
  /\ req[r].at = "role_delete"
  /\ roles' = [roles EXCEPT ![req[r].role] = None]
  /\ Finish(r)
  /\ UNCHANGED <<users, has, registered>>

RoleDelete(r) ==
  /\ req[r].at = "role_delete"
  /\ roles' = [roles EXCEPT ![req[r].role] = None]
  /\ has' = [u \in Users |-> has[u] \ {req[r].role}]
  /\ Finish(r)
  /\ UNCHANGED <<users, registered>>

-----------------------------------------------------------------------------
(***************************************************************************)
(* assign_role_to_user, remove_role_from_user.                             *)
(***************************************************************************)
AssignFind(r, u, x) ==
  /\ req[r] = Idle
  /\ Present(u)
  /\ Continue(r, OnBoth("assign_role", u, x))
  /\ ReadOnly

AssignRole(r) ==
  LET q == req[r] IN
  /\ q.at = "assign_role"
  /\ ContinueIf(roles[q.role] # None, r, OnBoth("assign", q.user, q.role))
  /\ ReadOnly

AssignWrite(r) ==
  /\ req[r].at = "assign"
  /\ Give(req[r].user, req[r].role)
  /\ Finish(r)
  /\ UNCHANGED <<users, roles, registered>>

RemoveFind(r, u, x) ==
  /\ req[r] = Idle
  /\ Present(u)
  /\ Continue(r, OnBoth("remove_role", u, x))
  /\ ReadOnly

RemoveRole(r) ==
  LET q == req[r] IN
  /\ q.at = "remove_role"
  /\ ContinueIf(Removable(q.role), r, OnBoth("remove", q.user, q.role))
  /\ ReadOnly

RemoveWrite(r) ==
  LET q == req[r] IN
  /\ q.at = "remove"
  /\ has' = [has EXCEPT ![q.user] = @ \ {q.role}]
  /\ Finish(r)
  /\ UNCHANGED <<users, roles, registered>>

\* The future of request r is dropped, or its next statement fails.
Drop(r) ==
  /\ req[r] # Idle
  /\ Finish(r)
  /\ ReadOnly

Next ==
  \E r \in Requests :
    \/ \E f \in Forms : RegisterEmail(r, f)
    \/ RegisterName(r)
    \/ \E u \in Users : RegisterInsert(r, u)
    \/ RegisterRole(r)
    \/ RegisterAssign(r)
    \/ \E u \in Users, patch \in Patches : UpdateFind(r, u, patch)
    \/ UpdateEmail(r)
    \/ UpdateName(r)
    \/ UpdateWrite(r)
    \/ \E u \in Users : DeleteFind(r, u)
    \/ DeleteWrite(r)
    \/ \E u \in Users : RestoreFind(r, u)
    \/ RestoreWrite(r)
    \/ \E n \in RoleNames : RoleCreateFind(r, n)
    \/ \E x \in Roles : RoleCreate(r, x)
    \/ \E x \in Roles, n \in RoleNames : RoleUpdateFind(r, x, n)
    \/ RoleUpdateName(r)
    \/ RoleUpdate(r)
    \/ \E x \in Roles : RoleDeleteFind(r, x)
    \/ RoleDelete(r)
    \/ \E u \in Users, x \in Roles : AssignFind(r, u, x)
    \/ AssignRole(r)
    \/ AssignWrite(r)
    \/ \E u \in Users, x \in Roles : RemoveFind(r, u, x)
    \/ RemoveRole(r)
    \/ RemoveWrite(r)
    \/ Drop(r)

Spec == Init /\ [][Next]_vars

-----------------------------------------------------------------------------
\* However registrations, edits and restores overlap, two users who are not
\* deleted never share an e-mail or a username, not even in another case, so
\* that login finds at most one user.
LiveUsersAreDistinct ==
  \A u, v \in LiveUsers :
    u # v => /\ Lower[users[u].email] # Lower[users[v].email]
             /\ Lower[users[u].name] # Lower[users[v].name]

\* A user who was told the registration succeeded has the default role from
\* then on, whatever administrators do to roles.
RegisteredHaveDefaultRole ==
  \A u \in registered : \E x \in has[u] : roles[x] = DefaultName

\* register() looks the default role up ignoring case: no other role can come
\* to answer to its name, although the table would take it in another case.
DefaultRoleIsUnambiguous == Named(DefaultName) = {UserRole}

\* A deactivated account is activated again only by a request that says so, or
\* by an edit that had read the account before it was deactivated: once those
\* edits are done the deactivation holds.
Editing(r, u) == req[r].at \in {"upd_email", "upd_name", "upd_write"} /\ req[r].user = u

NoStaleEdit(u) ==
  \A r \in Requests :
    Editing(r, u) /\ req[r].patch.active = None => ~req[r].row.active

DeactivationHolds ==
  [][\A u \in Users :
       users[u] # None /\ ~users[u].active /\ NoStaleEdit(u) =>
         \/ ~users'[u].active /\ NoStaleEdit(u)'
         \/ \E r \in Requests : Editing(r, u) /\ req[r].patch.active = TRUE]_vars

\* "New users automatically assigned "user" role" (backup/PRD.md:402): a user
\* whom no registration is about to give a role has one.
NewUsersHaveDefaultRole ==
  \A u \in Users :
    users[u] # None =>
      \/ \E x \in has[u] : roles[x] = DefaultName
      \/ \E r \in Requests : req[r].at \in {"reg_role", "reg_assign"} /\ req[r].user = u
=============================================================================
