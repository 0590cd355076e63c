---------------------------- MODULE AccountsProofs ----------------------------
(***************************************************************************)
(* Theorems about Accounts, for any users, roles, names and requests.      *)
(***************************************************************************)
EXTENDS Accounts, TLAPS

\* What the locals of a request promise: the name a pending write gives a role
\* is not the default one, no pending write renames, deletes or takes away the
\* default role, and the user a request is about is stored.
LocalOK(q) ==
  /\ q.at \in {"role_insert", "role_write"} => Lower[q.name] # Lower[DefaultName]
  /\ q.at \in {"role_name", "role_write", "role_delete", "remove"} =>
       q.role # UserRole
  /\ q.at = "reg_assign" => q.role = UserRole
  /\ q.at \in {"delete", "restore", "upd_email", "upd_name", "upd_write"} =>
       users[q.user] # None

DefaultRoleKept == \A u \in registered : UserRole \in has[u]

IInv ==
  /\ Typed
  /\ \A r \in Requests : LocalOK(req[r])
  /\ roles[UserRole] = DefaultName
  /\ DefaultRoleIsUnambiguous
  /\ DefaultRoleKept
  /\ RolesHeldExist
  /\ LiveUsersAreDistinct

-----------------------------------------------------------------------------
\* Types.

LEMMA LocalTypes ==
  ASSUME Typed, NEW r \in Requests
  PROVE  /\ req[r].at \in {"reg_name", "reg_insert"} => req[r].row \in UserRows
         /\ req[r].at \in {"reg_role", "delete", "restore"} => req[r].user \in Users
         /\ req[r].at \in {"reg_assign", "assign_role", "assign", "remove_role", "remove"} =>
              req[r].user \in Users /\ req[r].role \in Roles
         /\ req[r].at \in {"upd_email", "upd_name", "upd_write"} =>
              /\ req[r].user \in Users /\ req[r].row \in UserRows
              /\ req[r].patch \in Patches
         /\ req[r].at = "role_insert" => req[r].name \in RoleNames
         /\ req[r].at \in {"role_name", "role_write"} =>
              req[r].role \in Roles /\ req[r].name \in RoleNames
         /\ req[r].at = "role_delete" => req[r].role \in Roles
<1>1. req[r] \in Locals
  BY DEF Typed
<1>2. QED
  BY <1>1 DEF Locals, Idle

LEMMA RowTypes ==
  ASSUME NEW row \in UserRows
  PROVE  /\ \A patch \in Patches : Merged(row, patch) \in UserRows
         /\ \A d \in BOOLEAN : /\ Marked(row, d) \in UserRows
                               /\ Marked(row, d).deleted = d
                               /\ Marked(row, d).email = row.email
                               /\ Marked(row, d).name = row.name
<1>1. /\ row.email \in Emails /\ row.name \in Names
      /\ row.active \in BOOLEAN /\ row.deleted \in BOOLEAN
  BY DEF UserRows
<1>2. \A patch \in Patches : /\ Given(patch.email, row.email) \in Emails
                             /\ Given(patch.name, row.name) \in Names
                             /\ Given(patch.active, row.active) \in BOOLEAN
  BY <1>1, DataAssumption DEF Given
<1>3. \A e \in Emails, n \in Names, a \in BOOLEAN, d \in BOOLEAN :
        /\ Account(e, n, a, d) \in UserRows
        /\ Account(e, n, a, d).deleted = d
        /\ Account(e, n, a, d).email = e
        /\ Account(e, n, a, d).name = n
  BY DEF Account, UserRows
<1>4. QED
  BY <1>1, <1>2, <1>3 DEF Merged, Marked

LEMMA ConstructorTypes ==
  /\ Idle \in Locals
  /\ \A row \in UserRows :
       /\ Registering("reg_name", row) \in Locals
       /\ Registering("reg_insert", row) \in Locals
  /\ \A u \in Users : /\ OnUser("reg_role", u) \in Locals
                      /\ OnUser("delete", u) \in Locals
                      /\ OnUser("restore", u) \in Locals
  /\ \A u \in Users, x \in Roles : /\ OnBoth("reg_assign", u, x) \in Locals
                                   /\ OnBoth("assign_role", u, x) \in Locals
                                   /\ OnBoth("assign", u, x) \in Locals
                                   /\ OnBoth("remove_role", u, x) \in Locals
                                   /\ OnBoth("remove", u, x) \in Locals
  /\ \A u \in Users, row \in UserRows, patch \in Patches :
       /\ Updating("upd_email", u, row, patch) \in Locals
       /\ Updating("upd_name", u, row, patch) \in Locals
       /\ Updating("upd_write", u, row, patch) \in Locals
  /\ \A n \in RoleNames : Creating(n) \in Locals
  /\ \A x \in Roles, n \in RoleNames :
       /\ Naming("role_name", x, n) \in Locals
       /\ Naming("role_write", x, n) \in Locals
  /\ \A x \in Roles : OnRole("role_delete", x) \in Locals
BY DEF Locals, Idle, Registering, OnUser, OnBoth, Updating, Creating, Naming, OnRole

LEMMA InvInit == Init => IInv
<1> SUFFICES ASSUME Init PROVE IInv
  OBVIOUS
<1>1. Typed
  BY DataAssumption, ConstructorTypes DEF Init, Typed
<1>2. \A r \in Requests : LocalOK(req[r])
  BY DEF Init, Idle, LocalOK
<1>3. roles[UserRole] = DefaultName /\ DefaultRoleIsUnambiguous
  BY DataAssumption, NoneAssumption DEF Init, DefaultRoleIsUnambiguous, Named
<1>4. DefaultRoleKept /\ RolesHeldExist /\ LiveUsersAreDistinct
  BY DEF Init, DefaultRoleKept, RolesHeldExist, LiveUsersAreDistinct, LiveUsers, Present
<1>5. QED
  BY <1>1, <1>2, <1>3, <1>4 DEF IInv

-----------------------------------------------------------------------------
\* The kinds of steps.  Each moves one request to a local that is in order.

LEMMA NextLocals ==
  ASSUME IInv, NEW r \in Requests, NEW local \in Locals, Continue(r, local),
         LocalOK(local)', \A u \in Users : users[u] # None => users'[u] # None
  PROVE  req' \in [Requests -> Locals] /\ \A s \in Requests : LocalOK(req[s])'
<1>1. req' \in [Requests -> Locals]
  BY DEF IInv, Typed, Continue
<1>2. ASSUME NEW s \in Requests
      PROVE  LocalOK(req[s])'
  <2>1. CASE s = r
    BY <2>1 DEF IInv, Typed, Continue, LocalOK
  <2>2. CASE s # r
    <3>1. req'[s] = req[s] /\ LocalOK(req[s])
      BY <2>2 DEF IInv, Typed, Continue
    <3>2. req[s].at \in {"delete", "restore", "upd_email", "upd_name", "upd_write"} =>
            req[s].user \in Users
      BY LocalTypes DEF IInv
    <3>3. QED
      BY <3>1, <3>2 DEF LocalOK
  <2>3. QED
    BY <2>1, <2>2
<1>3. QED
  BY <1>1, <1>2

LEMMA ReadStep ==
  ASSUME IInv, NEW r \in Requests, NEW local \in Locals, Continue(r, local),
         LocalOK(local), ReadOnly
  PROVE  IInv'
<1>1. LocalOK(local)' /\ \A u \in Users : users[u] # None => users'[u] # None
  BY DEF ReadOnly, LocalOK
<1>2. req' \in [Requests -> Locals] /\ \A s \in Requests : LocalOK(req[s])'
  BY <1>1, NextLocals
<1>3. QED
  BY <1>2 DEF IInv, Typed, ReadOnly, DefaultRoleIsUnambiguous, DefaultRoleKept, Named,
              RolesHeldExist, LiveUsersAreDistinct, LiveUsers, Present

\* A user row is written if the indexes allow it.
LEMMA UserStep ==
  ASSUME IInv, NEW r \in Requests, NEW local \in Locals, Continue(r, local),
         NEW u \in Users, NEW row \in UserRows, IndexesAllow(u, row),
         users' = [users EXCEPT ![u] = row], LocalOK(local)',
         UNCHANGED <<roles, has, registered>>
  PROVE  IInv'
<1>1. /\ users' \in [Users -> UserRows \cup {None}]
      /\ users'[u] = row /\ row # None
      /\ \A v \in Users : v # u => users'[v] = users[v]
  BY NoneAssumption DEF IInv, Typed
<1>2. req' \in [Requests -> Locals] /\ \A s \in Requests : LocalOK(req[s])'
  BY <1>1, NextLocals
<1>3. LiveUsersAreDistinct'
  BY <1>1 DEF IInv, LiveUsersAreDistinct, LiveUsers, Present, IndexesAllow
<1>4. QED
  BY <1>1, <1>2, <1>3
     DEF IInv, Typed, DefaultRoleIsUnambiguous, DefaultRoleKept, Named, RolesHeldExist

\* The indexes refuse the row and the request ends.
LEMMA RefusedStep ==
  ASSUME IInv, NEW r \in Requests, Continue(r, Idle),
         UNCHANGED <<users, roles, has, registered>>
  PROVE  IInv'
<1>1. Idle \in Locals /\ LocalOK(Idle)
  BY ConstructorTypes DEF Idle, LocalOK
<1>2. QED
  BY <1>1, ReadStep DEF ReadOnly

\* A role other than the default one is named or removed.
LEMMA RoleStep ==
  ASSUME IInv, NEW r \in Requests, Continue(r, Idle), NEW x \in Roles, x # UserRole,
         NEW n \in RoleNames \cup {None},
         n # None => Lower[n] # Lower[DefaultName] /\ UNCHANGED has,
         n = None => has' = [u \in Users |-> has[u] \ {x}],
         roles' = [roles EXCEPT ![x] = n],
         UNCHANGED <<users, registered>>
  PROVE  IInv'
<1>1. /\ roles' \in [Roles -> RoleNames \cup {None}]
      /\ has' \in [Users -> SUBSET Roles]
      /\ roles'[x] = n
      /\ \A y \in Roles : y # x => roles'[y] = roles[y]
  BY DEF IInv, Typed
<1>2. Idle \in Locals /\ LocalOK(Idle)'
  BY ConstructorTypes DEF Idle, LocalOK
<1>3. req' \in [Requests -> Locals] /\ \A s \in Requests : LocalOK(req[s])'
  BY <1>2, NextLocals
<1>4. roles'[UserRole] = DefaultName /\ DefaultRoleIsUnambiguous'
  BY <1>1, DataAssumption DEF IInv, DefaultRoleIsUnambiguous, Named
<1>5. \A u \in Users : /\ has'[u] \subseteq has[u]
                       /\ has'[u] \cup {x} = has[u] \cup {x}
                       /\ n = None => x \notin has'[u]
  BY <1>1 DEF IInv, Typed
<1>6. DefaultRoleKept' /\ RolesHeldExist'
  BY <1>1, <1>5 DEF IInv, Typed, DefaultRoleKept, RolesHeldExist
<1>7. QED
  BY <1>1, <1>3, <1>4, <1>6
     DEF IInv, Typed, LiveUsersAreDistinct, LiveUsers, Present

\* Some rows of user_roles come or go, but no default role of a registered user.
LEMMA HoldingStep ==
  ASSUME IInv, NEW r \in Requests, Continue(r, Idle),
         NEW u \in Users, NEW held \in SUBSET Roles,
         has' = [has EXCEPT ![u] = held],
         \A x \in held : roles[x] # None,
         UserRole \in has[u] => UserRole \in held,
         registered' = registered \/ (registered' = registered \cup {u} /\ UserRole \in held),
         UNCHANGED <<users, roles>>
  PROVE  IInv'
<1>1. /\ has' \in [Users -> SUBSET Roles]
      /\ has'[u] = held
      /\ \A v \in Users : v # u => has'[v] = has[v]
      /\ registered' \subseteq Users
  BY DEF IInv, Typed
<1>2. Idle \in Locals /\ LocalOK(Idle)'
  BY ConstructorTypes DEF Idle, LocalOK
<1>3. req' \in [Requests -> Locals] /\ \A s \in Requests : LocalOK(req[s])'
  BY <1>2, NextLocals
<1>4. DefaultRoleKept' /\ RolesHeldExist'
  BY <1>1 DEF IInv, Typed, DefaultRoleKept, RolesHeldExist
<1>5. QED
  BY <1>1, <1>3, <1>4
     DEF IInv, Typed, DefaultRoleIsUnambiguous, Named, LiveUsersAreDistinct, LiveUsers,
         Present

\* A check passed, or the request ends.
LEMMA CheckStep ==
  ASSUME IInv, NEW r \in Requests, NEW local, NEW check \in BOOLEAN,
         ContinueIf(check, r, local), ReadOnly,
         check => local \in Locals /\ LocalOK(local)
  PROVE  IInv'
<1>1. CASE check
  <2>1. Continue(r, local)
    BY <1>1 DEF ContinueIf
  <2>2. QED
    BY <1>1, <2>1, ReadStep
<1>2. CASE ~check
  <2>1. Continue(r, Idle)
    BY <1>2 DEF ContinueIf
  <2>2. QED
    BY <2>1, RefusedStep DEF ReadOnly
<1>3. QED
  BY <1>1, <1>2

-----------------------------------------------------------------------------
\* The steps of Next, one lemma for each part of the module.

LEMMA RegisterSteps ==
  ASSUME IInv, NEW r \in Requests,
         \/ \E f \in Forms : RegisterEmail(r, f)
         \/ RegisterName(r)
         \/ \E u \in Users : RegisterInsert(r, u)
         \/ RegisterRole(r)
         \/ RegisterAssign(r)
  PROVE  IInv'
<1> Typed
  BY DEF IInv
<1>1. CASE \E f \in Forms : RegisterEmail(r, f)
  <2>1. PICK f \in Forms : RegisterEmail(r, f)
    BY <1>1
  <2> DEFINE row == Account(Lower[f[1]], f[2], TRUE, FALSE)
             local == Registering("reg_name", row)
  <2>2. f[1] \in Emails /\ f[2] \in Names /\ Lower[f[1]] \in Emails
    BY DataAssumption
  <2>3. row \in UserRows
    BY <2>2 DEF Account, UserRows
  <2>4. local \in Locals /\ LocalOK(local)
    BY <2>3, ConstructorTypes DEF Registering, LocalOK
  <2>5. Continue(r, local) /\ ReadOnly
    BY <2>1 DEF RegisterEmail
  <2> HIDE DEF local
  <2>6. QED
    BY <2>4, <2>5, ReadStep
<1>2. CASE RegisterName(r)
  <2> DEFINE local == Registering("reg_insert", req[r].row)
  <2>1. req[r].row \in UserRows
    BY <1>2, LocalTypes DEF RegisterName
  <2>2. local \in Locals /\ LocalOK(local)
    BY <2>1, ConstructorTypes DEF Registering, LocalOK
  <2>3. ContinueIf(~UsernameExists(req[r].row.name), r, local) /\ ReadOnly
    BY <1>2 DEF RegisterName
  <2> HIDE DEF local
  <2>4. QED
    BY <2>2, <2>3, CheckStep
<1>3. CASE \E u \in Users : RegisterInsert(r, u)
  <2>1. PICK u \in Users : RegisterInsert(r, u)
    BY <1>3
  <2> DEFINE row == req[r].row
             local == OnUser("reg_role", u)
  <2>2. row \in UserRows
    BY <2>1, LocalTypes DEF RegisterInsert
  <2>3. local \in Locals /\ LocalOK(local)'
    BY ConstructorTypes DEF OnUser, LocalOK
  <2>4. CASE IndexesAllow(u, row)
    <3>1. users' = [users EXCEPT ![u] = row] /\ Continue(r, local)
      BY <2>1, <2>4 DEF RegisterInsert, ContinueIf
    <3>2. UNCHANGED <<roles, has, registered>>
      BY <2>1 DEF RegisterInsert
    <3> HIDE DEF local, row
    <3>3. QED
      BY <2>2, <2>3, <2>4, <3>1, <3>2, UserStep
  <2>5. CASE ~IndexesAllow(u, row)
    BY <2>1, <2>5, RefusedStep DEF RegisterInsert, ContinueIf
  <2>6. QED
    BY <2>4, <2>5
<1>4. CASE RegisterRole(r)
  <2>1. req[r].user \in Users /\ ReadOnly
    BY <1>4, LocalTypes DEF RegisterRole
  <2>2. Continue(r, OnBoth("reg_assign", req[r].user, UserRole))
    BY <1>4 DEF RegisterRole, IInv, DefaultRoleIsUnambiguous
  <2> DEFINE local == OnBoth("reg_assign", req[r].user, UserRole)
  <2>3. local \in Locals /\ LocalOK(local)
    BY <2>1, DataAssumption, ConstructorTypes DEF OnBoth, LocalOK
  <2> HIDE DEF local
  <2>4. QED
    BY <2>1, <2>2, <2>3, ReadStep DEF local
<1>5. CASE RegisterAssign(r)
  <2> DEFINE u == req[r].user
  <2>1. u \in Users /\ req[r].role = UserRole /\ roles[UserRole] # None
    BY <1>5, LocalTypes, DataAssumption, NoneAssumption DEF RegisterAssign, IInv, LocalOK
  <2> DEFINE held == has[u] \cup {UserRole}
  <2>2. has' = [has EXCEPT ![u] = held] /\ registered' = registered \cup {u}
    BY <1>5, <2>1 DEF RegisterAssign, Give
  <2>3. held \in SUBSET Roles /\ UserRole \in held /\ \A x \in held : roles[x] # None
    BY <2>1, DataAssumption DEF IInv, Typed, RolesHeldExist
  <2>4. Continue(r, Idle) /\ UNCHANGED <<users, roles>>
    BY <1>5 DEF RegisterAssign, Finish
  <2> HIDE DEF held, u
  <2>5. QED
    BY <2>1, <2>2, <2>3, <2>4, HoldingStep
<1>6. QED
  BY <1>1, <1>2, <1>3, <1>4, <1>5

LEMMA UserSteps ==
  ASSUME IInv, NEW r \in Requests,
         \/ \E u \in Users, patch \in Patches : UpdateFind(r, u, patch)
         \/ UpdateEmail(r)
         \/ UpdateName(r)
         \/ UpdateWrite(r)
         \/ \E u \in Users : DeleteFind(r, u)
         \/ DeleteWrite(r)
         \/ \E u \in Users : RestoreFind(r, u)
         \/ RestoreWrite(r)
  PROVE  IInv'
<1> DEFINE q == req[r]
           u == q.user
<1> Typed /\ LocalOK(q)
  BY DEF IInv
<1>0. Idle \in Locals /\ LocalOK(Idle)'
  BY ConstructorTypes DEF Idle, LocalOK
<1>1. CASE \E v \in Users, patch \in Patches : UpdateFind(r, v, patch)
  <2>1. PICK v \in Users, patch \in Patches : UpdateFind(r, v, patch)
    BY <1>1
  <2> DEFINE local == Updating("upd_email", v, users[v], patch)
  <2>2. users[v] # None /\ users[v] \in UserRows
    BY <2>1 DEF UpdateFind, Present, Typed
  <2>3. local \in Locals /\ LocalOK(local)
    BY <2>2, ConstructorTypes DEF Updating, LocalOK
  <2>4. Continue(r, local) /\ ReadOnly
    BY <2>1 DEF UpdateFind
  <2> HIDE DEF local
  <2>5. QED
    BY <2>3, <2>4, ReadStep
<1>2. CASE UpdateEmail(r)
  <2> DEFINE local == Updating("upd_name", u, q.row, q.patch)
             check == q.patch.email \in {None, q.row.email} \/ ~EmailExists(q.patch.email)
  <2>1. u \in Users /\ q.row \in UserRows /\ q.patch \in Patches /\ users[u] # None
    BY <1>2, LocalTypes DEF UpdateEmail, LocalOK
  <2>2. local \in Locals /\ LocalOK(local)
    BY <2>1, ConstructorTypes DEF Updating, LocalOK
  <2>3. ContinueIf(check, r, local) /\ ReadOnly /\ check \in BOOLEAN
    BY <1>2 DEF UpdateEmail
  <2> HIDE DEF local, check
  <2>4. QED
    BY <2>2, <2>3, CheckStep
<1>3. CASE UpdateName(r)
  <2> DEFINE local == Updating("upd_write", u, q.row, q.patch)
             check == q.patch.name \in {None, q.row.name} \/ ~UsernameExists(q.patch.name)
  <2>1. u \in Users /\ q.row \in UserRows /\ q.patch \in Patches /\ users[u] # None
    BY <1>3, LocalTypes DEF UpdateName, LocalOK
  <2>2. local \in Locals /\ LocalOK(local)
    BY <2>1, ConstructorTypes DEF Updating, LocalOK
  <2>3. ContinueIf(check, r, local) /\ ReadOnly /\ check \in BOOLEAN
    BY <1>3 DEF UpdateName
  <2> HIDE DEF local, check
  <2>4. QED
    BY <2>2, <2>3, CheckStep
<1>4. CASE UpdateWrite(r)
  <2> DEFINE row == Marked(Merged(q.row, q.patch), users[u].deleted)
  <2>1. u \in Users /\ q.row \in UserRows /\ q.patch \in Patches /\ users[u] # None
    BY <1>4, LocalTypes DEF UpdateWrite, LocalOK
  <2>2. users[u].deleted \in BOOLEAN /\ Merged(q.row, q.patch) \in UserRows
    BY <2>1, RowTypes DEF Typed, UserRows
  <2>3. row \in UserRows
    BY <2>2, RowTypes
  <2>4. /\ users' = IF IndexesAllow(u, row) THEN [users EXCEPT ![u] = row] ELSE users
        /\ Continue(r, Idle) /\ UNCHANGED <<roles, has, registered>>
    BY <1>4 DEF UpdateWrite, Finish
  <2> HIDE DEF row, q, u
  <2>5. CASE IndexesAllow(u, row)
    BY <1>0, <2>1, <2>3, <2>4, <2>5, UserStep
  <2>6. CASE ~IndexesAllow(u, row)
    BY <2>4, <2>6, RefusedStep
  <2>7. QED
    BY <2>5, <2>6
<1>5. CASE \E v \in Users : DeleteFind(r, v)
  <2>1. PICK v \in Users : DeleteFind(r, v)
    BY <1>5
  <2> DEFINE local == OnUser("delete", v)
  <2>2. local \in Locals /\ LocalOK(local) /\ Continue(r, local) /\ ReadOnly
    BY <2>1, ConstructorTypes DEF DeleteFind, Present, OnUser, LocalOK
  <2> HIDE DEF local
  <2>3. QED
    BY <2>2, ReadStep
<1>6. CASE DeleteWrite(r)
  <2> DEFINE row == Marked(users[u], TRUE)
  <2>1. u \in Users /\ users[u] \in UserRows
    BY <1>6, LocalTypes DEF DeleteWrite, LocalOK, Typed
  <2>2. row \in UserRows /\ IndexesAllow(u, row)
    BY <2>1, RowTypes DEF IndexesAllow
  <2>3. /\ users' = [users EXCEPT ![u] = row]
        /\ Continue(r, Idle) /\ UNCHANGED <<roles, has, registered>>
    BY <1>6 DEF DeleteWrite, Finish
  <2> HIDE DEF row, q, u
  <2>4. QED
    BY <1>0, <2>1, <2>2, <2>3, UserStep
<1>7. CASE \E v \in Users : RestoreFind(r, v)
  <2>1. PICK v \in Users : RestoreFind(r, v)
    BY <1>7
  <2> DEFINE local == OnUser("restore", v)
  <2>2. local \in Locals /\ LocalOK(local) /\ Continue(r, local) /\ ReadOnly
    BY <2>1, ConstructorTypes DEF RestoreFind, OnUser, LocalOK
  <2> HIDE DEF local
  <2>3. QED
    BY <2>2, ReadStep
<1>8. CASE RestoreWrite(r)
  <2> DEFINE row == Marked(users[u], FALSE)
  <2>1. u \in Users /\ users[u] \in UserRows
    BY <1>8, LocalTypes DEF RestoreWrite, LocalOK, Typed
  <2>2. row \in UserRows
    BY <2>1, RowTypes
  <2>3. /\ users' = IF IndexesAllow(u, row) THEN [users EXCEPT ![u] = row] ELSE users
        /\ Continue(r, Idle) /\ UNCHANGED <<roles, has, registered>>
    BY <1>8 DEF RestoreWrite, Finish
  <2> HIDE DEF row, q, u
  <2>4. CASE IndexesAllow(u, row)
    BY <1>0, <2>1, <2>2, <2>3, <2>4, UserStep
  <2>5. CASE ~IndexesAllow(u, row)
    BY <2>3, <2>5, RefusedStep
  <2>6. QED
    BY <2>4, <2>5
<1>9. QED
  BY <1>1, <1>2, <1>3, <1>4, <1>5, <1>6, <1>7, <1>8

LEMMA RoleSteps ==
  ASSUME IInv, NEW r \in Requests,
         \/ \E n \in RoleNames : RoleCreateFind(r, n)
         \/ \E x \in Roles : RoleCreate(r, x)
         \/ \E x \in Roles, n \in RoleNames : RoleUpdateFind(r, x, n)
         \/ RoleUpdateName(r)
         \/ RoleUpdate(r)
         \/ \E x \in Roles : RoleDeleteFind(r, x)
         \/ RoleDelete(r)
  PROVE  IInv'
<1> DEFINE q == req[r]
<1> Typed /\ LocalOK(q)
  BY DEF IInv
<1>0. \A n \in RoleNames : Named(n) = {} => Lower[n] # Lower[DefaultName]
  BY DataAssumption, NoneAssumption DEF IInv, Named
<1>1. CASE \E n \in RoleNames : RoleCreateFind(r, n)
  <2>1. PICK n \in RoleNames : RoleCreateFind(r, n)
    BY <1>1
  <2> DEFINE local == Creating(n)
  <2>2. local \in Locals /\ LocalOK(local) /\ Continue(r, local) /\ ReadOnly
    BY <1>0, <2>1, ConstructorTypes DEF RoleCreateFind, Creating, LocalOK
  <2> HIDE DEF local
  <2>3. QED
    BY <2>2, ReadStep
<1>2. CASE \E x \in Roles : RoleCreate(r, x)
  <2>1. PICK x \in Roles : RoleCreate(r, x)
    BY <1>2
  <2> DEFINE n == q.name
  <2>2. n \in RoleNames /\ Lower[n] # Lower[DefaultName]
    BY <2>1, LocalTypes DEF RoleCreate, LocalOK
  <2>3. x # UserRole /\ n # None
    BY <2>1, <2>2, DataAssumption, NoneAssumption DEF RoleCreate, IInv
  <2>4. /\ roles' = IF NameIsFree(x, n) THEN [roles EXCEPT ![x] = n] ELSE roles
        /\ Continue(r, Idle) /\ UNCHANGED <<users, has, registered>>
    BY <2>1 DEF RoleCreate, Finish
  <2> HIDE DEF n, q
  <2>5. CASE NameIsFree(x, n)
    BY <2>2, <2>3, <2>4, <2>5, RoleStep
  <2>6. CASE ~NameIsFree(x, n)
    BY <2>4, <2>6, RefusedStep
  <2>7. QED
    BY <2>5, <2>6
<1>3. CASE \E x \in Roles, n \in RoleNames : RoleUpdateFind(r, x, n)
  <2>1. PICK x \in Roles, n \in RoleNames : RoleUpdateFind(r, x, n)
    BY <1>3
  <2> DEFINE local == Naming(IF n = roles[x] THEN "role_write" ELSE "role_name", x, n)
  <2>2. x # UserRole /\ roles[x] # None
    BY <2>1, DataAssumption DEF RoleUpdateFind, Editable
  <2>3. Lower[roles[x]] # Lower[DefaultName]
    BY <2>2 DEF IInv, DefaultRoleIsUnambiguous, Named
  <2>4. local \in Locals /\ LocalOK(local)
    BY <2>2, <2>3, ConstructorTypes DEF Naming, LocalOK
  <2>5. Continue(r, local) /\ ReadOnly
    BY <2>1 DEF RoleUpdateFind
  <2> HIDE DEF local
  <2>6. QED
    BY <2>4, <2>5, ReadStep
<1>4. CASE RoleUpdateName(r)
  <2> DEFINE local == Naming("role_write", q.role, q.name)
             check == Named(q.name) = {}
  <2>1. q.role \in Roles /\ q.name \in RoleNames /\ q.role # UserRole
    BY <1>4, LocalTypes DEF RoleUpdateName, LocalOK
  <2>2. check => local \in Locals /\ LocalOK(local)
    BY <1>0, <2>1, ConstructorTypes DEF Naming, LocalOK
  <2>3. ContinueIf(check, r, local) /\ ReadOnly /\ check \in BOOLEAN
    BY <1>4 DEF RoleUpdateName
  <2> HIDE DEF local, check
  <2>4. QED
    BY <2>2, <2>3, CheckStep
<1>5. CASE RoleUpdate(r)
  <2> DEFINE x == q.role
             n == q.name
  <2>1. /\ x \in Roles /\ x # UserRole
        /\ n \in RoleNames /\ n # None /\ Lower[n] # Lower[DefaultName]
    BY <1>5, LocalTypes, NoneAssumption DEF RoleUpdate, LocalOK
  <2>2. /\ roles' = IF roles[x] # None /\ NameIsFree(x, n) THEN [roles EXCEPT ![x] = n]
                                                          ELSE roles
        /\ Continue(r, Idle) /\ UNCHANGED <<users, has, registered>>
    BY <1>5 DEF RoleUpdate, Finish
  <2> HIDE DEF x, n, q
  <2>3. CASE roles[x] # None /\ NameIsFree(x, n)
    BY <2>1, <2>2, <2>3, RoleStep
  <2>4. CASE ~(roles[x] # None /\ NameIsFree(x, n))
    <3>1. roles' = roles
      BY <2>2, <2>4
    <3>2. QED
      BY <2>2, <3>1, RefusedStep
  <2>5. QED
    BY <2>3, <2>4
<1>6. CASE \E x \in Roles : RoleDeleteFind(r, x)
  <2>1. PICK x \in Roles : RoleDeleteFind(r, x)
    BY <1>6
  <2> DEFINE local == OnRole("role_delete", x)
  <2>2. local \in Locals /\ LocalOK(local) /\ Continue(r, local) /\ ReadOnly
    BY <2>1, DataAssumption, ConstructorTypes DEF RoleDeleteFind, Editable, OnRole, LocalOK
  <2> HIDE DEF local
  <2>3. QED
    BY <2>2, ReadStep
<1>7. CASE RoleDelete(r)
  <2> DEFINE x == q.role
  <2>1. x \in Roles /\ x # UserRole
    BY <1>7, LocalTypes DEF RoleDelete, LocalOK
  <2>2. /\ roles' = [roles EXCEPT ![x] = None]
        /\ has' = [v \in Users |-> has[v] \ {x}]
        /\ Continue(r, Idle) /\ UNCHANGED <<users, registered>>
    BY <1>7 DEF RoleDelete, Finish
  <2> HIDE DEF x, q
  <2>3. QED
    BY <2>1, <2>2, RoleStep
<1>8. QED
  BY <1>1, <1>2, <1>3, <1>4, <1>5, <1>6, <1>7

LEMMA HoldingSteps ==
  ASSUME IInv, NEW r \in Requests,
         \/ \E u \in Users, x \in Roles : AssignFind(r, u, x)
         \/ AssignRole(r)
         \/ AssignWrite(r)
         \/ \E u \in Users, x \in Roles : RemoveFind(r, u, x)
         \/ RemoveRole(r)
         \/ RemoveWrite(r)
         \/ Drop(r)
  PROVE  IInv'
<1> DEFINE q == req[r]
           u == q.user
           x == q.role
<1> Typed /\ LocalOK(q)
  BY DEF IInv
<1>1. CASE \E v \in Users, y \in Roles : AssignFind(r, v, y)
  <2>1. PICK v \in Users, y \in Roles : AssignFind(r, v, y)
    BY <1>1
  <2> DEFINE local == OnBoth("assign_role", v, y)
  <2>2. local \in Locals /\ LocalOK(local) /\ Continue(r, local) /\ ReadOnly
    BY <2>1, ConstructorTypes DEF AssignFind, OnBoth, LocalOK
  <2> HIDE DEF local
  <2>3. QED
    BY <2>2, ReadStep
<1>2. CASE AssignRole(r)
  <2> DEFINE local == OnBoth("assign", u, x)
  <2>1. u \in Users /\ x \in Roles
    BY <1>2, LocalTypes DEF AssignRole
  <2>2. local \in Locals /\ LocalOK(local)
    BY <2>1, ConstructorTypes DEF OnBoth, LocalOK
  <2>3. ContinueIf(roles[x] # None, r, local) /\ ReadOnly
    BY <1>2 DEF AssignRole
  <2> HIDE DEF local
  <2>4. QED
    BY <2>2, <2>3, CheckStep
<1>3. CASE AssignWrite(r)
  <2> DEFINE held == has[u] \cup {x}
  <2>1. u \in Users /\ x \in Roles
    BY <1>3, LocalTypes DEF AssignWrite
  <2>2. /\ has' = IF roles[x] = None THEN has ELSE [has EXCEPT ![u] = held]
        /\ Continue(r, Idle) /\ UNCHANGED <<users, roles, registered>>
    BY <1>3 DEF AssignWrite, Give, Finish
  <2>3. held \in SUBSET Roles /\ (UserRole \in has[u] => UserRole \in held)
    BY <2>1 DEF Typed
  <2>4. roles[x] # None => \A y \in held : roles[y] # None
    BY <2>1, <2>3 DEF IInv, RolesHeldExist
  <2> HIDE DEF held, q, u, x
  <2>5. CASE roles[x] = None
    BY <2>2, <2>5, RefusedStep
  <2>6. CASE roles[x] # None
    BY <2>1, <2>2, <2>3, <2>4, <2>6, HoldingStep
  <2>7. QED
    BY <2>5, <2>6
<1>4. CASE \E v \in Users, y \in Roles : RemoveFind(r, v, y)
  <2>1. PICK v \in Users, y \in Roles : RemoveFind(r, v, y)
    BY <1>4
  <2> DEFINE local == OnBoth("remove_role", v, y)
  <2>2. local \in Locals /\ LocalOK(local) /\ Continue(r, local) /\ ReadOnly
    BY <2>1, ConstructorTypes DEF RemoveFind, OnBoth, LocalOK
  <2> HIDE DEF local
  <2>3. QED
    BY <2>2, ReadStep
<1>5. CASE RemoveRole(r)
  <2> DEFINE local == OnBoth("remove", u, x)
  <2>1. u \in Users /\ x \in Roles
    BY <1>5, LocalTypes DEF RemoveRole
  <2>2. Removable(x) => local \in Locals /\ LocalOK(local)
    BY <2>1, DataAssumption, ConstructorTypes DEF Removable, OnBoth, LocalOK
  <2>3. ContinueIf(Removable(x), r, local) /\ ReadOnly /\ Removable(x) \in BOOLEAN
    BY <1>5 DEF RemoveRole, Removable
  <2> HIDE DEF local
  <2>4. QED
    BY <2>2, <2>3, CheckStep
<1>6. CASE RemoveWrite(r)
  <2> DEFINE held == has[u] \ {x}
  <2>1. u \in Users /\ x \in Roles /\ x # UserRole
    BY <1>6, LocalTypes DEF RemoveWrite, LocalOK
  <2>2. /\ has' = [has EXCEPT ![u] = held]
        /\ Continue(r, Idle) /\ UNCHANGED <<users, roles, registered>>
    BY <1>6 DEF RemoveWrite, Finish
  <2>3. /\ held \in SUBSET Roles
        /\ (UserRole \in has[u] => UserRole \in held)
        /\ \A y \in held : roles[y] # None
    BY <2>1 DEF Typed, IInv, RolesHeldExist
  <2> HIDE DEF held, q, u, x
  <2>4. QED
    BY <2>1, <2>2, <2>3, HoldingStep
<1>7. CASE Drop(r)
  BY <1>7, RefusedStep DEF Drop, Finish, ReadOnly
<1>8. QED
  BY <1>1, <1>2, <1>3, <1>4, <1>5, <1>6, <1>7

LEMMA InvStep == IInv /\ [Next]_vars => IInv'
<1> SUFFICES ASSUME IInv, [Next]_vars PROVE IInv'
  OBVIOUS
<1>1. CASE Next
  BY <1>1, RegisterSteps, UserSteps, RoleSteps, HoldingSteps DEF Next
<1>2. CASE UNCHANGED vars
  BY <1>2 DEF vars, IInv, Typed, LocalOK, DefaultRoleIsUnambiguous, DefaultRoleKept, Named,
              RolesHeldExist, LiveUsersAreDistinct, LiveUsers, Present
<1>3. QED
  BY <1>1, <1>2

LEMMA Invariance == Spec => []IInv
BY InvInit, InvStep, PTL DEF Spec

-----------------------------------------------------------------------------
\* The tables and every request in flight hold values of their types, and nobody holds
\* a role that was deleted, however a deletion and an assignment overlap.
THEOREM TypeCorrect == Spec => []TypeOK
<1>1. IInv => TypeOK
  BY DEF IInv, TypeOK
<1>2. QED
  BY <1>1, Invariance, PTL

\* Whatever registrations, edits, deletions and restores overlap, no two users
\* that are not deleted share an e-mail or a username in any case.
THEOREM NamesAreDistinct == Spec => []LiveUsersAreDistinct
<1>1. IInv => LiveUsersAreDistinct
  BY DEF IInv
<1>2. QED
  BY <1>1, Invariance, PTL

\* The lookup of the default role by register() finds the system role only.
THEOREM DefaultRoleIsFound == Spec => []DefaultRoleIsUnambiguous
<1>1. IInv => DefaultRoleIsUnambiguous
  BY DEF IInv
<1>2. QED
  BY <1>1, Invariance, PTL

\* A user whose registration succeeded keeps the default role.
THEOREM DefaultRoleIsKept == Spec => []RegisteredHaveDefaultRole
<1>1. IInv => RegisteredHaveDefaultRole
  BY DEF IInv, DefaultRoleKept, RegisteredHaveDefaultRole
<1>2. QED
  BY <1>1, Invariance, PTL

-----------------------------------------------------------------------------
\* Deactivation.  A step that leaves the edits in flight to others changes
\* neither a row that stands nor what those edits have read.

EditPoints == {"upd_email", "upd_name", "upd_write"}

\* Request r goes on to something that is not an edit.
Elsewhere(r) ==
  /\ req'[r].at \notin EditPoints
  /\ \A s \in Requests \ {r} : req'[s] = req[s]

LEMMA ElsewhereStep ==
  ASSUME Typed, NEW r \in Requests, NEW local, Continue(r, local),
         local.at \notin EditPoints
  PROVE  Elsewhere(r)
BY DEF Typed, Continue, Elsewhere

LEMMA ElsewhereIf ==
  ASSUME Typed, NEW r \in Requests, NEW check \in BOOLEAN, NEW local,
         ContinueIf(check, r, local), local.at \notin EditPoints
  PROVE  Elsewhere(r)
BY DEF Typed, Continue, ContinueIf, Elsewhere, Idle, EditPoints

LEMMA RegisterElsewhere ==
  ASSUME Typed, NEW r \in Requests, NEW u \in Users, users[u] # None,
         \/ \E f \in Forms : RegisterEmail(r, f)
         \/ RegisterName(r)
         \/ \E v \in Users : RegisterInsert(r, v)
         \/ RegisterRole(r)
         \/ RegisterAssign(r)
  PROVE  users'[u] = users[u] /\ Elsewhere(r)
<1>0. Idle.at \notin EditPoints
  BY DEF Idle, EditPoints
<1>1. CASE \E f \in Forms : RegisterEmail(r, f)
  BY <1>1, ElsewhereStep DEF RegisterEmail, ReadOnly, Registering, EditPoints
<1>2. CASE RegisterName(r)
  BY <1>2, ElsewhereIf DEF RegisterName, ReadOnly, Registering, EditPoints
<1>3. CASE \E v \in Users : RegisterInsert(r, v)
  <2>1. PICK v \in Users : RegisterInsert(r, v)
    BY <1>3
  <2>2. users'[u] = users[u]
    BY <2>1 DEF RegisterInsert, Typed
  <2>3. ContinueIf(IndexesAllow(v, req[r].row), r, OnUser("reg_role", v))
    BY <2>1 DEF RegisterInsert
  <2>4. Elsewhere(r)
    BY <2>3, ElsewhereIf DEF IndexesAllow, OnUser, EditPoints
  <2>5. QED
    BY <2>2, <2>4
<1>4. CASE RegisterRole(r)
  BY <1>0, <1>4, ElsewhereStep DEF RegisterRole, ReadOnly, Finish, OnBoth, EditPoints
<1>5. CASE RegisterAssign(r)
  BY <1>0, <1>5, ElsewhereStep DEF RegisterAssign, Finish
<1>6. QED
  BY <1>1, <1>2, <1>3, <1>4, <1>5

LEMMA RoleElsewhere ==
  ASSUME Typed, NEW r \in Requests,
         \/ \E n \in RoleNames : RoleCreateFind(r, n)
         \/ \E x \in Roles : RoleCreate(r, x)
         \/ \E x \in Roles, n \in RoleNames : RoleUpdateFind(r, x, n)
         \/ RoleUpdateName(r)
         \/ RoleUpdate(r)
         \/ \E x \in Roles : RoleDeleteFind(r, x)
         \/ RoleDelete(r)
  PROVE  users' = users /\ Elsewhere(r)
<1>0. Idle.at \notin EditPoints
  BY DEF Idle, EditPoints
<1>1. CASE \E n \in RoleNames : RoleCreateFind(r, n)
  BY <1>1, ElsewhereStep DEF RoleCreateFind, ReadOnly, Creating, EditPoints
<1>2. CASE \E x \in Roles : RoleCreate(r, x)
  BY <1>0, <1>2, ElsewhereStep DEF RoleCreate, Finish
<1>3. CASE \E x \in Roles, n \in RoleNames : RoleUpdateFind(r, x, n)
  BY <1>3, ElsewhereStep DEF RoleUpdateFind, ReadOnly, Naming, EditPoints
<1>4. CASE RoleUpdateName(r)
  BY <1>4, ElsewhereIf DEF RoleUpdateName, ReadOnly, Naming, EditPoints
<1>5. CASE RoleUpdate(r)
  BY <1>0, <1>5, ElsewhereStep DEF RoleUpdate, Finish
<1>6. CASE \E x \in Roles : RoleDeleteFind(r, x)
  BY <1>6, ElsewhereStep DEF RoleDeleteFind, ReadOnly, OnRole, EditPoints
<1>7. CASE RoleDelete(r)
  BY <1>0, <1>7, ElsewhereStep DEF RoleDelete, Finish
<1>8. QED
  BY <1>1, <1>2, <1>3, <1>4, <1>5, <1>6, <1>7

LEMMA HoldingElsewhere ==
  ASSUME Typed, NEW r \in Requests,
         \/ \E u \in Users, x \in Roles : AssignFind(r, u, x)
         \/ AssignRole(r)
         \/ AssignWrite(r)
         \/ \E u \in Users, x \in Roles : RemoveFind(r, u, x)
         \/ RemoveRole(r)
         \/ RemoveWrite(r)
         \/ Drop(r)
  PROVE  users' = users /\ Elsewhere(r)
<1>0. Idle.at \notin EditPoints
  BY DEF Idle, EditPoints
<1>1. CASE \E u \in Users, x \in Roles : AssignFind(r, u, x)
  BY <1>1, ElsewhereStep DEF AssignFind, ReadOnly, OnBoth, EditPoints
<1>2. CASE AssignRole(r)
  BY <1>2, ElsewhereIf DEF AssignRole, ReadOnly, OnBoth, EditPoints
<1>3. CASE AssignWrite(r)
  BY <1>0, <1>3, ElsewhereStep DEF AssignWrite, Finish
<1>4. CASE \E u \in Users, x \in Roles : RemoveFind(r, u, x)
  BY <1>4, ElsewhereStep DEF RemoveFind, ReadOnly, OnBoth, EditPoints
<1>5. CASE RemoveRole(r)
  BY <1>5, ElsewhereIf DEF RemoveRole, Removable, ReadOnly, OnBoth, EditPoints
<1>6. CASE RemoveWrite(r)
  BY <1>0, <1>6, ElsewhereStep DEF RemoveWrite, Finish
<1>7. CASE Drop(r)
  BY <1>0, <1>7, ElsewhereStep DEF Drop, ReadOnly, Finish
<1>8. QED
  BY <1>1, <1>2, <1>3, <1>4, <1>5, <1>6, <1>7

LEMMA RowsKeepActive ==
  ASSUME NEW row \in UserRows, NEW d \in BOOLEAN
  PROVE  Marked(row, d).active = row.active
BY DEF UserRows, Marked, Account

\* The steps on users: u stays inactive, and the edits of u stay harmless,
\* unless an edit of u says it is to be active.
LEMMA UserStepsDeactivated ==
  ASSUME IInv, NEW r \in Requests, NEW u \in Users, users[u] # None,
         ~users[u].active, NoStaleEdit(u),
         ~(Editing(r, u) /\ req[r].patch.active = TRUE),
         \/ \E v \in Users, patch \in Patches : UpdateFind(r, v, patch)
         \/ UpdateEmail(r)
         \/ UpdateName(r)
         \/ UpdateWrite(r)
         \/ \E v \in Users : DeleteFind(r, v)
         \/ DeleteWrite(r)
         \/ \E v \in Users : RestoreFind(r, v)
         \/ RestoreWrite(r)
  PROVE  ~users'[u].active /\ NoStaleEdit(u)'
<1> Typed /\ LocalOK(req[r])
  BY DEF IInv
<1>0. Idle.at \notin EditPoints
  BY DEF Idle, EditPoints
<1>1. ASSUME Elsewhere(r)
      PROVE  NoStaleEdit(u)'
  BY <1>1 DEF Elsewhere, NoStaleEdit, Editing, EditPoints
<1>2. CASE \E v \in Users, patch \in Patches : UpdateFind(r, v, patch)
  <2>1. PICK v \in Users, patch \in Patches : UpdateFind(r, v, patch)
    BY <1>2
  <2> DEFINE local == Updating("upd_email", v, users[v], patch)
  <2>2. local.row = users[v] /\ local.user = v
    BY DEF Updating
  <2>3. users' = users /\ req' = [req EXCEPT ![r] = local]
    BY <2>1 DEF UpdateFind, ReadOnly, Continue
  <2> HIDE DEF local
  <2>4. NoStaleEdit(u)'
    BY <2>2, <2>3 DEF NoStaleEdit, Editing, Typed
  <2>5. QED
    BY <2>3, <2>4
<1>3. CASE UpdateEmail(r) \/ UpdateName(r)
  <2> DEFINE same(local) == /\ local.user = req[r].user /\ local.row = req[r].row
                            /\ local.patch = req[r].patch
  <2>1. PICK local : /\ Continue(r, local) /\ users' = users
                     /\ Editing(r, req[r].user)
                     /\ local.at \notin EditPoints \/ same(local)
    BY <1>0, <1>3
       DEF UpdateEmail, UpdateName, ContinueIf, ReadOnly, Updating, Editing
  <2>2. req' = [req EXCEPT ![r] = local]
    BY <2>1 DEF Continue
  <2>3. NoStaleEdit(u)'
    BY <2>1, <2>2 DEF NoStaleEdit, Editing, EditPoints, Typed
  <2>4. QED
    BY <2>1, <2>3
<1>4. CASE UpdateWrite(r)
  <2> DEFINE q == req[r]
             v == q.user
             merged == Merged(q.row, q.patch)
             row == Marked(merged, users[v].deleted)
  <2>1. v \in Users /\ q.row \in UserRows /\ q.patch \in Patches /\ users[v] # None
    BY <1>4, LocalTypes DEF UpdateWrite, LocalOK
  <2>2. merged \in UserRows /\ users[v].deleted \in BOOLEAN
    BY <2>1, RowTypes DEF Typed, UserRows
  <2>3. row.active = merged.active
    BY <2>2, RowsKeepActive
  <2>4. merged.active = Given(q.patch.active, q.row.active)
    BY DEF Merged, Account
  <2>5. v = u => row.active = FALSE
    <3>1. q.patch.active \in BOOLEAN \cup {None} /\ q.row.active \in BOOLEAN
      BY <2>1, DataAssumption DEF UserRows
    <3>2. v = u => q.patch.active # TRUE /\ (q.patch.active = None => ~q.row.active)
      BY <1>4 DEF UpdateWrite, Editing, NoStaleEdit
    <3>3. QED
      BY <2>3, <2>4, <3>1, <3>2 DEF Given
  <2>6. /\ users' = IF IndexesAllow(v, row) THEN [users EXCEPT ![v] = row] ELSE users
        /\ Continue(r, Idle)
    BY <1>4 DEF UpdateWrite, Finish
  <2>7. Elsewhere(r)
    BY <1>0, <2>6, ElsewhereStep
  <2> HIDE DEF row, v
  <2>8. ~users'[u].active
    BY <2>5, <2>6 DEF Typed
  <2>9. QED
    BY <1>1, <2>7, <2>8
<1>5. CASE (\E v \in Users : DeleteFind(r, v)) \/ (\E v \in Users : RestoreFind(r, v))
  <2>1. users' = users /\ Elsewhere(r)
    BY <1>5, ElsewhereStep DEF DeleteFind, RestoreFind, ReadOnly, OnUser, EditPoints
  <2>2. QED
    BY <1>1, <2>1
<1>6. CASE DeleteWrite(r) \/ RestoreWrite(r)
  <2> DEFINE v == req[r].user
  <2>1. v \in Users /\ users[v] \in UserRows
    BY <1>6, LocalTypes DEF DeleteWrite, RestoreWrite, LocalOK, Typed
  <2>2. PICK d \in BOOLEAN : \/ users' = users
                             \/ users' = [users EXCEPT ![v] = Marked(users[v], d)]
    BY <1>6 DEF DeleteWrite, RestoreWrite
  <2>3. Marked(users[v], d).active = users[v].active
    BY <2>1, RowsKeepActive
  <2>4. ~users'[u].active
    BY <2>1, <2>2, <2>3 DEF Typed
  <2>5. Elsewhere(r)
    BY <1>0, <1>6, ElsewhereStep DEF DeleteWrite, RestoreWrite, Finish
  <2>6. QED
    BY <1>1, <2>4, <2>5
<1>7. QED
  BY <1>2, <1>3, <1>4, <1>5, <1>6

\* Once no edit that read the account before it was deactivated is under way,
\* only a request that says so activates it again.
THEOREM DeactivatedStays == Spec => DeactivationHolds
<1> DEFINE Keeps ==
      \A u \in Users :
        users[u] # None /\ ~users[u].active /\ NoStaleEdit(u) =>
          \/ ~users'[u].active /\ NoStaleEdit(u)'
          \/ \E r \in Requests : Editing(r, u) /\ req[r].patch.active = TRUE
<1>1. IInv /\ [Next]_vars => [Keeps]_vars
  <2> SUFFICES ASSUME IInv, Next,
                      NEW u \in Users, users[u] # None, ~users[u].active, NoStaleEdit(u),
                      ~\E r \in Requests : Editing(r, u) /\ req[r].patch.active = TRUE
               PROVE  ~users'[u].active /\ NoStaleEdit(u)'
    OBVIOUS
  <2>1. Typed
    BY DEF IInv
  <2>2. ASSUME NEW r \in Requests, Elsewhere(r), users'[u] = users[u]
        PROVE  ~users'[u].active /\ NoStaleEdit(u)'
    BY <2>2 DEF Elsewhere, NoStaleEdit, Editing, EditPoints
  <2>3. QED
    BY <2>1, <2>2, RegisterElsewhere, RoleElsewhere, HoldingElsewhere,
       UserStepsDeactivated DEF Next
<1>2. QED
  BY <1>1, Invariance, PTL DEF Spec, DeactivationHolds
=============================================================================
