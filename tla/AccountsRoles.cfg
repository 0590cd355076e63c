\* Roles are created, renamed, deleted, given and taken by two requests while
\* a user registers.
CONSTANTS
  Users = {u1}
  Roles = {user_role, admin_role, x1, x2}
  UserRole = user_role
  AdminRole = admin_role
  SystemName <- TwoSystemRoles
  Emails <- MCEmails
  Names <- MCNames
  RoleNames <- MCRoleNames
  DefaultName = "user"
  Lower <- MCLower
  Forms <- OneForm
  Patches <- NoPatches
  Requests = {r1, r2}
  None = None
SYMMETRY Symmetry
SPECIFICATION Spec
INVARIANTS
  TypeOK
  RegisteredHaveDefaultRole
  DefaultRoleIsUnambiguous
