\* One user registers and the registration fails after the user row is stored.
CONSTANTS
  Users = {u1}
  Roles = {user_role, admin_role, x1}
  UserRole = user_role
  AdminRole = admin_role
  SystemName <- TwoSystemRoles
  Emails <- MCEmails
  Names <- MCNames
  RoleNames <- MCRoleNames
  DefaultName = "user"
  Lower <- MCLower
  Forms <- OneForm
  Patches <- NoPatches
  Requests = {r1}
  None = None
SPECIFICATION Spec
INVARIANT NewUsersHaveDefaultRole
