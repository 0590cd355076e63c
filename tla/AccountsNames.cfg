\* Two users register, are edited, deleted and restored by two requests.
CONSTANTS
  Users = {u1, u2}
  Roles = {user_role}
  UserRole = user_role
  AdminRole = admin_role
  SystemName <- OneSystemRole
  Emails <- MCEmails
  Names <- MCNames
  RoleNames = {"user"}
  DefaultName = "user"
  Lower <- MCLower
  Forms <- MCForms
  Patches <- MCPatches
  Requests = {r1, r2}
  None = None
SYMMETRY Symmetry
SPECIFICATION Spec
INVARIANT LiveUsersAreDistinct
PROPERTY DeactivationHolds
