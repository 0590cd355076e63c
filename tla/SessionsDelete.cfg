\* Deleting a user is said to revoke all of the user's refresh tokens.
CONSTANTS
  Users = {alice}
  Tokens = {t1, t2}
  Requests = {r1}
  None = None
  RefreshLife = 1
  MaxTime = 1
SYMMETRY Symmetry
SPECIFICATION Spec
INVARIANT DeletedUserHasNoLiveToken
