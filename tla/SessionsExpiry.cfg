\* Two requests on the sessions of one user while tokens expire and the
\* account is deactivated, deleted and restored.
CONSTANTS
  Users = {alice}
  Tokens = {t1, t2, t3}
  Requests = {r1, r2}
  None = None
  RefreshLife = 1
  MaxTime = 2
SYMMETRY Symmetry
SPECIFICATION Spec
PROPERTIES
  ExpiredSessionStaysUnusable
  LockedOutUserGetsNoToken
