\* Two requests race on the sessions of two users; the clock stands still.
CONSTANTS
  Users = {alice, bob}
  Tokens = {t1, t2, t3}
  Requests = {r1, r2}
  None = None
  RefreshLife = 0
  MaxTime = 0
SYMMETRY Symmetry
SPECIFICATION Spec
INVARIANTS
  TypeOK
  OneLiveTokenPerSession
  ClientsHoldNoOrphan
  RotationChains
PROPERTIES
  RevocationIsFinal
  ClosedSessionStaysClosed
  ImplementsContract
