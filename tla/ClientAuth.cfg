\* One tab with two requests at once, and two mishaps: an expiry and a reload,
\* a lost answer, a session ended by the server.
CONSTANTS
  Tabs = {tab}
  Calls = {c1, c2}
  Tokens = {t1, t2, t3, t4, t5}
  None = None
  Admin = FALSE
  MaxMishaps = 2
SPECIFICATION Spec
INVARIANTS
  TypeOK
  StoredTokenIsUsable
  LogoutNamesNoStoredToken
  CallsCanMove
PROPERTIES
  CallsSettle
  ReloadSettles
