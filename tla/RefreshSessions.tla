--------------------------- MODULE RefreshSessions ---------------------------
(***************************************************************************)
(* The server side of a login session: the refresh_tokens table, the       *)
(* account flags of the users table, and the login, refresh and logout     *)
(* requests that work on them.                                             *)
(*                                                                         *)
(* A handler is a sequence of autocommitted SQL statements with awaits in  *)
(* between, so each action is one statement together with the pure code up *)
(* to the next one.  req[r] holds what request r carries from one          *)
(* statement to the next.  A statement may fail and a request may be       *)
(* dropped (client gone, server stopped) between any two statements: Drop. *)
(*                                                                         *)
(* The raw value of a refresh token leaves the server only in the answer   *)
(* of a login or a refresh; held is the set of tokens clients were given.  *)
(* origin is a history variable: the login token a row descends from,      *)
(* i.e. the session the row belongs to.                                    *)
(***************************************************************************)
EXTENDS Naturals, FiniteSets

CONSTANTS
  Users,        \* rows of the users table
  Tokens,       \* the refresh tokens that can ever be issued (bound)
  Requests,     \* requests that can be in flight at once (bound)
  None,         \* SQL NULL, and the value of an unused local
  RefreshLife,  \* refresh_token_expiration_days, in clock ticks
  MaxTime       \* bound of the clock

Reasons == {"rotated", "logout", "logout_all"}

ASSUME NoneAssumption == None \notin Users \cup Tokens \cup Reasons
ASSUME TimeAssumption == RefreshLife \in Nat /\ MaxTime \in Nat

VARIABLES
  now,         \* the clock
  active,      \* [Users -> BOOLEAN]: users.is_active
  deleted,     \* [Users -> BOOLEAN]: users.deleted_at IS NOT NULL
  owner,       \* refresh_tokens.user_id; None: no such row yet
  expiresAt,   \* refresh_tokens.expires_at
  revoked,     \* refresh_tokens.revoked_reason; None: revoked_at IS NULL
  replacedBy,  \* refresh_tokens.replaced_by
  origin,      \* history: the login token each row descends from
  req,         \* the requests in flight and their locals
  held         \* history: the tokens delivered to clients

accounts == <<active, deleted>>
table    == <<owner, expiresAt, revoked, replacedBy, origin>>
vars     == <<now, accounts, table, req, held>>

Local(at, u, o, n) == [at |-> at, user |-> u, old |-> o, new |-> n]

Idle == Local("idle", None, None, None)

\* The locals a request has at each of its steps.
Locals ==
  {Idle}
  \cup [at : {"login_insert"}, user : Users, old : {None}, new : {None}]
  \cup [at : {"refresh_user", "refresh_insert", "logout_revoke"},
        user : Users, old : Tokens, new : {None}]
  \cup [at : {"refresh_rotate"}, user : Users, old : Tokens, new : Tokens]
  \cup [at : {"reply"}, user : Users, old : Tokens \cup {None}, new : Tokens]

TypeOK ==
  /\ now \in 0 .. MaxTime
  /\ active \in [Users -> BOOLEAN]
  /\ deleted \in [Users -> BOOLEAN]
  /\ owner \in [Tokens -> Users \cup {None}]
  /\ expiresAt \in [Tokens -> Nat]
  /\ revoked \in [Tokens -> Reasons \cup {None}]
  /\ replacedBy \in [Tokens -> Tokens \cup {None}]
  /\ origin \in [Tokens -> Tokens \cup {None}]
  /\ req \in [Requests -> Locals]
  /\ held \subseteq Tokens

Init ==
  /\ now = 0
  /\ active = [u \in Users |-> TRUE]
  /\ deleted = [u \in Users |-> FALSE]
  /\ owner = [t \in Tokens |-> None]
  /\ expiresAt = [t \in Tokens |-> 0]
  /\ revoked = [t \in Tokens |-> None]
  /\ replacedBy = [t \in Tokens |-> None]
  /\ origin = [t \in Tokens |-> None]
  /\ req = [r \in Requests |-> Idle]
  /\ held = {}

-----------------------------------------------------------------------------
(***************************************************************************)
(* The table.  A definition whose name extends that of the one after it is *)
(* the same code with a plausible mistake; the runs are shown to tell the  *)
(* two apart.  Next uses none of them.                                     *)
(***************************************************************************)
Exists(t) == owner[t] # None

\* "WHERE ... AND revoked_at IS NULL", and the negation of is_revoked().
Live(t) == Exists(t) /\ revoked[t] = None

\* is_expired() is now > expires_at: at expires_at the token still works.
Expired(t) == now > expiresAt[t]

\* The account checks login and refresh both make.
MayAuthenticateUnlessDeleted(u) == ~deleted[u]
MayAuthenticate(u) == ~deleted[u] /\ active[u]

\* What refresh demands of the presented token.
RefreshableIgnoringExpiry(t) == Live(t)
Refreshable(t) == Live(t) /\ ~Expired(t)

\* The rows the revoking UPDATEs match: rotate and revoke by id,
\* revoke_all_for_user by owner.
RotateMatchesById(t) == Exists(t)
RotateMatches(t) == Live(t)
RevokeMatchesById(t) == Exists(t)
RevokeMatches(t) == Live(t)
RevokeAllMatchesByUser(u, t) == owner[t] = u
RevokeAllMatchesAnyOwner(u, t) == Live(t)
RevokeAllMatches(u, t) == owner[t] = u /\ Live(t)

\* RefreshTokenRepository::create with a token built by RefreshToken::new.
Insert(t, u, from) ==
  /\ ~Exists(t)
  /\ owner' = [owner EXCEPT ![t] = u]
  /\ expiresAt' = [expiresAt EXCEPT ![t] = now + RefreshLife]
  /\ origin' = [origin EXCEPT ![t] = from]
  /\ UNCHANGED <<revoked, replacedBy>>

Continue(r, local) == req' = [req EXCEPT ![r] = local]

Finish(r) == Continue(r, Idle)

-----------------------------------------------------------------------------
(***************************************************************************)
(* Login: the user row is read and checked, then a fresh row is inserted.  *)
(* The reads of the user's roles around the insert change nothing here.    *)
(***************************************************************************)
LoginLookup(r, u) ==
  /\ req[r] = Idle
  /\ MayAuthenticate(u)
  /\ Continue(r, Local("login_insert", u, None, None))
  /\ UNCHANGED <<now, accounts, table, held>>

LoginInsertThenRotate(r, t) ==
  /\ req[r].at = "login_insert"
  /\ Insert(t, req[r].user, t)
  /\ Continue(r, Local("refresh_rotate", req[r].user, None, t))
  /\ UNCHANGED <<now, accounts, held>>

LoginInsert(r, t) ==
  /\ req[r].at = "login_insert"
  /\ Insert(t, req[r].user, t)
  /\ Continue(r, Local("reply", req[r].user, None, t))
  /\ UNCHANGED <<now, accounts, held>>

(***************************************************************************)
(* Refresh: find the presented token, check it, read and check its owner,  *)
(* insert the successor, and only then revoke the presented token.         *)
(***************************************************************************)
RefreshFind(r, t) ==
  /\ req[r] = Idle
  /\ t \in held
  /\ Refreshable(t)
  /\ Continue(r, Local("refresh_user", owner[t], t, None))
  /\ UNCHANGED <<now, accounts, table, held>>

RefreshUser(r) ==
  /\ req[r].at = "refresh_user"
  /\ \/ /\ MayAuthenticate(req[r].user)
        /\ Continue(r, Local("refresh_insert", req[r].user, req[r].old, None))
     \/ /\ ~MayAuthenticate(req[r].user)
        /\ Finish(r)
  /\ UNCHANGED <<now, accounts, table, held>>

RefreshInsert(r, t) ==
  /\ req[r].at = "refresh_insert"
  /\ Insert(t, req[r].user, origin[req[r].old])
  /\ Continue(r, Local("refresh_rotate", req[r].user, req[r].old, t))
  /\ UNCHANGED <<now, accounts, held>>

RotateWithoutResult(r) ==
  LET old == req[r].old IN
  /\ req[r].at = "refresh_rotate"
  /\ revoked' = [revoked EXCEPT ![old] = IF RotateMatches(old) THEN "rotated" ELSE @]
  /\ replacedBy' = [replacedBy EXCEPT ![old] =
                       IF RotateMatches(old) THEN req[r].new ELSE @]
  /\ Continue(r, Local("reply", req[r].user, old, req[r].new))
  /\ UNCHANGED <<now, accounts, owner, expiresAt, origin, held>>

\* UPDATE ... WHERE id = old AND revoked_at IS NULL; no row: the request fails
\* and the successor stays in the table, known to nobody.
Rotate(r) ==
  LET old == req[r].old IN
  /\ req[r].at = "refresh_rotate"
  /\ \/ /\ RotateMatches(old)
        /\ revoked' = [revoked EXCEPT ![old] = "rotated"]
        /\ replacedBy' = [replacedBy EXCEPT ![old] = req[r].new]
        /\ Continue(r, Local("reply", req[r].user, old, req[r].new))
     \/ /\ ~RotateMatches(old)
        /\ Finish(r)
        /\ UNCHANGED <<revoked, replacedBy>>
  /\ UNCHANGED <<now, accounts, owner, expiresAt, origin, held>>

\* The answer of a login or a refresh reaches its client.
Reply(r) ==
  /\ req[r].at = "reply"
  /\ held' = held \cup {req[r].new}
  /\ Finish(r)
  /\ UNCHANGED <<now, accounts, table>>

(***************************************************************************)
(* Logout, by a client that has an access token of user u: it has been     *)
(* answered a login or refresh of u.  The account flags are not looked at. *)
(***************************************************************************)
SignedIn(u) == \E t \in held : owner[t] = u

\* A token of another user is skipped and the request succeeds.
LogoutFind(r, u, t) ==
  /\ req[r] = Idle
  /\ SignedIn(u)
  /\ t \in held
  /\ owner[t] = u
  /\ Continue(r, Local("logout_revoke", u, t, None))
  /\ UNCHANGED <<now, accounts, table, held>>

LogoutRevoke(r) ==
  LET t == req[r].old IN
  /\ req[r].at = "logout_revoke"
  /\ revoked' = [revoked EXCEPT ![t] = IF RevokeMatches(t) THEN "logout" ELSE @]
  /\ Finish(r)
  /\ UNCHANGED <<now, accounts, owner, expiresAt, replacedBy, origin, held>>

LogoutAll(u) ==
  /\ SignedIn(u)
  /\ revoked' = [t \in Tokens |->
                   IF RevokeAllMatches(u, t) THEN "logout_all" ELSE revoked[t]]
  /\ UNCHANGED <<now, accounts, owner, expiresAt, replacedBy, origin, req, held>>

-----------------------------------------------------------------------------
(***************************************************************************)
(* What administrators do to an account, as the statements commit.  None   *)
(* of them touches refresh_tokens.                                         *)
(***************************************************************************)
SetActive(u, b) ==
  /\ active[u] # b
  /\ active' = [active EXCEPT ![u] = b]
  /\ UNCHANGED <<now, deleted, table, req, held>>

SoftDelete(u) ==
  /\ ~deleted[u]
  /\ deleted' = [deleted EXCEPT ![u] = TRUE]
  /\ UNCHANGED <<now, active, table, req, held>>

Restore(u) ==
  /\ deleted[u]
  /\ deleted' = [deleted EXCEPT ![u] = FALSE]
  /\ UNCHANGED <<now, active, table, req, held>>

\* The future of request r is dropped, or its next statement fails.
Drop(r) ==
  /\ req[r] # Idle
  /\ Finish(r)
  /\ UNCHANGED <<now, accounts, table, held>>

Tick ==
  /\ now < MaxTime
  /\ now' = now + 1
  /\ UNCHANGED <<accounts, table, req, held>>

Next ==
  \/ \E r \in Requests, u \in Users : LoginLookup(r, u)
  \/ \E r \in Requests, t \in Tokens : LoginInsert(r, t)
  \/ \E r \in Requests, t \in Tokens : RefreshFind(r, t)
  \/ \E r \in Requests : RefreshUser(r)
  \/ \E r \in Requests, t \in Tokens : RefreshInsert(r, t)
  \/ \E r \in Requests : Rotate(r)
  \/ \E r \in Requests : Reply(r)
  \/ \E r \in Requests, u \in Users, t \in Tokens : LogoutFind(r, u, t)
  \/ \E r \in Requests : LogoutRevoke(r)
  \/ \E u \in Users : LogoutAll(u)
  \/ \E u \in Users, b \in BOOLEAN : SetActive(u, b)
  \/ \E u \in Users : SoftDelete(u)
  \/ \E u \in Users : Restore(u)
  \/ \E r \in Requests : Drop(r)
  \/ Tick

Spec == Init /\ [][Next]_vars

-----------------------------------------------------------------------------
(***************************************************************************)
(* Sessions.  A session is named by the token its login issued.  A row is  *)
(* in service once a login created it or a rotation recorded it as the     *)
(* successor of another; a row that is inserted and never recorded is an   *)
(* orphan.  A session is open while one of its rows in service is not      *)
(* revoked.                                                                *)
(***************************************************************************)
Opened(s) == origin[s] = s

Successors == {replacedBy[x] : x \in Tokens} \ {None}

InService(t) == Opened(t) \/ t \in Successors

\* The row that is the key of session s: in service and not revoked.
IsKey(t, s) == origin[t] = s /\ InService(t) /\ Live(t)

Open(s) == \E t \in Tokens : IsKey(t, s)

Usable(s) == \E t \in Tokens : IsKey(t, s) /\ ~Expired(t)

Refreshing(r, s) == req[r].old # None /\ req[r].at # "logout_revoke"
                      /\ origin[req[r].old] = s

Authenticating(r, u) == req[r].at \in {"login_insert", "refresh_insert"}
                          /\ req[r].user = u

\* Rotation keeps one key per session: however refreshes of a session race
\* each other, logouts and lost answers, at most one of the tokens that were
\* recorded or given to a client is unrevoked (refresh_token(), rotate()).
OneLiveTokenPerSession ==
  \A s, t \in {x \in Tokens : Live(x) /\ (InService(x) \/ x \in held)} :
    origin[s] = origin[t] => s = t

\* The successor a refresh inserts before it knows whether the rotation will
\* succeed reaches a client only if the rotation did: no client ever holds
\* an orphan.
ClientsHoldNoOrphan == \A t \in held : InService(t)

\* The rotation records form chains inside one session: a row has a successor
\* exactly when it is revoked as rotated, the successor is a row of the same
\* user and the same session that opened nothing itself, and no two rows
\* share one.
RotationChains ==
  \A t \in Tokens :
    /\ (revoked[t] = "rotated") <=> (replacedBy[t] # None)
    /\ replacedBy[t] # None =>
         /\ owner[replacedBy[t]] = owner[t]
         /\ origin[replacedBy[t]] = origin[t]
         /\ ~Opened(replacedBy[t])
    /\ \A x \in Tokens :
         replacedBy[x] = replacedBy[t] /\ replacedBy[t] # None => x = t

\* A revocation is final: no later refresh or logout of the row, however it
\* was interleaved with the first, overwrites its reason or its successor.
RevocationIsFinal ==
  [][\A t \in Tokens :
       revoked[t] # None =>
         revoked'[t] = revoked[t] /\ replacedBy'[t] = replacedBy[t]]_vars

\* A session that a logout (of one device or of all) has closed stays closed:
\* a refresh that was already past its checks cannot bring it back.
ClosedSessionStaysClosed ==
  [][\A s \in Tokens : Opened(s) /\ ~Open(s) => ~Open(s)']_vars

\* Once no token of a session is usable and no refresh of it is under way, no
\* later request gets past the checks of refresh_token() with it again.
ExpiredSessionStaysUnusable ==
  [][\A s \in Tokens :
       LET Over == ~Usable(s) /\ \A r \in Requests : ~Refreshing(r, s)
       IN  Opened(s) /\ Over => Over']_vars

\* A user who is deleted or deactivated gets no new token, save from a login
\* or refresh that had read the account before: once those are gone the user
\* is locked out until an administrator lets the account back in.
LockedOutUserGetsNoToken ==
  [][\A u \in Users :
       LET Locked == \A r \in Requests : ~Authenticating(r, u)
       IN  (deleted[u] \/ ~active[u]) /\ Locked =>
             /\ Locked'
             /\ \A t \in Tokens : owner'[t] = u => owner[t] = u]_vars

\* Deleting a user leaves the user without an unrevoked refresh token
\* ("Revokes all refresh tokens", backup/PRD.md:1151).
DeletedUserHasNoLiveToken ==
  \A u \in Users : deleted[u] => \A t \in Tokens : owner[t] = u => ~Live(t)

\* The promise to clients, as a state machine of its own.
SessionHolder == [s \in Tokens |-> IF Opened(s) THEN owner[s] ELSE None]

SessionKey ==
  [s \in Tokens |-> IF Open(s) THEN CHOOSE t \in Tokens : IsKey(t, s) ELSE None]

Contract == INSTANCE SessionContract WITH
  Keys <- Tokens, holder <- SessionHolder, key <- SessionKey,
  used <- {t \in Tokens : InService(t)}

\* Refinement: seen from outside, a refresh replaces the key of a session by
\* a fresh one in one step, that of its rotation, or does nothing; logins open
\* sessions, logouts end them, and lost answers and failures are invisible.
ImplementsContract == Contract!Spec
=============================================================================
