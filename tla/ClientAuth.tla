------------------------------ MODULE ClientAuth ------------------------------
(***************************************************************************)
(* The session as the browser keeps it.  AuthService, TokenStorageService, *)
(* authInterceptor, the two guards, the login and register pages and the   *)
(* header's logout, in tabs that share localStorage, against the           *)
(* authentication API: a refresh token works once, an access token until   *)
(* it expires.  The server serves a request in one step (RefreshSessions   *)
(* looks inside that step) and its answer arrives in a later one, in any   *)
(* order, or is lost.                                                      *)
(*                                                                         *)
(* setTokens and clearTokens write both tokens in one turn of the event    *)
(* loop, so that a pair of tokens is one value here.  One account signs    *)
(* in; Admin says whether it is an administrator.                          *)
(***************************************************************************)
EXTENDS Naturals, FiniteSets

CONSTANTS
  Tabs,        \* tabs of one browser
  Calls,       \* bound on the requests under way at once
  Tokens,      \* bound on the token pairs somebody holds at once
  None,
  Admin,       \* the account holds the role admin
  MaxMishaps   \* bound on reloads, expiries, ended sessions and lost answers

ASSUME ClientAssumption ==
  /\ None \notin Tokens
  /\ Admin \in BOOLEAN
  /\ MaxMishaps \in Nat

VARIABLES
  stored,      \* localStorage: the token pair, or None
  signedIn,    \* authState().isAuthenticated of each tab
  page,        \* the route each tab shows
  call,        \* the requests under way
  live,        \* server: pairs whose refresh token is usable
  stale,       \* server: pairs whose access token has expired
  ended,       \* pairs the server revoked of its own accord, or whose refresh
               \* was under way when its tab was reloaded
  mishaps      \* how many of the events MaxMishaps bounds have happened

storageVars == <<stored, signedIn, page>>
vars == <<stored, signedIn, page, call, live, stale, ended, mishaps>>

\* The login and register pages are one page here, with two buttons.
Forms == {"login", "register"}
Guarded == {"home", "admin"}
Pages == {"login"} \cup Guarded
Kinds == {"api", "me", "login", "register", "logout"}
Stages == {"idle", "sent", "refreshing", "resent"}
Answers == {"none", "ok", "401", "error"}
MaybeToken == Tokens \cup {None}

Records ==
  [at : Stages, kind : Kinds, tab : Tabs, access : MaybeToken, body : MaybeToken,
   refresh : MaybeToken, gained : MaybeToken, answer : Answers]

\* A request: access is the Authorization header, body the refresh token a
\* logout names, refresh the one a refresh on its behalf presents, gained the
\* pair the server answered with.
Request(at, kind, t, access, body, refresh) ==
  [at |-> at, kind |-> kind, tab |-> t, access |-> access, body |-> body,
   refresh |-> refresh, gained |-> None, answer |-> "none"]

Idle(t) == Request("idle", "api", t, None, None, None)

Answered(r, answer, g) ==
  [at |-> r.at, kind |-> r.kind, tab |-> r.tab, access |-> r.access, body |-> r.body,
   refresh |-> r.refresh, gained |-> g, answer |-> answer]

TypeOK ==
  /\ stored \in MaybeToken
  /\ signedIn \in [Tabs -> BOOLEAN]
  /\ page \in [Tabs -> IF Admin THEN Pages ELSE Pages \ {"admin"}]
  /\ call \in [Calls -> Records]
  /\ live \subseteq Tokens /\ stale \subseteq Tokens /\ ended \subseteq Tokens
  /\ mishaps \in 0..MaxMishaps

Init ==
  /\ stored = None
  /\ signedIn = [t \in Tabs |-> FALSE]
  /\ page = [t \in Tabs |-> "login"]
  /\ \E t \in Tabs : call = [c \in Calls |-> Idle(t)]
  /\ live = {} /\ stale = {} /\ ended = {}
  /\ mishaps = 0

HeldBy(c) == {call[c].access, call[c].body, call[c].refresh, call[c].gained}
Held == {stored} \cup UNION {HeldBy(c) : c \in Calls}

InUse == {stored} \cup {call[c].access : c \in Calls}

\* What the server knows of the pairs somebody holds; the others are forgotten.
Pairs(liveNow, staleNow, endedNow) ==
  /\ live' = liveNow \cap Held'
  /\ stale' = staleNow \cap InUse'
  /\ ended' = endedNow \cap Held'

SamePairs == Pairs(live, stale, ended)

Mishap == mishaps < MaxMishaps /\ mishaps' = mishaps + 1

Free(c) == call[c].at = "idle"

\* The free slot a new request takes; slots have no meaning of their own.
Spare(c) == Free(c) /\ c = CHOOSE d \in Calls : Free(d)

-----------------------------------------------------------------------------
(* The browser *)

LandingUnlessSignedOut(t, p) ==
  IF p \in Guarded /\ ~signedIn[t] THEN "login" ELSE p

\* The guards: where a navigation to p ends.
Landing(t, p) ==
  IF p \in Guarded /\ ~signedIn[t] THEN "login"
  ELSE IF p = "admin" /\ ~Admin THEN "home" ELSE p

\* takeUntilDestroyed of the two form pages: a form that is left aborts its request.
OfForm(r, t) == r.at # "idle" /\ r.tab = t /\ r.kind \in Forms
Leaving(t, p, calls) ==
  [c \in Calls |-> IF page[t] # p /\ OfForm(calls[c], t) THEN Idle(t) ELSE calls[c]]

GoTo(t, p, calls) ==
  /\ page' = [page EXCEPT ![t] = p]
  /\ call' = Leaving(t, p, calls)

\* The link between the two forms.
OtherForm(t) ==
  /\ page[t] = "login"
  /\ \E c \in Calls : OfForm(call[c], t)
  /\ call' = [c \in Calls |-> IF OfForm(call[c], t) THEN Idle(t) ELSE call[c]]
  /\ UNCHANGED <<storageVars, mishaps>>
  /\ SamePairs

\* A link: the header has one to the login page for who is not signed in.
Navigate(t, p) ==
  /\ page[t] # Landing(t, p)
  /\ p = "login" => ~signedIn[t]
  /\ GoTo(t, Landing(t, p), call)
  /\ UNCHANGED <<stored, signedIn, mishaps>>
  /\ SamePairs

\* Opening or reloading a tab: its requests are aborted, authState starts
\* afresh, the guard sends it to the login page, and with a token in storage
\* both initializeAuthState and the effect ask for the current user.  (Should
\* the injector refuse the interceptor an AuthService that is still being
\* constructed, the first of the two fails at once: its answer is an error.)
Reload(t) ==
  /\ Mishap
  /\ signedIn' = [signedIn EXCEPT ![t] = FALSE]
  /\ page' = [page EXCEPT ![t] = "login"]
  /\ LET aborted == [c \in Calls |-> IF call[c].tab = t THEN Idle(t) ELSE call[c]]
         Me == Request("sent", "me", t, stored, None, None)
     IN IF stored = None THEN call' = aborted
        ELSE \E c, d \in Calls :
               /\ c # d /\ aborted[c].at = "idle" /\ aborted[d].at = "idle"
               /\ call' = [aborted EXCEPT ![c] = Me, ![d] = Me]
  /\ UNCHANGED stored
  /\ Pairs(live, stale, ended \cup {call[c].refresh :
              c \in {d \in Calls : call[d].tab = t /\ call[d].at = "refreshing"}})

\* onSubmit of the login and register pages; the button is disabled while
\* isLoading, that is while their request is under way.
SubmitForm(t, c, form) ==
  /\ page[t] = "login" /\ Spare(c)
  /\ \A d \in Calls : ~OfForm(call[d], t)
  /\ call' = [call EXCEPT ![c] = Request("sent", form, t, None, None, None)]
  /\ UNCHANGED <<storageVars, mishaps>>
  /\ SamePairs

\* Any other request of a guarded page: the interceptor adds the stored token.
Fetch(t, c) ==
  /\ page[t] \in Guarded /\ Spare(c)
  /\ call' = [call EXCEPT ![c] = Request("sent", "api", t, stored, None, None)]
  /\ UNCHANGED <<storageVars, mishaps>>
  /\ SamePairs

SignOutKeepingTokens(t, calls) ==
  /\ UNCHANGED stored
  /\ signedIn' = [signedIn EXCEPT ![t] = FALSE]
  /\ GoTo(t, "login", calls)

\* clearAuth and the navigation of AuthService.logout, in tab t.
SignOut(t, calls) ==
  /\ stored' = None
  /\ signedIn' = [signedIn EXCEPT ![t] = FALSE]
  /\ GoTo(t, "login", calls)

\* The POST of logout reads the access token before clearAuth removes it.
LogoutRequest(t) == Request("sent", "logout", t, stored, stored, None)

\* The header shows the button to a signed-in user, off the form pages.
Logout(t, c) ==
  /\ page[t] \in Guarded /\ signedIn[t] /\ Spare(c)
  /\ SignOut(t, IF stored = None THEN call ELSE [call EXCEPT ![c] = LogoutRequest(t)])
  /\ UNCHANGED mishaps
  /\ SamePairs

-----------------------------------------------------------------------------
(* The server and the network *)

\* The server answers; with a new pair, it is one that nobody holds.
Issue(c, spent) ==
  LET g == CHOOSE x \in Tokens : x \notin Held IN
  /\ \E x \in Tokens : x \notin Held
  /\ call' = [call EXCEPT ![c] = Answered(call[c], "ok", g)]
  /\ Pairs((live \ spent) \cup {g}, stale, ended)

Answer(c, answer) ==
  /\ call' = [call EXCEPT ![c] = Answered(call[c], answer, None)]
  /\ SamePairs

Waiting(c) == ~Free(c) /\ call[c].answer = "none"

ServeRefresh(c) ==
  IF call[c].refresh \in live
  THEN Issue(c, {call[c].refresh})
  ELSE Answer(c, "401")

\* The endpoints behind CurrentUser; one may also refuse for another reason, or
\* its answer get lost, before or after it has done its work.
ServeGuarded(c) ==
  \/ Answer(c, "error")
  \/ /\ call[c].access \in stale \cup {None}
     /\ Answer(c, "401")
  \/ /\ call[c].access \notin stale \cup {None}
     /\ \E answer \in {"ok", "error"} : call' = [call EXCEPT ![c] = Answered(call[c], answer, None)]
     /\ Pairs(live \ {call[c].body}, stale, ended)

ServeForm(c) ==
  \/ Answer(c, "error")
  \/ call[c].kind = "register" /\ Answer(c, "ok")
  \/ call[c].kind = "login" /\ Issue(c, {})

Serve(c) ==
  /\ Waiting(c)
  /\ UNCHANGED <<storageVars, mishaps>>
  /\ \/ call[c].at = "refreshing" /\ ServeRefresh(c)
     \/ call[c].at # "refreshing" /\ call[c].kind \notin Forms /\ ServeGuarded(c)
     \/ call[c].at # "refreshing" /\ call[c].kind \in Forms /\ ServeForm(c)

\* A refresh or its answer is lost: the browser reports an error.  (For the
\* other requests this is the answer "error" above.)
Lose(c) ==
  /\ call[c].at = "refreshing" /\ call[c].answer # "error"
  /\ Mishap /\ UNCHANGED storageVars
  /\ Answer(c, "error")

\* Time passes for an access token; the server revokes or outlives a session.
Expire(g) ==
  /\ g \in InUse \ (stale \cup {None})
  /\ stale' = stale \cup {g}
  /\ Mishap /\ UNCHANGED <<storageVars, call, live, ended>>

EndSession(g) ==
  /\ g = stored /\ g \in live
  /\ live' = live \ {g}
  /\ ended' = ended \cup {g}
  /\ Mishap /\ UNCHANGED <<storageVars, call, stale>>

-----------------------------------------------------------------------------
(* The interceptor and the callers, when an answer arrives *)

Ok(c) == call[c].answer = "ok"
Done(c) == [call EXCEPT ![c] = Idle(call[c].tab)]

\* A 401 to a request that carried a token, with a refresh token in storage.
BeginRefresh(c) ==
  /\ call[c].at = "sent" /\ call[c].answer = "401"
  /\ call[c].access # None /\ stored # None
  /\ call' = [call EXCEPT ![c] = Request("refreshing", call[c].kind, call[c].tab, None,
                                        call[c].body, stored)]
  /\ UNCHANGED <<storageVars, mishaps>>
  /\ SamePairs

RefreshedKeepingOld(c) ==
  /\ call[c].at = "refreshing" /\ Ok(c)
  /\ call' = [call EXCEPT ![c] = Request("resent", call[c].kind, call[c].tab,
                                        call[c].gained, call[c].body, None)]
  /\ UNCHANGED <<stored, signedIn, page, mishaps>>
  /\ SamePairs

\* The new pair is stored and the request sent once more, past the interceptor.
Refreshed(c) ==
  /\ call[c].at = "refreshing" /\ Ok(c)
  /\ stored' = call[c].gained
  /\ call' = [call EXCEPT ![c] = Request("resent", call[c].kind, call[c].tab,
                                        call[c].gained, call[c].body, None)]
  /\ UNCHANGED <<signedIn, page, mishaps>>
  /\ SamePairs

RefreshRetried(c) ==
  /\ call[c].at = "refreshing" /\ call[c].answer \in {"401", "error"}
  /\ call' = [call EXCEPT ![c] = Request("refreshing", call[c].kind, call[c].tab, None,
                                        call[c].body, call[c].refresh)]
  /\ UNCHANGED <<storageVars, mishaps>>
  /\ SamePairs

\* refreshToken clears the storage, so that logout finds no token to send.
RefreshFailed(c) ==
  /\ call[c].at = "refreshing" /\ call[c].answer \in {"401", "error"}
  /\ SignOut(call[c].tab, Done(c))
  /\ UNCHANGED mishaps
  /\ SamePairs

\* The catchError behind the retry catches the retried request's error too.
RetryFailed(c) ==
  /\ call[c].at = "resent" /\ call[c].answer \in {"401", "error"}
  /\ SignOut(call[c].tab, IF stored = None THEN Done(c)
                          ELSE [call EXCEPT ![c] = LogoutRequest(call[c].tab)])
  /\ UNCHANGED mishaps
  /\ SamePairs

RejectedSilently(c) ==
  /\ call[c].at = "sent" /\ call[c].answer \in {"401", "error"}
  /\ ~(call[c].answer = "401" /\ call[c].access # None /\ stored # None)
  /\ call' = Done(c)
  /\ UNCHANGED <<stored, signedIn, page, mishaps>>
  /\ SamePairs

RejectedUnlessTokenSent(c) ==
  /\ call[c].at = "sent" /\ call[c].answer \in {"401", "error"}
  /\ ~(call[c].answer = "401" /\ call[c].access # None)
  /\ call' = Done(c)
  /\ UNCHANGED <<stored, signedIn, page, mishaps>>
  /\ SamePairs

\* The error reaches the caller; getCurrentUser clears the session, and no
\* navigation follows.
Rejected(c) ==
  /\ call[c].at = "sent" /\ call[c].answer \in {"401", "error"}
  /\ ~(call[c].answer = "401" /\ call[c].access # None /\ stored # None)
  /\ call' = Done(c)
  /\ IF call[c].kind = "me"
     THEN stored' = None /\ signedIn' = [signedIn EXCEPT ![call[c].tab] = FALSE]
     ELSE UNCHANGED <<stored, signedIn>>
  /\ UNCHANGED <<page, mishaps>>
  /\ SamePairs

AtCaller(c) == call[c].at \in {"sent", "resent"} /\ Ok(c)

\* getCurrentUser: the tab is signed in, wherever it is.
MeAnswered(c) ==
  /\ AtCaller(c) /\ call[c].kind = "me"
  /\ signedIn' = [signedIn EXCEPT ![call[c].tab] = TRUE]
  /\ call' = Done(c)
  /\ UNCHANGED <<stored, page, mishaps>>
  /\ SamePairs

\* register switches to a login with the same credentials.
RegisterAnswered(c) ==
  /\ AtCaller(c) /\ call[c].kind = "register"
  /\ call' = [call EXCEPT ![c] = Request("sent", "login", call[c].tab, None, None, None)]
  /\ UNCHANGED <<storageVars, mishaps>>
  /\ SamePairs

LoginAnswered(c) ==
  /\ AtCaller(c) /\ call[c].kind = "login"
  /\ stored' = call[c].gained
  /\ signedIn' = [signedIn EXCEPT ![call[c].tab] = TRUE]
  /\ GoTo(call[c].tab, IF Admin THEN "admin" ELSE "home", Done(c))
  /\ UNCHANGED mishaps
  /\ SamePairs

FetchAnswered(c) ==
  /\ AtCaller(c) /\ call[c].kind \in {"api", "logout"}
  /\ call' = Done(c)
  /\ UNCHANGED <<storageVars, mishaps>>
  /\ SamePairs

Receive(c) ==
  \/ BeginRefresh(c) \/ Refreshed(c) \/ RefreshFailed(c) \/ RetryFailed(c)
  \/ Rejected(c) \/ MeAnswered(c) \/ RegisterAnswered(c) \/ LoginAnswered(c)
  \/ FetchAnswered(c)

Next ==
  \/ \E t \in Tabs, p \in Pages : Navigate(t, p)
  \/ \E t \in Tabs : Reload(t) \/ OtherForm(t)
  \/ \E t \in Tabs, c \in Calls, form \in Forms : SubmitForm(t, c, form)
  \/ \E t \in Tabs, c \in Calls : Fetch(t, c) \/ Logout(t, c)
  \/ \E c \in Calls : Serve(c) \/ Receive(c) \/ Lose(c)
  \/ \E g \in Tokens : Expire(g) \/ EndSession(g)

\* A request sent is served, or fails, and an answer that arrived is handled;
\* nobody has to click, to reload or to expire.
Served(c) == WF_vars(Serve(c) \/ Receive(c))

Fairness == \A c \in Calls : Served(c)

Spec == Init /\ [][Next]_vars /\ Fairness

-----------------------------------------------------------------------------
(* Properties *)

\* The stored refresh token works, unless the server ended the session, a
\* refresh is spending it at this moment, or a reload cut such a refresh short.
\* Logouts, lost answers and requests that refresh at the same time leave no
\* other dead pair behind in localStorage.
StoredTokenIsUsable ==
  stored # None =>
    \/ stored \in live \cup ended
    \/ \E c \in Calls : call[c].at = "refreshing" /\ call[c].refresh = stored

\* No tab keeps a pair the server was told to revoke: the pair that a logout in
\* any tab names is not the one a late answer puts back into storage.  (A refresh
\* that was under way may still store its successor.)
LogoutNamesNoStoredToken ==
  \A c \in Calls : call[c].kind = "logout" /\ ~Free(c) => call[c].body # stored

\* The server or the browser can always go on with a request: no combination of
\* answer, stage, kind and storage is one that no handler takes.
CallsCanMove ==
  \A c \in Calls : ~Free(c) => ENABLED <<Serve(c) \/ Receive(c)>>_vars

\* A page that waits for a request is answered, through refresh, retry and the
\* failures of both: the interceptor neither waits nor retries for ever.
CallsSettle ==
  \A c \in Calls :
    (~Free(c) /\ call[c].kind # "logout") ~> (Free(c) \/ call[c].kind = "logout")

\* The tab has asked who is signed in.
Recovering(t) == \E c \in Calls : ~Free(c) /\ call[c].kind = "me" /\ call[c].tab = t

\* A tab opened with tokens in storage ends signed in, or the tokens go: it is
\* never left at the login page with a session it does not use.
ReloadSettles ==
  \A t \in Tabs : Recovering(t) ~> (signedIn[t] \/ stored = None)
=============================================================================
