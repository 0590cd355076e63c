--------------------------- MODULE ClientAuthProofs ---------------------------
(***************************************************************************)
(* ClientAuth for any number of tabs, requests and mishaps.                *)
(*                                                                         *)
(* A token enters a request or the storage from the storage or from the    *)
(* answer to that very request, so that a pair just answered is known to   *)
(* nobody else (Fresh): no logout names it and no refresh presents it.     *)
(* Therefore what Refreshed and LoginAnswered put into storage is usable,  *)
(* and only the requests the properties except can spend it.               *)
(*                                                                         *)
(* Every step that serves a request or handles its answer brings it nearer *)
(* to its end (Ahead), and no other step but a reload takes it farther.    *)
(* With the fairness of Spec that is enough for every request to end,      *)
(* provided that such a step is always possible: CallsCanMove, which TLC   *)
(* checks, ENABLED being out of the provers' reach.                        *)
(***************************************************************************)
EXTENDS ClientAuth, TLAPS

Fresh ==
  \A c \in Calls : call[c].gained # None =>
    /\ call[c].gained \in live
    /\ call[c].gained # stored
    /\ \A d \in Calls :
         /\ call[c].gained \notin {call[d].access, call[d].body, call[d].refresh}
         /\ d # c => call[d].gained # call[c].gained

\* A form carries no token, so that it is never refreshed; a logout names a token,
\* and nothing else does; a refresh presents one.
Shaped(r) ==
  /\ r.kind \in Forms => r.at \in {"idle", "sent"} /\ r.access = None
  /\ r.kind # "logout" => r.body = None
  /\ r.kind = "logout" /\ r.at # "idle" => r.body # None
  /\ r.at = "refreshing" => r.refresh # None

Shapes == \A c \in Calls : Shaped(call[c])

IInv == TypeOK /\ Shapes /\ Fresh /\ StoredTokenIsUsable /\ LogoutNamesNoStoredToken

\* r follows old: it learns no token but the stored one.
Follows(r, old) ==
  /\ r.gained \in {None, old.gained}
  /\ r.access \in {None, stored, old.access}
  /\ r.body \in {None, stored, old.body}
  /\ r.refresh \in {None, stored, old.refresh}

-----------------------------------------------------------------------------
(* Records *)

LEMMA RequestType ==
  ASSUME NEW at \in Stages, NEW kind \in Kinds, NEW t \in Tabs,
         NEW access \in MaybeToken, NEW body \in MaybeToken, NEW refresh \in MaybeToken
  PROVE  Request(at, kind, t, access, body, refresh) \in Records
BY DEF Request, Records, Answers, MaybeToken

LEMMA IdleType == \A t \in Tabs : Idle(t) \in Records /\ Shaped(Idle(t))
BY RequestType DEF Idle, Stages, Kinds, MaybeToken, Shaped, Request, Forms

LEMMA AnsweredType ==
  ASSUME NEW r \in Records, NEW answer \in Answers, NEW g \in MaybeToken
  PROVE  Answered(r, answer, g) \in Records
BY DEF Answered, Records

LEMMA IdleFollows ==
  ASSUME NEW t \in Tabs, NEW r
  PROVE  Follows(Idle(t), r)
BY DEF Idle, Request, Follows

LEMMA SelfFollows ==
  ASSUME NEW r
  PROVE  Follows(r, r)
BY DEF Follows

-----------------------------------------------------------------------------
(* Steps that bring no new pair into the browser *)

LEMMA PlainStep ==
  ASSUME IInv, TypeOK', Shapes',
         \A d \in Calls : Follows(call'[d], call[d]),
         stored' \in {stored, None},
         \A d \in Calls : call'[d].gained # None => call'[d].gained \in live',
         stored' # None =>
           /\ stored \in live \cup ended => stored \in live' \cup ended'
           /\ \A d \in Calls :
                call[d].at = "refreshing" /\ call[d].refresh = stored =>
                  \/ stored \in ended'
                  \/ call'[d].at = "refreshing" /\ call'[d].refresh = stored
           /\ \A d \in Calls :
                call'[d].kind = "logout" /\ call'[d].at # "idle" =>
                  call[d].kind = "logout" /\ call[d].at # "idle" /\ call'[d].body = call[d].body
  PROVE  IInv'
<1>3. Fresh'
  BY DEF Fresh, Follows, IInv
<1>4. StoredTokenIsUsable'
  BY DEF StoredTokenIsUsable, IInv
<1>5. LogoutNamesNoStoredToken'
  <2>1. CASE stored' = None
    BY <2>1 DEF LogoutNamesNoStoredToken, Shapes, Shaped, Free
  <2>2. CASE stored' # None
    BY <2>2 DEF LogoutNamesNoStoredToken, IInv, Free
  <2> QED BY <2>1, <2>2
<1> QED BY <1>3, <1>4, <1>5 DEF IInv

\* Steps that leave the storage alone.
LEMMA SamePairsStep ==
  ASSUME IInv, call' \in [Calls -> Records], Shapes',
         stored' = stored, signedIn' \in [Tabs -> BOOLEAN],
         page' \in [Tabs -> IF Admin THEN Pages ELSE Pages \ {"admin"}],
         mishaps' \in 0..MaxMishaps,
         \A d \in Calls : Follows(call'[d], call[d]),
         SamePairs,
         \A d \in Calls :
           call[d].at = "refreshing" /\ call[d].refresh = stored =>
             call'[d].at = "refreshing" /\ call'[d].refresh = stored,
         \A d \in Calls :
           call'[d].kind = "logout" /\ call'[d].at # "idle" =>
             call[d].kind = "logout" /\ call[d].at # "idle" /\ call'[d].body = call[d].body
  PROVE  IInv'
<1>1. TypeOK'
  BY DEF IInv, TypeOK, Pairs, SamePairs, MaybeToken
<1>2. live \cap Held' \subseteq live' /\ ended \cap Held' \subseteq ended'
  BY DEF SamePairs, Pairs
<1>3. stored' \in Held' /\ \A d \in Calls : call'[d].gained \in Held'
  BY DEF Held, HeldBy
<1>4. \A d \in Calls : call'[d].gained # None => call'[d].gained \in live'
  BY <1>2, <1>3 DEF Follows, IInv, Fresh
<1>5. stored \in live \cup ended => stored \in live' \cup ended'
  BY <1>2, <1>3
<1> QED BY <1>1, <1>4, <1>5, PlainStep

LEMMA OneCallStep ==
  ASSUME IInv, NEW c \in Calls, NEW r \in Records, Shaped(r),
         call' = [call EXCEPT ![c] = r],
         stored' = stored, signedIn' \in [Tabs -> BOOLEAN],
         page' \in [Tabs -> IF Admin THEN Pages ELSE Pages \ {"admin"}],
         mishaps' \in 0..MaxMishaps,
         Follows(r, call[c]),
         SamePairs,
         call[c].at = "refreshing" /\ call[c].refresh = stored =>
           r.at = "refreshing" /\ r.refresh = stored,
         r.kind = "logout" /\ r.at # "idle" =>
           call[c].kind = "logout" /\ call[c].at # "idle" /\ r.body = call[c].body
  PROVE  IInv'
<1>1. call \in [Calls -> Records] /\ Shapes
  BY DEF IInv, TypeOK
<1>2. call' \in [Calls -> Records] /\ \A d \in Calls : call'[d] = IF d = c THEN r ELSE call[d]
  BY <1>1
<1>3. Shapes'
  BY <1>1, <1>2 DEF Shapes
<1>4. \A d \in Calls : Follows(call'[d], call[d])
  BY <1>2, SelfFollows
<1> QED BY <1>2, <1>3, <1>4, SamePairsStep

\* Steps that clear the storage.
LEMMA SignedOutStep ==
  ASSUME IInv, call' \in [Calls -> Records], Shapes',
         stored' = None, signedIn' \in [Tabs -> BOOLEAN],
         page' \in [Tabs -> IF Admin THEN Pages ELSE Pages \ {"admin"}],
         mishaps' \in 0..MaxMishaps,
         \A d \in Calls : Follows(call'[d], call[d]),
         SamePairs
  PROVE  IInv'
<1>1. TypeOK'
  BY DEF IInv, TypeOK, Pairs, SamePairs, MaybeToken
<1>2. live \cap Held' \subseteq live'
  BY DEF SamePairs, Pairs
<1>3. \A d \in Calls : call'[d].gained \in Held'
  BY DEF Held, HeldBy
<1>4. \A d \in Calls : call'[d].gained # None => call'[d].gained \in live'
  BY <1>2, <1>3 DEF Follows, IInv, Fresh
<1> QED BY <1>1, <1>4, PlainStep

\* The answers that store a pair: from then on only the storage knows it.
LEMMA StoringStep ==
  ASSUME IInv, NEW c \in Calls, NEW r \in Records, Shaped(r), r.gained = None, call[c].at # "idle",
         r.access \in {None, call[c].access, call[c].gained}, r.body \in {None, call[c].body},
         r.refresh = None,
         r.at # "idle" => r.kind = call[c].kind,
         call' \in [Calls -> Records], Shapes',
         \A d \in Calls : call'[d] = call[d] \/ (\E t \in Tabs : call'[d] = Idle(t)) \/ (d = c /\ call'[d] = r),
         call'[c].gained = None,
         stored' = call[c].gained, signedIn' \in [Tabs -> BOOLEAN],
         page' \in [Tabs -> IF Admin THEN Pages ELSE Pages \ {"admin"}],
         mishaps' = mishaps,
         r.body = call[c].body \/ r.at = "idle",
         SamePairs
  PROVE  IInv'
<1>1. TypeOK'
  BY DEF IInv, TypeOK, Pairs, SamePairs, Records
<1>2. live \cap Held' \subseteq live'
  BY DEF SamePairs, Pairs
<1>3. stored' \in Held' /\ \A d \in Calls : call'[d].gained \in Held'
  BY DEF Held, HeldBy
<1>4. \A t \in Tabs : /\ Idle(t).gained = None /\ Idle(t).access = None /\ Idle(t).body = None
                      /\ Idle(t).refresh = None /\ Idle(t).at = "idle"
  BY DEF Idle, Request
<1>5. Fresh
  BY DEF IInv
<1>6. Fresh'
  <2> SUFFICES ASSUME NEW e \in Calls, call'[e].gained # None
               PROVE  /\ call'[e].gained \in live' /\ call'[e].gained # stored'
                      /\ \A d \in Calls :
                           /\ call'[e].gained \notin {call'[d].access, call'[d].body, call'[d].refresh}
                           /\ d # e => call'[d].gained # call'[e].gained
    BY DEF Fresh
  <2>1. call'[e] = call[e] /\ e # c
    BY <1>4
  <2>2. call[e].gained \in live /\ call[e].gained # call[c].gained
    BY <1>5, <2>1 DEF Fresh
  <2>3. ASSUME NEW d \in Calls
        PROVE  /\ call'[e].gained \notin {call'[d].access, call'[d].body, call'[d].refresh}
               /\ d # e => call'[d].gained # call'[e].gained
    <3>1. /\ call[e].gained \notin {call[d].access, call[d].body, call[d].refresh}
          /\ d # e => call[d].gained # call[e].gained
      BY <1>5, <2>1 DEF Fresh
    <3> QED BY <3>1, <2>1, <2>2, <1>4
  <2> QED BY <2>1, <2>2, <2>3, <1>2, <1>3
<1>7. StoredTokenIsUsable'
  BY <1>2, <1>3, <1>5 DEF StoredTokenIsUsable, Fresh
<1>8. LogoutNamesNoStoredToken'
  <2> SUFFICES ASSUME NEW d \in Calls, call'[d].kind = "logout", call'[d].at # "idle"
               PROVE  call'[d].body # stored'
    BY DEF LogoutNamesNoStoredToken, Free
  <2>1. call'[d].body = call[d].body
    BY <1>4
  <2>2. call'[d].body # None
    BY DEF Shapes, Shaped
  <2> QED BY <2>1, <2>2, <1>5 DEF Fresh
<1> QED BY <1>1, <1>6, <1>7, <1>8 DEF IInv

-----------------------------------------------------------------------------
(* One lemma per action *)

LEMMA Types ==
  ASSUME IInv
  PROVE  /\ call \in [Calls -> Records] /\ stored \in MaybeToken
         /\ signedIn \in [Tabs -> BOOLEAN]
         /\ page \in [Tabs -> IF Admin THEN Pages ELSE Pages \ {"admin"}]
         /\ mishaps \in 0..MaxMishaps
         /\ live \subseteq Tokens /\ stale \subseteq Tokens /\ ended \subseteq Tokens
         /\ \A c \in Calls : Shaped(call[c]) /\ call[c] \in Records
BY DEF IInv, TypeOK, Shapes

\* Where a navigation ends is a page the account may see.
LEMMA LandingType ==
  ASSUME NEW t \in Tabs, NEW p \in Pages
  PROVE  Landing(t, p) \in IF Admin THEN Pages ELSE Pages \ {"admin"}
BY DEF Landing, Pages, Guarded

\* A page that is left aborts the request of its form, and nothing else.
LEMMA LeavingType ==
  ASSUME NEW t \in Tabs, NEW p, NEW calls \in [Calls -> Records]
  PROVE  /\ Leaving(t, p, calls) \in [Calls -> Records]
         /\ \A d \in Calls : \/ Leaving(t, p, calls)[d] = calls[d]
                             \/ Leaving(t, p, calls)[d] = Idle(t) /\ calls[d].kind \in Forms
                                  /\ calls[d].at # "idle"
BY IdleType DEF Leaving, OfForm

LEMMA IdleFields ==
  ASSUME NEW t
  PROVE  /\ Idle(t).at = "idle" /\ Idle(t).kind = "api"
         /\ Idle(t).gained = None /\ Idle(t).access = None /\ Idle(t).body = None
         /\ Idle(t).refresh = None
BY DEF Idle, Request

\* Requests of forms aborted, everything else as it was.
LEMMA AbortedForms ==
  ASSUME IInv, call' \in [Calls -> Records],
         \A d \in Calls :
           \/ call'[d] = call[d]
           \/ \E t \in Tabs : call'[d] = Idle(t) /\ call[d].kind \in Forms /\ call[d].at # "idle",
         stored' = stored, signedIn' = signedIn,
         page' \in [Tabs -> IF Admin THEN Pages ELSE Pages \ {"admin"}],
         mishaps' = mishaps, SamePairs
  PROVE  IInv'
<1>1. Shapes'
  BY Types, IdleType DEF Shapes
<1>2. \A d \in Calls : Follows(call'[d], call[d])
  BY SelfFollows, IdleFollows
<1>3. \A d \in Calls :
        call[d].at = "refreshing" /\ call[d].refresh = stored =>
          call'[d].at = "refreshing" /\ call'[d].refresh = stored
  BY Types DEF Shaped
<1>4. \A d \in Calls :
        call'[d].kind = "logout" /\ call'[d].at # "idle" =>
          call[d].kind = "logout" /\ call[d].at # "idle" /\ call'[d].body = call[d].body
  BY IdleFields
<1> QED BY <1>1, <1>2, <1>3, <1>4, Types, SamePairsStep

LEMMA OtherFormStep ==
  ASSUME IInv, NEW t \in Tabs, OtherForm(t)
  PROVE  IInv'
<1>1. call' \in [Calls -> Records]
  BY Types, IdleType DEF OtherForm
<1>2. \A d \in Calls :
           \/ call'[d] = call[d]
           \/ \E u \in Tabs : call'[d] = Idle(u) /\ call[d].kind \in Forms /\ call[d].at # "idle"
  BY DEF OtherForm, OfForm
<1> QED BY <1>1, <1>2, Types, AbortedForms DEF OtherForm, storageVars

LEMMA NavigateStep ==
  ASSUME IInv, NEW t \in Tabs, NEW p \in Pages, Navigate(t, p)
  PROVE  IInv'
<1>1. call' = Leaving(t, Landing(t, p), call) /\ page' = [page EXCEPT ![t] = Landing(t, p)]
  BY DEF Navigate, GoTo
<1>2. page' \in [Tabs -> IF Admin THEN Pages ELSE Pages \ {"admin"}]
  BY <1>1, LandingType, Types
<1>3. call' \in [Calls -> Records] /\ \A d \in Calls :
           \/ call'[d] = call[d]
           \/ \E u \in Tabs : call'[d] = Idle(u) /\ call[d].kind \in Forms /\ call[d].at # "idle"
  BY <1>1, Types, LeavingType
<1> QED BY <1>2, <1>3, AbortedForms DEF Navigate

LEMMA SubmitFormStep ==
  ASSUME IInv, NEW t \in Tabs, NEW c \in Calls, NEW form \in Forms, SubmitForm(t, c, form)
  PROVE  IInv'
<1> DEFINE r == Request("sent", form, t, None, None, None)
<1>1. r \in Records
  BY RequestType DEF Stages, Kinds, Forms, MaybeToken
<1>2. Shaped(r) /\ Follows(r, call[c]) /\ r.kind # "logout" /\ call[c].at = "idle"
  BY DEF Shaped, Follows, Request, Forms, SubmitForm, Spare, Free
<1>3. call' = [call EXCEPT ![c] = r] /\ SamePairs /\ stored' = stored /\ signedIn' = signedIn
        /\ page' = page /\ mishaps' = mishaps
  BY DEF SubmitForm, storageVars
<1> HIDE DEF r
<1> QED BY <1>1, <1>2, <1>3, Types, OneCallStep

LEMMA FetchStep ==
  ASSUME IInv, NEW t \in Tabs, NEW c \in Calls, Fetch(t, c)
  PROVE  IInv'
<1> DEFINE r == Request("sent", "api", t, stored, None, None)
<1>1. r \in Records
  BY RequestType, Types DEF Stages, Kinds, MaybeToken
<1>2. Shaped(r) /\ Follows(r, call[c]) /\ r.kind # "logout" /\ call[c].at = "idle"
  BY DEF Shaped, Follows, Request, Forms, Fetch, Spare, Free
<1>3. call' = [call EXCEPT ![c] = r] /\ SamePairs /\ stored' = stored /\ signedIn' = signedIn
        /\ page' = page /\ mishaps' = mishaps
  BY DEF Fetch, storageVars
<1> HIDE DEF r
<1> QED BY <1>1, <1>2, <1>3, Types, OneCallStep

LEMMA AnswerStep ==
  ASSUME IInv, NEW c \in Calls, NEW answer \in Answers, Answer(c, answer),
         UNCHANGED storageVars, mishaps' \in 0..MaxMishaps
  PROVE  IInv'
<1> DEFINE r == Answered(call[c], answer, None)
<1>1. r \in Records
  BY AnsweredType, Types DEF MaybeToken
<1>2. /\ Shaped(r) /\ Follows(r, call[c]) /\ r.at = call[c].at /\ r.refresh = call[c].refresh
      /\ r.kind = call[c].kind /\ r.body = call[c].body
  BY Types DEF Shaped, Follows, Answered
<1>3. call' = [call EXCEPT ![c] = r] /\ SamePairs /\ stored' = stored /\ signedIn' = signedIn
        /\ page' = page
  BY DEF Answer, storageVars
<1> HIDE DEF r
<1> QED BY <1>1, <1>2, <1>3, Types, OneCallStep

LEMMA LoseStep ==
  ASSUME IInv, NEW c \in Calls, Lose(c)
  PROVE  IInv'
BY AnswerStep, Types, ClientAssumption DEF Lose, Mishap, Answers

LEMMA BeginRefreshStep ==
  ASSUME IInv, NEW c \in Calls, BeginRefresh(c)
  PROVE  IInv'
<1> DEFINE r == Request("refreshing", call[c].kind, call[c].tab, None, call[c].body, stored)
<1>1. r \in Records
  BY RequestType, Types DEF Stages, MaybeToken, Records
<1>2. /\ Shaped(r) /\ Follows(r, call[c]) /\ call[c].at = "sent"
      /\ r.kind = call[c].kind /\ r.body = call[c].body
  BY Types DEF Shaped, Follows, Request, BeginRefresh
<1>3. call' = [call EXCEPT ![c] = r] /\ SamePairs /\ stored' = stored /\ signedIn' = signedIn
        /\ page' = page /\ mishaps' = mishaps
  BY DEF BeginRefresh, storageVars
<1> HIDE DEF r
<1> QED BY <1>1, <1>2, <1>3, Types, OneCallStep

\* A request is done with: its slot is idle.
LEMMA DoneStep ==
  ASSUME IInv, NEW c \in Calls, call' = Done(c), call[c].at # "refreshing",
         stored' = stored, signedIn' \in [Tabs -> BOOLEAN], page' = page, mishaps' = mishaps,
         SamePairs
  PROVE  IInv'
<1> DEFINE r == Idle(call[c].tab)
<1>1. r \in Records /\ Shaped(r)
  BY IdleType, Types DEF Records
<1>2. Follows(r, call[c]) /\ r.at = "idle"
  BY IdleFields DEF Follows
<1>3. call' = [call EXCEPT ![c] = r]
  BY DEF Done
<1> HIDE DEF r
<1> QED BY <1>1, <1>2, <1>3, Types, OneCallStep

LEMMA MeAnsweredStep ==
  ASSUME IInv, NEW c \in Calls, MeAnswered(c)
  PROVE  IInv'
<1>1. signedIn' \in [Tabs -> BOOLEAN]
  BY Types DEF MeAnswered
<1> QED BY <1>1, DoneStep DEF MeAnswered, AtCaller

LEMMA FetchAnsweredStep ==
  ASSUME IInv, NEW c \in Calls, FetchAnswered(c)
  PROVE  IInv'
BY Types, DoneStep DEF FetchAnswered, AtCaller, storageVars

LEMMA RegisterAnsweredStep ==
  ASSUME IInv, NEW c \in Calls, RegisterAnswered(c)
  PROVE  IInv'
<1> DEFINE r == Request("sent", "login", call[c].tab, None, None, None)
<1>0. call[c].tab \in Tabs
  BY Types DEF Records
<1>1. r \in Records
  BY <1>0, RequestType DEF Stages, Kinds, MaybeToken
<1>2. Shaped(r) /\ Follows(r, call[c]) /\ r.kind # "logout" /\ call[c].at # "refreshing"
  BY DEF Shaped, Follows, Request, Forms, RegisterAnswered, AtCaller
<1>3. call' = [call EXCEPT ![c] = r] /\ SamePairs /\ stored' = stored /\ signedIn' = signedIn
        /\ page' = page /\ mishaps' = mishaps
  BY DEF RegisterAnswered, storageVars
<1> HIDE DEF r
<1> QED BY <1>1, <1>2, <1>3, Types, OneCallStep

LEMMA SignOutStep ==
  ASSUME IInv, NEW t \in Tabs, NEW calls \in [Calls -> Records],
         \A d \in Calls : Shaped(calls[d]) /\ Follows(calls[d], call[d]),
         SignOut(t, calls), mishaps' = mishaps, SamePairs
  PROVE  IInv'
<1>1. call' = Leaving(t, "login", calls)
  BY DEF SignOut, GoTo
<1>2. call' \in [Calls -> Records]
  BY <1>1, LeavingType
<1>3. \A d \in Calls : call'[d] = calls[d] \/ call'[d] = Idle(t)
  BY <1>1, LeavingType
<1>4. Shapes'
  BY <1>3, IdleType DEF Shapes
<1>5. \A d \in Calls : Follows(call'[d], call[d])
  BY <1>3, IdleFollows
<1>6. /\ signedIn' \in [Tabs -> BOOLEAN] /\ stored' = None
      /\ page' \in [Tabs -> IF Admin THEN Pages ELSE Pages \ {"admin"}]
  BY Types DEF SignOut, GoTo, Pages, Guarded
<1> QED BY <1>2, <1>4, <1>5, <1>6, Types, SignedOutStep

\* The same for one request replaced by a new one, or by none.
LEMMA OneCallSignOut ==
  ASSUME IInv, NEW t \in Tabs, NEW c \in Calls, NEW r \in Records,
         Shaped(r), Follows(r, call[c]),
         SignOut(t, [call EXCEPT ![c] = r]), mishaps' = mishaps, SamePairs
  PROVE  IInv'
<1> DEFINE calls == [call EXCEPT ![c] = r]
<1>1. calls \in [Calls -> Records]
  BY Types
<1>2. \A d \in Calls : Shaped(calls[d]) /\ Follows(calls[d], call[d])
  BY Types, SelfFollows
<1>3. SignOut(t, calls)
  OBVIOUS
<1> HIDE DEF calls
<1> QED BY <1>1, <1>2, <1>3, SignOutStep

LEMMA LogoutRequestType ==
  ASSUME IInv, NEW t \in Tabs, stored # None, NEW old
  PROVE  /\ LogoutRequest(t) \in Records /\ Shaped(LogoutRequest(t))
         /\ Follows(LogoutRequest(t), old)
<1>1. LogoutRequest(t) \in Records
  BY Types, RequestType DEF LogoutRequest, Stages, Kinds, MaybeToken
<1>2. Shaped(LogoutRequest(t)) /\ Follows(LogoutRequest(t), old)
  BY DEF LogoutRequest, Request, Shaped, Follows, Forms
<1> QED BY <1>1, <1>2

LEMMA LogoutStep ==
  ASSUME IInv, NEW t \in Tabs, NEW c \in Calls, Logout(t, c)
  PROVE  IInv'
<1>1. CASE stored = None
  <2>1. SignOut(t, call)
    BY <1>1 DEF Logout
  <2> QED BY <2>1, Types, SelfFollows, SignOutStep DEF Logout
<1>2. CASE stored # None
  <2>1. SignOut(t, [call EXCEPT ![c] = LogoutRequest(t)])
    BY <1>2 DEF Logout
  <2> QED BY <1>2, <2>1, LogoutRequestType, OneCallSignOut DEF Logout
<1> QED BY <1>1, <1>2

LEMMA TabOf == IInv => \A c \in Calls : call[c].tab \in Tabs
BY Types DEF Records

LEMMA RefreshFailedStep ==
  ASSUME IInv, NEW c \in Calls, RefreshFailed(c)
  PROVE  IInv'
<1>1. SignOut(call[c].tab, [call EXCEPT ![c] = Idle(call[c].tab)])
  BY DEF RefreshFailed, Done
<1> QED BY <1>1, TabOf, IdleType, IdleFollows, OneCallSignOut DEF RefreshFailed

LEMMA RetryFailedStep ==
  ASSUME IInv, NEW c \in Calls, RetryFailed(c)
  PROVE  IInv'
<1>1. CASE stored = None
  <2>1. SignOut(call[c].tab, [call EXCEPT ![c] = Idle(call[c].tab)])
    BY <1>1 DEF RetryFailed, Done
  <2> QED BY <2>1, TabOf, IdleType, IdleFollows, OneCallSignOut DEF RetryFailed
<1>2. CASE stored # None
  <2>1. SignOut(call[c].tab, [call EXCEPT ![c] = LogoutRequest(call[c].tab)])
    BY <1>2 DEF RetryFailed
  <2> QED BY <1>2, <2>1, TabOf, LogoutRequestType, OneCallSignOut DEF RetryFailed
<1> QED BY <1>1, <1>2

LEMMA DoneCalls ==
  ASSUME IInv, NEW c \in Calls
  PROVE  /\ Done(c) \in [Calls -> Records]
         /\ \A d \in Calls : Done(c)[d] = IF d = c THEN Idle(call[c].tab) ELSE call[d]
         /\ \A d \in Calls : Shaped(Done(c)[d]) /\ Follows(Done(c)[d], call[d])
BY Types, TabOf, IdleType, IdleFollows, SelfFollows DEF Done

LEMMA RejectedStep ==
  ASSUME IInv, NEW c \in Calls, Rejected(c)
  PROVE  IInv'
<1>1. CASE call[c].kind = "me"
  <2>1. stored' = None /\ call' = Done(c) /\ page' = page /\ mishaps' = mishaps /\ SamePairs
    BY <1>1 DEF Rejected
  <2>2. signedIn' \in [Tabs -> BOOLEAN]
    BY <1>1, Types DEF Rejected
  <2>3. Shapes'
    BY <2>1, DoneCalls DEF Shapes
  <2> QED BY <2>1, <2>2, <2>3, DoneCalls, Types, SignedOutStep
<1>2. CASE call[c].kind # "me"
  BY <1>2, Types, DoneStep DEF Rejected
<1> QED BY <1>1, <1>2

LEMMA RefreshedStep ==
  ASSUME IInv, NEW c \in Calls, Refreshed(c)
  PROVE  IInv'
<1> DEFINE r == Request("resent", call[c].kind, call[c].tab, call[c].gained, call[c].body, None)
<1>0. /\ call[c].kind \in Kinds /\ call[c].gained \in MaybeToken /\ call[c].body \in MaybeToken
      /\ None \in MaybeToken
  BY Types DEF Records, MaybeToken
<1>1. r \in Records
  BY <1>0, RequestType, TabOf DEF Stages
<1>2. /\ Shaped(r) /\ r.gained = None /\ call[c].at # "idle"
      /\ r.access = call[c].gained /\ r.body = call[c].body /\ r.refresh = None
      /\ r.kind = call[c].kind
  BY Types DEF Shaped, Request, Refreshed
<1>3. /\ call' = [call EXCEPT ![c] = r] /\ SamePairs /\ stored' = call[c].gained
      /\ signedIn' = signedIn /\ page' = page /\ mishaps' = mishaps
  BY DEF Refreshed
<1> HIDE DEF r
<1>4. /\ call' \in [Calls -> Records]
      /\ \A d \in Calls : call'[d] = IF d = c THEN r ELSE call[d]
  BY <1>1, <1>3, Types
<1>5. Shapes'
  BY <1>2, <1>4, Types DEF Shapes
<1> QED BY <1>1, <1>2, <1>3, <1>4, <1>5, Types, StoringStep

LEMMA LoginAnsweredStep ==
  ASSUME IInv, NEW c \in Calls, LoginAnswered(c)
  PROVE  IInv'
<1> DEFINE t == call[c].tab
           p == IF Admin THEN "admin" ELSE "home"
           r == Idle(t)
<1>1. t \in Tabs
  BY TabOf
<1>2. /\ call' = Leaving(t, p, Done(c)) /\ page' = [page EXCEPT ![t] = p]
      /\ signedIn' = [signedIn EXCEPT ![t] = TRUE] /\ stored' = call[c].gained
      /\ mishaps' = mishaps /\ SamePairs /\ call[c].at # "idle"
  BY DEF LoginAnswered, GoTo, AtCaller
<1>3. /\ signedIn' \in [Tabs -> BOOLEAN]
      /\ page' \in [Tabs -> IF Admin THEN Pages ELSE Pages \ {"admin"}]
  BY <1>2, Types, ClientAssumption DEF Pages, Guarded
<1>4. /\ r \in Records /\ Shaped(r) /\ r.gained = None /\ r.access = None /\ r.body = None
      /\ r.refresh = None /\ r.at = "idle"
  BY <1>1, IdleType, IdleFields
<1> HIDE DEF t, p
<1>5. /\ call' \in [Calls -> Records]
      /\ \A d \in Calls : call'[d] = Done(c)[d] \/ call'[d] = Idle(t)
  BY <1>1, <1>2, DoneCalls, LeavingType
<1>6. \A d \in Calls : call'[d] = call[d] \/ call'[d] = Idle(t)
  BY <1>5, DoneCalls DEF t
<1>7. call'[c] = r
  BY <1>5, DoneCalls DEF t
<1>8. Shapes'
  BY <1>1, <1>6, Types, IdleType DEF Shapes
<1> HIDE DEF r
<1> QED BY <1>1, <1>2, <1>3, <1>4, <1>5, <1>6, <1>7, <1>8, StoringStep

LEMMA ReloadStep ==
  ASSUME IInv, NEW t \in Tabs, Reload(t)
  PROVE  IInv'
<1> DEFINE aborted == [c \in Calls |-> IF call[c].tab = t THEN Idle(t) ELSE call[c]]
           Me == Request("sent", "me", t, stored, None, None)
<1>1. /\ stored' = stored /\ signedIn' = [signedIn EXCEPT ![t] = FALSE]
      /\ page' = [page EXCEPT ![t] = "login"] /\ mishaps' \in 0..MaxMishaps
  BY Types, ClientAssumption DEF Reload, Mishap
<1>2. /\ signedIn' \in [Tabs -> BOOLEAN]
      /\ page' \in [Tabs -> IF Admin THEN Pages ELSE Pages \ {"admin"}]
  BY <1>1, Types DEF Pages, Guarded
<1>3. /\ call' \in [Calls -> Records]
      /\ \A d \in Calls : \/ call'[d] = call[d]
                          \/ call'[d] = Idle(t) /\ call[d].tab = t
                          \/ call'[d] = Me /\ (call[d].at = "idle" \/ call[d].tab = t)
  <2>1. aborted \in [Calls -> Records]
    BY Types, IdleType
  <2>2. Me \in Records
    BY Types, RequestType DEF Stages, Kinds, MaybeToken
  <2>3. CASE stored = None
    <3>1. call' = aborted
      BY <2>3 DEF Reload
    <3> QED BY <2>1, <3>1
  <2>4. CASE stored # None
    <3>1. PICK c, d \in Calls : /\ aborted[c].at = "idle" /\ aborted[d].at = "idle"
                               /\ call' = [aborted EXCEPT ![c] = Me, ![d] = Me]
      BY <2>4 DEF Reload
    <3> HIDE DEF Me
    <3> QED BY <2>1, <2>2, <3>1
  <2> QED BY <2>3, <2>4
<1>4. /\ Shaped(Me) /\ Me.gained = None /\ Me.access = stored /\ Me.body = None
      /\ Me.refresh = None /\ Me.kind = "me"
  BY DEF Shaped, Request, Forms
<1>5. /\ live' = live \cap Held' /\ stale' = stale \cap InUse'
      /\ ended' = (ended \cup {call[c].refresh :
              c \in {d \in Calls : call[d].tab = t /\ call[d].at = "refreshing"}}) \cap Held'
  BY DEF Reload, Pairs
<1> HIDE DEF Me, aborted
<1>6. stored' \in Held' /\ \A d \in Calls : call'[d].gained \in Held'
  BY DEF Held, HeldBy
<1>7. TypeOK'
  <2>1. ended' \subseteq Tokens
    <3>1. \A c \in Calls : call[c].at = "refreshing" => call[c].refresh \in Tokens
      BY Types DEF Shaped, Records, MaybeToken
    <3> QED BY <3>1, <1>5, Types
  <2> QED BY <1>1, <1>2, <1>3, <1>5, <2>1, Types DEF TypeOK
<1>8. Shapes'
  BY <1>3, <1>4, Types, IdleType DEF Shapes
<1>9. \A d \in Calls : Follows(call'[d], call[d])
  BY <1>3, <1>4, SelfFollows, IdleFollows DEF Follows
<1>10. \A d \in Calls : call'[d].gained # None => call'[d].gained \in live'
  BY <1>3, <1>4, <1>5, <1>6, IdleFields DEF IInv, Fresh
<1>11. stored \in live \cup ended => stored \in live' \cup ended'
  BY <1>1, <1>5, <1>6
<1>12. \A d \in Calls : call[d].at = "refreshing" /\ call[d].refresh = stored =>
         \/ stored \in ended'
         \/ call'[d].at = "refreshing" /\ call'[d].refresh = stored
  BY <1>1, <1>3, <1>5, <1>6
<1>13. \A d \in Calls :
         call'[d].kind = "logout" /\ call'[d].at # "idle" =>
           call[d].kind = "logout" /\ call[d].at # "idle" /\ call'[d].body = call[d].body
  BY <1>3, <1>4, IdleFields
<1> QED BY <1>1, <1>7, <1>8, <1>9, <1>10, <1>11, <1>12, <1>13, PlainStep

\* The server brings a new pair into the browser: the answer alone knows it.
LEMMA IssueStep ==
  ASSUME IInv, NEW c \in Calls, NEW spent,
         spent = {} \/ (spent = {call[c].refresh} /\ call[c].at = "refreshing"),
         Issue(c, spent), UNCHANGED storageVars, mishaps' = mishaps
  PROVE  IInv'
<1>1. PICK g \in Tokens : /\ g \notin Held
                          /\ call' = [call EXCEPT ![c] = Answered(call[c], "ok", g)]
                          /\ Pairs((live \ spent) \cup {g}, stale, ended)
  BY DEF Issue
<1> DEFINE r == Answered(call[c], "ok", g)
<1>2. /\ r \in Records
      /\ Shaped(r) /\ r.gained = g /\ r.at = call[c].at /\ r.refresh = call[c].refresh
      /\ r.kind = call[c].kind /\ r.body = call[c].body /\ r.access = call[c].access
  BY AnsweredType, Types DEF Answered, Shaped, Answers, MaybeToken
<1>3. /\ call' = [call EXCEPT ![c] = r]
      /\ stored' = stored /\ signedIn' = signedIn /\ page' = page
      /\ live' = ((live \ spent) \cup {g}) \cap Held'
      /\ stale' = stale \cap InUse' /\ ended' = ended \cap Held'
  BY <1>1 DEF storageVars, Pairs
<1> HIDE DEF r
<1>4. /\ call' \in [Calls -> Records]
      /\ \A d \in Calls : call'[d] = IF d = c THEN r ELSE call[d]
  BY <1>2, <1>3, Types
<1>5. /\ g # None /\ g # stored
      /\ \A d \in Calls : g \notin {call[d].access, call[d].body, call[d].refresh, call[d].gained}
  BY <1>1, ClientAssumption DEF Held, HeldBy
<1>6. stored' \in Held' /\ \A d \in Calls : call'[d].gained \in Held'
  BY DEF Held, HeldBy
<1>7. TypeOK'
  BY <1>3, <1>4, Types DEF TypeOK
<1>8. Shapes'
  BY <1>2, <1>4, Types DEF Shapes
<1>9. Fresh'
  <2> SUFFICES ASSUME NEW e \in Calls, call'[e].gained # None
               PROVE  /\ call'[e].gained \in live' /\ call'[e].gained # stored'
                      /\ \A d \in Calls :
                           /\ call'[e].gained \notin {call'[d].access, call'[d].body, call'[d].refresh}
                           /\ d # e => call'[d].gained # call'[e].gained
    BY DEF Fresh
  <2>1. CASE e = c
    BY <2>1, <1>2, <1>3, <1>4, <1>5, <1>6
  <2>2. CASE e # c
    BY <2>2, <1>2, <1>3, <1>4, <1>5, <1>6 DEF IInv, Fresh
  <2> QED BY <2>1, <2>2
<1>10. StoredTokenIsUsable'
  BY <1>2, <1>3, <1>4, <1>6 DEF StoredTokenIsUsable, IInv
<1>11. LogoutNamesNoStoredToken'
  BY <1>2, <1>3, <1>4 DEF LogoutNamesNoStoredToken, IInv, Free
<1> QED BY <1>7, <1>8, <1>9, <1>10, <1>11 DEF IInv

\* A logout is served: the pair it revokes is not the stored one.
LEMMA ServeGuardedStep ==
  ASSUME IInv, NEW c \in Calls, ~Free(c), ServeGuarded(c), UNCHANGED storageVars, mishaps' = mishaps
  PROVE  IInv'
<1>1. CASE Answer(c, "401") \/ Answer(c, "error")
  BY <1>1, AnswerStep, Types DEF Answers
<1>2. ASSUME NEW answer \in {"ok", "error"},
             call' = [call EXCEPT ![c] = Answered(call[c], answer, None)],
             Pairs(live \ {call[c].body}, stale, ended)
      PROVE  IInv'
  <2> DEFINE r == Answered(call[c], answer, None)
  <2>1. /\ call' = [call EXCEPT ![c] = r]
        /\ live' = (live \ {call[c].body}) \cap Held'
        /\ stale' = stale \cap InUse' /\ ended' = ended \cap Held'
        /\ stored' = stored /\ signedIn' = signedIn /\ page' = page
    BY <1>2 DEF Pairs, storageVars
  <2>2. /\ r \in Records
        /\ Shaped(r) /\ r.gained = None /\ r.at = call[c].at /\ r.refresh = call[c].refresh
        /\ r.kind = call[c].kind /\ r.body = call[c].body /\ r.access = call[c].access
    BY AnsweredType, Types DEF Answered, Shaped, Answers, MaybeToken
  <2> HIDE DEF r
  <2>3. /\ call' \in [Calls -> Records]
        /\ \A d \in Calls : call'[d] = IF d = c THEN r ELSE call[d]
    BY <2>1, <2>2, Types
  <2>4. TypeOK'
    BY <2>1, <2>3, Types DEF TypeOK
  <2>5. Shapes'
    BY <2>2, <2>3, Types DEF Shapes
  <2>6. \A d \in Calls : Follows(call'[d], call[d])
    BY <2>2, <2>3 DEF Follows
  <2>7. stored' \in Held' /\ \A d \in Calls : call'[d].gained \in Held'
    BY DEF Held, HeldBy
  <2>8. call[c].body = None \/ call[c].body # stored
    BY Types DEF Shaped, IInv, LogoutNamesNoStoredToken
  <2>9. \A d \in Calls : call'[d].gained # None => call'[d].gained \in live'
    BY <2>1, <2>2, <2>3, <2>7 DEF IInv, Fresh
  <2>10. stored' # None => (stored \in live \cup ended => stored \in live' \cup ended')
    BY <2>1, <2>7, <2>8
  <2> QED BY <2>1, <2>2, <2>3, <2>4, <2>5, <2>6, <2>9, <2>10, PlainStep
<1> QED BY <1>1, <1>2 DEF ServeGuarded

LEMMA ServeStep ==
  ASSUME IInv, NEW c \in Calls, Serve(c)
  PROVE  IInv'
<1>1. ~Free(c) /\ UNCHANGED storageVars /\ mishaps' = mishaps
  BY DEF Serve, Waiting
<1>2. CASE call[c].at = "refreshing" /\ ServeRefresh(c)
  <2>1. CASE Issue(c, {call[c].refresh})
    BY <1>1, <1>2, <2>1, IssueStep
  <2>2. CASE Answer(c, "401")
    BY <1>1, <2>2, AnswerStep, Types DEF Answers
  <2> QED BY <1>2, <2>1, <2>2 DEF ServeRefresh
<1>3. CASE ServeGuarded(c)
  BY <1>1, <1>3, ServeGuardedStep
<1>4. CASE ServeForm(c)
  <2>1. CASE Answer(c, "error") \/ Answer(c, "ok")
    BY <1>1, <2>1, AnswerStep, Types DEF Answers
  <2>2. CASE Issue(c, {})
    BY <1>1, <2>2, IssueStep
  <2> QED BY <1>4, <2>1, <2>2 DEF ServeForm
<1> QED BY <1>2, <1>3, <1>4 DEF Serve

LEMMA ExpireStep ==
  ASSUME IInv, NEW g \in Tokens, Expire(g)
  PROVE  IInv'
<1>1. /\ UNCHANGED <<stored, signedIn, page, call, live, ended>> /\ stale' \subseteq Tokens
      /\ mishaps' \in 0..MaxMishaps
  BY Types, ClientAssumption DEF Expire, Mishap, storageVars
<1> QED BY <1>1 DEF IInv, TypeOK, Shapes, Fresh, StoredTokenIsUsable,
                    LogoutNamesNoStoredToken, Free

LEMMA EndSessionStep ==
  ASSUME IInv, NEW g \in Tokens, EndSession(g)
  PROVE  IInv'
<1>1. /\ UNCHANGED <<stored, signedIn, page, call, stale>> /\ g = stored
      /\ live' = live \ {g} /\ ended' = ended \cup {g} /\ mishaps' \in 0..MaxMishaps
  BY Types, ClientAssumption DEF EndSession, Mishap, storageVars
<1>2. TypeOK' /\ Shapes'
  BY <1>1 DEF IInv, TypeOK, Shapes
<1>3. Fresh' /\ StoredTokenIsUsable' /\ LogoutNamesNoStoredToken'
  BY <1>1 DEF IInv, Fresh, StoredTokenIsUsable, LogoutNamesNoStoredToken, Free
<1> QED BY <1>2, <1>3 DEF IInv

-----------------------------------------------------------------------------
(* The theorems *)

LEMMA InitHolds == Init => IInv
<1> SUFFICES ASSUME Init PROVE IInv
  OBVIOUS
<1>1. /\ call \in [Calls -> Records]
      /\ \A c \in Calls : Shaped(call[c]) /\ call[c].at = "idle" /\ call[c].gained = None
  BY IdleType, IdleFields DEF Init
<1>2. TypeOK
  BY <1>1, ClientAssumption DEF Init, TypeOK, MaybeToken, Pages
<1> QED BY <1>1, <1>2 DEF Init, IInv, Shapes, Fresh, StoredTokenIsUsable,
                          LogoutNamesNoStoredToken, Free

LEMMA NextHolds == IInv /\ [Next]_vars => IInv'
<1> SUFFICES ASSUME IInv, [Next]_vars PROVE IInv'
  OBVIOUS
<1>1. CASE \E t \in Tabs, p \in Pages : Navigate(t, p)
  BY <1>1, NavigateStep
<1>2. CASE \E t \in Tabs : Reload(t) \/ OtherForm(t)
  BY <1>2, ReloadStep, OtherFormStep
<1>3. CASE \E t \in Tabs, c \in Calls, form \in Forms : SubmitForm(t, c, form)
  BY <1>3, SubmitFormStep
<1>4. CASE \E t \in Tabs, c \in Calls : Fetch(t, c) \/ Logout(t, c)
  BY <1>4, FetchStep, LogoutStep
<1>5. CASE \E c \in Calls : Serve(c) \/ Lose(c)
  BY <1>5, ServeStep, LoseStep
<1>6. CASE \E c \in Calls : Receive(c)
  <2>1. PICK c \in Calls : Receive(c)
    BY <1>6
  <2> QED BY <2>1, BeginRefreshStep, RefreshedStep, RefreshFailedStep, RetryFailedStep,
             RejectedStep, MeAnsweredStep, RegisterAnsweredStep, LoginAnsweredStep,
             FetchAnsweredStep DEF Receive
<1>7. CASE \E g \in Tokens : Expire(g) \/ EndSession(g)
  BY <1>7, ExpireStep, EndSessionStep
<1>8. CASE UNCHANGED vars
  BY <1>8 DEF vars, IInv, TypeOK, Shapes, Fresh, StoredTokenIsUsable,
              LogoutNamesNoStoredToken, Free
<1> QED BY <1>1, <1>2, <1>3, <1>4, <1>5, <1>6, <1>7, <1>8 DEF Next

\* The strengthened invariant holds in every state of the browser session.
THEOREM Invariance == Spec => []IInv
BY InitHolds, NextHolds, PTL DEF Spec

\* The variables of AuthService, TokenStorageService and the router keep their
\* types, and only an administrator's tab shows an administration page (adminGuard).
THEOREM TypeCorrect == Spec => []TypeOK
<1>1. IInv => TypeOK
  BY DEF IInv
<1> QED BY <1>1, Invariance, PTL

\* Whatever the tabs, the losses and the order of the answers, the refresh token
\* that setTokens put into localStorage and clearTokens has not removed is one
\* the server accepts, or being spent, or one the server ended itself.
THEOREM StoredTokenUsable == Spec => []StoredTokenIsUsable
<1>1. IInv => StoredTokenIsUsable
  BY DEF IInv
<1> QED BY <1>1, Invariance, PTL

\* No logout under way names the stored pair: no answer that arrives late puts the
\* pair that AuthService.logout asks the server to revoke back into localStorage.
THEOREM LogoutNamesNoStored == Spec => []LogoutNamesNoStoredToken
<1>1. IInv => LogoutNamesNoStoredToken
  BY DEF IInv
<1> QED BY <1>1, Invariance, PTL

-----------------------------------------------------------------------------
(* Every request settles *)

\* How many steps of its own a request is from its end at most: being served and
\* being handled, after a refresh, and after the registration before a login.
Ahead(r) ==
  IF r.at = "idle" \/ r.kind = "logout" THEN 0
  ELSE (IF r.answer = "none" THEN 1 ELSE 0)
       + (IF r.at = "resent" THEN 1
          ELSE IF r.at = "refreshing" THEN 3
          ELSE IF r.kind # "register" THEN 5 ELSE 7)

Within(c, k) == Ahead(call[c]) <= k

\* At most seven such steps and the answer one of them waits for.
LEMMA AheadType == \A r : Ahead(r) \in 0 .. 8
BY DEF Ahead

\* What Leaving and an update of another request make of c.
LEMMA LeavingOthers ==
  ASSUME NEW t, NEW p, NEW calls, DOMAIN calls = Calls, NEW c \in Calls
  PROVE  Leaving(t, p, calls)[c] = calls[c] \/ Ahead(Leaving(t, p, calls)[c]) = 0
BY DEF Leaving, Ahead, Idle, Request

Reloading == \E t \in Tabs : Reload(t)

\* Without reloads, only what serves a request, handles its answer or loses it does
\* other to it than end it.
LEMMA OthersLeaveIt ==
  ASSUME IInv, [Next]_vars, ~Reloading, NEW c \in Calls, ~Free(c),
         ~(Serve(c) \/ Receive(c) \/ Lose(c))
  PROVE  call'[c] = call[c] \/ Ahead(call'[c]) = 0
<1> DEFINE Kept == call'[c] = call[c] \/ Ahead(call'[c]) = 0
<1>0. DOMAIN call = Calls
  BY Types
<1>i. \A t : Ahead(Idle(t)) = 0
  BY DEF Ahead, Idle, Request
<1>1. CASE \E t \in Tabs, p \in Pages : Navigate(t, p)
  BY <1>0, <1>1, LeavingOthers DEF Navigate, GoTo
<1>2. CASE \E t \in Tabs : OtherForm(t)
  BY <1>0, <1>2, <1>i DEF OtherForm
<1>4. CASE \E t \in Tabs, d \in Calls, form \in Forms : SubmitForm(t, d, form)
  BY <1>0, <1>4 DEF SubmitForm, Spare, Free
<1>5. CASE \E t \in Tabs, d \in Calls : Fetch(t, d)
  BY <1>0, <1>5 DEF Fetch, Spare, Free
<1>6. CASE \E t \in Tabs, d \in Calls : Logout(t, d)
  <2>1. PICK t \in Tabs, d \in Calls : Logout(t, d)
    BY <1>6
  <2> DEFINE calls == IF stored = None THEN call ELSE [call EXCEPT ![d] = LogoutRequest(t)]
  <2>2. DOMAIN calls = Calls /\ (d # c => calls[c] = call[c]) /\ d # c
    BY <1>0, <2>1 DEF Logout, Spare, Free
  <2>3. call' = Leaving(t, "login", calls)
    BY <2>1 DEF Logout, SignOut, GoTo
  <2> QED BY <2>2, <2>3, LeavingOthers
<1>7. CASE \E d \in Calls : Serve(d) \/ Lose(d)
  <2>1. PICK d \in Calls : Serve(d) \/ Lose(d)
    BY <1>7
  <2>2. d # c /\ \E r : call' = [call EXCEPT ![d] = r]
    BY <2>1 DEF Serve, ServeRefresh, ServeGuarded, ServeForm, Issue, Answer, Lose
  <2> QED BY <1>0, <2>2
<1>8. CASE \E d \in Calls : Receive(d)
  <2>1. PICK d \in Calls : Receive(d)
    BY <1>8
  <2>2. d # c
    BY <2>1
  <2>3. CASE BeginRefresh(d) \/ Refreshed(d) \/ Rejected(d) \/ MeAnswered(d)
             \/ RegisterAnswered(d) \/ FetchAnswered(d)
    BY <1>0, <2>2, <2>3 DEF BeginRefresh, Refreshed, Rejected, MeAnswered, RegisterAnswered,
       FetchAnswered, Done
  <2>4. ASSUME NEW t, NEW p, NEW r, call' = Leaving(t, p, [call EXCEPT ![d] = r])
        PROVE  Kept
    BY <1>0, <2>2, <2>4, LeavingOthers
  <2>5. CASE RefreshFailed(d)
    BY <2>4, <2>5 DEF RefreshFailed, SignOut, GoTo, Done
  <2>6. CASE RetryFailed(d)
    BY <2>4, <2>6 DEF RetryFailed, SignOut, GoTo, Done
  <2>7. CASE LoginAnswered(d)
    BY <2>4, <2>7 DEF LoginAnswered, GoTo, Done
  <2> QED BY <2>1, <2>3, <2>5, <2>6, <2>7 DEF Receive
<1>9. CASE \E g \in Tokens : Expire(g) \/ EndSession(g)
  BY <1>9 DEF Expire, EndSession
<1>10. CASE UNCHANGED vars
  BY <1>10 DEF vars
<1> QED BY <1>1, <1>2, <1>4, <1>5, <1>6, <1>7, <1>8, <1>9, <1>10 DEF Next, Reloading

\* A request that is served or handled comes nearer to its end.
LEMMA ServedIsNearer ==
  ASSUME IInv, NEW c \in Calls, Serve(c) \/ Receive(c), Ahead(call[c]) # 0
  PROVE  Ahead(call'[c]) < Ahead(call[c])
<1>0. DOMAIN call = Calls /\ call[c] \in Records /\ Shaped(call[c])
  BY Types DEF IInv, Shapes
<1>i. \A t : Ahead(Idle(t)) = 0 /\ Ahead(LogoutRequest(t)) = 0
  BY DEF Ahead, Idle, LogoutRequest, Request
<1>1. CASE Serve(c)
  <2>1. \E answer, g : /\ answer \in Answers \ {"none"}
                       /\ call' = [call EXCEPT ![c] = Answered(call[c], answer, g)]
    BY <1>1 DEF Serve, ServeRefresh, ServeGuarded, ServeForm, Issue, Answer, Answers
  <2>2. PICK answer, g : /\ answer \in Answers \ {"none"}
                         /\ call' = [call EXCEPT ![c] = Answered(call[c], answer, g)]
    BY <2>1
  <2>3. call[c].answer = "none"
    BY <1>1 DEF Serve, Waiting
  <2> QED BY <1>0, <2>2, <2>3 DEF Answered, Ahead
<1>2. CASE BeginRefresh(c)
  BY <1>0, <1>2 DEF BeginRefresh, Request, Ahead, Shaped, Forms
<1>3. CASE Refreshed(c)
  BY <1>0, <1>3 DEF Refreshed, Ok, Request, Ahead
<1>4. CASE RegisterAnswered(c)
  BY <1>0, <1>4 DEF RegisterAnswered, AtCaller, Ok, Request, Ahead, Shaped, Forms
<1>5. CASE Rejected(c) \/ MeAnswered(c) \/ FetchAnswered(c)
  BY <1>0, <1>i, <1>5, AheadType DEF Rejected, MeAnswered, FetchAnswered, Done
<1>6. ASSUME NEW t, NEW p, NEW calls, DOMAIN calls = Calls, Ahead(calls[c]) = 0,
             call' = Leaving(t, p, calls)
      PROVE  Ahead(call'[c]) < Ahead(call[c])
  BY <1>6, LeavingOthers, AheadType
<1>7. CASE RefreshFailed(c) \/ LoginAnswered(c)
  <2>1. DOMAIN Done(c) = Calls /\ Ahead(Done(c)[c]) = 0
    BY <1>0, <1>i DEF Done
  <2> QED BY <1>6, <1>7, <2>1 DEF RefreshFailed, LoginAnswered, SignOut, GoTo
<1>8. CASE RetryFailed(c)
  <2> DEFINE calls == IF stored = None THEN Done(c)
                      ELSE [call EXCEPT ![c] = LogoutRequest(call[c].tab)]
  <2>1. DOMAIN calls = Calls /\ Ahead(calls[c]) = 0
    BY <1>0, <1>i DEF Done
  <2>2. call' = Leaving(call[c].tab, "login", calls)
    BY <1>8 DEF RetryFailed, SignOut, GoTo
  <2> QED BY <1>6, <2>1, <2>2
<1> QED BY <1>1, <1>2, <1>3, <1>4, <1>5, <1>7, <1>8 DEF Receive

\* No step but a reload takes a request farther from its end.
LEMMA NeverFarther ==
  ASSUME IInv, [Next]_vars, ~Reloading, NEW c \in Calls, ~Within(c, 0),
         NEW k \in Nat, Within(c, k)
  PROVE  Within(c, k)'
<1>0. Ahead(call[c]) \in 0 .. 8 /\ Ahead(call'[c]) \in 0 .. 8 /\ Ahead(call[c]) # 0
  BY AheadType DEF Within
<1>1. CASE Serve(c) \/ Receive(c)
  BY <1>0, <1>1, ServedIsNearer DEF Within
<1>2. CASE Lose(c)
  <2>1. call[c].at = "refreshing" /\ call' = [call EXCEPT ![c] = Answered(call[c], "error", None)]
    BY <1>2 DEF Lose, Answer
  <2>2. c \in DOMAIN call
    BY Types
  <2>3. Ahead(call'[c]) <= Ahead(call[c])
    BY <2>1, <2>2 DEF Ahead, Answered
  <2> QED BY <1>0, <2>3 DEF Within
<1>3. ~Free(c)
  BY <1>0 DEF Free, Ahead
<1>4. CASE ~(Serve(c) \/ Receive(c) \/ Lose(c))
  BY <1>0, <1>3, <1>4, OthersLeaveIt DEF Within
<1> QED BY <1>1, <1>2, <1>4

-----------------------------------------------------------------------------
(* From step to liveness *)

\* Somebody who reloads for ever is never answered; MaxMishaps rules it out in the
\* model, by an induction that is not made here.
ReloadsEnd == <>[][~Reloading]_vars

\* What holds from the last reload on.
Settling == []IInv /\ [][Next]_vars /\ []CallsCanMove /\ [][~Reloading]_vars

Approaches(c, k, j) == Within(c, k) ~> Within(c, j)

\* One step of a request towards its end.
LEMMA Descent ==
  ASSUME NEW c \in Calls, NEW k \in Nat, NEW j \in Nat, k = j + 1
  PROVE  Settling /\ Served(c) => Approaches(c, k, j)
<1>1. IInv /\ [Next]_vars /\ [~Reloading]_vars /\ Within(c, k) /\ ~Within(c, j) => Within(c, k)'
  <2> SUFFICES ASSUME IInv, [Next]_vars, [~Reloading]_vars, Within(c, k), ~Within(c, j)
               PROVE  Within(c, k)'
    OBVIOUS
  <2>1. CASE UNCHANGED vars
    BY <2>1 DEF vars, Within
  <2>2. ~Within(c, 0)
    BY AheadType DEF Within
  <2> QED BY <2>1, <2>2, NeverFarther
<1>2. IInv /\ Within(c, k) /\ ~Within(c, j) /\ <<Serve(c) \/ Receive(c)>>_vars => Within(c, j)'
  <2> SUFFICES ASSUME IInv, Within(c, k), ~Within(c, j), Serve(c) \/ Receive(c)
               PROVE  Within(c, j)'
    OBVIOUS
  <2>1. Ahead(call[c]) \in 0 .. 8 /\ Ahead(call'[c]) \in 0 .. 8 /\ Ahead(call[c]) # 0
    BY AheadType DEF Within
  <2> QED BY <2>1, ServedIsNearer DEF Within
<1>3. CallsCanMove /\ ~Within(c, j) => ENABLED <<Serve(c) \/ Receive(c)>>_vars
  <2>1. ~Within(c, j) => ~Free(c)
    BY AheadType DEF Within, Ahead, Free
  <2> QED BY <2>1 DEF CallsCanMove
<1> QED BY <1>1, <1>2, <1>3, PTL DEF Settling, Served, Approaches

\* From the last reload on, every request ends.
LEMMA Ends ==
  ASSUME NEW c \in Calls
  PROVE  Settling /\ Served(c) => <>Within(c, 0)
<1>1. Within(c, 8)
  BY AheadType DEF Within
<1>2. Settling /\ Served(c) => Approaches(c, 8, 7)
  BY Descent
<1>3. Settling /\ Served(c) => Approaches(c, 7, 6)
  BY Descent
<1>4. Settling /\ Served(c) => Approaches(c, 6, 5)
  BY Descent
<1>5. Settling /\ Served(c) => Approaches(c, 5, 4)
  BY Descent
<1>6. Settling /\ Served(c) => Approaches(c, 4, 3)
  BY Descent
<1>7. Settling /\ Served(c) => Approaches(c, 3, 2)
  BY Descent
<1>8. Settling /\ Served(c) => Approaches(c, 2, 1)
  BY Descent
<1>9. Settling /\ Served(c) => Approaches(c, 1, 0)
  BY Descent
<1> QED BY <1>1, <1>2, <1>3, <1>4, <1>5, <1>6, <1>7, <1>8, <1>9, PTL DEF Approaches

\* The interceptor neither waits nor retries for ever: with any number of tabs and
\* requests, in whatever order answers come and are lost, every request ends or
\* gives way to the logout its failure sends.
THEOREM RequestsSettle == Spec /\ []CallsCanMove /\ ReloadsEnd => CallsSettle
<1> DEFINE Open(c) == ~Free(c) /\ call[c].kind # "logout"
           Over(c) == Free(c) \/ call[c].kind = "logout"
<1>1. ASSUME NEW c \in Calls
      PROVE  Spec /\ []CallsCanMove /\ ReloadsEnd => (Open(c) ~> Over(c))
  <2>1. Within(c, 0) => Over(c)
    BY AheadType DEF Within, Ahead, Free
  <2>2. Open(c) \/ Over(c)
    OBVIOUS
  <2>3. Fairness => Served(c)
    BY DEF Fairness
  <2> HIDE DEF Open, Over
  <2> QED BY <2>1, <2>2, <2>3, Ends, Invariance, PTL DEF Spec, ReloadsEnd, Settling, Served
<1> QED BY <1>1 DEF CallsSettle

-----------------------------------------------------------------------------
(* Every reload settles *)

Me(c, t) == ~Free(c) /\ call[c].kind = "me" /\ call[c].tab = t
Known(t) == signedIn[t] \/ stored = None
Learns(t) == <>Known(t)

\* A request for the current user goes on, is repeated by a reload of its tab, or
\* ends with the tab signed in or without tokens.
LEMMA MeGoesOn ==
  ASSUME IInv, [Next]_vars, NEW t \in Tabs, NEW c \in Calls, Me(c, t), ~Known(t)'
  PROVE  Me(c, t)' \/ (Reload(t) /\ Recovering(t)')
<1>0. DOMAIN call = Calls /\ DOMAIN signedIn = Tabs /\ call[c].kind \notin Forms
  BY Types DEF Me, Forms
<1>1. ASSUME NEW u, NEW p, NEW calls, calls[c] = call[c], call' = Leaving(u, p, calls)
      PROVE  Me(c, t)'
  BY <1>0, <1>1 DEF Leaving, OfForm, Me, Free
<1>2. CASE \E u \in Tabs, p \in Pages : Navigate(u, p)
  BY <1>1, <1>2 DEF Navigate, GoTo
<1>3. CASE \E u \in Tabs : OtherForm(u)
  BY <1>0, <1>3 DEF OtherForm, OfForm, Me, Free
<1>4. CASE \E u \in Tabs, d \in Calls, form \in Forms : SubmitForm(u, d, form)
  BY <1>0, <1>4 DEF SubmitForm, Spare, Me, Free
<1>5. CASE \E u \in Tabs, d \in Calls : Fetch(u, d)
  BY <1>0, <1>5 DEF Fetch, Spare, Me, Free
<1>6. CASE \E u \in Tabs, d \in Calls : Logout(u, d)
  BY <1>6 DEF Logout, SignOut, Known
<1>7. CASE \E u \in Tabs : Reload(u)
  <2>1. PICK u \in Tabs : Reload(u)
    BY <1>7
  <2> DEFINE aborted == [d \in Calls |-> IF call[d].tab = u THEN Idle(u) ELSE call[d]]
             New == Request("sent", "me", u, stored, None, None)
  <2>2. stored # None
    BY <2>1 DEF Reload, Known
  <2>3. PICK d, e \in Calls : /\ aborted[d].at = "idle" /\ aborted[e].at = "idle"
                              /\ call' = [aborted EXCEPT ![d] = New, ![e] = New]
    BY <2>1, <2>2 DEF Reload
  <2>4. CASE u = t
    <3>1. call'[e] = New
      BY <2>3
    <3>2. Me(e, t)'
      BY <2>4, <3>1 DEF Me, Free, New, Request
    <3> QED BY <2>1, <2>4, <3>2 DEF Recovering, Me
  <2>5. CASE u # t
    <3>1. aborted[c] = call[c] /\ c # d /\ c # e
      BY <2>3, <2>5 DEF Me, Free
    <3> QED BY <2>3, <3>1 DEF Me, Free
  <2> QED BY <2>4, <2>5
<1>8. CASE \E d \in Calls : Serve(d) \/ Lose(d)
  <2>1. PICK d \in Calls : Serve(d) \/ Lose(d)
    BY <1>8
  <2>2. \E a, g : call' = [call EXCEPT ![d] = Answered(call[d], a, g)]
    BY <2>1 DEF Serve, ServeRefresh, ServeGuarded, ServeForm, Issue, Answer, Lose
  <2> QED BY <1>0, <2>2 DEF Answered, Me, Free
<1>9. CASE \E d \in Calls : Receive(d)
  <2>1. PICK d \in Calls : Receive(d)
    BY <1>9
  <2>2. CASE BeginRefresh(d) \/ Refreshed(d)
    BY <1>0, <2>2 DEF BeginRefresh, Refreshed, Request, Me, Free
  <2>3. CASE RefreshFailed(d) \/ RetryFailed(d)
    BY <2>3 DEF RefreshFailed, RetryFailed, SignOut, Known
  <2>4. CASE Rejected(d)
    BY <1>0, <2>4 DEF Rejected, Done, Me, Free, Known
  <2>5. CASE MeAnswered(d)
    BY <1>0, <2>5 DEF MeAnswered, Done, Me, Free, Known
  <2>6. CASE RegisterAnswered(d) \/ FetchAnswered(d)
    BY <1>0, <2>6 DEF RegisterAnswered, FetchAnswered, Done, Me, Free
  <2>7. CASE LoginAnswered(d)
    <3>1. Done(d)[c] = call[c]
      BY <1>0, <2>7 DEF LoginAnswered, Done, Me
    <3> QED BY <1>1, <2>7, <3>1 DEF LoginAnswered, GoTo
  <2> QED BY <2>1, <2>2, <2>3, <2>4, <2>5, <2>6, <2>7 DEF Receive
<1>10. CASE \E g \in Tokens : Expire(g) \/ EndSession(g)
  BY <1>10 DEF Expire, EndSession, Me, Free
<1>11. CASE UNCHANGED vars
  BY <1>11 DEF vars, Me, Free
<1> QED BY <1>2, <1>3, <1>4, <1>5, <1>6, <1>7, <1>8, <1>9, <1>10, <1>11 DEF Next

\* From the last reload on, what the tab asked for arrives or is refused.
LEMMA MeEnds ==
  ASSUME NEW t \in Tabs, NEW c \in Calls
  PROVE  Settling /\ Served(c) => [](Me(c, t) => Learns(t))
<1>1. Within(c, 0) => ~Me(c, t)
  BY AheadType DEF Within, Ahead, Me, Free
<1>2. IInv /\ [Next]_vars /\ [~Reloading]_vars /\ Me(c, t) => (Me(c, t))' \/ (Known(t))'
  <2> SUFFICES ASSUME IInv, [Next]_vars, [~Reloading]_vars, Me(c, t)
               PROVE  (Me(c, t))' \/ (Known(t))'
    OBVIOUS
  <2>1. CASE UNCHANGED vars
    BY <2>1 DEF vars, Me, Free
  <2> QED BY <2>1, MeGoesOn DEF Reloading
<1> QED BY <1>1, <1>2, Ends, PTL DEF Settling, Served, Learns

\* Every request is served fairly from every state on.
LEMMA FairnessLasts == Fairness => []Fairness
<1>1. ASSUME NEW c \in Calls PROVE Served(c) => []Served(c)
  BY PTL DEF Served
<1>2. (\A c \in Calls : []Served(c)) => [](\A c \in Calls : Served(c))
  OBVIOUS
<1> QED BY <1>1, <1>2 DEF Fairness

\* initializeAuthState and the effect leave no tab signed out with tokens in storage:
\* what they ask for arrives, or the interceptor and getCurrentUser clear the session.
THEOREM ReloadsSettle == Spec /\ []CallsCanMove /\ ReloadsEnd => ReloadSettles
<1>1. ASSUME NEW t \in Tabs
      PROVE  Spec /\ []CallsCanMove /\ ReloadsEnd => (Recovering(t) ~> Known(t))
  <2> DEFINE Asked(c) == Me(c, t) => Learns(t)
             Arrives == \A c \in Calls : Asked(c)
  <2>1. Settling /\ Fairness => []Arrives
    <3>1. ASSUME NEW c \in Calls PROVE Settling /\ Served(c) => []Asked(c)
      BY MeEnds
    <3>2. (\A c \in Calls : []Asked(c)) => [](\A c \in Calls : Asked(c))
      OBVIOUS
    <3> HIDE DEF Asked
    <3> QED BY <3>1, <3>2 DEF Fairness
  <2>2. Arrives /\ Recovering(t) => Learns(t)
    BY DEF Recovering, Me
  <2>3. IInv /\ [Next]_vars /\ Recovering(t) => (Recovering(t))' \/ (Known(t))'
    BY MeGoesOn DEF Recovering, Me
  <2> HIDE DEF Arrives
  <2> QED BY <2>1, <2>2, <2>3, FairnessLasts, Invariance, PTL DEF Spec, ReloadsEnd, Settling, Learns
<1> QED BY <1>1 DEF ReloadSettles, Known
=============================================================================
