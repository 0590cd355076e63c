--------------------------- MODULE SessionContract ---------------------------
(***************************************************************************)
(* What the authentication API promises about sessions, with no requests   *)
(* and no failures: a login opens a session of one user, which from then   *)
(* on has one current key; a refresh replaces the key by a fresh one in    *)
(* one step; a logout ends the session, and a logout from all devices ends *)
(* every session of the user.  Nothing else changes a session, no key ever *)
(* comes back, and a session that has ended stays so.  A session is named  *)
(* by its first key.                                                       *)
(***************************************************************************)
CONSTANTS Keys, Users, None

VARIABLES
  holder,  \* whose session it is; None while no login has opened it
  key,     \* the current key of a session; None: not opened yet, or ended
  used     \* the keys that are or were current

vars == <<holder, key, used>>

Init ==
  /\ holder = [s \in Keys |-> None]
  /\ key = [s \in Keys |-> None]
  /\ used = {}

Login(s, u) ==
  /\ s \notin used
  /\ holder' = [holder EXCEPT ![s] = u]
  /\ key' = [key EXCEPT ![s] = s]
  /\ used' = used \cup {s}

Refresh(s, k) ==
  /\ key[s] # None
  /\ k \notin used
  /\ key' = [key EXCEPT ![s] = k]
  /\ used' = used \cup {k}
  /\ UNCHANGED holder

Logout(s) ==
  /\ key[s] # None
  /\ key' = [key EXCEPT ![s] = None]
  /\ UNCHANGED <<holder, used>>

LogoutAll(u) ==
  /\ key' = [s \in Keys |-> IF holder[s] = u THEN None ELSE key[s]]
  /\ UNCHANGED <<holder, used>>

Next ==
  \/ \E s \in Keys, u \in Users : Login(s, u)
  \/ \E s, k \in Keys : Refresh(s, k)
  \/ \E s \in Keys : Logout(s)
  \/ \E u \in Users : LogoutAll(u)

Spec == Init /\ [][Next]_vars
=============================================================================
