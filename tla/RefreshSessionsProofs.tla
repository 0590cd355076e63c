------------------------ MODULE RefreshSessionsProofs ------------------------
(***************************************************************************)
(* Theorems about RefreshSessions, for any sets of users, tokens and       *)
(* requests and any clock.                                                 *)
(***************************************************************************)
EXTENDS RefreshSessions, TLAPS

\* What is true of the rows: a row not yet inserted is blank, and every row
\* descends from the login row of its session, which has the same owner.
RowsOK ==
  \A t \in Tokens :
    /\ ~Exists(t) => /\ revoked[t] = None
                     /\ replacedBy[t] = None
                     /\ origin[t] = None
                     /\ t \notin Successors
    /\ Exists(t) => /\ origin[t] \in Tokens
                    /\ Opened(origin[t])
                    /\ owner[origin[t]] = owner[t]

\* What the locals of a request say about the table.  The token presented is
\* in service; the successor of a refresh that has not rotated yet is not, no
\* other refresh has it, and whatever revokes it revokes the token presented.
LocalsOK(r) ==
  LET q == req[r] IN
  /\ q.old # None => InService(q.old) /\ owner[q.old] = q.user
  /\ q.at = "refresh_rotate" => /\ owner[q.new] = q.user
                                /\ origin[q.new] = origin[q.old]
                                /\ ~InService(q.new)
                                /\ Live(q.old) => Live(q.new)
  /\ q.at = "reply" => InService(q.new)

DistinctSuccessors ==
  \A r, q \in Requests :
    /\ req[r].at = "refresh_rotate" /\ req[q].at = "refresh_rotate"
    /\ req[r].new = req[q].new
    => r = q

\* Of the rows of a session in service one is unrevoked.
OneLiveInService ==
  \A s, t \in Tokens :
    /\ InService(s) /\ Live(s)
    /\ InService(t) /\ Live(t)
    /\ origin[s] = origin[t]
    => s = t

IInv ==
  /\ TypeOK
  /\ RowsOK
  /\ \A r \in Requests : LocalsOK(r)
  /\ DistinctSuccessors
  /\ ClientsHoldNoOrphan
  /\ RotationChains
  /\ OneLiveInService

-----------------------------------------------------------------------------
LEMMA TypeInit == Init => TypeOK
BY TimeAssumption DEF Init, TypeOK, Idle, Local, Locals

LEMMA TypeStep == TypeOK /\ [Next]_vars => TypeOK'
<1> SUFFICES ASSUME TypeOK, [Next]_vars PROVE TypeOK'
  OBVIOUS
<1> USE DEF TypeOK, Idle, Local, Continue, Finish, Locals, accounts, table
<1>1. ASSUME NEW r \in Requests, NEW u \in Users, LoginLookup(r, u)
      PROVE  TypeOK'
  BY <1>1 DEF LoginLookup
<1>2. ASSUME NEW r \in Requests, NEW t \in Tokens, LoginInsert(r, t)
      PROVE  TypeOK'
  BY <1>2, TimeAssumption DEF LoginInsert, Insert
<1>3. ASSUME NEW r \in Requests, NEW t \in Tokens, RefreshFind(r, t)
      PROVE  TypeOK'
  BY <1>3 DEF RefreshFind, Refreshable, Live, Exists
<1>4. ASSUME NEW r \in Requests, RefreshUser(r)
      PROVE  TypeOK'
  BY <1>4 DEF RefreshUser
<1>5. ASSUME NEW r \in Requests, NEW t \in Tokens, RefreshInsert(r, t)
      PROVE  TypeOK'
  BY <1>5, TimeAssumption DEF RefreshInsert, Insert
<1>6. ASSUME NEW r \in Requests, Rotate(r)
      PROVE  TypeOK'
  BY <1>6 DEF Rotate, Reasons
<1>7. ASSUME NEW r \in Requests, Reply(r)
      PROVE  TypeOK'
  BY <1>7 DEF Reply
<1>8. ASSUME NEW r \in Requests, NEW u \in Users, NEW t \in Tokens,
             LogoutFind(r, u, t)
      PROVE  TypeOK'
  BY <1>8 DEF LogoutFind
<1>9. ASSUME NEW r \in Requests, LogoutRevoke(r)
      PROVE  TypeOK'
  BY <1>9 DEF LogoutRevoke, Reasons
<1>10. ASSUME NEW u \in Users, LogoutAll(u)
       PROVE  TypeOK'
  BY <1>10 DEF LogoutAll, Reasons
<1>11. ASSUME NEW u \in Users, NEW b \in BOOLEAN, SetActive(u, b)
       PROVE  TypeOK'
  BY <1>11 DEF SetActive
<1>12. ASSUME NEW u \in Users, SoftDelete(u) \/ Restore(u)
       PROVE  TypeOK'
  BY <1>12 DEF SoftDelete, Restore
<1>13. ASSUME NEW r \in Requests, Drop(r)
       PROVE  TypeOK'
  BY <1>13 DEF Drop
<1>14. CASE Tick
  BY <1>14, TimeAssumption DEF Tick
<1>15. CASE UNCHANGED vars
  BY <1>15 DEF vars
<1>16. QED
  BY <1>1, <1>2, <1>3, <1>4, <1>5, <1>6, <1>7, <1>8, <1>9, <1>10, <1>11,
     <1>12, <1>13, <1>14, <1>15 DEF Next

\* Every variable keeps its type: handlers store only users, tokens, reasons
\* and steps that exist, for any number of users, tokens and requests.
THEOREM TypeCorrect == Spec => []TypeOK
BY TypeInit, TypeStep, PTL DEF Spec

-----------------------------------------------------------------------------
(***************************************************************************)
(* Facts about one step, each from the invariant before the step.          *)
(***************************************************************************)

\* The five steps that only move a request from one statement to the next.
LEMMA LocalStep ==
  ASSUME IInv, NEW r \in Requests, NEW l \in Locals,
         Continue(r, l), UNCHANGED <<table, held>>,
         l.at # "refresh_rotate",
         l.old # None => InService(l.old) /\ owner[l.old] = l.user,
         l.at = "reply" => InService(l.new)
  PROVE  /\ RowsOK'
         /\ \A q \in Requests : LocalsOK(q)'
         /\ DistinctSuccessors'
         /\ ClientsHoldNoOrphan'
         /\ RotationChains'
         /\ OneLiveInService'
<1> USE DEF IInv, table, Exists, Live, InService, Opened
<1>0. Successors' = Successors
  BY DEF Successors
<1>1. RowsOK'
  BY <1>0 DEF RowsOK
<1>2. ClientsHoldNoOrphan'
  BY <1>0 DEF ClientsHoldNoOrphan
<1>3. RotationChains'
  BY DEF RotationChains
<1>4. OneLiveInService'
  BY <1>0 DEF OneLiveInService
<1>5. req \in [Requests -> Locals]
  BY DEF TypeOK
<1>6. \A q \in Requests : req'[q] = IF q = r THEN l ELSE req[q]
  BY <1>5 DEF Continue
<1>7. \A q \in Requests : LocalsOK(q)'
  BY <1>0, <1>6 DEF LocalsOK
<1>8. DistinctSuccessors'
  BY <1>6 DEF DistinctSuccessors
<1>9. QED
  BY <1>1, <1>2, <1>3, <1>4, <1>7, <1>8

\* What the type of the locals says at each step of a request.
LEMMA LocalTypes ==
  ASSUME TypeOK, NEW r \in Requests
  PROVE  /\ req[r] # Idle => req[r].user \in Users
         /\ req[r].old \in Tokens \cup {None}
         /\ req[r].at \in {"refresh_user", "refresh_insert", "refresh_rotate",
                          "logout_revoke"} => req[r].old \in Tokens
         /\ req[r].at \in {"refresh_rotate", "reply"} => req[r].new \in Tokens
         /\ req[r].at # "idle" => req[r] # Idle
BY DEF TypeOK, Locals, Idle, Local

\* Inserting a row disturbs no request that does not hold it.
LEMMA InsertKeepsLocals ==
  ASSUME IInv, NEW q \in Requests, NEW t \in Tokens, NEW u, NEW s,
         Insert(t, u, s), req'[q] = req[q]
  PROVE  /\ LocalsOK(q)'
         /\ req[q].at = "refresh_rotate" => req[q].new # t
<1> USE DEF IInv, Exists, Live, InService, Opened
<1>1. /\ owner[t] = None /\ origin[t] = None
      /\ t \notin Successors
  BY DEF Insert, RowsOK
<1>2. /\ \A x \in Tokens : x # t => owner'[x] = owner[x] /\ origin'[x] = origin[x]
      /\ Successors' = Successors /\ revoked' = revoked
  BY DEF Insert, TypeOK, Successors
<1>3. req[q].old # None => req[q].old \in Tokens /\ req[q].old # t
  BY <1>1, LocalTypes, NoneAssumption DEF LocalsOK
<1>4. req[q].at = "refresh_rotate" =>
        req[q].old # None /\ req[q].new \in Tokens /\ req[q].new # t
  BY <1>1, LocalTypes, NoneAssumption DEF LocalsOK, Idle, Local
<1>5. req[q].at = "reply" => req[q].new \in Tokens /\ req[q].new # t
  BY <1>1, LocalTypes, NoneAssumption DEF LocalsOK
<1>6. QED
  BY <1>2, <1>3, <1>4, <1>5 DEF LocalsOK

\* A step of no request: the clock and the administrators.
LEMMA OtherStep ==
  ASSUME IInv, UNCHANGED <<table, req, held>>
  PROVE  /\ RowsOK'
         /\ \A q \in Requests : LocalsOK(q)'
         /\ DistinctSuccessors'
         /\ ClientsHoldNoOrphan'
         /\ RotationChains'
         /\ OneLiveInService'
<1>1. Successors' = Successors
  BY DEF table, Successors
<1>2. \A q \in Requests : LocalsOK(q)'
  BY <1>1 DEF IInv, table, Exists, Live, InService, Opened, LocalsOK
<1>3. QED
  BY <1>1, <1>2 DEF IInv, table, Exists, Live, InService, Opened, RowsOK,
       DistinctSuccessors, ClientsHoldNoOrphan, RotationChains,
       OneLiveInService

\* A login opens a session with a row of its own.
LEMMA LoginInsertStep ==
  ASSUME IInv, NEW r \in Requests, NEW t \in Tokens, LoginInsert(r, t)
  PROVE  /\ RowsOK'
         /\ \A q \in Requests : LocalsOK(q)'
         /\ DistinctSuccessors'
         /\ ClientsHoldNoOrphan'
         /\ RotationChains'
         /\ OneLiveInService'
<1> DEFINE u == req[r].user
<1> USE DEF IInv, Exists, Live, InService, Opened
<1>1. /\ u \in Users
      /\ owner[t] = None /\ origin[t] = None
      /\ revoked[t] = None /\ replacedBy[t] = None
      /\ t \notin Successors
  BY DEF LoginInsert, Insert, RowsOK, TypeOK, Locals, Idle, Local
<1>2. /\ \A x \in Tokens : owner'[x] = IF x = t THEN u ELSE owner[x]
      /\ \A x \in Tokens : origin'[x] = IF x = t THEN t ELSE origin[x]
      /\ revoked' = revoked /\ replacedBy' = replacedBy /\ held' = held
      /\ Successors' = Successors
  BY DEF LoginInsert, Insert, TypeOK, Successors
<1>3. \A q \in Requests :
        req'[q] = IF q = r THEN Local("reply", u, None, t) ELSE req[q]
  BY DEF LoginInsert, Continue, TypeOK
<1>4. u # None /\ t # None
  BY <1>1, NoneAssumption
<1>5. RowsOK'
  BY <1>1, <1>2, <1>4 DEF RowsOK
<1>6. ASSUME NEW q \in Requests PROVE LocalsOK(q)'
  <2>1. CASE q = r
    BY <2>1, <1>2, <1>3, <1>4 DEF LocalsOK, Local
  <2>2. CASE q # r
    BY <2>2, <1>3, InsertKeepsLocals DEF LoginInsert
  <2>3. QED
    BY <2>1, <2>2
<1>7. DistinctSuccessors'
  BY <1>3 DEF DistinctSuccessors, Local
<1>8. ClientsHoldNoOrphan'
  BY <1>1, <1>2 DEF ClientsHoldNoOrphan, TypeOK
<1>9. RotationChains'
  BY <1>1, <1>2, <1>4 DEF RotationChains, TypeOK, Successors
<1>10. OneLiveInService'
  BY <1>1, <1>2, <1>4 DEF OneLiveInService, RowsOK
<1>11. QED
  BY <1>5, <1>6, <1>7, <1>8, <1>9, <1>10

\* A refresh inserts the successor, out of service.
LEMMA RefreshInsertStep ==
  ASSUME IInv, NEW r \in Requests, NEW t \in Tokens, RefreshInsert(r, t)
  PROVE  /\ RowsOK'
         /\ \A q \in Requests : LocalsOK(q)'
         /\ DistinctSuccessors'
         /\ ClientsHoldNoOrphan'
         /\ RotationChains'
         /\ OneLiveInService'
<1> DEFINE u == req[r].user
           old == req[r].old
           s == origin[old]
<1> USE DEF IInv, Exists, Live, InService, Opened
<1>1. /\ u \in Users /\ old \in Tokens
      /\ owner[t] = None /\ origin[t] = None
      /\ revoked[t] = None /\ replacedBy[t] = None
      /\ t \notin Successors
  BY DEF RefreshInsert, Insert, RowsOK, TypeOK, Locals, Idle, Local
<1>2. u # None /\ t # None /\ old # None
  BY <1>1, NoneAssumption
<1>3. owner[old] = u /\ InService(old)
  BY <1>2 DEF LocalsOK
<1>4. s \in Tokens /\ origin[s] = s /\ owner[s] = u /\ s # t /\ old # t
  BY <1>1, <1>2, <1>3 DEF RowsOK
<1>5. /\ \A x \in Tokens : owner'[x] = IF x = t THEN u ELSE owner[x]
      /\ \A x \in Tokens : origin'[x] = IF x = t THEN s ELSE origin[x]
      /\ revoked' = revoked /\ replacedBy' = replacedBy /\ held' = held
      /\ Successors' = Successors
  BY DEF RefreshInsert, Insert, TypeOK, Successors
<1>6. \A q \in Requests :
        req'[q] = IF q = r THEN Local("refresh_rotate", u, old, t) ELSE req[q]
  BY DEF RefreshInsert, Continue, TypeOK
<1>7. RowsOK'
  BY <1>1, <1>2, <1>4, <1>5 DEF RowsOK
<1>8. ASSUME NEW q \in Requests PROVE LocalsOK(q)'
  <2>1. CASE q = r
    BY <2>1, <1>1, <1>2, <1>3, <1>4, <1>5, <1>6 DEF LocalsOK, Local
  <2>2. CASE q # r
    BY <2>2, <1>6, InsertKeepsLocals DEF RefreshInsert
  <2>3. QED
    BY <2>1, <2>2
<1>9. DistinctSuccessors'
  <2>1. \A q \in Requests : q # r /\ req[q].at = "refresh_rotate" => req[q].new # t
    BY <1>6, InsertKeepsLocals DEF RefreshInsert
  <2>2. QED
    BY <2>1, <1>6 DEF DistinctSuccessors, Local
<1>10. ClientsHoldNoOrphan'
  BY <1>1, <1>2, <1>4, <1>5 DEF ClientsHoldNoOrphan, TypeOK
<1>11. RotationChains'
  BY <1>1, <1>2, <1>4, <1>5 DEF RotationChains, TypeOK, Successors
<1>12. OneLiveInService'
  BY <1>1, <1>2, <1>4, <1>5 DEF OneLiveInService, RowsOK
<1>13. QED
  BY <1>7, <1>8, <1>9, <1>10, <1>11, <1>12

\* A successful rotation swaps the presented token for its successor.
LEMMA RotateStep ==
  ASSUME IInv, NEW r \in Requests, Rotate(r), RotateMatches(req[r].old)
  PROVE  /\ RowsOK'
         /\ \A q \in Requests : LocalsOK(q)'
         /\ DistinctSuccessors'
         /\ ClientsHoldNoOrphan'
         /\ RotationChains'
         /\ OneLiveInService'
<1> DEFINE u == req[r].user
           old == req[r].old
           new == req[r].new
<1> USE DEF IInv, RotateMatches, Exists, Live, InService, Opened
<1>1. old \in Tokens /\ new \in Tokens /\ u \in Users
  BY LocalTypes DEF Rotate
<1>2. old # None /\ new # None /\ u # None
  BY <1>1, NoneAssumption
<1>3. /\ InService(old) /\ owner[old] = u
      /\ owner[new] = u /\ origin[new] = origin[old] /\ ~InService(new)
  BY <1>2 DEF LocalsOK, Rotate
<1>4. revoked[old] = None /\ replacedBy[old] = None /\ old # new
  BY <1>1, <1>2, <1>3, NoneAssumption DEF RotationChains, Rotate, Reasons
<1>5. /\ \A x \in Tokens : revoked'[x] = IF x = old THEN "rotated" ELSE revoked[x]
      /\ \A x \in Tokens : replacedBy'[x] = IF x = old THEN new ELSE replacedBy[x]
      /\ owner' = owner /\ origin' = origin /\ held' = held
  BY DEF Rotate, TypeOK
<1>6. \A q \in Requests :
        req'[q] = IF q = r THEN Local("reply", u, old, new) ELSE req[q]
  BY DEF Rotate, Continue, TypeOK
<1>7. Successors' = Successors \cup {new}
  BY <1>1, <1>2, <1>4, <1>5 DEF Successors
<1>8. RowsOK'
  BY <1>1, <1>2, <1>3, <1>5, <1>7 DEF RowsOK
<1>9. ASSUME NEW q \in Requests PROVE LocalsOK(q)'
  <2>1. CASE q = r
    BY <2>1, <1>1, <1>2, <1>3, <1>5, <1>6, <1>7 DEF LocalsOK, Local
  <2>2. CASE q # r
    <3>1. req'[q] = req[q]
      BY <2>2, <1>6
    <3>2. req[q].old # None => InService(req[q].old)'
      BY <3>1, <1>5, <1>7 DEF LocalsOK
    <3>3. req[q].at = "refresh_rotate" =>
            req[q].new \in Tokens /\ req[q].new # new /\ ~InService(req[q].new)'
      BY <2>2, <3>1, <1>5, <1>7, LocalTypes DEF LocalsOK, DistinctSuccessors, Rotate
    <3>4. req[q].at = "reply" => InService(req[q].new)'
      BY <3>1, <1>5, <1>7 DEF LocalsOK
    <3>5. req[q].at = "refresh_rotate" /\ Live(req[q].old)' => Live(req[q].new)'
      <4>1. req[q].at = "refresh_rotate" =>
              /\ req[q].old \in Tokens /\ req[q].new \in Tokens
              /\ req[q].new # old /\ (Live(req[q].old) => Live(req[q].new))
        BY <1>3, LocalTypes DEF LocalsOK
      <4>2. QED
        BY <3>1, <4>1, <1>5, NoneAssumption DEF Reasons
    <3>6. QED
      BY <3>1, <3>2, <3>3, <3>4, <3>5, <1>5 DEF LocalsOK
  <2>3. QED
    BY <2>1, <2>2
<1>10. DistinctSuccessors'
  BY <1>6 DEF DistinctSuccessors, Local
<1>11. ClientsHoldNoOrphan'
  BY <1>5, <1>7 DEF ClientsHoldNoOrphan
<1>12. RotationChains'
  <2>1. \A x \in Tokens : replacedBy[x] # new
    BY <1>2, <1>3 DEF Successors
  <2>2. QED
    BY <2>1, <1>1, <1>2, <1>3, <1>4, <1>5, NoneAssumption DEF RotationChains, Reasons
<1>13. OneLiveInService'
  <2>1. \A x \in Tokens : revoked'[x] = None => x # old /\ revoked[x] = None
    BY <1>5, NoneAssumption DEF Reasons
  <2>2. QED
    BY <2>1, <1>1, <1>2, <1>3, <1>4, <1>5, <1>7 DEF OneLiveInService
<1>14. QED
  BY <1>8, <1>9, <1>10, <1>11, <1>12, <1>13

\* An answer hands out a token that is in service.
LEMMA ReplyStep ==
  ASSUME IInv, NEW r \in Requests, Reply(r)
  PROVE  /\ RowsOK'
         /\ \A q \in Requests : LocalsOK(q)'
         /\ DistinctSuccessors'
         /\ ClientsHoldNoOrphan'
         /\ RotationChains'
         /\ OneLiveInService'
<1> USE DEF IInv, table, Exists, Live, InService, Opened
<1>1. UNCHANGED table /\ held' = held \cup {req[r].new}
  BY DEF Reply
<1>2. \A q \in Requests : req'[q] = IF q = r THEN Idle ELSE req[q]
  BY DEF Reply, Finish, Continue, TypeOK
<1>0. Successors' = Successors
  BY <1>1 DEF Successors
<1>3. RowsOK' /\ RotationChains' /\ OneLiveInService'
  BY <1>0, <1>1 DEF RowsOK, RotationChains, OneLiveInService
<1>4. \A q \in Requests : LocalsOK(q)'
  BY <1>0, <1>1, <1>2 DEF LocalsOK, Idle, Local
<1>5. DistinctSuccessors'
  BY <1>2 DEF DistinctSuccessors, Idle, Local
<1>6. ClientsHoldNoOrphan'
  BY <1>0, <1>1 DEF ClientsHoldNoOrphan, LocalsOK, Reply
<1>7. QED
  BY <1>3, <1>4, <1>5, <1>6

\* A logout revokes rows that were not revoked and touches no other column.
LEMMA RevokeStep ==
  ASSUME IInv, UNCHANGED <<owner, replacedBy, origin, held>>,
         \A t \in Tokens :
             revoked'[t] = revoked[t]
               \/ (Live(t) /\ revoked'[t] \in {"logout", "logout_all"}),
         \A x, t \in Tokens :
           revoked'[t] # revoked[t] /\ owner[x] = owner[t] /\ revoked'[x] = None
             => InService(t),
         \A q \in Requests : req'[q] = req[q] \/ req'[q] = Idle
  PROVE  /\ RowsOK'
         /\ \A q \in Requests : LocalsOK(q)'
         /\ DistinctSuccessors'
         /\ ClientsHoldNoOrphan'
         /\ RotationChains'
         /\ OneLiveInService'
<1> USE DEF IInv, Exists, Live, InService, Opened
<1>0. Successors' = Successors
  BY DEF Successors
<1>1. RowsOK'
  BY <1>0 DEF RowsOK
<1>2. ASSUME NEW q \in Requests PROVE LocalsOK(q)'
  <2>1. CASE req'[q] = Idle
    BY <2>1 DEF LocalsOK, Idle, Local
  <2>2. CASE req'[q] = req[q]
    <3>1. req[q].at = "refresh_rotate" /\ Live(req[q].old)' => Live(req[q].new)'
      <4> SUFFICES ASSUME req[q].at = "refresh_rotate", Live(req[q].old)'
                   PROVE  Live(req[q].new)'
        OBVIOUS
      <4>1. req[q].old \in Tokens /\ req[q].new \in Tokens /\ req[q].old # None
        BY LocalTypes, NoneAssumption
      <4>2. /\ owner[req[q].old] = owner[req[q].new]
            /\ ~InService(req[q].new)
            /\ Live(req[q].old) => Live(req[q].new)
        BY <4>1 DEF LocalsOK
      <4>3. revoked'[req[q].old] = None
        BY <2>2
      <4>4. Live(req[q].old)
        BY <4>1, <4>3, <2>2, NoneAssumption DEF Reasons
      <4>5. revoked'[req[q].new] = revoked[req[q].new]
        BY <4>1, <4>2, <4>3
      <4>6. QED
        BY <4>2, <4>4, <4>5, <2>2
    <3>2. QED
      BY <2>2, <3>1, <1>0 DEF LocalsOK
  <2>3. QED
    BY <2>1, <2>2
<1>3. DistinctSuccessors'
  BY DEF DistinctSuccessors, Idle, Local
<1>4. ClientsHoldNoOrphan'
  BY <1>0 DEF ClientsHoldNoOrphan
<1>5. RotationChains'
  BY NoneAssumption DEF RotationChains, Reasons
<1>6. \A t \in Tokens : revoked'[t] = None => revoked[t] = None
  BY NoneAssumption DEF Reasons
<1>7. OneLiveInService'
  BY <1>0, <1>6 DEF OneLiveInService
<1>8. QED
  BY <1>1, <1>2, <1>3, <1>4, <1>5, <1>7

-----------------------------------------------------------------------------
LEMMA InvInit == Init => IInv
<1> SUFFICES ASSUME Init PROVE IInv
  OBVIOUS
<1>1. TypeOK
  BY TypeInit
<1>2. Successors = {}
  BY DEF Init, Successors
<1>3. RowsOK /\ RotationChains /\ OneLiveInService
  BY <1>2, NoneAssumption DEF Init, RowsOK, RotationChains, Exists, Live, Opened,
       OneLiveInService, Reasons
<1>4. (\A r \in Requests : LocalsOK(r)) /\ DistinctSuccessors
  BY DEF Init, LocalsOK, DistinctSuccessors, Idle, Local
<1>5. ClientsHoldNoOrphan
  BY DEF Init, ClientsHoldNoOrphan
<1>6. QED
  BY <1>1, <1>3, <1>4, <1>5 DEF IInv

LEMMA InvStep == IInv /\ [Next]_vars => IInv'
<1> SUFFICES ASSUME IInv, [Next]_vars PROVE IInv'
  OBVIOUS
<1> USE DEF Continue, Finish
<1>0. TypeOK' /\ Idle \in Locals /\ TypeOK
  BY TypeStep DEF IInv, Locals
<1>1. ASSUME NEW r \in Requests, NEW u \in Users, LoginLookup(r, u)
      PROVE  IInv'
  <2>1. Local("login_insert", u, None, None) \in Locals
    BY DEF Locals, Local
  <2>2. QED
    BY <1>0, <1>1, <2>1, LocalStep DEF IInv, LoginLookup, Local
<1>2. ASSUME NEW r \in Requests, NEW t \in Tokens, LoginInsert(r, t)
      PROVE  IInv'
  BY <1>0, <1>2, LoginInsertStep DEF IInv
<1>3. ASSUME NEW r \in Requests, NEW t \in Tokens, RefreshFind(r, t)
      PROVE  IInv'
  <2>1. /\ Local("refresh_user", owner[t], t, None) \in Locals
        /\ InService(t)
    BY <1>3 DEF Locals, Local, IInv, TypeOK, ClientsHoldNoOrphan, RefreshFind,
         Refreshable, Live, Exists
  <2>2. QED
    BY <1>0, <1>3, <2>1, LocalStep DEF IInv, RefreshFind, Local
<1>4. ASSUME NEW r \in Requests, RefreshUser(r)
      PROVE  IInv'
  <2> DEFINE l == Local("refresh_insert", req[r].user, req[r].old, None)
  <2>1. /\ l \in Locals /\ req[r].old # None
        /\ InService(req[r].old) /\ owner[req[r].old] = req[r].user
    BY <1>0, <1>4, LocalTypes, NoneAssumption
       DEF Locals, Local, IInv, LocalsOK, RefreshUser, Idle
  <2>2. UNCHANGED <<table, held>> /\ (Continue(r, l) \/ Continue(r, Idle))
    BY <1>4 DEF RefreshUser
  <2>3. CASE Continue(r, l)
    BY <1>0, <2>1, <2>2, <2>3, LocalStep DEF IInv, Local
  <2>4. CASE Continue(r, Idle)
    BY <1>0, <2>2, <2>4, LocalStep DEF IInv, Local, Idle
  <2>5. QED
    BY <2>2, <2>3, <2>4
<1>5. ASSUME NEW r \in Requests, NEW t \in Tokens, RefreshInsert(r, t)
      PROVE  IInv'
  BY <1>0, <1>5, RefreshInsertStep DEF IInv
<1>6. ASSUME NEW r \in Requests, Rotate(r)
      PROVE  IInv'
  <2>1. CASE RotateMatches(req[r].old)
    BY <1>0, <1>6, <2>1, RotateStep DEF IInv
  <2>2. CASE ~RotateMatches(req[r].old)
    BY <1>0, <1>6, <2>2, LocalStep DEF IInv, Rotate, table, Idle, Local
  <2>3. QED
    BY <2>1, <2>2
<1>7. ASSUME NEW r \in Requests, Reply(r)
      PROVE  IInv'
  BY <1>0, <1>7, ReplyStep DEF IInv
<1>8. ASSUME NEW r \in Requests, NEW u \in Users, NEW t \in Tokens,
             LogoutFind(r, u, t)
      PROVE  IInv'
  <2>1. /\ Local("logout_revoke", u, t, None) \in Locals
        /\ InService(t)
    BY <1>8 DEF Locals, Local, IInv, ClientsHoldNoOrphan, LogoutFind
  <2>2. QED
    BY <1>0, <1>8, <2>1, LocalStep DEF IInv, LogoutFind, Local
<1>9. ASSUME NEW r \in Requests, LogoutRevoke(r)
      PROVE  IInv'
  <2>1. /\ UNCHANGED <<owner, replacedBy, origin, held>>
        /\ \A t \in Tokens :
             revoked'[t] = revoked[t]
               \/ (Live(t) /\ revoked'[t] \in {"logout", "logout_all"})
    BY <1>0, <1>9 DEF TypeOK, LogoutRevoke, RevokeMatches
  <2>2. \A q \in Requests : req'[q] = req[q] \/ req'[q] = Idle
    BY <1>0, <1>9 DEF TypeOK, LogoutRevoke
  <2>3. \A t \in Tokens : revoked'[t] # revoked[t] => InService(t)
    <3>1. req[r].old # None /\ InService(req[r].old)
      BY <1>0, <1>9, LocalTypes, NoneAssumption DEF IInv, LocalsOK, LogoutRevoke
    <3>2. QED
      BY <3>1, <1>0, <1>9 DEF TypeOK, LogoutRevoke
  <2>4. RowsOK' /\ (\A q \in Requests : LocalsOK(q)') /\ DistinctSuccessors'
        /\ ClientsHoldNoOrphan' /\ RotationChains' /\ OneLiveInService'
    BY <2>1, <2>2, <2>3, RevokeStep
  <2>5. QED
    BY <1>0, <2>4 DEF IInv
<1>10. ASSUME NEW u \in Users, LogoutAll(u)
       PROVE  IInv'
  <2>1. /\ UNCHANGED <<owner, replacedBy, origin, held, req>>
        /\ \A t \in Tokens :
             revoked'[t] = revoked[t]
               \/ (Live(t) /\ revoked'[t] \in {"logout", "logout_all"})
    BY <1>10 DEF LogoutAll, RevokeAllMatches
  <2>2. \A x, t \in Tokens :
          revoked'[t] # revoked[t] /\ owner[x] = owner[t] => revoked'[x] # None
    BY <1>0, <1>10, NoneAssumption DEF LogoutAll, RevokeAllMatches, Live, Exists, Reasons
  <2>3. RowsOK' /\ (\A q \in Requests : LocalsOK(q)') /\ DistinctSuccessors'
        /\ ClientsHoldNoOrphan' /\ RotationChains' /\ OneLiveInService'
    BY <2>1, <2>2, RevokeStep
  <2>4. QED
    BY <1>0, <2>3 DEF IInv
<1>11. CASE UNCHANGED <<table, req, held>>
  BY <1>0, <1>11, OtherStep DEF IInv
<1>12. ASSUME NEW r \in Requests, Drop(r)
       PROVE  IInv'
  BY <1>0, <1>12, LocalStep DEF IInv, Drop, Idle, Local
<1>13. QED
  BY <1>1, <1>2, <1>3, <1>4, <1>5, <1>6, <1>7, <1>8, <1>9, <1>10, <1>11, <1>12
     DEF Next, SetActive, SoftDelete, Restore, Tick, vars

THEOREM Invariance == Spec => []IInv
BY InvInit, InvStep, PTL DEF Spec

\* However refreshes of a session race each other, logouts, failures and lost
\* answers, at most one of its tokens that were recorded or given out is
\* unrevoked.
THEOREM OneLiveToken == Spec => []OneLiveTokenPerSession
<1>1. IInv => OneLiveTokenPerSession
  BY DEF IInv, OneLiveInService, ClientsHoldNoOrphan, OneLiveTokenPerSession
<1>2. QED
  BY <1>1, Invariance, PTL

\* A successor whose rotation failed never reaches a client.
THEOREM NoOrphanLeaves == Spec => []ClientsHoldNoOrphan
BY Invariance, PTL DEF IInv

\* The rotation records form chains inside one session of one user.
THEOREM RotationIsChained == Spec => []RotationChains
BY Invariance, PTL DEF IInv

-----------------------------------------------------------------------------
(***************************************************************************)
(* The refinement of SessionContract, one case per statement.              *)
(***************************************************************************)

\* A session has at most one key, before and after a step.
LEMMA KeyOf ==
  ASSUME IInv, NEW s \in Tokens, NEW t \in Tokens, IsKey(t, s)
  PROVE  SessionKey[s] = t
BY DEF IInv, OneLiveInService, SessionKey, Open, IsKey

LEMMA KeyOfNext ==
  ASSUME IInv', NEW s \in Tokens, NEW t \in Tokens, IsKey(t, s)'
  PROVE  SessionKey'[s] = t
BY DEF IInv, OneLiveInService, SessionKey, Open, IsKey

LEMMA KeysAreFunction ==
  /\ SessionKey = [s \in Tokens |-> SessionKey[s]]
  /\ SessionKey' = [s \in Tokens |-> SessionKey'[s]]
BY DEF SessionKey

LEMMA SameKey ==
  ASSUME IInv, IInv', NEW s \in Tokens,
         \A t \in Tokens : IsKey(t, s)' <=> IsKey(t, s)
  PROVE  SessionKey'[s] = SessionKey[s]
<1>1. CASE Open(s)
  <2>1. PICK t \in Tokens : IsKey(t, s)
    BY <1>1 DEF Open
  <2>2. IsKey(t, s)'
    BY <2>1
  <2>3. SessionKey[s] = t
    BY <2>1, KeyOf
  <2>4. SessionKey'[s] = t
    BY <2>2, KeyOfNext
  <2>5. QED
    BY <2>3, <2>4
<1>2. CASE ~Open(s)
  <2>1. ~Open(s)'
    BY <1>2 DEF Open
  <2>2. QED
    BY <1>2, <2>1 DEF SessionKey
<1>3. QED
  BY <1>1, <1>2

\* What a step leaves of the sessions when it moves no row in or out of
\* service and revokes no key.
LEMMA SessionsUnchanged ==
  ASSUME IInv, IInv',
         \A s \in Tokens : /\ Opened(s)' <=> Opened(s)
                           /\ Opened(s) => owner'[s] = owner[s]
                           /\ InService(s)' <=> InService(s),
         \A s, t \in Tokens : IsKey(t, s)' <=> IsKey(t, s)
  PROVE  UNCHANGED Contract!vars
<1>1. SessionHolder' = SessionHolder
  BY DEF SessionHolder
<1>2. \A s \in Tokens : SessionKey'[s] = SessionKey[s]
  BY SameKey
<1>3. SessionKey' = SessionKey
  BY <1>2 DEF SessionKey
<1>4. {t \in Tokens : InService(t)'} = {t \in Tokens : InService(t)}
  OBVIOUS
<1>5. QED
  BY <1>1, <1>3, <1>4 DEF Contract!vars

LEMMA InitContract == Init => Contract!Init
BY NoneAssumption
   DEF Init, Contract!Init, SessionHolder, SessionKey, Open, IsKey, InService,
       Opened, Successors, Live, Exists

\* A login opens the session named by its token.
LEMMA LoginOpens ==
  ASSUME IInv, IInv', NEW r \in Requests, NEW t \in Tokens, LoginInsert(r, t)
  PROVE  Contract!Login(t, req[r].user)
<1> DEFINE u == req[r].user
<1>1. /\ u \in Users /\ u # None /\ t # None
      /\ owner[t] = None /\ origin[t] = None /\ revoked[t] = None
      /\ t \notin Successors /\ \A x \in Tokens : origin[x] # t
  BY NoneAssumption
     DEF LoginInsert, Insert, IInv, RowsOK, TypeOK, Locals, Idle, Local,
         Exists, Live, Opened
<1>2. /\ \A x \in Tokens : owner'[x] = IF x = t THEN u ELSE owner[x]
      /\ \A x \in Tokens : origin'[x] = IF x = t THEN t ELSE origin[x]
      /\ revoked' = revoked /\ Successors' = Successors
  BY DEF LoginInsert, Insert, IInv, TypeOK, Successors
<1>3. ASSUME NEW s \in Tokens \ {t}
      PROVE  SessionKey'[s] = SessionKey[s]
  <2>1. \A x \in Tokens : IsKey(x, s)' <=> IsKey(x, s)
    BY <1>1, <1>2 DEF IsKey, InService, Opened, Live, Exists
  <2>2. QED
    BY <2>1, SameKey
<1>4. IsKey(t, t)'
  BY <1>1, <1>2 DEF IsKey, InService, Opened, Live, Exists
<1>5. SessionKey'[t] = t
  BY <1>4, KeyOfNext
<1>6. SessionKey' = [SessionKey EXCEPT ![t] = t]
  BY <1>3, <1>5, KeysAreFunction
<1>7. SessionHolder' = [SessionHolder EXCEPT ![t] = u]
  BY <1>1, <1>2 DEF SessionHolder, Opened
<1>8. ~InService(t)
  BY <1>1 DEF InService, Opened
<1>9. {x \in Tokens : InService(x)'} = {x \in Tokens : InService(x)} \cup {t}
  BY <1>1, <1>2 DEF InService, Opened
<1>10. QED
  BY <1>6, <1>7, <1>8, <1>9 DEF Contract!Login

\* A successor that is stored is no key yet.
LEMMA InsertIsInvisible ==
  ASSUME IInv, IInv', NEW r \in Requests, NEW t \in Tokens, RefreshInsert(r, t)
  PROVE  UNCHANGED Contract!vars
<1>1. /\ owner[t] = None /\ origin[t] = None /\ t \notin Successors
      /\ \A x \in Tokens : origin[x] # t
  BY NoneAssumption
     DEF RefreshInsert, Insert, IInv, RowsOK, Exists, Opened
<1>2. /\ req[r].old \in Tokens /\ req[r].old # None /\ t # None
      /\ owner[req[r].old] # None
  BY LocalTypes, NoneAssumption
     DEF RefreshInsert, IInv, LocalsOK, RowsOK, InService, Opened, Exists
<1>3. /\ \A x \in Tokens : x # t => owner'[x] = owner[x] /\ origin'[x] = origin[x]
      /\ origin'[t] # t
      /\ revoked' = revoked /\ Successors' = Successors
  BY <1>1, <1>2 DEF RefreshInsert, Insert, IInv, TypeOK, Successors
<1>4. \A s \in Tokens : /\ Opened(s)' <=> Opened(s)
                        /\ Opened(s) => owner'[s] = owner[s]
                        /\ InService(s)' <=> InService(s)
  BY <1>1, <1>2, <1>3 DEF InService, Opened
<1>5. \A s, x \in Tokens : IsKey(x, s)' <=> IsKey(x, s)
  BY <1>1, <1>2, <1>3, <1>4 DEF IsKey, InService, Opened, Live, Exists
<1>6. QED
  BY <1>4, <1>5, SessionsUnchanged

\* The one UPDATE of a rotation replaces the key of the session by a fresh one;
\* if it matches no row, nothing happens.
LEMMA RotateRefreshes ==
  ASSUME IInv, IInv', NEW r \in Requests, Rotate(r)
  PROVE  \/ \E s, k \in Tokens : Contract!Refresh(s, k)
         \/ UNCHANGED Contract!vars
<1>0. PICK old \in Tokens, new \in Tokens :
        old = req[r].old /\ new = req[r].new
  BY LocalTypes DEF IInv, Rotate
<1>1. CASE RotateMatches(old)
  <2>1. old # None /\ new # None
    BY NoneAssumption
  <2>2. /\ InService(old) /\ Live(old) /\ Live(new) /\ ~InService(new)
        /\ origin[new] = origin[old] /\ old # new
    BY <1>0, <1>1, <2>1 DEF IInv, LocalsOK, Rotate, RotateMatches
  <2>3. replacedBy[old] = None
    BY <2>1, <2>2, NoneAssumption DEF IInv, RotationChains, Reasons, Live
  <2>4. /\ \A x \in Tokens : revoked'[x] = IF x = old THEN "rotated" ELSE revoked[x]
        /\ \A x \in Tokens : replacedBy'[x] = IF x = old THEN new ELSE replacedBy[x]
        /\ owner' = owner /\ origin' = origin
    BY <1>0, <1>1 DEF IInv, Rotate, RotateMatches, TypeOK
  <2>5. Successors' = Successors \cup {new}
    BY <2>1, <2>3, <2>4 DEF Successors
  <2>6. PICK s \in Tokens : s = origin[old]
    BY <2>1, <2>2 DEF IInv, RowsOK, Live
  <2>7. IsKey(old, s)
    BY <2>2, <2>6 DEF IsKey
  <2>8. SessionKey[s] = old
    BY <2>1, <2>7, KeyOf
  <2>9. IsKey(new, s)'
    BY <2>1, <2>2, <2>4, <2>5, <2>6 DEF IsKey, InService, Live, Exists
  <2>10. SessionKey'[s] = new
    BY <2>1, <2>9, KeyOfNext
  <2>11. ASSUME NEW x \in Tokens \ {s}
         PROVE  SessionKey'[x] = SessionKey[x]
    <3>1. \A t \in Tokens : IsKey(t, x)' <=> IsKey(t, x)
      BY <2>1, <2>2, <2>4, <2>5, <2>6 DEF IsKey, InService, Opened, Live, Exists
    <3>2. QED
      BY <3>1, SameKey
  <2>12. SessionKey' = [SessionKey EXCEPT ![s] = new]
    BY <2>10, <2>11, KeysAreFunction
  <2>13. {t \in Tokens : InService(t)'} = {t \in Tokens : InService(t)} \cup {new}
    BY <2>1, <2>4, <2>5 DEF InService, Opened
  <2>14. SessionHolder' = SessionHolder
    BY <2>4 DEF SessionHolder, Opened
  <2>15. Contract!Refresh(s, new)
    BY <2>1, <2>2, <2>8, <2>12, <2>13, <2>14 DEF Contract!Refresh
  <2>16. QED
    BY <2>15
<1>2. CASE ~RotateMatches(old)
  <2>1. UNCHANGED <<owner, origin, revoked>> /\ Successors' = Successors
    BY <1>0, <1>2 DEF Rotate, Successors
  <2>2. QED
    BY <2>1, SessionsUnchanged DEF IsKey, InService, Opened, Live, Exists
<1>3. QED
  BY <1>1, <1>2

\* Revoking the key of a session ends it: there is no other.
LEMMA LogoutCloses ==
  ASSUME IInv, IInv', NEW r \in Requests, LogoutRevoke(r)
  PROVE  \/ \E s \in Tokens : Contract!Logout(s)
         \/ UNCHANGED Contract!vars
<1> DEFINE t == req[r].old
<1>1. t \in Tokens /\ t # None /\ InService(t)
  BY LocalTypes, NoneAssumption DEF LogoutRevoke, LocalsOK, IInv
<1>2. UNCHANGED <<owner, origin>> /\ Successors' = Successors
  BY DEF LogoutRevoke, Successors
<1>3. \A x \in Tokens : InService(x)' <=> InService(x)
  BY <1>2 DEF InService, Opened
<1>4. CASE Live(t)
  <2>1. \A x \in Tokens : revoked'[x] = IF x = t THEN "logout" ELSE revoked[x]
    BY <1>4 DEF LogoutRevoke, RevokeMatches, IInv, TypeOK
  <2>2. PICK s \in Tokens : s = origin[t]
    BY <1>1, <1>4 DEF IInv, RowsOK, Live
  <2>3. IsKey(t, s)
    BY <1>1, <1>4, <2>2 DEF IsKey
  <2>4. SessionKey[s] = t
    BY <1>1, <2>3, KeyOf
  <2>5. \A x \in Tokens : IsKey(x, s) => x = t
    BY <1>1, <2>3 DEF IsKey, IInv, OneLiveInService
  <2>6. SessionKey'[s] = None
    BY <1>2, <1>3, <2>1, <2>5, NoneAssumption
       DEF SessionKey, Open, IsKey, Live, Exists, Reasons
  <2>7. ASSUME NEW y \in Tokens \ {s}
        PROVE  SessionKey'[y] = SessionKey[y]
    <3>1. \A x \in Tokens : IsKey(x, y)' <=> IsKey(x, y)
      BY <1>2, <1>3, <2>1, <2>2 DEF IsKey, Live, Exists
    <3>2. QED
      BY <3>1, SameKey
  <2>8. SessionKey' = [SessionKey EXCEPT ![s] = None]
    BY <2>6, <2>7, KeysAreFunction
  <2>9. /\ SessionHolder' = SessionHolder
        /\ {x \in Tokens : InService(x)'} = {x \in Tokens : InService(x)}
    BY <1>2, <1>3 DEF SessionHolder, Opened
  <2>10. QED
    BY <1>1, <2>4, <2>8, <2>9 DEF Contract!Logout
<1>5. CASE ~Live(t)
  <2>1. revoked' = revoked
    BY <1>5 DEF LogoutRevoke, RevokeMatches, IInv, TypeOK
  <2>2. QED
    BY <1>2, <1>3, <2>1, SessionsUnchanged DEF IsKey, Opened, Live, Exists
<1>6. QED
  BY <1>4, <1>5

\* Revoking every token of a user ends all the user's sessions.
LEMMA LogoutAllCloses ==
  ASSUME IInv, IInv', NEW u \in Users, LogoutAll(u)
  PROVE  Contract!LogoutAll(u)
<1>1. UNCHANGED <<owner, origin>> /\ Successors' = Successors
  BY DEF LogoutAll, Successors
<1>2. \A x \in Tokens :
        revoked'[x] = IF owner[x] = u /\ Live(x) THEN "logout_all" ELSE revoked[x]
  BY DEF LogoutAll, RevokeAllMatches
<1>3. \A x \in Tokens : InService(x)' <=> InService(x)
  BY <1>1 DEF InService, Opened
<1>4. \A s, x \in Tokens : IsKey(x, s) \/ IsKey(x, s)' => Opened(s) /\ owner[x] = owner[s]
  BY <1>1, NoneAssumption DEF IsKey, IInv, RowsOK, Exists, Live
<1>5. u # None
  BY NoneAssumption
<1>6. ASSUME NEW s \in Tokens, SessionHolder[s] = u
      PROVE  SessionKey'[s] = None
  <2>1. owner[s] = u
    BY <1>5, <1>6 DEF SessionHolder
  <2>2. \A x \in Tokens : ~IsKey(x, s)'
    BY <1>1, <1>2, <1>4, <2>1, NoneAssumption DEF IsKey, Live, Exists, Reasons
  <2>3. QED
    BY <2>2 DEF SessionKey, Open
<1>7. ASSUME NEW s \in Tokens, SessionHolder[s] # u
      PROVE  SessionKey'[s] = SessionKey[s]
  <2>1. Opened(s) => owner[s] # u
    BY <1>7 DEF SessionHolder
  <2>2. \A x \in Tokens : IsKey(x, s)' <=> IsKey(x, s)
    BY <1>1, <1>2, <1>3, <1>4, <2>1 DEF IsKey, Live, Exists
  <2>3. QED
    BY <2>2, SameKey
<1>8. SessionKey' = [s \in Tokens |->
                       IF SessionHolder[s] = u THEN None ELSE SessionKey[s]]
  BY <1>6, <1>7, KeysAreFunction
<1>9. /\ SessionHolder' = SessionHolder
      /\ {x \in Tokens : InService(x)'} = {x \in Tokens : InService(x)}
  BY <1>1, <1>3 DEF SessionHolder, Opened
<1>10. QED
  BY <1>8, <1>9 DEF Contract!LogoutAll

LEMMA StepContract == IInv /\ [Next]_vars => [Contract!Next]_(Contract!vars)
<1> SUFFICES ASSUME IInv, [Next]_vars PROVE [Contract!Next]_(Contract!vars)
  OBVIOUS
<1>0. IInv'
  BY InvStep
<1>1. ASSUME UNCHANGED table PROVE UNCHANGED Contract!vars
  <2>1. UNCHANGED <<owner, origin, revoked>> /\ Successors' = Successors
    BY <1>1 DEF table, Successors
  <2>2. QED
    BY <1>0, <2>1, SessionsUnchanged DEF IsKey, InService, Opened, Live, Exists
<1>2. ASSUME NEW r \in Requests, NEW t \in Tokens, LoginInsert(r, t)
      PROVE  Contract!Next
  <2>1. req[r].user \in Users
    BY <1>2 DEF LoginInsert, IInv, TypeOK, Locals, Idle, Local
  <2>2. QED
    BY <1>0, <1>2, <2>1, LoginOpens DEF Contract!Next
<1>3. ASSUME NEW r \in Requests, NEW t \in Tokens, RefreshInsert(r, t)
      PROVE  UNCHANGED Contract!vars
  BY <1>0, <1>3, InsertIsInvisible
<1>4. ASSUME NEW r \in Requests, Rotate(r)
      PROVE  [Contract!Next]_(Contract!vars)
  BY <1>0, <1>4, RotateRefreshes DEF Contract!Next
<1>5. ASSUME NEW r \in Requests, LogoutRevoke(r)
      PROVE  [Contract!Next]_(Contract!vars)
  BY <1>0, <1>5, LogoutCloses DEF Contract!Next
<1>6. ASSUME NEW u \in Users, LogoutAll(u)
      PROVE  Contract!Next
  BY <1>0, <1>6, LogoutAllCloses DEF Contract!Next
<1>7. QED
  BY <1>1, <1>2, <1>3, <1>4, <1>5, <1>6
     DEF Next, LoginLookup, RefreshFind, RefreshUser, Reply, LogoutFind,
         SetActive, SoftDelete, Restore, Drop, Tick, vars

\* Seen from outside a refresh replaces the one key of a session by a fresh one
\* in one step or does nothing, logins open sessions, logouts end them for good,
\* and failures and lost answers are invisible.
THEOREM Refinement == Spec => ImplementsContract
BY InitContract, StepContract, Invariance, PTL
   DEF Spec, Contract!Spec, ImplementsContract

\* No refresh that was past its checks reopens a session a logout has closed.
THEOREM ClosedStaysClosed == Spec => ClosedSessionStaysClosed
<1>1. [Contract!Next]_(Contract!vars) =>
        \A s \in Tokens : InService(s) /\ SessionKey[s] = None => SessionKey'[s] = None
  BY DEF Contract!Next, Contract!vars, Contract!Login, Contract!Refresh,
         Contract!Logout, Contract!LogoutAll, SessionKey
<1>2. ASSUME NEW s \in Tokens
      PROVE  /\ Open(s) <=> SessionKey[s] # None
             /\ Open(s)' <=> SessionKey'[s] # None
  BY NoneAssumption DEF SessionKey, Open
<1>3. IInv /\ [Next]_vars =>
        [\A s \in Tokens : Opened(s) /\ ~Open(s) => ~Open(s)']_vars
  BY <1>1, <1>2, StepContract DEF InService
<1>4. QED
  BY <1>3, Invariance, PTL DEF Spec, ClosedSessionStaysClosed

\* A revoked row keeps the reason and the successor its revocation gave it.
THEOREM RevocationFinal == Spec => RevocationIsFinal
<1>1. IInv /\ [Next]_vars =>
        [\A t \in Tokens :
           revoked[t] # None =>
             revoked'[t] = revoked[t] /\ replacedBy'[t] = replacedBy[t]]_vars
  <2> SUFFICES ASSUME IInv, [Next]_vars, NEW t \in Tokens, revoked[t] # None
               PROVE  revoked'[t] = revoked[t] /\ replacedBy'[t] = replacedBy[t]
    OBVIOUS
  <2> USE DEF IInv, TypeOK, Live
  <2>1. ASSUME NEW r \in Requests, NEW x \in Tokens,
               LoginInsert(r, x) \/ RefreshInsert(r, x)
        PROVE  UNCHANGED <<revoked, replacedBy>>
    BY <2>1 DEF LoginInsert, RefreshInsert, Insert
  <2>2. ASSUME NEW r \in Requests, Rotate(r)
        PROVE  revoked'[t] = revoked[t] /\ replacedBy'[t] = replacedBy[t]
    BY <2>2 DEF Rotate, RotateMatches
  <2>3. ASSUME NEW r \in Requests, LogoutRevoke(r)
        PROVE  revoked'[t] = revoked[t] /\ replacedBy'[t] = replacedBy[t]
    BY <2>3 DEF LogoutRevoke, RevokeMatches
  <2>4. ASSUME NEW u \in Users, LogoutAll(u)
        PROVE  revoked'[t] = revoked[t] /\ replacedBy'[t] = replacedBy[t]
    BY <2>4 DEF LogoutAll, RevokeAllMatches
  <2>5. QED
    BY <2>1, <2>2, <2>3, <2>4
       DEF Next, LoginLookup, RefreshFind, RefreshUser, Reply, LogoutFind,
           SetActive, SoftDelete, Restore, Drop, Tick, vars, table
<1>2. QED
  BY <1>1, Invariance, PTL DEF Spec, RevocationIsFinal

\* A deleted or deactivated user gets tokens only from requests that had read
\* the account before.
THEOREM LockedOut == Spec => LockedOutUserGetsNoToken
<1>1. IInv /\ [Next]_vars =>
        [\A u \in Users :
           LET Locked == \A r \in Requests : ~Authenticating(r, u)
           IN  (deleted[u] \/ ~active[u]) /\ Locked =>
                 /\ Locked'
                 /\ \A t \in Tokens : owner'[t] = u => owner[t] = u]_vars
  <2> SUFFICES ASSUME IInv, [Next]_vars, NEW u \in Users, deleted[u] \/ ~active[u],
                      \A r \in Requests : ~Authenticating(r, u)
               PROVE  /\ \A r \in Requests : ~Authenticating(r, u)'
                      /\ \A t \in Tokens : owner'[t] = u => owner[t] = u
    OBVIOUS
  <2> USE DEF IInv, TypeOK, Authenticating, Continue, Finish, Local, Idle
  <2>1. ASSUME NEW r \in Requests, NEW t \in Tokens,
               LoginInsert(r, t) \/ RefreshInsert(r, t)
        PROVE  /\ \A q \in Requests : ~Authenticating(q, u)'
               /\ \A x \in Tokens : owner'[x] = u => owner[x] = u
    BY <2>1 DEF LoginInsert, RefreshInsert, Insert
  <2>2. ASSUME NEW r \in Requests, NEW v \in Users, LoginLookup(r, v)
        PROVE  /\ \A q \in Requests : ~Authenticating(q, u)'
               /\ UNCHANGED owner
    BY <2>2 DEF LoginLookup, MayAuthenticate, table
  <2>3. ASSUME NEW r \in Requests, RefreshUser(r)
        PROVE  /\ \A q \in Requests : ~Authenticating(q, u)'
               /\ UNCHANGED owner
    BY <2>3 DEF RefreshUser, MayAuthenticate, table
  <2>4. ASSUME NEW r \in Requests, NEW t \in Tokens, NEW v \in Users,
               RefreshFind(r, t) \/ LogoutFind(r, v, t)
        PROVE  /\ \A q \in Requests : ~Authenticating(q, u)'
               /\ UNCHANGED owner
    BY <2>4 DEF RefreshFind, LogoutFind, table
  <2>5. CASE UNCHANGED <<owner, req>>
    BY <2>5
  <2>6. ASSUME NEW r \in Requests, Reply(r) \/ Rotate(r) \/ LogoutRevoke(r) \/ Drop(r)
        PROVE  /\ \A q \in Requests : ~Authenticating(q, u)'
               /\ UNCHANGED owner
    BY <2>6 DEF Rotate, Reply, LogoutRevoke, Drop, table
  <2>7. QED
    BY <2>1, <2>2, <2>3, <2>4, <2>5, <2>6
       DEF Next, LogoutAll, SetActive, SoftDelete, Restore, Tick, vars, table
<1>2. QED
  BY <1>1, Invariance, PTL DEF Spec, LockedOutUserGetsNoToken

\* A session none of whose tokens is usable any more is never refreshed again,
\* save by a refresh that is already under way.
THEOREM ExpiredStaysUnusable == Spec => ExpiredSessionStaysUnusable
<1>1. IInv /\ [Next]_vars =>
        [\A s \in Tokens :
           LET Over == ~Usable(s) /\ \A r \in Requests : ~Refreshing(r, s)
           IN  Opened(s) /\ Over => Over']_vars
  <2> SUFFICES ASSUME IInv, [Next]_vars, NEW s \in Tokens, Opened(s), ~Usable(s),
                      \A r \in Requests : ~Refreshing(r, s)
               PROVE  ~Usable(s)' /\ \A r \in Requests : ~Refreshing(r, s)'
    OBVIOUS
  <2>0. s # None /\ Exists(s)
    BY NoneAssumption DEF IInv, RowsOK, Opened
  <2> USE DEF IInv, Continue, Finish, Exists, Live, InService, Opened, IsKey, Refreshing
  <2>1. ASSUME NEW r \in Requests, NEW t \in Tokens,
               LoginInsert(r, t) \/ RefreshInsert(r, t)
        PROVE  ~Usable(s)' /\ \A q \in Requests : ~Refreshing(q, s)'
    <3>1. /\ t # s /\ origin[t] = None /\ owner[t] = None /\ t # None
          /\ \A q \in Requests : req[q].old # t
          /\ revoked' = revoked /\ Successors' = Successors /\ now' = now
      BY <2>0, <2>1, NoneAssumption, LocalTypes
         DEF LoginInsert, RefreshInsert, Insert, RowsOK, LocalsOK, Successors
    <3>2. /\ \A x \in Tokens : x # t => /\ owner'[x] = owner[x]
                                        /\ origin'[x] = origin[x]
                                        /\ expiresAt'[x] = expiresAt[x]
          /\ origin'[t] # s
      BY <2>0, <2>1, <3>1, NoneAssumption, LocalTypes
         DEF LoginInsert, RefreshInsert, Insert, TypeOK, Idle, Local
    <3>3. \A q \in Requests : \/ req'[q].old = None
                              \/ /\ req'[q].old = req[q].old
                                 /\ req[q].at # "logout_revoke"
                              \/ req'[q] = req[q]
      BY <2>1 DEF LoginInsert, RefreshInsert, TypeOK, Local
    <3>4. ~Usable(s)'
      BY <3>1, <3>2 DEF Usable, Expired
    <3>5. \A q \in Requests : ~Refreshing(q, s)'
      BY <3>1, <3>2, <3>3, LocalTypes
    <3>6. QED
      BY <3>4, <3>5
  <2>2. ASSUME NEW r \in Requests, NEW t \in Tokens, RefreshFind(r, t)
        PROVE  ~Usable(s)' /\ \A q \in Requests : ~Refreshing(q, s)'
    <3>1. origin[t] # s
      BY <2>2 DEF Usable, RefreshFind, Refreshable, ClientsHoldNoOrphan
    <3>2. ~Usable(s)'
      BY <2>2 DEF Usable, RefreshFind, table, Successors, Expired
    <3>3. \A q \in Requests : ~Refreshing(q, s)'
      BY <2>2, <3>1 DEF RefreshFind, table, TypeOK, Local
    <3>4. QED
      BY <3>2, <3>3
  <2>3. ASSUME NEW r \in Requests, Rotate(r)
        PROVE  ~Usable(s)' /\ \A q \in Requests : ~Refreshing(q, s)'
    <3>1. \A q \in Requests : \/ req'[q].old = None
                              \/ /\ req'[q].old = req[q].old
                                 /\ req[q].at # "logout_revoke"
                              \/ req'[q] = req[q]
      BY <2>3 DEF Rotate, TypeOK, Local, Idle
    <3>2. \A q \in Requests : ~Refreshing(q, s)'
      BY <2>3, <3>1 DEF Rotate
    <3>3. /\ req[r].old \in Tokens /\ req[r].new \in Tokens
          /\ req[r].old # None /\ origin[req[r].old] # s
      BY <2>3, LocalTypes, NoneAssumption DEF Rotate
    <3>4. origin[req[r].new] # s
      BY <2>3, <3>3 DEF LocalsOK, Rotate
    <3>5. UNCHANGED <<owner, origin, expiresAt, now>>
      BY <2>3 DEF Rotate
    <3>6. \A x \in Tokens : x \in Successors' => x \in Successors \/ x = req[r].new
      BY <2>3, <3>3 DEF Rotate, Successors, TypeOK
    <3>7. \A x \in Tokens : revoked'[x] = None => revoked[x] = None
      BY <2>3, <3>3, NoneAssumption DEF Rotate, TypeOK, Reasons
    <3>8. ~Usable(s)'
      BY <3>4, <3>5, <3>6, <3>7 DEF Usable, Expired
    <3>9. QED
      BY <3>2, <3>8
  <2>4. ASSUME UNCHANGED table, now' \in Nat, now' >= now,
               \A q \in Requests : \/ req'[q].old = None
                                   \/ req'[q] = req[q]
                                   \/ req'[q].at = "logout_revoke"
                                   \/ /\ req'[q].old = req[q].old
                                      /\ req[q].at # "logout_revoke"
        PROVE  ~Usable(s)' /\ \A q \in Requests : ~Refreshing(q, s)'
    <3>1. \A t \in Tokens : Expired(t) => Expired(t)'
      BY <2>4 DEF Expired, table, TypeOK
    <3>2. ~Usable(s)'
      BY <2>4, <3>1 DEF Usable, table, Successors
    <3>3. \A q \in Requests : ~Refreshing(q, s)'
      BY <2>4 DEF table
    <3>4. QED
      BY <3>2, <3>3
  <2>5. ASSUME UNCHANGED <<now, owner, expiresAt, replacedBy, origin>>,
               \A x \in Tokens : revoked'[x] = None => revoked[x] = None,
               \A q \in Requests : req'[q] = req[q] \/ req'[q] = Idle
        PROVE  ~Usable(s)' /\ \A q \in Requests : ~Refreshing(q, s)'
    BY <2>5 DEF Usable, Expired, Successors, Idle, Local
  <2>6. now \in Nat /\ req \in [Requests -> Locals]
    BY TimeAssumption DEF TypeOK
  <2>7. ASSUME NEW r \in Requests, NEW u \in Users, NEW t \in Tokens,
               \/ LoginLookup(r, u) \/ LogoutFind(r, u, t)
        PROVE  ~Usable(s)' /\ \A q \in Requests : ~Refreshing(q, s)'
    BY <2>4, <2>6, <2>7 DEF LoginLookup, LogoutFind, Local
  <2>8. ASSUME NEW r \in Requests, RefreshUser(r) \/ Reply(r) \/ Drop(r)
        PROVE  ~Usable(s)' /\ \A q \in Requests : ~Refreshing(q, s)'
    BY <2>4, <2>6, <2>8 DEF RefreshUser, Reply, Drop, Local, Idle
  <2>9. ASSUME NEW r \in Requests, LogoutRevoke(r)
        PROVE  ~Usable(s)' /\ \A q \in Requests : ~Refreshing(q, s)'
    BY <2>5, <2>6, <2>9, NoneAssumption DEF LogoutRevoke, TypeOK, Reasons
  <2>10. ASSUME NEW u \in Users, LogoutAll(u)
         PROVE  ~Usable(s)' /\ \A q \in Requests : ~Refreshing(q, s)'
    BY <2>5, <2>10, NoneAssumption DEF LogoutAll, Reasons
  <2>11. CASE UNCHANGED <<table, req>> /\ now' \in Nat /\ now' >= now
    BY <2>4, <2>11
  <2>12. Next => \/ UNCHANGED <<table, req>> /\ now' \in Nat /\ now' >= now
                 \/ \E r \in Requests, t \in Tokens :
                      LoginInsert(r, t) \/ RefreshInsert(r, t) \/ RefreshFind(r, t)
                 \/ \E r \in Requests, u \in Users :
                      \/ LoginLookup(r, u)
                      \/ \E t \in Tokens : LogoutFind(r, u, t)
                 \/ \E r \in Requests :
                      \/ RefreshUser(r) \/ Reply(r) \/ Drop(r)
                      \/ Rotate(r) \/ LogoutRevoke(r)
                 \/ \E u \in Users : LogoutAll(u)
    BY <2>6 DEF Next, SetActive, SoftDelete, Restore, Tick
  <2>13. UNCHANGED vars => UNCHANGED <<table, req>> /\ now' \in Nat /\ now' >= now
    BY <2>6 DEF vars
  <2>14. QED
    BY <2>1, <2>2, <2>3, <2>7, <2>8, <2>9, <2>10, <2>11, <2>12, <2>13
<1>2. QED
  BY <1>1, Invariance, PTL DEF Spec, ExpiredSessionStaysUnusable

=============================================================================
