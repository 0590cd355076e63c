--------------------------- MODULE PagesSavesProofs ---------------------------
(***************************************************************************)
(* What the pages save: a guard (a disabled button, a confirmed dialog) is up*)
(* exactly when one request it guards is under way, and the modals of the  *)
(* book pages hold the data of what they were opened for.                  *)
(***************************************************************************)
EXTENDS PagesProofs, FiniteSetTheorems

\* The button, or dialog, that guards an operation; the others guard themselves.
GuardOf(op) == IF op \in {"assign", "solve"} THEN "save" ELSE op

\* The guards there are.
Guards == {"save", "testSave", "freshSave", "bookSave", "deleteBook", "delete"}

\* The requests g guards among n; there is none; there is exactly one.
Sites(n, g) == {k \in DOMAIN n : GuardOf(n[k].op) = g}
No(n, g) == \A k \in DOMAIN n : GuardOf(n[k].op) # g
One(n, g) ==
  \E k \in DOMAIN n : /\ GuardOf(n[k].op) = g
                      /\ \A j \in DOMAIN n : GuardOf(n[j].op) = g => j = k

\* Taking an answer takes its own request away, and no other.
LEMMA Taken ==
  ASSUME IsSeq(net), NEW i \in DOMAIN net, NEW g, NEW o, o = net[i].op
  PROVE  /\ No(net, g) => No(Without(i), g)
         /\ One(net, g) => IF GuardOf(o) = g THEN No(Without(i), g) ELSE One(Without(i), g)
<1>1. Len(net) \in Nat /\ DOMAIN net = 1 .. Len(net) BY SeqFacts
<1> DEFINE w == Without(i)
<1>2. /\ DOMAIN w = 1 .. Len(net) - 1
      /\ \A j \in DOMAIN w : j < i => w[j] = Overtaken(net[j], net[i].op)
      /\ \A j \in DOMAIN w : ~(j < i) => w[j] = net[j + 1]
  BY WithoutFacts
<1> HIDE DEF w
<1>3. \A j \in DOMAIN w : w[j].op = (IF j < i THEN net[j] ELSE net[j + 1]).op
  BY <1>2, OldFacts
<1>4. \A j \in DOMAIN w : j \in DOMAIN net /\ j + 1 \in DOMAIN net BY <1>1, <1>2
<1>5. No(net, g) => No(w, g) BY <1>3, <1>4 DEF No
<1>6. ASSUME One(net, g) PROVE IF GuardOf(o) = g THEN No(w, g) ELSE One(w, g)
  <2> PICK k \in DOMAIN net : /\ GuardOf(net[k].op) = g
                              /\ \A j \in DOMAIN net : GuardOf(net[j].op) = g => j = k
    BY <1>6 DEF One
  <2>1. CASE GuardOf(o) = g
    <3>1. i = k BY <2>1
    <3>2. \A j \in DOMAIN w : GuardOf(w[j].op) # g
      <4> TAKE j \in DOMAIN w
      <4>1. CASE j < i
        <5>1. j # k /\ j \in DOMAIN net /\ w[j].op = net[j].op BY <1>1, <1>3, <1>4, <3>1, <4>1
        <5> QED BY <5>1
      <4>2. CASE ~(j < i)
        <5>1. j + 1 # k /\ j + 1 \in DOMAIN net /\ w[j].op = net[j + 1].op
          BY <1>1, <1>2, <1>3, <1>4, <3>1, <4>2
        <5> QED BY <5>1
      <4> QED BY <4>1, <4>2
    <3> QED BY <2>1, <3>2 DEF No
  <2>2. CASE GuardOf(o) # g
    <3>1. i # k BY <2>2
    <3> DEFINE h == IF k < i THEN k ELSE k - 1
    <3>2. h \in DOMAIN w BY <1>1, <1>2, <3>1
    <3>3. w[h].op = net[k].op BY <1>1, <1>3, <3>1, <3>2
    <3>4. ASSUME NEW j \in DOMAIN w, GuardOf(w[j].op) = g PROVE j = h
      <4>1. CASE j < i
        <5>1. w[j].op = net[j].op /\ j \in DOMAIN net BY <1>3, <1>4, <4>1
        <5>2. j = k BY <3>4, <5>1
        <5> QED BY <4>1, <5>2
      <4>2. CASE ~(j < i)
        <5>1. w[j].op = net[j + 1].op /\ j + 1 \in DOMAIN net BY <1>3, <1>4, <4>2
        <5>2. j + 1 = k BY <3>4, <5>1
        <5> QED BY <1>1, <1>2, <4>2, <5>2
      <4> QED BY <4>1, <4>2
    <3> HIDE DEF h
    <3>5. One(w, g) BY <3>2, <3>3, <3>4 DEF One
    <3> QED BY <2>2, <3>5
  <2> QED BY <2>1, <2>2
<1> QED BY <1>5, <1>6 DEF w

\* Requests that g does not guard change nothing for it.
LEMMA Joined ==
  ASSUME NEW s, IsSeq(s), NEW t, IsSeq(t), NEW g, No(t, g)
  PROVE  /\ No(s, g) => No(s \o t, g)
         /\ One(s, g) => One(s \o t, g)
<1>1. /\ Len(s) \in Nat /\ DOMAIN s = 1 .. Len(s)
      /\ Len(t) \in Nat /\ DOMAIN t = 1 .. Len(t)
  BY SeqFacts
<1> DEFINE u == s \o t
<1>2. /\ DOMAIN u = 1 .. Len(s) + Len(t)
      /\ \A k \in DOMAIN u : u[k] = IF k <= Len(s) THEN s[k] ELSE t[k - Len(s)]
  BY ConcatFacts
<1> HIDE DEF u
<1>3. ASSUME NEW k \in DOMAIN u, GuardOf(u[k].op) = g PROVE k \in DOMAIN s /\ u[k] = s[k]
  <2>1. CASE k <= Len(s) BY <1>1, <1>2, <2>1
  <2>2. CASE ~(k <= Len(s))
    <3>1. k - Len(s) \in DOMAIN t /\ u[k] = t[k - Len(s)] BY <1>1, <1>2, <2>2
    <3> QED BY <1>3, <3>1 DEF No
  <2> QED BY <2>1, <2>2
<1>4. \A k \in DOMAIN s : k \in DOMAIN u /\ u[k] = s[k] BY <1>1, <1>2
<1>5. No(s, g) => No(u, g) BY <1>3 DEF No
<1>6. One(s, g) => One(u, g)
  <2> SUFFICES ASSUME One(s, g) PROVE One(u, g) OBVIOUS
  <2> PICK k \in DOMAIN s : /\ GuardOf(s[k].op) = g
                            /\ \A j \in DOMAIN s : GuardOf(s[j].op) = g => j = k
    BY DEF One
  <2>1. k \in DOMAIN u /\ GuardOf(u[k].op) = g BY <1>4
  <2>2. \A j \in DOMAIN u : GuardOf(u[j].op) = g => j = k BY <1>3
  <2> QED BY <2>1, <2>2 DEF One
<1> QED BY <1>5, <1>6 DEF u

\* A request sent is one more for its guard only.
LEMMA Sent ==
  ASSUME NEW s, IsSeq(s), NEW r, NEW g
  PROVE  /\ GuardOf(r.op) # g /\ No(s, g) => No(Append(s, r), g)
         /\ GuardOf(r.op) # g /\ One(s, g) => One(Append(s, r), g)
         /\ GuardOf(r.op) = g /\ No(s, g) => One(Append(s, r), g)
<1>1. Append(s, r) = s \o <<r>> BY AppendOne
<1>2. IsSeq(<<r>>) /\ DOMAIN <<r>> = 1 .. 1 /\ <<r>>[1] = r BY TupleFacts
<1>3. GuardOf(r.op) # g => No(<<r>>, g) BY <1>2 DEF No
<1>4. ASSUME GuardOf(r.op) = g, No(s, g) PROVE One(Append(s, r), g)
  <2> DEFINE t == Append(s, r)
  <2>1. Len(s) \in Nat /\ DOMAIN s = 1 .. Len(s) BY SeqFacts
  <2>2. /\ DOMAIN t = 1 .. Len(s) + 1 /\ t[Len(s) + 1] = r
        /\ \A k \in DOMAIN s : t[k] = s[k]
    BY AppendFacts
  <2> HIDE DEF t
  <2>3. Len(s) + 1 \in DOMAIN t BY <2>1, <2>2
  <2>4. \A j \in DOMAIN t : GuardOf(t[j].op) = g => j = Len(s) + 1
    <3> TAKE j \in DOMAIN t
    <3>1. j \in DOMAIN s \/ j = Len(s) + 1 BY <2>1, <2>2
    <3> QED BY <1>4, <2>2, <3>1 DEF No
  <2> QED BY <1>4, <2>2, <2>3, <2>4 DEF One, t
<1> QED BY <1>1, <1>2, <1>3, <1>4, Joined

\* One and none, as cardinalities.
LEMMA Counted ==
  ASSUME NEW n, NEW g
  PROVE  /\ One(n, g) => Cardinality(Sites(n, g)) = 1
         /\ No(n, g) => Cardinality(Sites(n, g)) = 0
<1>1. ASSUME One(n, g) PROVE Cardinality(Sites(n, g)) = 1
  <2> PICK k \in DOMAIN n : /\ GuardOf(n[k].op) = g
                            /\ \A j \in DOMAIN n : GuardOf(n[j].op) = g => j = k
    BY <1>1 DEF One
  <2>1. Sites(n, g) = {k} BY DEF Sites
  <2> QED BY <2>1, FS_Singleton
<1>2. ASSUME No(n, g) PROVE Cardinality(Sites(n, g)) = 0
  <2>1. Sites(n, g) = {} BY <1>2 DEF Sites, No
  <2> QED BY <2>1, FS_EmptySet
<1> QED BY <1>1, <1>2

-----------------------------------------------------------------------------
(* The guards that are up, and the requests they are up for *)

Raised ==
  (IF isSubmitting THEN {"save"} ELSE {})
    \cup (IF edit.saving THEN {"testSave"} ELSE {})
    \cup (IF fresh.saving THEN {"freshSave"} ELSE {})
    \cup (IF book.saving THEN {"bookSave"} ELSE {})
    \cup (IF bookDialog = "confirmed" THEN {"deleteBook"} ELSE {})
    \cup (IF dialog.flag /\ ~dialog.visible THEN {"delete"} ELSE {})

\* Each guard of S has one request in n, the others none.
Held(n, S) == IsSeq(n) /\ \A g \in Guards : IF g \in S THEN One(n, g) ELSE No(n, g)

\* Requests nothing guards.
Plain(t) == Held(t, {})

\* The answer to a request takes its guard away.
LEMMA HeldTaken ==
  ASSUME NEW S, Held(net, S), NEW i \in DOMAIN net
  PROVE  Held(Without(i), S \ {GuardOf(net[i].op)})
<1>1. IsSeq(net) BY DEF Held
<1>2. IsSeq(Without(i)) BY <1>1, WithoutFacts
<1>3. ASSUME NEW g \in Guards
      PROVE IF g \in S \ {GuardOf(net[i].op)} THEN One(Without(i), g) ELSE No(Without(i), g)
  <2>1. /\ No(net, g) => No(Without(i), g)
        /\ One(net, g) =>
             IF GuardOf(net[i].op) = g THEN No(Without(i), g) ELSE One(Without(i), g)
    BY <1>1, Taken
  <2>2. IF g \in S THEN One(net, g) ELSE No(net, g) BY DEF Held
  <2> QED BY <2>1, <2>2
<1> QED BY <1>2, <1>3 DEF Held

\* Requests nothing guards change nothing.
LEMMA HeldJoined ==
  ASSUME NEW S, NEW s, Held(s, S), NEW t, Plain(t)
  PROVE  Held(s \o t, S)
<1>1. IsSeq(s) /\ IsSeq(t) BY DEF Held, Plain
<1>2. IsSeq(s \o t) BY <1>1, ConcatFacts
<1>3. ASSUME NEW g \in Guards PROVE IF g \in S THEN One(s \o t, g) ELSE No(s \o t, g)
  <2>1. No(t, g) BY DEF Held, Plain
  <2>2. IF g \in S THEN One(s, g) ELSE No(s, g) BY DEF Held
  <2> QED BY <1>1, <2>1, <2>2, Joined
<1> QED BY <1>2, <1>3 DEF Held

\* A request sent adds its guard, if it has one.
LEMMA HeldSent ==
  ASSUME NEW S, NEW s, Held(s, S), NEW op, NEW a
  PROVE  /\ GuardOf(op) \in Guards \ S => Held(Append(s, Request(op, a)), S \cup {GuardOf(op)})
         /\ GuardOf(op) \notin Guards => Held(Append(s, Request(op, a)), S)
<1> DEFINE r == Request(op, a)
<1>1. r.op = op BY RequestFacts
<1>2. IsSeq(s) BY DEF Held
<1> HIDE DEF r
<1>3. IsSeq(Append(s, r)) BY <1>2, AppendFacts
<1>4. ASSUME NEW g \in Guards
      PROVE  /\ GuardOf(op) # g /\ No(s, g) => No(Append(s, r), g)
             /\ GuardOf(op) # g /\ One(s, g) => One(Append(s, r), g)
             /\ GuardOf(op) = g /\ No(s, g) => One(Append(s, r), g)
  BY <1>1, <1>2, Sent
<1>5. \A g \in Guards : IF g \in S THEN One(s, g) ELSE No(s, g) BY DEF Held
<1>6. ASSUME GuardOf(op) \in Guards \ S PROVE Held(Append(s, r), S \cup {GuardOf(op)})
  BY <1>3, <1>4, <1>5, <1>6 DEF Held
<1>7. ASSUME GuardOf(op) \notin Guards PROVE Held(Append(s, r), S)
  BY <1>3, <1>4, <1>5, <1>7 DEF Held
<1> QED BY <1>6, <1>7 DEF r

\* The requests nothing guards.
LEMMA PlainFacts ==
  /\ Plain(<<>>)
  /\ \A op, a : GuardOf(op) \notin Guards => Plain(<<Request(op, a)>>)
  /\ \A op, oq, a, b : GuardOf(op) \notin Guards /\ GuardOf(oq) \notin Guards =>
       Plain(<<Request(op, a), Request(oq, b)>>)
<1>1. Plain(<<>>) BY TupleFacts DEF Plain, Held, No
<1>2. ASSUME NEW op, NEW a, GuardOf(op) \notin Guards PROVE Plain(<<Request(op, a)>>)
  BY <1>2, TupleFacts, RequestFacts DEF Plain, Held, No
<1>3. ASSUME NEW op, NEW oq, NEW a, NEW b, GuardOf(op) \notin Guards, GuardOf(oq) \notin Guards
      PROVE Plain(<<Request(op, a), Request(oq, b)>>)
  <2> DEFINE t == <<Request(op, a), Request(oq, b)>>
  <2>1. IsSeq(t) /\ DOMAIN t = 1 .. 2 /\ t[1].op = op /\ t[2].op = oq
    BY TupleFacts, RequestFacts
  <2> HIDE DEF t
  <2>2. \A k \in DOMAIN t : k = 1 \/ k = 2 BY <2>1
  <2>3. \A k \in DOMAIN t : GuardOf(t[k].op) \notin Guards BY <1>3, <2>1, <2>2
  <2> QED BY <2>1, <2>3 DEF Plain, Held, No, t
<1> QED BY <1>1, <1>2, <1>3

\* Which flag stands for which guard.
RaisedMeans ==
  /\ "save" \in Raised <=> isSubmitting
  /\ "testSave" \in Raised <=> edit.saving
  /\ "freshSave" \in Raised <=> fresh.saving
  /\ "bookSave" \in Raised <=> book.saving
  /\ "deleteBook" \in Raised <=> bookDialog = "confirmed"
  /\ "delete" \in Raised <=> dialog.flag /\ ~dialog.visible
  /\ Raised \subseteq Guards

\* Before and after a step.
LEMMA RaisedFacts == RaisedMeans /\ RaisedMeans'
BY DEF RaisedMeans, Raised, Guards

\* The dialog, and records that have the field their guard stands in.
Shaped ==
  /\ dialog.visible => dialog.flag /\ dialog.target # None
  /\ "saving" \in DOMAIN edit /\ "saving" \in DOMAIN fresh /\ "saving" \in DOMAIN book

\* The invariant: the guards that are up are those with a request under way, which
\* they have once; and only pages of books use the guards of their modals.
SavesInv ==
  /\ Held(net, Raised)
  /\ page = None => net = <<>>
  /\ page \notin BookPages => Raised \subseteq {"save", "delete"}
  /\ Shaped

\* Without requests no guard is up.
LEMMA NothingRaised ==
  ASSUME SavesInv, net = <<>>
  PROVE  Raised = {}
<1>1. \A g \in Guards : ~One(net, g) BY TupleFacts DEF One
<1> QED BY <1>1, RaisedFacts DEF RaisedMeans, SavesInv, Held

\* The kinds of steps.
LEMMA Quiet ==
  ASSUME SavesInv, Shaped', UNCHANGED <<page, net>>, Raised' = Raised
  PROVE  SavesInv'
BY DEF SavesInv

\* A page opens and sends requests nothing guards.
LEMMA Opened ==
  ASSUME SavesInv, Shaped', page = None, page' # None, Plain(net'), Raised' = Raised
  PROVE  SavesInv'
BY NothingRaised DEF SavesInv, Plain

\* A page is left.
LEMMA Closed ==
  ASSUME Shaped', net' = <<>>, Raised' = {}
  PROVE  SavesInv'
BY PlainFacts DEF SavesInv, Plain

\* An answer is taken and its guard goes down.
LEMMA AnswerTaken ==
  ASSUME SavesInv, Shaped', page' = page, page # None, NEW i \in DOMAIN net,
         NEW t, Plain(t), net' = Without(i) \o t,
         Raised' = Raised \ {GuardOf(net[i].op)}
  PROVE  SavesInv'
<1>1. Held(Without(i), Raised') BY HeldTaken DEF SavesInv
<1>2. Held(net', Raised') BY <1>1, HeldJoined
<1> QED BY <1>2 DEF SavesInv

\* A request nothing guards is sent.
LEMMA Asked ==
  ASSUME SavesInv, Shaped', page' = page, page # None,
         NEW t, Plain(t), net' = net \o t, Raised' = Raised
  PROVE  SavesInv'
BY HeldJoined DEF SavesInv

\* A guarded request is sent and its guard goes up.
LEMMA Guarded ==
  ASSUME SavesInv, Shaped', page' = page, page # None, NEW op, NEW a,
         net' = Append(net, Request(op, a)), GuardOf(op) \in Guards \ Raised,
         Raised' = Raised \cup {GuardOf(op)},
         page \in BookPages \/ GuardOf(op) \in {"save", "delete"}
  PROVE  SavesInv'
BY HeldSent DEF SavesInv

\* Every step of a listing page keeps the invariant.
LEMMA ListsSave ==
  ASSUME SavesInv, ListsNext, UNCHANGED bookVars
  PROVE  SavesInv'
<1>0. /\ None \notin ListPages /\ ListPages \cap BookPages = {}
      /\ RaisedMeans /\ RaisedMeans'
  BY PageNames, RaisedFacts DEF AllPages
<1>1. ASSUME NEW p \in ListPages, OpenList(p) PROVE SavesInv'
  <2>1. page = None /\ page' = p /\ UNCHANGED <<isSubmitting, dialog>>
    BY <1>1 DEF OpenList, Mount
  <2>2. net' = Requests(Component[p].open, FirstPage) BY <1>1 DEF OpenList, Mount
  <2>3. \/ net' = <<Request("rows", FirstPage)>>
        \/ net' = <<Request("rows", FirstPage), Request("roles", FirstPage)>>
    BY <2>2, ComponentFacts, RequestsFacts
  <2>4. Plain(net') BY <2>3, PlainFacts DEF GuardOf, Guards
  <2>5. Raised' = Raised BY <2>1 DEF Raised, bookVars
  <2>6. Shaped' BY <2>1 DEF Shaped, SavesInv, bookVars
  <2> QED BY <1>0, <2>1, <2>4, <2>5, <2>6, Opened
<1>2. CASE LeaveList
  <2>1. page \notin BookPages /\ net' = <<>> /\ ~isSubmitting' /\ dialog' = NoDialog
    BY <1>0, <1>2 DEF LeaveList, Unmount
  <2>2. Raised' = {}
    BY <1>0, <2>1 DEF RaisedMeans, SavesInv, bookVars, NoDialog, Guards
  <2>3. Shaped' BY <2>1 DEF Shaped, SavesInv, bookVars, NoDialog
  <2> QED BY <2>1, <2>2, <2>3, Closed
<1>3. ASSUME NEW x \in Items, ConfirmDelete(x) PROVE SavesInv'
  <2>1. UNCHANGED <<page, net, isSubmitting>> /\ OpenDialog(x) BY <1>3 DEF ConfirmDelete
  <2>2. Raised' = Raised BY <2>1 DEF Raised, bookVars, OpenDialog
  <2>3. Shaped' BY <2>1, ListAssumption DEF Shaped, SavesInv, bookVars, OpenDialog
  <2> QED BY <2>1, <2>2, <2>3, Quiet
<1>4. CASE CancelDelete
  <2>1. UNCHANGED <<page, net, isSubmitting>> /\ CloseDialog(None) /\ dialog.visible
    BY <1>4 DEF CancelDelete
  <2>2. Raised' = Raised BY <2>1 DEF Raised, bookVars, CloseDialog
  <2>3. Shaped' BY <2>1 DEF Shaped, SavesInv, bookVars, CloseDialog
  <2> QED BY <2>1, <2>2, <2>3, Quiet
<1>5. CASE Delete
  <2>1. page # None /\ dialog.visible /\ UNCHANGED <<page, isSubmitting>>
    BY <1>0, <1>5 DEF Delete
  <2>2. CASE HideDialog /\ net' = Append(net, Request("delete", dialog.target))
    <3>1. GuardOf("delete") = "delete" /\ "delete" \in Guards \ Raised
      BY <1>0, <2>1 DEF GuardOf, Guards, RaisedMeans
    <3>2. Raised' = Raised \cup {"delete"}
      BY <2>1, <2>2 DEF Raised, bookVars, HideDialog, SavesInv, Shaped
    <3>3. Shaped' BY <2>2 DEF Shaped, SavesInv, bookVars, HideDialog
    <3> QED BY <2>1, <2>2, <3>1, <3>2, <3>3, Guarded
  <2>3. CASE CloseDialog(dialog.target) /\ net' = net
    <3>1. Raised' = Raised BY <2>1, <2>3 DEF Raised, bookVars, CloseDialog
    <3>2. Shaped' BY <2>3 DEF Shaped, SavesInv, bookVars, CloseDialog
    <3> QED BY <2>1, <2>3, <3>1, <3>2, Quiet
  <2> QED BY <1>5, <2>2, <2>3 DEF Delete
<1>6. ASSUME NEW x \in Items, AssignRole(x) PROVE SavesInv'
  <2>1. /\ page # None /\ ~isSubmitting /\ isSubmitting' = TRUE /\ UNCHANGED <<page, dialog>>
        /\ net' = Append(net, Request("assign", x))
    BY <1>0, <1>6 DEF AssignRole, Clickable
  <2>2. GuardOf("assign") = "save" /\ "save" \in Guards \ Raised
    BY <1>0, <2>1 DEF GuardOf, Guards, RaisedMeans
  <2>3. Raised' = Raised \cup {"save"} BY <2>1 DEF Raised, bookVars
  <2>4. Shaped' BY <2>1 DEF Shaped, SavesInv, bookVars
  <2> QED BY <2>1, <2>2, <2>3, <2>4, Guarded
<1>7. ASSUME NEW q, Load(q), page \in ListPages, UNCHANGED <<page, isSubmitting, dialog>>
      PROVE  SavesInv'
  <2>1. This.load = <<"rows">> BY <1>7, ComponentFacts DEF This
  <2>2. net' = net \o <<Request("rows", q)>> BY <1>7, <2>1, RequestsFacts DEF Load
  <2>3. Plain(<<Request("rows", q)>>) BY PlainFacts DEF GuardOf, Guards
  <2>4. Raised' = Raised BY <1>7 DEF Raised, bookVars
  <2>5. Shaped' BY <1>7 DEF Shaped, SavesInv, bookVars
  <2> QED BY <1>0, <1>7, <2>2, <2>3, <2>4, <2>5, Asked
<1>8. CASE Search \/ (\E on : Filter(on)) \/ (\E n : GoToPage(n))
  <2>1. \E q : Load(q) /\ page \in ListPages /\ UNCHANGED <<page, isSubmitting, dialog>>
    BY <1>8 DEF Search, Filter, GoToPage, Clickable, ListPages
  <2> QED BY <1>7, <2>1
<1>9. ASSUME NEW i \in DOMAIN net, Serve(i) PROVE SavesInv'
  <2>1. UNCHANGED <<page, isSubmitting, dialog>> /\ page # None /\ IsSeq(net)
    BY <1>0, <1>9 DEF Serve, SavesInv, Held
  <2>2. PICK reply :
          net' = [net EXCEPT ![i] = [op |-> net[i].op, arg |-> net[i].arg, got |-> reply,
                                     old |-> net[i].old]]
    BY <1>9 DEF Serve, Reply
  <2>3. /\ DOMAIN net' = DOMAIN net
        /\ \A k \in DOMAIN net : net'[k].op = net[k].op
    BY <2>2
  <2>4. IsSeq(net')
    <3>1. Len(net) \in Nat /\ DOMAIN net = 1 .. Len(net) BY <2>1, SeqFacts
    <3>2. net' = [k \in 1 .. Len(net) |-> net'[k]] BY <2>2, <3>1
    <3> QED BY <3>1, <3>2 DEF IsSeq
  <2>5. Raised' = Raised BY <2>1 DEF Raised, bookVars
  <2>6. \A g : No(net', g) = No(net, g) /\ One(net', g) = One(net, g)
    BY <2>3 DEF No, One
  <2>7. Held(net', Raised') BY <2>4, <2>5, <2>6 DEF Held, SavesInv
  <2> QED BY <2>1, <2>5, <2>7 DEF SavesInv, Shaped, bookVars
<1>10. ASSUME NEW i \in DOMAIN net, ListAnswer(i) PROVE SavesInv'
  <2>0. page \in ListPages /\ page' = page
    BY <1>10 DEF ListAnswer, RowsCame, RowsFailed, LessonsCame, RolesCame, Deleted,
      DeleteFailed, Assigned, AssignFailed, Came
  <2>1. /\ Plain(<<>>) /\ Plain(Requests(This.then, net[i].arg))
        /\ Plain(Requests(This.load, asked))
    <3>1. This.then \in {<<>>, <<"lessons">>} /\ This.load = <<"rows">>
      BY <2>0, ComponentFacts DEF This
    <3>2. Plain(<<Request("lessons", net[i].arg)>>) /\ Plain(<<Request("rows", asked)>>)
      BY PlainFacts DEF GuardOf, Guards
    <3> QED BY <3>1, <3>2, PlainFacts, RequestsFacts
  <2>2. IsSeq(Without(i)) BY WithoutFacts DEF SavesInv, Held
  <2>3. \E t : Plain(t) /\ net' = Without(i) \o t
    <3>1. Without(i) \o <<>> = Without(i) BY <2>2, AppendOne
    <3> QED BY <1>10, <2>1, <3>1 DEF ListAnswer, RowsCame, RowsFailed, LessonsCame, RolesCame,
          Deleted, DeleteFailed, Assigned, AssignFailed
  <2>4. Raised' = Raised \ {GuardOf(net[i].op)} /\ Shaped'
    <3>1. CASE Deleted(i) \/ DeleteFailed(i)
      <4>1. /\ net[i].op = "delete" /\ isSubmitting' = isSubmitting
            /\ \E x : CloseDialog(x)
        BY <3>1 DEF Deleted, DeleteFailed, Came
      <4>2. GuardOf(net[i].op) = "delete" BY <4>1 DEF GuardOf
      <4> QED BY <4>1, <4>2 DEF Raised, bookVars, CloseDialog, Shaped, SavesInv
    <3>2. CASE Assigned(i) \/ AssignFailed(i)
      <4>1. net[i].op = "assign" /\ isSubmitting' = FALSE /\ dialog' = dialog
        BY <3>2 DEF Assigned, AssignFailed, Came
      <4>2. GuardOf(net[i].op) = "save" BY <4>1 DEF GuardOf
      <4> QED BY <4>1, <4>2 DEF Raised, bookVars, Shaped, SavesInv
    <3>3. CASE RowsCame(i) \/ RowsFailed(i) \/ LessonsCame(i) \/ RolesCame(i)
      <4>1. net[i].op \in {"rows", "lessons", "roles"} /\ UNCHANGED <<isSubmitting, dialog>>
        BY <3>3 DEF RowsCame, RowsFailed, LessonsCame, RolesCame, Came
      <4>2. GuardOf(net[i].op) \notin Guards BY <4>1 DEF GuardOf, Guards
      <4>3. Raised' = Raised BY <4>1 DEF Raised, bookVars
      <4> QED BY <1>0, <4>1, <4>2, <4>3 DEF RaisedMeans, bookVars, Shaped, SavesInv
    <3> QED BY <1>10, <3>1, <3>2, <3>3 DEF ListAnswer
  <2> QED BY <1>0, <2>0, <2>3, <2>4, AnswerTaken
<1> QED BY <1>1, <1>2, <1>3, <1>4, <1>5, <1>6, <1>8, <1>9, <1>10 DEF ListsNext

\* A page without modals is left.
LEMMA PlainPageClosed ==
  ASSUME SavesInv, page \notin BookPages, NEW left, Unmount(left), UNCHANGED bookVars
  PROVE  SavesInv'
<1>0. RaisedMeans /\ RaisedMeans' BY RaisedFacts
<1>1. net' = <<>> /\ ~isSubmitting' /\ dialog' = NoDialog BY DEF Unmount
<1>2. Raised' = {} BY <1>0, <1>1 DEF RaisedMeans, SavesInv, bookVars, NoDialog, Guards
<1>3. Shaped' BY <1>1 DEF Shaped, SavesInv, bookVars, NoDialog
<1> QED BY <1>1, <1>2, <1>3, Closed

\* Every step of a form keeps the invariant.
LEMMA FormsSave ==
  ASSUME SavesInv, FormsNext, UNCHANGED bookVars
  PROVE  SavesInv'
<1>0. /\ None \notin FormPages /\ FormPages \cap BookPages = {}
      /\ RaisedMeans /\ RaisedMeans'
  BY PageNames, RaisedFacts DEF AllPages
<1>1. ASSUME NEW p \in FormPages, NEW edits \in BOOLEAN, OpenForm(p, edits) PROVE SavesInv'
  <2>1. page = None /\ page' = p /\ UNCHANGED <<isSubmitting, dialog>>
    BY <1>1 DEF OpenForm, Mount
  <2>2. /\ Plain(<<>>) /\ Plain(<<Request("options", None)>>)
        /\ Plain(<<Request("load", None)>>)
    BY PlainFacts DEF GuardOf, Guards
  <2>3. \E s, t : Plain(s) /\ Plain(t) /\ net' = s \o t BY <1>1, <2>2 DEF OpenForm, Mount
  <2>4. Plain(net') BY <2>3, HeldJoined DEF Plain
  <2>5. Raised' = Raised BY <2>1 DEF Raised, bookVars
  <2>6. Shaped' BY <2>1 DEF Shaped, SavesInv, bookVars
  <2> QED BY <1>0, <2>1, <2>4, <2>5, <2>6, Opened
<1>2. CASE LeaveForm \/ \E i \in DOMAIN net : Saved(i)
  <2>1. page \notin BookPages /\ \E left : Unmount(left)
    BY <1>0, <1>2 DEF LeaveForm, Saved, FormCame
  <2> QED BY <2>1, PlainPageClosed
<1>3. CASE \E f \in Fields : Type(f)
  <2>1. UNCHANGED <<page, net, isSubmitting, dialog>> BY <1>3 DEF Type, pageVars
  <2>2. Raised' = Raised BY <2>1 DEF Raised, bookVars
  <2>3. Shaped' BY <2>1 DEF Shaped, SavesInv, bookVars
  <2> QED BY <2>1, <2>2, <2>3, Quiet
<1>4. CASE Submit
  <2>1. /\ page # None /\ ~isSubmitting /\ isSubmitting' = TRUE /\ UNCHANGED <<page, dialog>>
        /\ net' = Append(net, Request("save", Body))
    BY <1>0, <1>4 DEF Submit
  <2>2. GuardOf("save") = "save" /\ "save" \in Guards \ Raised
    BY <1>0, <2>1 DEF GuardOf, Guards, RaisedMeans
  <2>3. Raised' = Raised \cup {"save"} BY <2>1 DEF Raised, bookVars
  <2>4. Shaped' BY <2>1 DEF Shaped, SavesInv, bookVars
  <2> QED BY <2>1, <2>2, <2>3, <2>4, Guarded
<1>5. ASSUME NEW i \in DOMAIN net, OptionsCame(i) \/ LoadCame(i) \/ SaveFailed(i)
      PROVE  SavesInv'
  <2>1. /\ page # None /\ UNCHANGED <<page, dialog>> /\ net' = Without(i)
        /\ \/ net[i].op \in {"options", "load"} /\ isSubmitting' = isSubmitting
           \/ net[i].op = "save" /\ isSubmitting' = FALSE
    BY <1>0, <1>5 DEF OptionsCame, LoadCame, SaveFailed, FormCame
  <2>2. net' = Without(i) \o <<>> /\ Plain(<<>>)
    <3>1. IsSeq(Without(i)) BY WithoutFacts DEF SavesInv, Held
    <3> QED BY <2>1, <3>1, AppendOne, PlainFacts
  <2>3. Raised' = Raised \ {GuardOf(net[i].op)}
    BY <1>0, <2>1 DEF GuardOf, Guards, Raised, RaisedMeans, bookVars
  <2>4. Shaped' BY <2>1 DEF Shaped, SavesInv, bookVars
  <2> QED BY <2>1, <2>2, <2>3, <2>4, AnswerTaken
<1> QED BY <1>1, <1>2, <1>3, <1>4, <1>5 DEF FormsNext, FormAnswer

\* What the student's pages load is guarded by nothing.
LEMMA ReaderFacts ==
  ASSUME NEW p \in Readers
  PROVE  \A k \in DOMAIN Reader[p].loads : GuardOf(Reader[p].loads[k]) \notin Guards
<1> DEFINE l == Reader[p].loads
<1>1. \/ l = <<"books", "tests">> \/ l = <<"results", "tests", "subjects">>
      \/ l = <<"result", "test">> \/ l = <<"test">>
  BY DEF Reader, Readers, BookDetail, ResultsList, ResultDetail, TestSolver
<1> HIDE DEF l
<1>2. \A k \in DOMAIN l : l[k] \in {"books", "tests", "results", "subjects", "result", "test"}
  BY <1>1
<1> QED BY <1>2 DEF GuardOf, Guards, l

\* Every step of a student's page keeps the invariant.
LEMMA StudentSaves ==
  ASSUME SavesInv, StudentNext, UNCHANGED bookVars
  PROVE  SavesInv'
<1>0. /\ None \notin StudentPageNames /\ StudentPageNames \cap BookPages = {}
      /\ RaisedMeans /\ RaisedMeans'
  BY PageNames, RaisedFacts DEF AllPages
<1>1. ASSUME NEW p \in StudentPageNames, NEW t, Mount(p, TRUE, t), Plain(t) PROVE SavesInv'
  <2>1. page = None /\ page' = p /\ net' = t /\ UNCHANGED <<isSubmitting, dialog>>
    BY <1>1 DEF Mount
  <2>2. Raised' = Raised BY <2>1 DEF Raised, bookVars
  <2>3. Shaped' BY <2>1 DEF Shaped, SavesInv, bookVars
  <2> QED BY <1>0, <1>1, <2>1, <2>2, <2>3, Opened
<1>2. ASSUME NEW p \in Readers, OpenReader(p) PROVE SavesInv'
  <2>1. 1 \in DOMAIN Reader[p].loads
    BY DEF Reader, Readers, BookDetail, ResultsList, ResultDetail, TestSolver
  <2>2. Plain(<<Request(Reader[p].loads[1], None)>>) BY <2>1, ReaderFacts, PlainFacts
  <2> QED BY <1>1, <1>2, <2>2 DEF OpenReader, StudentPageNames
<1>3. CASE OpenDashboard \/ \E p \in {"dashboard", "test-result"} : OpenAndRedirect(p)
  <2>1. Plain(<<>>) /\ Plain(<<Request("options", None), Request("shown", query)>>)
    BY PlainFacts DEF GuardOf, Guards
  <2> QED BY <1>1, <1>3, <2>1 DEF OpenDashboard, OpenAndRedirect, StudentPageNames
<1>4. CASE LeaveStudent BY <1>0, <1>4, PlainPageClosed DEF LeaveStudent
<1>5. ASSUME NEW q, LoadBooks(q), page = "dashboard" PROVE SavesInv'
  <2>1. /\ page # None /\ UNCHANGED <<page, isSubmitting, dialog>>
        /\ net' = Append(net, Request("shown", q))
    BY <1>0, <1>5 DEF LoadBooks, StudentPageNames
  <2>2. GuardOf("shown") \notin Guards BY DEF GuardOf, Guards
  <2>3. Raised' = Raised BY <2>1 DEF Raised, bookVars
  <2>4. Held(net', Raised') BY <2>1, <2>2, <2>3, HeldSent DEF SavesInv
  <2> QED BY <2>1, <2>3, <2>4 DEF SavesInv, Shaped, bookVars
<1>6. CASE \/ ClearAllFilters
           \/ \E on \in BOOLEAN : SelectExamType(on) \/ SelectLessonOf(on) \/ SearchBooks(on)
  <2>1. \E q : LoadBooks(q) /\ page = "dashboard"
    BY <1>6 DEF ClearAllFilters, SelectExamType, SelectLessonOf, SearchBooks, OnDashboard
  <2> QED BY <1>5, <2>1
<1>7. CASE SubmitTest
  <2>1. /\ page # None /\ ~isSubmitting /\ isSubmitting' = TRUE /\ UNCHANGED <<page, dialog>>
        /\ net' = Append(net, Request("solve", None))
    BY <1>0, <1>7 DEF SubmitTest, StudentPageNames, Readers
  <2>2. GuardOf("solve") = "save" /\ "save" \in Guards \ Raised
    BY <1>0, <2>1 DEF GuardOf, Guards, RaisedMeans
  <2>3. Raised' = Raised \cup {"save"} BY <2>1 DEF Raised, bookVars
  <2>4. Shaped' BY <2>1 DEF Shaped, SavesInv, bookVars
  <2> QED BY <2>1, <2>2, <2>3, <2>4, Guarded
<1>8. ASSUME NEW r \in Results, OpenResultModal(r) PROVE SavesInv'
  <2>1. /\ page # None /\ UNCHANGED <<page, isSubmitting, dialog>>
        /\ net' = Append(net, Request("modalResult", r))
    BY <1>0, <1>8 DEF OpenResultModal, StudentPageNames, Readers
  <2>2. GuardOf("modalResult") \notin Guards BY DEF GuardOf, Guards
  <2>3. Raised' = Raised BY <2>1 DEF Raised, bookVars
  <2>4. Held(net', Raised') BY <2>1, <2>2, <2>3, HeldSent DEF SavesInv
  <2> QED BY <2>1, <2>3, <2>4 DEF SavesInv, Shaped, bookVars
<1>9. CASE CloseResultModal
  <2>1. UNCHANGED <<page, net, isSubmitting, dialog>> BY <1>9 DEF CloseResultModal, pageVars
  <2>2. Raised' = Raised BY <2>1 DEF Raised, bookVars
  <2>3. Shaped' BY <2>1 DEF Shaped, SavesInv, bookVars
  <2> QED BY <2>1, <2>2, <2>3, Quiet
<1>10. ASSUME NEW i \in DOMAIN net, Solved(i) PROVE SavesInv'
  <2>1. /\ net[i].op = "solve" /\ page # None /\ net' = Without(i) /\ isSubmitting' = FALSE
        /\ page' = page /\ dialog' = dialog
    BY <1>0, <1>10 DEF Solved, StudentCame, StudentPageNames, Readers
  <2>2. net' = Without(i) \o <<>> /\ Plain(<<>>)
    <3>1. IsSeq(Without(i)) BY WithoutFacts DEF SavesInv, Held
    <3> QED BY <2>1, <3>1, AppendOne, PlainFacts
  <2>3. GuardOf(net[i].op) = "save" BY <2>1 DEF GuardOf
  <2>4. Raised' = Raised \ {GuardOf(net[i].op)} BY <2>1, <2>3 DEF Raised, bookVars
  <2>5. Shaped' BY <2>1 DEF Shaped, SavesInv, bookVars
  <2> QED BY <1>10, <2>1, <2>2, <2>4, <2>5, AnswerTaken
<1>12. ASSUME NEW i \in DOMAIN net,
              ChoicesCame(i) \/ BooksCame(i) \/ PartCame(i) \/ ModalResultCame(i) \/ ModalKeyCame(i)
       PROVE  SavesInv'
  <2>1. page # None /\ UNCHANGED <<page, isSubmitting, dialog>>
    BY <1>0, <1>12 DEF ChoicesCame, BooksCame, PartCame, ModalResultCame, ModalKeyCame, StudentCame,
      InModal, StudentPageNames, Readers
  <2>2. GuardOf(net[i].op) \notin Guards
    <3>1. CASE PartCame(i)
      BY <3>1, ReaderFacts DEF PartCame
    <3>2. CASE ~PartCame(i)
      <4>1. net[i].op \in {"options", "shown", "modalResult", "modalKey"}
        BY <1>12, <3>2 DEF ChoicesCame, BooksCame, ModalResultCame, ModalKeyCame, StudentCame
      <4> QED BY <4>1 DEF GuardOf, Guards
    <3> QED BY <3>1, <3>2
  <2>3. IsSeq(Without(i)) BY WithoutFacts DEF SavesInv, Held
  <2>4. \E t : Plain(t) /\ net' = Without(i) \o t
    <3>1. Without(i) \o <<>> = Without(i) /\ Plain(<<>>) BY <2>3, AppendOne, PlainFacts
    <3>2. CASE net' = Without(i) BY <3>1, <3>2
    <3>3. CASE net' # Without(i)
      <4>1. PICK op, a : net' = Append(Without(i), Request(op, a)) /\ GuardOf(op) \notin Guards
        <5>1. CASE PartCame(i)
          <6>1. PICK k : /\ k < Len(Reader[page].loads) /\ page \in Readers
                         /\ k = Position(net[i].op)
                         /\ \E j \in DOMAIN Reader[page].loads : Reader[page].loads[j] = net[i].op
                         /\ net' = Append(Without(i), Request(Reader[page].loads[k + 1], None))
            BY <3>3, <5>1 DEF PartCame
          <6>2. k \in DOMAIN Reader[page].loads BY <6>1 DEF Position
          <6>3. k + 1 \in DOMAIN Reader[page].loads
            BY <6>1, <6>2 DEF Reader, Readers, BookDetail, ResultsList, ResultDetail, TestSolver
          <6> QED BY <6>1, <6>3, ReaderFacts
        <5>2. CASE ~PartCame(i)
          <6>1. net' = Append(Without(i), Request("modalKey", net[i].arg))
            BY <1>12, <3>3, <5>2 DEF ChoicesCame, BooksCame, ModalResultCame, ModalKeyCame
          <6> QED BY <6>1 DEF GuardOf, Guards
        <5> QED BY <5>1, <5>2
      <4>2. Plain(<<Request(op, a)>>) BY <4>1, PlainFacts
      <4> QED BY <2>3, <4>1, <4>2, AppendOne
    <3> QED BY <3>2, <3>3
  <2>5. Raised' = Raised BY <2>1 DEF Raised, bookVars
  <2>6. Raised = Raised \ {GuardOf(net[i].op)} BY <1>0, <2>2 DEF RaisedMeans
  <2>7. Shaped' BY <2>1 DEF Shaped, SavesInv, bookVars
  <2> QED BY <2>1, <2>4, <2>5, <2>6, <2>7, AnswerTaken
<1> QED BY <1>2, <1>3, <1>4, <1>6, <1>7, <1>8, <1>9, <1>10, <1>12
        DEF StudentNext, StudentAnswer

\* Every step of the pages of books keeps the invariant, whichever modal is closed,
\* opened again or answered.
LEMMA BooksSave ==
  ASSUME SavesInv, BooksNext
  PROVE  SavesInv'
<1>0. None \notin BookPages /\ RaisedMeans /\ RaisedMeans'
  BY PageNames, RaisedFacts DEF AllPages
<1>a. Shaped /\ IsSeq(net) BY DEF SavesInv, Held
<1>1. CASE OpenAdmin \/ OpenTestBook
  <2>1. /\ page = None /\ page' \in BookPages
        /\ UNCHANGED <<isSubmitting, dialog, bookDialog, edit, fresh>>
    BY <1>1 DEF OpenAdmin, OpenTestBook, Mount, BookPages, bookVars
  <2>2. net = <<>> /\ Raised = {} BY <2>1, NothingRaised DEF SavesInv
  <2>3. ~book'.saving /\ "saving" \in DOMAIN book'
    BY <1>0, <1>1, <1>a, <2>2
       DEF OpenAdmin, OpenTestBook, NoBook, RaisedMeans, bookVars, Shaped
  <2>4. Raised' = Raised BY <1>0, <2>1, <2>2, <2>3 DEF RaisedMeans, Guards
  <2>5. Shaped' BY <1>a, <2>1, <2>3 DEF Shaped
  <2>6. Plain(net') BY <1>1, PlainFacts DEF OpenAdmin, OpenTestBook, Mount, GuardOf, Guards
  <2> QED BY <1>0, <2>1, <2>4, <2>5, <2>6, Opened
<1>2. ASSUME NEW left, Unmount(left), ForgetBooks PROVE SavesInv'
  <2>1. net' = <<>> /\ ~isSubmitting' /\ dialog' = NoDialog BY <1>2 DEF Unmount
  <2>2. Raised' = {}
    BY <1>2, <2>1 DEF Raised, ForgetBooks, NoEdit, NoFresh, NoBook, NoDialog
  <2>3. Shaped' BY <1>2, <2>1 DEF Shaped, ForgetBooks, NoEdit, NoFresh, NoBook, NoDialog
  <2> QED BY <2>1, <2>2, <2>3, Closed
<1>3. CASE LeaveBooks \/ \E i \in DOMAIN net : BookDeleted(i)
  BY <1>2, <1>3 DEF LeaveBooks, BookDeleted
<1> DEFINE AtWork == page \in BookPages /\ page' = page
<1>4. ASSUME AtWork, Shaped', Raised' = Raised,
             net' = net \/ \E op, a : /\ net' = Append(net, Request(op, a))
                                     /\ GuardOf(op) \notin Guards
      PROVE  SavesInv'
  <2>1. CASE net' = net BY <1>4, <2>1, Quiet
  <2>2. ASSUME NEW op, NEW a, net' = Append(net, Request(op, a)), GuardOf(op) \notin Guards
        PROVE  SavesInv'
    <3>1. Held(net', Raised') BY <1>4, <2>2, HeldSent DEF SavesInv
    <3> QED BY <1>0, <1>4, <3>1 DEF SavesInv
  <2> QED BY <1>4, <2>1, <2>2
<1>5. ASSUME AtWork, NEW op, NEW a, net' = Append(net, Request(op, a)),
             op \in Guards \ Raised, Raised' = Raised \cup {op}, Shaped'
      PROVE  SavesInv'
  <2>1. GuardOf(op) = op BY <1>5 DEF GuardOf, Guards
  <2> QED BY <1>0, <1>5, <2>1, Guarded
<1>6. ASSUME AtWork, NEW i \in DOMAIN net, NEW t, Plain(t),
             net' = Without(i) \/ net' = Without(i) \o t,
             Raised' = Raised \ {net[i].op}, net[i].op \notin {"assign", "solve"}, Shaped'
      PROVE  SavesInv'
  <2>1. GuardOf(net[i].op) = net[i].op BY <1>6 DEF GuardOf
  <2>2. IsSeq(Without(i)) BY <1>a, WithoutFacts
  <2>3. Without(i) = Without(i) \o <<>> /\ Plain(<<>>) BY <2>2, AppendOne, PlainFacts
  <2> QED BY <1>0, <1>6, <2>1, <2>3, AnswerTaken
<1> HIDE DEF AtWork
<1>7. ASSUME page \in BookPages, UNCHANGED <<page, isSubmitting, dialog, bookDialog, fresh, book>>,
             edit'.saving = edit.saving, "saving" \in DOMAIN edit'
      PROVE  AtWork /\ Raised' = Raised /\ Shaped'
  BY <1>a, <1>7 DEF AtWork, Raised, Shaped
<1>8. ASSUME page \in BookPages, UNCHANGED <<page, isSubmitting, dialog, bookDialog, edit, book>>,
             fresh'.saving = fresh.saving, "saving" \in DOMAIN fresh'
      PROVE  AtWork /\ Raised' = Raised /\ Shaped'
  BY <1>a, <1>8 DEF AtWork, Raised, Shaped
<1>9. ASSUME page \in BookPages, UNCHANGED <<page, isSubmitting, dialog, bookDialog, edit, fresh>>,
             book'.saving = book.saving, "saving" \in DOMAIN book'
      PROVE  AtWork /\ Raised' = Raised /\ Shaped'
  BY <1>a, <1>9 DEF AtWork, Raised, Shaped
<1>10. ASSUME page \in BookPages, NEW x, EditTest(x) \/ CloseEdit \/ FillEdit PROVE SavesInv'
  <2>1. /\ UNCHANGED <<page, isSubmitting, dialog, bookDialog, fresh, book>>
        /\ edit'.saving = edit.saving /\ "saving" \in DOMAIN edit'
        /\ net' = net \/ net' = Append(net, Request("testLoad", x))
    BY <1>a, <1>10 DEF EditTest, CloseEdit, FillEdit, ClosedEdit, ownButNet, pageVars, Shaped
  <2>2. GuardOf("testLoad") \notin Guards BY DEF GuardOf, Guards
  <2> QED BY <1>4, <1>7, <1>10, <2>1, <2>2
<1>11. CASE page \in BookPages /\ (OpenFresh \/ CloseFresh)
  <2>1. /\ UNCHANGED <<page, isSubmitting, dialog, bookDialog, edit, book>>
        /\ fresh'.saving = fresh.saving /\ "saving" \in DOMAIN fresh'
        /\ net' = net \/ net' = Append(net, Request("freshBook", None))
    BY <1>a, <1>11 DEF OpenFresh, CloseFresh, ClosedFresh, ownButNet, pageVars, Shaped
  <2>2. GuardOf("freshBook") \notin Guards BY DEF GuardOf, Guards
  <2> QED BY <1>4, <1>8, <1>11, <2>1, <2>2
<1>12. ASSUME NEW b, "saving" \in DOMAIN b
       PROVE  /\ Emptied(b).saving = b.saving /\ "saving" \in DOMAIN Emptied(b)
              /\ Nulled(b).saving = b.saving /\ "saving" \in DOMAIN Nulled(b)
              /\ Cleared(b).saving = b.saving /\ "saving" \in DOMAIN Cleared(b)
              /\ ClosedBook(b).saving = b.saving /\ "saving" \in DOMAIN ClosedBook(b)
  <2>1. Emptied(b).saving = b.saving /\ "saving" \in DOMAIN Emptied(b) BY <1>12 DEF Emptied
  <2>2. Nulled(b).saving = b.saving /\ "saving" \in DOMAIN Nulled(b) BY <2>1 DEF Nulled
  <2>3. Cleared(b).saving = b.saving /\ "saving" \in DOMAIN Cleared(b) BY <2>1 DEF Cleared
  <2>4. ClosedBook(b).saving = b.saving /\ "saving" \in DOMAIN ClosedBook(b)
    BY <2>2, <2>3 DEF ClosedBook
  <2> QED BY <2>1, <2>2, <2>3, <2>4
<1>13. CASE page \in BookPages /\ (OpenBook \/ CloseBook \/ ToggleSubject)
  <2>1. /\ UNCHANGED <<page, isSubmitting, dialog, bookDialog, edit, fresh>>
        /\ net' = net \/ net' = Append(net, Request("bookLoad", None))
    BY <1>13 DEF OpenBook, CloseBook, ToggleSubject, ownButNet, pageVars
  <2>2. book'.saving = book.saving /\ "saving" \in DOMAIN book'
    <3>1. CASE OpenBook BY <1>a, <1>12, <3>1 DEF OpenBook, Shaped
    <3>2. CASE CloseBook BY <1>a, <1>12, <3>2 DEF CloseBook, Shaped
    <3>3. CASE ToggleSubject BY <1>a, <3>3 DEF ToggleSubject, Shaped
    <3> QED BY <1>13, <3>1, <3>2, <3>3
  <2>3. GuardOf("bookLoad") \notin Guards BY DEF GuardOf, Guards
  <2> QED BY <1>4, <1>9, <1>13, <2>1, <2>2, <2>3
<1>14. CASE page \in BookPages /\ ((\E e \in Exams : SelectExam(e)) \/ \E l \in Lessons : SelectLesson(l))
  <2>1. PICK b : /\ Reselected(b) /\ b.saving = book.saving /\ "saving" \in DOMAIN b
                 /\ UNCHANGED <<page, isSubmitting, dialog, bookDialog, edit, fresh>>
    <3>1. CASE \E e \in Exams : SelectExam(e)
      BY <1>a, <3>1 DEF SelectExam, Shaped, ownButNet
    <3>2. CASE \E l \in Lessons : SelectLesson(l)
      BY <1>a, <3>2 DEF SelectLesson, Shaped, ownButNet
    <3> QED BY <1>14, <3>1, <3>2
  <2>2. book'.saving = book.saving /\ "saving" \in DOMAIN book' BY <2>1 DEF Reselected
  <2>3. net' = net \/ \E a : net' = Append(net, Request("subjects", a))
    BY <2>1 DEF Reselected, SubjectsRequest
  <2>4. GuardOf("subjects") \notin Guards BY DEF GuardOf, Guards
  <2> QED BY <1>4, <1>9, <1>14, <2>1, <2>2, <2>3, <2>4
<1>15. CASE page \in BookPages /\ SaveTest
  <2>1. /\ UNCHANGED <<page, isSubmitting, dialog, bookDialog, fresh, book>>
        /\ ~edit.saving /\ edit'.saving /\ "saving" \in DOMAIN edit'
        /\ net' = Append(net, Request("testSave", None))
    BY <1>a, <1>15 DEF SaveTest, ownButNet, Shaped
  <2>2. "testSave" \in Guards \ Raised BY <1>0, <2>1 DEF Guards, RaisedMeans
  <2>3. Raised' = Raised \cup {"testSave"} /\ Shaped' BY <1>a, <2>1 DEF Raised, Shaped
  <2> QED BY <1>5, <1>15, <2>1, <2>2, <2>3 DEF AtWork
<1>16. CASE page \in BookPages /\ SaveFresh
  <2>1. /\ UNCHANGED <<page, isSubmitting, dialog, bookDialog, edit, book>>
        /\ ~fresh.saving /\ fresh'.saving /\ "saving" \in DOMAIN fresh'
        /\ net' = Append(net, Request("freshSave", None))
    BY <1>a, <1>16 DEF SaveFresh, ownButNet, Shaped
  <2>2. "freshSave" \in Guards \ Raised BY <1>0, <2>1 DEF Guards, RaisedMeans
  <2>3. Raised' = Raised \cup {"freshSave"} /\ Shaped' BY <1>a, <2>1 DEF Raised, Shaped
  <2> QED BY <1>5, <1>16, <2>1, <2>2, <2>3 DEF AtWork
<1>17. CASE page \in BookPages /\ SaveBook
  <2>1. /\ UNCHANGED <<page, isSubmitting, dialog, bookDialog, edit, fresh>>
        /\ ~book.saving /\ book'.saving /\ "saving" \in DOMAIN book'
        /\ net' = Append(net, Request("bookSave", None))
    BY <1>a, <1>17 DEF SaveBook, ownButNet, Shaped
  <2>2. "bookSave" \in Guards \ Raised BY <1>0, <2>1 DEF Guards, RaisedMeans
  <2>3. Raised' = Raised \cup {"bookSave"} /\ Shaped' BY <1>a, <2>1 DEF Raised, Shaped
  <2> QED BY <1>5, <1>17, <2>1, <2>2, <2>3 DEF AtWork
<1>18. ASSUME page \in BookPages, NEW x \in Tests, ConfirmDeleteTest(x) PROVE SavesInv'
  <2>1. UNCHANGED <<page, net, isSubmitting, bookDialog, edit, fresh, book>> /\ OpenDialog(x)
    BY <1>18 DEF ConfirmDeleteTest
  <2>2. Raised' = Raised BY <2>1 DEF Raised, OpenDialog
  <2>3. Shaped' BY <1>a, <2>1, BookAssumption DEF Shaped, OpenDialog
  <2> QED BY <2>1, <2>2, <2>3, Quiet
<1>19. CASE CancelDeleteTest
  <2>1. /\ UNCHANGED <<page, net, isSubmitting, bookDialog, edit, fresh, book>>
        /\ CloseDialog(None) /\ dialog.visible
    BY <1>19 DEF CancelDeleteTest, bookVars
  <2>2. Raised' = Raised BY <2>1 DEF Raised, CloseDialog
  <2>3. Shaped' BY <1>a, <2>1 DEF Shaped, CloseDialog
  <2> QED BY <2>1, <2>2, <2>3, Quiet
<1>20. CASE page \in BookPages /\ DeleteTest
  <2>1. /\ UNCHANGED <<page, isSubmitting, bookDialog, edit, fresh, book>>
        /\ HideDialog /\ dialog.visible
        /\ net' = Append(net, Request("delete", dialog.target))
    BY <1>20 DEF DeleteTest, bookVars
  <2>2. "delete" \in Guards \ Raised BY <1>0, <2>1 DEF Guards, RaisedMeans
  <2>3. Raised' = Raised \cup {"delete"} /\ Shaped'
    BY <1>a, <2>1 DEF Raised, Shaped, HideDialog
  <2> QED BY <1>5, <1>20, <2>1, <2>2, <2>3 DEF AtWork
<1>21. CASE page \in BookPages /\ (ConfirmDeleteBook \/ CancelDeleteBook)
  <2>1. /\ UNCHANGED <<page, net, isSubmitting, dialog, edit, fresh, book>>
        /\ bookDialog # "confirmed" /\ bookDialog' # "confirmed"
    BY <1>21 DEF ConfirmDeleteBook, CancelDeleteBook, pageVars
  <2>2. Raised' = Raised /\ Shaped' BY <1>a, <2>1 DEF Raised, Shaped
  <2> QED BY <2>1, <2>2, Quiet
<1>22. CASE page \in BookPages /\ DeleteBook
  <2>1. /\ UNCHANGED <<page, isSubmitting, dialog, edit, fresh, book>>
        /\ bookDialog = "visible" /\ bookDialog' = "confirmed"
        /\ net' = Append(net, Request("deleteBook", None))
    BY <1>22 DEF DeleteBook
  <2>2. "deleteBook" \in Guards \ Raised BY <1>0, <2>1 DEF Guards, RaisedMeans
  <2>3. Raised' = Raised \cup {"deleteBook"} /\ Shaped' BY <1>a, <2>1 DEF Raised, Shaped
  <2> QED BY <1>5, <1>22, <2>1, <2>2, <2>3 DEF AtWork
<1>23. ASSUME NEW i \in DOMAIN net, BookAnswer(i), ~BookDeleted(i), page \in BookPages
       PROVE  SavesInv'
  <2>0. /\ Plain(<<>>) /\ Plain(<<Request("counts", None)>>) /\ Plain(<<Request("tests", None)>>)
        /\ Plain(<<Request("data", None)>>) /\ Plain(<<SubjectsRequest(TheBook, TRUE)>>)
        /\ Plain(<<Request("book", None), Request("tests", None)>>)
    BY PlainFacts DEF GuardOf, Guards, SubjectsRequest
  <2> DEFINE Loads == DataCame(i) \/ CountsCame(i) \/ BookLoaded(i) \/ TestsCame(i)
             Deletes == TestDeleted(i) \/ TestNotDeleted(i) \/ BookNotDeleted(i)
             Edits == TestLoadCame(i) \/ TestSaved(i) \/ TestNotSaved(i)
             Creates == FreshCame(i) \/ FreshSaved(i)
             Books == BookLoadCame(i) \/ SubjectsCame(i) \/ BookSaved(i) \/ BookNotSaved(i)
  <2>1. ASSUME net' = Without(i) \/ \E t : Plain(t) /\ net' = Without(i) \o t,
               page' = page, net[i].op \notin {"assign", "solve"},
               Raised' = Raised \ {net[i].op}, Shaped'
        PROVE  SavesInv'
    BY <1>6, <1>23, <2>0, <2>1 DEF AtWork
  <2>2. CASE Loads
    <3>1. net' = Without(i) \/ \E t : Plain(t) /\ net' = Without(i) \o t
      BY <2>0, <2>2 DEF DataCame, CountsCame, BookLoaded, TestsCame
    <3>2. /\ UNCHANGED <<page, isSubmitting, dialog, bookDialog, edit, fresh, book>>
          /\ net[i].op \in {"data", "counts", "book", "tests"}
      BY <2>2 DEF DataCame, CountsCame, BookLoaded, TestsCame, BookCame, bookVars
    <3>3. Raised' = Raised /\ Shaped' BY <1>a, <3>2 DEF Raised, Shaped
    <3>4. Raised = Raised \ {net[i].op} BY <1>0, <3>2 DEF RaisedMeans, Guards
    <3> QED BY <2>1, <3>1, <3>2, <3>3, <3>4
  <2>3. CASE Deletes
    <3>1. net' = Without(i) \/ \E t : Plain(t) /\ net' = Without(i) \o t
      BY <2>0, <2>3 DEF TestDeleted, TestNotDeleted, BookNotDeleted
    <3>2. UNCHANGED <<page, isSubmitting, edit, fresh, book>>
      BY <2>3 DEF TestDeleted, TestNotDeleted, BookNotDeleted, bookVars
    <3>3. \/ net[i].op = "delete" /\ (\E x : CloseDialog(x)) /\ bookDialog' = bookDialog
          \/ net[i].op = "deleteBook" /\ bookDialog' = "closed" /\ dialog' = dialog
      BY <2>3 DEF TestDeleted, TestNotDeleted, BookNotDeleted, BookCame, bookVars
    <3>4. Raised' = Raised \ {net[i].op}
      <4>1. CASE net[i].op = "delete" BY <3>2, <3>3, <4>1 DEF Raised, CloseDialog
      <4>2. CASE net[i].op = "deleteBook" BY <3>2, <3>3, <4>2 DEF Raised
      <4> QED BY <3>3, <4>1, <4>2
    <3>5. Shaped' BY <1>a, <3>2, <3>3 DEF Shaped, CloseDialog
    <3> QED BY <2>1, <3>1, <3>2, <3>3, <3>4, <3>5
  <2>4. CASE Edits
    <3>1. net' = Without(i) \/ \E t : Plain(t) /\ net' = Without(i) \o t
      BY <2>0, <2>4 DEF TestLoadCame, TestSaved, TestNotSaved
    <3>2. UNCHANGED <<page, isSubmitting, dialog, bookDialog, fresh, book>>
      BY <2>4 DEF TestLoadCame, TestSaved, TestNotSaved, ownButNet
    <3>3. /\ "saving" \in DOMAIN edit'
          /\ \/ net[i].op = "testLoad" /\ edit'.saving = edit.saving
             \/ net[i].op = "testSave" /\ ~edit'.saving
      BY <1>a, <2>4 DEF TestLoadCame, TestSaved, TestNotSaved, BookCame, ClosedEdit, Shaped
    <3>4. Raised' = Raised \ {net[i].op}
      <4>1. CASE net[i].op = "testLoad" /\ edit'.saving = edit.saving
        BY <1>0, <3>2, <4>1 DEF Raised
      <4>2. CASE net[i].op = "testSave" /\ ~edit'.saving BY <3>2, <4>2 DEF Raised
      <4> QED BY <3>3, <4>1, <4>2
    <3>5. Shaped' BY <1>a, <3>2, <3>3 DEF Shaped
    <3> QED BY <2>1, <3>1, <3>2, <3>3, <3>4, <3>5
  <2>5. CASE Creates
    <3>1. net' = Without(i) \/ \E t : Plain(t) /\ net' = Without(i) \o t
      BY <2>0, <2>5 DEF FreshCame, FreshSaved
    <3>2. UNCHANGED <<page, isSubmitting, dialog, bookDialog, edit, book>>
      BY <2>5 DEF FreshCame, FreshSaved, ownButNet
    <3>3. /\ "saving" \in DOMAIN fresh'
          /\ \/ net[i].op = "freshBook" /\ fresh'.saving = fresh.saving
             \/ net[i].op = "freshSave" /\ ~fresh'.saving
      BY <1>a, <2>5 DEF FreshCame, FreshSaved, BookCame, ClosedFresh, Shaped
    <3>4. Raised' = Raised \ {net[i].op}
      <4>1. CASE net[i].op = "freshBook" /\ fresh'.saving = fresh.saving
        BY <1>0, <3>2, <4>1 DEF Raised
      <4>2. CASE net[i].op = "freshSave" /\ ~fresh'.saving BY <3>2, <4>2 DEF Raised
      <4> QED BY <3>3, <4>1, <4>2
    <3>5. Shaped' BY <1>a, <3>2, <3>3 DEF Shaped
    <3> QED BY <2>1, <3>1, <3>2, <3>3, <3>4, <3>5
  <2>6. CASE Books
    <3>1. net' = Without(i) \/ \E t : Plain(t) /\ net' = Without(i) \o t
      BY <2>0, <2>6 DEF BookLoadCame, SubjectsCame, BookSaved, BookNotSaved
    <3>2. UNCHANGED <<page, isSubmitting, dialog, bookDialog, edit, fresh>>
      BY <2>6 DEF BookLoadCame, SubjectsCame, BookSaved, BookNotSaved, ownButNet
    <3>3. /\ "saving" \in DOMAIN book'
          /\ \/ net[i].op \in {"bookLoad", "subjects"} /\ book'.saving = book.saving
             \/ net[i].op = "bookSave" /\ ~book'.saving
      <4>1. CASE BookLoadCame(i) BY <1>a, <4>1 DEF BookLoadCame, BookCame, Shaped
      <4>2. CASE SubjectsCame(i) BY <1>a, <4>2 DEF SubjectsCame, BookCame, Shaped
      <4>3. CASE BookSaved(i) BY <1>a, <1>12, <4>3 DEF BookSaved, BookCame, Shaped
      <4>4. CASE BookNotSaved(i) BY <1>a, <4>4 DEF BookNotSaved, BookCame, Shaped
      <4> QED BY <2>6, <4>1, <4>2, <4>3, <4>4
    <3>4. Raised' = Raised \ {net[i].op}
      <4>1. CASE net[i].op \in {"bookLoad", "subjects"} /\ book'.saving = book.saving
        BY <1>0, <3>2, <4>1 DEF Raised
      <4>2. CASE net[i].op = "bookSave" /\ ~book'.saving BY <3>2, <4>2 DEF Raised
      <4> QED BY <3>3, <4>1, <4>2
    <3>5. Shaped' BY <1>a, <3>2, <3>3 DEF Shaped
    <3> QED BY <2>1, <3>1, <3>2, <3>3, <3>4, <3>5
  <2> QED BY <1>23, <2>2, <2>3, <2>4, <2>5, <2>6 DEF BookAnswer
<1> QED BY <1>1, <1>3, <1>10, <1>11, <1>13, <1>14, <1>15, <1>16, <1>17, <1>18, <1>19, <1>20,
           <1>21, <1>22, <1>23
        DEF BooksNext, OnBookPage, BookAnswer

\* The invariant holds in every reachable state.
LEMMA SavesInvariant == Spec => []SavesInv
<1>1. Init => SavesInv
  <2> SUFFICES ASSUME Init PROVE SavesInv OBVIOUS
  <2>1. net = <<>> /\ Raised = {} /\ Shaped
    BY DEF Init, PageInit, BooksInit, NoDialog, NoEdit, NoFresh, NoBook, Raised, Shaped
  <2> QED BY <2>1, PlainFacts DEF SavesInv, Plain
<1>2. SavesInv /\ [Next]_vars => SavesInv'
  <2> SUFFICES ASSUME SavesInv, [Next]_vars PROVE SavesInv' OBVIOUS
  <2>1. ASSUME UNCHANGED <<page, net, isSubmitting, dialog, bookVars>> PROVE SavesInv'
    <3>1. Raised' = Raised /\ Shaped' BY <2>1 DEF Raised, Shaped, SavesInv, bookVars
    <3> QED BY <2>1, <3>1, Quiet
  <2>2. CASE UNCHANGED vars BY <2>1, <2>2 DEF vars, pageVars
  <2>3. CASE OrphanCame
    <3>1. CASE UNCHANGED <<page, net, isLoading, isSubmitting, warned, tardy, dialog, listVars,
                           formVars, bookVars, studentVars>>
      BY <2>1, <3>1
    <3>2. CASE Unmount(orphans - 1 + Abandoned) /\ ForgetBooks
      <4>1. net' = <<>> /\ ~isSubmitting' /\ dialog' = NoDialog BY <3>2 DEF Unmount
      <4>2. Raised' = {}
        BY <3>2, <4>1 DEF Raised, ForgetBooks, NoEdit, NoFresh, NoBook, NoDialog
      <4>3. Shaped' BY <3>2, <4>1 DEF Shaped, ForgetBooks, NoEdit, NoFresh, NoBook, NoDialog
      <4> QED BY <4>1, <4>2, <4>3, Closed
    <3> QED BY <2>3, <3>1, <3>2, Zenon DEF OrphanCame
  <2> QED BY <2>2, <2>3, ListsSave, FormsSave, BooksSave, StudentSaves DEF Next
<1> QED BY <1>1, <1>2, PTL DEF Spec

\* SavesAreGuarded, for any number of requests under way: a button that saves is
\* disabled exactly while its request is, on every page and in every modal.
THEOREM SavesAreExclusive == Spec => []SavesAreGuarded
<1>1. SavesInv => SavesAreGuarded
  <2> SUFFICES ASSUME SavesInv PROVE SavesAreGuarded OBVIOUS
  <2>1. RaisedMeans BY RaisedFacts
  <2>2. ASSUME NEW g \in Guards
        PROVE  Cardinality(Sites(net, g)) = IF g \in Raised THEN 1 ELSE 0
    BY <2>2, Counted DEF SavesInv, Held
  <2>3. /\ UnderWay({"save", "assign", "solve"}) = Cardinality(Sites(net, "save"))
        /\ UnderWay({"testSave"}) = Cardinality(Sites(net, "testSave"))
        /\ UnderWay({"freshSave"}) = Cardinality(Sites(net, "freshSave"))
        /\ UnderWay({"bookSave"}) = Cardinality(Sites(net, "bookSave"))
        /\ UnderWay({"deleteBook"}) = Cardinality(Sites(net, "deleteBook"))
    <3>1. /\ \A op : op \in {"save", "assign", "solve"} <=> GuardOf(op) = "save"
          /\ \A op : op \in {"testSave"} <=> GuardOf(op) = "testSave"
          /\ \A op : op \in {"freshSave"} <=> GuardOf(op) = "freshSave"
          /\ \A op : op \in {"bookSave"} <=> GuardOf(op) = "bookSave"
          /\ \A op : op \in {"deleteBook"} <=> GuardOf(op) = "deleteBook"
      BY DEF GuardOf
    <3>2. ASSUME NEW S, NEW g, \A op : op \in S <=> GuardOf(op) = g
          PROVE  UnderWay(S) = Cardinality(Sites(net, g))
      <4>1. {i \in DOMAIN net : net[i].op \in S} = {k \in DOMAIN net : GuardOf(net[k].op) = g}
        BY <3>2
      <4> QED BY <4>1 DEF UnderWay, Sites
    <3>3. UnderWay({"save", "assign", "solve"}) = Cardinality(Sites(net, "save")) BY <3>1, <3>2
    <3>4. UnderWay({"testSave"}) = Cardinality(Sites(net, "testSave")) BY <3>1, <3>2
    <3>5. UnderWay({"freshSave"}) = Cardinality(Sites(net, "freshSave")) BY <3>1, <3>2
    <3>6. UnderWay({"bookSave"}) = Cardinality(Sites(net, "bookSave")) BY <3>1, <3>2
    <3>7. UnderWay({"deleteBook"}) = Cardinality(Sites(net, "deleteBook")) BY <3>1, <3>2
    <3> QED BY <3>3, <3>4, <3>5, <3>6, <3>7
  <2>4. {"save", "testSave", "freshSave", "bookSave", "deleteBook"} \subseteq Guards
    BY DEF Guards
  <2> QED BY <2>1, <2>2, <2>3, <2>4 DEF RaisedMeans, SavesAreGuarded
<1> QED BY <1>1, SavesInvariant, PTL

\* OneDeletionAtATime: the page's flag, the widget's own and the request agree, on the
\* lists and on the page of a book.
THEOREM DeletionsAreExclusive == Spec => []OneDeletionAtATime
<1>1. SavesInv => OneDeletionAtATime
  <2> SUFFICES ASSUME SavesInv PROVE OneDeletionAtATime OBVIOUS
  <2>1. "delete" \in Guards /\ RaisedMeans BY RaisedFacts DEF Guards
  <2>2. \A op : GuardOf(op) = "delete" <=> op = "delete" BY DEF GuardOf
  <2>3. CASE "delete" \in Raised
    <3>1. One(net, "delete") BY <2>1, <2>3 DEF SavesInv, Held
    <3>2. \A i, j \in DOMAIN net : net[i].op = "delete" /\ net[j].op = "delete" => i = j
      BY <2>2, <3>1 DEF One
    <3> QED BY <2>1, <2>3, <3>2 DEF OneDeletionAtATime, RaisedMeans, SavesInv, Shaped
  <2>4. CASE "delete" \notin Raised
    <3>1. No(net, "delete") BY <2>1, <2>4 DEF SavesInv, Held
    <3>2. \A k \in DOMAIN net : net[k].op # "delete" BY <2>2, <3>1 DEF No
    <3> QED BY <3>2 DEF OneDeletionAtATime, Pending, SavesInv, Shaped
  <2> QED BY <2>3, <2>4
<1> QED BY <1>1, SavesInvariant, PTL

-----------------------------------------------------------------------------

\* The fields of the edit modal.
EditFields == {"open", "id", "origin", "loading", "saving", "located", "mixed"}

\* The property as it is kept: whether or not the modal is open.
EditInv ==
  /\ EditFields \subseteq DOMAIN edit
  /\ edit.mixed \/ edit.origin \in {"typed", None} \/ (edit.open /\ edit.origin = edit.id)

\* The steps that change the edit modal.
LEMMA EditChanges ==
  ASSUME BooksNext
  PROVE  \/ edit' \in {edit, NoEdit}
         \/ CloseEdit \/ FillEdit \/ SaveTest \/ \E x \in Tests : EditTest(x)
         \/ \E i \in DOMAIN net : TestLoadCame(i) \/ TestSaved(i) \/ TestNotSaved(i)
BY DEF BooksNext, OpenAdmin, OpenTestBook, LeaveBooks, ForgetBooks, bookVars, OnBookPage,
   ConfirmDeleteTest, CancelDeleteTest, DeleteTest, ConfirmDeleteBook, CancelDeleteBook,
   DeleteBook, OpenFresh, CloseFresh, SaveFresh, OpenBook, CloseBook, ToggleSubject, SaveBook,
   SelectExam, SelectLesson, BookAnswer, DataCame, CountsCame, BookLoaded, TestsCame,
   TestDeleted, TestNotDeleted, BookDeleted, BookNotDeleted, FreshCame, FreshSaved,
   BookLoadCame, SubjectsCame, BookSaved, BookNotSaved

\* Every step of the pages of books keeps it: closing the modal blanks its form.
LEMMA EditsKept ==
  ASSUME EditInv, BooksNext
  PROVE  EditInv'
<1> USE DEF EditInv, EditFields
<1>1. CASE edit' = edit BY <1>1
<1>2. CASE edit' = NoEdit BY <1>2 DEF NoEdit
<1>3. ASSUME NEW x, EditTest(x) PROVE EditInv'
  <2>1. ~edit.open /\ edit' = [edit EXCEPT !.open = TRUE, !.id = x, !.loading = TRUE]
    BY <1>3 DEF EditTest, TestsShown, BookShown, Uncovered, ModalOpen
  <2> QED BY <2>1
<1>4. CASE CloseEdit BY <1>4 DEF CloseEdit, ClosedEdit
<1>5. CASE FillEdit BY <1>5 DEF FillEdit
<1>6. CASE SaveTest BY <1>6 DEF SaveTest
<1>7. ASSUME NEW i, TestLoadCame(i) PROVE EditInv'
  <2>1. CASE edit' = [edit EXCEPT !.loading = FALSE] BY <2>1
  <2>2. CASE edit' = [edit EXCEPT !.loading = FALSE, !.origin = net[i].arg, !.located = TRUE,
                                  !.mixed = ~edit.open \/ net[i].arg # edit.id]
    <3>1. edit'.mixed = (~edit.open \/ net[i].arg # edit.id) BY <2>2
    <3>2. edit'.mixed <=> (~edit.open \/ net[i].arg # edit.id) BY <3>1, Zenon
    <3>3. /\ EditFields \subseteq DOMAIN edit' /\ edit'.origin = net[i].arg
          /\ edit'.open = edit.open /\ edit'.id = edit.id
      BY <2>2
    <3> QED BY <3>2, <3>3
  <2> QED BY <1>7, <2>1, <2>2 DEF TestLoadCame
<1>8. ASSUME NEW i, TestSaved(i) PROVE EditInv' BY <1>8 DEF TestSaved, ClosedEdit
<1>9. ASSUME NEW i, TestNotSaved(i) PROVE EditInv' BY <1>9 DEF TestNotSaved
<1> QED BY <1>1, <1>2, <1>3, <1>4, <1>5, <1>6, <1>7, <1>8, <1>9, EditChanges

\* Steps of other pages do not touch the modals, or reset them.
LEMMA BooksElsewhere ==
  ASSUME Next, ~BooksNext
  PROVE  \/ UNCHANGED bookVars /\ page' # "admin"
         \/ UNCHANGED <<bookVars, page, net>>
         \/ page' = None /\ ForgetBooks
<1>0. "admin" \in BookPages /\ None # "admin" BY PageNames DEF BookPages, AllPages
<1>1. CASE ListsNext /\ UNCHANGED <<formVars, bookVars, studentVars>>
  BY <1>0, <1>1, ListsStay, PageNames
<1>2. CASE FormsNext /\ UNCHANGED <<listVars, bookVars, studentVars>>
  BY <1>0, <1>2, FormsStay, PageNames
<1>3. CASE StudentNext /\ UNCHANGED <<listVars, formVars, bookVars>>
  BY <1>0, <1>3, StudentStays, PageNames DEF CloseResultModal, pageVars
<1>4. CASE OrphanCame
  <2>1. \/ UNCHANGED <<page, net, isLoading, isSubmitting, warned, tardy, dialog, listVars,
                       formVars, bookVars, studentVars>>
        \/ page' = None /\ ForgetBooks
    BY <1>4, Zenon DEF OrphanCame, Unmount
  <2> QED BY <2>1
<1> QED BY <1>1, <1>2, <1>3, <1>4 DEF Next

\* ModalShowsItsTest, for every set of tests: the edit modal shows and saves the test
\* it was opened for, unless an answer came to a modal closed or open for another.
THEOREM EditModalShowsItsTest == Spec => []ModalShowsItsTest
<1>1. Init => EditInv BY DEF Init, BooksInit, NoEdit, EditInv, EditFields
<1>2. EditInv /\ [Next]_vars => EditInv'
  <2> SUFFICES ASSUME EditInv, [Next]_vars PROVE EditInv' OBVIOUS
  <2>1. CASE UNCHANGED edit BY <2>1 DEF EditInv
  <2>2. CASE BooksNext BY <2>2, EditsKept
  <2>3. CASE edit' = NoEdit BY <2>3 DEF NoEdit, EditInv, EditFields
  <2>4. Next => BooksNext \/ edit' \in {edit, NoEdit}
    BY BooksElsewhere DEF bookVars, ForgetBooks
  <2> QED BY <2>1, <2>2, <2>3, <2>4 DEF vars, bookVars
<1>3. EditInv => ModalShowsItsTest BY DEF EditInv, ModalShowsItsTest
<1> QED BY <1>1, <1>2, <1>3, PTL DEF Spec

-----------------------------------------------------------------------------

\* The fields of a book's form.
BookFields ==
  {"open", "exam", "lesson", "chosen", "offered", "fetching", "loading", "saving", "mixed"}

\* The subjects of a form fit what it has selected.
Fitting(b) ==
  /\ b.chosen \subseteq {Selected(b)} \cup (IF page = "admin" THEN {} ELSE {None})
  /\ b.fetching \/ Selected(b) = None \/ b.offered \in {None, Selected(b)}

\* Only the page of a book loads a book.
SubjectsInv ==
  /\ BookFields \subseteq DOMAIN book
  /\ book.mixed \/ Fitting(book)
  /\ page = "admin" => No(net, "bookLoad")

\* The form after a step, whose fields but those named are those before.
LEMMA FormFacts ==
  ASSUME NEW b, BookFields \subseteq DOMAIN b
  PROVE  /\ BookFields \subseteq DOMAIN Emptied(b)
         /\ Emptied(b).exam = None /\ Emptied(b).chosen = b.chosen
         /\ BookFields \subseteq DOMAIN Nulled(b) /\ Selected(Nulled(b)) = None
         /\ Nulled(b).chosen \subseteq {None}
         /\ BookFields \subseteq DOMAIN Cleared(b) /\ Selected(Cleared(b)) = None
         /\ Cleared(b).chosen = {}
         /\ Fitting(Cleared(b)) /\ (page # "admin" => Fitting(Nulled(b)))
         /\ BookFields \subseteq DOMAIN ClosedBook(b) /\ Fitting(ClosedBook(b))
<1> USE DEF BookFields
<1>1. BookFields \subseteq DOMAIN Emptied(b) /\ Emptied(b).exam = None /\ Emptied(b).chosen = b.chosen
  BY DEF Emptied
<1>2. /\ BookFields \subseteq DOMAIN Nulled(b) /\ Nulled(b).exam = None
      /\ Nulled(b).chosen \subseteq {None}
  BY <1>1 DEF Nulled
<1>3. /\ BookFields \subseteq DOMAIN Cleared(b) /\ Cleared(b).exam = None
      /\ Cleared(b).chosen = {}
  BY <1>1 DEF Cleared
<1>4. Selected(Nulled(b)) = None /\ Selected(Cleared(b)) = None BY <1>2, <1>3 DEF Selected
<1>5. Fitting(Cleared(b)) /\ (page # "admin" => Fitting(Nulled(b))) BY <1>2, <1>3, <1>4 DEF Fitting
<1>6. BookFields \subseteq DOMAIN ClosedBook(b) /\ Fitting(ClosedBook(b))
  <2>1. CASE page = "admin"
    <3> DEFINE c == Cleared(b)
    <3>1. ClosedBook(b) = [c EXCEPT !.open = FALSE] BY <2>1 DEF ClosedBook
    <3> HIDE DEF c
    <3>2. /\ BookFields \subseteq DOMAIN ClosedBook(b)
          /\ ClosedBook(b).exam = c.exam /\ ClosedBook(b).chosen = c.chosen
      BY <1>3, <3>1 DEF c
    <3>3. Selected(ClosedBook(b)) = None BY <1>3, <3>2 DEF Selected, c
    <3> QED BY <1>3, <3>2, <3>3 DEF Fitting, c
  <2>2. CASE page # "admin"
    <3> DEFINE c == Nulled(b)
    <3>1. ClosedBook(b) = [c EXCEPT !.open = FALSE] BY <2>2 DEF ClosedBook
    <3> HIDE DEF c
    <3>2. /\ BookFields \subseteq DOMAIN ClosedBook(b)
          /\ ClosedBook(b).exam = c.exam /\ ClosedBook(b).chosen = c.chosen
      BY <1>2, <3>1 DEF c
    <3>3. Selected(ClosedBook(b)) = None BY <1>2, <3>2 DEF Selected, c
    <3> QED BY <1>2, <2>2, <3>2, <3>3 DEF Fitting, c
  <2> QED BY <2>1, <2>2
<1> QED BY <1>1, <1>2, <1>3, <1>4, <1>5, <1>6

\* The property as it is kept.
FormInv == BookFields \subseteq DOMAIN book /\ (book.mixed \/ Fitting(book))

\* The steps that change the form of a book.
LEMMA FormChanges ==
  ASSUME BooksNext
  PROVE  \/ book' = book /\ (page' = page \/ page' # "admin")
         \/ book' = NoBook \/ book' = [NoBook EXCEPT !.loading = FALSE]
         \/ (OpenBook /\ page \in BookPages) \/ CloseBook \/ ToggleSubject \/ SaveBook
         \/ (\E e \in Exams : SelectExam(e)) \/ (\E l \in Lessons : SelectLesson(l))
         \/ \E i \in DOMAIN net : \/ BookLoadCame(i) /\ page \in BookPages
                               \/ SubjectsCame(i) \/ BookSaved(i) \/ BookNotSaved(i)
BY DEF BooksNext, OpenAdmin, OpenTestBook, Mount, LeaveBooks, ForgetBooks, bookVars, pageVars,
   ownButNet, OnBookPage, ConfirmDeleteTest, EditTest, CancelDeleteTest, DeleteTest,
   ConfirmDeleteBook, CancelDeleteBook, DeleteBook, CloseEdit, FillEdit, SaveTest, OpenFresh,
   CloseFresh, SaveFresh, BookAnswer, DataCame, CountsCame, BookLoaded, TestsCame,
   TestDeleted, TestNotDeleted, BookDeleted, BookNotDeleted, TestLoadCame, TestSaved,
   TestNotSaved, FreshCame, FreshSaved

\* Every step of the pages of books keeps it.
LEMMA FormsKept ==
  ASSUME SubjectsInv, BooksNext
  PROVE  FormInv'
<1> USE DEF BookFields
<1>0. FormInv BY DEF SubjectsInv, FormInv
<1>1. CASE book' = book /\ (page' = page \/ page' # "admin")
  <2>1. Fitting(book) => Fitting(book)' BY <1>1 DEF Fitting, Selected
  <2> QED BY <1>0, <1>1, <2>1 DEF FormInv
<1>2. CASE book' = NoBook \/ book' = [NoBook EXCEPT !.loading = FALSE]
  <2>1. BookFields \subseteq DOMAIN book' /\ book'.exam = None /\ book'.chosen = {}
    BY <1>2 DEF NoBook
  <2> QED BY <2>1 DEF FormInv, Fitting, Selected
<1>3. ASSUME OpenBook, page \in BookPages PROVE FormInv'
  <2>1. CASE book' = [Cleared(book) EXCEPT !.open = TRUE, !.loading = FALSE]
    <3> DEFINE c == Cleared(book)
    <3>1. book' = [c EXCEPT !.open = TRUE, !.loading = FALSE] BY <2>1
    <3>2. BookFields \subseteq DOMAIN c /\ Selected(c) = None /\ c.chosen = {}
      BY <1>0, FormFacts DEF FormInv
    <3> HIDE DEF c
    <3>3. /\ BookFields \subseteq DOMAIN book' /\ book'.chosen = {}
          /\ book'.exam = c.exam /\ book'.lesson = c.lesson
      BY <3>1, <3>2
    <3>4. Selected(book)' = None BY <3>2, <3>3 DEF Selected
    <3> QED BY <3>3, <3>4 DEF FormInv, Fitting
  <2>2. CASE book' = [book EXCEPT !.open = TRUE, !.loading = TRUE] /\ page' = page
    <3>1. /\ BookFields \subseteq DOMAIN book' /\ book'.chosen = book.chosen
          /\ book'.exam = book.exam /\ book'.lesson = book.lesson
          /\ book'.offered = book.offered
      BY <1>0, <2>2 DEF FormInv
    <3>2. book'.fetching = book.fetching /\ book'.mixed = book.mixed BY <1>0, <2>2 DEF FormInv
    <3>3. Fitting(book) => Fitting(book)' BY <2>2, <3>1, <3>2 DEF Fitting, Selected
    <3> QED BY <1>0, <3>1, <3>2, <3>3 DEF FormInv
  <2> QED BY <1>3, <2>1, <2>2 DEF OpenBook, ownButNet
<1>4. ASSUME NEW b, BookFields \subseteq DOMAIN b, book' = ClosedBook(b), page' = page PROVE FormInv'
  <2>1. BookFields \subseteq DOMAIN ClosedBook(b) /\ Fitting(ClosedBook(b)) BY <1>4, FormFacts
  <2>2. Fitting(book)' BY <1>4, <2>1 DEF Fitting, Selected
  <2> QED BY <1>4, <2>1, <2>2 DEF FormInv
<1>5. CASE CloseBook BY <1>0, <1>4, <1>5 DEF CloseBook, FormInv, pageVars
<1>6. ASSUME NEW i, BookSaved(i) PROVE FormInv'
  <2>1. BookFields \subseteq DOMAIN [book EXCEPT !.saving = FALSE] BY <1>0 DEF FormInv
  <2> QED BY <1>4, <1>6, <2>1 DEF BookSaved
<1>7. ASSUME NEW b, BookFields \subseteq DOMAIN b, Reselected(b), page' = page PROVE FormInv'
  <2>1. /\ book' = [b EXCEPT !.chosen = {}, !.mixed = FALSE,
                             !.fetching = b.fetching \/ Selected(b) # None,
                             !.offered = IF Selected(b) # None THEN b.offered ELSE None]
    BY <1>7 DEF Reselected
  <2>2. /\ BookFields \subseteq DOMAIN book' /\ book'.chosen = {}
        /\ book'.exam = b.exam /\ book'.lesson = b.lesson
    BY <1>7, <2>1
  <2>3. book'.fetching = (b.fetching \/ Selected(b) # None) BY <1>7, <2>1
  <2>4. book'.fetching <=> (b.fetching \/ Selected(b) # None) BY <2>3, Zenon
  <2>5. Selected(book)' = Selected(b) BY <2>2 DEF Selected
  <2> QED BY <2>2, <2>4, <2>5 DEF FormInv, Fitting
<1>8. ASSUME NEW x, SelectExam(x) \/ SelectLesson(x) PROVE FormInv'
  <2>1. /\ BookFields \subseteq DOMAIN [book EXCEPT !.exam = x]
        /\ BookFields \subseteq DOMAIN [book EXCEPT !.lesson = x]
    BY <1>0 DEF FormInv
  <2> QED BY <1>7, <1>8, <2>1 DEF SelectExam, SelectLesson, ownButNet
<1>9. CASE ToggleSubject
  <2>0. page' = page BY <1>9 DEF ToggleSubject, pageVars
  <2>1. /\ BookFields \subseteq DOMAIN book'
        /\ book'.exam = book.exam /\ book'.lesson = book.lesson /\ book'.offered = book.offered
        /\ book'.chosen \subseteq book.chosen \cup {book.offered}
        /\ ~book.fetching /\ book.offered # None /\ Selected(book) # None
    BY <1>0, <1>9 DEF ToggleSubject, FormInv
  <2>2. book'.mixed = book.mixed BY <1>0, <1>9 DEF ToggleSubject, FormInv
  <2>3. Selected(book)' = Selected(book) BY <2>1 DEF Selected
  <2>4. Fitting(book) => Fitting(book)' BY <2>0, <2>1, <2>3 DEF Fitting
  <2> QED BY <1>0, <2>1, <2>2, <2>4 DEF FormInv
<1>10. ASSUME book' = [book EXCEPT !.saving = TRUE] \/ book' = [book EXCEPT !.saving = FALSE]
              \/ book' = [book EXCEPT !.loading = FALSE], page' = page
       PROVE  FormInv'
  <2>1. /\ BookFields \subseteq DOMAIN book' /\ book'.chosen = book.chosen
        /\ book'.exam = book.exam /\ book'.lesson = book.lesson
        /\ book'.offered = book.offered
    BY <1>0, <1>10 DEF FormInv
  <2>2. book'.fetching = book.fetching /\ book'.mixed = book.mixed BY <1>0, <1>10 DEF FormInv
  <2>3. Fitting(book) => Fitting(book)' BY <1>10, <2>1, <2>2 DEF Fitting, Selected
  <2> QED BY <1>0, <2>1, <2>2, <2>3 DEF FormInv
<1>11. CASE SaveBook BY <1>10, <1>11 DEF SaveBook, ownButNet
<1>12. ASSUME NEW i, BookNotSaved(i) PROVE FormInv'
  BY <1>10, <1>12 DEF BookNotSaved, ownButNet
<1>13. ASSUME NEW i, BookLoadCame(i), page \in BookPages PROVE FormInv'
  <2>0. page' = page BY <1>13 DEF BookLoadCame, ownButNet
  <2>1. page # "admin"
    BY <1>13 DEF BookLoadCame, BookCame, SubjectsInv, No, GuardOf
  <2>2. CASE book' = [book EXCEPT !.loading = FALSE] BY <1>10, <2>0, <2>2
  <2>3. CASE book' = [book EXCEPT !.loading = FALSE, !.fetching = TRUE,
                                !.exam = TheBook[1], !.lesson = TheBook[2],
                                !.mixed = book.mixed \/ ~(book.chosen \subseteq {None, TheBook})]
    <3>1. /\ BookFields \subseteq DOMAIN book' /\ book'.chosen = book.chosen
          /\ book'.exam = TheBook[1] /\ book'.lesson = TheBook[2] /\ book'.fetching
      BY <1>0, <2>3 DEF FormInv
    <3>2. book'.mixed = (book.mixed \/ ~(book.chosen \subseteq {None, TheBook}))
      BY <1>0, <2>3 DEF FormInv
    <3>3. book'.mixed <=> (book.mixed \/ ~(book.chosen \subseteq {None, TheBook}))
      BY <3>2, Zenon
    <3>4. Selected(book)' = TheBook
      BY <3>1, BookAssumption DEF Selected
    <3>5. book.chosen \subseteq {None, TheBook} => Fitting(book)'
      BY <2>0, <2>1, <3>1, <3>4 DEF Fitting
    <3> QED BY <3>1, <3>3, <3>5 DEF FormInv
  <2> QED BY <1>13, <2>2, <2>3 DEF BookLoadCame
<1>14. ASSUME NEW i, SubjectsCame(i) PROVE FormInv'
  <2> DEFINE ask == net[i].arg
             other == ask.pair # Selected(book)
  <2>0. page' = page BY <1>14 DEF SubjectsCame, ownButNet
  <2>1. CASE book' = [book EXCEPT !.fetching = FALSE, !.offered = None]
    <3>1. /\ BookFields \subseteq DOMAIN book' /\ book'.chosen = book.chosen
          /\ book'.exam = book.exam /\ book'.lesson = book.lesson /\ book'.offered = None
      BY <1>0, <2>1 DEF FormInv
    <3>2. book'.mixed = book.mixed BY <1>0, <2>1 DEF FormInv
    <3>3. Fitting(book) => Fitting(book)' BY <2>0, <3>1 DEF Fitting, Selected
    <3> QED BY <1>0, <3>1, <3>2, <3>3 DEF FormInv
  <2>2. CASE book' = [book EXCEPT !.fetching = FALSE, !.offered = ask.pair,
                                !.chosen = IF ask.select THEN book.chosen \cup {ask.pair}
                                           ELSE book.chosen,
                                !.mixed = book.mixed \/ other]
    <3>1. /\ BookFields \subseteq DOMAIN book'
          /\ book'.chosen \subseteq book.chosen \cup {ask.pair}
          /\ book'.exam = book.exam /\ book'.lesson = book.lesson /\ book'.offered = ask.pair
      BY <1>0, <2>2 DEF FormInv
    <3>2. book'.mixed = (book.mixed \/ other) BY <1>0, <2>2 DEF FormInv
    <3>3. book'.mixed <=> (book.mixed \/ other) BY <3>2, Zenon
    <3>4. Selected(book)' = Selected(book) BY <3>1 DEF Selected
    <3>5. ~other /\ Fitting(book) => Fitting(book)' BY <2>0, <3>1, <3>4 DEF Fitting
    <3> QED BY <1>0, <3>1, <3>3, <3>5 DEF FormInv
  <2> QED BY <1>14, <2>1, <2>2 DEF SubjectsCame
<1> QED BY <1>1, <1>2, <1>3, <1>5, <1>6, <1>8, <1>9, <1>11, <1>12, <1>13, <1>14, FormChanges

\* The dashboard loads no book into the form.
LEMMA NoBookLoadAdded ==
  ASSUME SavesInv, SubjectsInv, BooksNext
  PROVE  page' = "admin" => No(net', "bookLoad")
<1> DEFINE G == "bookLoad"
           Safe(n) == page' = "admin" => No(n, G)
<1>0. IsSeq(net) /\ (page = "admin" => No(net, G)) BY DEF SubjectsInv, SavesInv, Held
<1>1. \A r : r.op # G => GuardOf(r.op) # G BY DEF GuardOf
<1>2. No(<<>>, G) /\ \A op, a : op # G => No(<<Request(op, a)>>, G)
  BY <1>1, TupleFacts, RequestFacts DEF No
<1>3. \A op, oq, a, b : op # G /\ oq # G => No(<<Request(op, a), Request(oq, b)>>, G)
  <2> SUFFICES ASSUME NEW op, NEW oq, NEW a, NEW b, op # G, oq # G
               PROVE  No(<<Request(op, a), Request(oq, b)>>, G)
    OBVIOUS
  <2> DEFINE t == <<Request(op, a), Request(oq, b)>>
  <2>1. DOMAIN t = 1 .. 2 /\ t[1].op = op /\ t[2].op = oq BY TupleFacts, RequestFacts
  <2> HIDE DEF t
  <2>2. \A k \in DOMAIN t : k = 1 \/ k = 2 BY <2>1
  <2> QED BY <1>1, <2>1, <2>2 DEF No, t
<1>4. CASE OpenAdmin \/ OpenTestBook
  <2>1. \E op \in {"data", "book"} : net' = <<Request(op, None)>>
    BY <1>4 DEF OpenAdmin, OpenTestBook, Mount
  <2> QED BY <1>2, <2>1, TupleFacts
<1>5. CASE net' = <<>> BY <1>2, <1>5, TupleFacts
<1>6. CASE page' = page /\ net' = net BY <1>0, <1>6
<1>7. ASSUME page' = page, NEW op, NEW a, net' = Append(net, Request(op, a)),
             op # G \/ page # "admin"
      PROVE  Safe(net')
  <2>1. IsSeq(net') BY <1>0, <1>7, AppendFacts
  <2>2. CASE op # G
    <3>1. GuardOf(Request(op, a).op) # G BY <1>1, <2>2, RequestFacts
    <3> QED BY <1>0, <1>7, <2>1, <3>1, Sent
  <2> QED BY <1>7, <2>1, <2>2
<1>8. ASSUME page' = page, NEW i \in DOMAIN net, NEW t, IsSeq(t), No(t, G),
             net' = Without(i) \/ net' = Without(i) \o t
      PROVE  Safe(net')
  <2>1. IsSeq(Without(i)) /\ IsSeq(Without(i) \o t) BY <1>0, <1>8, WithoutFacts, ConcatFacts
  <2>2. No(net, G) => No(Without(i), G) BY <1>0, Taken
  <2>3. No(Without(i), G) => No(Without(i) \o t, G) BY <1>8, <2>1, Joined
  <2> QED BY <1>0, <1>8, <2>1, <2>2, <2>3
<1> HIDE DEF Safe
<1>9. ASSUME page \in BookPages, OnBookPage, ~\E i \in DOMAIN net : BookAnswer(i) PROVE Safe(net')
  <2>1. ASSUME page' = page, \E op, a : net' = Append(net, Request(op, a)) /\ (op # G \/ page # "admin")
        PROVE  Safe(net')
    BY <1>7, <2>1
  <2>2. CASE \E x \in Tests : ConfirmDeleteTest(x) \/ EditTest(x)
    BY <1>6, <2>1, <2>2
       DEF ConfirmDeleteTest, EditTest, TestsShown, BookShown, ownButNet, Safe
  <2>3. CASE \/ CancelDeleteTest \/ ConfirmDeleteBook \/ CancelDeleteBook \/ CloseEdit \/ FillEdit
             \/ CloseFresh \/ CloseBook \/ ToggleSubject
    BY <1>6, <2>3 DEF CancelDeleteTest, ConfirmDeleteBook, CancelDeleteBook, CloseEdit, FillEdit,
       CloseFresh, CloseBook, ToggleSubject, pageVars, Safe
  <2>4. CASE DeleteTest \/ DeleteBook \/ SaveTest \/ OpenFresh \/ SaveFresh \/ SaveBook
    BY <2>1, <2>4 DEF DeleteTest, DeleteBook, SaveTest, OpenFresh, SaveFresh, SaveBook, ownButNet
  <2>5. CASE OpenBook
    BY <1>6, <2>1, <2>5 DEF OpenBook, BookShown, ownButNet, Safe
  <2>6. CASE (\E e \in Exams : SelectExam(e)) \/ \E l \in Lessons : SelectLesson(l)
    <3>1. page' = page /\ (net' = net \/ \E a : net' = Append(net, Request("subjects", a)))
      BY <2>6 DEF SelectExam, SelectLesson, Reselected, SubjectsRequest, ownButNet
    <3> QED BY <1>6, <2>1, <3>1 DEF Safe
  <2> QED BY <1>9, <2>2, <2>3, <2>4, <2>5, <2>6 DEF OnBookPage
<1>10. ASSUME page \in BookPages, NEW i \in DOMAIN net, BookAnswer(i), ~BookDeleted(i)
       PROVE  Safe(net')
  <2>1. page' = page
    BY <1>10 DEF BookAnswer, DataCame, CountsCame, BookLoaded, TestsCame, TestDeleted,
       TestNotDeleted, BookNotDeleted, TestLoadCame, TestSaved, TestNotSaved, FreshCame,
       FreshSaved, BookLoadCame, SubjectsCame, BookSaved, BookNotSaved, ownButNet
  <2>2. \E t : IsSeq(t) /\ No(t, G) /\ (net' = Without(i) \/ net' = Without(i) \o t)
    <3>1. /\ IsSeq(<<>>) /\ No(<<>>, G)
          /\ \A op, a : IsSeq(<<Request(op, a)>>)
          /\ \A op, oq, a, b : IsSeq(<<Request(op, a), Request(oq, b)>>)
      BY <1>2, TupleFacts
    <3> QED BY <1>2, <1>3, <1>10, <3>1
         DEF BookAnswer, DataCame, CountsCame, BookLoaded, TestsCame, TestDeleted,
         TestNotDeleted, BookNotDeleted, TestLoadCame, TestSaved, TestNotSaved, FreshCame,
         FreshSaved, BookLoadCame, SubjectsCame, BookSaved, BookNotSaved, SubjectsRequest
  <2> QED BY <1>8, <2>1, <2>2
<1>11. CASE LeaveBooks \/ \E i \in DOMAIN net : BookDeleted(i)
  BY <1>5, <1>11 DEF LeaveBooks, BookDeleted, Unmount
<1> QED BY <1>4, <1>9, <1>10, <1>11 DEF BooksNext, OnBookPage, BookAnswer, Safe

\* SubjectsFitSelection, for every set of exam types and lessons: a book's form offers
\* and has chosen subjects of its selection, unless an answer met another.
THEOREM BookFormFitsItsSubjects == Spec => []SubjectsFitSelection
<1>1. Init => SubjectsInv
  BY TupleFacts DEF Init, PageInit, BooksInit, NoBook, SubjectsInv, BookFields, Fitting, Selected, No
<1>2. SavesInv /\ SubjectsInv /\ [Next]_vars => SubjectsInv'
  <2> SUFFICES ASSUME SavesInv, SubjectsInv, [Next]_vars PROVE SubjectsInv' OBVIOUS
  <2>0. Fitting(book) /\ book' = book /\ (page' = page \/ page' # "admin") => Fitting(book)'
    BY DEF Fitting, Selected
  <2>1. CASE UNCHANGED <<bookVars, page, net>>
    BY <2>0, <2>1 DEF SubjectsInv, bookVars
  <2>2. CASE BooksNext
    BY <2>2, FormsKept, NoBookLoadAdded DEF SubjectsInv, FormInv
  <2>3. CASE page' = None /\ ForgetBooks
    <3>1. None # "admin" BY PageNames DEF AllPages, BookPages
    <3> QED BY <2>3, <3>1 DEF ForgetBooks, NoBook, SubjectsInv, BookFields, Fitting, Selected
  <2>4. CASE UNCHANGED bookVars /\ page' # "admin"
    BY <2>0, <2>4 DEF SubjectsInv, bookVars
  <2> QED BY <2>1, <2>2, <2>3, <2>4, BooksElsewhere DEF vars, pageVars
<1>3. SubjectsInv => SubjectsFitSelection
  BY DEF SubjectsInv, Fitting, SubjectsFitSelection
<1> QED BY <1>1, <1>2, <1>3, SavesInvariant, PTL DEF Spec
===============================================================================
