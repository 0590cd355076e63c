--------------------------- MODULE PagesTypesProofs ---------------------------
(***************************************************************************)
(* Type correctness of Pages: what each request carries, what each answer  *)
(* may be, and how many requests can be under way; and the spinners: each  *)
(* step that takes the answer a spinner waits for ends it, or sends the    *)
(* request that will.                                                      *)
(***************************************************************************)
EXTENDS PagesSavesProofs

\* What the server answers a listing page.
Replies == [ok : BOOLEAN, rows : SUBSET Items, pages : Nat]

\* What a request of page p carries.
WellFormed(r, p) ==
  /\ r.old \in BOOLEAN
  /\ r.op = "rows" => r.arg \in Queries /\ r.got \in Replies \cup {None}
  /\ r.op = "assign" => r.arg \in Items /\ p = "user"
  /\ r.op = "shown" => r.arg \in Selections
  /\ r.op \in {"modalResult", "modalKey"} => r.arg \in Results
  /\ r.op = "testLoad" => r.arg \in Tests
  /\ r.op = "subjects" /\ p \in BookPages => r.arg \in [pair : Pairs, select : BOOLEAN]

\* Every request is.
AllWellFormed(n, p) == IsSeq(n) /\ \A k \in DOMAIN n : WellFormed(n[k], p)

\* The states of a confirmation dialog.
Dialogs == [flag : BOOLEAN, visible : BOOLEAN, target : Items \cup Tests \cup {None}]

\* TypeOK of what all pages share, requests included.
PageTyped ==
  /\ page \in {None} \cup AllPages
  /\ AllWellFormed(net, page)
  /\ orphans \in Nat
  /\ isLoading \in BOOLEAN /\ isSubmitting \in BOOLEAN /\ warned \in BOOLEAN /\ tardy \in BOOLEAN
  /\ dialog \in Dialogs

\* Only the users page keeps deleted rows.
ListsTyped == ListsTypeOK /\ (page # "users" => gone = {})

\* TypeOK strengthened, without the bound on the requests.
Typed == PageTyped /\ ListsTyped /\ FormsTypeOK /\ BooksTypeOK /\ StudentTypeOK

\* A request is well formed when its argument is.
LEMMA RequestTyped ==
  ASSUME NEW op, NEW a, NEW p,
         op = "rows" => a \in Queries,
         op = "assign" => a \in Items /\ p = "user",
         op = "shown" => a \in Selections,
         op \in {"modalResult", "modalKey"} => a \in Results,
         op = "testLoad" => a \in Tests,
         op = "subjects" /\ p \in BookPages => a \in [pair : Pairs, select : BOOLEAN]
  PROVE  WellFormed(Request(op, a), p)
BY DEF Request, WellFormed

\* No, one and two well-formed requests.
LEMMA TupleTyped ==
  ASSUME NEW p
  PROVE  /\ AllWellFormed(<<>>, p)
         /\ \A r : WellFormed(r, p) => AllWellFormed(<<r>>, p)
         /\ \A q, r : WellFormed(q, p) /\ WellFormed(r, p) => AllWellFormed(<<q, r>>, p)
<1>1. AllWellFormed(<<>>, p) BY TupleFacts DEF AllWellFormed
<1>2. ASSUME NEW r, WellFormed(r, p) PROVE AllWellFormed(<<r>>, p)
  BY <1>2, TupleFacts DEF AllWellFormed
<1>3. ASSUME NEW q, NEW r, WellFormed(q, p), WellFormed(r, p) PROVE AllWellFormed(<<q, r>>, p)
  <2>1. \A k \in DOMAIN <<q, r>> : k = 1 \/ k = 2 BY TupleFacts
  <2>2. <<q, r>>[1] = q /\ <<q, r>>[2] = r BY TupleFacts
  <2> QED BY <1>3, <2>1, <2>2, TupleFacts DEF AllWellFormed
<1> QED BY <1>1, <1>2, <1>3

\* Taking an answer.
LEMMA WithoutTyped ==
  ASSUME NEW i \in DOMAIN net, NEW p, AllWellFormed(net, p)
  PROVE  AllWellFormed(Without(i), p)
<1>1. IsSeq(net) BY DEF AllWellFormed
<1>2. Len(net) \in Nat /\ DOMAIN net = 1 .. Len(net) BY <1>1, SeqFacts
<1>3. /\ IsSeq(Without(i)) /\ DOMAIN Without(i) = 1 .. Len(net) - 1
      /\ \A k \in DOMAIN Without(i) :
           Without(i)[k] = IF k < i THEN Overtaken(net[k], net[i].op) ELSE net[k + 1]
  BY <1>1, WithoutFacts
<1>4. ASSUME NEW k \in DOMAIN Without(i) PROVE WellFormed(Without(i)[k], p)
  <2>1. k \in DOMAIN net /\ k + 1 \in DOMAIN net BY <1>2, <1>3
  <2>2. WellFormed(net[k], p) /\ WellFormed(net[k + 1], p) BY <2>1 DEF AllWellFormed
  <2>3. WellFormed(Overtaken(net[k], net[i].op), p) BY <2>2 DEF WellFormed, Overtaken
  <2> QED BY <1>3, <2>2, <2>3
<1> QED BY <1>3, <1>4 DEF AllWellFormed

\* Sending several.
LEMMA JoinTyped ==
  ASSUME NEW p, NEW s, NEW t, AllWellFormed(s, p), AllWellFormed(t, p)
  PROVE  AllWellFormed(s \o t, p)
<1>1. IsSeq(s) /\ IsSeq(t) BY DEF AllWellFormed
<1>2. /\ Len(s) \in Nat /\ DOMAIN s = 1 .. Len(s)
      /\ Len(t) \in Nat /\ DOMAIN t = 1 .. Len(t)
  BY <1>1, SeqFacts
<1>3. /\ IsSeq(s \o t) /\ DOMAIN (s \o t) = 1 .. Len(s) + Len(t)
      /\ \A k \in DOMAIN (s \o t) : (s \o t)[k] = IF k <= Len(s) THEN s[k] ELSE t[k - Len(s)]
  BY <1>1, ConcatFacts
<1>4. ASSUME NEW k \in DOMAIN (s \o t) PROVE WellFormed((s \o t)[k], p)
  <2>1. CASE k <= Len(s)
    <3>1. k \in DOMAIN s /\ (s \o t)[k] = s[k] BY <1>2, <1>3, <2>1
    <3> QED BY <3>1 DEF AllWellFormed
  <2>2. CASE ~(k <= Len(s))
    <3>1. k - Len(s) \in DOMAIN t /\ (s \o t)[k] = t[k - Len(s)] BY <1>2, <1>3, <2>2
    <3> QED BY <3>1 DEF AllWellFormed
  <2> QED BY <2>1, <2>2
<1> QED BY <1>3, <1>4 DEF AllWellFormed

\* Sending one.
LEMMA AppendTyped ==
  ASSUME NEW p, NEW s, NEW r, AllWellFormed(s, p), WellFormed(r, p)
  PROVE  AllWellFormed(Append(s, r), p)
<1>1. IsSeq(s) BY DEF AllWellFormed
<1>2. Append(s, r) = s \o <<r>> BY <1>1, AppendOne
<1>3. AllWellFormed(<<r>>, p) BY TupleTyped
<1> QED BY <1>2, <1>3, JoinTyped

\* What can happen to a dialog.
LEMMA DialogTyped ==
  ASSUME dialog \in Dialogs, NEW x \in Items \cup Tests \cup {None},
         OpenDialog(x) \/ HideDialog \/ CloseDialog(x) \/ CloseDialog(dialog.target)
  PROVE  dialog' \in Dialogs
<1>1. dialog.flag \in BOOLEAN /\ dialog.target \in Items \cup Tests \cup {None} BY DEF Dialogs
<1>2. CASE OpenDialog(x)
  <2>1. (~dialog.flag) \in BOOLEAN BY <1>1
  <2> QED BY <1>2, <2>1 DEF OpenDialog, Dialogs
<1>3. CASE HideDialog BY <1>1, <1>3 DEF HideDialog, Dialogs
<1>4. CASE CloseDialog(x) BY <1>4 DEF CloseDialog, Dialogs
<1>5. CASE CloseDialog(dialog.target) BY <1>1, <1>5 DEF CloseDialog, Dialogs
<1> QED BY <1>2, <1>3, <1>4, <1>5

\* A page leaves a number of requests behind.
LEMMA LeftTyped ==
  ASSUME PageTyped, NEW op
  PROVE  LeftBehind(op) \in Nat
<1>1. DOMAIN net = 1 .. Len(net) /\ Len(net) \in Nat
  BY SeqFacts DEF PageTyped, AllWellFormed
<1>2. IsFiniteSet(1 .. Len(net)) BY <1>1, FS_Interval
<1>3. {k \in DOMAIN net : net[k].op = op} \in SUBSET (1 .. Len(net)) BY <1>1
<1> QED BY <1>2, <1>3, FS_Subset, FS_CardinalityType DEF LeftBehind

\* Leaving a page.
LEMMA UnmountTyped ==
  ASSUME NEW left \in Nat, Unmount(left)
  PROVE  PageTyped'
<1>1. AllWellFormed(net', page') BY TupleTyped DEF Unmount
<1> QED BY <1>1 DEF Unmount, PageTyped, Dialogs, NoDialog

\* Opening one.
LEMMA MountTyped ==
  ASSUME PageTyped, NEW p \in AllPages, NEW t, NEW l \in BOOLEAN,
         Mount(p, l, t), AllWellFormed(t, p)
  PROVE  PageTyped'
BY DEF Mount, PageTyped

-----------------------------------------------------------------------------

\* The forms keep their types.
LEMMA FormsTyped ==
  ASSUME PageTyped, FormsTypeOK, FormsNext
  PROVE  PageTyped' /\ FormsTypeOK'
<1>1. ASSUME NEW p \in FormPages, NEW e \in BOOLEAN, OpenForm(p, e)
      PROVE  PageTyped' /\ FormsTypeOK'
  <2> DEFINE s == IF FormOf[p].choice THEN <<Request("options", None)>> ELSE <<>>
             t == IF e THEN <<Request("load", None)>> ELSE <<>>
  <2>1. Mount(p, e, s \o t) /\ editing' = e /\ UNCHANGED <<options, form>> BY <1>1 DEF OpenForm
  <2>2. WellFormed(Request("options", None), p) /\ WellFormed(Request("load", None), p)
    BY RequestTyped
  <2>3. AllWellFormed(s, p) /\ AllWellFormed(t, p) BY <2>2, TupleTyped
  <2> HIDE DEF s, t
  <2>4. AllWellFormed(s \o t, p) BY <2>3, JoinTyped
  <2>5. PageTyped' BY <2>1, <2>4, MountTyped DEF AllPages
  <2> QED BY <2>1, <2>5 DEF FormsTypeOK
<1>2. CASE LeaveForm \/ \E i \in DOMAIN net : Saved(i)
  <2>1. FormsTypeOK' BY <1>2 DEF LeaveForm, Saved, CloseForm, FormsTypeOK, Blank, Origins
  <2>2. PICK left \in Nat : Unmount(left)
    <3>1. CASE LeaveForm BY <3>1, LeftTyped DEF LeaveForm, PageTyped
    <3>2. CASE \E i \in DOMAIN net : Saved(i) BY <3>2 DEF Saved, PageTyped
    <3> QED BY <1>2, <3>1, <3>2
  <2> QED BY <2>1, <2>2, UnmountTyped
<1>3. ASSUME NEW f \in Fields, Type(f) PROVE PageTyped' /\ FormsTypeOK'
  BY <1>3 DEF Type, PageTyped, FormsTypeOK, pageVars, Origins
<1>4. CASE Submit
  <2>1. WellFormed(Request("save", Body), page) BY RequestTyped
  <2>2. AllWellFormed(net', page) BY <1>4, <2>1, AppendTyped DEF Submit, PageTyped
  <2> QED BY <1>4, <2>2 DEF Submit, PageTyped, FormsTypeOK, formVars
<1>5. ASSUME NEW i \in DOMAIN net, OptionsCame(i) \/ LoadCame(i) \/ SaveFailed(i)
      PROVE PageTyped' /\ FormsTypeOK'
  <2>1. AllWellFormed(net', page)
    BY <1>5, WithoutTyped DEF OptionsCame, LoadCame, SaveFailed, PageTyped
  <2>2. PageTyped' BY <1>5, <2>1 DEF OptionsCame, LoadCame, SaveFailed, PageTyped
  <2> QED BY <1>5, <2>2 DEF OptionsCame, LoadCame, SaveFailed, FormsTypeOK, formVars, Origins
<1> QED BY <1>1, <1>2, <1>3, <1>4, <1>5 DEF FormsNext, FormAnswer

-----------------------------------------------------------------------------

\* The server answers a query with rows and a number of pages.
LEMMA QueriesTyped ==
  ASSUME ListsTyped, NEW q \in Queries
  PROVE  RowsOf(q) \subseteq Items /\ PagesOf(q) \in Nat
<1>1. Through(q) \subseteq Items BY DEF Through, ListsTyped, ListsTypeOK
<1>2. IsFiniteSet(Items) /\ PerPage \in Nat \ {0} BY ListAssumption
<1>3. Cardinality(Through(q)) \in Nat BY <1>1, <1>2, FS_Subset, FS_CardinalityType
<1>4. PagesOf(q) \in Nat BY <1>2, <1>3 DEF PagesOf
<1>5. RowsOf(q) \subseteq Items BY <1>1 DEF RowsOf, ListsTyped, ListsTypeOK
<1> QED BY <1>4, <1>5

\* The answers there are.
LEMMA AnswersTyped ==
  /\ Done \in Replies /\ Failure \in Replies
  /\ \A R \in SUBSET Items, n \in Nat : Answer(TRUE, R, n) \in Replies
BY DEF Done, Failure, Answer, Replies

\* Loading the rows.
LEMMA LoadTyped ==
  ASSUME page \in ListPages, page' = page, NEW s, AllWellFormed(s, page), NEW q \in Queries,
         net' = s \o Requests(This.load, q)
  PROVE  AllWellFormed(net', page')
<1>1. This.load = <<"rows">> BY ComponentFacts DEF This
<1>2. Requests(<<"rows">>, q) = <<Request("rows", q)>> BY RequestsFacts
<1>3. AllWellFormed(<<Request("rows", q)>>, page) BY RequestTyped, TupleTyped
<1> QED BY <1>1, <1>2, <1>3, JoinTyped

\* The server keeps the types.
LEMMA ServeTyped ==
  ASSUME PageTyped, ListsTyped, NEW i \in DOMAIN net, Serve(i)
  PROVE  PageTyped' /\ ListsTyped'
<1>1. PICK reply :
        /\ net' = [net EXCEPT ![i] = [op |-> net[i].op, arg |-> net[i].arg, got |-> reply,
                                       old |-> net[i].old]]
        /\ \/ reply \in {Done, Failure}
           \/ /\ net[i].op = "rows"
              /\ reply = Answer(TRUE, RowsOf(net[i].arg), PagesOf(net[i].arg))
  BY DEF Serve, Reply
<1>2. WellFormed(net[i], page) /\ IsSeq(net) BY DEF PageTyped, AllWellFormed
<1>3. reply \in Replies
  <2>1. CASE reply \in {Done, Failure} BY <2>1, AnswersTyped
  <2>2. CASE /\ net[i].op = "rows"
             /\ reply = Answer(TRUE, RowsOf(net[i].arg), PagesOf(net[i].arg))
    BY <1>2, <2>2, QueriesTyped, AnswersTyped DEF WellFormed
  <2> QED BY <1>1, <2>1, <2>2
<1>4. /\ DOMAIN net' = DOMAIN net
      /\ \A k \in DOMAIN net : k # i => net'[k] = net[k]
      /\ net'[i] = [op |-> net[i].op, arg |-> net[i].arg, got |-> reply, old |-> net[i].old]
  BY <1>1
<1>5. WellFormed(net'[i], page) BY <1>2, <1>3, <1>4 DEF WellFormed
<1>6. \A k \in DOMAIN net' : WellFormed(net'[k], page)
  BY <1>4, <1>5 DEF PageTyped, AllWellFormed
<1>7. IsSeq(net')
  <2>1. Len(net) \in Nat /\ DOMAIN net = 1 .. Len(net) BY <1>2, SeqFacts
  <2>2. net' = [k \in 1 .. Len(net) |-> net'[k]] BY <1>1, <2>1
  <2> QED BY <2>1, <2>2 DEF IsSeq
<1>8. UNCHANGED <<page, orphans, isLoading, isSubmitting, warned, tardy, dialog, rows, asked,
                  answered, known>>
  BY DEF Serve
<1>9. PageTyped' BY <1>6, <1>7, <1>8 DEF PageTyped, AllWellFormed
<1>10. /\ items' \subseteq Items /\ gone' \subseteq Items \ items'
       /\ page # "users" => gone' = {}
  <2>1. CASE UNCHANGED <<items, gone>> BY <2>1 DEF ListsTyped, ListsTypeOK
  <2>2. CASE /\ net[i].arg \in items
             /\ items' = items \ {net[i].arg}
             /\ gone' = gone \cup (IF page = "users" THEN {net[i].arg} ELSE {})
    BY <2>2 DEF ListsTyped, ListsTypeOK
  <2>3. CASE net[i].op = "assign" /\ items' = items \cup {net[i].arg} /\ gone' = gone
    BY <1>2, <2>3 DEF ListsTyped, ListsTypeOK, WellFormed
  <2> QED BY <2>1, <2>2, <2>3 DEF Serve
<1> QED BY <1>8, <1>9, <1>10 DEF ListsTyped, ListsTypeOK

\* The listing pages keep their types.
LEMMA ListsNextTyped ==
  ASSUME PageTyped, ListsTyped, ListsNext
  PROVE  PageTyped' /\ ListsTyped'
<1> USE DEF ListsTyped, ListsTypeOK
<1>0. FirstPage \in Queries BY DEF FirstPage, Queries
<1>1. ASSUME NEW p \in ListPages, OpenList(p) PROVE PageTyped' /\ ListsTyped'
  <2> DEFINE t == Requests(Component[p].open, FirstPage)
  <2>1. \/ t = <<Request("rows", FirstPage)>>
        \/ t = <<Request("rows", FirstPage), Request("roles", FirstPage)>>
    BY ComponentFacts, RequestsFacts
  <2>2. /\ WellFormed(Request("rows", FirstPage), p)
        /\ WellFormed(Request("roles", FirstPage), p)
    BY <1>0, RequestTyped
  <2> HIDE DEF t
  <2>3. AllWellFormed(t, p) BY <2>1, <2>2, TupleTyped
  <2>4. Mount(p, TRUE, t) BY <1>1 DEF OpenList, t
  <2>5. PageTyped' BY <2>3, <2>4, MountTyped DEF AllPages
  <2>6. page' = p BY <2>4 DEF Mount
  <2> QED BY <1>1, <2>5, <2>6 DEF OpenList
<1>2. CASE LeaveList
  <2>1. PageTyped' BY <1>2, UnmountTyped DEF LeaveList, PageTyped
  <2> QED BY <1>0, <1>2, <2>1 DEF LeaveList, ForgetLists
<1>3. CASE (\E x \in Items : ConfirmDelete(x)) \/ CancelDelete
  <2>1. dialog' \in Dialogs BY <1>3, DialogTyped DEF ConfirmDelete, CancelDelete, PageTyped
  <2>2. PageTyped' BY <1>3, <2>1 DEF ConfirmDelete, CancelDelete, PageTyped
  <2> QED BY <1>3, <2>2 DEF ConfirmDelete, CancelDelete, listVars
<1>4. ASSUME NEW x \in Items, AssignRole(x) PROVE PageTyped' /\ ListsTyped'
  <2>1. page = "user" BY <1>4 DEF AssignRole
  <2>2. WellFormed(Request("assign", x), page) BY <2>1, RequestTyped
  <2>3. AllWellFormed(net', page) BY <1>4, <2>2, AppendTyped DEF AssignRole, PageTyped
  <2> QED BY <1>4, <2>3 DEF AssignRole, PageTyped, listVars
<1>5. CASE Delete
  <2>1. WellFormed(Request("delete", dialog.target), page) BY RequestTyped
  <2>2. AllWellFormed(net', page')
    <3>1. AllWellFormed(net, page) /\ page' = page BY <1>5 DEF Delete, PageTyped
    <3>2. net' = net \/ net' = Append(net, Request("delete", dialog.target)) BY <1>5 DEF Delete
    <3> QED BY <2>1, <3>1, <3>2, AppendTyped
  <2>3. dialog' \in Dialogs
    <3>1. HideDialog \/ CloseDialog(dialog.target) BY <1>5 DEF Delete
    <3> QED BY <3>1, DialogTyped DEF PageTyped
  <2>4. warned' \in BOOLEAN BY <1>5 DEF Delete, PageTyped
  <2> QED BY <1>5, <2>2, <2>3, <2>4 DEF Delete, PageTyped, listVars
<1>6. ASSUME NEW q \in Queries, Load(q), asked' = q, page \in ListPages,
             UNCHANGED <<page, orphans, isSubmitting, tardy, dialog, items, gone, rows, answered,
                         known>>
      PROVE  PageTyped' /\ ListsTyped'
  <2>1. AllWellFormed(net', page') BY <1>6, LoadTyped DEF Load, PageTyped
  <2> QED BY <1>6, <2>1 DEF Load, PageTyped
<1>7. ASSUME NEW on \in BOOLEAN, Filter(on) PROVE PageTyped' /\ ListsTyped'
  <2>1. asked' \in Queries BY <1>7 DEF Filter, Queries
  <2> QED BY <1>6, <1>7, <2>1 DEF Filter, Clickable
<1>8. ASSUME NEW n \in 0 .. Cardinality(Items), GoToPage(n) PROVE PageTyped' /\ ListsTyped'
  <2>1. answered.pages \in Nat /\ n \in 1 .. answered.pages BY <1>8 DEF GoToPage
  <2>2. asked' \in Queries BY <1>8, <2>1 DEF GoToPage, Queries
  <2> QED BY <1>6, <1>8, <2>2 DEF GoToPage, Clickable
<1>9. CASE Search
  <2>1. asked' \in Queries BY <1>9 DEF Search, Queries
  <2>2. page \in ListPages BY <1>9 DEF Search, ListPages
  <2> QED BY <1>6, <1>9, <2>1, <2>2 DEF Search
<1>10. ASSUME NEW i \in DOMAIN net, Serve(i) PROVE PageTyped' /\ ListsTyped'
  BY <1>10, ServeTyped
<1>11. ASSUME NEW i \in DOMAIN net, RowsCame(i) PROVE PageTyped' /\ ListsTyped'
  <2>1. page \in ListPages /\ page' = page /\ net[i].op = "rows" /\ net[i].got # None
    BY <1>11 DEF RowsCame, Came
  <2>2. WellFormed(net[i], page) BY DEF PageTyped, AllWellFormed
  <2>3. net[i].got \in Replies /\ net[i].arg \in Queries /\ net[i].old \in BOOLEAN
    BY <2>1, <2>2 DEF WellFormed
  <2>4. AllWellFormed(Without(i), page) BY WithoutTyped DEF PageTyped
  <2>5. AllWellFormed(Requests(This.then, net[i].arg), page)
    <3>1. This.then \in {<<>>, <<"lessons">>} BY <2>1, ComponentFacts DEF This
    <3>2. WellFormed(Request("lessons", net[i].arg), page) BY RequestTyped
    <3>3. AllWellFormed(<<>>, page) /\ AllWellFormed(<<Request("lessons", net[i].arg)>>, page)
      BY <3>2, TupleTyped
    <3> QED BY <3>1, <3>3, RequestsFacts
  <2>6. AllWellFormed(net', page') BY <1>11, <2>1, <2>4, <2>5, JoinTyped DEF RowsCame
  <2>7. isLoading' \in BOOLEAN BY <1>11 DEF RowsCame, Ending
  <2>8. PageTyped' BY <1>11, <2>3, <2>6, <2>7 DEF RowsCame, PageTyped
  <2>9. rows' \subseteq Items /\ answered' \in [query : Queries, pages : Nat]
    BY <1>11, <2>3 DEF RowsCame, Replies
  <2> QED BY <1>11, <2>8, <2>9 DEF RowsCame
<1>12. ASSUME NEW i \in DOMAIN net,
              RowsFailed(i) \/ LessonsCame(i) \/ RolesCame(i) \/ DeleteFailed(i) \/ AssignFailed(i)
       PROVE  PageTyped' /\ ListsTyped'
  <2>1. net' = Without(i) /\ page' = page
    BY <1>12 DEF RowsFailed, LessonsCame, RolesCame, DeleteFailed, AssignFailed
  <2>2. AllWellFormed(net', page') BY <2>1, WithoutTyped DEF PageTyped
  <2>3. isLoading' \in BOOLEAN
    BY <1>12 DEF RowsFailed, LessonsCame, RolesCame, DeleteFailed, AssignFailed, Ending, PageTyped
  <2>6. dialog' \in Dialogs
    BY <1>12, DialogTyped DEF RowsFailed, LessonsCame, RolesCame, DeleteFailed, AssignFailed, PageTyped
  <2>4. PageTyped'
    BY <1>12, <2>2, <2>3, <2>6
       DEF RowsFailed, LessonsCame, RolesCame, DeleteFailed, AssignFailed, PageTyped
  <2>5. known' \in BOOLEAN
    BY <1>12 DEF RowsFailed, LessonsCame, RolesCame, DeleteFailed, AssignFailed, listVars
  <2> QED BY <1>12, <2>4, <2>5
          DEF RowsFailed, LessonsCame, RolesCame, DeleteFailed, AssignFailed, listVars
<1>13. ASSUME NEW i \in DOMAIN net, Deleted(i) \/ Assigned(i) PROVE PageTyped' /\ ListsTyped'
  <2>1. /\ net' = Without(i) \o Requests(This.load, asked) /\ page' = page
        /\ page \in ListPages
    BY <1>13 DEF Deleted, Assigned, Came
  <2>2. AllWellFormed(Without(i), page) BY WithoutTyped DEF PageTyped
  <2>3. AllWellFormed(net', page') BY <2>1, <2>2, LoadTyped
  <2>5. dialog' \in Dialogs BY <1>13, DialogTyped DEF Deleted, Assigned, PageTyped
  <2>4. PageTyped' BY <1>13, <2>3, <2>5 DEF Deleted, Assigned, PageTyped
  <2> QED BY <1>13, <2>4 DEF Deleted, Assigned, listVars
<1> QED BY <1>1, <1>2, <1>3, <1>4, <1>5, <1>7, <1>8, <1>9, <1>10, <1>11, <1>12, <1>13
        DEF ListsNext, ListAnswer

-----------------------------------------------------------------------------

\* The types of the three modals.
EditType ==
  [open : BOOLEAN, id : Tests \cup {None}, origin : Tests \cup {None, "typed"},
   loading : BOOLEAN, saving : BOOLEAN, located : BOOLEAN, mixed : BOOLEAN]
FreshType == [open : BOOLEAN, loading : BOOLEAN, saving : BOOLEAN]
BookType ==
  [open : BOOLEAN, exam : Exams \cup {None}, lesson : Lessons \cup {None},
   chosen : SUBSET (Pairs \cup {None}), offered : Pairs \cup {None},
   fetching : BOOLEAN, loading : BOOLEAN, saving : BOOLEAN, mixed : BOOLEAN]

\* BooksTypeOK in these terms.
LEMMA BooksTypes ==
  BooksTypeOK <=>
    /\ hasBook \in BOOLEAN /\ fetchingTests \in BOOLEAN /\ uses \in 0 .. MaxUses
    /\ bookDialog \in {"closed", "visible", "confirmed"}
    /\ edit \in EditType /\ fresh \in FreshType /\ book \in BookType
BY DEF BooksTypeOK, EditType, FreshType, BookType

\* The edit modal keeps its type.
LEMMA EditTyped ==
  ASSUME PageTyped, edit \in EditType, BooksNext
  PROVE  edit' \in EditType
<1> USE DEF EditType
<1>1. CASE edit' \in {edit, NoEdit}
  <2>1. NoEdit \in EditType BY DEF NoEdit
  <2> QED BY <1>1, <2>1
<1>2. CASE \E x \in Tests : EditTest(x) BY <1>2 DEF EditTest
<1>3. CASE CloseEdit BY <1>3 DEF CloseEdit, ClosedEdit
<1>4. CASE FillEdit BY <1>4 DEF FillEdit
<1>5. CASE SaveTest BY <1>5 DEF SaveTest
<1>6. ASSUME NEW i \in DOMAIN net, TestLoadCame(i) PROVE edit' \in EditType
  <2>1. net[i].arg \in Tests
    BY <1>6 DEF TestLoadCame, BookCame, PageTyped, AllWellFormed, WellFormed
  <2>2. PICK m \in BOOLEAN : m = (~edit.open \/ net[i].arg # edit.id) OBVIOUS
  <2>3. \/ edit' = [edit EXCEPT !.loading = FALSE, !.origin = net[i].arg, !.located = TRUE, !.mixed = m]
        \/ edit' = [edit EXCEPT !.loading = FALSE]
    BY <1>6, <2>2, Zenon DEF TestLoadCame
  <2> QED BY <2>1, <2>2, <2>3
<1>7. ASSUME NEW i \in DOMAIN net, TestSaved(i) \/ TestNotSaved(i) PROVE edit' \in EditType
  BY <1>7 DEF TestSaved, TestNotSaved, ClosedEdit
<1> QED BY <1>1, <1>2, <1>3, <1>4, <1>5, <1>6, <1>7, EditChanges

\* The create modal of a test keeps its type.
LEMMA FreshTyped ==
  ASSUME fresh \in FreshType, BooksNext
  PROVE  fresh' \in FreshType
<1> USE DEF FreshType
<1>1. CASE fresh' \in {fresh, NoFresh}
  <2>1. NoFresh \in FreshType BY DEF NoFresh
  <2> QED BY <1>1, <2>1
<1>2. CASE OpenFresh \/ CloseFresh \/ SaveFresh
  BY <1>2 DEF OpenFresh, CloseFresh, SaveFresh, ClosedFresh
<1>3. ASSUME NEW i \in DOMAIN net, FreshCame(i) \/ FreshSaved(i) PROVE fresh' \in FreshType
  BY <1>3 DEF FreshCame, FreshSaved, ClosedFresh
<1>4. \/ fresh' \in {fresh, NoFresh} \/ OpenFresh \/ CloseFresh \/ SaveFresh
      \/ \E i \in DOMAIN net : FreshCame(i) \/ FreshSaved(i)
  BY DEF BooksNext, OpenAdmin, OpenTestBook, LeaveBooks, ForgetBooks, bookVars, OnBookPage,
     ConfirmDeleteTest, EditTest, CancelDeleteTest, DeleteTest, ConfirmDeleteBook,
     CancelDeleteBook, DeleteBook, CloseEdit, FillEdit, SaveTest, OpenBook, CloseBook,
     ToggleSubject, SaveBook, SelectExam, SelectLesson, BookAnswer, DataCame, CountsCame,
     BookLoaded, TestsCame, TestDeleted, TestNotDeleted, BookDeleted, BookNotDeleted,
     TestLoadCame, TestSaved, TestNotSaved, BookLoadCame, SubjectsCame, BookSaved, BookNotSaved
<1> QED BY <1>1, <1>2, <1>3, <1>4

\* Resetting a form keeps its type.
LEMMA FormTypes ==
  ASSUME NEW b \in BookType
  PROVE  /\ Emptied(b) \in BookType /\ Nulled(b) \in BookType /\ Cleared(b) \in BookType
         /\ ClosedBook(b) \in BookType /\ Selected(b) \in Pairs \cup {None}
<1>1. Emptied(b) \in BookType BY DEF Emptied, BookType
<1>2. Nulled(b) \in BookType
  <2>1. PICK c \in SUBSET (Pairs \cup {None}) : c = IF b.chosen = {} THEN {} ELSE {None} OBVIOUS
  <2>2. Nulled(b) = [Emptied(b) EXCEPT !.chosen = c, !.mixed = FALSE] BY <2>1 DEF Nulled
  <2> QED BY <1>1, <2>2 DEF BookType
<1>3. Cleared(b) \in BookType BY <1>1 DEF Cleared, BookType
<1>4. ClosedBook(b) \in BookType
  <2>1. [Cleared(b) EXCEPT !.open = FALSE] \in BookType BY <1>3 DEF BookType
  <2>2. [Nulled(b) EXCEPT !.open = FALSE] \in BookType BY <1>2 DEF BookType
  <2> QED BY <2>1, <2>2 DEF ClosedBook
<1>5. Selected(b) \in Pairs \cup {None} BY DEF Selected, Pairs, BookType
<1> QED BY <1>1, <1>2, <1>3, <1>4, <1>5

\* The form of a book keeps its type.
LEMMA BookTyped ==
  ASSUME PageTyped, book \in BookType, BooksNext
  PROVE  book' \in BookType
<1>1. CASE book' \in {book, NoBook, [NoBook EXCEPT !.loading = FALSE]}
  <2>1. NoBook \in BookType BY DEF NoBook, BookType
  <2>2. [NoBook EXCEPT !.loading = FALSE] \in BookType BY <2>1 DEF BookType
  <2> QED BY <1>1, <2>1, <2>2
<1>2. CASE OpenBook
  <2>1. Cleared(book) \in BookType BY FormTypes
  <2>2. [Cleared(book) EXCEPT !.open = TRUE, !.loading = FALSE] \in BookType BY <2>1 DEF BookType
  <2>3. [book EXCEPT !.open = TRUE, !.loading = TRUE] \in BookType BY DEF BookType
  <2> QED BY <1>2, <2>2, <2>3 DEF OpenBook
<1>3. CASE CloseBook BY <1>3, FormTypes DEF CloseBook
<1>4. CASE ToggleSubject BY <1>4 DEF ToggleSubject, BookType
<1>5. CASE SaveBook BY <1>5 DEF SaveBook, BookType
<1>6. ASSUME NEW b \in BookType, Reselected(b) PROVE book' \in BookType
  <2>1. PICK f \in BOOLEAN : f = (b.fetching \/ Selected(b) # None) OBVIOUS
  <2>2. PICK o \in Pairs \cup {None} : o = IF Selected(b) # None THEN b.offered ELSE None
    BY DEF BookType
  <2>3. book' = [b EXCEPT !.chosen = {}, !.mixed = FALSE, !.fetching = f, !.offered = o]
    BY <1>6, <2>1, <2>2, Zenon DEF Reselected
  <2>4. [b EXCEPT !.chosen = {}, !.mixed = FALSE, !.fetching = f, !.offered = o] \in BookType
    BY DEF BookType
  <2> QED BY <2>3, <2>4
<1>7. CASE (\E e \in Exams : SelectExam(e)) \/ \E l \in Lessons : SelectLesson(l)
  <2>1. /\ \A e \in Exams : [book EXCEPT !.exam = e] \in BookType
        /\ \A l \in Lessons : [book EXCEPT !.lesson = l] \in BookType
    BY DEF BookType
  <2> QED BY <1>6, <1>7, <2>1 DEF SelectExam, SelectLesson
<1>8. ASSUME NEW i \in DOMAIN net, BookLoadCame(i) PROVE book' \in BookType
  <2>1. PICK m \in BOOLEAN : m = (book.mixed \/ ~(book.chosen \subseteq {None, TheBook})) OBVIOUS
  <2>2. \/ book' = [book EXCEPT !.loading = FALSE, !.fetching = TRUE, !.exam = TheBook[1],
                                !.lesson = TheBook[2], !.mixed = m]
        \/ book' = [book EXCEPT !.loading = FALSE]
    BY <1>8, <2>1, Zenon DEF BookLoadCame
  <2>3. TheBook[1] \in Exams /\ TheBook[2] \in Lessons BY BookAssumption
  <2> QED BY <2>1, <2>2, <2>3 DEF BookType
<1>9. ASSUME NEW i \in DOMAIN net, SubjectsCame(i) PROVE book' \in BookType
  <2> DEFINE ask == net[i].arg
             other == ask.pair # Selected(book)
  <2>1. ask \in [pair : Pairs, select : BOOLEAN]
    BY <1>9 DEF SubjectsCame, BookCame, PageTyped, AllWellFormed, WellFormed
  <2>2. PICK m \in BOOLEAN : m = (book.mixed \/ other) OBVIOUS
  <2>3. PICK c \in SUBSET (Pairs \cup {None}) :
          c = IF ask.select THEN book.chosen \cup {ask.pair} ELSE book.chosen
    BY <2>1 DEF BookType
  <2>4. \/ book' = [book EXCEPT !.fetching = FALSE, !.offered = ask.pair, !.chosen = c, !.mixed = m]
        \/ book' = [book EXCEPT !.fetching = FALSE, !.offered = None]
    BY <1>9, <2>2, <2>3, Zenon DEF SubjectsCame
  <2> QED BY <2>1, <2>2, <2>3, <2>4 DEF BookType
<1>10. ASSUME NEW i \in DOMAIN net, BookSaved(i) \/ BookNotSaved(i) PROVE book' \in BookType
  <2>1. [book EXCEPT !.saving = FALSE] \in BookType BY DEF BookType
  <2> QED BY <1>10, <2>1, FormTypes DEF BookSaved, BookNotSaved
<1> QED BY <1>1, <1>2, <1>3, <1>4, <1>5, <1>7, <1>8, <1>9, <1>10, FormChanges

\* The requests of the pages of books carry nothing, a test or a question.
LEMMA BookRequests ==
  ASSUME NEW p
  PROVE  /\ \A op \in {"data", "counts", "book", "tests", "delete", "deleteBook", "testSave",
                       "freshBook", "freshSave", "bookLoad", "bookSave"} : \A a :
              WellFormed(Request(op, a), p) /\ AllWellFormed(<<Request(op, a)>>, p)
         /\ \A x \in Tests : WellFormed(Request("testLoad", x), p)
         /\ \A q \in Pairs, t \in BOOLEAN :
              /\ WellFormed(SubjectsRequest(q, t), p)
              /\ AllWellFormed(<<SubjectsRequest(q, t)>>, p)
         /\ AllWellFormed(<<Request("book", None), Request("tests", None)>>, p)
         /\ AllWellFormed(<<>>, p)
<1>1. \A op \in {"data", "counts", "book", "tests", "delete", "deleteBook", "testSave",
                 "freshBook", "freshSave", "bookLoad", "bookSave"} : \A a :
        WellFormed(Request(op, a), p)
  BY RequestTyped
<1>2. \A x \in Tests : WellFormed(Request("testLoad", x), p) BY RequestTyped
<1>3. \A q \in Pairs, t \in BOOLEAN : WellFormed(SubjectsRequest(q, t), p)
  BY RequestTyped DEF SubjectsRequest
<1> QED BY <1>1, <1>2, <1>3, TupleTyped

\* The answers to the pages of books keep the type of the page.
LEMMA BookAnswersTyped ==
  ASSUME PageTyped, book \in BookType, NEW i \in DOMAIN net, BookAnswer(i)
  PROVE  PageTyped'
<1>1. AllWellFormed(Without(i), page) BY WithoutTyped DEF PageTyped
<1>2. ASSUME NEW t, AllWellFormed(t, page), net' = Without(i) \/ net' = Without(i) \o t, page' = page
      PROVE  AllWellFormed(net', page')
  BY <1>1, <1>2, JoinTyped
<1>3. TheBook \in Pairs BY BookAssumption DEF Pairs
<1>4. CASE BookDeleted(i) BY <1>4, UnmountTyped DEF BookDeleted, PageTyped
<1>5. ASSUME ~BookDeleted(i) PROVE AllWellFormed(net', page')
  <2>1. page' = page
    BY <1>5 DEF BookAnswer, DataCame, CountsCame, BookLoaded, TestsCame, TestDeleted,
       TestNotDeleted, BookNotDeleted, TestLoadCame, TestSaved, TestNotSaved, FreshCame,
       FreshSaved, BookLoadCame, SubjectsCame, BookSaved, BookNotSaved, ownButNet
  <2>2. \E t : AllWellFormed(t, page) /\ (net' = Without(i) \/ net' = Without(i) \o t)
    BY <1>3, <1>5, BookRequests
       DEF BookAnswer, DataCame, CountsCame, BookLoaded, TestsCame, TestDeleted,
       TestNotDeleted, BookNotDeleted, TestLoadCame, TestSaved, TestNotSaved, FreshCame,
       FreshSaved, BookLoadCame, SubjectsCame, BookSaved, BookNotSaved
  <2> QED BY <1>2, <2>1, <2>2
<1>6. ASSUME ~BookDeleted(i) PROVE dialog' \in Dialogs
  BY <1>6, DialogTyped
     DEF BookAnswer, DataCame, CountsCame, BookLoaded, TestsCame, TestDeleted,
     TestNotDeleted, BookNotDeleted, TestLoadCame, TestSaved, TestNotSaved, FreshCame,
     FreshSaved, BookLoadCame, SubjectsCame, BookSaved, BookNotSaved, ownButNet, PageTyped
<1>7. ASSUME ~BookDeleted(i)
      PROVE  /\ UNCHANGED <<page, orphans, isSubmitting, tardy>>
             /\ isLoading' \in {isLoading, TRUE, FALSE} /\ warned' \in {warned, TRUE, FALSE}
  BY <1>7
     DEF BookAnswer, DataCame, CountsCame, BookLoaded, TestsCame, TestDeleted,
     TestNotDeleted, BookNotDeleted, TestLoadCame, TestSaved, TestNotSaved, FreshCame,
     FreshSaved, BookLoadCame, SubjectsCame, BookSaved, BookNotSaved, ownButNet
<1>8. ASSUME ~BookDeleted(i) PROVE PageTyped' BY <1>5, <1>6, <1>7, <1>8 DEF PageTyped
<1> QED BY <1>4, <1>8

\* Every step of these pages does.
LEMMA BookPageTyped ==
  ASSUME PageTyped, book \in BookType, BooksNext
  PROVE  PageTyped'
<1>1. CASE OpenAdmin \/ OpenTestBook
  <2>1. \E p \in AllPages, op \in {"data", "book"} : Mount(p, TRUE, <<Request(op, None)>>)
    BY <1>1 DEF OpenAdmin, OpenTestBook, AllPages, BookPages
  <2> QED BY <2>1, BookRequests, MountTyped
<1>2. CASE LeaveBooks
  <2>1. orphans + LeftBehind("deleteBook") \in Nat BY LeftTyped DEF PageTyped
  <2> QED BY <1>2, <2>1, UnmountTyped DEF LeaveBooks
<1>3. ASSUME UNCHANGED <<page, orphans, isLoading, isSubmitting, warned, tardy>>,
             net' = net \/ (\E r : net' = Append(net, r) /\ WellFormed(r, page)), dialog' \in Dialogs
      PROVE  PageTyped'
  <2>1. AllWellFormed(net', page') BY <1>3, AppendTyped DEF PageTyped
  <2> QED BY <1>3, <2>1 DEF PageTyped
<1>4. CASE \E x \in Tests : ConfirmDeleteTest(x)
  <2>1. dialog' \in Dialogs BY <1>4, DialogTyped DEF ConfirmDeleteTest, PageTyped
  <2> QED BY <1>3, <1>4, <2>1 DEF ConfirmDeleteTest
<1>5. CASE CancelDeleteTest \/ DeleteTest
  <2>1. dialog' \in Dialogs BY <1>5, DialogTyped DEF CancelDeleteTest, DeleteTest, PageTyped
  <2> QED BY <1>3, <1>5, <2>1, BookRequests DEF CancelDeleteTest, DeleteTest
<1>6. CASE \/ ConfirmDeleteBook \/ CancelDeleteBook \/ CloseEdit \/ FillEdit \/ CloseFresh
           \/ CloseBook \/ ToggleSubject
  BY <1>3, <1>6 DEF ConfirmDeleteBook, CancelDeleteBook, CloseEdit, FillEdit, CloseFresh,
     CloseBook, ToggleSubject, pageVars, PageTyped
<1>7. CASE DeleteBook \/ SaveTest \/ OpenFresh \/ SaveFresh \/ SaveBook \/ OpenBook
  <2>1. UNCHANGED <<page, orphans, isLoading, isSubmitting, warned, tardy, dialog>>
    BY <1>7 DEF DeleteBook, SaveTest, OpenFresh, SaveFresh, SaveBook, OpenBook, ownButNet
  <2>2. \/ net' = net
        \/ \E op \in {"deleteBook", "testSave", "freshBook", "freshSave", "bookLoad", "bookSave"} :
             net' = Append(net, Request(op, None))
    BY <1>7 DEF DeleteBook, SaveTest, OpenFresh, SaveFresh, SaveBook, OpenBook
  <2> QED BY <1>3, <2>1, <2>2, BookRequests DEF PageTyped
<1>8. CASE \E x \in Tests : EditTest(x)
  BY <1>3, <1>8, BookRequests DEF EditTest, ownButNet, PageTyped
<1>9. CASE (\E e \in Exams : SelectExam(e)) \/ \E l \in Lessons : SelectLesson(l)
  <2>1. /\ \A e \in Exams : [book EXCEPT !.exam = e] \in BookType
        /\ \A l \in Lessons : [book EXCEPT !.lesson = l] \in BookType
    BY DEF BookType
  <2>2. /\ UNCHANGED <<page, orphans, isLoading, isSubmitting, warned, tardy, dialog>>
        /\ \E b \in BookType : Reselected(b)
    BY <1>9, <2>1 DEF SelectExam, SelectLesson, ownButNet
  <2>3. PICK b \in BookType : Reselected(b) BY <2>2
  <2>4. Selected(b) \in Pairs \cup {None} BY FormTypes
  <2>5. net' = net \/ \E q \in Pairs : net' = Append(net, SubjectsRequest(q, FALSE))
    BY <2>3, <2>4 DEF Reselected
  <2> QED BY <1>3, <2>2, <2>5, BookRequests DEF PageTyped
<1>10. CASE \E i \in DOMAIN net : BookAnswer(i) BY <1>10, BookAnswersTyped
<1> QED BY <1>1, <1>2, <1>4, <1>5, <1>6, <1>7, <1>8, <1>9, <1>10 DEF BooksNext, OnBookPage

\* The pages of books keep their types.
LEMMA BooksTyped ==
  ASSUME PageTyped, BooksTypeOK, BooksNext
  PROVE  PageTyped' /\ BooksTypeOK'
<1>1. /\ hasBook \in BOOLEAN /\ fetchingTests \in BOOLEAN /\ uses \in 0 .. MaxUses
      /\ bookDialog \in {"closed", "visible", "confirmed"}
      /\ edit \in EditType /\ fresh \in FreshType /\ book \in BookType
  BY BooksTypes
<1>2. PageTyped' /\ edit' \in EditType /\ fresh' \in FreshType /\ book' \in BookType
  BY <1>1, BookPageTyped, EditTyped, FreshTyped, BookTyped
<1>3. /\ hasBook' \in {hasBook, TRUE, FALSE}
      /\ bookDialog' \in {bookDialog, "closed", "visible", "confirmed"}
  BY DEF BooksNext, OpenAdmin, OpenTestBook, LeaveBooks, ForgetBooks, bookVars, OnBookPage,
     ConfirmDeleteTest, EditTest, CancelDeleteTest, DeleteTest, ConfirmDeleteBook,
     CancelDeleteBook, DeleteBook, CloseEdit, FillEdit, SaveTest, OpenFresh, CloseFresh,
     SaveFresh, OpenBook, CloseBook, ToggleSubject, SaveBook, SelectExam, SelectLesson,
     BookAnswer, DataCame, CountsCame, BookLoaded, TestsCame, TestDeleted, TestNotDeleted,
     BookDeleted, BookNotDeleted, TestLoadCame, TestSaved, TestNotSaved, FreshCame, FreshSaved,
     BookLoadCame, SubjectsCame, BookSaved, BookNotSaved
<1>4. fetchingTests' \in {fetchingTests, TRUE, FALSE}
  BY <1>1 DEF BooksNext, OpenAdmin, OpenTestBook, LeaveBooks, ForgetBooks, bookVars, OnBookPage,
     ConfirmDeleteTest, EditTest, CancelDeleteTest, DeleteTest, ConfirmDeleteBook,
     CancelDeleteBook, DeleteBook, CloseEdit, FillEdit, SaveTest, OpenFresh, CloseFresh,
     SaveFresh, OpenBook, CloseBook, ToggleSubject, SaveBook, SelectExam, SelectLesson,
     BookAnswer, DataCame, CountsCame, BookLoaded, TestsCame, TestDeleted, TestNotDeleted,
     BookDeleted, BookNotDeleted, TestLoadCame, TestSaved, TestNotSaved, FreshCame, FreshSaved,
     BookLoadCame, SubjectsCame, BookSaved, BookNotSaved
<1>5. uses' \in {uses, 0} \/ Use
  BY DEF BooksNext, OpenAdmin, OpenTestBook, LeaveBooks, ForgetBooks, bookVars, OnBookPage,
     ConfirmDeleteTest, EditTest, CancelDeleteTest, DeleteTest, ConfirmDeleteBook,
     CancelDeleteBook, DeleteBook, CloseEdit, FillEdit, SaveTest, OpenFresh, CloseFresh,
     SaveFresh, OpenBook, CloseBook, ToggleSubject, SaveBook, SelectExam, SelectLesson,
     BookAnswer, DataCame, CountsCame, BookLoaded, TestsCame, TestDeleted, TestNotDeleted,
     BookDeleted, BookNotDeleted, TestLoadCame, TestSaved, TestNotSaved, FreshCame, FreshSaved,
     BookLoadCame, SubjectsCame, BookSaved, BookNotSaved
<1>6. uses' \in 0 .. MaxUses BY <1>1, <1>5, BookAssumption DEF Use
<1> QED BY <1>1, <1>2, <1>3, <1>4, <1>6 DEF BooksTypeOK, EditType, FreshType, BookType

-----------------------------------------------------------------------------

\* The type of the result modal.
ModalType ==
  [id : Results \cup {None}, open : BOOLEAN, loading : BOOLEAN, warned : BOOLEAN,
   tardy : BOOLEAN, result : Results \cup {None}, key : Results \cup {None}]

\* The requests of the student's pages.
LEMMA StudentRequests ==
  ASSUME NEW p
  PROVE  /\ AllWellFormed(<<>>, p)
         /\ \A q \in Selections :
              /\ WellFormed(Request("shown", q), p)
              /\ AllWellFormed(<<Request("options", None), Request("shown", q)>>, p)
         /\ \A r \in Results : WellFormed(Request("modalResult", r), p)
                            /\ WellFormed(Request("modalKey", r), p)
         /\ WellFormed(Request("solve", None), p)
         /\ p \in Readers =>
              \A k \in DOMAIN Reader[p].loads :
                /\ WellFormed(Request(Reader[p].loads[k], None), p)
                /\ AllWellFormed(<<Request(Reader[p].loads[k], None)>>, p)
<1>1. \A q \in Selections : WellFormed(Request("shown", q), p) BY RequestTyped
<1>2. WellFormed(Request("options", None), p) /\ WellFormed(Request("solve", None), p)
  BY RequestTyped
<1>3. \A r \in Results : WellFormed(Request("modalResult", r), p)
                     /\ WellFormed(Request("modalKey", r), p)
  BY RequestTyped
<1>4. ASSUME p \in Readers, NEW k \in DOMAIN Reader[p].loads
      PROVE  WellFormed(Request(Reader[p].loads[k], None), p)
  <2> DEFINE l == Reader[p].loads
  <2>1. \/ l = <<"books", "tests">> \/ l = <<"results", "tests", "subjects">>
        \/ l = <<"result", "test">> \/ l = <<"test">>
    BY <1>4 DEF Reader, Readers, BookDetail, ResultsList, ResultDetail, TestSolver
  <2> HIDE DEF l
  <2>2. \A j \in DOMAIN l : l[j] \in {"books", "tests", "results", "subjects", "result", "test"}
    BY <2>1
  <2>3. p \notin BookPages BY <1>4, PageNames DEF StudentPageNames
  <2>4. \A op \in {"books", "tests", "results", "subjects", "result", "test"} :
          WellFormed(Request(op, None), p)
    BY <2>3, RequestTyped
  <2> QED BY <1>4, <2>2, <2>4 DEF l
<1> QED BY <1>1, <1>2, <1>3, <1>4, TupleTyped

\* The result modal keeps its type.
LEMMA ModalTyped ==
  ASSUME PageTyped, modal \in ModalType, StudentNext
  PROVE  modal' \in ModalType
<1>1. CASE modal' \in {modal, NoModal}
  <2>1. NoModal \in ModalType BY DEF NoModal, ModalType
  <2> QED BY <1>1, <2>1
<1>2. CASE \E r \in Results : OpenResultModal(r) BY <1>2 DEF OpenResultModal, ModalType
<1>3. CASE CloseResultModal BY <1>3 DEF CloseResultModal, ModalType
<1>4. ASSUME NEW i \in DOMAIN net, ModalResultCame(i) PROVE modal' \in ModalType
  <2>1. net[i].arg \in Results /\ net[i].old \in BOOLEAN
    BY <1>4 DEF ModalResultCame, StudentCame, PageTyped, AllWellFormed, WellFormed
  <2>2. PICK t \in BOOLEAN : t = (modal.tardy \/ net[i].old) OBVIOUS
  <2>3. modal' = [modal EXCEPT !.result = net[i].arg, !.tardy = t] \/ modal' = Failed(modal)
    BY <1>4, <2>2, Zenon DEF ModalResultCame
  <2> QED BY <2>1, <2>2, <2>3 DEF ModalType, Failed
<1>5. ASSUME NEW i \in DOMAIN net, ModalKeyCame(i) PROVE modal' \in ModalType
  <2>1. net[i].arg \in Results /\ net[i].old \in BOOLEAN
    BY <1>5 DEF ModalKeyCame, StudentCame, PageTyped, AllWellFormed, WellFormed
  <2>2. PICK t \in BOOLEAN : t = (modal.tardy \/ net[i].old) OBVIOUS
  <2>3. \/ modal' = [modal EXCEPT !.key = net[i].arg, !.loading = FALSE, !.tardy = t]
        \/ modal' = Failed(modal)
    BY <1>5, <2>2, Zenon DEF ModalKeyCame
  <2> QED BY <2>1, <2>2, <2>3 DEF ModalType, Failed
<1>6. \/ modal' \in {modal, NoModal} \/ CloseResultModal \/ \E r \in Results : OpenResultModal(r)
      \/ \E i \in DOMAIN net : ModalResultCame(i) \/ ModalKeyCame(i)
  BY DEF StudentNext, OpenReader, OpenDashboard, OpenAndRedirect, LeaveStudent, ResetStudent,
     SelectExamType, SelectLessonOf, SearchBooks, ClearAllFilters, LoadBooks, SubmitTest,
     StudentAnswer, ChoicesCame, BooksCame, PartCame, Solved, studentVars
<1> QED BY <1>1, <1>2, <1>3, <1>4, <1>5, <1>6

\* The student's pages keep their types.
LEMMA StudentTyped ==
  ASSUME PageTyped, StudentTypeOK, StudentNext
  PROVE  PageTyped' /\ StudentTypeOK'
<1> DEFINE RestTyped ==
      /\ query \in Selections /\ shown \in Selections \cup {None}
      /\ choices \subseteq {"exam", "lesson"}
      /\ filtersStuck \in BOOLEAN /\ redirected \in BOOLEAN /\ loaded \in BOOLEAN
<1>0. RestTyped /\ modal \in ModalType BY DEF StudentTypeOK, ModalType
<1>1. modal' \in ModalType BY <1>0, ModalTyped
<1>2. ASSUME PageTyped', RestTyped' PROVE PageTyped' /\ StudentTypeOK'
  BY <1>1, <1>2 DEF StudentTypeOK, ModalType
<1>3. CASE \E p \in Readers : OpenReader(p)
  <2>1. PICK p \in Readers : OpenReader(p) BY <1>3
  <2>2. 1 \in DOMAIN Reader[p].loads /\ p \in AllPages
    BY DEF Reader, Readers, BookDetail, ResultsList, ResultDetail, TestSolver, AllPages,
       StudentPageNames
  <2>3. PageTyped' BY <2>1, <2>2, StudentRequests, MountTyped DEF OpenReader
  <2>4. RestTyped' BY <1>0, <2>1 DEF OpenReader, studentVars
  <2> QED BY <1>2, <2>3, <2>4
<1>4. CASE OpenDashboard
  <2>1. PageTyped' BY <1>0, <1>4, StudentRequests, MountTyped DEF OpenDashboard, AllPages, StudentPageNames
  <2>2. RestTyped' BY <1>0, <1>4 DEF OpenDashboard, studentVars
  <2> QED BY <1>2, <2>1, <2>2
<1>5. ASSUME NEW p \in {"dashboard", "test-result"}, OpenAndRedirect(p) PROVE PageTyped' /\ StudentTypeOK'
  <2>1. PageTyped' BY <1>5, StudentRequests, MountTyped DEF OpenAndRedirect, AllPages, StudentPageNames
  <2>2. RestTyped' BY <1>0, <1>5 DEF OpenAndRedirect
  <2> QED BY <1>2, <2>1, <2>2
<1>6. ASSUME Unmount(orphans), ResetStudent PROVE PageTyped' /\ StudentTypeOK'
  <2>1. PageTyped' BY <1>6, UnmountTyped DEF PageTyped
  <2>2. RestTyped' BY <1>6 DEF ResetStudent, Unfiltered, Selections
  <2> QED BY <1>2, <2>1, <2>2
<1>7. ASSUME NEW q \in Selections, LoadBooks(q) PROVE PageTyped'
  <2>1. AllWellFormed(net', page') BY <1>7, StudentRequests, AppendTyped DEF LoadBooks, PageTyped
  <2> QED BY <1>7, <2>1 DEF LoadBooks, PageTyped
<1>8. CASE ClearAllFilters
  <2>1. query' \in Selections BY <1>8 DEF ClearAllFilters, Unfiltered, Selections
  <2>2. PageTyped' BY <1>7, <1>8, <2>1 DEF ClearAllFilters
  <2>3. filtersStuck' \in BOOLEAN BY <1>0, <1>8 DEF ClearAllFilters
  <2>4. RestTyped' BY <1>0, <1>8, <2>1, <2>3 DEF ClearAllFilters, LoadBooks
  <2> QED BY <1>2, <2>2, <2>4
<1>9. ASSUME NEW on \in BOOLEAN, SelectExamType(on) \/ SelectLessonOf(on) \/ SearchBooks(on)
      PROVE  PageTyped' /\ StudentTypeOK'
  <2>1. query' \in Selections
    <3>1. query.exam \in BOOLEAN /\ query.lesson \in BOOLEAN /\ query.search \in BOOLEAN
      BY <1>0 DEF Selections
    <3>2. /\ WithExam(on) \in Selections /\ WithLesson(on) \in Selections
          /\ WithSearch(on) \in Selections
      BY <1>9, <3>1 DEF WithExam, WithLesson, WithSearch, Selections
    <3> QED BY <1>9, <3>2 DEF SelectExamType, SelectLessonOf, SearchBooks
  <2>2. LoadBooks(query') /\ choices' = choices
    BY <1>9 DEF SelectExamType, SelectLessonOf, SearchBooks
  <2>3. filtersStuck' \in BOOLEAN BY <1>0, <1>9 DEF SelectExamType, SelectLessonOf, SearchBooks
  <2>4. RestTyped' BY <1>0, <2>1, <2>2, <2>3 DEF LoadBooks
  <2> QED BY <1>2, <1>7, <2>1, <2>2, <2>4
<1>10. CASE SubmitTest
  <2>1. AllWellFormed(net', page')
    BY <1>10, StudentRequests, AppendTyped DEF SubmitTest, PageTyped
  <2>2. PageTyped' BY <1>10, <2>1 DEF SubmitTest, PageTyped
  <2>3. RestTyped' BY <1>0, <1>10 DEF SubmitTest, studentVars
  <2> QED BY <1>2, <2>2, <2>3
<1>11. ASSUME NEW r \in Results, OpenResultModal(r) PROVE PageTyped' /\ StudentTypeOK'
  <2>1. AllWellFormed(net', page')
    BY <1>11, StudentRequests, AppendTyped DEF OpenResultModal, PageTyped
  <2>2. PageTyped' BY <1>11, <2>1 DEF OpenResultModal, PageTyped
  <2>3. RestTyped' BY <1>0, <1>11 DEF OpenResultModal, dashboardVars
  <2> QED BY <1>2, <2>2, <2>3
<1>12. CASE CloseResultModal
  <2>1. PageTyped' /\ RestTyped'
    BY <1>0, <1>12 DEF CloseResultModal, pageVars, dashboardVars, PageTyped
  <2> QED BY <1>2, <2>1
<1>13. ASSUME NEW i \in DOMAIN net, StudentAnswer(i)
       PROVE  PageTyped' /\ StudentTypeOK'
  <2>1. AllWellFormed(Without(i), page) BY WithoutTyped DEF PageTyped
  <2>2. WellFormed(net[i], page) BY DEF PageTyped, AllWellFormed
  <2>3. \/ net' = Without(i)
        \/ \E r : WellFormed(r, page) /\ net' = Append(Without(i), r)
    <3>1. CASE PartCame(i)
      <4>1. CASE \E k : /\ k < Len(Reader[page].loads) /\ page \in Readers
                       /\ k = Position(net[i].op)
                       /\ \E j \in DOMAIN Reader[page].loads : Reader[page].loads[j] = net[i].op
                       /\ net' = Append(Without(i), Request(Reader[page].loads[k + 1], None))
        <5> PICK k : /\ k < Len(Reader[page].loads) /\ page \in Readers
                     /\ k = Position(net[i].op)
                     /\ \E j \in DOMAIN Reader[page].loads : Reader[page].loads[j] = net[i].op
                     /\ net' = Append(Without(i), Request(Reader[page].loads[k + 1], None))
          BY <4>1
        <5>1. k \in DOMAIN Reader[page].loads BY DEF Position
        <5>2. k + 1 \in DOMAIN Reader[page].loads
          BY <5>1 DEF Reader, Readers, BookDetail, ResultsList, ResultDetail, TestSolver
        <5> QED BY <5>2, StudentRequests
      <4> QED BY <3>1, <4>1 DEF PartCame
    <3>2. CASE ChoicesCame(i) \/ BooksCame(i) \/ ModalKeyCame(i)
      BY <3>2 DEF ChoicesCame, BooksCame, ModalKeyCame
    <3>3. CASE Solved(i) BY <3>3 DEF Solved
    <3>4. CASE ModalResultCame(i)
      <4>1. net[i].arg \in Results BY <2>2, <3>4 DEF ModalResultCame, StudentCame, WellFormed
      <4> QED BY <3>4, <4>1, StudentRequests DEF ModalResultCame
    <3> QED BY <1>13, <3>1, <3>2, <3>3, <3>4 DEF StudentAnswer
  <2>4. /\ isLoading' \in {isLoading, FALSE} /\ isSubmitting' \in {isSubmitting, FALSE}
        /\ UNCHANGED <<page, orphans, dialog>>
    BY <1>13 DEF StudentAnswer, ChoicesCame, BooksCame, PartCame, Solved, ModalResultCame,
       ModalKeyCame, InModal
  <2>5. AllWellFormed(net', page') BY <2>1, <2>3, <2>4, AppendTyped
  <2>6. warned' \in BOOLEAN
    <3>1. warned \in BOOLEAN BY DEF PageTyped
    <3>2. CASE ChoicesCame(i) BY <3>2 DEF ChoicesCame
    <3>3. CASE BooksCame(i) BY <3>1, <3>3 DEF BooksCame
    <3>4. CASE PartCame(i) BY <3>1, <3>4 DEF PartCame
    <3>5. CASE Solved(i) BY <3>1, <3>5 DEF Solved
    <3>6. CASE ModalResultCame(i) \/ ModalKeyCame(i)
      BY <3>1, <3>6 DEF ModalResultCame, ModalKeyCame, InModal
    <3> QED BY <1>13, <3>2, <3>3, <3>4, <3>5, <3>6 DEF StudentAnswer
  <2>7. tardy' \in BOOLEAN
    <3>1. tardy \in BOOLEAN /\ net[i].old \in BOOLEAN BY <2>2 DEF PageTyped, WellFormed
    <3> QED BY <1>13, <3>1 DEF StudentAnswer, ChoicesCame, BooksCame, PartCame, Solved,
          ModalResultCame, ModalKeyCame, InModal
  <2>8. PageTyped' BY <1>13, <2>4, <2>5, <2>6, <2>7 DEF PageTyped
  <2>9. RestTyped'
    <3>1. CASE BooksCame(i)
      <4>1. net[i].arg \in Selections BY <2>2, <3>1 DEF BooksCame, StudentCame, WellFormed
      <4> QED BY <1>0, <3>1, <4>1 DEF BooksCame
    <3>2. CASE ChoicesCame(i) BY <1>0, <3>2 DEF ChoicesCame
    <3>3. CASE PartCame(i) BY <1>0, <3>3 DEF PartCame, dashboardVars
    <3>4. CASE Solved(i) BY <1>0, <3>4 DEF Solved
    <3>5. CASE ModalResultCame(i) \/ ModalKeyCame(i)
      BY <1>0, <3>5 DEF ModalResultCame, ModalKeyCame, InModal, dashboardVars
    <3> QED BY <1>13, <3>1, <3>2, <3>3, <3>4, <3>5 DEF StudentAnswer
  <2> QED BY <1>2, <2>8, <2>9
<1> QED BY <1>3, <1>4, <1>5, <1>6, <1>8, <1>9, <1>10, <1>11, <1>12, <1>13
        DEF StudentNext, LeaveStudent

-----------------------------------------------------------------------------

\* What MaxPending bounds.
Size == Len(net) + orphans

\* A step that keeps the bound.
Smaller == Size' <= Size \/ Size' <= MaxPending

\* Only the save of a book may find the bound reached and exceed it by one.
SizeInv == Size <= MaxPending + (IF book.saving THEN 0 ELSE 1)

\* How many requests there are after each kind of step.
LEMMA SizeFacts ==
  ASSUME PageTyped
  PROVE  /\ Len(net) \in Nat /\ orphans \in Nat /\ MaxPending \in Nat
         /\ \A r : Len(Append(net, r)) = Len(net) + 1
         /\ \A r : Len(net \o <<r>>) = Len(net) + 1
         /\ \A i \in DOMAIN net :
              /\ IsSeq(Without(i)) /\ Len(Without(i)) = Len(net) - 1
              /\ Len(Without(i) \o <<>>) = Len(net) - 1
              /\ \A r : /\ Len(Append(Without(i), r)) = Len(net)
                        /\ Len(Without(i) \o <<r>>) = Len(net)
              /\ \A q, r : Len(Without(i) \o <<q, r>>) = Len(net) + 1
<1>1. IsSeq(net) /\ orphans \in Nat BY DEF PageTyped, AllWellFormed
<1>2. Len(net) \in Nat BY <1>1, SeqFacts
<1>3. ASSUME NEW s, IsSeq(s)
      PROVE  /\ \A r : Len(Append(s, r)) = Len(s) + 1
             /\ \A r : Len(s \o <<r>>) = Len(s) + 1
             /\ Len(s \o <<>>) = Len(s)
             /\ \A q, r : Len(s \o <<q, r>>) = Len(s) + 2
  <2>1. IsSeq(<<>>) /\ \A q, r : IsSeq(<<r>>) /\ IsSeq(<<q, r>>) BY TupleFacts
  <2>2. Len(<<>>) = 0 /\ \A q, r : Len(<<r>>) = 1 /\ Len(<<q, r>>) = 2 OBVIOUS
  <2>3. Len(s) \in Nat BY <1>3, SeqFacts
  <2>4. \A r : Len(Append(s, r)) = Len(s) + 1 BY <1>3, AppendFacts
  <2>5. \A r : Len(s \o <<r>>) = Len(s) + 1 BY <1>3, <2>1, <2>2, ConcatFacts
  <2>6. Len(s \o <<>>) = Len(s) BY <1>3, AppendOne
  <2>7. \A q, r : Len(s \o <<q, r>>) = Len(s) + 2 BY <1>3, <2>1, <2>2, ConcatFacts
  <2> QED BY <2>4, <2>5, <2>6, <2>7
<1>4. ASSUME NEW i \in DOMAIN net
      PROVE  /\ IsSeq(Without(i)) /\ Len(Without(i)) = Len(net) - 1
             /\ Len(Without(i) \o <<>>) = Len(net) - 1
             /\ \A r : /\ Len(Append(Without(i), r)) = Len(net)
                       /\ Len(Without(i) \o <<r>>) = Len(net)
             /\ \A q, r : Len(Without(i) \o <<q, r>>) = Len(net) + 1
  <2>1. IsSeq(Without(i)) /\ Len(Without(i)) = Len(net) - 1 BY <1>1, WithoutFacts
  <2>2. Len(Without(i) \o <<>>) = Len(net) - 1 BY <1>3, <2>1
  <2>3. \A r : /\ Len(Append(Without(i), r)) = Len(net)
               /\ Len(Without(i) \o <<r>>) = Len(net)
    BY <1>2, <1>3, <2>1
  <2>4. \A q, r : Len(Without(i) \o <<q, r>>) = Len(net) + 1 BY <1>2, <1>3, <2>1
  <2> QED BY <2>1, <2>2, <2>3, <2>4
<1> QED BY <1>1, <1>2, <1>3, <1>4, PageAssumption

\* A page leaves no more requests behind than it has.
LEMMA LeftSize ==
  ASSUME PageTyped, NEW op
  PROVE  LeftBehind(op) \in Nat /\ LeftBehind(op) <= Len(net)
<1>1. DOMAIN net = 1 .. Len(net) /\ Len(net) \in Nat
  BY SeqFacts DEF PageTyped, AllWellFormed
<1>2. IsFiniteSet(1 .. Len(net)) /\ Cardinality(1 .. Len(net)) = Len(net)
  <2> DEFINE n == Len(net)
  <2>1. n \in Nat /\ n \in Int /\ 1 \in Int BY <1>1
  <2> HIDE DEF n
  <2>2. IsFiniteSet(1 .. n) BY <2>1, FS_Interval
  <2>3. Cardinality(1 .. n) = (IF 1 > n THEN 0 ELSE n - 1 + 1) BY <2>1, FS_Interval
  <2>4. Cardinality(1 .. n) = n BY <2>1, <2>3
  <2> QED BY <2>2, <2>4 DEF n
<1>3. {k \in DOMAIN net : net[k].op = op} \in SUBSET (1 .. Len(net)) BY <1>1
<1> QED BY <1>2, <1>3, FS_Subset, FS_CardinalityType DEF LeftBehind

\* The kinds of steps.
LEMMA SizeSteps ==
  ASSUME PageTyped
  PROVE  /\ UNCHANGED <<net, orphans>> => Smaller
         /\ \A p, l, t : Mount(p, l, t) => Smaller
         /\ \A r : Room(1) /\ net' = Append(net, r) /\ orphans' = orphans => Smaller
         /\ \A i \in DOMAIN net : \A r :
              /\ net' \in {Without(i), Append(Without(i), r), Without(i) \o <<>>, Without(i) \o <<r>>}
              /\ orphans' = orphans
              => Smaller
         /\ \A n \in 0 .. Size : Unmount(n) => Smaller
<1> USE SizeFacts DEF Smaller, Size
<1>1. UNCHANGED <<net, orphans>> => Smaller OBVIOUS
<1>2. \A p, l, t : Mount(p, l, t) => Smaller BY DEF Mount, Room
<1>3. \A r : Room(1) /\ net' = Append(net, r) /\ orphans' = orphans => Smaller BY DEF Room
<1>4. ASSUME NEW i \in DOMAIN net, NEW r, orphans' = orphans,
             net' \in {Without(i), Append(Without(i), r), Without(i) \o <<>>, Without(i) \o <<r>>}
      PROVE  Smaller
  <2>1. Len(net') = Len(net) - 1 \/ Len(net') = Len(net) BY <1>4
  <2> QED BY <1>4, <2>1
<1>5. \A n \in 0 .. Size : Unmount(n) => Smaller BY DEF Unmount
<1> QED BY <1>1, <1>2, <1>3, <1>4, <1>5

\* The listing pages keep the bound.
LEMMA ListsSize ==
  ASSUME PageTyped, ListsNext
  PROVE  Smaller
<1>1. CASE \/ (\E p \in ListPages : OpenList(p)) \/ CancelDelete
           \/ \E x \in Items : ConfirmDelete(x)
  BY <1>1, SizeSteps DEF OpenList, ConfirmDelete, CancelDelete
<1>2. CASE LeaveList
  <2>1. orphans \in 0 .. Size BY SizeFacts DEF Size
  <2> QED BY <1>2, <2>1, SizeSteps DEF LeaveList
<1>3. CASE Delete \/ \E x \in Items : AssignRole(x)
  BY <1>3, SizeSteps DEF Delete, AssignRole
<1>4. ASSUME NEW q, Load(q), page \in ListPages, orphans' = orphans PROVE Smaller
  <2>1. This.load = <<"rows">> BY <1>4, ComponentFacts DEF This
  <2>2. net' = net \o <<Request("rows", q)>> /\ Room(1) BY <1>4, <2>1, RequestsFacts DEF Load
  <2>3. IsSeq(net) BY DEF PageTyped, AllWellFormed
  <2>4. net' = Append(net, Request("rows", q)) BY <2>2, <2>3, AppendOne
  <2> QED BY <1>4, <2>2, <2>4, SizeSteps
<1>5. CASE Search \/ (\E on : Filter(on)) \/ (\E n : GoToPage(n))
  <2>1. \E q : Load(q) /\ page \in ListPages /\ orphans' = orphans
    BY <1>5 DEF Search, Filter, GoToPage, Clickable, ListPages
  <2> QED BY <1>4, <2>1
<1>6. ASSUME NEW i \in DOMAIN net, Serve(i) PROVE Smaller
  <2>1. Len(net') = Len(net) /\ orphans' = orphans
    <3>1. IsSeq(net) BY DEF PageTyped, AllWellFormed
    <3>2. Len(net) \in Nat /\ DOMAIN net = 1 .. Len(net) BY <3>1, SeqFacts
    <3>3. PICK reply :
            net' = [net EXCEPT ![i] = [op |-> net[i].op, arg |-> net[i].arg, got |-> reply,
                                       old |-> net[i].old]]
      BY <1>6 DEF Serve, Reply
    <3>4. DOMAIN net' = 1 .. Len(net) BY <3>2, <3>3
    <3>5. net' = [k \in 1 .. Len(net) |-> net'[k]] BY <3>2, <3>3
    <3> QED BY <1>6, <3>2, <3>5 DEF Serve
  <2> QED BY <2>1, SizeFacts DEF Smaller, Size
<1>7. ASSUME NEW i \in DOMAIN net, ListAnswer(i) PROVE Smaller
  <2>1. page \in ListPages /\ orphans' = orphans
    BY <1>7 DEF ListAnswer, RowsCame, RowsFailed, LessonsCame, RolesCame, Deleted,
      DeleteFailed, Assigned, AssignFailed, Came
  <2>2. /\ This.load = <<"rows">> /\ This.then \in {<<>>, <<"lessons">>}
    BY <2>1, ComponentFacts DEF This
  <2>3. \/ net' = Without(i) \/ net' = Without(i) \o <<>>
        \/ \E r : net' = Without(i) \o <<r>>
    <3>1. \A q : Requests(<<>>, q) = <<>> /\ Requests(<<"lessons">>, q) = <<Request("lessons", q)>>
                 /\ Requests(<<"rows">>, q) = <<Request("rows", q)>>
      BY RequestsFacts
    <3>2. CASE RowsCame(i) \/ Deleted(i) \/ Assigned(i)
      <4>1. net' = Without(i) \o Requests(This.then, net[i].arg)
            \/ net' = Without(i) \o Requests(This.load, asked)
        BY <3>2 DEF RowsCame, Deleted, Assigned
      <4> QED BY <2>2, <3>1, <4>1
    <3>3. CASE \/ RowsFailed(i) \/ LessonsCame(i) \/ RolesCame(i) \/ DeleteFailed(i)
              \/ AssignFailed(i)
      BY <3>3 DEF RowsFailed, LessonsCame, RolesCame, DeleteFailed, AssignFailed
    <3> QED BY <1>7, <3>2, <3>3 DEF ListAnswer
  <2> QED BY <2>1, <2>3, SizeSteps
<1> QED BY <1>1, <1>2, <1>3, <1>5, <1>6, <1>7 DEF ListsNext

\* The forms keep it.
LEMMA FormsSize ==
  ASSUME PageTyped, FormsNext
  PROVE  Smaller
<1>0. orphans \in 0 .. Size BY SizeFacts DEF Size
<1>1. CASE (\E p \in FormPages, e \in BOOLEAN : OpenForm(p, e)) \/ \E f \in Fields : Type(f)
  BY <1>1, SizeSteps DEF OpenForm, Type, pageVars
<1>2. CASE LeaveForm
  <2>1. orphans + LeftBehind("save") \in 0 .. Size /\ orphans + 0 \in 0 .. Size
    BY SizeFacts, LeftSize DEF Size
  <2> QED BY <1>2, <2>1, SizeSteps DEF LeaveForm
<1>3. CASE Submit BY <1>3, SizeSteps DEF Submit
<1>4. ASSUME NEW i \in DOMAIN net, FormAnswer(i) PROVE Smaller
  BY <1>0, <1>4, SizeSteps DEF FormAnswer, OptionsCame, LoadCame, Saved, SaveFailed
<1> QED BY <1>1, <1>2, <1>3, <1>4 DEF FormsNext

\* The student's pages keep it.
LEMMA StudentSize ==
  ASSUME PageTyped, StudentNext
  PROVE  Smaller
<1>0. orphans \in 0 .. Size BY SizeFacts DEF Size
<1>1. CASE \/ (\E p \in Readers : OpenReader(p)) \/ OpenDashboard \/ CloseResultModal
           \/ \E p \in {"dashboard", "test-result"} : OpenAndRedirect(p)
  BY <1>1, SizeSteps DEF OpenReader, OpenDashboard, OpenAndRedirect, CloseResultModal, pageVars
<1>2. CASE LeaveStudent BY <1>0, <1>2, SizeSteps DEF LeaveStudent
<1>3. CASE \/ ClearAllFilters
           \/ \E on \in BOOLEAN : SelectExamType(on) \/ SelectLessonOf(on) \/ SearchBooks(on)
  <2>1. \E q : LoadBooks(q)
    BY <1>3 DEF ClearAllFilters, SelectExamType, SelectLessonOf, SearchBooks
  <2> QED BY <2>1, SizeSteps DEF LoadBooks
<1>4. CASE SubmitTest \/ \E r \in Results : OpenResultModal(r)
  BY <1>4, SizeSteps DEF SubmitTest, OpenResultModal
<1>5. ASSUME NEW i \in DOMAIN net, StudentAnswer(i) PROVE Smaller
  BY <1>0, <1>5, SizeSteps DEF StudentAnswer, ChoicesCame, BooksCame, PartCame, Solved,
     ModalResultCame, ModalKeyCame, InModal
<1> QED BY <1>1, <1>2, <1>3, <1>4, <1>5 DEF StudentNext

-----------------------------------------------------------------------------

\* What the answer to a request of a page of books sends in turn.
LEMMA BookSendsAgain ==
  ASSUME NEW i \in DOMAIN net, BookAnswer(i), ~BookDeleted(i), ~BookSaved(i)
  PROVE  /\ \/ net' = Without(i)
            \/ \E r : net' = Without(i) \o <<r>>
         /\ orphans' = orphans
<1>1. CASE DataCame(i) \/ CountsCame(i) \/ BookLoaded(i) \/ TestsCame(i) \/ TestDeleted(i)
           \/ TestNotDeleted(i) \/ BookNotDeleted(i)
  BY <1>1 DEF DataCame, CountsCame, BookLoaded, TestsCame, TestDeleted, TestNotDeleted,
     BookNotDeleted
<1>2. CASE TestLoadCame(i) \/ TestSaved(i) \/ TestNotSaved(i) \/ FreshCame(i) \/ FreshSaved(i)
  BY <1>2 DEF TestLoadCame, TestSaved, TestNotSaved, FreshCame, FreshSaved, ownButNet
<1>3. CASE BookLoadCame(i) \/ SubjectsCame(i) \/ BookNotSaved(i)
  BY <1>3 DEF BookLoadCame, SubjectsCame, BookNotSaved, SubjectsRequest, ownButNet
<1> QED BY <1>1, <1>2, <1>3 DEF BookAnswer

\* The pages of books keep it, but for the answer to a book's save.
LEMMA BooksSize ==
  ASSUME PageTyped, BooksNext, SavesInv, SizeInv
  PROVE  Smaller \/ (Size' <= MaxPending + 1 /\ ~book'.saving)
<1>0. orphans \in 0 .. Size BY SizeFacts DEF Size
<1>1. CASE OpenAdmin \/ OpenTestBook
  BY <1>1, SizeSteps DEF OpenAdmin, OpenTestBook
<1>2. CASE LeaveBooks
  <2>1. orphans + LeftBehind("deleteBook") \in 0 .. Size BY SizeFacts, LeftSize DEF Size
  <2> QED BY <1>2, <2>1, SizeSteps DEF LeaveBooks
<1>3. CASE \/ (\E x \in Tests : ConfirmDeleteTest(x)) \/ CancelDeleteTest \/ ConfirmDeleteBook
           \/ CancelDeleteBook \/ CloseEdit \/ FillEdit \/ CloseFresh \/ CloseBook
           \/ ToggleSubject
  BY <1>3, SizeSteps DEF ConfirmDeleteTest, CancelDeleteTest, ConfirmDeleteBook, CancelDeleteBook,
     CloseEdit, FillEdit, CloseFresh, CloseBook, ToggleSubject, pageVars
<1>4. CASE \/ (\E x \in Tests : EditTest(x)) \/ DeleteTest \/ DeleteBook \/ SaveTest \/ OpenFresh
           \/ SaveFresh \/ SaveBook
  <2>1. Room(1) /\ orphans' = orphans /\ \E r : net' = Append(net, r)
    BY <1>4 DEF EditTest, DeleteTest, DeleteBook, SaveTest, OpenFresh, SaveFresh, SaveBook, ownButNet
  <2> QED BY <2>1, SizeSteps
<1>5. CASE \/ OpenBook \/ (\E e \in Exams : SelectExam(e)) \/ \E l \in Lessons : SelectLesson(l)
  <2>1. /\ orphans' = orphans
        /\ net' = net \/ (Room(1) /\ \E r : net' = Append(net, r))
    BY <1>5 DEF OpenBook, SelectExam, SelectLesson, Reselected, ownButNet
  <2> QED BY <2>1, SizeSteps
<1>6. ASSUME NEW i \in DOMAIN net, BookDeleted(i) PROVE Smaller
  BY <1>0, <1>6, SizeSteps DEF BookDeleted
<1>7. ASSUME NEW i \in DOMAIN net, BookSaved(i)
      PROVE  Smaller \/ (Size' <= MaxPending + 1 /\ ~book'.saving)
  <2>1. net[i].op = "bookSave" /\ orphans' = orphans BY <1>7 DEF BookSaved, BookCame
  <2>2. book.saving
    <3>1. "bookSave" \in Guards /\ RaisedMeans BY RaisedFacts DEF Guards
    <3>2. GuardOf(net[i].op) = "bookSave" BY <2>1 DEF GuardOf
    <3>3. ~No(net, "bookSave") BY <3>2 DEF No
    <3> QED BY <3>1, <3>3 DEF SavesInv, Held, RaisedMeans
  <2>3. Len(net) + orphans <= MaxPending BY <2>2, SizeFacts DEF SizeInv, Size
  <2>4. ~book'.saving
    <3> DEFINE b == [book EXCEPT !.saving = FALSE]
    <3>1. "saving" \in DOMAIN book BY DEF SavesInv, Shaped
    <3>2. book' = ClosedBook(b) BY <1>7 DEF BookSaved
    <3>3. "saving" \in DOMAIN b /\ ~b.saving BY <3>1
    <3> HIDE DEF b
    <3> QED BY <3>2, <3>3 DEF ClosedBook, Cleared, Nulled, Emptied
  <2>5. \/ \E r : net' = Without(i) \o <<r>>
        \/ \E q, r : net' = Without(i) \o <<q, r>>
    BY <1>7 DEF BookSaved
  <2>6. Len(net') <= Len(net) + 1 /\ Len(net') \in Nat
    <3>1. CASE \E r : net' = Without(i) \o <<r>> BY <3>1, SizeFacts
    <3>2. CASE \E q, r : net' = Without(i) \o <<q, r>> BY <3>2, SizeFacts
    <3> QED BY <2>5, <3>1, <3>2
  <2> QED BY <2>1, <2>3, <2>4, <2>6, SizeFacts DEF Size
<1>8. ASSUME NEW i \in DOMAIN net, BookAnswer(i), ~BookDeleted(i), ~BookSaved(i) PROVE Smaller
  BY <1>8, BookSendsAgain, SizeSteps
<1> QED BY <1>1, <1>2, <1>3, <1>4, <1>5, <1>6, <1>7, <1>8 DEF BooksNext, OnBookPage

\* A step that is smaller keeps the bound, unless it raises the guard of the save
\* of a book; that takes room for the request.
LEMMA SavingRaised ==
  ASSUME Next, SavesInv, SavesInv', PageTyped, book'.saving
  PROVE  book.saving \/ (Room(1) /\ orphans' = orphans /\ \E r : net' = Append(net, r))
<1>1. CASE book' = book BY <1>1
<1>2. CASE book' = NoBook \/ book' = [NoBook EXCEPT !.loading = FALSE]
  BY <1>2 DEF NoBook
<1>3. CASE SaveBook BY <1>3 DEF SaveBook, ownButNet
<1>4. ASSUME BooksNext, book' # book, book' # NoBook,
             book' # [NoBook EXCEPT !.loading = FALSE], ~SaveBook
      PROVE  book.saving
  <2>1. "saving" \in DOMAIN book BY DEF SavesInv, Shaped
  <2>2. CASE OpenBook BY <2>1, <2>2 DEF OpenBook, Cleared, Emptied
  <2>3. CASE CloseBook BY <2>1, <2>3 DEF CloseBook, ClosedBook, Cleared, Nulled, Emptied
  <2>4. CASE ToggleSubject BY <2>1, <2>4 DEF ToggleSubject
  <2>5. CASE (\E e \in Exams : SelectExam(e)) \/ \E l \in Lessons : SelectLesson(l)
    BY <2>1, <2>5 DEF SelectExam, SelectLesson, Reselected
  <2>6. ASSUME NEW i \in DOMAIN net, BookLoadCame(i) \/ SubjectsCame(i) PROVE book.saving
    BY <2>1, <2>6 DEF BookLoadCame, SubjectsCame
  <2>7. ASSUME NEW i \in DOMAIN net, BookSaved(i) \/ BookNotSaved(i) PROVE FALSE
    BY <2>1, <2>7 DEF BookSaved, BookNotSaved, ClosedBook, Cleared, Nulled, Emptied
  <2> QED BY <1>4, <2>2, <2>3, <2>4, <2>5, <2>6, <2>7, FormChanges
<1>5. BooksNext \/ book' = book \/ book' = NoBook
  BY DEF Next, OrphanCame, ForgetBooks, bookVars
<1> QED BY <1>1, <1>2, <1>3, <1>4, <1>5

\* The initial values have their types.
LEMMA BlankTypes ==
  /\ FirstPage \in Queries
  /\ NoEdit \in EditType /\ NoFresh \in FreshType /\ NoBook \in BookType
  /\ 0 \in 0 .. MaxUses
<1>1. FirstPage \in Queries BY DEF FirstPage, Queries
<1>2. NoEdit \in EditType BY DEF NoEdit, EditType
<1>3. NoFresh \in FreshType BY DEF NoFresh, FreshType
<1>4. NoBook \in BookType BY DEF NoBook, BookType
<1>5. 0 \in 0 .. MaxUses BY BookAssumption
<1> QED BY <1>1, <1>2, <1>3, <1>4, <1>5

\* The bound is invariant.
LEMMA SizeKept ==
  ASSUME Next, SavesInv, SavesInv', PageTyped, PageTyped', SizeInv
  PROVE  SizeInv'
<1>1. Smaller \/ (Size' <= MaxPending + 1 /\ ~book'.saving)
  <2>1. CASE ListsNext BY <2>1, ListsSize
  <2>2. CASE FormsNext BY <2>2, FormsSize
  <2>3. CASE BooksNext BY <2>3, BooksSize
  <2>4. CASE StudentNext BY <2>4, StudentSize
  <2>5. CASE OrphanCame
    <3>1. orphans \in Nat /\ Len(net) \in Nat BY SizeFacts
    <3>2. LeftBehind("deleteBook") \in 0 .. Len(net) /\ LeftBehind("save") \in 0 .. Len(net)
      BY <3>1, LeftSize
    <3>3. Abandoned \in 0 .. Len(net) BY <3>1, <3>2 DEF Abandoned
    <3>4. CASE orphans' = orphans - 1 /\ net' = net BY <3>1, <3>4 DEF Smaller, Size
    <3>5. CASE orphans > 0 /\ Unmount(orphans - 1 + Abandoned)
      <4>1. orphans - 1 + Abandoned \in 0 .. Size BY <3>1, <3>3, <3>5 DEF Size
      <4> QED BY <3>5, <4>1, SizeSteps
    <3> QED BY <2>5, <3>4, <3>5 DEF OrphanCame
  <2> QED BY <2>1, <2>2, <2>3, <2>4, <2>5 DEF Next
<1>2. Size \in Nat /\ Size' \in Nat /\ MaxPending \in Nat
  <2>1. Len(net) \in Nat /\ orphans \in Nat /\ MaxPending \in Nat BY SizeFacts
  <2>2. Len(net') \in Nat /\ orphans' \in Nat BY SeqFacts DEF PageTyped, AllWellFormed
  <2> QED BY <2>1, <2>2 DEF Size
<1>3. CASE ~book'.saving BY <1>1, <1>2, <1>3 DEF Smaller, SizeInv
<1>4. CASE book'.saving /\ book.saving BY <1>1, <1>2, <1>4 DEF Smaller, SizeInv
<1>5. CASE book'.saving /\ ~book.saving
  <2>1. Room(1) /\ orphans' = orphans /\ \E r : net' = Append(net, r)
    BY <1>5, SavingRaised
  <2>2. Len(net') = Len(net) + 1 BY <2>1, SizeFacts
  <2> QED BY <1>2, <1>5, <2>1, <2>2, SizeFacts DEF Room, SizeInv, Size
<1> QED BY <1>3, <1>4, <1>5

\* The types are invariant.
LEMMA TypesKept ==
  ASSUME Typed, [Next]_vars
  PROVE  Typed'
<1> USE DEF Typed
<1>1. CASE ListsNext /\ UNCHANGED <<formVars, bookVars, studentVars>>
  <2>1. PageTyped' /\ ListsTyped' BY <1>1, ListsNextTyped
  <2>2. FormsTypeOK' /\ BooksTypeOK' /\ StudentTypeOK'
    BY <1>1 DEF formVars, bookVars, studentVars, FormsTypeOK, BooksTypeOK, StudentTypeOK
  <2> QED BY <2>1, <2>2
<1>2. ASSUME UNCHANGED listVars, page' \notin ListPages, page \notin ListPages PROVE ListsTyped'
  <2>1. "users" \in ListPages BY DEF ListPages
  <2> QED BY <1>2, <2>1 DEF ListsTyped, ListsTypeOK, listVars
<1>3. CASE FormsNext /\ UNCHANGED <<listVars, bookVars, studentVars>>
  <2>1. PageTyped' /\ FormsTypeOK' BY <1>3, FormsTyped
  <2>2. BooksTypeOK' /\ StudentTypeOK'
    BY <1>3 DEF bookVars, studentVars, BooksTypeOK, StudentTypeOK
  <2>3. ListsTyped' BY <1>2, <1>3, FormsStay, PageNames DEF AllPages
  <2> QED BY <2>1, <2>2, <2>3
<1>4. CASE BooksNext /\ UNCHANGED <<listVars, formVars, studentVars>>
  <2>1. PageTyped' /\ BooksTypeOK' BY <1>4, BooksTyped
  <2>2. FormsTypeOK' /\ StudentTypeOK'
    BY <1>4 DEF formVars, studentVars, FormsTypeOK, StudentTypeOK
  <2>3. ListsTyped' BY <1>2, <1>4, BooksStay, PageNames DEF AllPages
  <2> QED BY <2>1, <2>2, <2>3
<1>5. CASE StudentNext /\ UNCHANGED <<listVars, formVars, bookVars>>
  <2>1. PageTyped' /\ StudentTypeOK' BY <1>5, StudentTyped
  <2>2. FormsTypeOK' /\ BooksTypeOK'
    BY <1>5 DEF formVars, bookVars, FormsTypeOK, BooksTypeOK
  <2>3. ListsTyped'
    <3>1. CASE CloseResultModal
      BY <1>5, <3>1 DEF CloseResultModal, pageVars, listVars, ListsTyped, ListsTypeOK
    <3> QED BY <1>2, <1>5, <3>1, StudentStays, PageNames DEF AllPages
  <2> QED BY <2>1, <2>2, <2>3
<1>6. CASE UNCHANGED vars
  BY <1>6 DEF vars, pageVars, listVars, formVars, bookVars, studentVars, PageTyped, ListsTyped,
     ListsTypeOK, FormsTypeOK, BooksTypeOK, StudentTypeOK
<1>7. CASE OrphanCame
  <2>1. CASE UNCHANGED <<page, net, isLoading, isSubmitting, warned, tardy, dialog, listVars,
                         formVars, bookVars, studentVars>>
    <3>1. orphans' \in Nat
      <4>1. orphans \in Nat /\ orphans > 0 BY <1>7 DEF OrphanCame, PageTyped
      <4>2. orphans' = orphans - 1 \/ page' = None BY <1>7 DEF OrphanCame, Unmount
      <4>3. orphans' = orphans - 1 \/ Unmount(orphans - 1 + Abandoned) BY <1>7 DEF OrphanCame
      <4>4. Abandoned \in Nat BY LeftTyped DEF Abandoned
      <4> QED BY <4>1, <4>3, <4>4 DEF Unmount
    <3>2. PageTyped' BY <2>1, <3>1 DEF PageTyped
    <3> QED BY <2>1, <3>2 DEF listVars, formVars, bookVars, studentVars, ListsTyped,
          ListsTypeOK, FormsTypeOK, BooksTypeOK, StudentTypeOK
  <2>2. CASE /\ Unmount(orphans - 1 + Abandoned)
             /\ ForgetLists /\ CloseForm /\ ForgetBooks /\ ResetStudent
    <3>1. orphans - 1 + Abandoned \in Nat
      <4>1. Abandoned \in Nat BY LeftTyped DEF Abandoned
      <4>2. orphans \in Nat /\ orphans > 0 BY <1>7 DEF OrphanCame, PageTyped
      <4> QED BY <4>1, <4>2
    <3>2. PageTyped' BY <2>2, <3>1, UnmountTyped
    <3>3. ListsTyped'
      BY <2>2, BlankTypes DEF ForgetLists, ListsTyped, ListsTypeOK
    <3>4. FormsTypeOK' BY <2>2 DEF CloseForm, FormsTypeOK, Blank, Origins
    <3>5. BooksTypeOK'
      <4>1. /\ edit' = NoEdit /\ fresh' = NoFresh /\ book' = NoBook
            /\ hasBook' = FALSE /\ fetchingTests' = FALSE /\ bookDialog' = "closed" /\ uses' = 0
        BY <2>2 DEF ForgetBooks
      <4>2. /\ edit' \in EditType /\ fresh' \in FreshType /\ book' \in BookType
            /\ uses' \in 0 .. MaxUses /\ bookDialog' \in {"closed", "visible", "confirmed"}
            /\ hasBook' \in BOOLEAN /\ fetchingTests' \in BOOLEAN
        BY <4>1, BlankTypes
      <4> QED BY <4>2, Zenon DEF BooksTypeOK, EditType, FreshType, BookType
    <3>6. StudentTypeOK'
      BY <2>2 DEF ResetStudent, StudentTypeOK, Unfiltered, Selections, NoModal
    <3> QED BY <3>2, <3>3, <3>4, <3>5, <3>6
  <2> QED BY <1>7, <2>1, <2>2, Zenon DEF OrphanCame
<1> QED BY <1>1, <1>3, <1>4, <1>5, <1>6, <1>7 DEF Next

\* TypeOK, for every value of the constants, and with it the bound: however many modals
\* and pages are opened, only the answer to a book's save sends more than one request,
\* and so no more than MaxPending + 1 are ever under way.
THEOREM TypeCorrect == Spec => []TypeOK
<1>1. Init => Typed /\ SizeInv
  <2> SUFFICES ASSUME Init PROVE Typed /\ SizeInv OBVIOUS
  <2>1. PageTyped
    <3>1. AllWellFormed(net, page) BY TupleTyped DEF Init, PageInit
    <3> QED BY <3>1 DEF Init, PageInit, PageTyped, Dialogs, NoDialog
  <2>2. ListsTyped BY BlankTypes DEF Init, ListsInit, ListsTyped, ListsTypeOK
  <2>3. FormsTypeOK BY DEF Init, FormsInit, FormsTypeOK, Blank, Origins
  <2>4. BooksTypeOK
    <3>1. /\ edit \in EditType /\ fresh \in FreshType /\ book \in BookType
          /\ uses \in 0 .. MaxUses /\ bookDialog \in {"closed", "visible", "confirmed"}
          /\ hasBook \in BOOLEAN /\ fetchingTests \in BOOLEAN
      BY BlankTypes DEF Init, BooksInit
    <3> QED BY <3>1, BooksTypes
  <2>5. StudentTypeOK
    BY DEF Init, StudentInit, StudentTypeOK, Unfiltered, Selections, NoModal
  <2>6. SizeInv
    <3>1. Size = 0 BY DEF Init, PageInit, Size
    <3> QED BY <3>1, PageAssumption DEF SizeInv
  <2> QED BY <2>1, <2>2, <2>3, <2>4, <2>5, <2>6 DEF Typed
<1>2. SavesInv /\ SavesInv' /\ Typed /\ SizeInv /\ [Next]_vars => Typed' /\ SizeInv'
  <2> SUFFICES ASSUME SavesInv, SavesInv', Typed, SizeInv, [Next]_vars PROVE Typed' /\ SizeInv'
    OBVIOUS
  <2>1. Typed' BY TypesKept
  <2>2. CASE Next BY <2>1, <2>2, SizeKept DEF Typed
  <2>3. CASE UNCHANGED vars
    <3>1. net' = net /\ orphans' = orphans /\ book' = book BY <2>3 DEF vars, pageVars, bookVars
    <3>2. Size' = Size BY <3>1 DEF Size
    <3> QED BY <2>1, <3>1, <3>2 DEF SizeInv
  <2> QED BY <2>1, <2>2, <2>3
<1>3. Typed /\ SizeInv => TypeOK
  <2> SUFFICES ASSUME Typed, SizeInv PROVE TypeOK OBVIOUS
  <2>1. PageTyped BY DEF Typed
  <2>2. Len(net) + orphans <= MaxPending + 1 BY <2>1, SizeFacts DEF SizeInv, Size
  <2> QED BY <2>1, <2>2 DEF Typed, ListsTyped, PageTyped, Dialogs, AllPages, TypeOK
<1> QED BY <1>1, <1>2, <1>3, SavesInvariant, PTL DEF Spec

-----------------------------------------------------------------------------
(* Spinners *)

\* The kinds of requests under way.
OpsOf(s) == {s[k].op : k \in DOMAIN s}

\* Taking an answer takes one request.
LEMMA OpsTaken ==
  ASSUME IsSeq(net), NEW i \in DOMAIN net
  PROVE  IsSeq(Without(i)) /\ OpsOf(net) \ {net[i].op} \subseteq OpsOf(Without(i))
<1>1. IsSeq(Without(i)) BY WithoutFacts
<1>2. Len(net) \in Nat /\ DOMAIN net = 1 .. Len(net) BY SeqFacts
<1>4. /\ DOMAIN Without(i) = 1 .. Len(net) - 1
      /\ \A k \in 1 .. Len(net) - 1 :
           Without(i)[k] = IF k < i THEN Overtaken(net[k], net[i].op) ELSE net[k + 1]
  BY WithoutFacts
<1>5. i \in 1 .. Len(net) BY <1>2
<1>3. ASSUME NEW k \in DOMAIN net, k # i PROVE net[k].op \in OpsOf(Without(i))
  <2>1. CASE k < i
    <3>1. k \in DOMAIN Without(i) /\ Without(i)[k] = Overtaken(net[k], net[i].op)
      BY <1>2, <1>4, <1>5, <2>1
    <3> QED BY <3>1, OldFacts DEF OpsOf
  <2>2. CASE k > i
    <3>0. k \in 1 .. Len(net) BY <1>2
    <3>1. k - 1 \in 1 .. Len(net) - 1 /\ ~(k - 1 < i) /\ (k - 1) + 1 = k
      BY <1>2, <1>5, <2>2, <3>0
    <3>2. k - 1 \in DOMAIN Without(i) /\ Without(i)[k - 1] = net[k] BY <1>4, <3>1
    <3> QED BY <3>2 DEF OpsOf
  <2> QED BY <1>2, <1>5, <1>3, <2>1, <2>2
<1> QED BY <1>1, <1>3 DEF OpsOf

\* Sending one adds one.
LEMMA OpsSent ==
  ASSUME NEW s, IsSeq(s), NEW op, NEW a
  PROVE  OpsOf(Append(s, Request(op, a))) = OpsOf(s) \cup {op}
<1> DEFINE t == Append(s, Request(op, a))
<1>1. /\ Len(s) \in Nat /\ DOMAIN s = 1 .. Len(s) /\ DOMAIN t = 1 .. Len(s) + 1
      /\ \A k \in DOMAIN s : t[k] = s[k]
      /\ t[Len(s) + 1] = Request(op, a)
  BY SeqFacts, AppendFacts
<1> HIDE DEF t
<1>2. \A k \in DOMAIN t : k \in DOMAIN s \/ k = Len(s) + 1 BY <1>1
<1>3. DOMAIN s \subseteq DOMAIN t /\ Len(s) + 1 \in DOMAIN t BY <1>1
<1> QED BY <1>1, <1>2, <1>3, RequestFacts DEF OpsOf, t

\* The same, for requests sent in a tuple.
LEMMA OpsJoined ==
  ASSUME NEW s, IsSeq(s)
  PROVE  /\ OpsOf(s \o <<>>) = OpsOf(s)
         /\ \A op, a : OpsOf(s \o <<Request(op, a)>>) = OpsOf(s) \cup {op}
         /\ \A op, oq, a, b :
              OpsOf(s \o <<Request(op, a), Request(oq, b)>>) = OpsOf(s) \cup {op, oq}
<1>1. OpsOf(s \o <<>>) = OpsOf(s) BY AppendOne
<1>2. ASSUME NEW op, NEW a PROVE OpsOf(s \o <<Request(op, a)>>) = OpsOf(s) \cup {op}
  <2>1. s \o <<Request(op, a)>> = Append(s, Request(op, a)) BY AppendOne
  <2> QED BY <2>1, OpsSent
<1>3. ASSUME NEW op, NEW oq, NEW a, NEW b
      PROVE  OpsOf(s \o <<Request(op, a), Request(oq, b)>>) = OpsOf(s) \cup {op, oq}
  <2> DEFINE u == Append(s, Request(op, a))
             t == <<Request(op, a), Request(oq, b)>>
  <2>1. IsSeq(u) /\ OpsOf(u) = OpsOf(s) \cup {op} BY AppendFacts, OpsSent
  <2>2. s \o t = Append(u, Request(oq, b))
    <3> PICK n \in Nat : s = [k \in 1 .. n |-> s[k]] BY DEF IsSeq
    <3>1. Len(s) = n OBVIOUS
    <3>2. s \o t = [k \in 1 .. n + 2 |-> IF k <= n THEN s[k] ELSE t[k - n]] BY <3>1
    <3>3. u = [k \in 1 .. n + 1 |-> IF k <= n THEN s[k] ELSE Request(op, a)] BY <3>1
    <3>4. Append(u, Request(oq, b))
            = [k \in 1 .. n + 2 |-> IF k <= n + 1 THEN u[k] ELSE Request(oq, b)] BY <3>3
    <3>5. \A k \in 1 .. n + 2 :
            (IF k <= n THEN s[k] ELSE t[k - n]) = (IF k <= n + 1 THEN u[k] ELSE Request(oq, b))
      BY <3>3
    <3> QED BY <3>2, <3>4, <3>5
  <2> HIDE DEF u, t
  <2>3. OpsOf(s \o t) = OpsOf(u) \cup {oq} BY <2>1, <2>2, OpsSent
  <2> QED BY <2>1, <2>3 DEF t
<1> QED BY <1>1, <1>2, <1>3

\* What a page sends as it is created.
LEMMA OpsOfTuples ==
  /\ OpsOf(<<>>) = {}
  /\ \A op, a : OpsOf(<<Request(op, a)>>) = {op}
  /\ \A op, oq, a, b : OpsOf(<<Request(op, a), Request(oq, b)>>) = {op, oq}
<1>1. OpsOf(<<>>) = {} BY TupleFacts DEF OpsOf
<1>2. ASSUME NEW op, NEW a PROVE OpsOf(<<Request(op, a)>>) = {op}
  BY TupleFacts, RequestFacts DEF OpsOf
<1>3. ASSUME NEW op, NEW oq, NEW a, NEW b
      PROVE OpsOf(<<Request(op, a), Request(oq, b)>>) = {op, oq}
  <2> DEFINE t == <<Request(op, a), Request(oq, b)>>
  <2>1. DOMAIN t = 1 .. 2 /\ t[1].op = op /\ t[2].op = oq BY TupleFacts, RequestFacts
  <2> HIDE DEF t
  <2>2. \A k : k \in DOMAIN t <=> k = 1 \/ k = 2 BY <2>1
  <2> QED BY <2>1, <2>2 DEF OpsOf, t
<1> QED BY <1>1, <1>2, <1>3

\* What a page of books alone has open or turning.
BooksQuiet ==
  ~fetchingTests /\ ~edit.open /\ ~fresh.open /\ ~book.open /\ ~book.fetching

\* The pages that navigate away by themselves.
Departing == {"dashboard", "test-result", "test-solver"}

\* What turns only on some pages.
Still ==
  /\ page = None => ~isLoading
  /\ page \notin BookPages => BooksQuiet
  /\ page # "book-detail" => ~modal.loading
  /\ redirected => page \in Departing

\* The invariant.
SpinInv == SpinnersAreBacked /\ Still

\* What a step leaves under way: all but the request whose answer was taken.
Sends(taken, ops) ==
  (OpsOf(net) \ taken) \cup ops \subseteq OpsOf(net')

\* The answer taken and the requests sent.
LEMMA Taking ==
  ASSUME IsSeq(net), NEW i \in DOMAIN net
  PROVE  /\ net' = Without(i) => Sends({net[i].op}, {})
         /\ net' = Without(i) \o <<>> => Sends({net[i].op}, {})
         /\ \A op, a : net' = Without(i) \o <<Request(op, a)>> => Sends({net[i].op}, {op})
         /\ \A op, a : net' = Append(Without(i), Request(op, a)) => Sends({net[i].op}, {op})
         /\ \A op, oq, a, b : net' = Without(i) \o <<Request(op, a), Request(oq, b)>> =>
              Sends({net[i].op}, {op, oq})
<1> DEFINE w == Without(i)
<1>1. IsSeq(w) /\ OpsOf(net) \ {net[i].op} \subseteq OpsOf(w) BY OpsTaken
<1> HIDE DEF w
<1>2. net' = w => Sends({net[i].op}, {}) BY <1>1 DEF Sends
<1>3. net' = w \o <<>> => Sends({net[i].op}, {}) BY <1>1, OpsJoined DEF Sends
<1>4. ASSUME NEW op, NEW a
      PROVE  /\ net' = w \o <<Request(op, a)>> => Sends({net[i].op}, {op})
             /\ net' = Append(w, Request(op, a)) => Sends({net[i].op}, {op})
  <2>1. w \o <<Request(op, a)>> = Append(w, Request(op, a)) BY <1>1, AppendOne
  <2>2. OpsOf(Append(w, Request(op, a))) = OpsOf(w) \cup {op} BY <1>1, OpsSent
  <2> QED BY <1>1, <2>1, <2>2 DEF Sends
<1>5. ASSUME NEW op, NEW oq, NEW a, NEW b, net' = w \o <<Request(op, a), Request(oq, b)>>
      PROVE Sends({net[i].op}, {op, oq})
  <2>1. OpsOf(net') = OpsOf(w) \cup {op, oq} BY <1>1, <1>5, OpsJoined
  <2> QED BY <1>1, <2>1 DEF Sends
<1> QED BY <1>2, <1>3, <1>4, <1>5 DEF w

LEMMA Sending ==
  ASSUME IsSeq(net)
  PROVE  /\ net' = net => Sends({}, {})
         /\ \A op, a : net' = Append(net, Request(op, a)) => Sends({}, {op})
         /\ \A op, a : net' = net \o <<Request(op, a)>> => Sends({}, {op})
<1>1. net' = net => Sends({}, {}) BY DEF Sends
<1>2. ASSUME NEW op, NEW a
      PROVE  /\ net' = Append(net, Request(op, a)) => Sends({}, {op})
             /\ net' = net \o <<Request(op, a)>> => Sends({}, {op})
  <2>1. net \o <<Request(op, a)>> = Append(net, Request(op, a)) BY AppendOne
  <2>2. OpsOf(Append(net, Request(op, a))) = OpsOf(net) \cup {op} BY OpsSent
  <2> QED BY <2>1, <2>2 DEF Sends
<1> QED BY <1>1, <1>2

\* What was awaited still is when its request was not taken; what is sent is awaited.
LEMMA StillAwaited ==
  ASSUME NEW W, NEW taken, NEW ops, Sends(taken, ops)
  PROVE  /\ Awaits(W) /\ taken \cap W = {} => Pending' \cap W # {}
         /\ ops \cap W # {} => Pending' \cap W # {}
<1>1. Pending = OpsOf(net) /\ Pending' = OpsOf(net') BY DEF Pending, OpsOf
<1> QED BY <1>1 DEF Sends, Awaits

\* The page is left.
LEMMA SpinGone ==
  ASSUME page' = None, ~isLoading', ~redirected', BooksQuiet', ~modal'.loading
  PROVE  SpinInv'
<1>1. None \notin BookPages /\ None # "book-detail"
  BY PageNames DEF AllPages, StudentPageNames, Readers
<1> QED BY <1>1 DEF SpinInv, SpinnersAreBacked, Still, BooksQuiet

\* A page that has neither modals nor a redirection shows the spinner of its load only.
LEMMA SpinPlain ==
  ASSUME SpinInv, {page, page'} \subseteq ListPages \cup FormPages \cup {None},
         UNCHANGED <<bookVars, studentVars>>,
         isLoading' => page' # None /\ Pending' \cap PageLoads' # {}
  PROVE  SpinInv'
<1>1. /\ \A p \in ListPages \cup FormPages \cup {None} :
           p \notin BookPages /\ p \notin StudentPageNames
      /\ {"book-detail"} \cup Departing \subseteq StudentPageNames
  BY PageNames DEF AllPages, StudentPageNames, Readers, Departing
<1>2. BooksQuiet /\ ~modal.loading /\ ~redirected BY <1>1 DEF SpinInv, Still
<1>3. BooksQuiet' /\ ~modal'.loading /\ ~redirected'
  BY <1>2 DEF BooksQuiet, bookVars, studentVars
<1> QED BY <1>3 DEF SpinInv, SpinnersAreBacked, Still, BooksQuiet, Awaits

\* Every step of a listing page keeps the invariant: what ends no loading sends what does.
LEMMA ListsSpin ==
  ASSUME SpinInv, SavesInv, ListsNext, UNCHANGED <<bookVars, studentVars>>
  PROVE  SpinInv'
<1>0. IsSeq(net) BY DEF SavesInv, Held
<1>1. {page, page'} \subseteq ListPages \cup {None} BY ListsStay
<1>3. SUFFICES ASSUME isLoading' PROVE page' # None /\ Pending' \cap PageLoads' # {}
  BY <1>1, SpinPlain
<1>4. /\ page' # None => "rows" \in PageLoads' /\ PageLoads' \subseteq {"rows", "lessons"}
      /\ page # None => "rows" \in PageLoads /\ PageLoads \subseteq {"rows", "lessons"}
      /\ page' = page => PageLoads' = PageLoads
  BY <1>1 DEF PageLoads
<1>5. isLoading => page # None /\ Awaits(PageLoads)
  <2>1. ~redirected
    BY <1>1, PageNames DEF SpinInv, Still, AllPages, StudentPageNames, Readers, Departing
  <2> QED BY <2>1 DEF SpinInv, SpinnersAreBacked, Still
\* A step that neither ends the loading nor takes one of its answers.
<1>6. ASSUME NEW taken, NEW ops, Sends(taken, ops), taken \cap {"rows", "lessons"} = {},
             page' = page, page # None, isLoading' = isLoading
      PROVE  page' # None /\ Pending' \cap PageLoads' # {}
  <2>1. taken \cap PageLoads = {} BY <1>4, <1>6
  <2> QED BY <1>3, <1>4, <1>5, <1>6, <2>1, StillAwaited
\* A step that sends the load.
<1>7. ASSUME NEW taken, NEW ops, Sends(taken, ops), page' = page, page # None,
             "rows" \in ops \/ (page = "subjects" /\ "lessons" \in ops)
      PROVE  page' # None /\ Pending' \cap PageLoads' # {}
  <2>1. ops \cap PageLoads # {} BY <1>1, <1>4, <1>7 DEF PageLoads, ListPages
  <2> QED BY <1>4, <1>7, <2>1, StillAwaited
<1>10. ASSUME NEW p \in ListPages, OpenList(p) PROVE page' # None /\ Pending' \cap PageLoads' # {}
  <2>1. page' = p /\ net' = Requests(Component[p].open, FirstPage) BY <1>10 DEF OpenList, Mount
  <2>2. "rows" \in OpsOf(net')
    <3>1. \/ net' = <<Request("rows", FirstPage)>>
          \/ net' = <<Request("rows", FirstPage), Request("roles", FirstPage)>>
      BY <2>1, ComponentFacts, RequestsFacts
    <3>2. /\ OpsOf(<<Request("rows", FirstPage)>>) = {"rows"}
          /\ OpsOf(<<Request("rows", FirstPage), Request("roles", FirstPage)>>) = {"rows", "roles"}
      BY OpsOfTuples
    <3> QED BY <3>1, <3>2
  <2>3. p # None BY PageNames DEF AllPages
  <2> QED BY <1>4, <2>1, <2>2, <2>3 DEF OpsOf, Pending
<1>11. CASE LeaveList BY <1>3, <1>11 DEF LeaveList, Unmount
<1>12. ASSUME NEW x \in Items, ConfirmDelete(x)
       PROVE  page' # None /\ Pending' \cap PageLoads' # {}
  <2>1. UNCHANGED <<page, net, isLoading>> BY <1>12 DEF ConfirmDelete
  <2>2. Sends({}, {}) BY <1>0, <2>1, Sending
  <2> QED BY <1>3, <1>5, <1>6, <2>1, <2>2
<1>13. CASE CancelDelete \/ Delete
  <2>1. page # None /\ UNCHANGED <<page, isLoading>>
    BY <1>13, PageNames DEF CancelDelete, Delete, AllPages
  <2>2. net' = net \/ net' = Append(net, Request("delete", dialog.target))
    BY <1>13 DEF CancelDelete, Delete
  <2>3. Sends({}, {}) \/ Sends({}, {"delete"}) BY <1>0, <2>2, Sending
  <2> QED BY <1>6, <2>1, <2>3
<1>14. ASSUME NEW x \in Items, AssignRole(x) PROVE page' # None /\ Pending' \cap PageLoads' # {}
  <2>1. page # None /\ UNCHANGED <<page, isLoading>>
    BY <1>14, PageNames DEF AssignRole, Clickable, AllPages
  <2>2. net' = Append(net, Request("assign", x)) BY <1>14 DEF AssignRole
  <2>3. Sends({}, {"assign"}) BY <1>0, <2>2, Sending
  <2> QED BY <1>6, <2>1, <2>3
<1>15. ASSUME NEW q, Load(q), page \in ListPages, page' = page
       PROVE  page' # None /\ Pending' \cap PageLoads' # {}
  <2>1. net' = net \o <<Request("rows", q)>>
    BY <1>15, ComponentFacts, RequestsFacts DEF Load, This
  <2>2. Sends({}, {"rows"}) BY <1>0, <2>1, Sending
  <2> QED BY <1>7, <1>15, <2>2, PageNames DEF AllPages
<1>16. CASE Search \/ (\E on \in BOOLEAN : Filter(on)) \/ \E n : GoToPage(n)
  <2>1. page = "users" /\ page' = page /\ \E q : Load(q)
    BY <1>16 DEF Search, Filter, GoToPage
  <2> QED BY <1>15, <2>1 DEF ListPages
<1>17. ASSUME NEW i \in DOMAIN net, Serve(i) PROVE page' # None /\ Pending' \cap PageLoads' # {}
  <2>1. page # None /\ UNCHANGED <<page, isLoading>>
    BY <1>17, PageNames DEF Serve, AllPages
  <2>2. \E r : net' = [net EXCEPT ![i] = [op |-> net[i].op, arg |-> net[i].arg, got |-> r,
                                          old |-> net[i].old]]
    BY <1>17 DEF Serve, Reply
  <2>3. OpsOf(net') = OpsOf(net) BY <2>2 DEF OpsOf
  <2> QED BY <1>6, <2>1, <2>3 DEF Sends
<1>18. ASSUME NEW i \in DOMAIN net, RowsCame(i) PROVE page' # None /\ Pending' \cap PageLoads' # {}
  <2>1. /\ page \in ListPages /\ page' = page /\ net[i].op = "rows"
        /\ net' = Without(i) \o Requests(Component[page].then, net[i].arg)
        /\ <<"rows", "ok">> \notin Component[page].ends
    BY <1>3, <1>18 DEF RowsCame, Came, Ending, This
  <2>2. page = "subjects" /\ Component[page].then = <<"lessons">>
    BY <2>1 DEF Component, ListPages, ExamTypesList, LessonsList, RolesList, SubjectsList,
       UsersList, UserDetail
  <2>3. net' = Without(i) \o <<Request("lessons", net[i].arg)>>
    BY <2>1, <2>2, RequestsFacts
  <2>4. Sends({"rows"}, {"lessons"}) BY <1>0, <2>1, <2>3, Taking
  <2> QED BY <1>7, <2>1, <2>2, <2>4, PageNames DEF AllPages
<1>19. ASSUME NEW i \in DOMAIN net, RowsFailed(i) PROVE FALSE
  <2>1. page \in ListPages /\ <<"rows", "error">> \notin Component[page].ends
    BY <1>3, <1>19 DEF RowsFailed, Came, Ending, This
  <2> QED BY <2>1 DEF Component, ListPages, ExamTypesList, LessonsList, RolesList, SubjectsList,
       UsersList, UserDetail
<1>20. ASSUME NEW i \in DOMAIN net, LessonsCame(i) PROVE page' # None /\ Pending' \cap PageLoads' # {}
  <2>1. /\ page \in ListPages /\ page' = page /\ net[i].op = "lessons" /\ net' = Without(i)
        /\ isLoading
        /\ \/ <<"lessons", "ok">> \notin Component[page].ends
           \/ <<"lessons", "error">> \notin Component[page].ends
    BY <1>3, <1>20 DEF LessonsCame, Came, Ending, This
  <2>2. page # "subjects"
    BY <2>1 DEF Component, ListPages, SubjectsList
  <2>3. PageLoads = {"rows"} BY <2>1, <2>2 DEF PageLoads
  <2>4. Sends({"lessons"}, {}) BY <1>0, <2>1, Taking
  <2> QED BY <1>4, <1>5, <2>1, <2>3, <2>4, StillAwaited
<1>21. ASSUME NEW i \in DOMAIN net, RolesCame(i) \/ DeleteFailed(i) \/ AssignFailed(i)
       PROVE  page' # None /\ Pending' \cap PageLoads' # {}
  <2>1. /\ page \in ListPages /\ UNCHANGED <<page, isLoading>> /\ net' = Without(i)
        /\ net[i].op \in {"roles", "delete", "assign"}
    BY <1>21 DEF RolesCame, DeleteFailed, AssignFailed, Came
  <2>2. Sends({net[i].op}, {}) BY <1>0, <2>1, Taking
  <2> QED BY <1>6, <2>1, <2>2, PageNames DEF AllPages
<1>22. ASSUME NEW i \in DOMAIN net, Deleted(i) \/ Assigned(i)
       PROVE  page' # None /\ Pending' \cap PageLoads' # {}
  <2>1. page \in ListPages /\ page' = page /\ net' = Without(i) \o <<Request("rows", asked)>>
    BY <1>22, ComponentFacts, RequestsFacts DEF Deleted, Assigned, Came, This
  <2>2. Sends({net[i].op}, {"rows"}) BY <1>0, <2>1, Taking
  <2> QED BY <1>7, <2>1, <2>2, PageNames DEF AllPages
<1> QED
  BY <1>10, <1>11, <1>12, <1>13, <1>14, <1>16, <1>17, <1>18, <1>19, <1>20, <1>21, <1>22
  DEF ListsNext, ListAnswer

\* The forms: only editing loads, and its answer ends the spinner.
LEMMA FormsSpin ==
  ASSUME SpinInv, SavesInv, FormsNext, UNCHANGED <<bookVars, studentVars>>
  PROVE  SpinInv'
<1>0. IsSeq(net) BY DEF SavesInv, Held
<1>1. {page, page'} \subseteq FormPages \cup {None} BY FormsStay
<1>2. SUFFICES ASSUME isLoading' PROVE page' # None /\ Pending' \cap PageLoads' # {}
  BY <1>1, SpinPlain
<1>3. /\ page' # None => PageLoads' = {"load"}
      /\ page # None => PageLoads = {"load"}
  BY <1>1, PageNames DEF PageLoads
<1>4. isLoading => page # None /\ Awaits(PageLoads)
  <2>1. ~redirected
    BY <1>1, PageNames DEF SpinInv, Still, AllPages, StudentPageNames, Readers, Departing
  <2> QED BY <2>1 DEF SpinInv, SpinnersAreBacked, Still
<1>5. ASSUME NEW taken, NEW ops, Sends(taken, ops), "load" \notin taken,
             page' = page, isLoading' = isLoading
      PROVE  page' # None /\ Pending' \cap PageLoads' # {}
  BY <1>2, <1>3, <1>4, <1>5, StillAwaited
<1>6. ASSUME NEW p \in FormPages, NEW e \in BOOLEAN, OpenForm(p, e)
      PROVE  page' # None /\ Pending' \cap PageLoads' # {}
  <2>1. e /\ page' = p /\ p # None BY <1>2, <1>6, PageNames DEF OpenForm, Mount, AllPages
  <2>2. \/ net' = <<Request("options", None)>> \o <<Request("load", None)>>
        \/ net' = <<>> \o <<Request("load", None)>>
    BY <1>6, <2>1 DEF OpenForm, Mount
  <2>3. "load" \in OpsOf(net')
    <3>1. ASSUME NEW t, IsSeq(t) PROVE "load" \in OpsOf(t \o <<Request("load", None)>>)
      BY <3>1, OpsJoined
    <3>2. IsSeq(<<>>) /\ IsSeq(<<Request("options", None)>>) BY TupleFacts
    <3> QED BY <2>2, <3>1, <3>2
  <2> QED BY <1>3, <2>1, <2>3 DEF OpsOf, Pending
<1>7. CASE LeaveForm BY <1>2, <1>7 DEF LeaveForm, Unmount
<1>8. CASE Submit \/ \E f \in Fields : Type(f)
  <2>1. UNCHANGED <<page, isLoading>> /\ (net' = net \/ net' = Append(net, Request("save", Body)))
    BY <1>8 DEF Submit, Type, pageVars
  <2>2. Sends({}, {}) \/ Sends({}, {"save"}) BY <1>0, <2>1, Sending
  <2> QED BY <1>5, <2>1, <2>2
<1>9. ASSUME NEW i \in DOMAIN net, OptionsCame(i) \/ SaveFailed(i)
      PROVE  page' # None /\ Pending' \cap PageLoads' # {}
  <2>1. /\ UNCHANGED <<page, isLoading>> /\ net' = Without(i)
        /\ net[i].op \in {"options", "save"}
    BY <1>9 DEF OptionsCame, SaveFailed, FormCame
  <2>2. Sends({net[i].op}, {}) BY <1>0, <2>1, Taking
  <2> QED BY <1>5, <2>1, <2>2
<1>10. ASSUME NEW i \in DOMAIN net, LoadCame(i) \/ Saved(i) PROVE FALSE
  BY <1>2, <1>10 DEF LoadCame, Saved, Unmount
<1> QED BY <1>6, <1>7, <1>8, <1>9, <1>10 DEF FormsNext, FormAnswer

\* A step of a student's page: its own flags decide.
LEMMA SpinStudent ==
  ASSUME SpinInv, {page, page'} \subseteq StudentPageNames \cup {None}, UNCHANGED bookVars,
         isLoading' /\ ~redirected' => page' # None /\ Pending' \cap PageLoads' # {},
         modal'.loading =>
           page' = "book-detail" /\ Pending' \cap {"modalResult", "modalKey"} # {},
         redirected' => page' \in Departing
  PROVE  SpinInv'
<1>1. \A p \in StudentPageNames \cup {None} : p \notin BookPages BY PageNames DEF AllPages
<1>2. None \notin Departing BY PageNames DEF AllPages, StudentPageNames, Readers, Departing
<1>3. BooksQuiet /\ BooksQuiet'
  <2>1. BooksQuiet BY <1>1 DEF SpinInv, Still
  <2> QED BY <2>1 DEF BooksQuiet, bookVars
<1> QED BY <1>2, <1>3 DEF SpinInv, SpinnersAreBacked, Still, BooksQuiet, Awaits

\* Every step of a student's page keeps the invariant: a load that succeeds sends the
\* next, and the last of them, or any that fails, ends the spinner.
LEMMA StudentSpin ==
  ASSUME SpinInv, SavesInv, StudentTypeOK, StudentNext, UNCHANGED bookVars
  PROVE  SpinInv'
<1>0. IsSeq(net) BY DEF SavesInv, Held
<1>1. None \notin StudentPageNames /\ None \notin Departing \cup Readers
  BY PageNames DEF AllPages, StudentPageNames, Readers, Departing
<1>2. /\ \A p \in Readers : p \in StudentPageNames /\ p \notin {"dashboard", "test-result"}
      /\ Departing \subseteq StudentPageNames /\ {"dashboard", "test-result"} \subseteq Departing
  BY DEF StudentPageNames, Readers, Departing
<1>3. /\ page \in Readers => PageLoads = {Reader[page].loads[k] : k \in DOMAIN Reader[page].loads}
      /\ page' \in Readers =>
           PageLoads' = {Reader[page'].loads[k] : k \in DOMAIN Reader[page'].loads}
      /\ page \in {"dashboard", "test-result"} => PageLoads = {"shown"}
      /\ page' \in {"dashboard", "test-result"} => PageLoads' = {"shown"}
  BY <1>2, PageNames DEF PageLoads, AllPages
<1>4. page' = page => PageLoads' = PageLoads BY DEF PageLoads
<1>5. /\ isLoading /\ ~redirected => Pending \cap PageLoads # {}
      /\ modal.loading => page = "book-detail" /\ Pending \cap {"modalResult", "modalKey"} # {}
      /\ redirected => page \in Departing
  BY DEF SpinInv, SpinnersAreBacked, Still, Awaits
<1>6. ModalShape
  BY DEF StudentTypeOK, ModalShape
\* A step on a page: the requests taken and sent decide.
<1>7. ASSUME NEW taken, NEW ops, Sends(taken, ops), page' = page, page \in StudentPageNames,
             redirected' = redirected \/ (redirected' /\ page \in Departing),
             isLoading' => (isLoading /\ taken \cap PageLoads = {}) \/ ops \cap PageLoads # {},
             modal'.loading =>
               \/ modal.loading /\ taken \cap {"modalResult", "modalKey"} = {}
               \/ page = "book-detail" /\ ops \cap {"modalResult", "modalKey"} # {}
      PROVE  SpinInv'
  <2>1. ASSUME NEW W
        PROVE  /\ Pending \cap W # {} /\ taken \cap W = {} => Pending' \cap W # {}
               /\ ops \cap W # {} => Pending' \cap W # {}
    BY <1>7, StillAwaited DEF Awaits
  <2>2. isLoading' /\ ~redirected' => page' # None /\ Pending' \cap PageLoads' # {}
    BY <1>1, <1>4, <1>5, <1>7, <2>1
  <2>3. modal'.loading =>
          page' = "book-detail" /\ Pending' \cap {"modalResult", "modalKey"} # {}
    BY <1>5, <1>7, <2>1
  <2> QED BY <1>5, <1>7, <2>2, <2>3, SpinStudent
<1>8. ASSUME NEW p \in StudentPageNames, page = None, page' = p, UNCHANGED modal,
             redirected' => p \in Departing,
             ~redirected' => Pending' \cap PageLoads' # {}
      PROVE  SpinInv'
  <2>1. ~modal.loading BY <1>1, <1>2, <1>5, <1>8 DEF Readers
  <2> QED BY <1>1, <1>8, <2>1, SpinStudent
<1>10. ASSUME NEW p \in Readers, OpenReader(p) PROVE SpinInv'
  <2>1. /\ page = None /\ page' = p /\ net' = <<Request(Reader[p].loads[1], None)>>
        /\ UNCHANGED modal
    BY <1>10 DEF OpenReader, Mount, studentVars
  <2>2. 1 \in DOMAIN Reader[p].loads
    BY DEF Reader, Readers, BookDetail, ResultsList, ResultDetail, TestSolver
  <2>3. Reader[p].loads[1] \in PageLoads' BY <1>3, <2>1, <2>2
  <2>4. Reader[p].loads[1] \in OpsOf(net') BY <2>1, OpsOfTuples
  <2>5. Pending' \cap PageLoads' # {} BY <2>3, <2>4 DEF Pending, OpsOf
  <2>6. ~redirected' BY <1>1, <1>5, <1>10, <2>1 DEF OpenReader, studentVars
  <2> QED BY <1>2, <1>8, <2>1, <2>5, <2>6
<1>11. CASE OpenDashboard
  <2>1. /\ page = None /\ page' = "dashboard" /\ UNCHANGED modal
        /\ net' = <<Request("options", None), Request("shown", query)>>
    BY <1>11 DEF OpenDashboard, Mount, studentVars
  <2>2. "shown" \in OpsOf(net')
    <3>1. OpsOf(<<Request("options", None), Request("shown", query)>>) = {"options", "shown"}
      BY OpsOfTuples
    <3> QED BY <2>1, <3>1
  <2>3. Pending' \cap PageLoads' # {} BY <1>3, <2>1, <2>2 DEF Pending, OpsOf
  <2> QED BY <1>2, <1>8, <2>1, <2>3
<1>12. ASSUME NEW p \in {"dashboard", "test-result"}, OpenAndRedirect(p) PROVE SpinInv'
  BY <1>2, <1>8, <1>12 DEF OpenAndRedirect, Mount, Departing
<1>13. ASSUME page \in StudentPageNames, Unmount(orphans), ResetStudent PROVE SpinInv'
  <2>1. BooksQuiet' BY <1>13, PageNames DEF SpinInv, Still, BooksQuiet, bookVars, AllPages
  <2> QED BY <1>13, <2>1, SpinGone DEF Unmount, ResetStudent, NoModal
<1>14. ASSUME NEW q, LoadBooks(q), page = "dashboard" PROVE SpinInv'
  <2>1. UNCHANGED <<page, redirected, modal>> /\ net' = Append(net, Request("shown", q))
    BY <1>14 DEF LoadBooks
  <2>2. Sends({}, {"shown"}) BY <1>0, <2>1, Sending
  <2> QED BY <1>2, <1>3, <1>7, <1>14, <2>1, <2>2
<1>15. CASE \/ ClearAllFilters
            \/ \E on \in BOOLEAN : SelectExamType(on) \/ SelectLessonOf(on) \/ SearchBooks(on)
  <2>1. \E q : LoadBooks(q) /\ page = "dashboard"
    BY <1>15 DEF ClearAllFilters, SelectExamType, SelectLessonOf, SearchBooks, OnDashboard
  <2> QED BY <1>14, <2>1
<1>16. CASE SubmitTest
  <2>1. /\ page \in Readers /\ UNCHANGED <<page, isLoading, redirected, modal>>
        /\ net' = Append(net, Request("solve", None))
    BY <1>16 DEF SubmitTest, studentVars, Readers
  <2>2. Sends({}, {"solve"}) BY <1>0, <2>1, Sending
  <2> QED BY <1>2, <1>7, <2>1, <2>2
<1>17. ASSUME NEW r \in Results, OpenResultModal(r) PROVE SpinInv'
  <2>1. /\ page = "book-detail" /\ UNCHANGED <<page, isLoading, redirected>>
        /\ net' = Append(net, Request("modalResult", r))
    BY <1>17 DEF OpenResultModal, dashboardVars
  <2>2. Sends({}, {"modalResult"}) BY <1>0, <2>1, Sending
  <2> QED BY <1>2, <1>7, <2>1, <2>2 DEF Readers
<1>18. CASE CloseResultModal
  <2>1. UNCHANGED <<pageVars, redirected, bookVars>> /\ modal'.loading = modal.loading
    BY <1>6, <1>18 DEF CloseResultModal, dashboardVars, ModalShape
  <2> QED BY <2>1 DEF SpinInv, SpinnersAreBacked, Still, BooksQuiet, Awaits, Pending, PageLoads,
            pageVars, bookVars
<1>19. ASSUME NEW i \in DOMAIN net, ChoicesCame(i) PROVE SpinInv'
  <2>1. /\ page = "dashboard" /\ net[i].op = "options" /\ net' = Without(i)
        /\ UNCHANGED <<page, isLoading, redirected, modal>>
    BY <1>19 DEF ChoicesCame, StudentCame
  <2>2. Sends({"options"}, {}) BY <1>0, <2>1, Taking
  <2> QED BY <1>2, <1>3, <1>7, <2>1, <2>2
<1>20. ASSUME NEW i \in DOMAIN net, BooksCame(i) PROVE SpinInv'
  <2>1. /\ page = "dashboard" /\ net[i].op = "shown" /\ net' = Without(i)
        /\ ~isLoading' /\ UNCHANGED <<page, redirected, modal>>
    BY <1>20 DEF BooksCame, StudentCame
  <2>2. Sends({"shown"}, {}) BY <1>0, <2>1, Taking
  <2> QED BY <1>2, <1>7, <2>1, <2>2
<1>21. ASSUME NEW i \in DOMAIN net, PartCame(i) PROVE SpinInv'
  <2> DEFINE l == Reader[page].loads
  <2>1. /\ page \in Readers /\ UNCHANGED <<page, redirected, modal>>
        /\ \E k \in DOMAIN l : l[k] = net[i].op
    BY <1>21 DEF PartCame, dashboardVars
  <2>2. net[i].op \notin {"modalResult", "modalKey"}
    BY <2>1 DEF Reader, Readers, BookDetail, ResultsList, ResultDetail, TestSolver
  <2>3. CASE net' = Without(i) /\ ~isLoading'
    <3>1. Sends({net[i].op}, {}) BY <1>0, <2>3, Taking
    <3> QED BY <1>2, <1>7, <2>1, <2>2, <2>3, <3>1
  <2>4. ASSUME Position(net[i].op) < Len(l),
               net' = Append(Without(i), Request(l[Position(net[i].op) + 1], None))
        PROVE  SpinInv'
    <3>1. Position(net[i].op) \in DOMAIN l BY <2>1 DEF Position
    <3>2. Position(net[i].op) + 1 \in DOMAIN l
      BY <2>1, <2>4, <3>1 DEF Reader, Readers, BookDetail, ResultsList, ResultDetail, TestSolver
    <3>3. l[Position(net[i].op) + 1] \in PageLoads BY <1>3, <2>1, <3>2
    <3>4. Sends({net[i].op}, {l[Position(net[i].op) + 1]}) BY <1>0, <2>4, Taking
    <3> HIDE DEF l
    <3> QED BY <1>2, <1>7, <2>1, <2>2, <3>3, <3>4
  <2>5. \/ net' = Without(i) /\ ~isLoading'
        \/ /\ Position(net[i].op) < Len(l)
           /\ net' = Append(Without(i), Request(l[Position(net[i].op) + 1], None))
    BY <1>21 DEF PartCame
  <2> QED BY <2>3, <2>4, <2>5
<1>22. ASSUME NEW i \in DOMAIN net, Solved(i) PROVE SpinInv'
  <2>1. page = "test-solver" /\ net[i].op = "solve" BY <1>22 DEF Solved, StudentCame
  <2>2. /\ net' = Without(i) /\ UNCHANGED <<page, isLoading, modal>>
        /\ redirected' = redirected \/ redirected'
    BY <1>22 DEF Solved
  <2>3. Sends({"solve"}, {}) BY <1>0, <2>1, <2>2, Taking
  <2>4. "solve" \notin PageLoads
    BY <1>3, <2>1 DEF Reader, Readers, TestSolver
  <2>5. page \in StudentPageNames /\ page \in Departing BY <1>2, <2>1 DEF Departing
  <2> QED BY <1>7, <2>1, <2>2, <2>3, <2>4, <2>5
<1>23. ASSUME NEW i \in DOMAIN net, ModalResultCame(i) \/ ModalKeyCame(i) PROVE SpinInv'
  <2>1. /\ page = "book-detail" /\ UNCHANGED <<page, isLoading, redirected>>
        /\ net[i].op \in {"modalResult", "modalKey"} /\ page \in Readers
    BY <1>23 DEF ModalResultCame, ModalKeyCame, StudentCame, InModal, dashboardVars, Readers
  <2>2. net[i].op \notin PageLoads BY <1>3, <2>1 DEF Reader, Readers, BookDetail
  <2>3. CASE net' = Without(i) /\ ~modal'.loading
    <3>1. Sends({net[i].op}, {}) BY <1>0, <2>3, Taking
    <3> QED BY <1>2, <1>7, <2>1, <2>2, <2>3, <3>1
  <2>4. CASE net' = Append(Without(i), Request("modalKey", net[i].arg))
    <3>1. Sends({net[i].op}, {"modalKey"}) BY <1>0, <2>4, Taking
    <3> QED BY <1>2, <1>7, <2>1, <2>2, <3>1
  <2>5. \/ net' = Without(i) /\ ~modal'.loading
        \/ net' = Append(Without(i), Request("modalKey", net[i].arg))
    BY <1>6, <1>23 DEF ModalResultCame, ModalKeyCame, Failed, ModalShape
  <2> QED BY <2>3, <2>4, <2>5
<1> QED BY <1>10, <1>11, <1>12, <1>13, <1>15, <1>16, <1>17, <1>18, <1>19, <1>20, <1>21, <1>22, <1>23
        DEF StudentNext, StudentAnswer, LeaveStudent

\* A step on a page of books: the requests taken and sent decide for each spinner.
LEMMA SpinBooks ==
  ASSUME SpinInv, page \in BookPages, page' = page, UNCHANGED studentVars,
         NEW taken, NEW ops, Sends(taken, ops),
         isLoading' => \/ isLoading /\ taken \cap {"data", "counts", "book", "tests"} = {}
                       \/ ops \cap {"data", "counts", "book", "tests"} # {},
         fetchingTests' => (fetchingTests /\ "tests" \notin taken) \/ "tests" \in ops,
         edit'.open /\ edit'.loading =>
           (edit.open /\ edit.loading /\ "testLoad" \notin taken) \/ "testLoad" \in ops,
         fresh'.open /\ fresh'.loading =>
           (fresh.open /\ fresh.loading /\ "freshBook" \notin taken) \/ "freshBook" \in ops,
         book'.open /\ book'.loading =>
           (book.open /\ book.loading /\ "bookLoad" \notin taken) \/ "bookLoad" \in ops,
         book'.fetching => (book.fetching /\ "subjects" \notin taken) \/ "subjects" \in ops
  PROVE  SpinInv'
<1>1. /\ page \notin ListPages /\ page \notin FormPages /\ page # None
      /\ page \notin {"book-detail"} \cup Departing
  BY PageNames DEF AllPages, StudentPageNames, Readers, Departing
<1>2. ~redirected /\ ~redirected' /\ ~modal.loading /\ ~modal'.loading
  BY <1>1 DEF SpinInv, Still, studentVars
<1>3. PageLoads = {"data", "counts", "book", "tests"} /\ PageLoads' = {"data", "counts", "book", "tests"}
  BY <1>1 DEF PageLoads
<1>4. ASSUME NEW W
      PROVE  /\ Pending \cap W # {} /\ taken \cap W = {} => Pending' \cap W # {}
             /\ ops \cap W # {} => Pending' \cap W # {}
  BY StillAwaited DEF Awaits
<1>5. isLoading' => Pending' \cap {"data", "counts", "book", "tests"} # {}
  BY <1>2, <1>3, <1>4 DEF SpinInv, SpinnersAreBacked, Awaits
<1>6. /\ fetchingTests' => Pending' \cap {"tests"} # {}
      /\ edit'.open /\ edit'.loading => Pending' \cap {"testLoad"} # {}
      /\ fresh'.open /\ fresh'.loading => Pending' \cap {"freshBook"} # {}
      /\ book'.open /\ book'.loading => Pending' \cap {"bookLoad"} # {}
      /\ book'.fetching => Pending' \cap {"subjects"} # {}
  <2>1. ASSUME NEW op PROVE /\ op \in Pending /\ op \notin taken => Pending' \cap {op} # {}
                            /\ op \in ops => Pending' \cap {op} # {}
    <3>1. /\ Pending \cap {op} # {} /\ taken \cap {op} = {} => Pending' \cap {op} # {}
          /\ ops \cap {op} # {} => Pending' \cap {op} # {}
      BY <1>4
    <3> QED BY <3>1
  <2> QED BY <2>1 DEF SpinInv, SpinnersAreBacked, Awaits
<1> QED BY <1>1, <1>2, <1>3, <1>5, <1>6 DEF SpinInv, SpinnersAreBacked, Still, Awaits

\* Every step of the pages of books keeps the invariant, whichever modal is closed, opened
\* again or answered.
LEMMA BooksSpin ==
  ASSUME SpinInv, SavesInv, BooksTypeOK, BooksNext, UNCHANGED studentVars
  PROVE  SpinInv'
<1>0. IsSeq(net) BY DEF SavesInv, Held
<1>1. edit \in EditType /\ fresh \in FreshType /\ book \in BookType BY BooksTypes
<1> USE <1>0, <1>1
<1>2. CASE OpenAdmin \/ OpenTestBook
  <2>1. page = None /\ page' \in BookPages
    BY <1>2 DEF OpenAdmin, OpenTestBook, Mount, BookPages
  <2>2. /\ page' \notin ListPages /\ page' \notin FormPages /\ page' # None /\ page \notin BookPages
        /\ {page, page'} \cap ({"book-detail"} \cup Departing) = {}
    BY <2>1, PageNames DEF AllPages, StudentPageNames, Readers, Departing
  <2>3. BooksQuiet /\ ~modal.loading /\ ~redirected BY <2>2 DEF SpinInv, Still
  <2>4. BooksQuiet'
    <3>1. CASE OpenAdmin
      <4>1. book' = [NoBook EXCEPT !.loading = FALSE] /\ UNCHANGED <<fetchingTests, edit, fresh>>
        BY <3>1 DEF OpenAdmin
      <4>2. ~book'.open /\ ~book'.fetching BY <4>1 DEF NoBook
      <4> QED BY <2>3, <4>1, <4>2 DEF BooksQuiet
    <3>2. CASE OpenTestBook BY <2>3, <3>2 DEF BooksQuiet, OpenTestBook, bookVars
    <3> QED BY <1>2, <3>1, <3>2
  <2>5. ~modal'.loading /\ ~redirected' BY <2>3 DEF studentVars
  <2>6. net' = <<Request("data", None)>> \/ net' = <<Request("book", None)>>
    BY <1>2 DEF OpenAdmin, OpenTestBook, Mount
  <2>7. "data" \in OpsOf(net') \/ "book" \in OpsOf(net') BY <2>6, OpsOfTuples
  <2>8. PageLoads' = {"data", "counts", "book", "tests"} BY <2>1, <2>2 DEF PageLoads
  <2>9. Pending' \cap PageLoads' # {} BY <2>7, <2>8 DEF Pending, OpsOf
  <2> QED BY <2>1, <2>2, <2>4, <2>5, <2>9
          DEF SpinInv, SpinnersAreBacked, Still, BooksQuiet, Awaits
<1>3. ASSUME page \in BookPages, Unmount(orphans) \/ Unmount(orphans + LeftBehind("deleteBook")),
             ForgetBooks
      PROVE  SpinInv'
  <2>1. page \notin {"book-detail"} \cup Departing
    BY <1>3, PageNames DEF AllPages, StudentPageNames, Readers, Departing
  <2>2. ~modal'.loading /\ ~redirected' BY <2>1 DEF SpinInv, Still, studentVars
  <2>3. BooksQuiet' BY <1>3 DEF BooksQuiet, ForgetBooks, NoEdit, NoFresh, NoBook
  <2> QED BY <1>3, <2>2, <2>3, SpinGone DEF Unmount
<1>4. CASE LeaveBooks BY <1>3, <1>4 DEF LeaveBooks
<1> USE DEF EditType, FreshType, BookType
\* What the user does sends at most one request.
<1>5. ASSUME page \in BookPages,
             \/ (\E x \in Tests : ConfirmDeleteTest(x)) \/ CancelDeleteTest \/ ConfirmDeleteBook
             \/ CancelDeleteBook \/ CloseEdit \/ FillEdit \/ CloseFresh \/ CloseBook
             \/ ToggleSubject
      PROVE  SpinInv'
  <2>1. UNCHANGED <<page, net, isLoading, fetchingTests>>
    BY <1>5 DEF ConfirmDeleteTest, CancelDeleteTest, ConfirmDeleteBook, CancelDeleteBook,
       CloseEdit, FillEdit, CloseFresh, CloseBook, ToggleSubject, pageVars, bookVars
  <2>2. Sends({}, {}) BY <2>1, Sending
  <2>3. edit'.open /\ edit'.loading => edit.open /\ edit.loading
    BY <1>5 DEF ConfirmDeleteTest, CancelDeleteTest, ConfirmDeleteBook, CancelDeleteBook,
       CloseEdit, FillEdit, CloseFresh, CloseBook, ToggleSubject, bookVars, ClosedEdit
  <2>4. fresh'.open /\ fresh'.loading => fresh.open /\ fresh.loading
    BY <1>5 DEF ConfirmDeleteTest, CancelDeleteTest, ConfirmDeleteBook, CancelDeleteBook,
       CloseEdit, FillEdit, CloseFresh, CloseBook, ToggleSubject, bookVars, ClosedFresh
  <2>5. /\ book'.open /\ book'.loading => book.open /\ book.loading
        /\ book'.fetching => book.fetching
    <3>1. CASE CloseBook
      BY <3>1 DEF CloseBook, ClosedBook, Cleared, Nulled, Emptied
    <3>2. CASE ToggleSubject BY <3>2 DEF ToggleSubject
    <3>3. CASE ~CloseBook /\ ~ToggleSubject
      BY <1>5, <3>3 DEF ConfirmDeleteTest, CancelDeleteTest, ConfirmDeleteBook, CancelDeleteBook,
         CloseEdit, FillEdit, CloseFresh, bookVars
    <3> QED BY <3>1, <3>2, <3>3
  <2> QED BY <1>5, <2>1, <2>2, <2>3, <2>4, <2>5, SpinBooks
<1>6. ASSUME page \in BookPages,
             \/ (\E x \in Tests : EditTest(x)) \/ DeleteTest \/ DeleteBook \/ SaveTest \/ OpenFresh
             \/ SaveFresh \/ SaveBook
      PROVE  SpinInv'
  <2>1. UNCHANGED <<page, isLoading, fetchingTests>>
    BY <1>6 DEF EditTest, DeleteTest, DeleteBook, SaveTest, OpenFresh, SaveFresh, SaveBook,
       ownButNet, bookVars
  <2>2. CASE \E x \in Tests : EditTest(x)
    <3>1. /\ \E x : net' = Append(net, Request("testLoad", x))
          /\ UNCHANGED <<fresh, book>>
      BY <2>2 DEF EditTest
    <3>2. Sends({}, {"testLoad"}) BY <3>1, Sending
    <3> QED BY <1>6, <2>1, <3>1, <3>2, SpinBooks
  <2>3. CASE DeleteTest \/ DeleteBook \/ SaveTest \/ SaveFresh \/ SaveBook
    <3>1. \E op, a : net' = Append(net, Request(op, a))
      BY <2>3 DEF DeleteTest, DeleteBook, SaveTest, SaveFresh, SaveBook
    <3>2. PICK op : Sends({}, {op}) BY <3>1, Sending
    <3>3. /\ edit'.open = edit.open /\ edit'.loading = edit.loading
          /\ fresh'.open = fresh.open /\ fresh'.loading = fresh.loading
          /\ book'.open = book.open /\ book'.loading = book.loading
          /\ book'.fetching = book.fetching
      BY <2>3 DEF DeleteTest, DeleteBook, SaveTest, SaveFresh, SaveBook, bookVars
    <3> QED BY <1>6, <2>1, <3>2, <3>3, SpinBooks
  <2>4. CASE OpenFresh
    <3>1. net' = Append(net, Request("freshBook", None)) /\ UNCHANGED <<edit, book>>
      BY <2>4 DEF OpenFresh
    <3>2. Sends({}, {"freshBook"}) BY <3>1, Sending
    <3> QED BY <1>6, <2>1, <3>1, <3>2, SpinBooks
  <2> QED BY <1>6, <2>2, <2>3, <2>4
<1>7. ASSUME page \in BookPages, OpenBook PROVE SpinInv'
  <2>1. UNCHANGED <<page, isLoading, fetchingTests, edit, fresh>> BY <1>7 DEF OpenBook, ownButNet
  <2>2. CASE net' = net /\ book' = [Cleared(book) EXCEPT !.open = TRUE, !.loading = FALSE]
    <3>1. ~book'.loading /\ book'.fetching = book.fetching BY <2>2 DEF Cleared, Emptied
    <3>2. Sends({}, {}) BY <2>2, Sending
    <3> QED BY <1>7, <2>1, <3>1, <3>2, SpinBooks
  <2>3. CASE /\ net' = Append(net, Request("bookLoad", None))
             /\ book' = [book EXCEPT !.open = TRUE, !.loading = TRUE]
    <3>1. Sends({}, {"bookLoad"}) BY <2>3, Sending
    <3>2. book'.fetching = book.fetching BY <2>3
    <3> QED BY <1>7, <2>1, <3>1, <3>2, SpinBooks
  <2> QED BY <1>7, <2>2, <2>3 DEF OpenBook
<1>8. ASSUME page \in BookPages, NEW b \in BookType, Reselected(b),
             UNCHANGED <<ownButNet, isSubmitting, hasBook, fetchingTests, bookDialog, edit, fresh, uses>>,
             b.open = book.open, b.loading = book.loading, b.fetching = book.fetching
      PROVE  SpinInv'
  <2>1. UNCHANGED <<page, isLoading, fetchingTests, edit, fresh>> BY <1>8 DEF ownButNet
  <2>2. book'.open = book.open /\ book'.loading = book.loading BY <1>8 DEF Reselected
  <2>3. CASE Selected(b) # None
    <3>1. net' = Append(net, Request("subjects", [pair |-> Selected(b), select |-> FALSE]))
      BY <1>8, <2>3 DEF Reselected, SubjectsRequest
    <3>2. Sends({}, {"subjects"}) BY <3>1, Sending
    <3> QED BY <1>8, <2>1, <2>2, <3>2, SpinBooks
  <2>4. CASE Selected(b) = None
    <3>1. net' = net BY <1>8, <2>4 DEF Reselected
    <3>2. Sends({}, {}) BY <3>1, Sending
    <3>3. book'.fetching => book.fetching
      <4>1. book'.fetching = (b.fetching \/ FALSE) BY <1>8, <2>4 DEF Reselected
      <4> QED BY <1>8, <4>1
    <3> QED BY <1>8, <2>1, <2>2, <3>2, <3>3, SpinBooks
  <2> QED BY <2>3, <2>4
<1>9. ASSUME page \in BookPages,
             (\E e \in Exams : SelectExam(e)) \/ \E l \in Lessons : SelectLesson(l)
      PROVE  SpinInv'
  <2>1. ASSUME NEW e \in Exams, SelectExam(e) PROVE SpinInv'
    <3> DEFINE b == [book EXCEPT !.exam = e]
    <3>1. /\ b \in BookType /\ b.open = book.open /\ b.loading = book.loading
          /\ b.fetching = book.fetching
      OBVIOUS
    <3>2. /\ Reselected(b)
          /\ UNCHANGED <<ownButNet, isSubmitting, hasBook, fetchingTests, bookDialog, edit, fresh, uses>>
      BY <2>1 DEF SelectExam
    <3> HIDE DEF b
    <3> QED BY <1>8, <1>9, <3>1, <3>2
  <2>2. ASSUME NEW l \in Lessons, SelectLesson(l) PROVE SpinInv'
    <3> DEFINE b == [book EXCEPT !.lesson = l]
    <3>1. /\ b \in BookType /\ b.open = book.open /\ b.loading = book.loading
          /\ b.fetching = book.fetching
      OBVIOUS
    <3>2. /\ Reselected(b)
          /\ UNCHANGED <<ownButNet, isSubmitting, hasBook, fetchingTests, bookDialog, edit, fresh, uses>>
      BY <2>2 DEF SelectLesson
    <3> HIDE DEF b
    <3> QED BY <1>8, <1>9, <3>1, <3>2
  <2> QED BY <1>9, <2>1, <2>2
\* The answers.
<1>10. ASSUME NEW i \in DOMAIN net, page \in BookPages,
              DataCame(i) \/ CountsCame(i) \/ BookLoaded(i) \/ TestsCame(i)
       PROVE  SpinInv'
  <2>1. UNCHANGED <<page, edit, fresh, book>> /\ net[i].op \in {"data", "counts", "book", "tests"}
    BY <1>10 DEF DataCame, CountsCame, BookLoaded, TestsCame, BookCame, bookVars
  <2>2. CASE /\ net' = Without(i) /\ ~isLoading'
             /\ fetchingTests' => fetchingTests /\ net[i].op # "tests"
    <3>1. Sends({net[i].op}, {}) BY <2>2, Taking
    <3> QED BY <1>10, <2>1, <2>2, <3>1, SpinBooks
  <2>3. CASE net' = Without(i) \o <<Request("counts", None)>> /\ DataCame(i)
    <3>1. Sends({"data"}, {"counts"}) BY <2>3, Taking DEF DataCame, BookCame
    <3>2. fetchingTests' = fetchingTests BY <2>3 DEF DataCame, bookVars
    <3> QED BY <1>10, <2>1, <3>1, <3>2, SpinBooks
  <2>4. CASE net' = Without(i) \o <<Request("tests", None)>> /\ BookLoaded(i)
    <3>1. Sends({"book"}, {"tests"}) BY <2>4, Taking DEF BookLoaded, BookCame
    <3> QED BY <1>10, <2>1, <3>1, SpinBooks
  <2>5. CASE DataCame(i) BY <2>2, <2>3, <2>5 DEF DataCame, BookCame, bookVars
  <2>6. CASE CountsCame(i) BY <2>2, <2>6 DEF CountsCame, BookCame, bookVars
  <2>7. CASE BookLoaded(i)
    <3>1. \/ net' = Without(i) \o <<Request("tests", None)>>
          \/ net' = Without(i) /\ isLoading' = FALSE /\ fetchingTests' = fetchingTests
      BY <2>7 DEF BookLoaded
    <3>2. net[i].op = "book" BY <2>7 DEF BookLoaded, BookCame
    <3> QED BY <2>2, <2>4, <2>7, <3>1, <3>2
  <2>8. CASE TestsCame(i) BY <2>2, <2>8 DEF TestsCame
  <2> QED BY <1>10, <2>5, <2>6, <2>7, <2>8
<1>11. ASSUME NEW i \in DOMAIN net, page \in BookPages,
              TestDeleted(i) \/ TestNotDeleted(i) \/ BookNotDeleted(i)
       PROVE  SpinInv'
  <2>1. UNCHANGED <<page, isLoading, edit, fresh, book>> /\ net[i].op \in {"delete", "deleteBook"}
    BY <1>11 DEF TestDeleted, TestNotDeleted, BookNotDeleted, BookCame, bookVars
  <2>2. CASE net' = Without(i) /\ fetchingTests' = fetchingTests
    <3>1. Sends({net[i].op}, {}) BY <2>2, Taking
    <3> QED BY <1>11, <2>1, <2>2, <3>1, SpinBooks
  <2>3. CASE net' = Without(i) \o <<Request("tests", None)>>
    <3>1. Sends({net[i].op}, {"tests"}) BY <2>3, Taking
    <3> QED BY <1>11, <2>1, <3>1, SpinBooks
  <2> QED BY <1>11, <2>2, <2>3 DEF TestDeleted, TestNotDeleted, BookNotDeleted, bookVars
<1>12. ASSUME NEW i \in DOMAIN net, page \in BookPages, BookDeleted(i) PROVE SpinInv'
  BY <1>3, <1>12 DEF BookDeleted
<1>13. ASSUME NEW i \in DOMAIN net, page \in BookPages, TestLoadCame(i) PROVE SpinInv'
  <2>1. /\ UNCHANGED <<page, isLoading, fetchingTests, fresh, book>> /\ net[i].op = "testLoad"
        /\ net' = Without(i)
    BY <1>13 DEF TestLoadCame, BookCame, ownButNet
  <2>2. ~edit'.loading BY <1>13 DEF TestLoadCame
  <2>3. Sends({"testLoad"}, {}) BY <2>1, Taking
  <2> QED BY <1>13, <2>1, <2>2, <2>3, SpinBooks
<1>14. ASSUME NEW i \in DOMAIN net, page \in BookPages, TestSaved(i) \/ TestNotSaved(i)
       PROVE  SpinInv'
  <2>1. UNCHANGED <<page, isLoading, fresh, book>> /\ net[i].op = "testSave"
    BY <1>14 DEF TestSaved, TestNotSaved, BookCame, ownButNet
  <2>2. edit'.open /\ edit'.loading => edit.open /\ edit.loading
    BY <1>14 DEF TestSaved, TestNotSaved, ClosedEdit
  <2>3. CASE net' = Without(i) /\ fetchingTests' = fetchingTests
    <3>1. Sends({"testSave"}, {}) BY <2>1, <2>3, Taking
    <3> QED BY <1>14, <2>1, <2>2, <2>3, <3>1, SpinBooks
  <2>4. CASE net' = Without(i) \o <<Request("tests", None)>>
    <3>1. Sends({"testSave"}, {"tests"}) BY <2>1, <2>4, Taking
    <3> QED BY <1>14, <2>1, <2>2, <3>1, SpinBooks
  <2> QED BY <1>14, <2>3, <2>4 DEF TestSaved, TestNotSaved
<1>15. ASSUME NEW i \in DOMAIN net, page \in BookPages, FreshCame(i) \/ FreshSaved(i)
       PROVE  SpinInv'
  <2>1. UNCHANGED <<page, isLoading, edit, book>> BY <1>15 DEF FreshCame, FreshSaved, ownButNet
  <2>2. CASE FreshCame(i)
    <3>1. /\ net' = Without(i) /\ fetchingTests' = fetchingTests /\ ~fresh'.loading
          /\ net[i].op = "freshBook"
      BY <2>2 DEF FreshCame, BookCame
    <3>2. Sends({"freshBook"}, {}) BY <3>1, Taking
    <3> QED BY <1>15, <2>1, <3>1, <3>2, SpinBooks
  <2>3. CASE FreshSaved(i)
    <3>1. /\ net[i].op = "freshSave"
          /\ fresh'.open /\ fresh'.loading => fresh.open /\ fresh.loading
      BY <2>3 DEF FreshSaved, BookCame, ClosedFresh
    <3>2. CASE net' = Without(i) /\ fetchingTests' = fetchingTests
      <4>1. Sends({"freshSave"}, {}) BY <3>1, <3>2, Taking
      <4> QED BY <1>15, <2>1, <3>1, <3>2, <4>1, SpinBooks
    <3>3. CASE net' = Without(i) \o <<Request("tests", None)>>
      <4>1. Sends({"freshSave"}, {"tests"}) BY <3>1, <3>3, Taking
      <4> QED BY <1>15, <2>1, <3>1, <4>1, SpinBooks
    <3> QED BY <2>3, <3>2, <3>3 DEF FreshSaved
  <2> QED BY <1>15, <2>2, <2>3
<1>16. ASSUME NEW i \in DOMAIN net, page \in BookPages, BookLoadCame(i) PROVE SpinInv'
  <2>1. /\ UNCHANGED <<page, isLoading, fetchingTests, edit, fresh>> /\ net[i].op = "bookLoad"
    BY <1>16 DEF BookLoadCame, BookCame, ownButNet
  <2>2. CASE net' = Without(i) \o <<SubjectsRequest(TheBook, TRUE)>> /\ ~book'.loading
    <3>1. Sends({"bookLoad"}, {"subjects"}) BY <2>1, <2>2, Taking DEF SubjectsRequest
    <3> QED BY <1>16, <2>1, <2>2, <3>1, SpinBooks
  <2>3. CASE net' = Without(i) /\ book' = [book EXCEPT !.loading = FALSE]
    <3>1. Sends({"bookLoad"}, {}) BY <2>1, <2>3, Taking
    <3>2. ~book'.loading /\ book'.fetching = book.fetching BY <2>3
    <3> QED BY <1>16, <2>1, <3>1, <3>2, SpinBooks
  <2>4. \/ net' = Without(i) \o <<SubjectsRequest(TheBook, TRUE)>> /\ ~book'.loading
        \/ net' = Without(i) /\ book' = [book EXCEPT !.loading = FALSE]
    BY <1>16 DEF BookLoadCame
  <2> QED BY <2>2, <2>3, <2>4
<1>17. ASSUME NEW i \in DOMAIN net, page \in BookPages, SubjectsCame(i) PROVE SpinInv'
  <2>1. /\ UNCHANGED <<page, isLoading, fetchingTests, edit, fresh>> /\ net[i].op = "subjects"
        /\ net' = Without(i)
    BY <1>17 DEF SubjectsCame, BookCame, ownButNet
  <2>2. ~book'.fetching /\ book'.open = book.open /\ book'.loading = book.loading
    BY <1>17 DEF SubjectsCame
  <2>3. Sends({"subjects"}, {}) BY <2>1, Taking
  <2> QED BY <1>17, <2>1, <2>2, <2>3, SpinBooks
<1>18. ASSUME NEW i \in DOMAIN net, page \in BookPages, BookNotSaved(i) PROVE SpinInv'
  <2>1. /\ UNCHANGED <<page, isLoading, fetchingTests, edit, fresh>> /\ net[i].op = "bookSave"
        /\ net' = Without(i)
    BY <1>18 DEF BookNotSaved, BookCame, ownButNet
  <2>2. book'.fetching = book.fetching /\ book'.open = book.open /\ book'.loading = book.loading
    BY <1>18 DEF BookNotSaved
  <2>3. Sends({"bookSave"}, {}) BY <2>1, Taking
  <2> QED BY <1>18, <2>1, <2>2, <2>3, SpinBooks
<1>19. ASSUME NEW i \in DOMAIN net, page \in BookPages, BookSaved(i) PROVE SpinInv'
  <2>1. UNCHANGED <<page, edit, fresh>> /\ net[i].op = "bookSave"
    BY <1>19 DEF BookSaved, BookCame
  <2>2. ~book'.open /\ book'.fetching = book.fetching
    <3> DEFINE b == [book EXCEPT !.saving = FALSE]
    <3>1. b \in BookType /\ b.fetching = book.fetching OBVIOUS
    <3>2. book' = ClosedBook(b) BY <1>19 DEF BookSaved
    <3> HIDE DEF b
    <3> QED BY <3>1, <3>2 DEF ClosedBook, Cleared, Nulled, Emptied
  <2>3. CASE page = "admin"
    <3>1. net' = Without(i) \o <<Request("data", None)>> BY <1>19, <2>3 DEF BookSaved
    <3>2. fetchingTests' => fetchingTests BY <1>19, <2>3 DEF BookSaved, BooksTypeOK
    <3>3. Sends({"bookSave"}, {"data"}) BY <2>1, <3>1, Taking
    <3> QED BY <1>19, <2>1, <2>2, <3>2, <3>3, SpinBooks
  <2>4. CASE page # "admin"
    <3>1. net' = Without(i) \o <<Request("book", None), Request("tests", None)>>
      BY <1>19, <2>4 DEF BookSaved
    <3>2. Sends({"bookSave"}, {"book", "tests"}) BY <2>1, <3>1, Taking
    <3> QED BY <1>19, <2>1, <2>2, <3>2, SpinBooks
  <2> QED BY <2>3, <2>4
<1> QED BY <1>2, <1>4, <1>5, <1>6, <1>7, <1>9, <1>10, <1>11, <1>12, <1>13, <1>14, <1>15, <1>16,
           <1>17, <1>18, <1>19
        DEF BooksNext, OnBookPage, BookAnswer

\* SpinnersAreBacked, for every set of rows, tests and results and any number of requests
\* under way: no page and no modal shows a spinner with nothing to wait for, whichever
\* request failed, whichever modal was closed and opened again meanwhile.
THEOREM NoSpinnerIsStuck == Spec => []SpinnersAreBacked
<1>1. Init => SpinInv
  <2> SUFFICES ASSUME Init PROVE SpinInv OBVIOUS
  <2>1. /\ page = None /\ ~isLoading /\ ~redirected /\ BooksQuiet /\ ~modal.loading
    BY DEF Init, PageInit, BooksInit, StudentInit, BooksQuiet, NoEdit, NoFresh, NoBook, NoModal
  <2> QED BY <2>1 DEF SpinInv, SpinnersAreBacked, Still, BooksQuiet
<1>2. SavesInv /\ TypeOK /\ SpinInv /\ [Next]_vars => SpinInv'
  <2> SUFFICES ASSUME SavesInv, TypeOK, SpinInv, [Next]_vars PROVE SpinInv' OBVIOUS
  <2>1. ASSUME UNCHANGED <<page, net, isLoading, bookVars, studentVars>> PROVE SpinInv'
    BY <2>1 DEF SpinInv, SpinnersAreBacked, Still, BooksQuiet, Awaits, Pending, PageLoads, bookVars,
       studentVars
  <2>2. CASE UNCHANGED vars BY <2>1, <2>2 DEF vars, pageVars
  <2>3. CASE OrphanCame
    <3>1. CASE UNCHANGED <<page, net, isLoading, isSubmitting, warned, tardy, dialog, listVars,
                           formVars, bookVars, studentVars>>
      BY <2>1, <3>1
    <3>2. CASE Unmount(orphans - 1 + Abandoned) /\ ForgetBooks /\ ResetStudent
      <4>1. BooksQuiet' BY <3>2 DEF ForgetBooks, BooksQuiet, NoEdit, NoFresh, NoBook
      <4> QED BY <3>2, <4>1, SpinGone DEF Unmount, ResetStudent, NoModal
    <3> QED BY <2>3, <3>1, <3>2, Zenon DEF OrphanCame
  <2> QED BY <2>2, <2>3, ListsSpin, FormsSpin, BooksSpin, StudentSpin DEF Next, TypeOK
<1>3. SpinInv => SpinnersAreBacked BY DEF SpinInv
<1> QED BY <1>1, <1>2, <1>3, SavesInvariant, TypeCorrect, PTL DEF Spec
===============================================================================
