----------------------------- MODULE PagesProofs ------------------------------
(***************************************************************************)
(* What the pages show: proofs about the browser application of Pages, for *)
(* every set of rows, tests and results and any number of requests under   *)
(* way.  The argument is about live requests: of the requests of one kind  *)
(* the one sent last stands for what the page's controls ask for, and its  *)
(* answer, whenever it comes, either ends the claim or makes it true.      *)
(***************************************************************************)
EXTENDS Pages, TLAPS

-----------------------------------------------------------------------------
(* Sequences of requests *)

\* s is a sequence, of whatever.
IsSeq(s) == \E n \in Nat : s = [k \in 1 .. n |-> s[k]]

\* Length and domain of a sequence.
LEMMA SeqFacts ==
  ASSUME NEW s, IsSeq(s)
  PROVE  /\ Len(s) \in Nat
         /\ DOMAIN s = 1 .. Len(s)
BY DEF IsSeq

\* The sequences of no, one and two members.
LEMMA TupleFacts ==
  /\ IsSeq(<<>>) /\ DOMAIN <<>> = {}
  /\ \A a : IsSeq(<<a>>) /\ DOMAIN <<a>> = 1 .. 1 /\ <<a>>[1] = a
  /\ \A a, b : /\ IsSeq(<<a, b>>) /\ DOMAIN <<a, b>> = 1 .. 2
               /\ <<a, b>>[1] = a /\ <<a, b>>[2] = b
<1>1. IsSeq(<<>>) /\ DOMAIN <<>> = {}
  <2>1. <<>> = [k \in 1 .. 0 |-> <<>>[k]] OBVIOUS
  <2> QED BY <2>1 DEF IsSeq
<1>2. ASSUME NEW a PROVE IsSeq(<<a>>) /\ DOMAIN <<a>> = 1 .. 1 /\ <<a>>[1] = a
  <2>1. <<a>> = [k \in 1 .. 1 |-> <<a>>[k]] OBVIOUS
  <2> QED BY <2>1 DEF IsSeq
<1>3. ASSUME NEW a, NEW b
      PROVE IsSeq(<<a, b>>) /\ DOMAIN <<a, b>> = 1 .. 2 /\ <<a, b>>[1] = a /\ <<a, b>>[2] = b
  <2>1. <<a, b>> = [k \in 1 .. 2 |-> <<a, b>>[k]] OBVIOUS
  <2> QED BY <2>1 DEF IsSeq
<1> QED BY <1>1, <1>2, <1>3

\* What a member at the end changes.
LEMMA AppendFacts ==
  ASSUME NEW s, NEW e, IsSeq(s)
  PROVE  /\ IsSeq(Append(s, e))
         /\ DOMAIN Append(s, e) = 1 .. Len(s) + 1
         /\ Len(Append(s, e)) = Len(s) + 1
         /\ \A k \in DOMAIN s : Append(s, e)[k] = s[k]
         /\ Append(s, e)[Len(s) + 1] = e
<1> PICK n \in Nat : s = [k \in 1 .. n |-> s[k]] BY DEF IsSeq
<1>1. Len(s) = n OBVIOUS
<1>2. Append(s, e) = [k \in 1 .. n + 1 |-> IF k <= n THEN s[k] ELSE e] BY <1>1
<1>3. IsSeq(Append(s, e))
  <2>1. n + 1 \in Nat /\ Append(s, e) = [k \in 1 .. n + 1 |-> Append(s, e)[k]] BY <1>2
  <2> QED BY <2>1 DEF IsSeq
<1>4. Len(Append(s, e)) = n + 1 /\ DOMAIN Append(s, e) = 1 .. n + 1 BY <1>2
<1>5. \A k \in 1 .. n : Append(s, e)[k] = s[k] BY <1>2
<1>6. Append(s, e)[n + 1] = e BY <1>2
<1> QED BY <1>1, <1>3, <1>4, <1>5, <1>6

\* The members of two sequences put together.
LEMMA ConcatFacts ==
  ASSUME NEW s, NEW t, IsSeq(s), IsSeq(t)
  PROVE  /\ IsSeq(s \o t)
         /\ Len(s \o t) = Len(s) + Len(t)
         /\ DOMAIN (s \o t) = 1 .. Len(s) + Len(t)
         /\ \A k \in DOMAIN (s \o t) : (s \o t)[k] = IF k <= Len(s) THEN s[k] ELSE t[k - Len(s)]
<1> PICK n \in Nat : s = [k \in 1 .. n |-> s[k]] BY DEF IsSeq
<1> PICK m \in Nat : t = [k \in 1 .. m |-> t[k]] BY DEF IsSeq
<1>1. Len(s) = n /\ Len(t) = m OBVIOUS
<1>2. s \o t = [k \in 1 .. n + m |-> IF k <= n THEN s[k] ELSE t[k - n]] BY <1>1
<1>3. IsSeq(s \o t)
  <2>1. n + m \in Nat /\ s \o t = [k \in 1 .. n + m |-> (s \o t)[k]] BY <1>2
  <2> QED BY <2>1 DEF IsSeq
<1>4. Len(s \o t) = n + m /\ DOMAIN (s \o t) = 1 .. n + m BY <1>2
<1> QED BY <1>1, <1>2, <1>3, <1>4

\* Appending is putting together with a sequence of one, or of none.
LEMMA AppendOne ==
  ASSUME NEW s, IsSeq(s), NEW r
  PROVE  s \o <<>> = s /\ s \o <<r>> = Append(s, r)
<1> PICK n \in Nat : s = [k \in 1 .. n |-> s[k]] BY DEF IsSeq
<1>1. Len(s) = n OBVIOUS
<1>2. s \o <<>> = [k \in 1 .. n |-> s[k]] BY <1>1
<1>3. s \o <<r>> = [k \in 1 .. n + 1 |-> IF k <= n THEN s[k] ELSE r] BY <1>1
<1>4. Append(s, r) = [k \in 1 .. n + 1 |-> IF k <= n THEN s[k] ELSE r] BY <1>1
<1> QED BY <1>2, <1>3, <1>4

\* The requests under way when the answer to one was taken: those sent before
\* it are marked, those sent after it move up.
LEMMA WithoutFacts ==
  ASSUME NEW i \in DOMAIN net, IsSeq(net)
  PROVE  /\ IsSeq(Without(i))
         /\ Len(Without(i)) = Len(net) - 1
         /\ DOMAIN Without(i) = 1 .. Len(net) - 1
         /\ \A k \in DOMAIN Without(i) :
              Without(i)[k] = IF k < i THEN Overtaken(net[k], net[i].op) ELSE net[k + 1]
<1>1. Len(net) \in Nat /\ i \in 1 .. Len(net) BY SeqFacts
<1>2. PICK n \in Nat : n = Len(net) - 1 BY <1>1
<1>3. Without(i) = [k \in 1 .. n |-> IF k < i THEN Overtaken(net[k], net[i].op) ELSE net[k + 1]]
  BY <1>2 DEF Without
<1>4. IsSeq(Without(i))
  <2>1. Without(i) = [k \in 1 .. n |-> Without(i)[k]] BY <1>3
  <2> QED BY <2>1 DEF IsSeq
<1>5. Len(Without(i)) = n /\ DOMAIN Without(i) = 1 .. n BY <1>3
<1> QED BY <1>2, <1>3, <1>4, <1>5

-----------------------------------------------------------------------------
(* Live requests: the last one of its kind, not overtaken *)

\* The request of its kind sent last, not overtaken: it carries a, and the server has
\* answered g.
LiveAs(s, op, a, g) ==
  \E k \in DOMAIN s :
    /\ s[k].op = op /\ ~s[k].old /\ s[k].arg = a /\ s[k].got = g
    /\ \A j \in DOMAIN s : j > k => s[j].op # op

\* The same, whatever the server has answered.
Live(s, op, a) == \E g : LiveAs(s, op, a, g)

\* Every request of the kind was overtaken.
AllOld(s, op) == \A k \in DOMAIN s : s[k].op = op => s[k].old

\* Being overtaken changes nothing else.
LEMMA OldFacts ==
  ASSUME NEW r, NEW op
  PROVE  /\ Overtaken(r, op).op = r.op /\ Overtaken(r, op).arg = r.arg
         /\ Overtaken(r, op).got = r.got
         /\ Overtaken(r, op).old <=> r.old \/ r.op = op
BY DEF Overtaken

\* The fields of a new request.
LEMMA RequestFacts ==
  ASSUME NEW op, NEW a
  PROVE  /\ Request(op, a).op = op /\ Request(op, a).arg = a
         /\ Request(op, a).got = None
         /\ ~Request(op, a).old
BY DEF Request

\* What a page sends as it opens or loads.
LEMMA RequestsFacts ==
  ASSUME NEW a, NEW x, NEW y
  PROVE  /\ Requests(<<>>, a) = <<>>
         /\ Requests(<<x>>, a) = <<Request(x, a)>>
         /\ Requests(<<x, y>>, a) = <<Request(x, a), Request(y, a)>>
BY DEF Requests

\* Requests overtaken stay so.
LEMMA OldStays ==
  ASSUME IsSeq(net), NEW i \in DOMAIN net, NEW op, AllOld(net, op)
  PROVE  AllOld(Without(i), op)
<1>1. Len(net) \in Nat /\ DOMAIN net = 1 .. Len(net) BY SeqFacts
<1>2. ASSUME NEW k \in DOMAIN Without(i), Without(i)[k].op = op PROVE Without(i)[k].old
  <2>1. k \in 1 .. Len(net) - 1 BY <1>2, WithoutFacts
  <2>0. k \in DOMAIN net /\ k + 1 \in DOMAIN net BY <1>1, <2>1
  <2>2. CASE k < i
    <3>1. Without(i)[k] = Overtaken(net[k], net[i].op) BY <2>2, WithoutFacts
    <3>2. net[k].op = op BY <1>2, <3>1, OldFacts
    <3>3. net[k].old BY <2>0, <3>2 DEF AllOld
    <3> QED BY <3>1, <3>3, OldFacts
  <2>3. CASE ~(k < i)
    <3>1. Without(i)[k] = net[k + 1] BY <2>3, WithoutFacts
    <3> QED BY <1>2, <2>0, <3>1 DEF AllOld
  <2> QED BY <2>2, <2>3
<1> QED BY <1>2 DEF AllOld

\* A live request stays live until its own answer is taken; then all that are left
\* of its kind were overtaken.
LEMMA LiveAsOrTaken ==
  ASSUME IsSeq(net), NEW i \in DOMAIN net, NEW op, NEW a, NEW g, LiveAs(net, op, a, g)
  PROVE  \/ LiveAs(Without(i), op, a, g)
         \/ /\ net[i].op = op /\ ~net[i].old /\ net[i].arg = a /\ net[i].got = g
            /\ AllOld(Without(i), op)
<1>1. Len(net) \in Nat /\ DOMAIN net = 1 .. Len(net) BY SeqFacts
<1> PICK k \in DOMAIN net :
      /\ net[k].op = op /\ ~net[k].old /\ net[k].arg = a /\ net[k].got = g
      /\ \A j \in DOMAIN net : j > k => net[j].op # op
  BY DEF LiveAs
<1> DEFINE w == Without(i)
<1>2. /\ DOMAIN w = 1 .. Len(net) - 1
      /\ \A j \in DOMAIN w : j < i => w[j] = Overtaken(net[j], net[i].op)
      /\ \A j \in DOMAIN w : ~(j < i) => w[j] = net[j + 1]
  BY WithoutFacts
<1> HIDE DEF w
<1>3. CASE i = k
  <2>1. ASSUME NEW j \in DOMAIN w, w[j].op = op PROVE w[j].old
    <3>1. CASE j < i
      <4>1. w[j] = Overtaken(net[j], op) BY <1>2, <1>3, <3>1
      <4>2. net[j].op = op BY <2>1, <4>1, OldFacts
      <4> QED BY <4>1, <4>2, OldFacts
    <3>2. CASE ~(j < i)
      <4>1. w[j] = net[j + 1] /\ j + 1 \in DOMAIN net /\ j + 1 > k
        BY <1>1, <1>2, <1>3, <3>2
      <4> QED BY <2>1, <4>1
    <3> QED BY <3>1, <3>2
  <2> QED BY <1>3, <2>1 DEF AllOld, w
<1>4. CASE k < i
  <2>1. net[i].op # op BY <1>1, <1>4
  <2>2. k \in DOMAIN w /\ w[k] = Overtaken(net[k], net[i].op) BY <1>1, <1>2, <1>4
  <2>3. w[k].op = op /\ ~w[k].old /\ w[k].arg = a /\ w[k].got = g BY <2>1, <2>2, OldFacts
  <2>4. ASSUME NEW j \in DOMAIN w, j > k PROVE w[j].op # op
    <3>1. CASE j < i
      <4>1. w[j].op = net[j].op /\ j \in DOMAIN net BY <1>1, <1>2, <3>1, OldFacts
      <4> QED BY <2>4, <4>1
    <3>2. CASE ~(j < i)
      <4>1. w[j] = net[j + 1] /\ j + 1 \in DOMAIN net /\ j + 1 > k BY <1>1, <1>2, <1>4, <3>2
      <4> QED BY <4>1
    <3> QED BY <3>1, <3>2
  <2> QED BY <2>2, <2>3, <2>4 DEF LiveAs, w
<1>5. CASE k > i
  <2>1. k - 1 \in DOMAIN w /\ w[k - 1] = net[k] BY <1>1, <1>2, <1>5
  <2>2. ASSUME NEW j \in DOMAIN w, j > k - 1 PROVE w[j].op # op
    <3>1. w[j] = net[j + 1] /\ j + 1 \in DOMAIN net /\ j + 1 > k BY <1>1, <1>2, <1>5, <2>2
    <3> QED BY <3>1
  <2> QED BY <2>1, <2>2 DEF LiveAs, w
<1> QED BY <1>1, <1>3, <1>4, <1>5

\* The same, whatever the server has answered.
LEMMA LiveOrTaken ==
  ASSUME IsSeq(net), NEW i \in DOMAIN net, NEW op, NEW a, Live(net, op, a)
  PROVE  \/ Live(Without(i), op, a)
         \/ /\ net[i].op = op /\ ~net[i].old /\ net[i].arg = a
            /\ AllOld(Without(i), op)
<1> PICK g : LiveAs(net, op, a, g) BY DEF Live
<1> QED BY LiveAsOrTaken DEF Live

\* A request just sent is live.
LEMMA AppendLive ==
  ASSUME NEW s, IsSeq(s), NEW op, NEW a
  PROVE  /\ LiveAs(Append(s, Request(op, a)), op, a, None)
         /\ Live(Append(s, Request(op, a)), op, a)
<1> DEFINE t == Append(s, Request(op, a))
<1>1. Len(s) \in Nat BY SeqFacts
<1>2. DOMAIN t = 1 .. Len(s) + 1 /\ t[Len(s) + 1] = Request(op, a) BY AppendFacts
<1> HIDE DEF t
<1>3. Len(s) + 1 \in DOMAIN t /\ \A j \in DOMAIN t : ~(j > Len(s) + 1) BY <1>1, <1>2
<1>4. LiveAs(t, op, a, None) BY <1>2, <1>3, RequestFacts DEF LiveAs
<1> QED BY <1>4 DEF Live, t

\* A request of another kind, or none, disturbs no live one.
LEMMA AppendOther ==
  ASSUME NEW s, IsSeq(s), NEW r, NEW op, r.op # op
  PROVE  /\ AllOld(s, op) => AllOld(Append(s, r), op)
         /\ \A a, g : LiveAs(s, op, a, g) => LiveAs(Append(s, r), op, a, g)
         /\ \A a : Live(s, op, a) => Live(Append(s, r), op, a)
<1> DEFINE t == Append(s, r)
<1>1. Len(s) \in Nat /\ DOMAIN s = 1 .. Len(s) BY SeqFacts
<1>2. /\ DOMAIN t = 1 .. Len(s) + 1 /\ t[Len(s) + 1] = r
      /\ \A k \in DOMAIN s : t[k] = s[k]
  BY AppendFacts
<1> HIDE DEF t
<1>3. \A k \in DOMAIN t : k \in DOMAIN s \/ t[k].op # op BY <1>1, <1>2
<1>4. AllOld(s, op) => AllOld(t, op) BY <1>2, <1>3 DEF AllOld
<1>5. ASSUME NEW a, NEW g, LiveAs(s, op, a, g) PROVE LiveAs(t, op, a, g)
  <2> PICK k \in DOMAIN s :
        /\ s[k].op = op /\ ~s[k].old /\ s[k].arg = a /\ s[k].got = g
        /\ \A j \in DOMAIN s : j > k => s[j].op # op
    BY <1>5 DEF LiveAs
  <2>1. k \in DOMAIN t /\ t[k] = s[k] BY <1>1, <1>2
  <2>2. \A j \in DOMAIN t : j > k => t[j].op # op BY <1>2, <1>3
  <2> QED BY <2>1, <2>2 DEF LiveAs
<1>6. \A a : Live(s, op, a) => Live(t, op, a) BY <1>5 DEF Live
<1> QED BY <1>4, <1>5, <1>6 DEF t

\* Without a request of the kind, all are overtaken and none is live.
LEMMA NothingPending ==
  ASSUME NEW op, op \notin Pending
  PROVE  /\ AllOld(net, op)
         /\ \A a : ~Live(net, op, a)
BY DEF Pending, AllOld, Live, LiveAs

-----------------------------------------------------------------------------
(* Which page a step leads to *)

\* The pages there are.
AllPages == ListPages \cup FormPages \cup BookPages \cup StudentPageNames

\* The four modules name different pages, and None is no page.
LEMMA PageNames ==
  /\ None \notin AllPages
  /\ ListPages \cap FormPages = {} /\ ListPages \cap BookPages = {}
  /\ ListPages \cap StudentPageNames = {} /\ FormPages \cap BookPages = {}
  /\ FormPages \cap StudentPageNames = {} /\ BookPages \cap StudentPageNames = {}
BY PagesAssumption
   DEF AllPages, ListPages, FormPages, BookPages, StudentPageNames, Readers

\* What the listing pages have in common.
LEMMA ComponentFacts ==
  ASSUME NEW p \in ListPages
  PROVE  /\ Component[p].load = <<"rows">>
         /\ Component[p].then \in {<<>>, <<"lessons">>}
         /\ Component[p].open \in {<<"rows">>, <<"rows", "roles">>}
BY DEF Component, ListPages, ExamTypesList, LessonsList, RolesList, SubjectsList, UsersList, UserDetail

\* A step of a module starts and ends on its pages, or on none.
LEMMA ListsStay == ListsNext => {page, page'} \subseteq ListPages \cup {None}
<1> SUFFICES ASSUME ListsNext PROVE {page, page'} \subseteq ListPages \cup {None} OBVIOUS
<1>1. ASSUME NEW p \in ListPages, OpenList(p) PROVE {page, page'} \subseteq ListPages \cup {None}
  BY <1>1 DEF OpenList, Mount
<1>2. CASE LeaveList BY <1>2 DEF LeaveList, Unmount
<1>3. ASSUME NEW x \in Items, ConfirmDelete(x) \/ AssignRole(x)
      PROVE {page, page'} \subseteq ListPages \cup {None}
  BY <1>3 DEF ConfirmDelete, AssignRole, Clickable
<1>4. CASE CancelDelete \/ Delete \/ Search
  BY <1>4 DEF CancelDelete, Delete, Search, ListPages
<1>5. ASSUME NEW on, Filter(on) PROVE {page, page'} \subseteq ListPages \cup {None}
  BY <1>5 DEF Filter, Clickable
<1>6. ASSUME NEW n, GoToPage(n) PROVE {page, page'} \subseteq ListPages \cup {None}
  BY <1>6 DEF GoToPage, Clickable
<1>7. ASSUME NEW i, Serve(i) PROVE {page, page'} \subseteq ListPages \cup {None}
  BY <1>7 DEF Serve
<1>8. ASSUME NEW i, ListAnswer(i) PROVE {page, page'} \subseteq ListPages \cup {None}
  BY <1>8 DEF ListAnswer, RowsCame, RowsFailed, Came, LessonsCame, RolesCame, Deleted,
    DeleteFailed, Assigned, AssignFailed
<1> QED BY <1>1, <1>2, <1>3, <1>4, <1>5, <1>6, <1>7, <1>8 DEF ListsNext

\* The same of the forms.
LEMMA FormsStay == FormsNext => {page, page'} \subseteq FormPages \cup {None}
BY DEF FormsNext, OpenForm, LeaveForm, Mount, Unmount, Type, Submit, FormAnswer, OptionsCame,
  LoadCame, Saved, SaveFailed, FormCame, pageVars

\* The same of the pages of books.
LEMMA BooksStay == BooksNext => {page, page'} \subseteq BookPages \cup {None}
<1>1. CASE OpenAdmin \/ OpenTestBook \/ LeaveBooks
  BY <1>1 DEF OpenAdmin, OpenTestBook, LeaveBooks, Mount, Unmount, BookPages
<1>2. CASE page \in BookPages /\ OnBookPage
  <2>1. page' = page \/ page' = None
    BY <1>2 DEF OnBookPage, ConfirmDeleteTest, EditTest, CancelDeleteTest, DeleteTest,
      ConfirmDeleteBook, CancelDeleteBook, DeleteBook, CloseEdit, FillEdit, SaveTest, OpenFresh,
      CloseFresh, SaveFresh, OpenBook, CloseBook, ToggleSubject, SaveBook, SelectExam,
      SelectLesson, BookAnswer, DataCame, CountsCame, BookLoaded, TestsCame, TestDeleted,
      TestNotDeleted, BookDeleted, BookNotDeleted, TestLoadCame, TestSaved, TestNotSaved,
      FreshCame, FreshSaved, BookLoadCame, SubjectsCame, BookSaved, BookNotSaved, Unmount,
      pageVars, ownButNet
  <2> QED BY <1>2, <2>1
<1> QED BY <1>1, <1>2 DEF BooksNext

\* The same of the student's pages; closing the modal looks at no page.
LEMMA StudentStays ==
  StudentNext => {page, page'} \subseteq StudentPageNames \cup {None} \/ CloseResultModal
<1> SUFFICES ASSUME StudentNext, ~CloseResultModal PROVE {page, page'} \subseteq StudentPageNames \cup {None}
  OBVIOUS
<1> QED
  BY DEF StudentNext, OpenReader, OpenDashboard, OpenAndRedirect, LeaveStudent, SelectExamType,
    SelectLessonOf, SearchBooks, ClearAllFilters, SubmitTest, OpenResultModal, OnDashboard,
    LoadBooks, StudentAnswer, ChoicesCame, BooksCame, PartCame, Solved, ModalResultCame,
    ModalKeyCame, StudentCame, InModal, Mount, Unmount, pageVars, StudentPageNames, Readers

\* A step that ends on a form and is not the form's leaves it as it was.
LEMMA Elsewhere ==
  ASSUME Next, ~FormsNext, page' \in FormPages
  PROVE  UNCHANGED <<formVars, page, net>>
<1>1. CASE ListsNext BY <1>1, ListsStay, PageNames DEF AllPages
<1>2. CASE BooksNext BY <1>2, BooksStay, PageNames DEF AllPages
<1>3. CASE StudentNext /\ UNCHANGED <<listVars, formVars, bookVars>>
  BY <1>3, StudentStays, PageNames DEF AllPages, CloseResultModal, pageVars, formVars
<1>4. CASE OrphanCame
  <2>1. \/ UNCHANGED <<page, net, isLoading, isSubmitting, warned, tardy, dialog, listVars,
                       formVars, bookVars, studentVars>>
        \/ page' = None
    BY <1>4, Zenon DEF OrphanCame, Unmount
  <2>2. page' # None BY PageNames DEF AllPages
  <2> QED BY <2>1, <2>2
<1> QED BY <1>1, <1>2, <1>3, <1>4 DEF Next

-----------------------------------------------------------------------------
(* The forms *)

\* What the forms keep: values with an origin, and no update that erases.
FormsInv ==
  /\ form \in [Fields -> Origins]
  /\ page \in FormPages => IsSeq(net)
  /\ NoUpdateErases

\* The request r erases nothing.
Complete(r) ==
  r.op = "save" /\ editing =>
    /\ r.arg["name"] # "blank"
    /\ FormOf[page].choice => r.arg["choice"] # "blank"
    /\ FormOf[page].extra = "optional" => r.arg["extra"] # "blank"

\* NoUpdateErases, request by request.
LEMMA AllComplete == NoUpdateErases <=> (page \in FormPages => \A k \in DOMAIN net : Complete(net[k]))
BY DEF NoUpdateErases, Complete

\* Taking an answer leaves the others complete.
LEMMA OthersComplete ==
  ASSUME FormsInv, page \in FormPages, NEW i \in DOMAIN net
  PROVE  IsSeq(Without(i)) /\ \A k \in DOMAIN Without(i) : Complete(Without(i)[k])
<1>1. IsSeq(net) /\ \A k \in DOMAIN net : Complete(net[k]) BY AllComplete DEF FormsInv
<1>2. Len(net) \in Nat /\ DOMAIN net = 1 .. Len(net) BY <1>1, SeqFacts
<1>3. ASSUME NEW k \in DOMAIN Without(i) PROVE Complete(Without(i)[k])
  <2>1. k \in 1 .. Len(net) - 1 BY <1>1, <1>3, WithoutFacts
  <2>2. CASE k < i
    <3>1. Without(i)[k] = Overtaken(net[k], net[i].op) BY <1>1, <1>3, <2>2, WithoutFacts
    <3>2. Complete(net[k]) BY <1>1, <1>2, <2>1
    <3> QED BY <3>1, <3>2 DEF Complete, Overtaken
  <2>3. CASE ~(k < i)
    <3>1. Without(i)[k] = net[k + 1] BY <1>1, <1>3, <2>3, WithoutFacts
    <3> QED BY <3>1, <1>1, <1>2, <2>1
  <2> QED BY <2>2, <2>3
<1> QED BY <1>1, <1>3, WithoutFacts

\* Every step of a form keeps the invariant: a form can only be submitted when its
\* required fields are filled, and an empty optional one is sent as undefined.
LEMMA FormsStep == FormsInv /\ FormsNext => FormsInv'
<1> SUFFICES ASSUME FormsInv, FormsNext PROVE FormsInv' OBVIOUS
<1> USE PageNames
<1>1. ASSUME NEW p \in FormPages, NEW e \in BOOLEAN, OpenForm(p, e) PROVE FormsInv'
  <2> DEFINE s == IF FormOf[p].choice THEN <<Request("options", None)>> ELSE <<>>
             t == IF e THEN <<Request("load", None)>> ELSE <<>>
  <2>1. net' = s \o t /\ page' = p /\ form' = form BY <1>1 DEF OpenForm, Mount
  <2>2. /\ IsSeq(s) /\ IsSeq(t)
        /\ \A k \in DOMAIN s : s[k].op # "save"
        /\ \A k \in DOMAIN t : t[k].op # "save"
    BY TupleFacts DEF Request
  <2>3. IsSeq(net') /\ \A k \in DOMAIN net' : net'[k].op # "save"
    <3> HIDE DEF s, t
    <3>1. Len(s) \in Nat /\ DOMAIN s = 1 .. Len(s) /\ Len(t) \in Nat /\ DOMAIN t = 1 .. Len(t)
      BY <2>2, SeqFacts
    <3> QED BY <2>1, <2>2, <3>1, ConcatFacts
  <2> QED BY <2>1, <2>3 DEF FormsInv, NoUpdateErases
<1>2. CASE LeaveForm \/ \E i \in DOMAIN net : Saved(i)
  <2>1. page' = None /\ form' = Blank
    BY <1>2 DEF LeaveForm, Saved, Unmount, CloseForm
  <2> QED BY <2>1 DEF FormsInv, NoUpdateErases, Blank, Origins, AllPages
<1>3. ASSUME NEW f \in Fields, Type(f) PROVE FormsInv'
  BY <1>3 DEF Type, FormsInv, NoUpdateErases, pageVars, Origins
<1>4. CASE Submit
  <2>1. /\ net' = Append(net, Request("save", Body))
        /\ page \in FormPages /\ page' = page /\ form' = form /\ editing' = editing /\ Valid
    BY <1>4 DEF Submit, formVars
  <2>2. IsSeq(net) /\ \A k \in DOMAIN net : Complete(net[k]) BY <2>1, AllComplete DEF FormsInv
  <2>3. Complete(Request("save", Body))
    <3>1. /\ Body["name"] = form["name"] /\ Body["choice"] = form["choice"]
          /\ FormOf[page].extra = "optional" => Body["extra"] # "blank"
      BY DEF FormsInv, Body, Unsent, Fields, Origins
    <3> QED BY <2>1, <3>1 DEF Complete, Request, Valid
  <2>4. Len(net) \in Nat /\ DOMAIN net = 1 .. Len(net) BY <2>2, SeqFacts
  <2>5. IsSeq(net') /\ \A k \in DOMAIN net' : Complete(net'[k])
    BY <2>1, <2>2, <2>3, <2>4, AppendFacts
  <2> QED BY <2>1, <2>5 DEF FormsInv, NoUpdateErases, Complete
<1>5. ASSUME NEW i \in DOMAIN net, OptionsCame(i) \/ LoadCame(i) \/ SaveFailed(i)
      PROVE FormsInv'
  <2>1. /\ page \in FormPages /\ net' = Without(i) /\ page' = page /\ editing' = editing
        /\ form' \in [Fields -> Origins]
    BY <1>5 DEF OptionsCame, LoadCame, SaveFailed, FormCame, formVars, FormsInv, Origins
  <2>2. IsSeq(net') /\ \A k \in DOMAIN net' : Complete(net'[k]) BY <2>1, OthersComplete
  <2> QED BY <2>1, <2>2 DEF FormsInv, NoUpdateErases, Complete
<1> QED BY <1>1, <1>2, <1>3, <1>4, <1>5 DEF FormsNext, FormAnswer

\* The invariant holds in every reachable state.
LEMMA FormsInvariant == Spec => []FormsInv
<1>1. Init => FormsInv
  BY PageNames DEF Init, PageInit, FormsInit, FormsInv, NoUpdateErases, Blank, Origins, AllPages
<1>2. FormsInv /\ [Next]_vars => FormsInv'
  <2> SUFFICES ASSUME FormsInv, [Next]_vars PROVE FormsInv' OBVIOUS
  <2>1. CASE UNCHANGED vars
    BY <2>1 DEF vars, pageVars, formVars, FormsInv, NoUpdateErases
  <2>2. CASE FormsNext BY <2>2, FormsStep
  <2>3. CASE Next /\ ~FormsNext /\ page' \in FormPages
    BY <2>3, Elsewhere DEF pageVars, formVars, FormsInv, NoUpdateErases
  <2>4. CASE Next /\ ~FormsNext /\ page' \notin FormPages
    <3>1. form' \in [Fields -> Origins]
      BY <2>4 DEF Next, OrphanCame, CloseForm, formVars, FormsInv, Blank, Origins
    <3> QED BY <2>4, <3>1 DEF FormsInv, NoUpdateErases
  <2> QED BY <2>1, <2>2, <2>3, <2>4
<1> QED BY <1>1, <1>2, PTL DEF Spec

\* NoUpdateErases, on every form: what submit puts into the body was loaded or typed,
\* after a load that failed and after a save that failed.
THEOREM UpdatesEraseNothing == Spec => []NoUpdateErases
BY FormsInvariant, PTL DEF FormsInv

-----------------------------------------------------------------------------
(* The student pages *)

\* Steps of other pages do not touch the student's.
LEMMA NotStudent ==
  ASSUME Next, ~StudentNext, page' \in StudentPageNames
  PROVE  UNCHANGED <<studentVars, page, net, warned, tardy>>
<1>1. CASE ListsNext BY <1>1, ListsStay, PageNames DEF AllPages
<1>2. CASE FormsNext BY <1>2, FormsStay, PageNames DEF AllPages
<1>3. CASE BooksNext BY <1>3, BooksStay, PageNames DEF AllPages
<1>4. CASE OrphanCame
  <2>1. \/ UNCHANGED <<page, net, isLoading, isSubmitting, warned, tardy, dialog, listVars,
                       formVars, bookVars, studentVars>>
        \/ page' = None
    BY <1>4, Zenon DEF OrphanCame, Unmount
  <2>2. page' # None BY PageNames DEF AllPages
  <2> QED BY <2>1, <2>2
<1> QED BY <1>1, <1>2, <1>3, <1>4 DEF Next

\* The dashboard warns, or the request for its query is live, or its answer is shown,
\* or an overtaken answer came last.
FilterInv ==
  page = "dashboard" /\ ~redirected =>
    /\ IsSeq(net)
    /\ \/ Live(net, "shown", query)
       \/ AllOld(net, "shown") /\ (warned \/ tardy \/ shown = query)

\* The invariant implies the property.
LEMMA FilterFits == FilterInv => BooksFitFilter
BY NothingPending DEF FilterInv, BooksFitFilter

\* Asking for the books of the query re-establishes the invariant.
LEMMA AskingBooks ==
  ASSUME FilterInv, page = "dashboard", NEW q, LoadBooks(q), query' = q
  PROVE  FilterInv'
<1> SUFFICES ASSUME ~redirected PROVE IsSeq(net') /\ Live(net', "shown", query')
  BY DEF FilterInv, LoadBooks
<1>1. IsSeq(net) BY DEF FilterInv
<1>2. net' = Append(net, Request("shown", query')) BY DEF LoadBooks
<1> QED BY <1>1, <1>2, AppendFacts, AppendLive

\* Every step of a student's page keeps the invariant.
LEMMA FilterStep == FilterInv /\ StudentNext => FilterInv'
<1> SUFFICES ASSUME FilterInv, StudentNext PROVE FilterInv' OBVIOUS
<1>1. CASE (\E p \in Readers : OpenReader(p)) \/ (\E p \in {"dashboard", "test-result"} : OpenAndRedirect(p))
  BY <1>1 DEF OpenReader, OpenAndRedirect, Mount, FilterInv, Readers
<1>2. CASE OpenDashboard
  <2>1. net' = <<Request("options", None), Request("shown", query)>> /\ query' = query
    BY <1>2 DEF OpenDashboard, Mount, studentVars
  <2>2. /\ IsSeq(net') /\ DOMAIN net' = 1 .. 2 /\ net'[2] = Request("shown", query)
    BY <2>1, TupleFacts
  <2>3. Live(net', "shown", query')
    <3>1. \A j \in DOMAIN net' : ~(j > 2) BY <2>2
    <3> QED BY <2>1, <2>2, <3>1, RequestFacts DEF Live, LiveAs
  <2> QED BY <2>2, <2>3 DEF FilterInv
<1>3. CASE LeaveStudent
  BY <1>3, PageNames DEF LeaveStudent, Unmount, FilterInv, AllPages, StudentPageNames
<1>4. ASSUME NEW on \in BOOLEAN, SelectExamType(on) \/ SelectLessonOf(on) \/ SearchBooks(on)
      PROVE  FilterInv'
  <2>1. page = "dashboard" /\ LoadBooks(query')
    BY <1>4 DEF SelectExamType, SelectLessonOf, SearchBooks, OnDashboard
  <2> QED BY <2>1, AskingBooks
<1>5. CASE ClearAllFilters
  <2>1. page = "dashboard" /\ LoadBooks(query')
    BY <1>5 DEF ClearAllFilters, FilterInv, OnDashboard
  <2> QED BY <2>1, AskingBooks
<1>6. CASE SubmitTest \/ (\E r \in Results : OpenResultModal(r))
  BY <1>6 DEF SubmitTest, OpenResultModal, FilterInv
<1>7. CASE CloseResultModal
  BY <1>7 DEF CloseResultModal, FilterInv, pageVars, dashboardVars
<1>8. ASSUME NEW i \in DOMAIN net, ChoicesCame(i) PROVE FilterInv'
  <2>1. /\ page = "dashboard" /\ net' = Without(i) /\ net[i].op # "shown"
        /\ UNCHANGED <<page, redirected, query, shown, tardy>> /\ (warned => warned')
    BY <1>8 DEF ChoicesCame, StudentCame
  <2> SUFFICES ASSUME ~redirected PROVE FilterInv' BY <2>1 DEF FilterInv
  <2>2. IsSeq(net) BY <2>1 DEF FilterInv
  <2>3. IsSeq(net') BY <2>1, <2>2, WithoutFacts
  <2>4. CASE Live(net, "shown", query)
    BY <2>1, <2>2, <2>3, <2>4, LiveOrTaken DEF FilterInv
  <2>5. CASE AllOld(net, "shown") /\ (warned \/ tardy \/ shown = query)
    BY <2>1, <2>2, <2>3, <2>5, OldStays DEF FilterInv
  <2> QED BY <2>1, <2>4, <2>5 DEF FilterInv
<1>9. ASSUME NEW i \in DOMAIN net, BooksCame(i) PROVE FilterInv'
  <2>1. /\ page = "dashboard" /\ net' = Without(i) /\ net[i].op = "shown"
        /\ UNCHANGED <<page, redirected, query>>
    BY <1>9 DEF BooksCame, StudentCame
  <2>2. warned' \/ (shown' = net[i].arg /\ (tardy' <=> net[i].old))
    BY <1>9 DEF BooksCame
  <2> SUFFICES ASSUME ~redirected PROVE FilterInv' BY <2>1 DEF FilterInv
  <2>3. IsSeq(net) BY <2>1 DEF FilterInv
  <2>4. IsSeq(net') BY <2>1, <2>3, WithoutFacts
  <2>5. CASE Live(net, "shown", query)
    <3>1. CASE Live(Without(i), "shown", query) BY <2>1, <2>4, <3>1 DEF FilterInv
    <3>2. CASE ~net[i].old /\ net[i].arg = query /\ AllOld(Without(i), "shown")
      BY <2>1, <2>2, <2>4, <3>2 DEF FilterInv
    <3> QED BY <2>3, <2>5, <3>1, <3>2, LiveOrTaken
  <2>6. CASE AllOld(net, "shown")
    <3>1. net[i].old BY <2>1, <2>6 DEF AllOld
    <3>2. AllOld(Without(i), "shown") BY <2>3, <2>6, OldStays
    <3> QED BY <2>1, <2>2, <2>4, <3>1, <3>2 DEF FilterInv
  <2> QED BY <2>1, <2>5, <2>6 DEF FilterInv
<1>10. ASSUME NEW i \in DOMAIN net,
              PartCame(i) \/ Solved(i) \/ ModalResultCame(i) \/ ModalKeyCame(i)
       PROVE FilterInv'
  <2>1. page \in StudentPageNames \ {"dashboard"}
    BY <1>10 DEF PartCame, Solved, ModalResultCame, ModalKeyCame, StudentCame, StudentPageNames,
      Readers
  <2>2. page' = page \/ page' = None
    BY <1>10 DEF PartCame, Solved, ModalResultCame, ModalKeyCame, InModal, Unmount
  <2> QED BY <2>1, <2>2, PageNames DEF FilterInv, AllPages, StudentPageNames
<1> QED BY <1>1, <1>2, <1>3, <1>4, <1>5, <1>6, <1>7, <1>8, <1>9, <1>10
        DEF StudentNext, StudentAnswer

\* The invariant holds in every reachable state.
LEMMA FilterInvariant == Spec => []FilterInv
<1>1. Init => FilterInv
  BY PageNames DEF Init, PageInit, FilterInv, AllPages, StudentPageNames
<1>2. FilterInv /\ [Next]_vars => FilterInv'
  <2> SUFFICES ASSUME FilterInv, [Next]_vars PROVE FilterInv' OBVIOUS
  <2>1. CASE UNCHANGED vars
    BY <2>1 DEF vars, pageVars, studentVars, FilterInv
  <2>2. CASE StudentNext BY <2>2, FilterStep
  <2>3. CASE Next /\ ~StudentNext /\ page' \in StudentPageNames
    BY <2>3, NotStudent DEF studentVars, FilterInv
  <2>4. CASE page' \notin StudentPageNames
    BY <2>4 DEF FilterInv, StudentPageNames
  <2> QED BY <2>1, <2>2, <2>3, <2>4
<1> QED BY <1>1, <1>2, PTL DEF Spec

\* BooksFitFilter, for any number of requests under way: every way of changing the
\* dashboard's filter, and of clearing it, asks for the books again.
THEOREM DashboardFollowsFilter == Spec => []BooksFitFilter
BY FilterInvariant, FilterFits, PTL

\* The result modal changes in steps of a student's page, or is reset.
LEMMA NotStudentHere ==
  ASSUME Next, ~StudentNext, page \in StudentPageNames
  PROVE  UNCHANGED <<page, net, studentVars>> \/ ResetStudent
<1>1. CASE ListsNext BY <1>1, ListsStay, PageNames DEF AllPages
<1>2. CASE FormsNext BY <1>2, FormsStay, PageNames DEF AllPages
<1>3. CASE BooksNext BY <1>3, BooksStay, PageNames DEF AllPages
<1>4. CASE OrphanCame BY <1>4, Zenon DEF OrphanCame
<1> QED BY <1>1, <1>2, <1>3, <1>4 DEF Next

\* The fields of the result modal.
ModalShape == DOMAIN modal = {"id", "open", "loading", "warned", "tardy", "result", "key"}

\* What the modal m shows, or will show once the requests in n are answered.
Graded(n, m) ==
  \/ m.warned \/ m.tardy
  \/ Live(n, "modalResult", m.id)
  \/ /\ AllOld(n, "modalResult") /\ m.result = m.id
     /\ Live(n, "modalKey", m.id) \/ (AllOld(n, "modalKey") /\ m.key = m.id)

\* An open result modal is graded, and belongs to the page of a book.
GradeInv ==
  /\ page = "book-detail" => IsSeq(net)
  /\ modal.open => page = "book-detail" /\ Graded(net, modal)

\* The invariant implies the property.
LEMMA GradeFits == GradeInv => ModalGradesItsResult
<1> SUFFICES ASSUME GradeInv, modal.open, ~modal.warned, ~modal.tardy,
                    "modalResult" \notin Pending, "modalKey" \notin Pending
             PROVE  modal.result = modal.id /\ modal.key = modal.id
  BY DEF ModalGradesItsResult
<1> QED BY NothingPending DEF GradeInv, Graded

\* Every step of a student's page keeps the invariant.
LEMMA GradeStep == GradeInv /\ ModalShape /\ StudentNext => GradeInv'
<1> SUFFICES ASSUME GradeInv, ModalShape, StudentNext, page' = "book-detail" \/ modal'.open
             PROVE  GradeInv'
  BY DEF GradeInv
<1> USE PageNames
<1>0. None \notin StudentPageNames /\ None # "book-detail"
  BY DEF AllPages, StudentPageNames, Readers
<1>1. ASSUME NEW p \in Readers, OpenReader(p) PROVE GradeInv'
  <2>1. IsSeq(net') BY <1>1, TupleFacts DEF OpenReader, Mount
  <2> QED BY <1>1, <1>0, <2>1 DEF OpenReader, Mount, GradeInv, StudentPageNames, Readers, studentVars
<1>2. CASE (\E p \in {"dashboard", "test-result"} : OpenAndRedirect(p)) \/ OpenDashboard
  BY <1>2, <1>0 DEF OpenAndRedirect, OpenDashboard, Mount, GradeInv, StudentPageNames, Readers,
    studentVars
<1>3. CASE LeaveStudent
  BY <1>3, <1>0 DEF LeaveStudent, Unmount, ResetStudent, NoModal, GradeInv
<1>4. CASE CloseResultModal
  BY <1>4 DEF CloseResultModal, ModalShape, GradeInv, pageVars
<1>5. ASSUME NEW on \in BOOLEAN, SelectExamType(on) \/ SelectLessonOf(on) \/ SearchBooks(on)
      PROVE  GradeInv'
  BY <1>5 DEF SelectExamType, SelectLessonOf, SearchBooks, OnDashboard, LoadBooks, GradeInv
<1>6. CASE ClearAllFilters
  BY <1>6 DEF ClearAllFilters, OnDashboard, LoadBooks, GradeInv
<1>7. CASE SubmitTest BY <1>7 DEF SubmitTest, GradeInv, studentVars
<1>8. ASSUME NEW r \in Results, OpenResultModal(r) PROVE GradeInv'
  <2>1. /\ page = "book-detail" /\ page' = page
        /\ net' = Append(net, Request("modalResult", r)) /\ modal'.id = r
    BY <1>8 DEF OpenResultModal, ModalShape
  <2>2. IsSeq(net) BY <2>1 DEF GradeInv
  <2> QED BY <2>1, <2>2, AppendFacts, AppendLive DEF GradeInv, Graded
<1>9. ASSUME NEW i \in DOMAIN net, ChoicesCame(i) \/ BooksCame(i) \/ Solved(i) PROVE GradeInv'
  <2>1. CASE ChoicesCame(i) \/ BooksCame(i)
    BY <2>1 DEF ChoicesCame, BooksCame, StudentCame, GradeInv
  <2>2. CASE Solved(i)
    BY <2>2, <1>0 DEF Solved, StudentCame, Unmount, ResetStudent, NoModal, GradeInv, studentVars
  <2> QED BY <1>9, <2>1, <2>2
<1>10. ASSUME NEW i \in DOMAIN net, PartCame(i) PROVE GradeInv'
  <2>1. CASE page # "book-detail" BY <1>10, <2>1 DEF PartCame, GradeInv
  <2> SUFFICES ASSUME page = "book-detail" PROVE GradeInv' BY <2>1
  <2>2. /\ page' = page /\ modal' = modal
        /\ \/ net' = Without(i)
           \/ \E k \in 1 .. 2 : net' = Append(Without(i), Request(BookDetail.loads[k], None))
    BY <1>10 DEF PartCame, Position, Reader, Readers, BookDetail
  <2>3. net[i].op \in {"books", "tests"}
    BY <1>10 DEF PartCame, Reader, Readers, BookDetail
  <2>4. IsSeq(net) BY DEF GradeInv
  <2>5. IsSeq(Without(i)) BY <2>4, WithoutFacts
  <2>6. modal.open => Graded(Without(i), modal)
    BY <2>3, <2>4, LiveOrTaken, OldStays DEF GradeInv, Graded
  <2>7. CASE net' = Without(i) BY <2>2, <2>5, <2>6, <2>7 DEF GradeInv
  <2>8. ASSUME NEW k \in 1 .. 2, net' = Append(Without(i), Request(BookDetail.loads[k], None))
        PROVE GradeInv'
    <3>1. Request(BookDetail.loads[k], None).op \notin {"modalResult", "modalKey"}
      BY RequestFacts DEF BookDetail
    <3>2. modal.open => Graded(net', modal) BY <2>5, <2>6, <2>8, <3>1, AppendOther DEF Graded
    <3> QED BY <2>2, <2>5, <2>8, <3>2, AppendFacts DEF GradeInv
  <2> QED BY <2>2, <2>7, <2>8
<1>11. ASSUME NEW i \in DOMAIN net, ModalKeyCame(i) PROVE GradeInv'
  <2>1. /\ page = "book-detail" /\ page' = page /\ net' = Without(i)
        /\ net[i].op = "modalKey" /\ modal'.open = modal.open
        /\ modal'.id = modal.id
    BY <1>11 DEF ModalKeyCame, StudentCame, InModal, Failed, ModalShape
  <2>2. \/ modal'.warned = TRUE
        \/ /\ modal'.warned = modal.warned /\ modal'.result = modal.result
           /\ modal'.key = net[i].arg /\ modal'.tardy = (modal.tardy \/ net[i].old)
    BY <1>11 DEF ModalKeyCame, Failed, ModalShape
  <2>3. IsSeq(net) BY <2>1 DEF GradeInv
  <2>4. IsSeq(net') BY <2>1, <2>3, WithoutFacts
  <2> SUFFICES ASSUME modal.open, ~modal.warned, ~modal.tardy, ~net[i].old,
                      modal'.warned = modal.warned,
                      modal'.result = modal.result, modal'.key = net[i].arg
               PROVE  Graded(net', modal')
    BY <2>1, <2>2, <2>4 DEF GradeInv, Graded
  <2>5. CASE Live(net, "modalResult", modal.id)
    BY <2>1, <2>3, <2>5, LiveOrTaken DEF Graded
  <2>6. CASE /\ AllOld(net, "modalResult") /\ modal.result = modal.id
             /\ Live(net, "modalKey", modal.id)
    <3>1. AllOld(net', "modalResult") BY <2>1, <2>3, <2>6, OldStays
    <3>2. \/ Live(net', "modalKey", modal.id)
          \/ net[i].arg = modal.id /\ AllOld(net', "modalKey")
      BY <2>1, <2>3, <2>6, LiveOrTaken
    <3> QED BY <2>1, <2>6, <3>1, <3>2 DEF Graded
  <2>7. CASE AllOld(net, "modalKey") BY <2>1, <2>7 DEF AllOld
  <2> QED BY <2>5, <2>6, <2>7 DEF GradeInv, Graded
<1>12. ASSUME NEW i \in DOMAIN net, ModalResultCame(i) PROVE GradeInv'
  <2>1. /\ page = "book-detail" /\ page' = page
        /\ net[i].op = "modalResult" /\ modal'.open = modal.open
        /\ modal'.id = modal.id
        /\ net' = Without(i) \/ net' = Append(Without(i), Request("modalKey", net[i].arg))
    BY <1>12 DEF ModalResultCame, StudentCame, InModal, Failed, ModalShape
  <2>2. \/ modal'.warned = TRUE
        \/ /\ modal'.warned = modal.warned /\ modal'.result = net[i].arg
           /\ modal'.tardy = (modal.tardy \/ net[i].old)
           /\ net' = Append(Without(i), Request("modalKey", net[i].arg))
    BY <1>12 DEF ModalResultCame, Failed, ModalShape
  <2>3. IsSeq(net) BY <2>1 DEF GradeInv
  <2>4. IsSeq(Without(i)) BY <2>3, WithoutFacts
  <2>5. IsSeq(net')
    <3>1. IsSeq(Append(Without(i), Request("modalKey", net[i].arg))) BY <2>4, AppendFacts
    <3> QED BY <2>1, <2>4, <3>1
  <2> SUFFICES ASSUME modal.open, ~modal.warned, ~modal.tardy, ~net[i].old,
                      modal'.result = net[i].arg,
                      net' = Append(Without(i), Request("modalKey", net[i].arg))
               PROVE  Graded(net', modal')
    BY <2>1, <2>2, <2>5 DEF GradeInv, Graded
  <2>6. Request("modalKey", net[i].arg).op # "modalResult" BY RequestFacts
  <2>7. CASE Live(net, "modalResult", modal.id)
    <3>1. CASE Live(Without(i), "modalResult", modal.id)
      <4>1. Live(net', "modalResult", modal.id) BY <2>4, <2>6, <3>1, AppendOther
      <4> QED BY <2>1, <4>1 DEF Graded
    <3>2. CASE net[i].arg = modal.id /\ AllOld(Without(i), "modalResult")
      <4>1. AllOld(net', "modalResult") BY <2>4, <2>6, <3>2, AppendOther
      <4>2. Live(net', "modalKey", net[i].arg) BY <2>4, AppendLive
      <4> QED BY <2>1, <3>2, <4>1, <4>2 DEF Graded
    <3> QED BY <2>3, <2>7, <3>1, <3>2, LiveOrTaken
  <2>8. CASE AllOld(net, "modalResult") BY <2>1, <2>8 DEF AllOld
  <2> QED BY <2>7, <2>8 DEF GradeInv, Graded
<1> QED BY <1>1, <1>2, <1>3, <1>4, <1>5, <1>6, <1>7, <1>8, <1>9, <1>10, <1>11, <1>12
        DEF StudentNext, StudentAnswer

\* Every step keeps the fields of the modal.
LEMMA ShapeStep == ModalShape /\ [Next]_vars => ModalShape'
<1> SUFFICES ASSUME ModalShape, [Next]_vars PROVE ModalShape' OBVIOUS
<1>1. CASE UNCHANGED studentVars BY <1>1 DEF studentVars, ModalShape
<1>2. CASE ResetStudent BY <1>2 DEF ResetStudent, NoModal, ModalShape
<1>3. CASE StudentNext
  <2>1. ASSUME NEW p, OpenReader(p) \/ OpenAndRedirect(p) PROVE ModalShape'
    BY <2>1 DEF OpenReader, OpenAndRedirect, studentVars, ModalShape
  <2>2. CASE OpenDashboard \/ LeaveStudent \/ ClearAllFilters \/ SubmitTest \/ CloseResultModal
    BY <2>2, <1>2 DEF OpenDashboard, LeaveStudent, ClearAllFilters, LoadBooks, SubmitTest,
      CloseResultModal, studentVars, ModalShape
  <2>3. ASSUME NEW on, SelectExamType(on) \/ SelectLessonOf(on) \/ SearchBooks(on) PROVE ModalShape'
    BY <2>3 DEF SelectExamType, SelectLessonOf, SearchBooks, LoadBooks, ModalShape
  <2>4. ASSUME NEW r, OpenResultModal(r) PROVE ModalShape'
    BY <2>4 DEF OpenResultModal, ModalShape
  <2>5. ASSUME NEW i, ChoicesCame(i) \/ BooksCame(i) \/ PartCame(i) \/ Solved(i) PROVE ModalShape'
    BY <2>5, <1>2 DEF ChoicesCame, BooksCame, PartCame, Solved, studentVars, ModalShape
  <2>6. ASSUME NEW i, ModalResultCame(i) \/ ModalKeyCame(i) PROVE ModalShape'
    BY <2>6 DEF ModalResultCame, ModalKeyCame, Failed, ModalShape
  <2> QED BY <1>3, <2>1, <2>2, <2>3, <2>4, <2>5, <2>6 DEF StudentNext, StudentAnswer
<1>4. CASE OrphanCame
  BY <1>1, <1>2, <1>4, Zenon DEF OrphanCame
<1> QED BY <1>1, <1>2, <1>3, <1>4 DEF Next, vars

\* The invariant holds in every reachable state.
LEMMA GradeInvariant == Spec => [](GradeInv /\ ModalShape)
<1>1. Init => GradeInv /\ ModalShape
  BY PageNames DEF Init, PageInit, StudentInit, NoModal, GradeInv, ModalShape, AllPages,
    StudentPageNames, Readers
<1>2. GradeInv /\ ModalShape /\ [Next]_vars => (GradeInv /\ ModalShape)'
  <2> SUFFICES ASSUME GradeInv, ModalShape, [Next]_vars PROVE GradeInv' BY ShapeStep
  <2>1. CASE UNCHANGED vars BY <2>1 DEF vars, pageVars, studentVars, GradeInv
  <2>2. CASE StudentNext BY <2>2, GradeStep
  <2>3. CASE Next /\ ~StudentNext /\ page' = "book-detail"
    BY <2>3, NotStudent DEF studentVars, GradeInv, StudentPageNames, Readers
  <2>4. CASE Next /\ ~StudentNext /\ page' # "book-detail" /\ modal'.open
    <3>1. page # "book-detail" => modal' # modal BY <2>4 DEF GradeInv
    <3>2. UNCHANGED studentVars \/ ResetStudent
      BY <2>4, Zenon DEF Next, OrphanCame
    <3>3. ~ResetStudent BY <2>4 DEF ResetStudent, NoModal
    <3>4. page \in StudentPageNames BY <3>1, <3>2, <3>3 DEF studentVars, StudentPageNames, Readers
    <3> QED BY <2>4, <3>1, <3>3, <3>4, NotStudentHere DEF studentVars
  <2> QED BY <2>1, <2>2, <2>3, <2>4 DEF GradeInv
<1> QED BY <1>1, <1>2, PTL DEF Spec

\* ModalGradesItsResult, for every set of results: the modal of book-detail grades the
\* result it is open for by that result's answer key.
THEOREM ResultsAreGraded == Spec => []ModalGradesItsResult
BY GradeInvariant, GradeFits, PTL

-----------------------------------------------------------------------------

\* Steps of other pages do not touch the lists, or forget them.
LEMMA NotList ==
  ASSUME Next, ~ListsNext
  PROVE  \/ UNCHANGED <<page, net, warned, tardy, dialog, listVars>>
         \/ page' \notin ListPages /\ ForgetLists
         \/ page \notin ListPages /\ page' \notin ListPages /\ UNCHANGED listVars
<1>1. CASE StudentNext /\ UNCHANGED <<listVars, formVars, bookVars>>
  BY <1>1, StudentStays, PageNames DEF AllPages, CloseResultModal, pageVars
<1>2. CASE FormsNext /\ UNCHANGED <<listVars, bookVars, studentVars>>
  BY <1>2, FormsStay, PageNames DEF AllPages
<1>3. CASE BooksNext /\ UNCHANGED <<listVars, formVars, studentVars>>
  BY <1>3, BooksStay, PageNames DEF AllPages
<1>4. CASE OrphanCame
  <2>1. \/ UNCHANGED <<page, net, isLoading, isSubmitting, warned, tardy, dialog, listVars,
                       formVars, bookVars, studentVars>>
        \/ page' = None /\ ForgetLists
    BY <1>4, Zenon DEF OrphanCame, Unmount
  <2> QED BY <2>1, PageNames DEF AllPages
<1> QED BY <1>1, <1>2, <1>3, <1>4 DEF Next

-----------------------------------------------------------------------------

\* A request is under way whose answer reloads the page or warns.
Mutating(n) ==
  \E k \in DOMAIN n : n[k].op = "assign" \/ (n[k].op = "delete" /\ n[k].got # None)

\* What the answer g to a request for the rows of q may be.
Good(g, q) == g = None \/ ~g.ok \/ g.rows = RowsOf(q)

\* A list warns, or an answer that will load it again is on the way, or the request
\* for its query is live and its answer still true, or the rows are current.
RowsInv ==
  /\ page \notin ListPages => asked = FirstPage
  /\ page \in ListPages =>
       /\ IsSeq(net)
       /\ \/ warned
          \/ Mutating(net)
          \/ \E g : LiveAs(net, "rows", asked, g) /\ Good(g, asked)
          \/ AllOld(net, "rows") /\ (tardy \/ rows = RowsOf(asked))

\* The invariant implies the property.
LEMMA RowsFit == RowsInv => ListIsCurrent
<1> SUFFICES ASSUME RowsInv, page \in ListPages, net = <<>>, ~warned, ~tardy
             PROVE  rows = RowsOf(asked)
  BY DEF ListIsCurrent
<1>1. DOMAIN net = {} OBVIOUS
<1>2. ~Mutating(net) BY <1>1 DEF Mutating
<1>3. ASSUME NEW g PROVE ~LiveAs(net, "rows", asked, g) BY <1>1 DEF LiveAs
<1> QED BY <1>2, <1>3 DEF RowsInv

\* Another answer leaves a mutating request under way.
LEMMA MutatingStays ==
  ASSUME IsSeq(net), NEW i \in DOMAIN net, net[i].op \notin {"assign", "delete"}, Mutating(net)
  PROVE  Mutating(Without(i))
<1>1. Len(net) \in Nat /\ DOMAIN net = 1 .. Len(net) BY SeqFacts
<1> DEFINE w == Without(i)
<1>2. /\ DOMAIN w = 1 .. Len(net) - 1
      /\ \A j \in DOMAIN w : j < i => w[j] = Overtaken(net[j], net[i].op)
      /\ \A j \in DOMAIN w : ~(j < i) => w[j] = net[j + 1]
  BY WithoutFacts
<1> HIDE DEF w
<1> PICK k \in DOMAIN net : net[k].op = "assign" \/ (net[k].op = "delete" /\ net[k].got # None)
  BY DEF Mutating
<1>3. k # i OBVIOUS
<1>4. CASE k < i
  <2>1. k \in DOMAIN w /\ w[k].op = net[k].op /\ w[k].got = net[k].got
    BY <1>1, <1>2, <1>4, OldFacts
  <2> QED BY <2>1 DEF Mutating, w
<1>5. CASE k > i
  <2>1. k - 1 \in DOMAIN w /\ w[k - 1] = net[k] BY <1>1, <1>2, <1>5
  <2> QED BY <2>1 DEF Mutating, w
<1> QED BY <1>1, <1>3, <1>4, <1>5

\* So does a request sent.
LEMMA MutatingAppended ==
  ASSUME NEW s, IsSeq(s), NEW r, Mutating(s) \/ r.op = "assign"
  PROVE  Mutating(Append(s, r))
<1> DEFINE t == Append(s, r)
<1>1. Len(s) \in Nat /\ DOMAIN s = 1 .. Len(s) BY SeqFacts
<1>2. /\ DOMAIN t = 1 .. Len(s) + 1 /\ t[Len(s) + 1] = r
      /\ \A k \in DOMAIN s : t[k] = s[k]
  BY AppendFacts
<1> HIDE DEF t
<1>3. \A k \in DOMAIN s : k \in DOMAIN t BY <1>1, <1>2
<1>4. Len(s) + 1 \in DOMAIN t BY <1>1, <1>2
<1> QED BY <1>2, <1>3, <1>4 DEF Mutating, t

\* A request for the rows has just been sent.
LEMMA Loading ==
  ASSUME page' \in ListPages, page' = page, items' = items, gone' = gone,
         NEW s, IsSeq(s), net' = s \o Requests(This.load, asked')
  PROVE  RowsInv'
<1>1. net' = Append(s, Request("rows", asked'))
  <2>1. This.load = <<"rows">> BY ComponentFacts DEF This
  <2>2. Requests(<<"rows">>, asked') = <<Request("rows", asked')>> BY RequestsFacts
  <2> QED BY <2>1, <2>2, AppendOne
<1>2. IsSeq(net') BY <1>1, AppendFacts
<1>3. LiveAs(net', "rows", asked', None) BY <1>1, AppendLive
<1> QED BY <1>2, <1>3 DEF RowsInv, Good

\* A request that is not for the rows has been answered, and others of the kind
\* sent that is not.
LEMMA Answered ==
  ASSUME RowsInv, page \in ListPages, NEW i \in DOMAIN net,
         net[i].op \notin {"rows", "assign", "delete"},
         net' = Without(i), warned' = warned,
         UNCHANGED <<page, tardy, items, gone, rows, asked>>
  PROVE  RowsInv'
<1>1. IsSeq(net) BY DEF RowsInv
<1>2. IsSeq(net') BY <1>1, WithoutFacts
<1>3. \A q : RowsOf(q)' = RowsOf(q) BY DEF RowsOf, Through
<1>4. Mutating(net) => Mutating(net') BY <1>1, MutatingStays
<1>5. ASSUME NEW g, LiveAs(net, "rows", asked, g), Good(g, asked)
      PROVE  LiveAs(net', "rows", asked', g) /\ Good(g, asked)'
  BY <1>1, <1>3, <1>5, LiveAsOrTaken DEF Good
<1>6. AllOld(net, "rows") => AllOld(net', "rows") BY <1>1, OldStays
<1> QED BY <1>2, <1>3, <1>4, <1>5, <1>6 DEF RowsInv
\* A page that warns claims nothing.
LEMMA Warning ==
  ASSUME page' \in ListPages, warned', IsSeq(net')
  PROVE  RowsInv'
BY DEF RowsInv

\* The server serves the i-th request.
LEMMA Serving ==
  ASSUME RowsInv, NEW i \in DOMAIN net, Serve(i)
  PROVE  RowsInv'
<1>1. page \in ListPages /\ UNCHANGED <<page, warned, tardy, rows, asked>> /\ net[i].got = None
  BY DEF Serve
<1>2. IsSeq(net) BY <1>1 DEF RowsInv
<1>3. Len(net) \in Nat /\ DOMAIN net = 1 .. Len(net) BY <1>2, SeqFacts
<1>4. PICK reply :
        /\ net' = [net EXCEPT ![i] = [op |-> net[i].op, arg |-> net[i].arg, got |-> reply,
                                       old |-> net[i].old]]
        /\ \/ /\ net[i].op \in {"lessons", "roles"}
              /\ UNCHANGED <<items, gone>>
           \/ /\ net[i].op = "rows"
              /\ reply = Failure
                   \/ reply = Answer(TRUE, RowsOf(net[i].arg), PagesOf(net[i].arg))
              /\ UNCHANGED <<items, gone>>
           \/ /\ net[i].op \in {"delete", "assign"}
              /\ reply \in {Done, Failure}
  BY DEF Serve, Reply
<1>5. /\ DOMAIN net' = DOMAIN net
      /\ \A k \in DOMAIN net : k # i => net'[k] = net[k]
      /\ net'[i].op = net[i].op /\ net'[i].arg = net[i].arg /\ net'[i].got = reply
      /\ net'[i].old = net[i].old
  BY <1>4
<1>6. IsSeq(net')
  <2>1. net' = [k \in 1 .. Len(net) |-> net'[k]] BY <1>3, <1>4
  <2> QED BY <1>3, <2>1 DEF IsSeq
<1>7. CASE net[i].op \in {"delete", "assign"}
  <2>1. reply \in {Done, Failure} BY <1>4, <1>7
  <2>2. Mutating(net') BY <1>5, <1>7, <2>1, AnswerAssumption DEF Mutating
  <2> QED BY <1>1, <1>6, <2>2 DEF RowsInv
<1>8. CASE net[i].op \notin {"delete", "assign"}
  <2>1. UNCHANGED <<items, gone>> BY <1>4, <1>8
  <2>2. \A q : RowsOf(q)' = RowsOf(q) BY <1>1, <2>1 DEF RowsOf, Through
  <2>3. Mutating(net) => Mutating(net') BY <1>5, <1>8 DEF Mutating
  <2>4. AllOld(net, "rows") => AllOld(net', "rows") BY <1>5 DEF AllOld
  <2>5. ASSUME NEW g, LiveAs(net, "rows", asked, g), Good(g, asked)
        PROVE  \E h : LiveAs(net', "rows", asked', h) /\ Good(h, asked)'
    <3> PICK k \in DOMAIN net :
          /\ net[k].op = "rows" /\ ~net[k].old /\ net[k].arg = asked /\ net[k].got = g
          /\ \A j \in DOMAIN net : j > k => net[j].op # "rows"
      BY <2>5 DEF LiveAs
    <3>1. \A j \in DOMAIN net' : j > k => net'[j].op # "rows" BY <1>5
    <3>2. LiveAs(net', "rows", asked', net'[k].got) BY <1>1, <1>5, <3>1 DEF LiveAs
    <3>3. CASE k # i
      <4>1. net'[k].got = g BY <1>5, <3>3
      <4>2. Good(g, asked)' BY <1>1, <2>2, <2>5 DEF Good
      <4> QED BY <3>2, <4>1, <4>2
    <3>4. CASE k = i
      <4>1. reply = Failure \/ reply = Answer(TRUE, RowsOf(asked), PagesOf(asked))
        BY <1>4, <3>4
      <4>2. ~reply.ok \/ reply.rows = RowsOf(asked) BY <4>1 DEF Failure, Answer
      <4>3. Good(reply, asked)' BY <1>1, <2>2, <4>2 DEF Good
      <4> QED BY <1>5, <3>2, <3>4, <4>3
    <3> QED BY <3>3, <3>4
  <2> QED BY <1>1, <1>6, <2>2, <2>3, <2>4, <2>5 DEF RowsInv
<1> QED BY <1>7, <1>8

\* The answer to a request for the rows.
LEMMA Showing ==
  ASSUME RowsInv, NEW i \in DOMAIN net, RowsCame(i)
  PROVE  RowsInv'
<1>1. /\ page \in ListPages /\ UNCHANGED <<page, warned, items, gone, asked>>
      /\ net[i].op = "rows" /\ net[i].got # None
      /\ rows' = net[i].got.rows /\ (tardy' <=> net[i].old)
      /\ net' = Without(i) \o Requests(This.then, net[i].arg)
  BY DEF RowsCame, Came
<1>0. net[i].got.ok BY DEF RowsCame, Came
<1>2. IsSeq(net) BY <1>1 DEF RowsInv
<1>3. IsSeq(Without(i)) BY <1>2, WithoutFacts
<1>4. net' = Without(i) \/ net' = Append(Without(i), Request("lessons", net[i].arg))
  <2>1. This.then \in {<<>>, <<"lessons">>} BY <1>1, ComponentFacts DEF This
  <2>2. /\ Requests(<<>>, net[i].arg) = <<>>
        /\ Requests(<<"lessons">>, net[i].arg) = <<Request("lessons", net[i].arg)>>
    BY RequestsFacts
  <2> QED BY <1>1, <1>3, <2>1, <2>2, AppendOne
<1>5. IsSeq(net')
  <2>1. IsSeq(Append(Without(i), Request("lessons", net[i].arg))) BY <1>3, AppendFacts
  <2> QED BY <1>3, <1>4, <2>1
<1>6. \A q : RowsOf(q)' = RowsOf(q) BY <1>1 DEF RowsOf, Through
<1>7. Request("lessons", net[i].arg).op = "lessons" BY RequestFacts
<1>8. Mutating(net) => Mutating(net')
  BY <1>1, <1>2, <1>3, <1>4, MutatingStays, MutatingAppended
<1>9. AllOld(Without(i), "rows") => AllOld(net', "rows") BY <1>3, <1>4, <1>7, AppendOther
<1>10. ASSUME NEW g, LiveAs(net, "rows", asked, g), Good(g, asked)
       PROVE  RowsInv'
  <2>1. CASE LiveAs(Without(i), "rows", asked, g)
    <3>1. LiveAs(net', "rows", asked', g) BY <1>1, <1>3, <1>4, <1>7, <2>1, AppendOther
    <3>2. Good(g, asked)' BY <1>1, <1>6, <1>10 DEF Good
    <3> QED BY <1>1, <1>5, <3>1, <3>2 DEF RowsInv
  <2>2. CASE ~net[i].old /\ net[i].got = g /\ AllOld(Without(i), "rows")
    <3>1. rows' = RowsOf(asked') BY <1>0, <1>1, <1>6, <1>10, <2>2 DEF Good
    <3> QED BY <1>1, <1>5, <1>6, <1>9, <2>2, <3>1 DEF RowsInv
  <2> QED BY <1>2, <1>10, <2>1, <2>2, LiveAsOrTaken
<1>11. CASE AllOld(net, "rows")
  <2>1. net[i].old BY <1>1, <1>11 DEF AllOld
  <2>2. AllOld(net', "rows") BY <1>2, <1>9, <1>11, OldStays
  <2> QED BY <1>1, <1>5, <2>1, <2>2 DEF RowsInv
<1> QED BY <1>1, <1>5, <1>8, <1>10, <1>11 DEF RowsInv

\* Every step of a listing page keeps the invariant.
LEMMA ListsStep == RowsInv /\ ListsNext => RowsInv'
<1> SUFFICES ASSUME RowsInv, ListsNext PROVE RowsInv' OBVIOUS
<1>0. None \notin ListPages BY PageNames DEF AllPages
<1>1. ASSUME NEW p \in ListPages, OpenList(p) PROVE RowsInv'
  <2>1. /\ page = None /\ page' = p /\ asked' = asked
        /\ net' = Requests(Component[p].open, FirstPage)
    BY <1>1 DEF OpenList, Mount
  <2>2. asked = FirstPage BY <1>0, <2>1 DEF RowsInv
  <2>3. \/ net' = <<Request("rows", asked')>>
        \/ net' = <<Request("rows", asked'), Request("roles", asked')>>
    BY <2>1, <2>2, ComponentFacts, RequestsFacts
  <2>4. IsSeq(net') BY <2>3, TupleFacts
  <2>5. 1 \in DOMAIN net' /\ net'[1] = Request("rows", asked') BY <2>3, TupleFacts
  <2>6. \A j \in DOMAIN net' : j > 1 => net'[j].op # "rows"
    <3>1. Request("roles", asked').op # "rows" BY RequestFacts
    <3> QED BY <2>3, <3>1, TupleFacts
  <2>7. LiveAs(net', "rows", asked', None) BY <2>5, <2>6, RequestFacts DEF LiveAs
  <2> QED BY <2>1, <2>4, <2>7 DEF RowsInv, Good
<1>2. CASE LeaveList BY <1>0, <1>2 DEF LeaveList, Unmount, ForgetLists, RowsInv
<1>3. ASSUME page \in ListPages, UNCHANGED <<listVars, page, net, warned, tardy>>
      PROVE  RowsInv'
  <2>1. \A q : RowsOf(q)' = RowsOf(q) BY <1>3 DEF RowsOf, Through, listVars
  <2>2. \A g : Good(g, asked)' = Good(g, asked) BY <1>3, <2>1 DEF Good, listVars
  <2> QED BY <1>3, <2>1, <2>2 DEF RowsInv, listVars
<1>4. CASE (\E x \in Items : ConfirmDelete(x)) \/ CancelDelete
  BY <1>3, <1>4 DEF ConfirmDelete, CancelDelete, Clickable
<1>5. ASSUME NEW x \in Items, AssignRole(x) PROVE RowsInv'
  <2>1. page \in ListPages /\ page' = page /\ net' = Append(net, Request("assign", x))
    BY <1>5 DEF AssignRole, Clickable
  <2>2. IsSeq(net) BY <2>1 DEF RowsInv
  <2>3. IsSeq(net') BY <2>1, <2>2, AppendFacts
  <2>4. Mutating(net') BY <2>1, <2>2, MutatingAppended, RequestFacts
  <2> QED BY <2>1, <2>3, <2>4 DEF RowsInv
<1>6. CASE Delete
  <2>1. page \in ListPages /\ UNCHANGED <<listVars, page, tardy>> BY <1>6 DEF Delete
  <2>2. IsSeq(net) BY <2>1 DEF RowsInv
  <2>3. CASE net' = net /\ warned' = TRUE BY <2>1, <2>2, <2>3, Warning
  <2>4. CASE net' = Append(net, Request("delete", dialog.target)) /\ warned' = warned
    <3>1. IsSeq(net') BY <2>2, <2>4, AppendFacts
    <3>2. Request("delete", dialog.target).op # "rows" BY RequestFacts
    <3>3. Mutating(net) => Mutating(net') BY <2>2, <2>4, MutatingAppended
    <3>4. \A q : RowsOf(q)' = RowsOf(q) BY <2>1 DEF RowsOf, Through, listVars
    <3>5. \A g : Good(g, asked)' = Good(g, asked) BY <2>1, <3>4 DEF Good, listVars
    <3>6. \A g : LiveAs(net, "rows", asked, g) => LiveAs(net', "rows", asked', g)
      BY <2>1, <2>2, <2>4, <3>2, AppendOther DEF listVars
    <3>7. AllOld(net, "rows") => AllOld(net', "rows") BY <2>2, <2>4, <3>2, AppendOther
    <3> QED BY <2>1, <2>4, <3>1, <3>3, <3>4, <3>5, <3>6, <3>7 DEF RowsInv, listVars
  <2> QED BY <1>6, <2>3, <2>4 DEF Delete
<1>7. ASSUME NEW q, Load(q), asked' = q, page \in ListPages, UNCHANGED <<page, items, gone>>
      PROVE  RowsInv'
  <2>1. IsSeq(net) BY <1>7 DEF RowsInv
  <2> QED BY <1>7, <2>1, Loading DEF Load
<1>8. ASSUME NEW on \in BOOLEAN, Filter(on) PROVE RowsInv'
  BY <1>7, <1>8 DEF Filter, Clickable
<1>9. ASSUME NEW n, GoToPage(n) PROVE RowsInv'
  BY <1>7, <1>9 DEF GoToPage, Clickable
<1>10. CASE Search
  <2>1. page \in ListPages BY <1>10 DEF Search, ListPages
  <2> QED BY <1>7, <1>10, <2>1 DEF Search
<1>11. ASSUME NEW i \in DOMAIN net, LessonsCame(i) \/ RolesCame(i) PROVE RowsInv'
  BY <1>11, Answered DEF LessonsCame, RolesCame, Came, listVars
<1>12. ASSUME NEW i \in DOMAIN net, RowsFailed(i) \/ DeleteFailed(i) \/ AssignFailed(i)
       PROVE  RowsInv'
  <2>1. page \in ListPages /\ page' = page /\ net' = Without(i) /\ warned' = TRUE
    BY <1>12 DEF RowsFailed, DeleteFailed, AssignFailed, Came
  <2>2. IsSeq(net) BY <2>1 DEF RowsInv
  <2> QED BY <2>1, <2>2, WithoutFacts, Warning
<1>13. ASSUME NEW i \in DOMAIN net, Deleted(i) \/ Assigned(i) PROVE RowsInv'
  <2>1. /\ page \in ListPages /\ UNCHANGED <<listVars, page>>
        /\ net' = Without(i) \o Requests(This.load, asked)
    BY <1>13 DEF Deleted, Assigned, Came
  <2>2. IsSeq(net) BY <2>1 DEF RowsInv
  <2>3. IsSeq(Without(i)) BY <2>2, WithoutFacts
  <2> QED BY <2>1, <2>3, Loading DEF listVars
<1>14. ASSUME NEW i \in DOMAIN net, Serve(i) \/ RowsCame(i) PROVE RowsInv'
  BY <1>14, Serving, Showing
<1> QED BY <1>1, <1>2, <1>4, <1>5, <1>6, <1>8, <1>9, <1>10, <1>11, <1>12, <1>13, <1>14
        DEF ListsNext, ListAnswer

\* The invariant holds in every reachable state.
LEMMA RowsInvariant == Spec => []RowsInv
<1>1. Init => RowsInv
  BY PageNames DEF Init, PageInit, ListsInit, RowsInv, AllPages
<1>2. RowsInv /\ [Next]_vars => RowsInv'
  <2> SUFFICES ASSUME RowsInv, [Next]_vars PROVE RowsInv' OBVIOUS
  <2>1. ASSUME UNCHANGED <<page, net, warned, tardy, listVars>> PROVE RowsInv'
    <3>1. \A q : RowsOf(q)' = RowsOf(q) BY <2>1 DEF RowsOf, Through, listVars
    <3>2. \A g : Good(g, asked)' = Good(g, asked) BY <2>1, <3>1 DEF Good, listVars
    <3> QED BY <2>1, <3>1, <3>2 DEF RowsInv, listVars
  <2>2. CASE UNCHANGED vars BY <2>1, <2>2 DEF vars, pageVars
  <2>3. CASE ListsNext BY <2>3, ListsStep
  <2>4. CASE Next /\ ~ListsNext
    BY <2>1, <2>4, NotList DEF RowsInv, ForgetLists, listVars
  <2> QED BY <2>2, <2>3, <2>4
<1> QED BY <1>1, <1>2, PTL DEF Spec

\* ListIsCurrent, for every set of rows and page size: whatever was deleted, assigned,
\* filtered or turned to, a list at rest without a message shows what the server holds.
THEOREM ListsAreCurrent == Spec => []ListIsCurrent
BY RowsInvariant, RowsFit, PTL
===============================================================================
