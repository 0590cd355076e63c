------------------------------ MODULE AdminLists ------------------------------
(***************************************************************************)
(* The listing pages of the administration: exam types, lessons, subjects, *)
(* users and roles, and the roles of one user.  Each loads its rows, most  *)
(* delete rows through the confirmation dialog and load again, the users   *)
(* page asks for a page of the users, with or without the deleted ones,    *)
(* and the user page assigns roles.  The server serves a request in a step *)
(* of its own, so that an answer may be older than what it shows.          *)
(***************************************************************************)
EXTENDS Page, FiniteSets

CONSTANTS
  Items,     \* numbers: the order of the listing
  PerPage    \* rows on a page of users

ASSUME ListAssumption ==
  /\ Items \subseteq Nat /\ IsFiniteSet(Items)
  /\ PerPage \in Nat \ {0}
  /\ None \notin Items

VARIABLES
  items,      \* what the server holds
  gone,       \* the users it holds as deleted
  rows,       \* what the page shows
  asked,      \* the query the page's controls stand for
  answered,   \* the query and the number of pages of the last answer, or None
  known       \* the user page has loaded the list of roles

listVars == <<items, gone, rows, asked, answered, known>>

-----------------------------------------------------------------------------
(* What each component does, as data:                                      *)
(*   open, load   the requests of ngOnInit and of a later load             *)
(*   then         what the answer to the rows sends next                   *)
(*   ends         the answers that end isLoading                           *)
(*   clears       a load removes the error message                         *)
(*   empties      a load that fails empties the page                       *)
(*   deletes      rows have a delete button                                *)
(* Requests that only fetch the names of other objects are left out.       *)

ExamTypesList ==
  [open |-> <<"rows">>, load |-> <<"rows">>, then |-> <<>>,
   ends |-> {<<"rows", "ok">>, <<"rows", "error">>},
   clears |-> FALSE, empties |-> FALSE, deletes |-> TRUE]

LessonsList ==
  [open |-> <<"rows">>, load |-> <<"rows">>, then |-> <<>>,
   ends |-> {<<"rows", "ok">>, <<"rows", "error">>},
   clears |-> FALSE, empties |-> FALSE, deletes |-> TRUE]

RolesList ==
  [open |-> <<"rows">>, load |-> <<"rows">>, then |-> <<>>,
   ends |-> {<<"rows", "ok">>, <<"rows", "error">>},
   clears |-> FALSE, empties |-> FALSE, deletes |-> FALSE]

\* A failed load of the lessons that forgets the spinner.
SubjectsListStuck ==
  [open |-> <<"rows">>, load |-> <<"rows">>, then |-> <<"lessons">>,
   ends |-> {<<"rows", "error">>, <<"lessons", "ok">>},
   clears |-> TRUE, empties |-> TRUE, deletes |-> TRUE]

\* Whether the subjects came or not, the lessons' answer ends the loading.
SubjectsList ==
  [open |-> <<"rows">>, load |-> <<"rows">>, then |-> <<"lessons">>,
   ends |-> {<<"rows", "error">>, <<"lessons", "ok">>, <<"lessons", "error">>},
   clears |-> TRUE, empties |-> TRUE, deletes |-> TRUE]

UsersList ==
  [open |-> <<"rows">>, load |-> <<"rows">>, then |-> <<>>,
   ends |-> {<<"rows", "ok">>, <<"rows", "error">>},
   clears |-> TRUE, empties |-> FALSE, deletes |-> TRUE]

UserDetail ==
  [open |-> <<"rows", "roles">>, load |-> <<"rows">>, then |-> <<>>,
   ends |-> {<<"rows", "ok">>, <<"rows", "error">>},
   clears |-> FALSE, empties |-> FALSE, deletes |-> TRUE]

ListPages == {"exam-types", "lessons", "roles", "subjects", "users", "user"}

Component ==
  [p \in ListPages |->
     CASE p = "exam-types" -> ExamTypesList
       [] p = "lessons" -> LessonsList
       [] p = "roles" -> RolesList
       [] p = "subjects" -> SubjectsList
       [] p = "users" -> UsersList
       [] p = "user" -> UserDetail]

This == Component[page]

-----------------------------------------------------------------------------
(* Queries *)

Queries == [number : Nat \ {0}, deleted : BOOLEAN]
FirstPage == [number |-> 1, deleted |-> FALSE]

\* list_users: one page of the users, the deleted ones only when asked for.
Through(q) == IF q.deleted THEN items \cup gone ELSE items
Rank(x, S) == Cardinality({y \in S : y <= x})
RowsOf(q) ==
  IF page # "users" THEN items
  ELSE {x \in Through(q) : /\ Rank(x, Through(q)) > (q.number - 1) * PerPage
                           /\ Rank(x, Through(q)) <= q.number * PerPage}
PagesOf(q) == (Cardinality(Through(q)) + PerPage - 1) \div PerPage

ListsInit ==
  /\ items = {} /\ gone = {} /\ rows = {} /\ asked = FirstPage /\ answered = None
  /\ known = FALSE

ListsTypeOK ==
  /\ items \subseteq Items /\ gone \subseteq Items \ items /\ rows \subseteq Items
  /\ asked \in Queries
  /\ answered = None \/ answered \in [query : Queries, pages : Nat]
  /\ known \in BOOLEAN

\* ngOnInit, whatever the server holds at that time.
OpenList(p) ==
  /\ Mount(p, TRUE, Requests(Component[p].open, FirstPage))
  /\ items' \in SUBSET Items
  /\ gone' \in (IF p = "users" THEN SUBSET (Items \ items') ELSE {{}})
  /\ UNCHANGED <<rows, asked, answered, known>>

ForgetLists ==
  /\ items' = {} /\ gone' = {} /\ rows' = {} /\ asked' = FirstPage /\ answered' = None
  /\ known' = FALSE

LeaveList == page \in ListPages /\ Unmount(orphans) /\ ForgetLists

-----------------------------------------------------------------------------
(* The user: rows are there to click when the spinner is not, and nothing  *)
(* is while the dialog covers the page.                                    *)

Clickable == page \in ListPages /\ ~dialog.visible

\* load(), with what the controls stand for now.
Load(q) ==
  /\ Room(1)
  /\ net' = net \o Requests(This.load, q)
  /\ isLoading' = TRUE
  /\ warned' = (warned /\ ~This.clears)

ConfirmDelete(x) ==
  /\ Clickable /\ ~isLoading /\ This.deletes /\ x \in rows
  /\ OpenDialog(x)
  /\ UNCHANGED <<listVars, page, orphans, net, isLoading, isSubmitting, warned, tardy>>

CancelDelete ==
  /\ page \in ListPages /\ dialog.visible
  /\ CloseDialog(None)
  /\ UNCHANGED <<listVars, page, orphans, net, isLoading, isSubmitting, warned, tardy>>

\* delete... of a list, and removeRole of the user page, which looks the role
\* up in the list of roles and gives up when that was not loaded.
Delete ==
  /\ page \in ListPages /\ dialog.visible
  /\ \/ /\ page # "user" \/ known
        /\ Room(1)
        /\ HideDialog
        /\ net' = Append(net, Request("delete", dialog.target))
        /\ UNCHANGED warned
     \/ /\ page = "user" /\ ~known
        /\ CloseDialog(dialog.target)
        /\ warned' = TRUE
        /\ UNCHANGED net
  /\ UNCHANGED <<listVars, page, orphans, isLoading, isSubmitting, tardy>>

\* The controls of the users page: the box that includes the deleted users and
\* the status dropdown, which list_users ignores; they keep the page number.
Filter(on) ==
  /\ Clickable /\ page = "users"
  /\ asked' = [number |-> asked.number, deleted |-> on]
  /\ Load(asked')
  /\ UNCHANGED <<page, orphans, isSubmitting, tardy, dialog, items, gone, rows, answered, known>>

GoToAnyPage(n) ==
  /\ Clickable /\ page = "users" /\ ~isLoading /\ rows # {}
  /\ answered # None
  /\ n + 1 = answered.query.number \/ n = answered.query.number + 1
  /\ asked' = [number |-> n, deleted |-> asked.deleted]
  /\ Load(asked')
  /\ UNCHANGED <<page, orphans, isSubmitting, tardy, dialog, items, gone, rows, answered, known>>

GoToPage(n) ==
  /\ Clickable /\ page = "users" /\ ~isLoading /\ rows # {}
  /\ answered # None /\ n \in 1 .. answered.pages
  /\ n + 1 = answered.query.number \/ n = answered.query.number + 1
  /\ asked' = [number |-> n, deleted |-> asked.deleted]
  /\ Load(asked')
  /\ UNCHANGED <<page, orphans, isSubmitting, tardy, dialog, items, gone, rows, answered, known>>

\* 500 ms after the last keystroke in the search box, dialog or not; the term
\* itself is sent nowhere.
Search ==
  /\ page = "users"
  /\ asked' = [number |-> 1, deleted |-> asked.deleted]
  /\ Load(asked')
  /\ UNCHANGED <<page, orphans, isSubmitting, tardy, dialog, items, gone, rows, answered, known>>

\* assignRole: one of the roles the user does not show yet.
AssignRole(x) ==
  /\ Clickable /\ page = "user" /\ ~isLoading /\ known /\ ~isSubmitting
  /\ x \in Items \ rows
  /\ Room(1)
  /\ net' = Append(net, Request("assign", x))
  /\ isSubmitting' = TRUE /\ warned' = FALSE
  /\ UNCHANGED <<listVars, page, orphans, isLoading, tardy, dialog>>

-----------------------------------------------------------------------------
(* The server *)

Answer(ok, found, pages) == [ok |-> ok, rows |-> found, pages |-> pages]
Done == Answer(TRUE, {}, 0)
Failure == Answer(FALSE, {}, 0)

ASSUME AnswerAssumption == None \notin {Done, Failure}

\* The answer may be lost, whatever the server did.
Reply(i, answer) ==
  \E reply \in {answer, Failure} :
    net' = [net EXCEPT ![i] = [op |-> net[i].op, arg |-> net[i].arg, got |-> reply,
                               old |-> net[i].old]]

\* The server does what it is asked, or refuses; a user deleted is kept.
Serve(i) ==
  /\ page \in ListPages /\ i \in DOMAIN net
  /\ net[i].got = None
  /\ \/ /\ net[i].op \in {"lessons", "roles"}
        /\ Reply(i, Done) /\ UNCHANGED <<items, gone>>
     \/ /\ net[i].op = "rows"
        /\ Reply(i, Answer(TRUE, RowsOf(net[i].arg), PagesOf(net[i].arg)))
        /\ UNCHANGED <<items, gone>>
     \/ /\ net[i].op = "delete" /\ net[i].arg \in items
        /\ Reply(i, Done)
        /\ items' = items \ {net[i].arg}
        /\ gone' = gone \cup (IF page = "users" THEN {net[i].arg} ELSE {})
     \/ /\ net[i].op = "assign"
        /\ Reply(i, Done)
        /\ items' = items \cup {net[i].arg} /\ UNCHANGED gone
     \/ /\ net[i].op \in {"delete", "assign"}
        /\ Reply(i, Failure) /\ UNCHANGED <<items, gone>>
  /\ UNCHANGED <<page, orphans, isLoading, isSubmitting, warned, tardy, dialog,
                 rows, asked, answered, known>>

-----------------------------------------------------------------------------
(* Answers *)

Ending(op, outcome) == isLoading' = (isLoading /\ <<op, outcome>> \notin This.ends)

\* The i-th request has been answered, and the answer is an error or not.
Came(i, op, failed) ==
  /\ page \in ListPages /\ i \in DOMAIN net
  /\ net[i].op = op /\ net[i].got # None
  /\ failed = ~net[i].got.ok

RowsCame(i) ==
  /\ Came(i, "rows", FALSE)
  /\ rows' = net[i].got.rows
  /\ answered' = [query |-> net[i].arg, pages |-> net[i].got.pages]
  /\ tardy' = net[i].old
  /\ net' = Without(i) \o Requests(This.then, net[i].arg)
  /\ Ending("rows", "ok")
  /\ UNCHANGED <<page, orphans, isSubmitting, warned, dialog, items, gone, asked, known>>

RowsFailed(i) ==
  /\ Came(i, "rows", TRUE)
  /\ rows' = (IF This.empties THEN {} ELSE rows)
  /\ net' = Without(i)
  /\ Ending("rows", "error")
  /\ warned' = TRUE
  /\ UNCHANGED <<page, orphans, isSubmitting, tardy, dialog, items, gone, asked, answered, known>>

LessonsCame(i) ==
  /\ \E failed \in BOOLEAN :
       Came(i, "lessons", failed) /\ Ending("lessons", IF failed THEN "error" ELSE "ok")
  /\ net' = Without(i)
  /\ UNCHANGED <<listVars, page, orphans, isSubmitting, warned, tardy, dialog>>

RolesCame(i) ==
  /\ \E failed \in BOOLEAN : Came(i, "roles", failed) /\ known' = (known \/ ~failed)
  /\ net' = Without(i)
  /\ UNCHANGED <<page, orphans, isLoading, isSubmitting, warned, tardy, dialog,
                 items, gone, rows, asked, answered>>

DeletedNoReload(i) ==
  /\ Came(i, "delete", FALSE)
  /\ net' = Without(i)
  /\ CloseDialog(None)
  /\ UNCHANGED <<listVars, page, orphans, isLoading, isSubmitting, warned, tardy>>

Deleted(i) ==
  /\ Came(i, "delete", FALSE)
  /\ net' = Without(i) \o Requests(This.load, asked)
  /\ isLoading' = TRUE
  /\ warned' = (warned /\ ~This.clears)
  /\ CloseDialog(None)
  /\ UNCHANGED <<listVars, page, orphans, isSubmitting, tardy>>

DeleteFailedStayingOpen(i) ==
  /\ Came(i, "delete", TRUE)
  /\ net' = Without(i)
  /\ warned' = TRUE
  /\ UNCHANGED <<listVars, page, orphans, isLoading, isSubmitting, tardy, dialog>>

DeleteFailed(i) ==
  /\ Came(i, "delete", TRUE)
  /\ net' = Without(i)
  /\ warned' = TRUE
  /\ CloseDialog(dialog.target)
  /\ UNCHANGED <<listVars, page, orphans, isLoading, isSubmitting, tardy>>

Assigned(i) ==
  /\ Came(i, "assign", FALSE)
  /\ net' = Without(i) \o Requests(This.load, asked)
  /\ isLoading' = TRUE /\ isSubmitting' = FALSE
  /\ UNCHANGED <<listVars, page, orphans, warned, tardy, dialog>>

AssignFailed(i) ==
  /\ Came(i, "assign", TRUE)
  /\ net' = Without(i)
  /\ warned' = TRUE /\ isSubmitting' = FALSE
  /\ UNCHANGED <<listVars, page, orphans, isLoading, tardy, dialog>>

ListAnswer(i) ==
  \/ RowsCame(i) \/ RowsFailed(i) \/ LessonsCame(i) \/ RolesCame(i)
  \/ Deleted(i) \/ DeleteFailed(i) \/ Assigned(i) \/ AssignFailed(i)

ListsNext ==
  \/ \E p \in ListPages : OpenList(p)
  \/ LeaveList
  \/ \E x \in Items : ConfirmDelete(x) \/ AssignRole(x)
  \/ CancelDelete \/ Delete
  \/ \E on \in BOOLEAN : Filter(on)
  \/ \E n \in 0 .. Cardinality(Items) : GoToPage(n)
  \/ Search
  \/ \E i \in DOMAIN net : Serve(i) \/ ListAnswer(i)

\* The oldest request is served and its answer comes; nobody has to click.
ListsProgress == page \in ListPages /\ net # <<>> /\ (Serve(1) \/ ListAnswer(1))

ListsSpec ==
  /\ PageInit /\ ListsInit
  /\ [][ListsNext]_<<pageVars, listVars>>
  /\ WF_<<pageVars, listVars>>(ListsProgress)

-----------------------------------------------------------------------------
(* Properties *)

\* A list at rest without an error message shows what the server holds for the
\* query its controls stand for, unless an overtaken answer came last: no
\* deletion, assignment, filter, search or pager leaves the page behind.
ListIsCurrent ==
  page \in ListPages /\ net = <<>> /\ ~warned /\ ~tardy => rows = RowsOf(asked)
=============================================================================
