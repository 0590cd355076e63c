----------------------------- MODULE StudentPages -----------------------------
(***************************************************************************)
(* The pages of a student: the dashboard, which lists the books a filter   *)
(* and a search select, the page of one book with the modal that shows a   *)
(* result, the results, one result, and the page that solves a test.       *)
(* What the server answers is named by what it was asked.                  *)
(***************************************************************************)
EXTENDS Page

CONSTANT Results   \* results of practice tests; the test of a result bears its name

ASSUME StudentAssumption == None \notin Results

VARIABLES
  query,         \* dashboard: the exam type, the lesson and the search selected
  shown,         \* dashboard: the query whose books are listed, or None
  choices,       \* dashboard: the dropdowns that have something to choose
  filtersStuck,  \* dashboard: hasActiveFilters has become TRUE for good
  redirected,    \* a navigation the page has asked for is under way
  loaded,        \* the object of the page has come
  modal          \* ResultModal of the page of a book

studentVars == <<query, shown, choices, filtersStuck, redirected, loaded, modal>>
dashboardVars == <<query, shown, choices, filtersStuck, redirected>>

Unfiltered == [exam |-> FALSE, lesson |-> FALSE, search |-> FALSE]
Selections == [exam : BOOLEAN, lesson : BOOLEAN, search : BOOLEAN]

NoModal == [id |-> None, open |-> FALSE, loading |-> FALSE, warned |-> FALSE,
            tardy |-> FALSE, result |-> None, key |-> None]

ResetStudent ==
  /\ query' = Unfiltered /\ shown' = None /\ choices' = {}
  /\ filtersStuck' = FALSE /\ redirected' = FALSE /\ loaded' = FALSE
  /\ modal' = NoModal

StudentInit ==
  /\ query = Unfiltered /\ shown = None /\ choices = {}
  /\ filtersStuck = FALSE /\ redirected = FALSE /\ loaded = FALSE
  /\ modal = NoModal

StudentTypeOK ==
  /\ query \in Selections /\ shown \in Selections \cup {None}
  /\ choices \subseteq {"exam", "lesson"}
  /\ filtersStuck \in BOOLEAN /\ redirected \in BOOLEAN /\ loaded \in BOOLEAN
  /\ modal \in [id : Results \cup {None}, open : BOOLEAN, loading : BOOLEAN,
                warned : BOOLEAN, tardy : BOOLEAN,
                result : Results \cup {None}, key : Results \cup {None}]

-----------------------------------------------------------------------------
(* The pages that load one thing after another, as data:                   *)
(*   loads   their requests, each sent by the success of the one before    *)
(*   stops   successes that may find nothing to go on with                 *)
(*   quiet   the endings that show no message                              *)

BookDetail ==
  [loads |-> <<"books", "tests">>, stops |-> {"books"}, quiet |-> {}]

ResultsList ==
  [loads |-> <<"results", "tests", "subjects">>, stops |-> {"results", "tests"},
   quiet |-> {<<"results", "stop">>, <<"tests", "stop">>, <<"tests", "error">>,
              <<"subjects", "error">>}]

ResultDetail ==
  [loads |-> <<"result", "test">>, stops |-> {}, quiet |-> {}]

TestSolver ==
  [loads |-> <<"test">>, stops |-> {}, quiet |-> {}]

Readers == {"book-detail", "results", "result-detail", "test-solver"}

Reader ==
  [p \in Readers |->
     CASE p = "book-detail" -> BookDetail
       [] p = "results" -> ResultsList
       [] p = "result-detail" -> ResultDetail
       [] p = "test-solver" -> TestSolver]

StudentPageNames == Readers \cup {"dashboard", "test-result"}

OpenReader(p) ==
  /\ Mount(p, TRUE, <<Request(Reader[p].loads[1], None)>>)
  /\ UNCHANGED studentVars

\* ngOnInit of the dashboard; an administrator is sent to the administration,
\* and the page of a fresh result always to the results.
OpenDashboard ==
  /\ Mount("dashboard", TRUE, <<Request("options", None), Request("shown", query)>>)
  /\ UNCHANGED studentVars

OpenAndRedirect(p) ==
  /\ p \in {"dashboard", "test-result"}
  /\ Mount(p, TRUE, <<>>)
  /\ redirected' = TRUE
  /\ UNCHANGED <<query, shown, choices, filtersStuck, loaded, modal>>

LeaveStudent ==
  /\ page \in StudentPageNames
  /\ Unmount(orphans)
  /\ ResetStudent

Redirect == redirected /\ LeaveStudent

-----------------------------------------------------------------------------
(* The dashboard: every change of the filter asks for the books again, and *)
(* whichever answer comes last is listed.                                  *)

OnDashboard == page = "dashboard"

\* loadTestBooks.
LoadBooks(q) ==
  /\ Room(1)
  /\ net' = Append(net, Request("shown", q))
  /\ isLoading' = TRUE /\ warned' = FALSE
  /\ UNCHANGED <<page, orphans, isSubmitting, tardy, dialog, shown, redirected, loaded, modal>>

WithExam(on) == [exam |-> on, lesson |-> FALSE, search |-> query.search]
WithLesson(on) == [exam |-> query.exam, lesson |-> on, search |-> query.search]
WithSearch(on) == [exam |-> query.exam, lesson |-> query.lesson, search |-> on]

\* The dropdowns, which always offer "all", and the crosses beside what is selected.
SelectExamType(on) ==
  /\ OnDashboard /\ on # query.exam
  /\ on => "exam" \in choices
  /\ query' = WithExam(on)
  /\ LoadBooks(query')
  /\ UNCHANGED <<choices, filtersStuck>>

SelectLessonOf(on) ==
  /\ OnDashboard /\ on # query.lesson /\ query.exam
  /\ on => "lesson" \in choices
  /\ query' = WithLesson(on)
  /\ LoadBooks(query')
  /\ UNCHANGED <<choices, filtersStuck>>

\* hasActiveFilters reads the exam type, the lesson and then the search, of
\* which only the search is a signal: it is computed again when the search has
\* changed, and never after it was computed without reading the search.
FiltersOn == filtersStuck \/ query.search

ClearSearchSilently(on) ==
  /\ OnDashboard /\ (on \/ query.search)
  /\ query' = WithSearch(on)
  /\ filtersStuck' = (filtersStuck \/ query.exam \/ query.lesson)
  /\ IF on THEN LoadBooks(query')
     ELSE UNCHANGED <<pageVars, shown, redirected, loaded, modal>>
  /\ UNCHANGED choices

\* onSearchChange at each keystroke, and clearSearch.
SearchBooks(on) ==
  /\ OnDashboard /\ (on \/ query.search)
  /\ query' = WithSearch(on)
  /\ filtersStuck' = (filtersStuck \/ query.exam \/ query.lesson)
  /\ LoadBooks(query')
  /\ UNCHANGED choices

\* The lessons go, and are not loaded again.
ClearAllFilters ==
  /\ OnDashboard /\ FiltersOn
  /\ query' = Unfiltered
  /\ choices' = choices \ {"lesson"}
  /\ LoadBooks(query')
  /\ UNCHANGED filtersStuck

StudentCame(i, p, op) == page = p /\ i \in DOMAIN net /\ net[i].op = op

\* The exam types and the lessons; only the former's failure is shown.
ChoicesCame(i) ==
  /\ StudentCame(i, "dashboard", "options")
  /\ net' = Without(i)
  /\ choices' \in SUBSET {"exam", "lesson"}
  /\ warned' = (warned \/ "exam" \notin choices')
  /\ UNCHANGED <<page, orphans, isLoading, isSubmitting, tardy, dialog,
                 query, shown, filtersStuck, redirected, loaded, modal>>

BooksCame(i) ==
  /\ StudentCame(i, "dashboard", "shown")
  /\ net' = Without(i)
  /\ isLoading' = FALSE
  /\ \/ shown' = net[i].arg /\ tardy' = net[i].old /\ UNCHANGED warned
     \/ shown' = None /\ warned' = TRUE /\ UNCHANGED tardy
  /\ UNCHANGED <<page, orphans, isSubmitting, dialog, query, choices, filtersStuck, redirected,
                 loaded, modal>>

-----------------------------------------------------------------------------
(* The pages that load one thing after another *)

Position(op) == CHOOSE k \in DOMAIN Reader[page].loads : Reader[page].loads[k] = op

PartCame(i) ==
  /\ page \in Readers /\ i \in DOMAIN net
  /\ \E k \in DOMAIN Reader[page].loads : Reader[page].loads[k] = net[i].op
  /\ LET r == Reader[page]
         op == net[i].op
         k == Position(op)
     IN \/ /\ k < Len(r.loads)
           /\ net' = Append(Without(i), Request(r.loads[k + 1], None))
           /\ UNCHANGED <<isLoading, warned, loaded>>
        \/ /\ k = Len(r.loads)
           /\ net' = Without(i) /\ isLoading' = FALSE /\ loaded' = TRUE
           /\ UNCHANGED warned
        \/ /\ \E ending \in {"error"} \cup (IF op \in r.stops THEN {"stop"} ELSE {}) :
                warned' = (warned \/ <<op, ending>> \notin r.quiet)
           /\ net' = Without(i) /\ isLoading' = FALSE
           /\ UNCHANGED loaded
  /\ UNCHANGED <<page, orphans, isSubmitting, tardy, dialog, dashboardVars, modal>>

\* submitTest; the answers themselves are the business of TestSolving.
SubmitTest ==
  /\ page = "test-solver" /\ loaded /\ ~isLoading /\ ~isSubmitting /\ Room(1)
  /\ net' = Append(net, Request("solve", None))
  /\ isSubmitting' = TRUE
  /\ UNCHANGED <<studentVars, page, orphans, isLoading, warned, tardy, dialog>>

\* The button is there again at once, after a success too: the navigation to the
\* page of the result only starts then.
Solved(i) ==
  /\ StudentCame(i, "test-solver", "solve")
  /\ net' = Without(i) /\ isSubmitting' = FALSE
  /\ \/ redirected' = TRUE /\ UNCHANGED warned
     \/ warned' = TRUE /\ UNCHANGED redirected
  /\ UNCHANGED <<query, shown, choices, filtersStuck, loaded, modal,
                 page, orphans, isLoading, tardy, dialog>>

-----------------------------------------------------------------------------
(* ResultModal lives as long as the page of the book: closing it aborts    *)
(* nothing, and an answer fills it whichever result it is open for.        *)

OpenResultModal(r) ==
  /\ page = "book-detail" /\ loaded /\ ~isLoading /\ ~modal.open /\ Room(1)
  /\ modal' = [modal EXCEPT !.id = r, !.open = TRUE, !.loading = TRUE,
                            !.warned = FALSE, !.tardy = FALSE]
  /\ net' = Append(net, Request("modalResult", r))
  /\ UNCHANGED <<dashboardVars, loaded, page, orphans, isLoading, isSubmitting, warned, tardy, dialog>>

\* close(), the event, and close() again when the input has become null.
CloseResultModal ==
  /\ modal.open
  /\ modal' = [modal EXCEPT !.id = None, !.open = FALSE, !.result = None, !.key = None]
  /\ UNCHANGED <<pageVars, dashboardVars, loaded>>

InModal == UNCHANGED <<dashboardVars, loaded, page, orphans, isLoading, isSubmitting, warned, tardy, dialog>>

FailedStillLoading(m) == [m EXCEPT !.warned = TRUE]

Failed(m) == [m EXCEPT !.loading = FALSE, !.warned = TRUE]

ModalResultCameKeepingKey(i) ==
  /\ StudentCame(i, "book-detail", "modalResult")
  /\ LET m == [modal EXCEPT !.result = net[i].arg, !.tardy = modal.tardy \/ net[i].old]
     IN IF modal.key # None
        THEN modal' = [m EXCEPT !.loading = FALSE] /\ net' = Without(i)
        ELSE modal' = m /\ net' = Append(Without(i), Request("modalKey", net[i].arg))
  /\ InModal

\* loadResult, which goes on to loadPracticeTest.
ModalResultCame(i) ==
  /\ StudentCame(i, "book-detail", "modalResult")
  /\ \/ /\ modal' = [modal EXCEPT !.result = net[i].arg, !.tardy = modal.tardy \/ net[i].old]
        /\ net' = Append(Without(i), Request("modalKey", net[i].arg))
     \/ modal' = Failed(modal) /\ net' = Without(i)
  /\ InModal

ModalKeyCame(i) ==
  /\ StudentCame(i, "book-detail", "modalKey")
  /\ net' = Without(i)
  /\ \/ modal' = [modal EXCEPT !.key = net[i].arg, !.loading = FALSE,
                               !.tardy = modal.tardy \/ net[i].old]
     \/ modal' = Failed(modal)
  /\ InModal

-----------------------------------------------------------------------------

StudentAnswer(i) ==
  \/ ChoicesCame(i) \/ BooksCame(i) \/ PartCame(i) \/ Solved(i)
  \/ ModalResultCame(i) \/ ModalKeyCame(i)

StudentNext ==
  \/ \E p \in Readers : OpenReader(p)
  \/ OpenDashboard
  \/ \E p \in {"dashboard", "test-result"} : OpenAndRedirect(p)
  \/ LeaveStudent
  \/ \E on \in BOOLEAN : SelectExamType(on) \/ SelectLessonOf(on) \/ SearchBooks(on)
  \/ ClearAllFilters
  \/ SubmitTest
  \/ \E r \in Results : OpenResultModal(r)
  \/ CloseResultModal
  \/ \E i \in DOMAIN net : StudentAnswer(i)

\* Answers come, and a navigation under way ends.
StudentProgress ==
  page \in StudentPageNames /\ (Redirect \/ (net # <<>> /\ StudentAnswer(1)))

-----------------------------------------------------------------------------
(* Properties *)

\* The dashboard at rest without an error message lists the books of the filter
\* and search it shows, unless an overtaken answer came last: no way of
\* changing or clearing a filter leaves the list behind.
BooksFitFilter ==
  page = "dashboard" /\ ~redirected /\ "shown" \notin Pending /\ ~warned /\ ~tardy =>
    shown = query

\* An open result modal at rest without an error shows the result it was opened
\* for beside the answer key of that result's test, whatever it was opened for
\* before and closed too early, unless an overtaken answer came last.
ModalGradesItsResult ==
  modal.open /\ ~modal.loading /\ ~modal.warned /\ ~modal.tardy
    /\ Pending \cap {"modalResult", "modalKey"} = {} =>
    modal.result = modal.id /\ modal.key = modal.id
=============================================================================
