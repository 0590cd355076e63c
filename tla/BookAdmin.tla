------------------------------- MODULE BookAdmin ------------------------------
(***************************************************************************)
(* The administration of test books: the dashboard with the modal that     *)
(* creates a book, and the page of one book with its practice tests, two   *)
(* deletion dialogs and three modals.  A modal is a component that lives   *)
(* as long as its page: closing it aborts nothing, so that the answer to a *)
(* load or to a save may find it closed, or open for another test.         *)
(***************************************************************************)
EXTENDS Page

CONSTANTS
  Tests,        \* the practice tests of the book
  Exams, Lessons,  \* values of the two selects; the edit modal's placeholder is one more
                   \* such value, "null", for which the server answers with an error
  TheBook,      \* the exam type and lesson of the book being edited
  MaxUses       \* bound on the modals and dialogs opened in one visit of a page

ASSUME BookAssumption ==
  /\ TheBook \in Exams \X Lessons
  /\ MaxUses \in Nat
  /\ None \notin Tests \cup Exams \cup Lessons \cup (Exams \X Lessons)

VARIABLES
  hasBook,        \* testBook: the book has been loaded
  fetchingTests,  \* isLoadingTests
  bookDialog,     \* the dialog that deletes the book
  edit,           \* PracticeTestEditModal
  fresh,          \* PracticeTestModal, which creates a test
  book,           \* TestBookEditModal or TestBookCreateModal
  uses            \* how many modals and dialogs were opened

bookVars == <<hasBook, fetchingTests, bookDialog, edit, fresh, book, uses>>
ownButNet == <<page, orphans, isLoading, warned, tardy, dialog>>

BookPages == {"admin", "test-book"}

\* origin: the test whose data the form holds, "typed", or None when it is blank;
\* located: testBookId is known; mixed: what the form holds came when the modal was
\* closed, or open for another test.
NoEdit ==
  [open |-> FALSE, id |-> None, origin |-> None, loading |-> TRUE, saving |-> FALSE,
   located |-> FALSE, mixed |-> FALSE]
NoFresh == [open |-> FALSE, loading |-> TRUE, saving |-> FALSE]

\* exam, lesson and chosen are the form's; a subject is named by the exam type
\* and lesson it belongs to, and None is a control whose value was reset.
\* offered says which subjects are offered, if any; mixed that an answer about
\* one selection came when the form had another.
Unselected == [exam |-> None, lesson |-> None]
NoBook ==
  [open |-> FALSE, exam |-> None, lesson |-> None, chosen |-> {}, offered |-> None,
   fetching |-> FALSE, loading |-> TRUE, saving |-> FALSE, mixed |-> FALSE]

BooksInit ==
  /\ hasBook = FALSE /\ fetchingTests = FALSE /\ bookDialog = "closed"
  /\ edit = NoEdit /\ fresh = NoFresh /\ book = NoBook /\ uses = 0

Pairs == Exams \X Lessons
Selected(b) == IF b.exam # None /\ b.lesson # None THEN <<b.exam, b.lesson>> ELSE None

BooksTypeOK ==
  /\ hasBook \in BOOLEAN /\ fetchingTests \in BOOLEAN /\ uses \in 0 .. MaxUses
  /\ bookDialog \in {"closed", "visible", "confirmed"}
  /\ edit \in [open : BOOLEAN, id : Tests \cup {None}, origin : Tests \cup {None, "typed"},
               loading : BOOLEAN, saving : BOOLEAN, located : BOOLEAN, mixed : BOOLEAN]
  /\ fresh \in [open : BOOLEAN, loading : BOOLEAN, saving : BOOLEAN]
  /\ book \in [open : BOOLEAN, exam : Exams \cup {None}, lesson : Lessons \cup {None},
               chosen : SUBSET (Pairs \cup {None}), offered : Pairs \cup {None},
               fetching : BOOLEAN, loading : BOOLEAN, saving : BOOLEAN, mixed : BOOLEAN]

\* AdminDashboard.loadData: four requests joined into one answer; then the
\* counts of all books, joined again.
OpenAdmin ==
  /\ Mount("admin", TRUE, <<Request("data", None)>>)
  /\ book' = [NoBook EXCEPT !.loading = FALSE]
  /\ UNCHANGED <<hasBook, fetchingTests, bookDialog, edit, fresh, uses>>

\* The page of a book; the names of exam types, lessons and subjects, which it
\* loads as well, only label it.
OpenTestBook ==
  /\ Mount("test-book", TRUE, <<Request("book", None)>>)
  /\ UNCHANGED bookVars

ForgetBooks ==
  /\ hasBook' = FALSE /\ fetchingTests' = FALSE /\ bookDialog' = "closed"
  /\ edit' = NoEdit /\ fresh' = NoFresh /\ book' = NoBook /\ uses' = 0

\* Of what the page of a book leaves behind, the deletion of the book navigates.
LeaveBooks == page \in BookPages /\ Unmount(orphans + LeftBehind("deleteBook")) /\ ForgetBooks

-----------------------------------------------------------------------------
(* The pages *)

ModalOpen == edit.open \/ fresh.open \/ book.open
\* Modals and dialogs cover the page.
Uncovered == ~ModalOpen /\ ~dialog.visible /\ bookDialog # "visible"

Use == uses < MaxUses /\ uses' = uses + 1

BookShown == page = "test-book" /\ Uncovered /\ ~isLoading /\ hasBook
TestsShown == BookShown /\ ~fetchingTests

BookCame(i, op) == page \in BookPages /\ i \in DOMAIN net /\ net[i].op = op

\* loadData of the dashboard.
DataCame(i) ==
  /\ BookCame(i, "data")
  /\ \/ net' = Without(i) \o <<Request("counts", None)>> /\ UNCHANGED <<isLoading, warned>>
     \/ net' = Without(i) /\ isLoading' = FALSE /\ UNCHANGED warned
     \/ net' = Without(i) /\ isLoading' = FALSE /\ warned' = TRUE
  /\ UNCHANGED <<bookVars, page, orphans, isSubmitting, tardy, dialog>>

CountsCame(i) ==
  /\ BookCame(i, "counts")
  /\ net' = Without(i) /\ isLoading' = FALSE
  /\ UNCHANGED <<bookVars, page, orphans, isSubmitting, warned, tardy, dialog>>

\* loadBook of the page of a book, and loadPracticeTests, which ends both.
BookLoaded(i) ==
  /\ BookCame(i, "book")
  /\ \/ /\ net' = Without(i) \o <<Request("tests", None)>>
        /\ hasBook' = TRUE /\ fetchingTests' = TRUE
        /\ UNCHANGED <<isLoading, warned>>
     \/ /\ net' = Without(i)
        /\ isLoading' = FALSE /\ warned' = TRUE
        /\ UNCHANGED <<hasBook, fetchingTests>>
  /\ UNCHANGED <<page, orphans, isSubmitting, tardy, dialog, bookDialog, edit, fresh, book, uses>>

TestsCame(i) ==
  /\ BookCame(i, "tests")
  /\ net' = Without(i)
  /\ isLoading' = FALSE /\ fetchingTests' = FALSE
  /\ warned' \in {warned, TRUE}
  /\ UNCHANGED <<page, orphans, isSubmitting, tardy, dialog, hasBook, bookDialog, edit, fresh, book, uses>>

ConfirmDeleteTest(x) ==
  /\ Use
  /\ TestsShown
  /\ OpenDialog(x)
  /\ UNCHANGED <<hasBook, fetchingTests, bookDialog, edit, fresh, book, page, orphans, net, isLoading, isSubmitting, warned, tardy>>

CancelDeleteTest ==
  /\ page = "test-book" /\ dialog.visible
  /\ CloseDialog(None)
  /\ UNCHANGED <<bookVars, page, orphans, net, isLoading, isSubmitting, warned, tardy>>

DeleteTest ==
  /\ page = "test-book" /\ dialog.visible /\ Room(1)
  /\ HideDialog
  /\ net' = Append(net, Request("delete", dialog.target))
  /\ UNCHANGED <<bookVars, page, orphans, isLoading, isSubmitting, warned, tardy>>

TestDeleted(i) ==
  /\ BookCame(i, "delete")
  /\ net' = Without(i) \o <<Request("tests", None)>>
  /\ fetchingTests' = TRUE
  /\ CloseDialog(None)
  /\ UNCHANGED <<page, orphans, isLoading, isSubmitting, warned, tardy, hasBook, bookDialog,
                 edit, fresh, book, uses>>

TestNotDeleted(i) ==
  /\ BookCame(i, "delete")
  /\ net' = Without(i)
  /\ warned' = TRUE
  /\ CloseDialog(dialog.target)
  /\ UNCHANGED <<bookVars, page, orphans, isLoading, isSubmitting, tardy>>

\* The dialog of the book is "confirmed" while its DELETE is under way: the
\* page's flag is up and the widget hidden.
ConfirmDeleteBook ==
  /\ Use
  /\ BookShown /\ bookDialog = "closed"
  /\ bookDialog' = "visible"
  /\ UNCHANGED <<pageVars, hasBook, fetchingTests, edit, fresh, book>>

CancelDeleteBook ==
  /\ bookDialog = "visible"
  /\ bookDialog' = "closed"
  /\ UNCHANGED <<pageVars, hasBook, fetchingTests, edit, fresh, book, uses>>

DeleteBook ==
  /\ bookDialog = "visible" /\ Room(1)
  /\ bookDialog' = "confirmed"
  /\ net' = Append(net, Request("deleteBook", None))
  /\ UNCHANGED <<page, orphans, isLoading, isSubmitting, warned, tardy, dialog, hasBook,
                 fetchingTests, edit, fresh, book, uses>>

\* router.navigate to the dashboard.
BookDeleted(i) ==
  /\ BookCame(i, "deleteBook")
  /\ Unmount(orphans)
  /\ ForgetBooks

BookNotDeleted(i) ==
  /\ BookCame(i, "deleteBook")
  /\ net' = Without(i)
  /\ warned' = TRUE /\ bookDialog' = "closed"
  /\ UNCHANGED <<page, orphans, isLoading, isSubmitting, tardy, dialog, hasBook, fetchingTests,
                 edit, fresh, book, uses>>

-----------------------------------------------------------------------------
(* PracticeTestEditModal *)

\* editTest: the inputs are written, and open() loads the test they name.
EditTest(x) ==
  /\ Use
  /\ TestsShown /\ Room(1)
  /\ edit' = [edit EXCEPT !.open = TRUE, !.id = x, !.loading = TRUE]
  /\ net' = Append(net, Request("testLoad", x))
  /\ UNCHANGED <<ownButNet, isSubmitting, hasBook, fetchingTests, bookDialog, fresh, book>>

ClosedEditKeepingForm(e) == [e EXCEPT !.open = FALSE]

\* close() resets the form.
ClosedEdit(e) == [e EXCEPT !.open = FALSE, !.origin = None, !.mixed = FALSE]

CloseEdit ==
  /\ edit.open
  /\ edit' = ClosedEdit(edit)
  /\ UNCHANGED <<pageVars, hasBook, fetchingTests, bookDialog, fresh, book, uses>>

\* The user fills what a failed load left blank; without a load that succeeded
\* before, there is no subject to choose and no testBookId to send.
FillEdit ==
  /\ edit.open /\ ~edit.loading /\ edit.origin = None /\ edit.located
  /\ edit' = [edit EXCEPT !.origin = "typed"]
  /\ UNCHANGED <<pageVars, hasBook, fetchingTests, bookDialog, fresh, book, uses>>

SaveTest ==
  /\ edit.open /\ ~edit.loading /\ ~edit.saving /\ edit.origin # None /\ Room(1)
  /\ edit' = [edit EXCEPT !.saving = TRUE]
  /\ net' = Append(net, Request("testSave", None))
  /\ UNCHANGED <<ownButNet, isSubmitting, hasBook, fetchingTests, bookDialog, fresh, book, uses>>

\* The answer fills the form, whichever test the modal is open for by now.
TestLoadCame(i) ==
  /\ BookCame(i, "testLoad")
  /\ net' = Without(i)
  /\ \/ edit' = [edit EXCEPT !.loading = FALSE, !.origin = net[i].arg, !.located = TRUE,
                             !.mixed = ~edit.open \/ net[i].arg # edit.id]
     \/ edit' = [edit EXCEPT !.loading = FALSE]
  /\ UNCHANGED <<ownButNet, isSubmitting, hasBook, fetchingTests, bookDialog, fresh, book, uses>>

\* saved.emit() and close(), whether or not the modal was closed meanwhile.
TestSaved(i) ==
  /\ BookCame(i, "testSave")
  /\ net' = Without(i) \o <<Request("tests", None)>>
  /\ fetchingTests' = TRUE
  /\ edit' = ClosedEdit([edit EXCEPT !.saving = FALSE])
  /\ UNCHANGED <<ownButNet, isSubmitting, hasBook, bookDialog, fresh, book, uses>>

TestNotSaved(i) ==
  /\ BookCame(i, "testSave")
  /\ net' = Without(i)
  /\ edit' = [edit EXCEPT !.saving = FALSE]
  /\ UNCHANGED <<ownButNet, isSubmitting, hasBook, fetchingTests, bookDialog, fresh, book, uses>>

-----------------------------------------------------------------------------
(* PracticeTestModal *)

OpenFresh ==
  /\ Use
  /\ BookShown /\ Room(1)
  /\ fresh' = [fresh EXCEPT !.open = TRUE]
  /\ net' = Append(net, Request("freshBook", None))
  /\ UNCHANGED <<ownButNet, isSubmitting, hasBook, fetchingTests, bookDialog, edit, book>>

ClosedFresh(f) == [f EXCEPT !.open = FALSE]

CloseFresh ==
  /\ fresh.open
  /\ fresh' = ClosedFresh(fresh)
  /\ UNCHANGED <<pageVars, hasBook, fetchingTests, bookDialog, edit, book, uses>>

SaveFresh ==
  /\ fresh.open /\ ~fresh.loading /\ ~fresh.saving /\ Room(1)
  /\ fresh' = [fresh EXCEPT !.saving = TRUE]
  /\ net' = Append(net, Request("freshSave", None))
  /\ UNCHANGED <<ownButNet, isSubmitting, hasBook, fetchingTests, bookDialog, edit, book, uses>>

\* The book's answer, or its error, ends the spinner.
FreshCame(i) ==
  /\ BookCame(i, "freshBook")
  /\ net' = Without(i)
  /\ fresh' = [fresh EXCEPT !.loading = FALSE]
  /\ UNCHANGED <<ownButNet, isSubmitting, hasBook, fetchingTests, bookDialog, edit, book, uses>>

FreshSaved(i) ==
  /\ BookCame(i, "freshSave")
  /\ \/ /\ net' = Without(i) \o <<Request("tests", None)>>
        /\ fetchingTests' = TRUE
        /\ fresh' = ClosedFresh([fresh EXCEPT !.saving = FALSE])
     \/ /\ net' = Without(i)
        /\ fresh' = [fresh EXCEPT !.saving = FALSE]
        /\ UNCHANGED fetchingTests
  /\ UNCHANGED <<ownButNet, isSubmitting, hasBook, bookDialog, edit, book, uses>>

-----------------------------------------------------------------------------
(* TestBookCreateModal on the dashboard, TestBookEditModal on the page of a *)
(* book: the form, and the subjects of the exam type and lesson selected.   *)

SubjectsRequest(pair, select) == Request("subjects", [pair |-> pair, select |-> select])

Emptied(b) == [b EXCEPT !.exam = None, !.lesson = None]

\* form.reset leaves the controls of the subject array where they are, empty.
Nulled(b) == [Emptied(b) EXCEPT !.chosen = IF b.chosen = {} THEN {} ELSE {None}, !.mixed = FALSE]

\* form.reset, clearSubjectSelection and no subjects offered.
Cleared(b) == [Emptied(b) EXCEPT !.chosen = {}, !.offered = None, !.mixed = FALSE]

OpenBook ==
  /\ Use
  /\ Uncovered
  /\ \/ /\ page = "admin"
        /\ book' = [Cleared(book) EXCEPT !.open = TRUE, !.loading = FALSE]
        /\ UNCHANGED net
     \/ /\ BookShown /\ Room(1)
        /\ book' = [book EXCEPT !.open = TRUE, !.loading = TRUE]
        /\ net' = Append(net, Request("bookLoad", None))
  /\ UNCHANGED <<ownButNet, isSubmitting, hasBook, fetchingTests, bookDialog, edit, fresh>>

ClosedBook(b) ==
  IF page = "admin" THEN [Cleared(b) EXCEPT !.open = FALSE]
  ELSE [Nulled(b) EXCEPT !.open = FALSE]

CloseBook ==
  /\ book.open
  /\ book' = ClosedBook(book)
  /\ UNCHANGED <<pageVars, hasBook, fetchingTests, bookDialog, edit, fresh, uses>>

\* onExamTypeChange and onLessonChange, after the form took the new value.
SelectedKeepingSubjects(b) ==
  /\ book' = [b EXCEPT !.fetching = b.fetching \/ Selected(b) # None,
                       !.offered = IF Selected(b) # None THEN b.offered ELSE None]
  /\ net' = IF Selected(b) # None THEN Append(net, SubjectsRequest(Selected(b), FALSE)) ELSE net

Reselected(b) ==
  /\ book' = [b EXCEPT !.chosen = {}, !.mixed = FALSE,
                       !.fetching = b.fetching \/ Selected(b) # None,
                       !.offered = IF Selected(b) # None THEN b.offered ELSE None]
  /\ net' = IF Selected(b) # None THEN Append(net, SubjectsRequest(Selected(b), FALSE)) ELSE net

FormShown == book.open /\ ~book.loading

SelectExam(e) ==
  /\ FormShown /\ Room(1) /\ e # book.exam
  /\ Reselected([book EXCEPT !.exam = e])
  /\ UNCHANGED <<ownButNet, isSubmitting, hasBook, fetchingTests, bookDialog, edit, fresh, uses>>

\* With or without an exam type: the [disabled] of the template goes to the
\* directive of the form control, which ignores it in the edit modal's select and
\* enables the create modal's dropdown again when it sets up its control.
SelectLesson(l) ==
  /\ FormShown /\ Room(1) /\ l # book.lesson
  /\ Reselected([book EXCEPT !.lesson = l])
  /\ UNCHANGED <<ownButNet, isSubmitting, hasBook, fetchingTests, bookDialog, edit, fresh, uses>>

ToggleSubject ==
  /\ FormShown /\ ~book.fetching /\ book.offered # None /\ Selected(book) # None
  /\ book' = [book EXCEPT !.chosen = IF book.offered \in book.chosen
                                     THEN book.chosen \ {book.offered}
                                     ELSE book.chosen \cup {book.offered}]
  /\ UNCHANGED <<pageVars, hasBook, fetchingTests, bookDialog, edit, fresh, uses>>

SaveBook ==
  /\ FormShown /\ ~book.saving /\ Selected(book) # None /\ book.chosen # {} /\ Room(1)
  /\ book' = [book EXCEPT !.saving = TRUE]
  /\ net' = Append(net, Request("bookSave", None))
  /\ UNCHANGED <<ownButNet, isSubmitting, hasBook, fetchingTests, bookDialog, edit, fresh, uses>>

\* loadTestBook: patchValue leaves the chosen subjects alone; the subjects it
\* then asks for are to be selected.
BookLoadCame(i) ==
  /\ BookCame(i, "bookLoad")
  /\ \/ /\ book' = [book EXCEPT !.loading = FALSE, !.fetching = TRUE,
                                !.exam = TheBook[1], !.lesson = TheBook[2],
                                !.mixed = book.mixed \/ ~(book.chosen \subseteq {None, TheBook})]
        /\ net' = Without(i) \o <<SubjectsRequest(TheBook, TRUE)>>
     \/ /\ book' = [book EXCEPT !.loading = FALSE]
        /\ net' = Without(i)
  /\ UNCHANGED <<ownButNet, isSubmitting, hasBook, fetchingTests, bookDialog, edit, fresh, uses>>

\* The answer is offered, and selected if the book's load asked for it, whatever
\* the form has selected by now.
SubjectsCame(i) ==
  /\ BookCame(i, "subjects")
  /\ net' = Without(i)
  /\ LET asked == net[i].arg
         other == asked.pair # Selected(book)
     IN \/ book' = [book EXCEPT !.fetching = FALSE, !.offered = asked.pair,
                                !.chosen = IF asked.select THEN book.chosen \cup {asked.pair}
                                           ELSE book.chosen,
                                !.mixed = book.mixed \/ other]
        \/ book' = [book EXCEPT !.fetching = FALSE, !.offered = None]
  /\ UNCHANGED <<ownButNet, isSubmitting, hasBook, fetchingTests, bookDialog, edit, fresh, uses>>

\* saved.emit() and close(): the page loads again.
BookSaved(i) ==
  /\ BookCame(i, "bookSave")
  /\ book' = ClosedBook([book EXCEPT !.saving = FALSE])
  /\ net' = Without(i) \o (IF page = "admin" THEN <<Request("data", None)>>
                            ELSE <<Request("book", None), Request("tests", None)>>)
  /\ isLoading' = TRUE /\ warned' = FALSE
  /\ fetchingTests' = (fetchingTests \/ page = "test-book")
  /\ UNCHANGED <<page, orphans, isSubmitting, tardy, dialog, hasBook, bookDialog, edit, fresh, uses>>

BookNotSaved(i) ==
  /\ BookCame(i, "bookSave")
  /\ book' = [book EXCEPT !.saving = FALSE]
  /\ net' = Without(i)
  /\ UNCHANGED <<ownButNet, isSubmitting, hasBook, fetchingTests, bookDialog, edit, fresh, uses>>

-----------------------------------------------------------------------------

BookAnswer(i) ==
  \/ DataCame(i) \/ CountsCame(i) \/ BookLoaded(i) \/ TestsCame(i)
  \/ TestDeleted(i) \/ TestNotDeleted(i) \/ BookDeleted(i) \/ BookNotDeleted(i)
  \/ TestLoadCame(i) \/ TestSaved(i) \/ TestNotSaved(i)
  \/ FreshCame(i) \/ FreshSaved(i)
  \/ BookLoadCame(i) \/ SubjectsCame(i) \/ BookSaved(i) \/ BookNotSaved(i)

BooksProgress == page \in BookPages /\ net # <<>> /\ BookAnswer(1)

OnBookPage ==
  \/ \E x \in Tests : ConfirmDeleteTest(x) \/ EditTest(x)
  \/ CancelDeleteTest \/ DeleteTest
  \/ ConfirmDeleteBook \/ CancelDeleteBook \/ DeleteBook
  \/ CloseEdit \/ FillEdit \/ SaveTest
  \/ OpenFresh \/ CloseFresh \/ SaveFresh
  \/ OpenBook \/ CloseBook \/ ToggleSubject \/ SaveBook
  \/ \E e \in Exams : SelectExam(e)
  \/ \E l \in Lessons : SelectLesson(l)
  \/ \E i \in DOMAIN net : BookAnswer(i)

BooksNext ==
  \/ OpenAdmin \/ OpenTestBook \/ LeaveBooks
  \/ page \in BookPages /\ OnBookPage

-----------------------------------------------------------------------------
(* Properties *)

\* What an open edit modal shows, and saves, is the data of the test it was opened
\* for, or what the user typed after a load that failed, unless an answer came when
\* the modal was closed or open for another test: closing it leaves nothing in the
\* form for the next test, and no save sends one test's answer key to another.
ModalShowsItsTest ==
  edit.open /\ ~edit.loading /\ ~edit.mixed => edit.origin \in {edit.id, "typed", None}

\* The subjects a book form has chosen and offers are those of the exam type and
\* lesson it has selected, unless the answer about one selection met another;
\* only the edit modal, which keeps the controls of its last use, sends nulls.
SubjectsFitSelection ==
  book.open /\ ~book.mixed =>
    /\ book.chosen \subseteq {Selected(book)} \cup (IF page = "admin" THEN {} ELSE {None})
    /\ ~book.fetching /\ Selected(book) # None => book.offered \in {None, Selected(book)}
=============================================================================
