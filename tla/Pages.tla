--------------------------------- MODULE Pages ---------------------------------
(***************************************************************************)
(* The browser application: the router shows the page of one module at a   *)
(* time, and the requests a page without takeUntilDestroyed leaves behind  *)
(* are answered while another page is shown.                               *)
(***************************************************************************)
EXTENDS AdminLists, AdminForms, BookAdmin, StudentPages

ASSUME PagesAssumption ==
  None \notin ListPages \cup FormPages \cup BookPages \cup StudentPageNames

vars == <<pageVars, listVars, formVars, bookVars, studentVars>>

Init == PageInit /\ ListsInit /\ FormsInit /\ BooksInit /\ StudentInit

TypeOK ==
  /\ page \in {None} \cup ListPages \cup FormPages \cup BookPages \cup StudentPageNames
  /\ Len(net) + orphans <= MaxPending + 1
  /\ isLoading \in BOOLEAN /\ isSubmitting \in BOOLEAN /\ warned \in BOOLEAN /\ tardy \in BOOLEAN
  /\ dialog \in [flag : BOOLEAN, visible : BOOLEAN, target : Items \cup Tests \cup {None}]
  /\ ListsTypeOK /\ FormsTypeOK /\ BooksTypeOK /\ StudentTypeOK

\* What the page shown leaves behind when it is left.
Abandoned ==
  IF page = "test-book" THEN LeftBehind("deleteBook")
  ELSE IF page \in FormPages /\ ~FormOf[page].aborts THEN LeftBehind("save")
  ELSE 0

\* The answer to a request of a page left: its error is shown nowhere, its
\* success navigates away from whatever page is shown by now.
OrphanCame ==
  /\ orphans > 0
  /\ \/ /\ orphans' = orphans - 1
        /\ UNCHANGED <<page, net, isLoading, isSubmitting, warned, tardy, dialog,
                       listVars, formVars, bookVars, studentVars>>
     \/ /\ Unmount(orphans - 1 + Abandoned)
        /\ ForgetLists /\ CloseForm /\ ForgetBooks /\ ResetStudent

Next ==
  \/ ListsNext /\ UNCHANGED <<formVars, bookVars, studentVars>>
  \/ FormsNext /\ UNCHANGED <<listVars, bookVars, studentVars>>
  \/ BooksNext /\ UNCHANGED <<listVars, formVars, studentVars>>
  \/ StudentNext /\ UNCHANGED <<listVars, formVars, bookVars>>
  \/ OrphanCame

\* The oldest request under way is answered, and a redirection under way ends;
\* nobody has to click.
Progress ==
  \/ ListsProgress /\ UNCHANGED <<formVars, bookVars, studentVars>>
  \/ FormsProgress /\ UNCHANGED <<listVars, bookVars, studentVars>>
  \/ BooksProgress /\ UNCHANGED <<listVars, formVars, studentVars>>
  \/ StudentProgress /\ UNCHANGED <<listVars, formVars, bookVars>>
  \/ OrphanCame

Spec == Init /\ [][Next]_vars /\ WF_vars(Progress)

-----------------------------------------------------------------------------
(* Properties *)

UnderWay(ops) == Cardinality({i \in DOMAIN net : net[i].op \in ops})

\* A button that saves is disabled exactly while its request is under way, on
\* every page and in every modal, whichever of them is closed, opened again or
\* fails meanwhile: nothing is saved twice, and no button stays disabled.
SavesAreGuarded ==
  LET Guarded(flag, ops) == UnderWay(ops) = IF flag THEN 1 ELSE 0
  IN /\ Guarded(isSubmitting, {"save", "assign", "solve"})
     /\ Guarded(edit.saving, {"testSave"})
     /\ Guarded(fresh.saving, {"freshSave"})
     /\ Guarded(book.saving, {"bookSave"})
     /\ Guarded(bookDialog = "confirmed", {"deleteBook"})

\* The requests whose answers end isLoading, or send the next that does.
PageLoads ==
  IF page \in ListPages THEN {"rows"} \cup (IF page = "subjects" THEN {"lessons"} ELSE {})
  ELSE IF page \in FormPages THEN {"load"}
  ELSE IF page \in BookPages THEN {"data", "counts", "book", "tests"}
  ELSE IF page \in Readers THEN {Reader[page].loads[k] : k \in DOMAIN Reader[page].loads}
  ELSE {"shown"}

Awaits(ops) == Pending \cap ops # {}

\* No spinner turns with nothing to wait for: while one is shown, on a page or in a
\* modal, a request is under way whose answer takes it back or sends another such
\* request, whichever of them failed, overtook each other or found the modal closed.
SpinnersAreBacked ==
  /\ isLoading /\ ~redirected => Awaits(PageLoads)
  /\ fetchingTests => Awaits({"tests"})
  /\ edit.open /\ edit.loading => Awaits({"testLoad"})
  /\ fresh.open /\ fresh.loading => Awaits({"freshBook"})
  /\ book.open /\ book.loading => Awaits({"bookLoad"})
  /\ book.fetching => Awaits({"subjects"})
  /\ modal.loading => Awaits({"modalResult", "modalKey"})

\* So every spinner is taken back once its answers come: those of the pages, and
\* those of the modals, although closing a modal forgets the request it waits for
\* and opening it sends another.
SpinnersEnd ==
  /\ isLoading ~> ~isLoading
  /\ LET Turning == modal.loading \/ (edit.open /\ edit.loading) \/ book.fetching
     IN Turning ~> ~Turning
=============================================================================
