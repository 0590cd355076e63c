------------------------------ MODULE AdminForms ------------------------------
(***************************************************************************)
(* The routed forms of the administration: exam type, lesson, subject and  *)
(* user.  A form is opened to create or to edit; editing starts with a     *)
(* load; a save that succeeds navigates to the list, and isSubmitting is   *)
(* never taken back then.  A field is blank, loaded or typed.              *)
(***************************************************************************)
EXTENDS Page

VARIABLES
  editing,   \* isEditMode
  options,   \* the choices of the dropdowns have arrived
  form       \* where the value of each field comes from

formVars == <<editing, options, form>>

\* What each component does, as data:
\*   creates   it has a route without an id
\*   choice    it has dropdowns, required, filled by requests of their own
\*   extra     a field nobody has to fill: absent, or sent as undefined when it
\*             is empty, or starting with a default that is sent as it is
\*   aborts    takeUntilDestroyed on its requests
ExamTypeForm ==
  [creates |-> TRUE, choice |-> FALSE, extra |-> "optional", aborts |-> TRUE]

LessonForm ==
  [creates |-> TRUE, choice |-> FALSE, extra |-> "absent", aborts |-> TRUE]

SubjectForm ==
  [creates |-> TRUE, choice |-> TRUE, extra |-> "absent", aborts |-> TRUE]

UserForm ==
  [creates |-> FALSE, choice |-> FALSE, extra |-> "default", aborts |-> FALSE]

FormPages == {"exam-type-form", "lesson-form", "subject-form", "user-form"}

FormOf ==
  [p \in FormPages |->
     CASE p = "exam-type-form" -> ExamTypeForm
       [] p = "lesson-form" -> LessonForm
       [] p = "subject-form" -> SubjectForm
       [] p = "user-form" -> UserForm]

Origins == {"blank", "loaded", "typed"}
Fields == {"name", "choice", "extra"}
Blank == [f \in Fields |-> "blank"]

FormsInit == editing = FALSE /\ options = FALSE /\ form = Blank

FormsTypeOK ==
  /\ editing \in BOOLEAN /\ options \in BOOLEAN
  /\ form \in [Fields -> Origins]

\* ngOnInit: the dropdowns' lists (two requests, one here), then the object.
OpenForm(p, edit) ==
  /\ edit \/ FormOf[p].creates
  /\ Mount(p, edit, (IF FormOf[p].choice THEN <<Request("options", None)>> ELSE <<>>)
                      \o (IF edit THEN <<Request("load", None)>> ELSE <<>>))
  /\ editing' = edit
  /\ UNCHANGED <<options, form>>

CloseForm == editing' = FALSE /\ options' = FALSE /\ form' = Blank

LeaveForm ==
  /\ page \in FormPages
  /\ Unmount(orphans + IF FormOf[page].aborts THEN 0 ELSE LeftBehind("save"))
  /\ CloseForm

Writable(f) ==
  \/ f = "name"
  \/ f = "choice" /\ FormOf[page].choice /\ options /\ ~editing
  \/ f = "extra" /\ FormOf[page].extra # "absent"

\* The form is there when the spinner is not; the dropdowns are disabled in
\* edit mode.
Type(f) ==
  /\ page \in FormPages /\ ~isLoading /\ Writable(f)
  /\ form' = [form EXCEPT ![f] = "typed"]
  /\ UNCHANGED <<pageVars, editing, options>>

Valid ==
  /\ form["name"] # "blank"
  /\ FormOf[page].choice => form["choice"] # "blank"

\* The request body.
Unsent(kind) == kind = "absent" \/ (kind = "optional" /\ form["extra"] = "blank")

BodyVerbatim == form

Body ==
  IF Unsent(FormOf[page].extra) THEN [form EXCEPT !["extra"] = "undefined"] ELSE form

SubmitAgain ==
  /\ page \in FormPages /\ ~isLoading /\ Valid
  /\ Room(1)
  /\ net' = Append(net, Request("save", Body))
  /\ isSubmitting' = TRUE /\ warned' = FALSE
  /\ UNCHANGED <<formVars, page, orphans, isLoading, tardy, dialog>>

Submit ==
  /\ page \in FormPages /\ ~isLoading /\ ~isSubmitting /\ Valid
  /\ Room(1)
  /\ net' = Append(net, Request("save", Body))
  /\ isSubmitting' = TRUE /\ warned' = FALSE
  /\ UNCHANGED <<formVars, page, orphans, isLoading, tardy, dialog>>

-----------------------------------------------------------------------------
(* Answers; nothing here depends on the moment the server serves a request. *)

FormCame(i, op) == page \in FormPages /\ i \in DOMAIN net /\ net[i].op = op

OptionsCame(i) ==
  /\ FormCame(i, "options")
  /\ net' = Without(i)
  /\ \/ options' = TRUE /\ UNCHANGED warned
     \/ warned' = TRUE /\ UNCHANGED options
  /\ UNCHANGED <<page, orphans, isLoading, isSubmitting, tardy, dialog, editing, form>>

\* patchValue, or the message; the form is shown either way.
LoadCame(i) ==
  /\ FormCame(i, "load")
  /\ net' = Without(i)
  /\ isLoading' = FALSE
  /\ \/ form' = [f \in Fields |-> "loaded"] /\ UNCHANGED warned
     \/ warned' = TRUE /\ UNCHANGED form
  /\ UNCHANGED <<page, orphans, isSubmitting, tardy, dialog, editing, options>>

\* router.navigate to the list.
Saved(i) ==
  /\ FormCame(i, "save")
  /\ Unmount(orphans)
  /\ CloseForm

SaveFailed(i) ==
  /\ FormCame(i, "save")
  /\ net' = Without(i)
  /\ isSubmitting' = FALSE /\ warned' = TRUE
  /\ UNCHANGED <<formVars, page, orphans, isLoading, tardy, dialog>>

FormAnswer(i) == OptionsCame(i) \/ LoadCame(i) \/ Saved(i) \/ SaveFailed(i)

FormsNext ==
  \/ \E p \in FormPages, edit \in BOOLEAN : OpenForm(p, edit)
  \/ LeaveForm
  \/ \E f \in Fields : Type(f)
  \/ Submit
  \/ \E i \in DOMAIN net : FormAnswer(i)

FormsProgress == page \in FormPages /\ net # <<>> /\ FormAnswer(1)

-----------------------------------------------------------------------------
(* Properties *)

\* An update never carries a value that was neither loaded nor typed: saving
\* after a failed load does not erase what the form could not show.  (The
\* active box of the user form starts checked and is sent as it stands.)
NoUpdateErases ==
  \A i \in DOMAIN net :
    net[i].op = "save" /\ page \in FormPages /\ editing =>
      /\ net[i].arg["name"] # "blank"
      /\ FormOf[page].choice => net[i].arg["choice"] # "blank"
      /\ FormOf[page].extra = "optional" => net[i].arg["extra"] # "blank"
=============================================================================
