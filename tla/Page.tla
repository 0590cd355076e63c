--------------------------------- MODULE Page ---------------------------------
(***************************************************************************)
(* What the page components of the browser application have in common: the *)
(* router shows one of them, it has requests under way whose answers come  *)
(* in any order, a spinner (isLoading), a disabled button (isSubmitting),  *)
(* an error message, and perhaps the dialog of DeleteConfirmationComponent.*)
(* A request is sent at the end of net and its answer taken from anywhere  *)
(* in it; what the page does then is the business of the modules that      *)
(* extend this one.                                                        *)
(***************************************************************************)
EXTENDS Naturals, Sequences, FiniteSets

CONSTANTS
  None,
  MaxPending   \* bound on the requests under way

ASSUME PageAssumption == MaxPending \in Nat \ {0}

VARIABLES
  page,          \* the component the router shows, or None
  net,           \* the requests under way, in the order they were sent
  orphans,       \* how many requests of components that are gone may still navigate
  isLoading, isSubmitting,
  warned,        \* errorMessage is set
  tardy,         \* what is shown came in an answer a later one had overtaken
  dialog         \* flag: the page's show...Dialog; visible: the widget's show

pageVars == <<page, net, orphans, isLoading, isSubmitting, warned, tardy, dialog>>

NoDialog == [flag |-> FALSE, visible |-> FALSE, target |-> None]

\* got is what the server answered, where a module looks at the moment it does;
\* old says that the answer to a later request of the same kind came first.
Request(op, arg) == [op |-> op, arg |-> arg, got |-> None, old |-> FALSE]

Requests(ops, arg) == [k \in DOMAIN ops |-> Request(ops[k], arg)]

Room(n) == Len(net) + orphans + n <= MaxPending

Pending == {net[k].op : k \in DOMAIN net}

Overtaken(r, op) ==
  [op |-> r.op, arg |-> r.arg, got |-> r.got, old |-> r.old \/ r.op = op]

\* The requests under way once the answer to the i-th is taken.
Without(i) ==
  [k \in 1 .. Len(net) - 1 |->
     IF k < i THEN Overtaken(net[k], net[i].op) ELSE net[k + 1]]

PageInit ==
  /\ page = None /\ net = <<>> /\ orphans = 0
  /\ isLoading = FALSE /\ isSubmitting = FALSE /\ warned = FALSE /\ tardy = FALSE
  /\ dialog = NoDialog

\* The component p is created, sends ops and shows its spinner.
Mount(p, loading, sent) ==
  /\ page = None /\ page' = p
  /\ Room(Len(sent))
  /\ net' = sent
  /\ isLoading' = loading
  /\ UNCHANGED <<orphans, isSubmitting, warned, tardy, dialog>>

\* A page without takeUntilDestroyed leaves its requests behind; those matter
\* whose answer navigates.
LeftBehind(op) == Cardinality({k \in DOMAIN net : net[k].op = op})

\* The component is destroyed, its requests aborted or left behind.
Unmount(left) ==
  /\ page' = None /\ net' = <<>> /\ orphans' = left
  /\ isLoading' = FALSE /\ isSubmitting' = FALSE /\ warned' = FALSE /\ tardy' = FALSE
  /\ dialog' = NoDialog

-----------------------------------------------------------------------------
(* DeleteConfirmationComponent and the page around it.  The widget hides   *)
(* itself when it has emitted confirm or cancel; its input is written again *)
(* only when the page's flag takes another value.                          *)

\* confirm... of a page: a second call while the flag is up names another row
\* and shows nothing.
OpenDialog(x) ==
  /\ ~dialog.visible
  /\ dialog' = [flag |-> TRUE, visible |-> ~dialog.flag, target |-> x]

HideDialogAndFlag == dialog' = [flag |-> FALSE, visible |-> FALSE, target |-> dialog.target]

HideDialog == dialog' = [flag |-> dialog.flag, visible |-> FALSE, target |-> dialog.target]

\* The answer to the deletion, and cancel, take the flag down; a deletion that
\* failed leaves the row named.
CloseDialog(x) == dialog' = [flag |-> FALSE, visible |-> FALSE, target |-> x]

\* The dialog names the row whose deletion it confirms, and one deletion is
\* under way at a time, with no dialog beside it: the page's flag, the widget's
\* own and the request agree, and confirm cannot delete a row not named.
OneDeletionAtATime ==
  /\ dialog.visible => dialog.flag /\ dialog.target # None
  /\ \A i, j \in DOMAIN net :
       net[i].op = "delete" /\ net[j].op = "delete" => i = j
  /\ "delete" \in Pending => dialog.flag /\ ~dialog.visible

\* A dialog that was confirmed can be used again.
DialogComesBack == (dialog.flag /\ ~dialog.visible) ~> ~dialog.flag
=============================================================================
