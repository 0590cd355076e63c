--------------------------- MODULE CatalogContract ---------------------------
(***************************************************************************)
(* What the catalog promises, with no statements, locks or failures: each  *)
(* creation, edit and deletion happens in one step, and what names a row   *)
(* goes with the row.  Setting the subjects of a book takes time, and      *)
(* others may set them meanwhile; then late are the subjects they gave the *)
(* book since.  When it takes effect it replaces all the subjects but the  *)
(* late ones, so that undisturbed it leaves the book what was asked for,   *)
(* and nothing of it is seen before that.                                  *)
(***************************************************************************)
CONSTANTS Subjects, Books, Tests, Requests, None

VARIABLES
  subjects, books,  \* what there is
  link,             \* the subjects of each book
  assigned,         \* the book and the subject of each practice test, or None
  open              \* the requests that are setting the subjects of a book

vars == <<subjects, books, link, assigned, open>>

Init ==
  /\ subjects = {} /\ books = {}
  /\ link = [b \in Books |-> {}]
  /\ assigned = [p \in Tests |-> None]
  /\ open = [r \in Requests |-> None]

CreateSubject(s) ==
  /\ s \notin subjects
  /\ subjects' = subjects \cup {s}
  /\ UNCHANGED <<books, link, assigned, open>>

CreateBook(b) ==
  /\ b \notin books
  /\ books' = books \cup {b}
  /\ UNCHANGED <<subjects, link, assigned, open>>

BeginSet(r, b, want) ==
  /\ open[r] = None
  /\ open' = [open EXCEPT ![r] = [book |-> b, want |-> want, late |-> {}]]
  /\ UNCHANGED <<subjects, books, link, assigned>>

\* What one request sets is late for the others, and what it replaces is gone.
Overtaken(q, b, kept, want) ==
  IF open[q] # None /\ open[q].book = b
  THEN [book |-> b, want |-> open[q].want, late |-> (open[q].late \cap kept) \cup want]
  ELSE open[q]

CommitSet(r) ==
  /\ open[r] # None
  /\ LET b == open[r].book
         kept == open[r].late
         want == open[r].want
     IN /\ want \subseteq subjects /\ (want # {} => b \in books)
        /\ link' = [link EXCEPT ![b] = kept \cup want]
        /\ open' = [q \in Requests |->
                      IF q = r THEN None ELSE Overtaken(q, b, kept, want)]
  /\ UNCHANGED <<subjects, books, assigned>>

GiveUp(r) ==
  /\ open[r] # None
  /\ open' = [open EXCEPT ![r] = None]
  /\ UNCHANGED <<subjects, books, link, assigned>>

StoreTest(p, b, s) ==
  /\ b \in books /\ s \in subjects
  /\ assigned' = [assigned EXCEPT ![p] = [book |-> b, subject |-> s]]
  /\ UNCHANGED <<subjects, books, link, open>>

DeleteTest(p) ==
  /\ assigned' = [assigned EXCEPT ![p] = None]
  /\ UNCHANGED <<subjects, books, link, open>>

Delete(S, B) ==
  /\ subjects' = subjects \ S /\ books' = books \ B
  /\ link' = [b \in Books |-> IF b \in B THEN {} ELSE link[b] \ S]
  /\ assigned' = [p \in Tests |->
       IF assigned[p] # None /\ (assigned[p].book \in B \/ assigned[p].subject \in S)
       THEN None ELSE assigned[p]]
  /\ open' = [r \in Requests |->
       IF open[r] = None THEN None
       ELSE [book |-> open[r].book, want |-> open[r].want,
             late |-> IF open[r].book \in B THEN {} ELSE open[r].late \ S]]

Next ==
  \/ \E s \in Subjects : CreateSubject(s)
  \/ \E b \in Books : CreateBook(b)
  \/ \E S \in SUBSET Subjects, B \in SUBSET Books : Delete(S, B)
  \/ \E p \in Tests : DeleteTest(p)
  \/ \E p \in Tests, b \in Books, s \in Subjects : StoreTest(p, b, s)
  \/ \E r \in Requests :
       \/ \E b \in Books, want \in SUBSET Subjects : BeginSet(r, b, want)
       \/ CommitSet(r) \/ GiveUp(r)

Spec == Init /\ [][Next]_vars
=============================================================================
