------------------------------- MODULE Catalog -------------------------------
(***************************************************************************)
(* The catalog behind TestManagementService: subjects, test books with     *)
(* their subjects (the table test_book_subjects), and practice tests, each *)
(* of one book and one subject.  A request is a handler of the service;    *)
(* an action is one statement of it on PostgreSQL, with the lookups before *)
(* it that later statements repeat.  Statements are autocommitted but for  *)
(* those of set_subjects, a READ COMMITTED transaction that deletes the    *)
(* subjects of a book and inserts others.  Foreign keys cascade deletions  *)
(* and refuse rows that name what is gone.                                 *)
(*                                                                         *)
(* The other columns of the rows are left out (question counts and answer  *)
(* keys are in TestSolving), so that a request that only writes those is.  *)
(* An identifier stands for a fresh UUID: it is taken again only when no   *)
(* request knows it.  An early return ends a request: Fail.  A definition  *)
(* that Next does not reach is the one after it with a plausible mistake.  *)
(***************************************************************************)
EXTENDS FiniteSets

CONSTANTS
  Subjects, Books, Tests,   \* the rows there can be at once
  Requests,                 \* requests in flight at once (bound)
  None                      \* no such row; a field a request leaves out

ASSUME CatalogAssumption == None \notin Subjects \cup Books \cup Tests

VARIABLES
  subjects,  \* rows of subjects
  books,     \* rows of test_books
  link,      \* [Books -> SUBSET Subjects]: committed rows of test_book_subjects
  test,      \* [Tests -> Rows \cup {None}]: rows of practice_tests
  req        \* the requests in flight and their locals

vars == <<subjects, books, link, test, req>>

\* checked is a history variable: the subject was looked up among the book's, and
\* no set_subjects has taken it from the book since.
Rows == [book : Books, subject : Subjects, checked : BOOLEAN]

\* What the contract keeps of a request that sets the subjects of a book.
Openings == [book : Books, want : SUBSET Subjects, late : SUBSET Subjects]

ASSUME NoneIsNoRow == None \notin Rows \cup Openings

Idle == [at |-> "idle"]

\* A request that has created or updated a book and found the subjects it wants.
ToSet(b, want) == [at |-> "begin", book |-> b, want |-> want]

\* set_subjects: seen are the committed rows its DELETE found, or holds deleted,
\* added those it inserted.
Setting(at, b, want, seen, added) ==
  [at |-> at, book |-> b, want |-> want, seen |-> seen, added |-> added]

\* A request that creates or updates a practice test, and the row it will write.
OnTest(at, p, row) == [at |-> at, test |-> p, row |-> row]

Locals ==
  {Idle}
  \cup [at : {"begin"}, book : Books, want : SUBSET Subjects]
  \cup [at : {"delete", "insert"}, book : Books, want : SUBSET Subjects,
        seen : SUBSET Subjects, added : SUBSET Subjects]
  \cup [at : {"check", "writeTest", "insertTest"}, test : Tests, row : Rows]

SettingStages == {"delete", "insert"}
BookStages == {"begin"} \cup SettingStages
TestStages == {"check", "writeTest", "insertTest"}

\* Every row names rows that exist.
Referenced ==
  /\ \A b \in Books : link[b] \subseteq subjects /\ (b \notin books => link[b] = {})
  /\ \A p \in Tests : test[p] # None => test[p].book \in books /\ test[p].subject \in subjects

TypeOK ==
  /\ subjects \subseteq Subjects /\ books \subseteq Books
  /\ link \in [Books -> SUBSET Subjects]
  /\ test \in [Tests -> Rows \cup {None}]
  /\ req \in [Requests -> Locals]
  /\ Referenced

Init ==
  /\ subjects = {} /\ books = {}
  /\ link = [b \in Books |-> {}]
  /\ test = [p \in Tests |-> None]
  /\ req = [r \in Requests |-> Idle]

Continue(r, local) == req' = [req EXCEPT ![r] = local]

\* The requests that know an identifier.
KnowsBook(q, b) ==
  \/ req[q].at \in BookStages /\ req[q].book = b
  \/ req[q].at \in TestStages /\ req[q].row.book = b
KnowsSubject(q, s) ==
  \/ req[q].at \in BookStages /\ s \in req[q].want
  \/ req[q].at \in TestStages /\ s = req[q].row.subject
KnowsTest(q, p) == req[q].at \in TestStages /\ req[q].test = p

\* A handler returns early, a statement fails or the request is dropped: what was
\* committed stays, a transaction is rolled back.
Fail(r) ==
  /\ req[r] # Idle
  /\ Continue(r, Idle)
  /\ UNCHANGED <<subjects, books, link, test>>

-----------------------------------------------------------------------------
(* Subjects and books *)

\* create_subject; lessons and exam types are there.
CreateSubject(s) ==
  /\ s \notin subjects
  /\ \A q \in Requests : ~KnowsSubject(q, s)
  /\ subjects' = subjects \cup {s}
  /\ UNCHANGED <<books, link, test, req>>

\* create_test_book: lesson, exam type and subjects are found, and the new book is
\* committed without subjects.
CreateBook(r, b, want) ==
  /\ req[r] = Idle
  /\ want # {} /\ want \subseteq subjects
  /\ b \notin books /\ \A q \in Requests : ~KnowsBook(q, b)
  /\ books' = books \cup {b}
  /\ Continue(r, ToSet(b, want))
  /\ UNCHANGED <<subjects, link, test>>

\* update_test_book with subject_ids, which may be empty: the book is found and its
\* row written, and then the subjects are looked up.
UpdateBook(r, b, want) ==
  /\ req[r] = Idle
  /\ b \in books /\ want \subseteq subjects
  /\ Continue(r, ToSet(b, want))
  /\ UNCHANGED <<subjects, books, link, test>>

-----------------------------------------------------------------------------
(* set_subjects.  Rows deleted or inserted by a transaction are locked     *)
(* until it ends; its DELETE looks for rows committed when it began.       *)

IsSetting(q, b) == req[q].at \in SettingStages /\ req[q].book = b
Holds(q, b) == IF req[q].at = "insert" /\ req[q].book = b
               THEN req[q].seen \cup req[q].added ELSE {}

BeginSet(r) ==
  /\ req[r].at = "begin"
  /\ LET b == req[r].book
     IN Continue(r, Setting("delete", b, req[r].want, link[b], {}))
  /\ UNCHANGED <<subjects, books, link, test>>

DeleteNoLinks(r) ==
  /\ req[r].at = "delete"
  /\ Continue(r, Setting("insert", req[r].book, req[r].want, {}, {}))
  /\ UNCHANGED <<subjects, books, link, test>>

\* The DELETE waits for the transactions that hold one of its rows.
DeleteLinks(r) ==
  /\ req[r].at = "delete"
  /\ \A q \in Requests \ {r} : Holds(q, req[r].book) \cap req[r].seen = {}
  /\ Continue(r, Setting("insert", req[r].book, req[r].want, req[r].seen, {}))
  /\ UNCHANGED <<subjects, books, link, test>>

\* An INSERT: the foreign keys find book and subject, no other transaction holds
\* a row of the same two, and none is committed but those deleted here.
InsertLink(r, s) ==
  /\ req[r].at = "insert" /\ s \in req[r].want \ req[r].added
  /\ req[r].book \in books /\ s \in subjects
  /\ \A q \in Requests \ {r} : s \notin Holds(q, req[r].book)
  /\ s \notin link[req[r].book] \ req[r].seen
  /\ Continue(r, Setting("insert", req[r].book, req[r].want, req[r].seen,
                         req[r].added \cup {s}))
  /\ UNCHANGED <<subjects, books, link, test>>

\* The commit takes the subjects in lost from b.
Unfit(row, b, lost) ==
  IF row.book = b /\ row.subject \in lost
  THEN [book |-> b, subject |-> row.subject, checked |-> FALSE] ELSE row

\* What a commit does to another transaction on the same book: its DELETE passes
\* over the rows that have gone and never sees the new ones.
Overtaken(local, b, gone, lost) ==
  IF local.at \in SettingStages /\ local.book = b
  THEN Setting(local.at, b, local.want, local.seen \ gone, local.added)
  ELSE IF local.at \in TestStages
  THEN OnTest(local.at, local.test, Unfit(local.row, b, lost))
  ELSE local

CommitSet(r) ==
  /\ req[r].at = "insert" /\ req[r].added = req[r].want
  /\ LET mine == req[r]
         b == mine.book
         lost == mine.seen \ mine.added
     IN /\ link' = [link EXCEPT ![b] = (@ \ mine.seen) \cup mine.added]
        /\ req' = [q \in Requests |-> IF q = r THEN Idle
                                        ELSE Overtaken(req[q], b, mine.seen, lost)]
        /\ test' = [p \in Tests |-> IF test[p] = None THEN None ELSE Unfit(test[p], b, lost)]
  /\ UNCHANGED <<subjects, books>>

-----------------------------------------------------------------------------
(* Practice tests *)

\* create_practice_test: book and subject exist, and the subject is the book's.
CreateTest(r, p, b, s) ==
  /\ req[r] = Idle
  /\ test[p] = None /\ \A q \in Requests : ~KnowsTest(q, p)
  /\ b \in books /\ s \in subjects
  /\ s \in link[b]
  /\ Continue(r, OnTest("insertTest", p, [book |-> b, subject |-> s, checked |-> TRUE]))
  /\ UNCHANGED <<subjects, books, link, test>>

StoreTest(r) ==
  /\ req[r].row.book \in books /\ req[r].row.subject \in subjects
  /\ test' = [test EXCEPT ![req[r].test] = req[r].row]
  /\ Continue(r, Idle)
  /\ UNCHANGED <<subjects, books, link>>

InsertTest(r) == req[r].at = "insertTest" /\ StoreTest(r)

Named(x, old) == IF x = None THEN old ELSE x

\* update_practice_test, which may name a book, a subject, both or neither; a
\* subject it names is to be checked, that of a test that only moves is not.
UpdateTest(r, p, b, s) ==
  /\ req[r] = Idle
  /\ test[p] # None
  /\ LET row == [book |-> Named(b, test[p].book), subject |-> Named(s, test[p].subject),
                 checked |-> test[p].checked /\ s = None /\ b \in {None, test[p].book}]
     IN Continue(r, OnTest(IF s = None THEN "writeTest" ELSE "check", p, row))
  /\ UNCHANGED <<subjects, books, link, test>>

Checked(row) == [book |-> row.book, subject |-> row.subject, checked |-> TRUE]

CheckSubjectExists(r) ==
  /\ req[r].at = "check"
  /\ req[r].row.subject \in subjects
  /\ Continue(r, OnTest("writeTest", req[r].test, Checked(req[r].row)))
  /\ UNCHANGED <<subjects, books, link, test>>

\* The subject must be one of the book's: of the new book, if the test moves.
CheckTest(r) ==
  /\ req[r].at = "check"
  /\ req[r].row.subject \in link[req[r].row.book]
  /\ Continue(r, OnTest("writeTest", req[r].test, Checked(req[r].row)))
  /\ UNCHANGED <<subjects, books, link, test>>

\* The whole row is written back, over whatever happened to it since it was read.
WriteTest(r) == req[r].at = "writeTest" /\ test[req[r].test] # None /\ StoreTest(r)

-----------------------------------------------------------------------------
(* Deletions *)

\* A DELETE that still waits finds fewer rows.
Cascaded(local, S, B) ==
  IF local.at = "delete"
  THEN Setting("delete", local.book, local.want,
               IF local.book \in B THEN {} ELSE local.seen \ S, local.added)
  ELSE local

RemoveKeepingTests(S, B) ==
  /\ \A q \in Requests, b \in Books :
       /\ Holds(q, b) \cap S = {}
       /\ b \in B => Holds(q, b) = {}
  /\ subjects' = subjects \ S /\ books' = books \ B
  /\ link' = [b \in Books |-> IF b \in B THEN {} ELSE link[b] \ S]
  /\ req' = [q \in Requests |-> Cascaded(req[q], S, B)]
  /\ UNCHANGED test

\* ON DELETE CASCADE, once no transaction holds a row that would go.
Remove(S, B) ==
  /\ \A q \in Requests, b \in Books :
       /\ Holds(q, b) \cap S = {}
       /\ b \in B => Holds(q, b) = {}
  /\ subjects' = subjects \ S /\ books' = books \ B
  /\ link' = [b \in Books |-> IF b \in B THEN {} ELSE link[b] \ S]
  /\ req' = [q \in Requests |-> Cascaded(req[q], S, B)]
  /\ test' = [p \in Tests |->
       IF test[p] # None /\ (test[p].book \in B \/ test[p].subject \in S) THEN None ELSE test[p]]

\* delete_subject and delete_test_book, one row each; delete_lesson and
\* delete_exam_type, which take their subjects and their books along.
Delete(S, B) == S \subseteq subjects /\ B \subseteq books /\ Remove(S, B)

DeleteTest(p) ==
  /\ test[p] # None
  /\ test' = [test EXCEPT ![p] = None]
  /\ UNCHANGED <<subjects, books, link, req>>

-----------------------------------------------------------------------------

Next ==
  \/ \E s \in Subjects : CreateSubject(s)
  \/ \E S \in SUBSET Subjects, B \in SUBSET Books : Delete(S, B)
  \/ \E p \in Tests : DeleteTest(p)
  \/ \E r \in Requests :
       \/ \E b \in Books, want \in SUBSET Subjects : CreateBook(r, b, want) \/ UpdateBook(r, b, want)
       \/ \E p \in Tests, b \in Books, s \in Subjects : CreateTest(r, p, b, s)
       \/ \E p \in Tests, b \in Books \cup {None}, s \in Subjects \cup {None} :
            UpdateTest(r, p, b, s)
       \/ BeginSet(r) \/ DeleteLinks(r) \/ CommitSet(r)
       \/ \E s \in Subjects : InsertLink(r, s)
       \/ InsertTest(r) \/ CheckTest(r) \/ WriteTest(r)
       \/ Fail(r)

Spec == Init /\ [][Next]_vars

-----------------------------------------------------------------------------
(* Properties *)

\* A practice test has a subject of its book, unless a set_subjects has taken that
\* subject from the book or the test moved without naming a subject: neither a
\* check made statements before the write, nor a row written back over a
\* concurrent move, nor a cascade pairs a test with a subject its book never had.
TestsFitTheirBook ==
  \A p \in Tests :
    test[p] # None /\ test[p].checked => test[p].subject \in link[test[p].book]

\* The promise to administrators, as a state machine of its own: late are the
\* subjects that others have given the book since the DELETE began.
Opening(local) ==
  IF local.at \in SettingStages
  THEN [book |-> local.book, want |-> local.want, late |-> link[local.book] \ local.seen]
  ELSE None

Open == [r \in Requests |-> Opening(req[r])]

Ends(row) == IF row = None THEN None ELSE [book |-> row.book, subject |-> row.subject]

Assigned == [p \in Tests |-> Ends(test[p])]

Contract == INSTANCE CatalogContract WITH assigned <- Assigned, open <- Open

\* Refinement: however statements, locks, failures and cascades interleave,
\* set_subjects replaces in one step the subjects the book had when it began,
\* keeps those that others committed meanwhile, and shows nothing before.
ImplementsContract == Contract!Spec
=============================================================================
