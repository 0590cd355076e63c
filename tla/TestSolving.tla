----------------------------- MODULE TestSolving -----------------------------
(***************************************************************************)
(* Solving practice tests: the solve request of TestSolvingService, the    *)
(* administrators' edits and deletions of practice tests it races with,    *)
(* and the rule that a user may take a test again only a day later.        *)
(*                                                                         *)
(* solve_test reads the test, reads the user's latest result, and then     *)
(* inserts the new result: three autocommitted statements, with the        *)
(* answers graded between the last two.  update_practice_test reads the    *)
(* row and writes all of it back.  Each action is one statement and the    *)
(* pure code up to the next one.                                           *)
(***************************************************************************)
EXTENDS Naturals, Sequences, FiniteSets

CONSTANTS
  Users,     \* users who solve tests
  Tests,     \* rows of practice_tests
  Results,   \* the results that can ever be stored (bound)
  Requests,  \* requests that can be in flight at once (bound)
  None,      \* no such row; a field that a PUT request leaves out
  Keys,      \* the answer keys administrators enter
  Counts,    \* the question counts administrators enter
  Answers,   \* the answer strings users submit
  Letters,   \* the characters of keys and answers
  Upper,     \* [Letters -> Letters]: the first of a letter's upper-case letters
  Bytes,     \* [Letters -> 1 .. 4]: the bytes of a letter in UTF-8
  Day,       \* 24 hours, in clock ticks
  MaxTime    \* bound of the clock

ASSUME DataAssumption ==
  /\ IsFiniteSet(Requests)
  /\ Upper \in [Letters -> Letters] /\ Bytes \in [Letters -> 1 .. 4]
  /\ Keys \cup Answers \subseteq Seq(Letters) \ {<<>>}
  /\ Counts \subseteq Nat \ {0}
  /\ Day \in Nat /\ MaxTime \in Nat

TestRows == [count : Counts, key : Keys]

\* by and key are history variables: the request that stored the result and
\* the key that graded it.
ResultRows == [user : Users, test : Tests, answers : Answers, solvedAt : Nat,
               correct : Nat, wrong : Nat, empty : Nat, by : Requests, key : Keys]

ASSUME NoneAssumption == None \notin TestRows \cup ResultRows \cup Counts \cup Keys

VARIABLES
  now,      \* the clock
  tests,    \* [Tests -> TestRows \cup {None}]: practice_tests
  results,  \* [Results -> ResultRows \cup {None}]: test_results
  req       \* the requests in flight and their locals

vars == <<now, tests, results, req>>

Idle == [at |-> "idle"]
Checking(u, p, a, k) ==
  [at |-> "check", user |-> u, test |-> p, answers |-> a, key |-> k]
Inserting(row) == [at |-> "insert", row |-> row]
Writing(p, row) == [at |-> "write", test |-> p, row |-> row]

Locals ==
  {Idle}
  \cup [at : {"check"}, user : Users, test : Tests, answers : Answers, key : Keys]
  \cup [at : {"insert"}, row : ResultRows]
  \cup [at : {"write"}, test : Tests, row : TestRows]

TypeOK ==
  /\ now \in 0 .. MaxTime
  /\ tests \in [Tests -> TestRows \cup {None}]
  /\ results \in [Results -> ResultRows \cup {None}]
  /\ req \in [Requests -> Locals]

\* The tests are there, entered the way the form asks: a letter per question.
\* Nothing enforces that, and an edit may end it.
Init ==
  /\ now = 0
  /\ tests \in [Tests -> {row \in TestRows : row.count = Len(row.key)}]
  /\ results = [x \in Results |-> None]
  /\ req = [r \in Requests |-> Idle]

-----------------------------------------------------------------------------
(***************************************************************************)
(* Grading.  Letters are compared in upper case, "_" and " " are questions *)
(* left empty, and the pairs of letters end with the shorter string.  The  *)
(* length that is checked before is that of the strings in bytes.          *)
(***************************************************************************)
Blank == {"_", " "}

\* The bytes of a string: byte b[2] of its letter b[1].
BytesOf(s) == {b \in (1 .. Len(s)) \X (1 .. 4) : b[2] <= Bytes[s[b[1]]]}

ByteLen(s) == Cardinality(BytesOf(s))

\* The bytes that a string has beyond one for each letter.
Extra(s) == Cardinality({b \in BytesOf(s) : b[2] > 1})

Pairs(k, a) == {i \in 1 .. Len(a) : i <= Len(k)}

EmptyOnes(k, a) == {i \in Pairs(k, a) : a[i] \in Blank}
RightOnes(k, a) ==
  {i \in Pairs(k, a) : a[i] \notin Blank /\ Upper[k[i]] = Upper[a[i]]}
WrongOnes(k, a) ==
  {i \in Pairs(k, a) : a[i] \notin Blank /\ Upper[k[i]] # Upper[a[i]]}

\* TestResult::new, stamped with the time before the insert is sent.
Result(u, p, a, k, r) ==
  [user |-> u, test |-> p, answers |-> a, solvedAt |-> now, by |-> r, key |-> k,
   correct |-> Cardinality(RightOnes(k, a)),
   wrong |-> Cardinality(WrongOnes(k, a)),
   empty |-> Cardinality(EmptyOnes(k, a))]

\* row holds what key k says of its answers.
Graded(row, k) ==
  /\ row.correct = Cardinality(RightOnes(k, row.answers))
  /\ row.wrong = Cardinality(WrongOnes(k, row.answers))
  /\ row.empty = Cardinality(EmptyOnes(k, row.answers))

\* A definition whose name extends that of the one after it is the same code
\* with a plausible mistake; Next uses none of them.
SubmittableUnlessShort(k, a) == ByteLen(a) >= ByteLen(k)
Submittable(k, a) == ByteLen(a) = ByteLen(k)

ResultsOf(u, p) ==
  {x \in Results : results[x] # None /\ results[x].user = u /\ results[x].test = p}

\* can_retake_test: the latest result is at least a day old, i.e. all are.
MayRetakeAnHourEarly(u, p) ==
  \A x \in ResultsOf(u, p) : now + 1 >= results[x].solvedAt + Day
MayRetake(u, p) ==
  \A x \in ResultsOf(u, p) : now >= results[x].solvedAt + Day

Continue(r, local) == req' = [req EXCEPT ![r] = local]

Finish(r) == Continue(r, Idle)

-----------------------------------------------------------------------------
(***************************************************************************)
(* solve_test.                                                             *)
(***************************************************************************)
SolveFindCached(r, u, p, a) ==
  /\ req[r] = Idle
  /\ tests[p] # None
  /\ \E k \in Keys : Continue(r, Checking(u, p, a, k))
  /\ UNCHANGED <<now, tests, results>>

SolveFind(r, u, p, a) ==
  /\ req[r] = Idle
  /\ tests[p] # None
  /\ Continue(r, Checking(u, p, a, tests[p].key))
  /\ UNCHANGED <<now, tests, results>>

SolveCheck(r) ==
  LET q == req[r]
      accepted == MayRetake(q.user, q.test) /\ Submittable(q.key, q.answers)
  IN
  /\ q.at = "check"
  /\ \/ /\ accepted
        /\ Continue(r, Inserting(Result(q.user, q.test, q.answers, q.key, r)))
     \/ /\ ~accepted
        /\ Finish(r)
  /\ UNCHANGED <<now, tests, results>>

\* The foreign key refuses a result of a test that is gone.
SolveInsert(r, x) ==
  /\ req[r].at = "insert"
  /\ results[x] = None
  /\ results' = [results EXCEPT ![x] =
                   IF tests[req[r].row.test] # None THEN req[r].row ELSE None]
  /\ Finish(r)
  /\ UNCHANGED <<now, tests>>

-----------------------------------------------------------------------------
(***************************************************************************)
(* update_practice_test and delete_practice_test.                          *)
(***************************************************************************)
UpdateReadOverwriting(r, p, c, k) ==
  /\ req[r] = Idle
  /\ tests[p] # None
  /\ Continue(r, Writing(p, [count |-> c, key |-> k]))
  /\ UNCHANGED <<now, tests, results>>

UpdateRead(r, p, c, k) ==
  /\ req[r] = Idle
  /\ tests[p] # None
  /\ Continue(r, Writing(p, [count |-> IF c = None THEN tests[p].count ELSE c,
                             key |-> IF k = None THEN tests[p].key ELSE k]))
  /\ UNCHANGED <<now, tests, results>>

UpdateWrite(r) ==
  /\ req[r].at = "write"
  /\ tests' = [tests EXCEPT ![req[r].test] = IF @ = None THEN None ELSE req[r].row]
  /\ Finish(r)
  /\ UNCHANGED <<now, results>>

\* DELETE FROM practice_tests; the results of the test go with it.
DeleteTestOnly(p) ==
  /\ tests[p] # None
  /\ tests' = [tests EXCEPT ![p] = None]
  /\ UNCHANGED <<now, results, req>>

DeleteTest(p) ==
  /\ tests[p] # None
  /\ tests' = [tests EXCEPT ![p] = None]
  /\ results' = [x \in Results |->
                   IF results[x] # None /\ results[x].test = p THEN None ELSE results[x]]
  /\ UNCHANGED <<now, req>>

\* The future of request r is dropped, or its next statement fails.
Drop(r) ==
  /\ req[r] # Idle
  /\ Finish(r)
  /\ UNCHANGED <<now, tests, results>>

Tick ==
  /\ now < MaxTime
  /\ now' = now + 1
  /\ UNCHANGED <<tests, results, req>>

Next ==
  \/ \E r \in Requests, u \in Users, p \in Tests, a \in Answers : SolveFind(r, u, p, a)
  \/ \E r \in Requests : SolveCheck(r)
  \/ \E r \in Requests, x \in Results : SolveInsert(r, x)
  \/ \E r \in Requests, p \in Tests, c \in Counts \cup {None}, k \in Keys \cup {None} :
       UpdateRead(r, p, c, k)
  \/ \E r \in Requests : UpdateWrite(r)
  \/ \E p \in Tests : DeleteTest(p)
  \/ \E r \in Requests : Drop(r)
  \/ Tick

Spec == Init /\ [][Next]_vars

-----------------------------------------------------------------------------
Stored == {x \in Results : results[x] # None}

\* What the check of the lengths is worth.  Each count of a result stands for a
\* letter of the answers and one of the key, and a letter of either that is in
\* no count is made up for by a byte that the other has beyond one per letter:
\* where letters are single bytes, every answer and every question is counted.
\* The key is the one the answers were checked against, whatever
\* administrators do to the test meanwhile.
Counted(row) == row.correct + row.wrong + row.empty

EveryAnswerCounted ==
  \A x \in Stored :
    LET row == results[x] IN
    /\ Counted(row) <= Len(row.answers) /\ Counted(row) <= Len(row.key)
    /\ Len(row.answers) <= Counted(row) + Extra(row.key)
    /\ Len(row.key) <= Counted(row) + Extra(row.answers)

\* No result outlives its test, not even one graded before the deletion and
\* inserted after it.
NoResultOfDeletedTest == \A x \in Stored : tests[results[x].test] # None

\* What the check of can_retake_test does guarantee under concurrency: within
\* any 24 hours a user gets no more results for a test than there were
\* requests in flight at once.
Within24Hours(x) ==
  {y \in Stored : /\ results[y].user = results[x].user
                  /\ results[y].test = results[x].test
                  /\ results[y].solvedAt >= results[x].solvedAt
                  /\ results[y].solvedAt < results[x].solvedAt + Day}

BurstIsBounded ==
  \A x \in Stored : Cardinality(Within24Hours(x)) <= Cardinality(Requests)

\* After an answer key is replaced, results are graded by the new key as soon
\* as the requests that had read the old one are done.
Settled(p) ==
  \A r \in Requests :
    /\ req[r].at = "check" /\ req[r].test = p => req[r].key = tests[p].key
    /\ req[r].at = "insert" /\ req[r].row.test = p =>
         Graded(req[r].row, tests[p].key)

GradedByCurrentKey ==
  [][\A p \in Tests :
       tests[p] # None /\ Settled(p) /\ tests'[p] = tests[p] =>
         /\ Settled(p)'
         /\ \A x \in Results :
              results[x] = None /\ results'[x] # None /\ results'[x].test = p =>
                Graded(results'[x], tests[p].key)]_vars

\* "Must wait 24 hours since last attempt" (test_solving_service.rs:18): two
\* results of a user for one test are a day apart.
RetakesAreADayApart ==
  \A x, y \in Stored :
    /\ x # y
    /\ results[x].user = results[y].user
    /\ results[x].test = results[y].test
    => \/ results[x].solvedAt >= results[y].solvedAt + Day
       \/ results[y].solvedAt >= results[x].solvedAt + Day

\* "As many answers as there are questions" (practice-test-form.component.ts:122).
KeyAnswersEveryQuestion ==
  \A p \in Tests : tests[p] # None => Len(tests[p].key) = tests[p].count
=============================================================================
