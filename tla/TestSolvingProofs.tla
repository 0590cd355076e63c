-------------------------- MODULE TestSolvingProofs --------------------------
(***************************************************************************)
(* Theorems about TestSolving, for any users, tests, results, keys and     *)
(* answers, letters of any width, any clock, and any finite number of      *)
(* requests in flight.                                                     *)
(***************************************************************************)
EXTENDS TestSolving, FiniteSetTheorems, TLAPS

SameAttempt(row, q) == row.user = q.user /\ row.test = q.test

\* The counts of a row leave out no more letters of the answers, or of the
\* key, than the other string has extra bytes.
AddsUp(row) ==
  /\ Counted(row) <= Len(row.answers) /\ Counted(row) <= Len(row.key)
  /\ Len(row.answers) <= Counted(row) + Extra(row.key)
  /\ Len(row.key) <= Counted(row) + Extra(row.answers)

\* A result waiting to be inserted is stamped no later than now, by the
\* request that carries it, and a day after all that request has stored for
\* the same user and test.
PendingOK(r) ==
  LET row == req[r].row IN
  req[r].at = "insert" =>
    /\ row.by = r
    /\ row.solvedAt <= now
    /\ AddsUp(row)
    /\ \A x \in Stored :
         results[x].by = r /\ SameAttempt(results[x], row) =>
           row.solvedAt >= results[x].solvedAt + Day

\* One request stores results for a user and a test a day apart.
SpacedPerRequest ==
  \A x, y \in Stored :
    x # y /\ results[x].by = results[y].by /\ SameAttempt(results[x], results[y]) =>
      \/ results[x].solvedAt >= results[y].solvedAt + Day
      \/ results[y].solvedAt >= results[x].solvedAt + Day

IInv ==
  /\ TypeOK
  /\ EveryAnswerCounted
  /\ NoResultOfDeletedTest
  /\ SpacedPerRequest
  /\ \A r \in Requests : PendingOK(r)

-----------------------------------------------------------------------------
\* Grading.

\* Two finite sets with nothing in common have the size of both together.
LEMMA DisjointSizes ==
  ASSUME NEW S, NEW T, IsFiniteSet(S), IsFiniteSet(T), S \cap T = {}
  PROVE  /\ IsFiniteSet(S \cup T)
         /\ Cardinality(S \cup T) = Cardinality(S) + Cardinality(T)
<1>1. /\ IsFiniteSet(S \cup T)
      /\ Cardinality(S \cup T) = Cardinality(S) + Cardinality(T) - Cardinality(S \cap T)
  BY FS_Union
<1>2. Cardinality(S \cap T) = 0
  BY FS_EmptySet
<1>3. Cardinality(S) \in Nat /\ Cardinality(T) \in Nat
  BY FS_CardinalityType
<1>4. QED
  BY <1>1, <1>2, <1>3

LEMMA IntervalSize ==
  ASSUME NEW n \in Nat
  PROVE  Cardinality(1 .. n) = n
<1>1. Cardinality(1 .. n) = IF 1 > n THEN 0 ELSE n - 1 + 1
  <2>1. 1 \in Int /\ n \in Int
    OBVIOUS
  <2>2. QED
    BY <2>1, FS_Interval, Zenon
<1>2. QED
  BY <1>1

LEMMA PairsFinite ==
  ASSUME NEW k \in Seq(Letters), NEW a \in Seq(Letters)
  PROVE  /\ IsFiniteSet(RightOnes(k, a)) /\ Cardinality(RightOnes(k, a)) \in Nat
         /\ IsFiniteSet(WrongOnes(k, a)) /\ Cardinality(WrongOnes(k, a)) \in Nat
         /\ IsFiniteSet(EmptyOnes(k, a)) /\ Cardinality(EmptyOnes(k, a)) \in Nat
<1>1. Len(a) \in Nat
  OBVIOUS
<1>2. IsFiniteSet(1 .. Len(a))
  BY <1>1, FS_Interval
<1>3. /\ RightOnes(k, a) \in SUBSET (1 .. Len(a))
      /\ WrongOnes(k, a) \in SUBSET (1 .. Len(a))
      /\ EmptyOnes(k, a) \in SUBSET (1 .. Len(a))
  BY DEF RightOnes, WrongOnes, EmptyOnes, Pairs
<1>4. QED
  BY <1>2, <1>3, FS_Subset, FS_CardinalityType

\* The letters in one of the three sets are those that have a partner.
LEMMA GradingPartitions ==
  ASSUME NEW k \in Seq(Letters), NEW a \in Seq(Letters)
  PROVE  Cardinality(RightOnes(k, a)) + Cardinality(WrongOnes(k, a))
           + Cardinality(EmptyOnes(k, a)) = IF Len(a) <= Len(k) THEN Len(a) ELSE Len(k)
<1> DEFINE R == RightOnes(k, a)
           W == WrongOnes(k, a)
           E == EmptyOnes(k, a)
           n == IF Len(a) <= Len(k) THEN Len(a) ELSE Len(k)
<1>1. Len(a) \in Nat /\ Len(k) \in Nat /\ n \in Nat
  OBVIOUS
<1>2. /\ R \cap W = {}
      /\ (R \cup W) \cap E = {}
      /\ (R \cup W) \cup E = 1 .. n
  <2>1. Pairs(k, a) = 1 .. n
    BY <1>1 DEF Pairs
  <2>2. QED
    BY <2>1 DEF RightOnes, WrongOnes, EmptyOnes
<1>3. /\ IsFiniteSet(R) /\ Cardinality(R) \in Nat
      /\ IsFiniteSet(W) /\ Cardinality(W) \in Nat
      /\ IsFiniteSet(E) /\ Cardinality(E) \in Nat
  BY PairsFinite
<1> HIDE DEF R, W, E, n
<1>4. Cardinality(R \cup W) = Cardinality(R) + Cardinality(W) /\ IsFiniteSet(R \cup W)
  BY <1>2, <1>3, DisjointSizes
<1>5. Cardinality((R \cup W) \cup E) = Cardinality(R) + Cardinality(W) + Cardinality(E)
  BY <1>2, <1>3, <1>4, DisjointSizes
<1>6. Cardinality(1 .. n) = n
  BY <1>1, IntervalSize
<1>7. QED
  BY <1>2, <1>5, <1>6 DEF R, W, E, n

\* A string has a first byte for each letter, and its extra bytes.
LEMMA BytesSplit ==
  ASSUME NEW s \in Seq(Letters)
  PROVE  Extra(s) \in Nat /\ ByteLen(s) = Len(s) + Extra(s)
<1> DEFINE D == 1 .. Len(s)
           X == {b \in BytesOf(s) : b[2] > 1}
           F == {b \in BytesOf(s) : b[2] = 1}
           f == [i \in D |-> <<i, 1>>]
<1>1. Len(s) \in Nat /\ IsFiniteSet(D) /\ Cardinality(D) = Len(s)
  BY IntervalSize, FS_Interval
<1>2. IsFiniteSet(D \X (1 .. 4))
  <2>1. IsFiniteSet(1 .. 4)
    <3>1. 1 \in Int /\ 4 \in Int
      OBVIOUS
    <3>2. QED
      BY <3>1, FS_Interval, Zenon
  <2> HIDE DEF D
  <2>2. QED
    BY <1>1, <2>1, FS_Product
<1>3. IsFiniteSet(X) /\ IsFiniteSet(F) /\ Cardinality(X) \in Nat /\ Cardinality(F) \in Nat
  <2>1. X \in SUBSET (D \X (1 .. 4)) /\ F \in SUBSET (D \X (1 .. 4))
    BY DEF BytesOf
  <2>2. QED
    BY <1>2, <2>1, FS_Subset, FS_CardinalityType
<1>4. BytesOf(s) = F \cup X /\ F \cap X = {}
  BY DEF BytesOf
<1>5. \A i \in D : Bytes[s[i]] \in Nat /\ 1 <= Bytes[s[i]]
  BY DataAssumption
<1>6. F = {<<i, 1>> : i \in D}
  BY <1>5 DEF BytesOf
<1>7. f \in Bijection(D, F)
  <2>1. f \in [D -> F]
    BY <1>6
  <2>2. \A i, j \in D : f[i] = f[j] => i = j
    OBVIOUS
  <2>3. \A b \in F : \E i \in D : f[i] = b
    BY <1>6
  <2> HIDE DEF f, F, D
  <2>4. QED
    BY <2>1, <2>2, <2>3 DEF Bijection, Injection, Surjection, IsInjective
<1>8. Cardinality(F) = Len(s)
  <2>1. ExistsBijection(D, F)
    BY <1>7 DEF ExistsBijection
  <2> HIDE DEF F, D
  <2>2. QED
    BY <1>1, <2>1, FS_Bijection
<1>9. Cardinality(F \cup X) = Cardinality(F) + Cardinality(X)
  <2> HIDE DEF F, X
  <2> QED
    BY <1>3, <1>4, DisjointSizes
<1>10. QED
  BY <1>3, <1>4, <1>8, <1>9 DEF ByteLen, Extra

\* Answers with as many bytes as the key lose no more letters in the pairing
\* than the key has extra bytes, and the other way round.
LEMMA PairingLoss ==
  ASSUME NEW k \in Seq(Letters), NEW a \in Seq(Letters), Submittable(k, a),
         NEW n, n = IF Len(a) <= Len(k) THEN Len(a) ELSE Len(k)
  PROVE  /\ n <= Len(a) /\ n <= Len(k)
         /\ Len(a) <= n + Extra(k) /\ Len(k) <= n + Extra(a)
<1>1. /\ Extra(a) \in Nat /\ ByteLen(a) = Len(a) + Extra(a)
      /\ Extra(k) \in Nat /\ ByteLen(k) = Len(k) + Extra(k)
      /\ Len(a) \in Nat /\ Len(k) \in Nat
  BY BytesSplit
<1>2. Len(a) + Extra(a) = Len(k) + Extra(k)
  BY <1>1 DEF Submittable
<1> HIDE DEF Submittable
<1>3. CASE Len(a) <= Len(k)
  <2>1. n = Len(a)
    BY <1>3
  <2>2. QED
    BY <1>1, <1>2, <1>3, <2>1
<1>4. CASE ~(Len(a) <= Len(k))
  <2>1. n = Len(k)
    BY <1>4
  <2>2. QED
    BY <1>1, <1>2, <1>4, <2>1
<1>5. QED
  BY <1>3, <1>4

-----------------------------------------------------------------------------
\* Types.

LEMMA LocalTypes ==
  ASSUME TypeOK, NEW r \in Requests
  PROVE  /\ req[r].at = "check" =>
              /\ req[r].user \in Users /\ req[r].test \in Tests
              /\ req[r].answers \in Answers /\ req[r].key \in Keys
              /\ req[r] = Checking(req[r].user, req[r].test, req[r].answers, req[r].key)
         /\ req[r].at = "insert" =>
              req[r].row \in ResultRows /\ req[r] = Inserting(req[r].row)
         /\ req[r].at = "write" =>
              req[r].test \in Tests /\ req[r].row \in TestRows
BY DEF TypeOK, Locals, Idle, Checking, Inserting

\* The result that solve_test computes.
LEMMA ResultType ==
  ASSUME TypeOK, NEW r \in Requests, NEW u \in Users, NEW p \in Tests,
         NEW a \in Answers, NEW k \in Keys
  PROVE  /\ Result(u, p, a, k, r) \in ResultRows
         /\ Result(u, p, a, k, r).user = u
         /\ Result(u, p, a, k, r).test = p
         /\ Result(u, p, a, k, r).by = r
         /\ Result(u, p, a, k, r).solvedAt = now
         /\ Graded(Result(u, p, a, k, r), k)
         /\ Submittable(k, a) => AddsUp(Result(u, p, a, k, r))
<1>1. k \in Seq(Letters) /\ a \in Seq(Letters)
  BY DataAssumption
<1>2. /\ Cardinality(RightOnes(k, a)) \in Nat
      /\ Cardinality(WrongOnes(k, a)) \in Nat
      /\ Cardinality(EmptyOnes(k, a)) \in Nat
  BY <1>1, PairsFinite
<1>3. now \in Nat
  BY DataAssumption DEF TypeOK
<1> DEFINE row == Result(u, p, a, k, r)
<1>4. /\ row \in ResultRows /\ row.user = u /\ row.test = p /\ row.by = r
      /\ row.solvedAt = now /\ Graded(row, k)
      /\ row.answers = a /\ row.key = k
  BY <1>2, <1>3 DEF Result, ResultRows, Graded
<1> HIDE DEF row
<1>5. Counted(row) = IF Len(a) <= Len(k) THEN Len(a) ELSE Len(k)
  BY <1>1, <1>4, GradingPartitions DEF Counted, Graded
<1>6. Submittable(k, a) => AddsUp(row)
  BY <1>1, <1>4, <1>5, PairingLoss DEF AddsUp
<1>7. QED
  BY <1>4, <1>6 DEF row

LEMMA TypeInit == Init => TypeOK
BY DataAssumption DEF Init, TypeOK, Locals, Idle

LEMMA TypeStep == TypeOK /\ [Next]_vars => TypeOK'
<1> SUFFICES ASSUME TypeOK, [Next]_vars PROVE TypeOK'
  OBVIOUS
<1> USE DEF TypeOK, Continue, Finish
<1>1. ASSUME NEW r \in Requests, NEW u \in Users, NEW p \in Tests,
             NEW a \in Answers, SolveFind(r, u, p, a)
      PROVE  TypeOK'
  <2>1. tests[p].key \in Keys
    BY <1>1 DEF SolveFind, TestRows
  <2>2. Checking(u, p, a, tests[p].key) \in Locals
    BY <2>1 DEF Checking, Locals
  <2>3. QED
    BY <1>1, <2>2 DEF SolveFind
<1>2. ASSUME NEW r \in Requests, SolveCheck(r)
      PROVE  TypeOK'
  <2> DEFINE q == req[r]
  <2>1. Result(q.user, q.test, q.answers, q.key, r) \in ResultRows
    BY <1>2, LocalTypes, ResultType DEF SolveCheck
  <2>2. /\ Inserting(Result(q.user, q.test, q.answers, q.key, r)) \in Locals
        /\ Idle \in Locals
    BY <2>1 DEF Inserting, Locals
  <2>3. QED
    BY <1>2, <2>2 DEF SolveCheck
<1>3. ASSUME NEW r \in Requests, NEW x \in Results, SolveInsert(r, x)
      PROVE  TypeOK'
  <2>1. req[r].row \in ResultRows
    BY <1>3, LocalTypes DEF SolveInsert
  <2>2. QED
    BY <1>3, <2>1 DEF SolveInsert, Locals
<1>4. ASSUME NEW r \in Requests, NEW p \in Tests, NEW c \in Counts \cup {None},
             NEW k \in Keys \cup {None}, UpdateRead(r, p, c, k)
      PROVE  TypeOK'
  <2> DEFINE row == [count |-> IF c = None THEN tests[p].count ELSE c,
                     key |-> IF k = None THEN tests[p].key ELSE k]
  <2>1. row \in TestRows
    BY <1>4 DEF UpdateRead, TestRows
  <2>2. Writing(p, row) \in Locals
    BY <2>1 DEF Writing, Locals
  <2>3. QED
    BY <1>4, <2>2 DEF UpdateRead
<1>5. ASSUME NEW r \in Requests, UpdateWrite(r)
      PROVE  TypeOK'
  <2>1. req[r].row \in TestRows
    BY <1>5, LocalTypes DEF UpdateWrite
  <2>2. QED
    BY <1>5, <2>1 DEF UpdateWrite, Locals
<1>6. ASSUME NEW p \in Tests, DeleteTest(p)
      PROVE  TypeOK'
  BY <1>6 DEF DeleteTest
<1>7. ASSUME NEW r \in Requests, Drop(r)
      PROVE  TypeOK'
  BY <1>7 DEF Drop, Locals
<1>8. ASSUME Tick
      PROVE  TypeOK'
  BY <1>8, DataAssumption DEF Tick
<1>9. CASE UNCHANGED vars
  BY <1>9 DEF vars
<1>10. QED
  BY <1>1, <1>2, <1>3, <1>4, <1>5, <1>6, <1>7, <1>8, <1>9 DEF Next

\* Every variable keeps its type.
THEOREM TypeCorrect == Spec => []TypeOK
BY TypeInit, TypeStep, PTL DEF Spec

-----------------------------------------------------------------------------
\* The inductive invariant.

LEMMA InvInit == Init => IInv
<1> SUFFICES ASSUME Init PROVE IInv
  OBVIOUS
<1>1. TypeOK
  BY TypeInit
<1>2. Stored = {}
  BY DEF Init, Stored
<1>3. \A r \in Requests : req[r].at # "insert"
  BY DEF Init, Idle
<1>4. QED
  BY <1>1, <1>2, <1>3
     DEF IInv, EveryAnswerCounted, NoResultOfDeletedTest, SpacedPerRequest, PendingOK

LEMMA StoredType ==
  ASSUME TypeOK, NEW x \in Stored
  PROVE  x \in Results /\ results[x] \in ResultRows
BY DEF TypeOK, Stored

\* Steps that store nothing, and remove at most whole rows.
LEMMA FewerResults ==
  ASSUME IInv, TypeOK', NEW r \in Requests,
         \A x \in Stored' : x \in Stored /\ results'[x] = results[x],
         \A x \in Stored' : tests'[results[x].test] # None,
         now' >= now,
         \A s \in Requests : s # r => req'[s] = req[s],
         req'[r].at # "insert" \/ req'[r] = req[r]
  PROVE  IInv'
<1>1. EveryAnswerCounted'
  BY DEF IInv, EveryAnswerCounted
<1>2. NoResultOfDeletedTest'
  BY DEF NoResultOfDeletedTest
<1>3. SpacedPerRequest'
  BY DEF IInv, SpacedPerRequest, SameAttempt
<1>4. ASSUME NEW s \in Requests
      PROVE  PendingOK(s)'
  <2> SUFFICES ASSUME req'[s].at = "insert" PROVE PendingOK(s)'
    BY DEF PendingOK
  <2>1. req'[s] = req[s]
    OBVIOUS
  <2>2. /\ PendingOK(s)
        /\ req[s].at = "insert"
    BY <2>1 DEF IInv
  <2>3. req[s].row.solvedAt \in Nat /\ now \in Nat /\ now' \in Nat
    BY <2>2, LocalTypes, DataAssumption DEF IInv, TypeOK, ResultRows
  <2>4. QED
    BY <2>1, <2>2, <2>3 DEF PendingOK, AddsUp, SameAttempt
<1>5. QED
  BY <1>1, <1>2, <1>3, <1>4 DEF IInv

\* The check of can_retake_test, at the moment it is made.
LEMMA CheckKeepsInv ==
  ASSUME IInv, TypeOK', NEW r \in Requests, SolveCheck(r)
  PROVE  IInv'
<1> DEFINE q == req[r]
           row == Result(q.user, q.test, q.answers, q.key, r)
<1>1. /\ UNCHANGED <<now, tests, results>>
      /\ Stored' = Stored
      /\ \A s \in Requests : s # r => req'[s] = req[s]
  BY DEF SolveCheck, Continue, Finish, Stored, IInv, TypeOK
<1>2. EveryAnswerCounted' /\ NoResultOfDeletedTest' /\ SpacedPerRequest'
  BY <1>1 DEF IInv, EveryAnswerCounted, NoResultOfDeletedTest, SpacedPerRequest,
              SameAttempt
<1>3. ASSUME NEW s \in Requests, s # r
      PROVE  PendingOK(s)'
  BY <1>1, <1>3 DEF IInv, PendingOK, AddsUp, SameAttempt
<1>4. PendingOK(r)'
  <2>1. CASE req'[r].at # "insert"
    BY <2>1 DEF PendingOK
  <2>2. CASE req'[r].at = "insert"
    <3>1. /\ req'[r] = Inserting(row)
          /\ MayRetake(q.user, q.test)
          /\ Submittable(q.key, q.answers)
      BY <2>2 DEF SolveCheck, Continue, Finish, Idle, IInv, TypeOK
    <3>2. /\ q.user \in Users /\ q.test \in Tests
          /\ q.answers \in Answers /\ q.key \in Keys
      BY LocalTypes DEF SolveCheck, IInv
    <3>3. /\ row \in ResultRows /\ row.by = r /\ row.solvedAt = now
          /\ row.user = q.user /\ row.test = q.test
          /\ AddsUp(row)
      BY <3>1, <3>2, ResultType DEF IInv
    <3>4. \A x \in Stored : SameAttempt(results[x], row) =>
                              now >= results[x].solvedAt + Day
      BY <3>1, <3>3 DEF MayRetake, ResultsOf, Stored, SameAttempt
    <3>5. req'[r].row = row /\ now \in Nat
      BY <3>1, DataAssumption DEF Inserting, IInv, TypeOK
    <3> HIDE DEF row
    <3>6. QED
      BY <1>1, <3>3, <3>4, <3>5 DEF PendingOK, AddsUp, SameAttempt
  <2>3. QED
    BY <2>1, <2>2
<1>5. QED
  BY <1>2, <1>3, <1>4 DEF IInv
\* The insert, some time after the check: whatever other requests stored
\* meanwhile, the rows of this one are still a day apart.
LEMMA InsertKeepsInv ==
  ASSUME IInv, TypeOK', NEW r \in Requests, NEW z \in Results, SolveInsert(r, z)
  PROVE  IInv'
<1> DEFINE row == req[r].row
<1>1. /\ UNCHANGED <<now, tests>>
      /\ req'[r] = Idle
      /\ \A s \in Requests : s # r => req'[s] = req[s]
      /\ \A x \in Results : x # z => results'[x] = results[x]
      /\ z \notin Stored
  BY DEF SolveInsert, Finish, Continue, IInv, TypeOK, Stored
<1>2. row \in ResultRows /\ PendingOK(r) /\ req[r].at = "insert"
  BY LocalTypes DEF SolveInsert, IInv
<1>3. row.by = r /\ AddsUp(row)
      /\ \A x \in Stored :
           results[x].by = r /\ SameAttempt(results[x], row) =>
             row.solvedAt >= results[x].solvedAt + Day
  BY <1>2 DEF PendingOK
<1>4. CASE tests[row.test] = None
  <2>1. results'[z] = None
    BY <1>4 DEF SolveInsert, IInv, TypeOK
  <2>2. \A x \in Stored' : x \in Stored /\ results'[x] = results[x]
    BY <1>1, <2>1 DEF Stored
  <2>3. req'[r].at # "insert"
    BY <1>1 DEF Idle
  <2>4. now' >= now
    BY <1>1, DataAssumption DEF IInv, TypeOK
  <2>5. \A x \in Stored' : tests'[results[x].test] # None
    BY <1>1, <2>2 DEF IInv, NoResultOfDeletedTest
  <2>6. QED
    BY <1>1, <2>2, <2>3, <2>4, <2>5, FewerResults
<1>5. CASE tests[row.test] # None
  <2>1. results'[z] = row /\ row # None
    BY <1>2, <1>5, NoneAssumption DEF SolveInsert, IInv, TypeOK
  <2>2. Stored' = Stored \cup {z}
    BY <1>1, <2>1 DEF Stored
  <2>3. \A x \in Stored : x # z /\ x \in Results /\ results'[x] = results[x]
    BY <1>1 DEF Stored
  <2> HIDE DEF row
  <2>4. EveryAnswerCounted'
    BY <1>3, <2>1, <2>2, <2>3 DEF EveryAnswerCounted, IInv, AddsUp
  <2>5. NoResultOfDeletedTest'
    BY <1>1, <1>5, <2>1, <2>2, <2>3 DEF NoResultOfDeletedTest, IInv
  <2>6. SpacedPerRequest'
    BY <1>3, <2>1, <2>2, <2>3 DEF SpacedPerRequest, IInv, SameAttempt
  <2>7. ASSUME NEW s \in Requests
        PROVE  PendingOK(s)'
    <3>1. CASE s = r
      BY <3>1, <1>1 DEF PendingOK, Idle
    <3>2. CASE s # r
      <4>1. req'[s] = req[s] /\ PendingOK(s)
        BY <3>2, <1>1 DEF IInv
      <4>2. QED
        BY <4>1, <1>1, <1>3, <2>1, <2>2, <2>3, <3>2
           DEF PendingOK, AddsUp, SameAttempt
    <3>3. QED
      BY <3>1, <3>2
  <2>8. QED
    BY <2>4, <2>5, <2>6, <2>7 DEF IInv
<1>6. QED
  BY <1>4, <1>5

LEMMA InvStep == IInv /\ [Next]_vars => IInv'
<1> SUFFICES ASSUME IInv, [Next]_vars PROVE IInv'
  OBVIOUS
<1>1. TypeOK'
  BY TypeStep DEF IInv
<1>2. now \in Nat /\ now >= now /\ now + 1 >= now
  BY DataAssumption DEF IInv, TypeOK
<1>3. \A x \in Stored : tests[results[x].test] # None
  BY DEF IInv, NoResultOfDeletedTest
<1>4. ASSUME NEW r \in Requests, NEW u \in Users, NEW p \in Tests,
             NEW a \in Answers, SolveFind(r, u, p, a)
      PROVE  IInv'
  <2>1. /\ UNCHANGED <<now, tests, results>>
        /\ Stored' = Stored
        /\ req'[r].at # "insert"
        /\ \A s \in Requests : s # r => req'[s] = req[s]
    BY <1>4 DEF SolveFind, Continue, Checking, Stored, IInv, TypeOK
  <2>2. QED
    BY <1>1, <1>2, <1>3, <2>1, FewerResults
<1>5. ASSUME NEW r \in Requests, SolveCheck(r)
      PROVE  IInv'
  BY <1>1, <1>5, CheckKeepsInv
<1>6. ASSUME NEW r \in Requests, NEW x \in Results, SolveInsert(r, x)
      PROVE  IInv'
  BY <1>1, <1>6, InsertKeepsInv
<1>7. ASSUME NEW r \in Requests, NEW p \in Tests, NEW c \in Counts \cup {None},
             NEW k \in Keys \cup {None}, UpdateRead(r, p, c, k)
      PROVE  IInv'
  <2>1. /\ UNCHANGED <<now, tests, results>>
        /\ Stored' = Stored
        /\ req'[r].at # "insert"
        /\ \A s \in Requests : s # r => req'[s] = req[s]
    BY <1>7 DEF UpdateRead, Continue, Writing, Stored, IInv, TypeOK
  <2>2. QED
    BY <1>1, <1>2, <1>3, <2>1, FewerResults
<1>8. ASSUME NEW r \in Requests, UpdateWrite(r)
      PROVE  IInv'
  <2>1. /\ UNCHANGED <<now, results>>
        /\ Stored' = Stored
        /\ req'[r].at # "insert"
        /\ \A s \in Requests : s # r => req'[s] = req[s]
    BY <1>8 DEF UpdateWrite, Finish, Continue, Idle, Stored, IInv, TypeOK
  <2>2. req[r].row # None
    BY <1>8, LocalTypes, NoneAssumption DEF UpdateWrite, IInv
  <2>3. \A p \in Tests : tests[p] # None => tests'[p] # None
    BY <1>8, <2>2 DEF UpdateWrite, IInv, TypeOK
  <2>4. \A x \in Stored : results[x].test \in Tests
    BY StoredType DEF IInv, ResultRows
  <2>5. \A x \in Stored' : tests'[results[x].test] # None
    BY <1>3, <2>1, <2>3, <2>4
  <2>6. QED
    BY <1>1, <1>2, <2>1, <2>5, FewerResults
<1>9. ASSUME NEW p \in Tests, DeleteTest(p)
      PROVE  IInv'
  <2>1. /\ UNCHANGED <<now, req>>
        /\ \A x \in Stored' : x \in Stored /\ results'[x] = results[x]
                                               /\ results[x].test # p
        /\ \A q \in Tests : q # p => tests'[q] = tests[q]
    BY <1>9 DEF DeleteTest, Stored, IInv, TypeOK
  <2>2. \A x \in Stored : results[x].test \in Tests
    BY StoredType DEF IInv, ResultRows
  <2>3. \A x \in Stored' : tests'[results[x].test] # None
    BY <1>3, <2>1, <2>2
  <2>4. CASE Requests = {}
    BY <1>1, <2>1, <2>3, <2>4
       DEF IInv, EveryAnswerCounted, NoResultOfDeletedTest, SpacedPerRequest, SameAttempt
  <2>5. CASE Requests # {}
    BY <1>1, <1>2, <2>1, <2>3, <2>5, FewerResults
  <2>6. QED
    BY <2>4, <2>5
<1>10. ASSUME NEW r \in Requests, Drop(r)
       PROVE  IInv'
  <2>1. /\ UNCHANGED <<now, tests, results>>
        /\ Stored' = Stored
        /\ req'[r].at # "insert"
        /\ \A s \in Requests : s # r => req'[s] = req[s]
    BY <1>10 DEF Drop, Finish, Continue, Idle, Stored, IInv, TypeOK
  <2>2. QED
    BY <1>1, <1>2, <1>3, <2>1, FewerResults
<1>11. ASSUME now' = now + 1 \/ now' = now, UNCHANGED <<tests, results, req>>
       PROVE  IInv'
  <2>1. Stored' = Stored /\ now' >= now
    BY <1>2, <1>11 DEF Stored
  <2>2. CASE Requests = {}
    BY <1>1, <1>11, <2>1, <2>2
       DEF IInv, EveryAnswerCounted, NoResultOfDeletedTest, SpacedPerRequest, SameAttempt
  <2>3. CASE Requests # {}
    BY <1>1, <1>3, <1>11, <2>1, <2>3, FewerResults
  <2>4. QED
    BY <2>2, <2>3
<1>12. QED
  BY <1>4, <1>5, <1>6, <1>7, <1>8, <1>9, <1>10, <1>11 DEF Next, Tick, vars

LEMMA Invariance == Spec => []IInv
BY InvInit, InvStep, PTL DEF Spec

\* A result leaves out no more letters of the answers than its key has bytes
\* beyond one per letter, nor of the key than the answers have: none at all
\* where letters are single bytes.
THEOREM AnswersCounted == Spec => []EveryAnswerCounted
<1>1. IInv => EveryAnswerCounted
  BY DEF IInv
<1>2. QED
  BY <1>1, Invariance, PTL

\* No result is left of a deleted test, however late it is inserted.
THEOREM NoResultOutlivesItsTest == Spec => []NoResultOfDeletedTest
<1>1. IInv => NoResultOfDeletedTest
  BY DEF IInv
<1>2. QED
  BY <1>1, Invariance, PTL
\* Within a day of a result, a user has no more results for its test than
\* there can be requests in flight: each was stored by a different one.
THEOREM BurstBounded == Spec => []BurstIsBounded
<1>1. IInv => BurstIsBounded
  <2> SUFFICES ASSUME IInv, NEW x \in Stored
               PROVE  Cardinality(Within24Hours(x)) <= Cardinality(Requests)
    BY DEF BurstIsBounded
  <2> DEFINE W == Within24Hours(x)
             f == [y \in W |-> results[y].by]
  <2>1. \A y \in Stored : /\ results[y].by \in Requests
                          /\ results[y].solvedAt \in Nat
    BY StoredType DEF IInv, ResultRows
  <2>2. ASSUME NEW y \in W, NEW z \in W, results[y].by = results[z].by
        PROVE  y = z
    <3>1. /\ y \in Stored /\ z \in Stored
          /\ SameAttempt(results[y], results[z])
          /\ results[y].solvedAt < results[z].solvedAt + Day
          /\ results[z].solvedAt < results[y].solvedAt + Day
      BY <2>1, DataAssumption DEF Within24Hours, SameAttempt
    <3>2. QED
      BY <2>1, <2>2, <3>1, DataAssumption DEF IInv, SpacedPerRequest
  <2>3. W \subseteq Stored
    BY DEF Within24Hours
  <2>4. f \in Injection(W, Requests)
    BY <2>1, <2>2, <2>3 DEF Injection, IsInjective
  <2> HIDE DEF f, W
  <2>5. Cardinality(W) <= Cardinality(Requests)
    BY <2>4, FS_Injection, DataAssumption
  <2>6. QED
    BY <2>5 DEF W
<1>2. QED
  BY <1>1, Invariance, PTL

\* Once the requests that read an older key are done, results are graded by
\* the key the test has, until the key is replaced again.
THEOREM GradedByTheKey == Spec => GradedByCurrentKey
<1> DEFINE Act ==
      \A p \in Tests :
        tests[p] # None /\ Settled(p) /\ tests'[p] = tests[p] =>
          /\ Settled(p)'
          /\ \A x \in Results :
               results[x] = None /\ results'[x] # None /\ results'[x].test = p =>
                 Graded(results'[x], tests[p].key)
<1>1. TypeOK /\ [Next]_vars => [Act]_vars
  <2> SUFFICES ASSUME TypeOK, Next, NEW p \in Tests,
                      tests[p] # None, Settled(p), tests'[p] = tests[p]
               PROVE  /\ Settled(p)'
                      /\ \A x \in Results :
                           results[x] = None /\ results'[x] # None
                             /\ results'[x].test = p =>
                               Graded(results'[x], tests[p].key)
    OBVIOUS
  \* A request is left alone, done, or at a point that fits the key.
  <2> DEFINE Fits(q) ==
               /\ q.at = "check" /\ q.test = p => q.key = tests[p].key
               /\ q.at = "insert" /\ q.row.test = p => Graded(q.row, tests[p].key)
             NoneStored == \A x \in Results :
                             results'[x] = results[x] \/ results'[x] = None
             Goal == /\ Settled(p)'
                     /\ \A x \in Results :
                          results[x] = None /\ results'[x] # None
                            /\ results'[x].test = p =>
                              Graded(results'[x], tests[p].key)
  <2>1. \A r \in Requests : Fits(req[r])
    BY DEF Settled
  <2>2. (\A r \in Requests : Fits(req'[r])) => Settled(p)'
    BY DEF Settled, Graded
  <2>3. ASSUME NEW r \in Requests, NEW local, Continue(r, local), Fits(local),
               NoneStored
        PROVE  /\ Settled(p)'
               /\ \A x \in Results : results[x] = None => results'[x] = None
    <3>1. \A s \in Requests : req'[s] = req[s] \/ req'[s] = local
      BY <2>3 DEF Continue, TypeOK
    <3> HIDE DEF Fits
    <3>2. QED
      BY <2>1, <2>2, <2>3, <3>1
  <2>4. Fits(Idle)
    BY DEF Idle
  <2>5. ASSUME NEW r \in Requests, NEW u \in Users, NEW q \in Tests,
               NEW a \in Answers, SolveFind(r, u, q, a)
        PROVE  Goal
    <3>1. Fits(Checking(u, q, a, tests[q].key)) /\ NoneStored
      BY <2>5 DEF SolveFind, Checking
    <3>2. QED
      BY <2>3, <2>5, <3>1 DEF SolveFind
  <2>6. ASSUME NEW r \in Requests, SolveCheck(r)
        PROVE  Goal
    <3> DEFINE q == req[r]
               row == Result(q.user, q.test, q.answers, q.key, r)
    <3>1. /\ q.test = p => q.key = tests[p].key
          /\ row.test = q.test /\ Graded(row, q.key)
      BY <2>1, <2>6, LocalTypes, ResultType DEF SolveCheck
    <3>2. Fits(Inserting(row)) /\ NoneStored
      BY <2>6, <3>1 DEF SolveCheck, Inserting
    <3> HIDE DEF row, Fits, NoneStored
    <3>3. Continue(r, Inserting(row)) \/ Continue(r, Idle)
      BY <2>6 DEF SolveCheck, Finish, row
    <3>4. QED
      BY <2>3, <2>4, <3>2, <3>3
  <2>7. ASSUME NEW r \in Requests, NEW z \in Results, SolveInsert(r, z)
        PROVE  Goal
    <3>1. \A s \in Requests : req'[s] = req[s] \/ req'[s] = Idle
      BY <2>7 DEF SolveInsert, Finish, Continue, TypeOK
    <3>2. Settled(p)'
      <4> HIDE DEF Fits
      <4> QED
        BY <2>1, <2>2, <2>4, <3>1
    <3>3. ASSUME NEW x \in Results,
                 results[x] = None, results'[x] # None, results'[x].test = p
          PROVE  Graded(results'[x], tests[p].key)
      BY <2>1, <2>7, <3>3 DEF SolveInsert, TypeOK
    <3>4. QED
      BY <3>2, <3>3
  <2>8. ASSUME NEW r \in Requests, NEW q \in Tests, NEW c \in Counts \cup {None},
               NEW k \in Keys \cup {None}, UpdateRead(r, q, c, k)
        PROVE  Goal
    <3> DEFINE row == [count |-> IF c = None THEN tests[q].count ELSE c,
                       key |-> IF k = None THEN tests[q].key ELSE k]
    <3>1. Fits(Writing(q, row)) /\ NoneStored
      BY <2>8 DEF UpdateRead, Writing
    <3>2. Continue(r, Writing(q, row))
      BY <2>8 DEF UpdateRead
    <3> HIDE DEF Fits, NoneStored
    <3>3. QED
      BY <2>3, <3>1, <3>2
  <2>9. ASSUME NEW r \in Requests, UpdateWrite(r) \/ Drop(r)
        PROVE  Goal
    <3>1. Continue(r, Idle) /\ NoneStored
      BY <2>9 DEF UpdateWrite, Drop, Finish
    <3> HIDE DEF Fits, NoneStored
    <3>2. QED
      BY <2>3, <2>4, <3>1
  <2>10. ASSUME UNCHANGED req, NoneStored
         PROVE  Goal
    BY <2>2, <2>1, <2>10
  <2>11. ASSUME NEW q \in Tests, DeleteTest(q)
         PROVE  UNCHANGED req /\ NoneStored
    BY <2>11 DEF DeleteTest, TypeOK
  <2>12. Tick => UNCHANGED req /\ NoneStored
    BY DEF Tick
  <2> HIDE DEF Fits, NoneStored
  <2>13. Goal
    BY <2>5, <2>6, <2>7, <2>8, <2>9, <2>10, <2>11, <2>12 DEF Next
  <2>14. QED
    BY <2>13
<1>2. QED
  BY <1>1, TypeCorrect, PTL DEF Spec, GradedByCurrentKey
=============================================================================
