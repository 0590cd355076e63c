\* Two requests of two users solve, edit and delete one test; three results
\* can be stored.
\* With the test deleted and the clock at its bound nothing is left to do.
CONSTANTS
  Users = {alice, bob}
  Tests = {deneme1}
  Results = {x1, x2, x3}
  Requests = {r1, r2}
  None = None
  Keys <- MCKeys
  Counts = {2}
  Answers <- MCAnswers
  Letters <- MCLetters
  Upper <- MCUpper
  Bytes <- MCBytes
  Day = 2
  MaxTime = 3
SYMMETRY Symmetry
SPECIFICATION Spec
INVARIANTS
  TypeOK
  EveryAnswerCounted
  NoResultOfDeletedTest
  BurstIsBounded
PROPERTY GradedByCurrentKey
CHECK_DEADLOCK FALSE
