\* An administrator edits the question count or the answer key of a test.
CONSTANTS
  Users = {alice}
  Tests = {deneme1}
  Results = {x1}
  Requests = {r1}
  None = None
  Keys <- MCKeys
  Counts = {1, 2}
  Answers <- MCAnswers
  Letters <- MCLetters
  Upper <- MCUpper
  Bytes <- MCBytes
  Day = 2
  MaxTime = 2
SYMMETRY Symmetry
SPECIFICATION Spec
INVARIANT KeyAnswersEveryQuestion
CHECK_DEADLOCK FALSE
