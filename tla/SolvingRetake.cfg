\* A user sends the answers of a test twice at once.
CONSTANTS
  Users = {alice}
  Tests = {deneme1}
  Results = {x1, x2}
  Requests = {r1, r2}
  None = None
  Keys <- MCKeys
  Counts = {2}
  Answers <- MCAnswers
  Letters <- MCLetters
  Upper <- MCUpper
  Bytes <- MCBytes
  Day = 2
  MaxTime = 2
SYMMETRY Symmetry
SPECIFICATION Spec
INVARIANT RetakesAreADayApart
CHECK_DEADLOCK FALSE
