\* Two requests at once: two set_subjects of one book, or one of them with the
\* creation, the move or the edit of a practice test.
CONSTANTS
  Subjects = {s1, s2}
  Books = {b1, b2}
  Tests = {p1}
  Requests = {r1, r2}
  None = None
SPECIFICATION Spec
INVARIANTS
  TypeOK
  TestsFitTheirBook
PROPERTY ImplementsContract
SYMMETRY Symmetry
