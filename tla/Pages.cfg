CONSTANTS
  None = None
  MaxPending = 2
  Items <- AllItems
  PerPage = 1
  Tests = {t1, t2}
  exam = exam
  lesson = lesson
  otherLesson = otherLesson
  Exams <- OneExam
  Lessons <- AllLessons
  TheBook <- TheBookEdited
  MaxUses = 2
  Results = {r1, r2}
SPECIFICATION Spec
INVARIANTS
  TypeOK
  ListIsCurrent
  OneDeletionAtATime
  NoUpdateErases
  ModalShowsItsTest
  SubjectsFitSelection
  BooksFitFilter
  ModalGradesItsResult
  SavesAreGuarded
  SpinnersAreBacked
PROPERTIES
  DialogComesBack
  SpinnersEnd
