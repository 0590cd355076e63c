-------------------------------- MODULE MCPages --------------------------------
(***************************************************************************)
(* Pages for TLC.  The run checks liveness, so nothing is symmetric.       *)
(***************************************************************************)
EXTENDS Pages

CONSTANTS exam, lesson, otherLesson

AllItems == 1 .. 2
AllLessons == {lesson, otherLesson}
OneExam == {exam}
TheBookEdited == <<exam, lesson>>
=============================================================================
