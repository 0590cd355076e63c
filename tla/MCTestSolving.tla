---------------------------- MODULE MCTestSolving ----------------------------
(***************************************************************************)
(* TestSolving for TLC, with short answer keys.  The cedilla is a letter   *)
(* of two bytes, in the lower case and in the upper case.                  *)
(***************************************************************************)
EXTENDS TestSolving, TLC

Symmetry == Permutations(Users) \cup Permutations(Results) \cup Permutations(Requests)

MCLetters == {"A", "B", "a", "b", "_", " ", "Cedilla", "cedilla"}

MCUpper ==
  [c \in MCLetters |->
     CASE c = "a" -> "A" [] c = "b" -> "B" [] c = "cedilla" -> "Cedilla" [] OTHER -> c]

MCBytes == [c \in MCLetters |-> IF c \in {"Cedilla", "cedilla"} THEN 2 ELSE 1]

\* Two and three bytes, of two letters each.
MCKeys == {<<"A", "b">>, <<"Cedilla", "B">>}

MCAnswers == {<<"_", "b", " ">>, <<"cedilla">>}
=============================================================================
