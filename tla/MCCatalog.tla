------------------------------ MODULE MCCatalog ------------------------------
(***************************************************************************)
(* Catalog for TLC.  Nothing compares identifiers but for equality, and    *)
(* the run checks no liveness: every set is symmetric.                     *)
(***************************************************************************)
EXTENDS Catalog, TLC

Symmetry ==
  Permutations(Subjects) \cup Permutations(Books) \cup Permutations(Tests)
    \cup Permutations(Requests)
=============================================================================
