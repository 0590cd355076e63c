-------------------------- MODULE MCRefreshSessions --------------------------
(***************************************************************************)
(* RefreshSessions for TLC.  Users, tokens and requests are model values   *)
(* that the specification only compares, and no property is a liveness     *)
(* property, so TLC may identify the states that differ in their names.    *)
(***************************************************************************)
EXTENDS RefreshSessions, TLC

Symmetry ==
  Permutations(Users) \cup Permutations(Tokens) \cup Permutations(Requests)
=============================================================================
