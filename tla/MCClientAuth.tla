---------------------------- MODULE MCClientAuth ----------------------------
(***************************************************************************)
(* ClientAuth for TLC.  The runs check liveness, so nothing is symmetric.  *)
(***************************************************************************)
EXTENDS ClientAuth
=============================================================================
