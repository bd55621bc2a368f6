--------------------------- MODULE MCSessionState ---------------------------
(***************************************************************************)
(* SessionState on a small instance.                                       *)
(***************************************************************************)
EXTENDS SessionState
=============================================================================
