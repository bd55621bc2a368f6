-------------------------- MODULE MCSingleUseState --------------------------
(***************************************************************************)
(* SingleUseState on a small instance.                                     *)
(***************************************************************************)
EXTENDS SingleUseState
=============================================================================
