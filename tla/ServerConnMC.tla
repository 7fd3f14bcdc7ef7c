---------------------------- MODULE ServerConnMC ----------------------------
(***************************************************************************)
(* The instance of ServerConn for TLC.                                     *)
(***************************************************************************)
EXTENDS ServerConn, TLC
=============================================================================
