----------------------------- MODULE ConnPoolMC -----------------------------
(***************************************************************************)
(* The instance of ConnPool for TLC.                                       *)
(***************************************************************************)
EXTENDS ConnPool, TLC
=============================================================================
