-------------------------- MODULE ClientServiceMC --------------------------
(***************************************************************************)
(* Instances of ClientService for TLC.                                     *)
(***************************************************************************)
EXTENDS ClientService, TLC

CONSTANTS n1, n2, a1, a2

\* A VPN connection, and one of another type, whose server must never be used.
TwoConnections == (n1 :> {a1}) @@ (n2 :> {a2})
=============================================================================
