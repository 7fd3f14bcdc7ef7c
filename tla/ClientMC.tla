------------------------------ MODULE ClientMC ------------------------------
(***************************************************************************)
(* Instances of Client for TLC.                                            *)
(***************************************************************************)
EXTENDS Client, TLC

CONSTANTS n1, a1, a2, s1, s2

TwoAddresses == n1 :> {a1, a2}
NoConnections == << >>

TwoServers == <<s1, s2>>

Symmetric == Permutations(Query)
=============================================================================
