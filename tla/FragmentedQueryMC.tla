-------------------------- MODULE FragmentedQueryMC --------------------------
EXTENDS FragmentedQuery, TLC

CONSTANTS q1, q2, a1

\* Two clients behind one address, with queries of different lengths.
MCAddressOf == [q \in Query |-> a1]
MCPiecesOf == (q1 :> 3) @@ (q2 :> 2)
=============================================================================
