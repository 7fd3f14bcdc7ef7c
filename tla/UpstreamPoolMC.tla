--------------------------- MODULE UpstreamPoolMC ---------------------------
(***************************************************************************)
(* The instance of UpstreamPool for TLC.                                   *)
(***************************************************************************)
EXTENDS UpstreamPool, TLC

\* Two upstreams of one priority and one of a higher.
TwoTiers == <<10, 10, 20>>

\* The default timeout of 2 s, in ticks of two seconds: the server's 4 s are two.
DefaultTimeouts == <<1, 1, 1>>

Symmetric == Permutations(Caller)
=============================================================================
