----------------------------- MODULE ResolverMC -----------------------------
(***************************************************************************)
(* Instances of Resolver for TLC.                                          *)
(***************************************************************************)
EXTENDS Resolver, TLC

CONSTANTS n1, n2, n3

Symmetric == Permutations(Request) \cup Permutations(Name \ Owned)
=============================================================================
