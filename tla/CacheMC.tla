------------------------------- MODULE CacheMC -------------------------------
(***************************************************************************)
(* Instances of Cache for TLC.                                             *)
(***************************************************************************)
EXTENDS Cache, TLC

Symmetric == Permutations(Entry) \cup Permutations(Getter) \cup Permutations(Key)
=============================================================================
