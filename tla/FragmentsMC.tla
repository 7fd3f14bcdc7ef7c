---------------------------- MODULE FragmentsMC ----------------------------
(***************************************************************************)
(* The instance of Fragments for TLC.                                      *)
(***************************************************************************)
EXTENDS Fragments, TLC

CONSTANTS q1, q2, k1, k2

\* Two queries of two pieces under keys of their own.
KeyApart == (q1 :> k1) @@ (q2 :> k2)

Two == (q1 :> 2) @@ (q2 :> 2)
=============================================================================
