----------------------------- MODULE TokenBucket -----------------------------
(***************************************************************************)
(* What a per-address rate limiter promises: every address has a bucket of *)
(* Burst tokens from the beginning and for ever, one token comes back per  *)
(* unit of time, and a request is allowed exactly when it finds a token.   *)
(***************************************************************************)
EXTENDS Integers

CONSTANTS
  Address,  \* client addresses
  Burst     \* the size of a bucket

VARIABLES
  tokens,   \* tokens[a]: the tokens in the bucket of address a
  answer    \* the last answer: an address, and "allowed" or "refused"

Init ==
  /\ tokens = [a \in Address |-> Burst]
  /\ answer = << >>

Proceed(a) ==
  /\ tokens[a] >= 1
  /\ tokens' = [tokens EXCEPT ![a] = @ - 1]
  /\ answer' = <<a, "allowed">>

Refuse(a) ==
  /\ tokens[a] = 0
  /\ answer' = <<a, "refused">>
  /\ UNCHANGED tokens

Refill ==
  /\ tokens' = [a \in Address |-> IF tokens[a] < Burst THEN tokens[a] + 1 ELSE Burst]
  /\ UNCHANGED answer

Next == Refill \/ \E a \in Address : Proceed(a) \/ Refuse(a)

Spec == Init /\ [][Next]_<<tokens, answer>>
=============================================================================
