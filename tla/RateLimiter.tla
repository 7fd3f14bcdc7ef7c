----------------------------- MODULE RateLimiter -----------------------------
(***************************************************************************)
(* The per-IP rate limiter (internal/mc/ratelimit.go).  A bucket is made   *)
(* when an address is first seen, refilled only when it is used, and       *)
(* dropped by the cleanup once it has been idle for long enough.  Allow    *)
(* and cleanup are critical sections under the limiter's mutex.            *)
(*                                                                         *)
(* The unit of time is that of one token, 1/rate of a second; as burst is  *)
(* rate, a bucket refills in Burst of them.  Fractions of a token are left *)
(* out.  For each address a window of time that starts at any moment is    *)
(* watched, to count the requests allowed in it.                           *)
(***************************************************************************)
EXTENDS Integers

CONSTANTS
  Address,      \* client addresses
  Burst,        \* rate and burst, queriesPerSecond made at least 1
  IdleTimeout,  \* idleTimeout, in the time of a token
  MaxWindow,    \* the longest window watched
  None

ASSUME RateLimiterAssumption ==
  /\ Burst \in Nat \ {0}
  /\ IdleTimeout \in Nat /\ IdleTimeout >= Burst
  /\ MaxWindow \in Nat

ASSUME NoneAssumption == None \notin [tokens : 0..Burst, since : 0..IdleTimeout + 1]

VARIABLES
  buckets,  \* buckets[a]: the bucket of address a, or None
  answer,   \* the last answer of Allow
  spent,    \* spent[a]: the requests of a allowed in the window
  elapsed   \* the length of the window so far

vars == <<buckets, answer, spent, elapsed>>

\* A bucket: its tokens when it was last used, and the time since.
Bucket == [tokens : 0..Burst, since : 0..IdleTimeout + 1]

Init ==
  /\ buckets = [a \in Address |-> None]
  /\ answer = << >>
  /\ spent = [a \in Address |-> 0]
  /\ elapsed = 0

AtMost(n, limit) == IF n > limit THEN limit ELSE n

\* Mutant: the refill is not capped by the burst.
AvailableUncapped(a) ==
  IF buckets[a] = None THEN Burst ELSE buckets[a].tokens + buckets[a].since

(* The tokens Allow finds: a new bucket is full, another one is refilled. *)
Available(a) ==
  IF buckets[a] = None THEN Burst
  ELSE AtMost(buckets[a].tokens + buckets[a].since, Burst)

Allow(a) ==
  LET allowed == Available(a) >= 1
  IN  /\ buckets' = [buckets EXCEPT ![a] =
                       [tokens |-> IF allowed THEN Available(a) - 1 ELSE Available(a),
                        since |-> 0]]
      /\ answer' = <<a, IF allowed THEN "allowed" ELSE "refused">>
      /\ spent' = [spent EXCEPT ![a] = IF allowed THEN @ + 1 ELSE @]
      /\ UNCHANGED elapsed

\* Mutant: a bucket goes as soon as it has not been used for a moment.
IdleEarly(a) == buckets[a] # None /\ buckets[a].since > 0

Idle(a) == buckets[a] # None /\ buckets[a].since > IdleTimeout

Cleanup ==
  /\ buckets' = [a \in Address |-> IF Idle(a) THEN None ELSE buckets[a]]
  /\ UNCHANGED <<answer, spent, elapsed>>

\* Time stops counting for a bucket that is idle for longer than the timeout.
Older(b) == [b EXCEPT !.since = AtMost(@ + 1, IdleTimeout + 1)]

Tick ==
  /\ elapsed < MaxWindow
  /\ elapsed' = elapsed + 1
  /\ buckets' = [a \in Address |-> IF buckets[a] = None THEN None ELSE Older(buckets[a])]
  /\ UNCHANGED <<answer, spent>>

\* A new window starts now.
Watch ==
  /\ spent' = [a \in Address |-> 0]
  /\ elapsed' = 0
  /\ UNCHANGED <<buckets, answer>>

Next == (\E a \in Address : Allow(a)) \/ Cleanup \/ Tick \/ Watch

Spec == Init /\ [][Next]_vars
-----------------------------------------------------------------------------
(* Type invariant of the limiter and of the watched window. *)
TypeOK ==
  /\ buckets \in [Address -> Bucket \cup {None}]
  /\ spent \in [Address -> Nat]
  /\ elapsed \in 0..MaxWindow

(* In any window of time no address is allowed more than a burst and the rate *)
(* for the length of the window, whatever is cleaned up in the meantime.      *)
WindowBound == \A a \in Address : spent[a] <= Burst + elapsed

(* Dropping idle buckets and refilling lazily cannot be noticed: the limiter *)
(* is one whose buckets are there for ever and are refilled as time passes.  *)
Buckets == INSTANCE TokenBucket WITH tokens <- [a \in Address |-> Available(a)]

RefinesTokenBucket == Buckets!Spec
=============================================================================
