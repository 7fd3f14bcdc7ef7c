-------------------------- MODULE RateLimiterProofs --------------------------
(***************************************************************************)
(* Proofs about RateLimiter, for every burst, idle timeout, window and set *)
(* of addresses, and about FragmentedQuery, for every set of queries.      *)
(***************************************************************************)
EXTENDS FragmentedQuery, TLAPS

USE RateLimiterAssumption, NoneAssumption

(* What was spent in the window and what is left came from a burst and from *)
(* the refill during the window.                                            *)
Balance == \A a \in Address : spent[a] + Available(a) <= Burst + elapsed

IInv == TypeOK /\ Balance

(* A bucket never has a negative number of tokens, nor more than a burst. *)
LEMMA AvailableRange ==
  ASSUME TypeOK, NEW a \in Address
  PROVE  Available(a) \in 0..Burst
BY DEF TypeOK, Available, AtMost, Bucket

(* The refill of one unit of time, as Allow will find it. *)
LEMMA AvailableAfterTick ==
  ASSUME TypeOK, Tick, NEW a \in Address
  PROVE  Available(a)' = IF Available(a) < Burst THEN Available(a) + 1 ELSE Burst
<1>1. CASE buckets[a] = None
  <2>1. buckets'[a] = None
    BY <1>1 DEF Tick
  <2>2. QED
    BY <1>1, <2>1 DEF Available
<1>2. CASE buckets[a] # None
  <2>1. buckets[a] \in Bucket
    BY <1>2 DEF TypeOK
  <2>2. buckets'[a] = Older(buckets[a])
    BY <1>2 DEF Tick
  <2>3. Older(buckets[a]) \in Bucket
    BY <2>1 DEF Older, Bucket, AtMost
  <2>4. buckets'[a] # None
    BY <2>2, <2>3 DEF Bucket
  <2>5. QED
    BY <1>2, <2>1, <2>2, <2>4 DEF Available, AtMost, Older, Bucket
<1>3. QED
  BY <1>1, <1>2

(* A cleanup takes only buckets that are full again. *)
LEMMA AvailableAfterCleanup ==
  ASSUME TypeOK, Cleanup, NEW a \in Address
  PROVE  Available(a)' = Available(a)
<1>1. CASE Idle(a)
  <2>1. buckets'[a] = None
    BY <1>1 DEF Cleanup
  <2>2. buckets[a] \in Bucket /\ buckets[a].since > IdleTimeout
    BY <1>1 DEF Idle, TypeOK
  <2>3. QED
    BY <1>1, <2>1, <2>2 DEF Idle, Available, AtMost, Bucket
<1>2. CASE ~Idle(a)
  <2>1. buckets'[a] = buckets[a]
    BY <1>2 DEF Cleanup
  <2>2. QED
    BY <2>1 DEF Available
<1>3. QED
  BY <1>1, <1>2

(* Allow takes a token from the bucket it is asked about, if it has one, and *)
(* leaves the others alone.                                                  *)
LEMMA AvailableAfterAllow ==
  ASSUME TypeOK, NEW b \in Address, Allow(b), NEW a \in Address
  PROVE  Available(a)' = IF a = b /\ Available(b) >= 1 THEN Available(b) - 1
                         ELSE Available(a)
<1>1. CASE a = b
  <2> DEFINE left == IF Available(b) >= 1 THEN Available(b) - 1 ELSE Available(b)
  <2>1. left \in 0..Burst
    BY AvailableRange
  <2>2. buckets'[b] = [tokens |-> left, since |-> 0]
    BY DEF Allow, TypeOK
  <2>3. [tokens |-> left, since |-> 0] \in Bucket
    BY <2>1 DEF Bucket
  <2>4. buckets'[b] # None
    BY <2>2, <2>3 DEF Bucket
  <2>5. Available(b)' = left
    BY <2>1, <2>2, <2>4 DEF Available, AtMost
  <2>6. QED
    BY <1>1, <2>5
<1>2. CASE a # b
  <2>1. buckets'[a] = buckets[a]
    BY <1>2 DEF Allow, TypeOK
  <2>2. QED
    BY <1>2, <2>1 DEF Available
<1>3. QED
  BY <1>1, <1>2

LEMMA InitEstablishes == Init => IInv
BY DEF Init, IInv, TypeOK, Balance, Available, Bucket

LEMMA TypePreserved == TypeOK /\ [Next]_vars => TypeOK'
<1> SUFFICES ASSUME TypeOK, [Next]_vars PROVE TypeOK'
  OBVIOUS
<1>1. ASSUME NEW a \in Address, Allow(a) PROVE TypeOK'
  <2> DEFINE left == IF Available(a) >= 1 THEN Available(a) - 1 ELSE Available(a)
  <2>1. [tokens |-> left, since |-> 0] \in Bucket
    BY AvailableRange DEF Bucket
  <2>2. buckets' \in [Address -> Bucket \cup {None}]
    BY <1>1, <2>1 DEF Allow, TypeOK
  <2>3. spent' \in [Address -> Nat] /\ elapsed' = elapsed
    BY <1>1 DEF Allow, TypeOK
  <2>4. QED
    BY <2>2, <2>3 DEF TypeOK
<1>2. CASE Cleanup
  BY <1>2 DEF Cleanup, TypeOK
<1>3. CASE Tick
  <2>1. ASSUME NEW b \in Bucket PROVE Older(b) \in Bucket
    BY DEF Older, Bucket, AtMost
  <2>2. buckets' \in [Address -> Bucket \cup {None}]
    BY <1>3, <2>1 DEF Tick, TypeOK
  <2>3. QED
    BY <1>3, <2>2 DEF Tick, TypeOK
<1>4. CASE Watch
  BY <1>4 DEF Watch, TypeOK
<1>5. CASE UNCHANGED vars
  BY <1>5 DEF vars, TypeOK
<1>6. QED
  BY <1>1, <1>2, <1>3, <1>4, <1>5 DEF Next

LEMMA BalancePreserved == IInv /\ [Next]_vars => Balance'
<1> SUFFICES ASSUME TypeOK, Balance, [Next]_vars, NEW a \in Address
             PROVE  spent'[a] + Available(a)' <= Burst + elapsed'
  BY DEF IInv, Balance
<1>1. Available(a) \in 0..Burst /\ spent[a] \in Nat /\ elapsed \in Nat
  BY AvailableRange DEF TypeOK
<1>2. spent[a] + Available(a) <= Burst + elapsed
  BY DEF Balance
<1>3. ASSUME NEW b \in Address, Allow(b) PROVE spent'[a] + Available(a)' <= Burst + elapsed'
  <2>1. Available(a)' = IF a = b /\ Available(b) >= 1 THEN Available(b) - 1 ELSE Available(a)
    BY <1>3, AvailableAfterAllow
  <2>2. elapsed' = elapsed
    BY <1>3 DEF Allow
  <2>3. spent'[a] = IF a = b /\ Available(b) >= 1 THEN spent[a] + 1 ELSE spent[a]
    BY <1>3 DEF Allow, TypeOK
  <2>4. QED
    BY <1>1, <1>2, <2>1, <2>2, <2>3
<1>4. CASE Cleanup
  <2>1. Available(a)' = Available(a)
    BY <1>4, AvailableAfterCleanup
  <2>2. QED
    BY <1>2, <1>4, <2>1 DEF Cleanup
<1>5. CASE Tick
  <2>1. Available(a)' = IF Available(a) < Burst THEN Available(a) + 1 ELSE Burst
    BY <1>5, AvailableAfterTick
  <2>2. spent'[a] = spent[a] /\ elapsed' = elapsed + 1
    BY <1>5 DEF Tick
  <2>3. QED
    BY <1>1, <1>2, <2>1, <2>2
<1>6. CASE Watch
  <2>1. Available(a)' = Available(a)
    BY <1>6 DEF Watch, Available
  <2>2. spent'[a] = 0 /\ elapsed' = 0
    BY <1>6 DEF Watch
  <2>3. QED
    BY <1>1, <2>1, <2>2
<1>7. CASE UNCHANGED vars
  <2>1. Available(a)' = Available(a)
    BY <1>7 DEF vars, Available
  <2>2. QED
    BY <1>2, <1>7, <2>1 DEF vars
<1>8. QED
  BY <1>3, <1>4, <1>5, <1>6, <1>7 DEF Next

LEMMA Invariance == Spec => []IInv
<1>1. IInv /\ [Next]_vars => IInv'
  BY TypePreserved, BalancePreserved DEF IInv
<1>2. QED
  BY InitEstablishes, <1>1, PTL DEF Spec

(* The state of the limiter is always well typed: tokens never go negative. *)
THEOREM TypeCorrect == Spec => []TypeOK
BY Invariance, PTL DEF IInv

(* No window of any length lets more through than a burst and its refill. *)
THEOREM WindowBoundHolds == Spec => []WindowBound
<1>1. IInv => WindowBound
  <2> SUFFICES ASSUME TypeOK, Balance, NEW a \in Address PROVE spent[a] <= Burst + elapsed
    BY DEF IInv, WindowBound
  <2>1. Available(a) \in 0..Burst /\ spent[a] \in Nat /\ elapsed \in Nat
    BY AvailableRange DEF TypeOK
  <2>2. QED
    BY <2>1 DEF Balance
<1>2. QED
  BY Invariance, <1>1, PTL

(* The limiter implements token buckets that are never dropped. *)
THEOREM Refinement == Spec => RefinesTokenBucket
<1> DEFINE mapped == [a \in Address |-> Available(a)]
<1>1. Init => Buckets!Init
  <2> SUFFICES ASSUME Init PROVE mapped = [a \in Address |-> Burst]
    BY DEF Init, Buckets!Init
  <2>1. QED
    BY DEF Init, Available
<1>2. ASSUME TypeOK, [Next]_vars PROVE [Buckets!Next]_<<mapped, answer>>
  <2>1. ASSUME NEW a \in Address, Allow(a) PROVE Buckets!Proceed(a) \/ Buckets!Refuse(a)
    <3>1. \A b \in Address : Available(b)' = IF b = a /\ Available(a) >= 1 THEN Available(a) - 1
                                             ELSE Available(b)
      BY <1>2, <2>1, AvailableAfterAllow
    <3>2. Available(a) \in 0..Burst
      BY <1>2, AvailableRange
    <3>3. CASE Available(a) >= 1
      <4>1. mapped' = [mapped EXCEPT ![a] = @ - 1]
        BY <3>1, <3>3
      <4>2. answer' = <<a, "allowed">>
        BY <2>1, <3>3 DEF Allow
      <4>3. QED
        BY <3>3, <4>1, <4>2 DEF Buckets!Proceed
    <3>4. CASE ~(Available(a) >= 1)
      <4>1. mapped' = mapped
        BY <3>1, <3>4
      <4>2. answer' = <<a, "refused">>
        BY <2>1, <3>4 DEF Allow
      <4>3. Available(a) = 0
        BY <3>2, <3>4
      <4>4. QED
        BY <4>1, <4>2, <4>3 DEF Buckets!Refuse
    <3>5. QED
      BY <3>3, <3>4
  <2>2. CASE Cleanup
    <3>1. mapped' = mapped
      BY <1>2, <2>2, AvailableAfterCleanup
    <3>2. QED
      BY <2>2, <3>1 DEF Cleanup
  <2>3. CASE Tick
    <3>1. mapped' = [a \in Address |-> IF mapped[a] < Burst THEN mapped[a] + 1 ELSE Burst]
      BY <1>2, <2>3, AvailableAfterTick
    <3>2. Buckets!Refill
      BY <2>3, <3>1 DEF Tick, Buckets!Refill
    <3>3. QED
      BY <3>2 DEF Buckets!Next
  <2>4. CASE Watch
    <3>1. mapped' = mapped
      BY <2>4 DEF Watch, Available
    <3>2. QED
      BY <2>4, <3>1 DEF Watch
  <2>5. CASE UNCHANGED vars
    <3>1. mapped' = mapped
      BY <2>5 DEF vars, Available
    <3>2. QED
      BY <2>5, <3>1 DEF vars
  <2>6. QED
    BY <1>2, <2>1, <2>2, <2>3, <2>4, <2>5 DEF Next, Buckets!Next
<1>3. QED
  BY <1>1, <1>2, TypeCorrect, PTL DEF Spec, RefinesTokenBucket, Buckets!Spec
-----------------------------------------------------------------------------
(* Fragmented queries share the limiter with everybody else.                *)

USE FragmentedQueryAssumption

PC == {"idle", "send", "wait", "answered", "failed"}

FragmentTypes ==
  /\ pc \in [Query -> PC]
  /\ index \in [Query -> Nat \ {0}]
  /\ stored \in [Query -> SUBSET Nat]
  /\ calm \in [Query -> BOOLEAN]
  /\ spoiled \in SUBSET Query

(* What a query that nothing has disturbed has left: a token for every piece  *)
(* it has not sent, which no other query of its address is taking.            *)
Provided(q) ==
  /\ index[q] <= PiecesOf[q]
  /\ stored[q] = 1..(index[q] - 1)
  /\ Available(AddressOf[q]) + index[q] > PiecesOf[q]
  /\ \A r \in Neighbours(AddressOf[q]) \ {q} : ~Active(r)

Smoothly(q) == calm[q] => /\ pc[q] \notin {"wait", "failed"}
                          /\ pc[q] = "send" => Provided(q)

(* What the server holds of a query in the course of being sent: every piece  *)
(* that has gone out, or not all of them once the query is spoiled.           *)
Followed(q) ==
  /\ index[q] <= PiecesOf[q]
  /\ stored[q] \subseteq 1..(index[q] - 1)
  /\ q \in spoiled <=> \E p \in 1..(index[q] - 1) : p \notin stored[q]

Doomed(q) == /\ pc[q] = "send" => Followed(q)
             /\ pc[q] = "answered" => q \notin spoiled
             /\ pc[q] = "wait" => q \in spoiled

FragmentInv == FragmentTypes /\ (\A q \in Query : Doomed(q)) /\ \A q \in Query : Smoothly(q)

(* Whatever a query does is for the limiter a request, or nothing. *)
LEMMA LimiterStep == [FragmentedNext]_allVars => [Next]_vars
<1> SUFFICES ASSUME [FragmentedNext]_allVars PROVE [Next]_vars
  OBVIOUS
<1>1. ASSUME NEW q \in Query, Start(q) \/ Progress(q) \/ Purge(q) PROVE [Next]_vars
  <2>1. AddressOf[q] \in Address
    OBVIOUS
  <2>2. Allow(AddressOf[q]) => Next
    BY <2>1 DEF Next
  <2>3. QED
    BY <1>1, <2>2 DEF Start, Progress, Piece, Limited, Crowded, Lose, TimeOut, Purge, Accept
<1>2. ASSUME NEW a \in Address, Plain(a) PROVE [Next]_vars
  BY <1>2 DEF Plain, Next
<1>3. CASE (Cleanup \/ Tick \/ Watch) /\ UNCHANGED fragments
  BY <1>3 DEF Next
<1>4. CASE UNCHANGED allVars
  BY <1>4 DEF allVars, vars
<1>5. QED
  BY <1>1, <1>2, <1>3, <1>4 DEF FragmentedNext

LEMMA LimiterRuns == FragmentedSpec => Spec
<1>1. FragmentsInit => Init
  BY DEF FragmentsInit
<1>2. QED
  BY <1>1, LimiterStep, PTL DEF FragmentedSpec, Spec

LEMMA FragmentTypesPreserved == FragmentTypes /\ [FragmentedNext]_allVars => FragmentTypes'
<1> SUFFICES ASSUME FragmentTypes, [FragmentedNext]_allVars PROVE FragmentTypes'
  OBVIOUS
<1> USE DEF FragmentTypes, PC
<1>1. ASSUME NEW q \in Query, Start(q) PROVE FragmentTypes'
  <2>1. calm' \in [Query -> BOOLEAN]
    <3>1. ASSUME NEW r \in Query PROVE calm[r] \in BOOLEAN
      OBVIOUS
    <3>2. QED
      BY <1>1, <3>1 DEF Start
  <2>2. QED
    BY <1>1, <2>1 DEF Start
<1>2. ASSUME NEW q \in Query, Piece(q) PROVE FragmentTypes'
  BY <1>2 DEF Piece, Accept, Leave, GoOn
<1>3. ASSUME NEW q \in Query, Limited(q) \/ TimeOut(q) PROVE FragmentTypes'
  BY <1>3 DEF Limited, TimeOut, Refused, Leave, GoOn, vars
<1>4. ASSUME NEW Q \in SUBSET Query, Disturb(Q) PROVE calm' \in [Query -> BOOLEAN]
  BY <1>4 DEF Disturb
<1>5. ASSUME NEW q \in Query, Crowded(q) \/ Lose(q) \/ Purge(q) PROVE FragmentTypes'
  <2>1. calm' \in [Query -> BOOLEAN]
    BY <1>4, <1>5 DEF Crowded, Lose, Purge
  <2>2. QED
    BY <1>5, <2>1 DEF Crowded, Lose, Purge, Refused, Leave, GoOn, Accept
<1>6. ASSUME NEW a \in Address, Plain(a) PROVE FragmentTypes'
  BY <1>4, <1>6 DEF Plain, Neighbours
<1>7. CASE UNCHANGED fragments
  BY <1>7 DEF fragments
<1>8. CASE UNCHANGED allVars
  BY <1>7, <1>8 DEF allVars, fragments
<1>9. QED
  BY <1>1, <1>2, <1>3, <1>5, <1>6, <1>7, <1>8 DEF FragmentedNext, Progress

(* A piece that the server does not hold when its turn is over never gets     *)
(* there: the later ones cannot complete the set.                             *)
LEMMA DoomedPreserved ==
  ASSUME FragmentTypes, NEW q \in Query, Doomed(q), [FragmentedNext]_allVars
  PROVE  Doomed(q)'
<1> USE DEF FragmentTypes, PC
<1>0. PiecesOf[q] \in Nat \ {0, 1} /\ index[q] \in Nat \ {0} /\ pc[q] \in PC
  OBVIOUS
<1>1. CASE Start(q)
  <2>1. pc'[q] = "send" /\ index'[q] = 1 /\ stored'[q] = {} /\ q \notin spoiled'
    BY <1>1 DEF Start
  <2>2. QED
    BY <1>0, <2>1 DEF Doomed, Followed
<1>2. ASSUME NEW r \in Query \ {q}, Start(r) \/ Progress(r) \/ Purge(r) PROVE Doomed(q)'
  <2>1. pc'[q] = pc[q] /\ index'[q] = index[q] /\ stored'[q] = stored[q]
    BY <1>2 DEF Start, Progress, Piece, Limited, Crowded, Lose, TimeOut, Purge, Refused, Leave, GoOn, Accept
  <2>2. q \in spoiled' <=> q \in spoiled
    BY <1>2 DEF Start, Progress, Piece, Limited, Crowded, Lose, TimeOut, Purge, Refused
  <2>3. QED
    BY <2>1, <2>2 DEF Doomed, Followed
<1>3. CASE Piece(q)
  <2>1. Followed(q) /\ pc[q] = "send"
    BY <1>3 DEF Piece, Doomed
  <2>2. stored'[q] = stored[q] \cup {index[q]} /\ spoiled' = spoiled
    BY <1>3 DEF Piece, Accept
  <2>3. CASE Completes(q, stored'[q])
    <3>1. pc'[q] = "answered"
      BY <1>3, <2>3 DEF Piece, Leave
    <3>2. stored'[q] = 1..PiecesOf[q]
      BY <2>3 DEF Completes, Pieces
    <3>3. q \notin spoiled
      BY <1>0, <2>1, <2>2, <3>2 DEF Followed
    <3>4. QED
      BY <2>2, <3>1, <3>3 DEF Doomed
  <2>4. CASE ~Completes(q, stored'[q]) /\ Last(q)
    <3>1. pc'[q] = "wait"
      BY <1>3, <2>4 DEF Piece, Leave
    <3>2. q \in spoiled
      <4>1. SUFFICES ASSUME q \notin spoiled PROVE FALSE
        OBVIOUS
      <4>2. stored'[q] = 1..PiecesOf[q]
        BY <1>0, <2>1, <2>2, <2>4, <4>1 DEF Followed, Last
      <4>3. QED
        BY <2>4, <4>2 DEF Completes, Pieces
    <3>3. QED
      BY <2>2, <3>1, <3>2 DEF Doomed
  <2>5. CASE ~Completes(q, stored'[q]) /\ ~Last(q)
    <3>1. pc'[q] = "send" /\ index'[q] = index[q] + 1
      BY <1>3, <2>1, <2>5 DEF Piece, GoOn
    <3>2. Followed(q)'
      BY <1>0, <2>1, <2>2, <2>5, <3>1 DEF Followed, Last
    <3>3. QED
      BY <3>1, <3>2 DEF Doomed
  <2>6. QED
    BY <2>3, <2>4, <2>5
<1>4. CASE Limited(q) \/ Crowded(q)
  <2>1. Followed(q) /\ pc[q] = "send" /\ Refused(q) /\ stored' = stored
    BY <1>4 DEF Limited, Crowded, Doomed
  <2>2. CASE Last(q)
    BY <2>1, <2>2 DEF Refused, Leave, Doomed
  <2>3. CASE ~Last(q)
    <3>1. pc'[q] = "send" /\ index'[q] = index[q] + 1 /\ q \in spoiled'
      BY <2>1, <2>3 DEF Refused, GoOn
    <3>2. index[q] \in 1..(index'[q] - 1) /\ index[q] \notin stored'[q]
      BY <1>0, <2>1, <3>1 DEF Followed
    <3>3. Followed(q)'
      BY <1>0, <2>1, <2>3, <3>1, <3>2 DEF Followed, Last
    <3>4. QED
      BY <3>1, <3>3 DEF Doomed
  <2>4. QED
    BY <2>2, <2>3
<1>5. CASE Lose(q) \/ TimeOut(q)
  BY <1>5 DEF Lose, TimeOut, Leave, Doomed
<1>6. CASE Purge(q)
  <2>1. Followed(q) /\ pc'[q] = "send" /\ index'[q] = index[q] /\ stored[q] # {}
    BY <1>6 DEF Purge, Doomed
  <2>2. stored'[q] = {} /\ q \in spoiled'
    BY <1>6 DEF Purge
  <2>3. 1 \in 1..(index[q] - 1)
    BY <1>0, <2>1 DEF Followed
  <2>4. Followed(q)'
    BY <2>1, <2>2, <2>3 DEF Followed
  <2>5. QED
    BY <2>1, <2>4 DEF Doomed
<1>7. CASE \E b \in Address : Plain(b)
  BY <1>7 DEF Plain, Doomed, Followed
<1>8. CASE UNCHANGED fragments \/ UNCHANGED allVars
  BY <1>8 DEF fragments, allVars, Doomed, Followed
<1>9. QED
  BY <1>1, <1>2, <1>3, <1>4, <1>5, <1>6, <1>7, <1>8 DEF FragmentedNext, Progress

(* A request of the query itself is the only one that takes what it was      *)
(* provided with, and it needs no more afterwards.                           *)
LEMMA SmoothlyPreserved ==
  ASSUME TypeOK, FragmentInv, [FragmentedNext]_allVars, NEW q \in Query
  PROVE  Smoothly(q)'
<1> DEFINE a == AddressOf[q]
<1>0. a \in Address /\ PiecesOf[q] \in Nat \ {0, 1} /\ Available(a) \in 0..Burst
  BY AvailableRange
<1>1. Smoothly(q) /\ FragmentTypes
  BY DEF FragmentInv
<1> USE <1>1 DEF FragmentTypes, PC
<1>2. ASSUME NEW r \in Query, Start(r) PROVE Smoothly(q)'
  <2>1. Available(a)' = Available(a)
    BY <1>2 DEF Start, vars, Available
  <2>2. CASE r = q
    <3>1. SUFFICES ASSUME calm'[q] PROVE pc'[q] = "send" /\ Provided(q)'
      BY DEF Smoothly
    <3>2. pc' = [pc EXCEPT ![q] = "send"] /\ index'[q] = 1 /\ stored'[q] = {}
      BY <1>2, <2>2 DEF Start
    <3>3. Available(a) >= PiecesOf[q] /\ \A s \in Neighbours(a) \ {q} : ~Active(s)
      BY <1>2, <2>2, <3>1 DEF Start
    <3>4. \A s \in Neighbours(a) \ {q} : ~Active(s)'
      BY <3>2, <3>3 DEF Active, Neighbours
    <3>5. stored'[q] = 1..(index'[q] - 1)
      BY <3>2
    <3>6. QED
      BY <1>0, <2>1, <3>2, <3>3, <3>4, <3>5 DEF Provided, Neighbours
  <2>3. CASE r # q
    <3>1. pc'[q] = pc[q] /\ index'[q] = index[q] /\ stored'[q] = stored[q]
      BY <1>2, <2>3 DEF Start
    <3>2. SUFFICES ASSUME calm'[q] PROVE pc[q] \notin {"wait", "failed"} /\ (pc[q] = "send" => Provided(q)')
      BY <3>1 DEF Smoothly
    <3>3. calm[q] /\ q \notin {s \in Neighbours(AddressOf[r]) \ {r} : Active(s)}
      BY <1>2, <2>3, <3>2 DEF Start
    <3>4. SUFFICES ASSUME pc[q] = "send" PROVE Provided(q)'
      BY <3>3 DEF Smoothly
    <3>5. Provided(q)
      BY <3>3, <3>4 DEF Smoothly
    <3>6. AddressOf[r] # a
      BY <2>3, <3>3, <3>4 DEF Neighbours, Active
    <3>7. \A s \in Neighbours(a) \ {q} : pc'[s] = pc[s]
      BY <1>2, <3>6 DEF Start, Neighbours
    <3>8. QED
      BY <2>1, <3>1, <3>5, <3>7 DEF Provided, Active, Neighbours
  <2>4. QED
    BY <2>2, <2>3
<1>3. ASSUME NEW r \in Query, Progress(r) \/ Purge(r), r # q PROVE Smoothly(q)'
  <2>1. pc'[q] = pc[q] /\ index'[q] = index[q] /\ stored'[q] = stored[q]
    BY <1>3 DEF Progress, Piece, Limited, Crowded, Lose, TimeOut, Purge, Refused, Leave, GoOn, Accept
  <2>2. calm'[q] => calm[q]
    BY <1>3 DEF Progress, Piece, Limited, Crowded, Lose, TimeOut, Purge, Disturb
  <2>3. SUFFICES ASSUME calm[q], pc[q] = "send" PROVE Provided(q)'
    BY <2>1, <2>2 DEF Smoothly
  <2>4. Provided(q)
    BY <2>3 DEF Smoothly
  <2>5. Active(r)
    <3>1. pc[r] \in {"send", "wait"}
      BY <1>3 DEF Progress, Piece, Limited, Crowded, Lose, TimeOut, Purge
    <3>2. QED
      BY <3>1 DEF Active
  <2>6. AddressOf[r] # a /\ AddressOf[r] \in Address
    BY <1>3, <2>4, <2>5 DEF Provided, Neighbours
  <2>7. Available(a)' = Available(a)
    <3>1. Allow(AddressOf[r]) \/ UNCHANGED vars
      BY <1>3 DEF Progress, Piece, Limited, Crowded, Lose, TimeOut, Purge, Accept
    <3>2. CASE Allow(AddressOf[r])
      BY <1>0, <2>6, <3>2, AvailableAfterAllow
    <3>3. CASE UNCHANGED vars
      BY <3>3 DEF vars, Available
    <3>4. QED
      BY <3>1, <3>2, <3>3
  <2>8. \A s \in Neighbours(a) \ {q} : pc'[s] = pc[s]
    <3>1. \A s \in Query \ {r} : pc'[s] = pc[s]
      BY <1>3 DEF Progress, Piece, Limited, Crowded, Lose, TimeOut, Purge, Refused, Leave, GoOn
    <3>2. QED
      BY <2>6, <3>1 DEF Neighbours
  <2>9. QED
    BY <2>1, <2>4, <2>7, <2>8 DEF Provided, Active, Neighbours
<1>4. CASE Crowded(q) \/ Lose(q) \/ Purge(q)
  <2>1. ~calm'[q]
    BY <1>4 DEF Crowded, Lose, Purge, Disturb
  <2>2. QED
    BY <2>1 DEF Smoothly
<1>5. CASE TimeOut(q)
  <2>1. ~calm[q]
    BY <1>5 DEF TimeOut, Smoothly
  <2>2. QED
    BY <1>5, <2>1 DEF TimeOut, Smoothly
<1>6. CASE Limited(q)
  <2>1. ~(calm[q] /\ Provided(q))
    BY <1>0, <1>6 DEF Limited, Provided
  <2>2. ~calm'[q]
    BY <1>6, <2>1 DEF Limited, Smoothly
  <2>3. QED
    BY <2>2 DEF Smoothly
<1>7. CASE Piece(q)
  <2>1. SUFFICES ASSUME calm'[q]
                 PROVE  pc'[q] = "answered" \/ (pc'[q] = "send" /\ Provided(q)')
    BY DEF Smoothly
  <2>2. pc[q] = "send" /\ Provided(q)
    BY <1>7, <2>1 DEF Piece, Smoothly
  <2>3. stored'[q] = 1..index[q]
    <3>1. stored'[q] = 1..(index[q] - 1) \cup {index[q]}
      BY <1>7, <2>2 DEF Piece, Accept, Provided
    <3>2. index[q] \in Nat \ {0}
      OBVIOUS
    <3>3. QED
      BY <3>1, <3>2
  <2>4. CASE Completes(q, stored'[q])
    BY <1>7, <2>4 DEF Piece, Leave
  <2>5. CASE ~Completes(q, stored'[q])
    <3>1. index[q] # PiecesOf[q]
      BY <2>3, <2>5 DEF Completes, Pieces
    <3>2. pc' = pc /\ index'[q] = index[q] + 1
      BY <1>7, <2>5, <3>1 DEF Piece, Last, GoOn
    <3>3. Available(a)' = Available(a) - 1
      BY <1>0, <1>7, AvailableAfterAllow DEF Piece, Accept
    <3>4. index'[q] <= PiecesOf[q] /\ Available(a)' + index'[q] > PiecesOf[q]
      BY <1>0, <2>2, <3>1, <3>2, <3>3 DEF Provided
    <3>5. stored'[q] = 1..(index'[q] - 1)
      BY <2>3, <3>2
    <3>6. \A s \in Neighbours(a) \ {q} : ~Active(s)'
      BY <2>2, <3>2 DEF Provided, Active
    <3>7. QED
      BY <2>2, <3>2, <3>4, <3>5, <3>6 DEF Provided, Neighbours
  <2>6. QED
    BY <2>4, <2>5
<1>8. ASSUME NEW b \in Address, Plain(b) PROVE Smoothly(q)'
  <2>1. pc'[q] = pc[q] /\ index'[q] = index[q] /\ stored'[q] = stored[q] /\ pc' = pc
    BY <1>8 DEF Plain
  <2>2. calm'[q] => calm[q] /\ b # a
    BY <1>8 DEF Plain, Disturb, Neighbours
  <2>3. SUFFICES ASSUME calm[q], b # a, pc[q] = "send" PROVE Provided(q)'
    BY <2>1, <2>2 DEF Smoothly
  <2>4. Available(a)' = Available(a)
    BY <1>0, <1>8, <2>3, AvailableAfterAllow DEF Plain
  <2>5. QED
    BY <2>1, <2>3, <2>4 DEF Smoothly, Provided, Active, Neighbours
<1>9. CASE (Cleanup \/ Tick \/ Watch \/ UNCHANGED vars) /\ UNCHANGED fragments
  <2>1. pc' = pc /\ index' = index /\ stored' = stored /\ calm' = calm
    BY <1>9 DEF fragments
  <2>2. Available(a)' \in Int /\ Available(a)' >= Available(a)
    <3>1. CASE Cleanup
      BY <1>0, <3>1, AvailableAfterCleanup
    <3>2. CASE Tick
      <4>1. Available(a)' = IF Available(a) < Burst THEN Available(a) + 1 ELSE Burst
        BY <1>0, <3>2, AvailableAfterTick
      <4>2. QED
        BY <1>0, <4>1
    <3>3. CASE Watch \/ UNCHANGED vars
      <4>1. Available(a)' = Available(a)
        BY <3>3 DEF Watch, vars, Available
      <4>2. QED
        BY <1>0, <4>1
    <3>4. QED
      BY <1>9, <3>1, <3>2, <3>3
  <2>3. SUFFICES ASSUME calm[q], pc[q] = "send" PROVE Provided(q)'
    BY <2>1 DEF Smoothly
  <2>4. Provided(q)
    BY <2>3 DEF Smoothly
  <2>5. Available(a)' + index'[q] > PiecesOf[q]
    BY <1>0, <2>1, <2>2, <2>4 DEF Provided
  <2>6. QED
    BY <2>1, <2>4, <2>5 DEF Provided, Active, Neighbours
<1>10. CASE UNCHANGED allVars
  BY <1>9, <1>10 DEF allVars, fragments
<1>11. QED
  BY <1>2, <1>3, <1>4, <1>5, <1>6, <1>7, <1>8, <1>9, <1>10 DEF FragmentedNext, Progress

LEMMA FragmentInvariance == FragmentedSpec => []FragmentInv
<1>1. FragmentsInit => FragmentInv
  <2> SUFFICES ASSUME FragmentsInit PROVE FragmentInv
    OBVIOUS
  <2>1. FragmentTypes
    BY DEF FragmentsInit, FragmentTypes, PC
  <2>2. ASSUME NEW q \in Query PROVE Doomed(q)
    BY DEF FragmentsInit, Doomed
  <2>3. ASSUME NEW q \in Query PROVE Smoothly(q)
    BY DEF FragmentsInit, Smoothly
  <2>4. QED
    BY <2>1, <2>2, <2>3 DEF FragmentInv
<1>2. TypeOK /\ FragmentInv /\ [FragmentedNext]_allVars => FragmentInv'
  BY FragmentTypesPreserved, DoomedPreserved, SmoothlyPreserved DEF FragmentInv
<1>3. FragmentedSpec => []TypeOK
  BY LimiterRuns, TypeCorrect
<1>4. QED
  BY <1>1, <1>2, <1>3, PTL DEF FragmentedSpec

(* No window lets more through to an address whose queries are fragmented. *)
COROLLARY FragmentedWindowBound == FragmentedSpec => []WindowBound
BY LimiterRuns, WindowBoundHolds

(* The limiter that fragmented queries meet implements token buckets too. *)
COROLLARY FragmentedRefinement == FragmentedSpec => RefinesTokenBucket
BY LimiterRuns, Refinement

(* A query that has lost a piece without its client noticing is never answered, *)
(* and no other waits for an answer that does not come.                         *)
THEOREM RefusalDoomsHolds == FragmentedSpec => []RefusalDooms
<1>1. FragmentInv => RefusalDooms
  BY DEF FragmentInv, Doomed, RefusalDooms
<1>2. QED
  BY FragmentInvariance, <1>1, PTL

(* A query that starts with a token for each of its pieces, and is disturbed *)
(* by no other request of its address, by no loss and by no purge, neither   *)
(* fails nor waits in vain.                                                  *)
THEOREM QuotaEnoughHolds == FragmentedSpec => []QuotaEnough
<1>1. FragmentInv => QuotaEnough
  BY DEF FragmentInv, Smoothly, QuotaEnough
<1>2. QED
  BY FragmentInvariance, <1>1, PTL

=============================================================================
