--------------------------- MODULE ResolverProofs ---------------------------
(***************************************************************************)
(* Proofs about Resolver, for any requests and names, any limits of the    *)
(* statistics and any number of windows taken while requests are counted.  *)
(***************************************************************************)
EXTENDS Resolver, FiniteSetTheorems, TLAPS

USE ResolverAssumption

(* What has the variables in their sets, short of the bounds on the counters. *)
Typed ==
  /\ window \in [total : Nat, hits : Nat, misses : Nat]
  /\ taken \in [total : Nat, hits : Nat, misses : Nat]
  /\ all \in [Name -> Nat] /\ recent \in [Name -> Nat]
  /\ report \in BOOLEAN
  /\ cached \in [Name -> Answers]
  /\ started \in 0..MaxRequests
  /\ pc \in [Request -> PC]
  /\ name \in [Request -> Name \cup {None}]
  /\ answer \in [Request -> Answers]
  /\ asked \in [Request -> 0..2]

(* A name has been counted for requests that have come to their domain. *)
ToCount(p) == {r \in Request : p[r] = "domain"}

DomainsCounted ==
  \A n \in Name : /\ all[n] + Cardinality(ToCount(pc)) <= started
                  /\ recent[n] + Cardinality(ToCount(pc)) <= started

(* What a request knows where it is. *)
Genuine(r) ==
  /\ pc[r] \in {"domain", "lookup", "hit", "records", "upstream", "store"} => name[r] \in Name
  /\ pc[r] \in {"none", "domain", "lookup", "records"} => asked[r] = 0
  /\ pc[r] = "upstream" => name[r] \notin Owned /\ asked[r] \in {0, 1}
  /\ pc[r] = "store" => answer[r] = IF name[r] \in Owned THEN "record" ELSE "answer"
  /\ pc[r] \in {"none", "domain", "lookup", "miss", "records", "upstream"} => answer[r] = None
  /\ name[r] \in Owned \cup {None} => asked[r] = 0
  /\ pc[r] = "miss" => asked[r] = 0
  /\ answer[r] = "truncated" => asked[r] = 2

CacheGenuine ==
  \A n \in Name : cached[n] \in IF n \in Owned THEN {None, "record"} ELSE {None, "answer"}

Honest == CacheGenuine /\ \A r \in Request : Genuine(r)

IInv == Typed /\ EachCountedOnce /\ DomainsCounted /\ Honest /\ AllTimeBounded

(* The steps of a request after its first. *)
Serve(r) ==
  \/ CountDomain(r) \/ Lookup(r) \/ CountHit(r) \/ CountMiss(r) \/ Records(r)
  \/ Upstream(r) \/ Store(r) \/ Return(r)

(* Moving one request changes the size of a set of requests by one at most. *)
LEMMA SetOfRequests ==
  ASSUME NEW p, p \in [Request -> PC], NEW r \in Request, NEW label \in PC, NEW L
  PROVE  LET q == [p EXCEPT ![r] = label]
             before == {x \in Request : p[x] \in L}
             after == {x \in Request : q[x] \in L}
         IN  /\ Cardinality(before) \in Nat
             /\ (p[r] \in L <=> label \in L) => Cardinality(after) = Cardinality(before)
             /\ p[r] \notin L /\ label \in L => Cardinality(after) = Cardinality(before) + 1
             /\ p[r] \in L /\ label \notin L =>
                  Cardinality(after) = Cardinality(before) - 1 /\ Cardinality(before) >= 1
<1> DEFINE q == [p EXCEPT ![r] = label]
           before == {x \in Request : p[x] \in L}
           after == {x \in Request : q[x] \in L}
<1>1. IsFiniteSet(before) /\ Cardinality(before) \in Nat
  <2>1. before \subseteq Request
    OBVIOUS
  <2>2. QED
    BY <2>1, FS_Subset, FS_CardinalityType
<1>2. r \in before <=> p[r] \in L
  OBVIOUS
<1>3. label \in L => after = before \cup {r}
  OBVIOUS
<1>4. label \notin L => after = before \ {r}
  OBVIOUS
<1> HIDE DEF before, after
<1>5. Cardinality(before \cup {r}) = IF r \in before THEN Cardinality(before) ELSE Cardinality(before) + 1
  BY <1>1, FS_AddElement
<1>6. Cardinality(before \ {r}) = IF r \in before THEN Cardinality(before) - 1 ELSE Cardinality(before)
  BY <1>1, FS_RemoveElement
<1>7. r \in before => Cardinality(before) # 0
  BY <1>1, FS_EmptySet
<1>8. /\ (p[r] \in L <=> label \in L) => Cardinality(after) = Cardinality(before)
      /\ p[r] \notin L /\ label \in L => Cardinality(after) = Cardinality(before) + 1
      /\ p[r] \in L /\ label \notin L =>
           Cardinality(after) = Cardinality(before) - 1 /\ Cardinality(before) >= 1
  <2>1. CASE label \in L
    BY <1>1, <1>2, <1>3, <1>5, <1>7, <2>1
  <2>2. CASE label \notin L
    <3>1. Cardinality(after) = Cardinality(before \ {r})
      BY <1>4, <2>2
    <3>2. CASE p[r] \in L
      BY <1>1, <1>2, <1>6, <1>7, <2>2, <3>1, <3>2
    <3>3. CASE p[r] \notin L
      BY <1>2, <1>6, <2>2, <3>1, <3>3
    <3>4. QED
      BY <3>2, <3>3
  <2>3. QED
    BY <2>1, <2>2
<1>9. QED
  BY <1>1, <1>8 DEF before, after

(* Pruning takes names off and adds nothing, and leaves no more than fit. *)
LEMMA PruningBounds ==
  ASSUME NEW counts \in [Name -> Nat], NEW kept \in Pruned(counts)
  PROVE  /\ kept \in [Name -> Nat]
         /\ \A n \in Name : kept[n] <= counts[n]
         /\ Cardinality(Known(kept)) <= MaxTracked
<1>1. CASE Cardinality(Known(counts)) <= MaxTracked
  BY <1>1 DEF Pruned
<1>2. CASE ~(Cardinality(Known(counts)) <= MaxTracked)
  <2>1. PICK s \in Top(counts, KeepTop) : kept = [n \in Name |-> IF n \in s THEN counts[n] ELSE 0]
    BY <1>2 DEF Pruned
  <2>2. IsFiniteSet(Known(counts)) /\ Cardinality(Known(counts)) \in Nat
    <3>1. Known(counts) \subseteq Name
      BY DEF Known
    <3>2. QED
      BY <3>1, FS_Subset, FS_CardinalityType
  <2>3. s \subseteq Known(counts) /\ Cardinality(s) = KeepTop
    BY <1>2, <2>2 DEF Top
  <2>4. Known(kept) \subseteq s
    BY <2>1 DEF Known
  <2>5. Cardinality(Known(kept)) <= Cardinality(s) /\ Cardinality(Known(kept)) \in Nat
    <3>1. IsFiniteSet(s)
      BY <2>2, <2>3, FS_Subset
    <3>2. QED
      BY <2>4, <3>1, FS_Subset, FS_CardinalityType
  <2>6. QED
    BY <2>1, <2>3, <2>5
<1>3. QED
  BY <1>1, <1>2

(* Every step of a request keeps the types. *)
LEMMA TypesKept ==
  ASSUME IInv, NEW r \in Request, NEW n \in Name \cup {None},
         Begin(r, n) \/ Serve(r)
  PROVE  Typed'
<1>1. CASE Begin(r, n)
  BY <1>1 DEF Begin, Goto, IInv, Typed, Honest, Genuine, PC, Answers, stats
<1>2. CASE CountDomain(r)
  <2>1. name[r] \in Name
    BY <1>2 DEF CountDomain, IInv, Honest, Genuine
  <2>2. [all EXCEPT ![name[r]] = @ + 1] \in [Name -> Nat] /\ recent' \in [Name -> Nat]
    BY <1>2, <2>1 DEF CountDomain, IInv, Typed
  <2>3. all' \in [Name -> Nat]
    BY <1>2, <2>2, PruningBounds DEF CountDomain
  <2>4. QED
    BY <1>2, <2>2, <2>3 DEF CountDomain, Goto, IInv, Typed, PC
<1>3. CASE Lookup(r)
  BY <1>3 DEF Lookup, Goto, Answer, IInv, Typed, Honest, Genuine, PC, Answers, stats
<1>4. CASE CountHit(r)
  BY <1>4 DEF CountHit, Goto, IInv, Typed, Honest, Genuine, PC, Answers, stats
<1>5. CASE CountMiss(r)
  BY <1>5 DEF CountMiss, Goto, Answer, IInv, Typed, Honest, Genuine, PC, Answers, stats
<1>6. CASE Records(r)
  BY <1>6 DEF Records, Goto, Answer, IInv, Typed, Honest, Genuine, PC, Answers, stats
<1>7. CASE Upstream(r)
  BY <1>7 DEF Upstream, Goto, Answer, IInv, Typed, Honest, Genuine, PC, Answers, stats
<1>8. CASE Store(r)
  BY <1>8 DEF Store, Goto, IInv, Typed, Honest, Genuine, PC, Answers, stats
<1>9. CASE Return(r)
  BY <1>9 DEF Return, Goto, Answer, IInv, Typed, Honest, Genuine, PC, Answers, stats
<1>10. QED
  BY <1>1, <1>2, <1>3, <1>4, <1>5, <1>6, <1>7, <1>8, <1>9 DEF Serve

(* No step of a request makes an answer out of something else. *)
LEMMA HonestyKept ==
  ASSUME IInv, NEW r \in Request, NEW n \in Name \cup {None},
         Begin(r, n) \/ Serve(r)
  PROVE  Honest'
<1>1. CASE Begin(r, n)
  BY <1>1 DEF Begin, Goto, IInv, Typed, Honest, Genuine, CacheGenuine, PC, Answers
<1>2. CASE CountDomain(r)
  BY <1>2 DEF CountDomain, Goto, IInv, Typed, Honest, Genuine, CacheGenuine, PC, Answers
<1>3. CASE Lookup(r)
  BY <1>3 DEF Lookup, Goto, Answer, IInv, Typed, Honest, Genuine, CacheGenuine, PC, Answers
<1>4. CASE CountHit(r)
  BY <1>4 DEF CountHit, Goto, IInv, Typed, Honest, Genuine, CacheGenuine, PC, Answers
<1>5. CASE CountMiss(r)
  BY <1>5 DEF CountMiss, Goto, Answer, IInv, Typed, Honest, Genuine, CacheGenuine, PC, Answers
<1>6. CASE Records(r)
  BY <1>6 DEF Records, Goto, Answer, IInv, Typed, Honest, Genuine, CacheGenuine, PC, Answers
<1>7. CASE Upstream(r)
  BY <1>7 DEF Upstream, Goto, Answer, IInv, Typed, Honest, Genuine, CacheGenuine, PC, Answers
<1>8. CASE Store(r)
  BY <1>8 DEF Store, Goto, IInv, Typed, Honest, Genuine, CacheGenuine, PC, Answers
<1>9. CASE Return(r)
  BY <1>9 DEF Return, Goto, Answer, IInv, Typed, Honest, Genuine, CacheGenuine, PC, Answers
<1>10. QED
  BY <1>1, <1>2, <1>3, <1>4, <1>5, <1>6, <1>7, <1>8, <1>9 DEF Serve

(* Where a request is in the total, and in no other counter yet. *)
Weight(label) == IF label \in {"domain", "lookup", "hit", "miss"} THEN 1 ELSE 0

LEMMA Balance ==
  ASSUME NEW th \in Nat, NEW tm \in Nat, NEW wh \in Nat, NEW wm \in Nat, NEW wh2 \in Nat,
         NEW wm2 \in Nat, NEW s \in Nat, NEW s2 \in Nat, NEW b \in Nat, NEW a \in Int,
         NEW v \in Nat, NEW v2 \in Nat,
         th + wh + tm + wm + b = s, wh2 + wm2 + v2 - s2 = wh + wm + v - s, a + v = b + v2
  PROVE  th + wh2 + tm + wm2 + a = s2
OBVIOUS

(* The sum of the counters, and the requests that are still to be one of them. *)
LEMMA CountKept ==
  ASSUME IInv, Typed', NEW r \in Request, NEW label \in PC, Goto(r, label),
         taken' = taken,
         window'.total - started' = window.total - started,
         window'.hits + window'.misses + Weight(label) - started'
           = window.hits + window.misses + Weight(pc[r]) - started
  PROVE  EachCountedOnce'
<1> DEFINE open == {"domain", "lookup", "hit", "miss"}
           before == Cardinality(Undecided)
           after == Cardinality(Undecided')
<1>1. /\ before \in Nat
      /\ (pc[r] \in open <=> label \in open) => after = before
      /\ pc[r] \notin open /\ label \in open => after = before + 1
      /\ pc[r] \in open /\ label \notin open => after = before - 1
  <2> DEFINE of(p) == {x \in Request : p[x] \in open}
  <2>1. Undecided = of(pc) /\ Undecided' = of(pc')
    BY DEF Undecided
  <2>2. pc \in [Request -> PC]
    BY DEF IInv, Typed
  <2>3. /\ Cardinality(of(pc)) \in Nat
        /\ (pc[r] \in open <=> label \in open) => Cardinality(of(pc')) = Cardinality(of(pc))
        /\ pc[r] \notin open /\ label \in open => Cardinality(of(pc')) = Cardinality(of(pc)) + 1
        /\ pc[r] \in open /\ label \notin open =>
             Cardinality(of(pc')) = Cardinality(of(pc)) - 1 /\ Cardinality(of(pc)) >= 1
    <3> HIDE DEF open
    <3>1. pc' = [pc EXCEPT ![r] = label]
      BY DEF Goto
    <3>2. QED
      BY <2>2, <3>1, SetOfRequests
  <2> HIDE DEF of
  <2>4. QED
    BY <2>1, <2>3
<1>2. /\ taken.total + window.total = started
      /\ taken.hits + window.hits + taken.misses + window.misses + before = started
  BY DEF IInv, EachCountedOnce, Sum, Typed
<1> HIDE DEF before, after
<1>3. /\ taken.total \in Nat /\ taken.hits \in Nat /\ taken.misses \in Nat
      /\ window.total \in Nat /\ window.hits \in Nat /\ window.misses \in Nat
      /\ window'.total \in Nat /\ window'.hits \in Nat /\ window'.misses \in Nat
      /\ started \in Nat /\ started' \in Nat
  BY DEF IInv, Typed
<1>4. after \in Int /\ after + Weight(pc[r]) = before + Weight(label)
  <2>1. CASE pc[r] \in open
    BY <1>1, <2>1 DEF Weight
  <2>2. CASE pc[r] \notin open
    BY <1>1, <2>2 DEF Weight
  <2>3. QED
    BY <2>1, <2>2
<1>5. Weight(pc[r]) \in Nat /\ Weight(label) \in Nat
  BY DEF Weight
<1>6. /\ taken.total + window'.total = started'
      /\ taken.hits + window'.hits + taken.misses + window'.misses + after = started'
  <2> DEFINE tt == taken.total  wt == window.total  wt2 == window'.total
             th == taken.hits  tm == taken.misses  wh == window.hits  wm == window.misses
             wh2 == window'.hits  wm2 == window'.misses  s == started  s2 == started'
             v == Weight(pc[r])  v2 == Weight(label)
  <2>1. /\ th \in Nat /\ tm \in Nat /\ wh \in Nat /\ wm \in Nat /\ wh2 \in Nat /\ wm2 \in Nat
        /\ s \in Nat /\ s2 \in Nat /\ v \in Nat /\ v2 \in Nat
    BY <1>3, <1>5
  <2>2. tt + wt = s /\ tt \in Nat /\ wt \in Nat /\ wt2 \in Nat
    BY <1>2, <1>3
  <2>3. wt2 - s2 = wt - s
    OBVIOUS
  <2>4. th + wh + tm + wm + before = s /\ after + v = before + v2
    BY <1>2, <1>4
  <2>5. wh2 + wm2 + v2 - s2 = wh + wm + v - s
    OBVIOUS
  <2> HIDE DEF tt, wt, wt2, th, tm, wh, wm, wh2, wm2, s, s2, v, v2
  <2>6. th + wh2 + tm + wm2 + after = s2
    BY <1>1, <1>4, <2>1, <2>4, <2>5, Balance
  <2>7. tt + wt2 = s2
    BY <2>2, <2>1, <2>3
  <2>8. QED
    BY <2>6, <2>7 DEF tt, wt2, th, tm, wh2, wm2, s2
<1>7. /\ taken.total + window'.total = started'
      /\ (taken.hits + window'.hits) + (taken.misses + window'.misses) + after = started'
  BY <1>3, <1>4, <1>6
<1>8. QED
  BY <1>7 DEF EachCountedOnce, Sum, after

(* Every step of a request keeps the counters in step with the requests. *)
LEMMA CountingKept ==
  ASSUME IInv, NEW r \in Request, NEW n \in Name \cup {None},
         Begin(r, n) \/ Serve(r), Typed'
  PROVE  EachCountedOnce'
<1>1. CASE Begin(r, n)
  <2>1. pc[r] = "none" /\ taken' = taken /\ window'.total = window.total + 1 /\ window'.hits = window.hits /\ window'.misses = window.misses /\ started' = started + 1
    BY <1>1 DEF Begin, stats, IInv, Typed
  <2>2. PICK label \in {"miss", "domain"} : pc' = [pc EXCEPT ![r] = label]
    BY <1>1 DEF Begin, Goto
  <2>3. label \in PC /\ Weight(label) = 1 /\ Weight(pc[r]) = 0
    BY <2>1, <2>2 DEF PC, Weight
  <2>4. /\ window'.total - started' = window.total - started
        /\ window'.hits + window'.misses + Weight(label) - started'
             = window.hits + window.misses + Weight(pc[r]) - started
    <3>1. /\ window.total \in Nat /\ window.hits \in Nat /\ window.misses \in Nat /\ started \in Nat
      BY DEF IInv, Typed
    <3>2. window'.total - started' = window.total - started
      BY <2>1, <3>1
    <3>3. window'.hits + window'.misses + 1 - started' = window.hits + window.misses + 0 - started
      BY <2>1, <3>1
    <3>4. QED
      BY <2>3, <3>2, <3>3
  <2>5. QED
    BY <2>1, <2>2, <2>3, <2>4, CountKept DEF Goto
<1>2. CASE CountDomain(r)
  <2>1. pc[r] = "domain" /\ taken' = taken /\ window' = window /\ started' = started
    BY <1>2 DEF CountDomain, stats, IInv, Typed
  <2>2. PICK label \in {"lookup"} : pc' = [pc EXCEPT ![r] = label]
    BY <1>2 DEF CountDomain, Goto
  <2>3. label \in PC /\ Weight(label) = 1 /\ Weight(pc[r]) = 1
    BY <2>1, <2>2 DEF PC, Weight
  <2>4. /\ window'.total - started' = window.total - started
        /\ window'.hits + window'.misses + Weight(label) - started'
             = window.hits + window.misses + Weight(pc[r]) - started
    <3>1. /\ window.total \in Nat /\ window.hits \in Nat /\ window.misses \in Nat /\ started \in Nat
      BY DEF IInv, Typed
    <3>2. window'.total - started' = window.total - started
      BY <2>1, <3>1
    <3>3. window'.hits + window'.misses + 1 - started' = window.hits + window.misses + 1 - started
      BY <2>1, <3>1
    <3>4. QED
      BY <2>3, <3>2, <3>3
  <2>5. QED
    BY <2>1, <2>2, <2>3, <2>4, CountKept DEF Goto
<1>3. CASE Lookup(r)
  <2>1. pc[r] = "lookup" /\ taken' = taken /\ window' = window /\ started' = started
    BY <1>3 DEF Lookup, stats, IInv, Typed
  <2>2. PICK label \in {"miss", "hit"} : pc' = [pc EXCEPT ![r] = label]
    BY <1>3 DEF Lookup, Goto
  <2>3. label \in PC /\ Weight(label) = 1 /\ Weight(pc[r]) = 1
    BY <2>1, <2>2 DEF PC, Weight
  <2>4. /\ window'.total - started' = window.total - started
        /\ window'.hits + window'.misses + Weight(label) - started'
             = window.hits + window.misses + Weight(pc[r]) - started
    <3>1. /\ window.total \in Nat /\ window.hits \in Nat /\ window.misses \in Nat /\ started \in Nat
      BY DEF IInv, Typed
    <3>2. window'.total - started' = window.total - started
      BY <2>1, <3>1
    <3>3. window'.hits + window'.misses + 1 - started' = window.hits + window.misses + 1 - started
      BY <2>1, <3>1
    <3>4. QED
      BY <2>3, <3>2, <3>3
  <2>5. QED
    BY <2>1, <2>2, <2>3, <2>4, CountKept DEF Goto
<1>4. CASE CountHit(r)
  <2>1. pc[r] = "hit" /\ taken' = taken /\ window'.total = window.total /\ window'.hits = window.hits + 1 /\ window'.misses = window.misses /\ started' = started
    BY <1>4 DEF CountHit, stats, IInv, Typed
  <2>2. PICK label \in {"return"} : pc' = [pc EXCEPT ![r] = label]
    BY <1>4 DEF CountHit, Goto
  <2>3. label \in PC /\ Weight(label) = 0 /\ Weight(pc[r]) = 1
    BY <2>1, <2>2 DEF PC, Weight
  <2>4. /\ window'.total - started' = window.total - started
        /\ window'.hits + window'.misses + Weight(label) - started'
             = window.hits + window.misses + Weight(pc[r]) - started
    <3>1. /\ window.total \in Nat /\ window.hits \in Nat /\ window.misses \in Nat /\ started \in Nat
      BY DEF IInv, Typed
    <3>2. window'.total - started' = window.total - started
      BY <2>1, <3>1
    <3>3. window'.hits + window'.misses + 0 - started' = window.hits + window.misses + 1 - started
      BY <2>1, <3>1
    <3>4. QED
      BY <2>3, <3>2, <3>3
  <2>5. QED
    BY <2>1, <2>2, <2>3, <2>4, CountKept DEF Goto
<1>5. CASE CountMiss(r)
  <2>1. pc[r] = "miss" /\ taken' = taken /\ window'.total = window.total /\ window'.hits = window.hits /\ window'.misses = window.misses + 1 /\ started' = started
    BY <1>5 DEF CountMiss, stats, IInv, Typed
  <2>2. PICK label \in {"return", "records"} : pc' = [pc EXCEPT ![r] = label]
    BY <1>5 DEF CountMiss, Goto
  <2>3. label \in PC /\ Weight(label) = 0 /\ Weight(pc[r]) = 1
    BY <2>1, <2>2 DEF PC, Weight
  <2>4. /\ window'.total - started' = window.total - started
        /\ window'.hits + window'.misses + Weight(label) - started'
             = window.hits + window.misses + Weight(pc[r]) - started
    <3>1. /\ window.total \in Nat /\ window.hits \in Nat /\ window.misses \in Nat /\ started \in Nat
      BY DEF IInv, Typed
    <3>2. window'.total - started' = window.total - started
      BY <2>1, <3>1
    <3>3. window'.hits + window'.misses + 0 - started' = window.hits + window.misses + 1 - started
      BY <2>1, <3>1
    <3>4. QED
      BY <2>3, <3>2, <3>3
  <2>5. QED
    BY <2>1, <2>2, <2>3, <2>4, CountKept DEF Goto
<1>6. CASE Records(r)
  <2>1. pc[r] = "records" /\ taken' = taken /\ window' = window /\ started' = started
    BY <1>6 DEF Records, stats, IInv, Typed
  <2>2. PICK label \in {"store", "upstream"} : pc' = [pc EXCEPT ![r] = label]
    BY <1>6 DEF Records, Goto
  <2>3. label \in PC /\ Weight(label) = 0 /\ Weight(pc[r]) = 0
    BY <2>1, <2>2 DEF PC, Weight
  <2>4. /\ window'.total - started' = window.total - started
        /\ window'.hits + window'.misses + Weight(label) - started'
             = window.hits + window.misses + Weight(pc[r]) - started
    <3>1. /\ window.total \in Nat /\ window.hits \in Nat /\ window.misses \in Nat /\ started \in Nat
      BY DEF IInv, Typed
    <3>2. window'.total - started' = window.total - started
      BY <2>1, <3>1
    <3>3. window'.hits + window'.misses + 0 - started' = window.hits + window.misses + 0 - started
      BY <2>1, <3>1
    <3>4. QED
      BY <2>3, <3>2, <3>3
  <2>5. QED
    BY <2>1, <2>2, <2>3, <2>4, CountKept DEF Goto
<1>7. CASE Upstream(r)
  <2>1. pc[r] = "upstream" /\ window' = window /\ taken' = taken /\ started' = started
    BY <1>7 DEF Upstream, stats
  <2>2. PICK label \in {"return", "store", "upstream"} : pc' = [pc EXCEPT ![r] = label]
    <3>1. pc = [pc EXCEPT ![r] = "upstream"]
      BY <2>1 DEF IInv, Typed
    <3>2. QED
      BY <1>7, <3>1 DEF Upstream, Goto
  <2>3. label \in PC /\ Weight(label) = 0 /\ Weight(pc[r]) = 0
    BY <2>1, <2>2 DEF PC, Weight
  <2>4. QED
    BY <2>1, <2>2, <2>3, CountKept DEF Goto
<1>8. CASE Store(r)
  <2>1. pc[r] = "store" /\ taken' = taken /\ window' = window /\ started' = started
    BY <1>8 DEF Store, stats, IInv, Typed
  <2>2. PICK label \in {"return"} : pc' = [pc EXCEPT ![r] = label]
    BY <1>8 DEF Store, Goto
  <2>3. label \in PC /\ Weight(label) = 0 /\ Weight(pc[r]) = 0
    BY <2>1, <2>2 DEF PC, Weight
  <2>4. /\ window'.total - started' = window.total - started
        /\ window'.hits + window'.misses + Weight(label) - started'
             = window.hits + window.misses + Weight(pc[r]) - started
    <3>1. /\ window.total \in Nat /\ window.hits \in Nat /\ window.misses \in Nat /\ started \in Nat
      BY DEF IInv, Typed
    <3>2. window'.total - started' = window.total - started
      BY <2>1, <3>1
    <3>3. window'.hits + window'.misses + 0 - started' = window.hits + window.misses + 0 - started
      BY <2>1, <3>1
    <3>4. QED
      BY <2>3, <3>2, <3>3
  <2>5. QED
    BY <2>1, <2>2, <2>3, <2>4, CountKept DEF Goto
<1>9. CASE Return(r)
  <2>1. pc[r] = "return" /\ taken' = taken /\ window' = window /\ started' = started
    BY <1>9 DEF Return, stats, IInv, Typed
  <2>2. PICK label \in {"none"} : pc' = [pc EXCEPT ![r] = label]
    BY <1>9 DEF Return, Goto
  <2>3. label \in PC /\ Weight(label) = 0 /\ Weight(pc[r]) = 0
    BY <2>1, <2>2 DEF PC, Weight
  <2>4. /\ window'.total - started' = window.total - started
        /\ window'.hits + window'.misses + Weight(label) - started'
             = window.hits + window.misses + Weight(pc[r]) - started
    <3>1. /\ window.total \in Nat /\ window.hits \in Nat /\ window.misses \in Nat /\ started \in Nat
      BY DEF IInv, Typed
    <3>2. window'.total - started' = window.total - started
      BY <2>1, <3>1
    <3>3. window'.hits + window'.misses + 0 - started' = window.hits + window.misses + 0 - started
      BY <2>1, <3>1
    <3>4. QED
      BY <2>3, <3>2, <3>3
  <2>5. QED
    BY <2>1, <2>2, <2>3, <2>4, CountKept DEF Goto
<1>10. QED
  BY <1>1, <1>2, <1>3, <1>4, <1>5, <1>6, <1>7, <1>8, <1>9 DEF Serve

(* The requests that are about to count their domain. *)
LEMMA DomainMoves ==
  ASSUME pc \in [Request -> PC], NEW r \in Request, NEW label \in PC, pc' = [pc EXCEPT ![r] = label]
  PROVE  /\ Cardinality(ToCount(pc)) \in Nat /\ Cardinality(ToCount(pc')) \in Nat
         /\ pc[r] # "domain" /\ label = "domain" =>
              Cardinality(ToCount(pc')) = Cardinality(ToCount(pc)) + 1
         /\ pc[r] # "domain" /\ label # "domain" =>
              Cardinality(ToCount(pc')) = Cardinality(ToCount(pc))
         /\ pc[r] = "domain" /\ label # "domain" =>
              Cardinality(ToCount(pc')) = Cardinality(ToCount(pc)) - 1
<1> DEFINE of(p) == {x \in Request : p[x] \in {"domain"}}
<1>1. ToCount(pc) = of(pc) /\ ToCount(pc') = of(pc')
  BY DEF ToCount
<1>2. /\ Cardinality(of(pc)) \in Nat
      /\ (pc[r] \in {"domain"} <=> label \in {"domain"}) => Cardinality(of(pc')) = Cardinality(of(pc))
      /\ pc[r] \notin {"domain"} /\ label \in {"domain"} =>
           Cardinality(of(pc')) = Cardinality(of(pc)) + 1
      /\ pc[r] \in {"domain"} /\ label \notin {"domain"} =>
           Cardinality(of(pc')) = Cardinality(of(pc)) - 1 /\ Cardinality(of(pc)) >= 1
  <2> DEFINE L == {"domain"}
  <2> HIDE DEF L
  <2>1. LET in(p) == {x \in Request : p[x] \in L} IN
        /\ Cardinality(in(pc)) \in Nat
        /\ (pc[r] \in L <=> label \in L) => Cardinality(in(pc')) = Cardinality(in(pc))
        /\ pc[r] \notin L /\ label \in L => Cardinality(in(pc')) = Cardinality(in(pc)) + 1
        /\ pc[r] \in L /\ label \notin L =>
             Cardinality(in(pc')) = Cardinality(in(pc)) - 1 /\ Cardinality(in(pc)) >= 1
    BY SetOfRequests
  <2>2. QED
    BY <2>1 DEF L
<1> HIDE DEF of
<1>3. QED
  BY <1>1, <1>2

(* Every step of a request keeps the domain counts bounded, by the requests and by *)
(* the size of the map.                                                           *)
LEMMA DomainsKept ==
  ASSUME IInv, NEW r \in Request, NEW n \in Name \cup {None},
         Begin(r, n) \/ Serve(r)
  PROVE  DomainsCounted' /\ AllTimeBounded'
<1>0. /\ pc \in [Request -> PC] /\ started \in Nat
      /\ all \in [Name -> Nat] /\ recent \in [Name -> Nat]
      /\ DomainsCounted /\ AllTimeBounded
  BY DEF IInv, Typed
<1>1. CASE Begin(r, n)
  <2>1. all' = all /\ recent' = recent /\ started' = started + 1 /\ pc[r] = "none"
    BY <1>1 DEF Begin
  <2>2. PICK label \in {"miss", "domain"} : pc' = [pc EXCEPT ![r] = label]
    BY <1>1 DEF Begin, Goto
  <2>3. Cardinality(ToCount(pc')) <= Cardinality(ToCount(pc)) + 1
        /\ Cardinality(ToCount(pc')) \in Nat /\ Cardinality(ToCount(pc)) \in Nat
    <3>1. label \in PC
      BY DEF PC
    <3>2. /\ Cardinality(ToCount(pc)) \in Nat /\ Cardinality(ToCount(pc')) \in Nat
          /\ label = "domain" => Cardinality(ToCount(pc')) = Cardinality(ToCount(pc)) + 1
          /\ label # "domain" => Cardinality(ToCount(pc')) = Cardinality(ToCount(pc))
      BY <1>0, <2>1, <2>2, <3>1, DomainMoves
    <3>3. QED
      BY <3>2
  <2>4. QED
    BY <1>0, <2>1, <2>3 DEF DomainsCounted, AllTimeBounded
<1>2. CASE CountDomain(r)
  <2>1. name[r] \in Name /\ pc[r] = "domain"
    BY <1>2 DEF CountDomain, IInv, Honest, Genuine
  <2> DEFINE more == [all EXCEPT ![name[r]] = all[name[r]] + 1]
  <2>2. more \in [Name -> Nat] /\ \A m \in Name : more[m] <= all[m] + 1
    <3>1. \A m \in Name : more[m] = IF m = name[r] THEN all[m] + 1 ELSE all[m]
      BY <1>0, <2>1
    <3>2. more \in [Name -> Nat]
      BY <1>0, <2>1
    <3> HIDE DEF more
    <3>3. \A m \in Name : more[m] <= all[m] + 1
      BY <1>0, <3>1
    <3>4. QED
      BY <3>2, <3>3
  <2>3. /\ all' \in [Name -> Nat] /\ \A m \in Name : all'[m] <= more[m]
        /\ Cardinality(Known(all')) <= MaxTracked
    <3>1. all' \in Pruned(more)
      BY <1>2, <1>0, <2>1 DEF CountDomain
    <3> HIDE DEF more
    <3>2. QED
      BY <2>2, <3>1, PruningBounds
  <2>4. \A m \in Name : recent'[m] \in Nat /\ recent'[m] <= recent[m] + 1
    BY <1>2, <1>0, <2>1 DEF CountDomain
  <2>5. pc' = [pc EXCEPT ![r] = "lookup"] /\ started' = started
    BY <1>2 DEF CountDomain, Goto
  <2>0. "lookup" \in PC
    BY DEF PC
  <2>6. Cardinality(ToCount(pc')) = Cardinality(ToCount(pc)) - 1
        /\ Cardinality(ToCount(pc')) \in Nat /\ Cardinality(ToCount(pc)) \in Nat
    BY <1>0, <2>1, <2>5, <2>0, DomainMoves
  <2>7. ASSUME NEW m \in Name
        PROVE  /\ all'[m] + Cardinality(ToCount(pc')) <= started'
               /\ recent'[m] + Cardinality(ToCount(pc')) <= started'
    <3>1. all[m] \in Nat /\ recent[m] \in Nat /\ all'[m] <= all[m] + 1 /\ all'[m] \in Nat
      <4>1. all[m] \in Nat /\ recent[m] \in Nat /\ more[m] \in Nat /\ all'[m] \in Nat
        BY <1>0, <2>2, <2>3
      <4>2. more[m] <= all[m] + 1 /\ all'[m] <= more[m]
        BY <2>2, <2>3
      <4> HIDE DEF more
      <4>3. QED
        BY <4>1, <4>2
    <3>2. all[m] + Cardinality(ToCount(pc)) <= started /\ recent[m] + Cardinality(ToCount(pc)) <= started
      BY <1>0 DEF DomainsCounted
    <3>3. QED
      BY <1>0, <2>4, <2>5, <2>6, <3>1, <3>2
  <2>8. QED
    BY <2>3, <2>7 DEF DomainsCounted, AllTimeBounded
<1>3. CASE Lookup(r)
  <2>1. all' = all /\ recent' = recent /\ started' = started /\ pc[r] # "domain"
    BY <1>3 DEF Lookup, stats
  <2>2. PICK label \in PC \ {"domain"} : pc' = [pc EXCEPT ![r] = label]
    BY <1>3 DEF Lookup, Goto, PC
  <2>3. Cardinality(ToCount(pc')) = Cardinality(ToCount(pc))
    BY <1>0, <2>1, <2>2, DomainMoves DEF PC
  <2>4. QED
    BY <1>0, <2>1, <2>3 DEF DomainsCounted, AllTimeBounded
<1>4. CASE CountHit(r)
  <2>1. all' = all /\ recent' = recent /\ started' = started /\ pc[r] # "domain"
    BY <1>4 DEF CountHit, stats
  <2>2. PICK label \in PC \ {"domain"} : pc' = [pc EXCEPT ![r] = label]
    BY <1>4 DEF CountHit, Goto, PC
  <2>3. Cardinality(ToCount(pc')) = Cardinality(ToCount(pc))
    BY <1>0, <2>1, <2>2, DomainMoves DEF PC
  <2>4. QED
    BY <1>0, <2>1, <2>3 DEF DomainsCounted, AllTimeBounded
<1>5. CASE CountMiss(r)
  <2>1. all' = all /\ recent' = recent /\ started' = started /\ pc[r] # "domain"
    BY <1>5 DEF CountMiss, stats
  <2>2. PICK label \in PC \ {"domain"} : pc' = [pc EXCEPT ![r] = label]
    BY <1>5 DEF CountMiss, Goto, PC
  <2>3. Cardinality(ToCount(pc')) = Cardinality(ToCount(pc))
    BY <1>0, <2>1, <2>2, DomainMoves DEF PC
  <2>4. QED
    BY <1>0, <2>1, <2>3 DEF DomainsCounted, AllTimeBounded
<1>6. CASE Records(r)
  <2>1. all' = all /\ recent' = recent /\ started' = started /\ pc[r] # "domain"
    BY <1>6 DEF Records, stats
  <2>2. PICK label \in PC \ {"domain"} : pc' = [pc EXCEPT ![r] = label]
    BY <1>6 DEF Records, Goto, PC
  <2>3. Cardinality(ToCount(pc')) = Cardinality(ToCount(pc))
    BY <1>0, <2>1, <2>2, DomainMoves DEF PC
  <2>4. QED
    BY <1>0, <2>1, <2>3 DEF DomainsCounted, AllTimeBounded
<1>7. CASE Upstream(r)
  <2>1. all' = all /\ recent' = recent /\ started' = started /\ pc[r] # "domain"
    BY <1>7 DEF Upstream, stats
  <2>2. PICK label \in PC \ {"domain"} : pc' = [pc EXCEPT ![r] = label]
    <3>1. pc = [pc EXCEPT ![r] = "upstream"]
      BY <1>7 DEF Upstream, IInv, Typed
    <3>2. QED
      BY <1>7, <3>1 DEF Upstream, Goto, PC
  <2>3. Cardinality(ToCount(pc')) = Cardinality(ToCount(pc))
    BY <1>0, <2>1, <2>2, DomainMoves DEF PC
  <2>4. QED
    BY <1>0, <2>1, <2>3 DEF DomainsCounted, AllTimeBounded
<1>8. CASE Store(r)
  <2>1. all' = all /\ recent' = recent /\ started' = started /\ pc[r] # "domain"
    BY <1>8 DEF Store, stats
  <2>2. PICK label \in PC \ {"domain"} : pc' = [pc EXCEPT ![r] = label]
    BY <1>8 DEF Store, Goto, PC
  <2>3. Cardinality(ToCount(pc')) = Cardinality(ToCount(pc))
    BY <1>0, <2>1, <2>2, DomainMoves DEF PC
  <2>4. QED
    BY <1>0, <2>1, <2>3 DEF DomainsCounted, AllTimeBounded
<1>9. CASE Return(r)
  <2>1. all' = all /\ recent' = recent /\ started' = started /\ pc[r] # "domain"
    BY <1>9 DEF Return, stats
  <2>2. PICK label \in PC \ {"domain"} : pc' = [pc EXCEPT ![r] = label]
    BY <1>9 DEF Return, Goto, PC
  <2>3. Cardinality(ToCount(pc')) = Cardinality(ToCount(pc))
    BY <1>0, <2>1, <2>2, DomainMoves DEF PC
  <2>4. QED
    BY <1>0, <2>1, <2>3 DEF DomainsCounted, AllTimeBounded
<1>10. QED
  BY <1>1, <1>2, <1>3, <1>4, <1>5, <1>6, <1>7, <1>8, <1>9 DEF Serve

(* The reporter, and a cache entry that goes, disturb nothing. *)
LEMMA OthersKeep ==
  ASSUME IInv, TakeWindow \/ DomainStats \/ (\E n \in Name : Forget(n)) \/ UNCHANGED vars
  PROVE  IInv'
<1>1. CASE TakeWindow
  <2>1. Typed'
    BY <1>1 DEF TakeWindow, IInv, Typed, Sum, Zero, locals
  <2>2. EachCountedOnce'
    <3>1. Sum(taken', window') = Sum(taken, window)
      BY <1>1 DEF TakeWindow, IInv, Typed, Sum, Zero
    <3>2. Undecided' = Undecided /\ started' = started
      BY <1>1 DEF TakeWindow, Undecided, locals
    <3>3. QED
      BY <3>1, <3>2 DEF IInv, EachCountedOnce
  <2>3. DomainsCounted' /\ Honest' /\ AllTimeBounded'
    BY <1>1 DEF TakeWindow, IInv, DomainsCounted, Honest, CacheGenuine, Genuine, AllTimeBounded, locals
  <2>4. QED
    BY <2>1, <2>2, <2>3 DEF IInv
<1>2. CASE DomainStats
  <2>1. Typed' /\ EachCountedOnce' /\ Honest' /\ AllTimeBounded'
    BY <1>2 DEF DomainStats, IInv, Typed, EachCountedOnce, Undecided, Honest, CacheGenuine, Genuine,
                AllTimeBounded, locals
  <2>2. DomainsCounted'
    <3>1. ToCount(pc') = ToCount(pc) /\ all' = all /\ started' = started
      BY <1>2 DEF DomainStats, locals
    <3>2. \A n \in Name : recent'[n] = 0 /\ recent[n] \in Nat
      BY <1>2 DEF DomainStats, IInv, Typed
    <3>3. IsFiniteSet(ToCount(pc)) /\ Cardinality(ToCount(pc)) \in Nat
      <4>1. ToCount(pc) \subseteq Request
        BY DEF ToCount
      <4>2. QED
        BY <4>1, FS_Subset, FS_CardinalityType
    <3>4. QED
      BY <3>1, <3>2, <3>3 DEF IInv, Typed, DomainsCounted
  <2>3. QED
    BY <2>1, <2>2 DEF IInv
<1>3. ASSUME NEW n \in Name, Forget(n) PROVE IInv'
  BY <1>3 DEF Forget, IInv, Typed, Answers, EachCountedOnce, Undecided, DomainsCounted, Honest,
              CacheGenuine, Genuine, AllTimeBounded, stats, locals
<1>4. CASE UNCHANGED vars
  BY <1>4 DEF vars, IInv, Typed, EachCountedOnce, Undecided, DomainsCounted, Honest, CacheGenuine,
              Genuine, AllTimeBounded, locals
<1>5. QED
  BY <1>1, <1>2, <1>3, <1>4

LEMMA IInvHolds == Spec => []IInv
<1>1. Init => IInv
  <2> SUFFICES ASSUME Init PROVE IInv
    OBVIOUS
  <2>1. Cardinality(Undecided) = 0 /\ Cardinality(ToCount(pc)) = 0 /\ Cardinality(Known(all)) = 0
    <3>1. Undecided = {} /\ ToCount(pc) = {} /\ Known(all) = {}
      BY DEF Init, Undecided, ToCount, Known
    <3>2. QED
      BY <3>1, FS_EmptySet
  <2>2. Typed /\ Honest
    <3>1. Typed
      <4>1. window \in [total : Nat, hits : Nat, misses : Nat] /\ taken \in [total : Nat, hits : Nat, misses : Nat]
        BY DEF Init, Zero
      <4>2. started \in 0..MaxRequests
        BY DEF Init
      <4>3. report \in BOOLEAN
        BY Zenon DEF Init
      <4>4. /\ all \in [Name -> Nat] /\ recent \in [Name -> Nat]
            /\ cached \in [Name -> Answers] /\ answer \in [Request -> Answers]
            /\ pc \in [Request -> PC] /\ name \in [Request -> Name \cup {None}]
            /\ asked \in [Request -> 0..2]
        BY DEF Init, PC, Answers
      <4>5. QED
        BY <4>1, <4>2, <4>3, <4>4, Zenon DEF Typed
    <3>2. CacheGenuine
      BY DEF Init, CacheGenuine
    <3>3. \A r \in Request : Genuine(r)
      BY DEF Init, Genuine
    <3>4. QED
      BY <3>1, <3>2, <3>3 DEF Honest
  <2>3. EachCountedOnce /\ DomainsCounted /\ AllTimeBounded
    BY <2>1 DEF Init, EachCountedOnce, Sum, Zero, DomainsCounted, AllTimeBounded
  <2>4. QED
    BY <2>2, <2>3 DEF IInv
<1>2. IInv /\ [Next]_vars => IInv'
  <2> SUFFICES ASSUME IInv, [Next]_vars PROVE IInv'
    OBVIOUS
  <2>1. ASSUME NEW r \in Request, NEW n \in Name \cup {None}, Begin(r, n) \/ Serve(r) PROVE IInv'
    BY <2>1, TypesKept, CountingKept, HonestyKept, DomainsKept DEF IInv
  <2>2. QED
    BY <2>1, OthersKeep DEF Next, Serve, Finished
<1>3. QED
  BY <1>1, <1>2, PTL DEF Spec

(* The counters, the maps and the requests keep their types: no counter exceeds *)
(* the number of requests there were.                                           *)
THEOREM TypeCorrect == Spec => []TypeOK
<1>1. ASSUME IInv PROVE TypeOK
  <2>1. IsFiniteSet(Undecided) /\ Cardinality(Undecided) \in Nat
    <3>1. Undecided \subseteq Request
      BY DEF Undecided
    <3>2. QED
      BY <3>1, FS_Subset, FS_CardinalityType
  <2>2. IsFiniteSet(ToCount(pc)) /\ Cardinality(ToCount(pc)) \in Nat
    <3>1. ToCount(pc) \subseteq Request
      BY DEF ToCount
    <3>2. QED
      BY <3>1, FS_Subset, FS_CardinalityType
  <2>3. window \in Counters /\ taken \in Counters
    <3>1. /\ taken.total + window.total = started
          /\ taken.hits + window.hits + (taken.misses + window.misses) + Cardinality(Undecided) = started
      BY <1>1 DEF IInv, EachCountedOnce, Sum
    <3>2. /\ window \in [total : Nat, hits : Nat, misses : Nat]
          /\ taken \in [total : Nat, hits : Nat, misses : Nat]
          /\ started \in 0..MaxRequests
      BY <1>1 DEF IInv, Typed
    <3>3. /\ window.total \in 0..MaxRequests /\ taken.total \in 0..MaxRequests
          /\ window.hits \in 0..MaxRequests /\ taken.hits \in 0..MaxRequests
          /\ window.misses \in 0..MaxRequests /\ taken.misses \in 0..MaxRequests
      BY <2>1, <3>1, <3>2
    <3>4. QED
      BY <3>2, <3>3 DEF Counters
  <2>4. all \in [Name -> 0..MaxRequests] /\ recent \in [Name -> 0..MaxRequests]
    <3>1. \A n \in Name : all[n] \in 0..MaxRequests /\ recent[n] \in 0..MaxRequests
      BY <1>1, <2>2 DEF IInv, Typed, DomainsCounted
    <3>2. QED
      BY <1>1, <3>1 DEF IInv, Typed
  <2>5. QED
    BY <1>1, <2>3, <2>4 DEF IInv, Typed, TypeOK
<1>2. QED
  BY <1>1, IInvHolds, PTL

(* However the reporter takes its windows, together they count every request once. *)
THEOREM EachCountedOnceHolds == Spec => []EachCountedOnce
BY IInvHolds, PTL DEF IInv

(* Owned names are answered from the custom records only, cached or not, and no *)
(* truncated answer enters the cache.                                           *)
THEOREM AnswersGenuineHolds == Spec => []AnswersGenuine
<1>1. IInv => AnswersGenuine
  BY DEF IInv, Honest, CacheGenuine, Genuine, AnswersGenuine
<1>2. QED
  BY <1>1, IInvHolds, PTL

(* "maxTrackedDomains bounds the all-time domain map". *)
THEOREM AllTimeBoundedHolds == Spec => []AllTimeBounded
BY IInvHolds, PTL DEF IInv

(* What pruning drops was not asked about more often than what it keeps, ties *)
(* and all, whatever counts the map holds when it becomes too large.          *)
THEOREM TopKeptHolds == Spec => TopKept
<1> DEFINE Ranked ==
      \A n, m \in Name :
        all[n] > 0 /\ all'[n] = 0 /\ all'[m] > 0 => all'[m] >= all[n]
<1>1. TypeOK /\ [Next]_vars => [Ranked]_vars
  <2> SUFFICES ASSUME TypeOK, [Next]_vars, NEW n \in Name, NEW m \in Name,
                      all[n] > 0, all'[n] = 0, all'[m] > 0
               PROVE  all'[m] >= all[n]
    OBVIOUS
  <2>1. all # all'
    OBVIOUS
  <2>2. PICK r \in Request : CountDomain(r)
    BY <2>1 DEF Next, Begin, Lookup, CountHit, CountMiss, Records, Upstream, Store, Return, Forget,
      TakeWindow, DomainStats, Finished, vars, stats, locals
  <2> DEFINE counts == [all EXCEPT ![name[r]] = @ + 1]
  <2>3. /\ \A x \in Name : counts[x] \in Int /\ counts[x] >= all[x]
        /\ all[n] \in Int
    BY DEF TypeOK
  <2>4. all' \in Pruned(counts)
    BY <2>2 DEF CountDomain
  <2> HIDE DEF counts
  <2>5. all' # counts
    BY <2>3
  <2>6. PICK s \in Top(counts, KeepTop) : all' = [x \in Name |-> IF x \in s THEN counts[x] ELSE 0]
    BY <2>4, <2>5 DEF Pruned
  <2>7. n \notin s /\ m \in s /\ all'[m] = counts[m] /\ n \in Known(counts)
    BY <2>3, <2>6 DEF Known
  <2>8. counts[m] >= counts[n]
    BY <2>6, <2>7 DEF Top
  <2>9. QED
    BY <2>3, <2>7, <2>8
<1>2. QED
  BY <1>1, TypeCorrect, PTL DEF Spec, TopKept
=============================================================================
