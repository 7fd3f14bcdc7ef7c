----------------------------- MODULE CacheProofs -----------------------------
(***************************************************************************)
(* The map and the recency list of Cache stay consistent, for every number *)
(* of goroutines, keys and entries and every size of the cache.            *)
(***************************************************************************)
EXTENDS Cache, WellFoundedInduction, TLAPS

(* The list operations.  A list without duplicates is called a unique list. *)
Unique(l) == \A i, j \in DOMAIN l : l[i] = l[j] => i = j

LEMMA WithoutFacts ==
  ASSUME NEW l \in Seq(Entry), Unique(l), NEW e
  PROVE  /\ Without(l, e) \in Seq(Entry)
         /\ Unique(Without(l, e))
         /\ Listed(Without(l, e)) = Listed(l) \ {e}
         /\ Len(Without(l, e)) = IF e \in Listed(l) THEN Len(l) - 1 ELSE Len(l)
<1>1. CASE e \notin Listed(l)
  BY <1>1 DEF Without
<1>2. CASE e \in Listed(l)
  <2> DEFINE n == Len(l)
             w == Where(l, e)
             m == [j \in 1..(n - 1) |-> IF j < w THEN l[j] ELSE l[j + 1]]
  <2>1. n \in Nat /\ w \in 1..n /\ l[w] = e
    BY <1>2 DEF Where, Listed
  <2> HIDE DEF w
  <2>2. m \in [1..(n - 1) -> Entry] /\ n - 1 \in Nat
    <3>1. \A j \in 1..(n - 1) : l[j] \in Entry /\ l[j + 1] \in Entry
      BY <2>1
    <3> QED
      BY <2>1, <3>1
  <2>3. m \in Seq(Entry) /\ Len(m) = n - 1 /\ DOMAIN m = 1..(n - 1)
    BY <2>2
  <2>4. Unique(m)
    <3> SUFFICES ASSUME NEW i \in 1..(n - 1), NEW j \in 1..(n - 1), m[i] = m[j]
                 PROVE i = j
      BY <2>3 DEF Unique
    <3>1. \A p, q \in 1..n : l[p] = l[q] => p = q
      BY DEF Unique
    <3>2. i \in 1..n /\ i + 1 \in 1..n /\ j \in 1..n /\ j + 1 \in 1..n
      BY <2>1
    <3> QED
      BY <2>1, <3>1, <3>2
  <2>5. Listed(m) = Listed(l) \ {e}
    <3>1. ASSUME NEW x \in Listed(m) PROVE x \in Listed(l) \ {e}
      <4>1. PICK j \in 1..(n - 1) : x = m[j]
        BY <2>3 DEF Listed
      <4>2. PICK i \in 1..n : i # w /\ x = l[i]
        BY <2>1, <4>1
      <4> QED
        BY <2>1, <4>2 DEF Listed, Unique
    <3>2. ASSUME NEW x \in Listed(l), x # e PROVE x \in Listed(m)
      <4>1. PICK i \in 1..n : x = l[i]
        BY DEF Listed
      <4>2. CASE i < w
        <5>1. i \in 1..(n - 1) /\ m[i] = x
          BY <2>1, <4>1, <4>2
        <5> QED
          BY <5>1, <2>3 DEF Listed
      <4>3. CASE i > w
        <5>1. i - 1 \in 1..(n - 1) /\ m[i - 1] = x
          BY <2>1, <4>1, <4>3
        <5> QED
          BY <5>1, <2>3 DEF Listed
      <4> QED
        BY <2>1, <3>2, <4>1, <4>2, <4>3
    <3> QED
      BY <3>1, <3>2
  <2>6. Without(l, e) = m
    BY <1>2 DEF Without, w
  <2> QED
    BY <1>2, <2>3, <2>4, <2>5, <2>6
<1> QED
  BY <1>1, <1>2

LEMMA PushFacts ==
  ASSUME NEW l \in Seq(Entry), Unique(l), NEW e \in Entry, e \notin Listed(l)
  PROVE  /\ PushFront(l, e) \in Seq(Entry)
         /\ Unique(PushFront(l, e))
         /\ Listed(PushFront(l, e)) = Listed(l) \cup {e}
         /\ Len(PushFront(l, e)) = Len(l) + 1
<1> DEFINE m == PushFront(l, e)
<1>1. /\ m \in Seq(Entry) /\ Len(m) = Len(l) + 1 /\ m[1] = e
      /\ \A i \in 1..Len(l) : m[i + 1] = l[i]
      /\ Len(l) \in Nat /\ DOMAIN l = 1..Len(l) /\ DOMAIN m = 1..Len(m)
  BY DEF PushFront
<1>2. \A i \in 1..Len(m) : i = 1 \/ (i - 1 \in 1..Len(l) /\ m[i] = l[i - 1])
  BY <1>1
<1> HIDE DEF m
<1>3. Unique(m)
  <2> SUFFICES ASSUME NEW i \in 1..Len(m), NEW j \in 1..Len(m), m[i] = m[j]
               PROVE i = j
    BY <1>1 DEF Unique
  <2>1. CASE i = 1 \/ j = 1
    BY <1>1, <1>2, <2>1 DEF Listed
  <2>2. CASE i # 1 /\ j # 1
    <3>1. i - 1 \in 1..Len(l) /\ j - 1 \in 1..Len(l) /\ l[i - 1] = l[j - 1]
      BY <1>2, <2>2
    <3>2. i - 1 = j - 1
      BY <1>1, <3>1 DEF Unique
    <3>3. i \in Nat /\ j \in Nat
      BY <1>1
    <3> QED
      BY <3>2, <3>3
  <2> QED
    BY <2>1, <2>2
<1>4. Listed(m) = Listed(l) \cup {e}
  <2>1. ASSUME NEW x \in Listed(m) PROVE x \in Listed(l) \cup {e}
    <3>1. PICK i \in 1..Len(m) : x = m[i]
      BY <1>1 DEF Listed
    <3>2. CASE i = 1
      BY <1>1, <3>1, <3>2
    <3>3. CASE i # 1
      BY <1>1, <1>2, <3>1, <3>3 DEF Listed
    <3> QED
      BY <3>2, <3>3
  <2>2. ASSUME NEW x \in Listed(l) PROVE x \in Listed(m)
    <3>1. PICK i \in 1..Len(l) : x = l[i]
      BY DEF Listed
    <3>2. i + 1 \in 1..Len(m) /\ m[i + 1] = x
      BY <1>1, <3>1
    <3> QED
      BY <1>1, <3>2 DEF Listed
  <2>3. e \in Listed(m)
    BY <1>1 DEF Listed
  <2> QED
    BY <2>1, <2>2, <2>3
<1> QED
  BY <1>1, <1>3, <1>4 DEF m

(* A nonempty set of positions of a list has a last one. *)
LEMMA LastPosition ==
  ASSUME NEW n \in Nat, NEW P \in SUBSET (1..n), P # {}
  PROVE  \E i \in P : \A j \in P : j <= i
<1> DEFINE T == {n - i : i \in P}
<1>1. T \subseteq Nat /\ T # {}
  <2>1. \A i \in P : n - i \in Nat
    OBVIOUS
  <2> QED
    BY <2>1
<1>2. PICK x \in T : \A y \in T : ~(<<y, x>> \in OpToRel(<, Nat))
  BY <1>1, NatLessThanWellFounded, WFMin
<1>3. \A y \in T : ~(y < x)
  BY <1>1, <1>2 DEF OpToRel
<1>4. PICK i \in P : x = n - i
  BY <1>2
<1>5. \A j \in P : n - j \in T
  OBVIOUS
<1>6. \A j \in P : j <= i
  BY <1>3, <1>4, <1>5
<1> QED
  BY <1>4, <1>6

LEMMA VictimListed ==
  ASSUME NEW l \in Seq(Entry), Len(l) > 0, NEW h
  PROVE  Victim(l, h) \in Listed(l)
<1> DEFINE old == {i \in DOMAIN l : h[l[i]].age > h[l[i]].life}
<1>1. CASE old = {}
  BY <1>1 DEF Victim, Listed
<1>2. CASE old # {}
  <2>1. Len(l) \in Nat /\ old \in SUBSET (1..Len(l))
    OBVIOUS
  <2>2. \E i \in old : \A j \in old : j <= i
    BY <1>2, <2>1, LastPosition
  <2> DEFINE last == CHOOSE i \in old : \A j \in old : j <= i
  <2>3. last \in old
    BY <2>2
  <2>4. Victim(l, h) = l[last]
    BY <1>2 DEF Victim
  <2> QED
    BY <2>3, <2>4 DEF Listed
<1> QED
  BY <1>1, <1>2
-----------------------------------------------------------------------------
(* A list, a map and a heap match when they hold the same entries. *)
Matches(l, m, h) ==
  /\ Unique(l)
  /\ \A x \in Listed(l) : h[x].key \in Key /\ m[h[x].key] = x
  /\ \A k \in Key : m[k] # None => m[k] \in Listed(l) /\ h[m[k]].key = k

LEMMA RemoveMatches ==
  ASSUME NEW l \in Seq(Entry), NEW m \in [Key -> Entry \cup {None}], NEW h,
         Matches(l, m, h), NEW x \in Listed(l)
  PROVE  Matches(Without(l, x), [m EXCEPT ![h[x].key] = None], h)
<1> DEFINE l2 == Without(l, x)
           m2 == [m EXCEPT ![h[x].key] = None]
<1>1. Unique(l2) /\ Listed(l2) = Listed(l) \ {x}
  BY WithoutFacts DEF Matches
<1> HIDE DEF l2
<1>2. \A y \in Listed(l2) : h[y].key \in Key /\ m2[h[y].key] = y
  BY <1>1 DEF Matches
<1>3. \A k \in Key : m2[k] # None => m2[k] \in Listed(l2) /\ h[m2[k]].key = k
  BY <1>1 DEF Matches
<1> QED
  BY <1>1, <1>2, <1>3 DEF Matches, l2

LEMMA AddMatches ==
  ASSUME NEW l \in Seq(Entry), NEW m \in [Key -> Entry \cup {None}],
         NEW h, Matches(l, m, h), NEW k \in Key, m[k] = None,
         NEW e \in Entry, e \notin Listed(l),
         NEW h2, h2[e].key = k, \A x \in Listed(l) : h2[x].key = h[x].key
  PROVE  Matches(PushFront(l, e), [m EXCEPT ![k] = e], h2)
<1> DEFINE l2 == PushFront(l, e)
           m2 == [m EXCEPT ![k] = e]
<1>1. Unique(l2) /\ Listed(l2) = Listed(l) \cup {e}
  BY PushFacts DEF Matches
<1> HIDE DEF l2
<1>2. \A y \in Listed(l2) : h2[y].key \in Key /\ m2[h2[y].key] = y
  <2>1. \A y \in Listed(l) : h[y].key # k
    BY CacheAssumption DEF Matches, Listed
  <2> QED
    BY <1>1, <2>1 DEF Matches
<1>3. \A j \in Key : m2[j] # None => m2[j] \in Listed(l2) /\ h2[m2[j]].key = j
  BY <1>1 DEF Matches
<1> QED
  BY <1>1, <1>2, <1>3 DEF Matches, l2

LEMMA SameMatches ==
  ASSUME NEW l, NEW m, NEW h, NEW h2, Matches(l, m, h),
         \A x \in Listed(l) : h2[x].key = h[x].key
  PROVE  Matches(l, m, h2)
  BY DEF Matches

LEMMA ConsistentMatches ==
  ASSUME lru \in Seq(Entry), items \in [Key -> Entry \cup {None}]
  PROVE  Consistent <=> Matches(lru, items, heap) /\ Len(lru) <= MaxSize
  BY DEF Consistent, Matches, Unique, Listed
-----------------------------------------------------------------------------
(* Type correctness, and what a Get in progress holds. *)
Holding ==
  \A g \in Getter :
    IF pc[g] = "idle" THEN ptr[g] = None ELSE ptr[g] \in Entry /\ key[g] \in Key

TypeInv == TypeOK /\ Holding

LEMMA Ages ==
  /\ OldAge \in Nat /\ MaxSize \in Nat /\ MaxSize > 0 /\ 0 \in 0..OldAge
  /\ None \notin Entry /\ None \notin Key
  /\ \A t \in RecordTTLs \cup {NoAnswer} : Lifetime(t) \in 0..OldAge
  /\ \A t \in RecordTTLs \cup {NoAnswer} : t # NoAnswer => t \in Nat
  BY CacheAssumption DEF OldAge, Lifetime, Smaller

LEMMA BlankType == Blank \in Contents
  BY Ages DEF Blank, Contents

LEMMA CollectedType ==
  ASSUME NEW h \in [Entry -> Contents] PROVE Collected(h) \in [Entry -> Contents]
  BY BlankType DEF Collected

(* What Set does, and what of it the proofs use. *)
LEMMA SetFacts ==
  ASSUME TypeInv, Matches(lru, items, heap), Len(lru) <= MaxSize,
         NEW k \in Key, NEW t \in RecordTTLs \cup {NoAnswer}, Set(k, t)
  PROVE  /\ heap' \in [Entry -> Contents]
         /\ lru' \in Seq(Entry) /\ items' \in [Key -> Entry \cup {None}]
         /\ Matches(lru', items', heap') /\ Len(lru') <= MaxSize
         /\ UNCHANGED locals
<1> DEFINE new == [key |-> k, age |-> 0, life |-> Lifetime(t),
                   stored |-> IF t = NoAnswer THEN 0 ELSE t,
                   ttl |-> IF t = NoAnswer THEN 0 ELSE t]
           H(e) == [heap EXCEPT ![e] = new]
           L(e) == PushFront(Replaced(k), e)
           M(e) == [items EXCEPT ![k] = e]
           V(e) == Victim(L(e), H(e))
<1>1. PICK e \in Entry \ InUse :
        /\ IF Len(L(e)) <= MaxSize THEN lru' = L(e) /\ items' = M(e)
           ELSE /\ lru' = Without(L(e), V(e))
                /\ items' = [M(e) EXCEPT ![H(e)[V(e)].key] = None]
        /\ UNCHANGED locals
        /\ heap' = Collected(H(e))
  BY DEF Set
<1> DEFINE h == H(e)
           l == L(e)
           m == M(e)
           v == V(e)
           m0 == [items EXCEPT ![k] = None]
<1>2. heap \in [Entry -> Contents] /\ lru \in Seq(Entry) /\ items \in [Key -> Entry \cup {None}]
  BY DEF TypeInv, TypeOK
<1>3. new \in Contents
  BY Ages DEF Contents
<1>4. h \in [Entry -> Contents] /\ heap' \in [Entry -> Contents]
  BY <1>1, <1>2, <1>3, CollectedType
<1>5. e \in Entry /\ e \notin Listed(lru)
  BY <1>1 DEF InUse
<1>6. /\ Replaced(k) \in Seq(Entry) /\ Unique(Replaced(k)) /\ Len(Replaced(k)) <= Len(lru)
      /\ Listed(Replaced(k)) \subseteq Listed(lru)
      /\ Matches(Replaced(k), m0, heap)
  <2>1. Len(lru) \in Nat /\ Unique(lru)
    BY <1>2 DEF Matches
  <2>2. CASE items[k] = None
    <3>1. m0 = items
      BY <1>2, <2>2
    <3>2. Replaced(k) = lru
      BY <2>2 DEF Replaced
    <3>3. Len(lru) <= Len(lru)
      BY <2>1
    <3> QED
      BY <1>2, <2>1, <3>1, <3>2, <3>3
  <2>3. CASE items[k] # None
    <3>1. items[k] \in Listed(lru) /\ heap[items[k]].key = k
      BY <2>3 DEF Matches
    <3>2. Matches(Without(lru, items[k]), m0, heap)
      BY <1>2, <3>1, RemoveMatches
    <3> QED
      BY <1>2, <2>1, <2>3, <3>1, <3>2, WithoutFacts DEF Replaced
  <2> QED
    BY <2>2, <2>3
<1>7. /\ l \in Seq(Entry) /\ Unique(l) /\ Len(l) <= MaxSize + 1 /\ Len(l) > 0
      /\ Listed(l) = Listed(Replaced(k)) \cup {e}
  BY <1>2, <1>5, <1>6, PushFacts, Ages
<1>8. m \in [Key -> Entry \cup {None}] /\ m0 \in [Key -> Entry \cup {None}]
  BY <1>2, <1>5
<1>9. Matches(l, m, h)
  <2>1. m0[k] = None /\ m = [m0 EXCEPT ![k] = e]
    BY <1>2
  <2>2. e \notin Listed(Replaced(k))
    BY <1>5, <1>6
  <2>3. h[e].key = k /\ \A x \in Listed(Replaced(k)) : h[x].key = heap[x].key
    BY <1>2, <1>5, <2>2
  <2> HIDE DEF m, m0, h
  <2> QED
    BY <1>5, <1>6, <1>8, <2>1, <2>2, <2>3, AddMatches
<1> HIDE DEF new, H, L, M, V
<1>10. /\ lru' \in Seq(Entry) /\ items' \in [Key -> Entry \cup {None}]
       /\ Matches(lru', items', h) /\ Len(lru') <= MaxSize
  <2>1. CASE Len(l) <= MaxSize
    BY <1>1, <1>7, <1>8, <1>9, <2>1
  <2>2. CASE ~(Len(l) <= MaxSize)
    <3>1. v \in Listed(l)
      BY <1>7, VictimListed DEF V
    <3>2. lru' = Without(l, v) /\ items' = [m EXCEPT ![h[v].key] = None]
      BY <1>1, <2>2
    <3>3. Matches(lru', items', h)
      BY <1>7, <1>8, <1>9, <3>1, <3>2, RemoveMatches
    <3>4. lru' \in Seq(Entry) /\ Len(lru') = Len(l) - 1
      BY <1>7, <3>1, <3>2, WithoutFacts
    <3>5. Len(lru') <= MaxSize
      <4>1. Len(l) \in Nat
        BY <1>7
      <4> QED
        BY <4>1, <1>7, <3>4, Ages
    <3> QED
      BY <1>8, <3>2, <3>3, <3>4, <3>5
  <2> QED
    BY <2>1, <2>2
<1>11. Matches(lru', items', heap')
  <2>1. \A x \in Listed(lru') : x \in Entry /\ heap'[x] = h[x]
    BY <1>1, <1>10 DEF Collected, InUse, Listed
  <2> QED
    BY <1>10, <2>1, SameMatches
<1> QED
  BY <1>1, <1>4, <1>10, <1>11

(* A nonempty set of ages has a least one. *)
LEMMA LeastFacts ==
  ASSUME NEW S \in SUBSET (0..OldAge), S # {}
  PROVE  Least(S) \in S /\ \A m \in S : Least(S) <= m
<1>1. S \subseteq Nat
  BY Ages
<1>2. PICK n \in S : \A m \in S : ~(<<m, n>> \in OpToRel(<, Nat))
  BY <1>1, NatLessThanWellFounded, WFMin
<1>3. \A m \in S : ~(m < n)
  BY <1>1, <1>2 DEF OpToRel
<1>4. \A m \in S : n <= m
  BY <1>1, <1>3
<1>5. QED
  BY <1>4 DEF Least

IInv == TypeInv /\ Matches(lru, items, heap) /\ Len(lru) <= MaxSize

LEMMA InvStart == Init => IInv
  BY Ages, BlankType
  DEF Init, IInv, TypeInv, TypeOK, Holding, Matches, Unique, Listed, PC

LEMMA InvStep == IInv /\ [Next]_vars => IInv'
<1> SUFFICES ASSUME IInv, [Next]_vars
             PROVE /\ TypeOK' /\ Holding' /\ Matches(lru', items', heap')
                   /\ Len(lru') <= MaxSize
  BY DEF IInv, TypeInv
<1> DEFINE Goal == /\ TypeOK' /\ Holding' /\ Matches(lru', items', heap')
                   /\ Len(lru') <= MaxSize
<1>0. TypeOK /\ Holding /\ Matches(lru, items, heap) /\ Len(lru) <= MaxSize /\ Unique(lru)
  BY DEF IInv, TypeInv, Matches
<1>1. ASSUME NEW g \in Getter, NEW k \in Key, Find(g, k) PROVE Goal
  BY <1>1, <1>0 DEF Find, TypeOK, Holding, PC
<1>2. ASSUME NEW g \in Getter, Check(g) PROVE Goal
  <2>1. heap[ptr[g]].age \in 0..OldAge
    BY <1>2, <1>0 DEF Check, TypeOK, Holding, Contents
  <2>2. {heap[ptr[g]].age} \cup {elapsed[f] : f \in Ageing(ptr[g])} \in SUBSET (0..OldAge)
    BY <2>1, <1>0 DEF Ageing, TypeOK
  <2>3. Least({heap[ptr[g]].age} \cup {elapsed[f] : f \in Ageing(ptr[g])}) \in 0..OldAge
    BY <2>2, LeastFacts
  <2> QED
    BY <1>2, <2>1, <2>3, <1>0 DEF Check, TypeOK, Holding, PC
<1>3. ASSUME NEW g \in Getter, Remove(g) PROVE Goal
  <2>1. /\ key[g] \in Key /\ Idle(g) /\ heap' = Collected(heap)
        /\ IF items[key[g]] = None THEN UNCHANGED <<items, lru>>
           ELSE /\ lru' = Without(lru, items[key[g]])
                /\ items' = [items EXCEPT ![key[g]] = None]
    BY <1>3, <1>0 DEF Remove, Holding
  <2>2. /\ lru' \in Seq(Entry) /\ items' \in [Key -> Entry \cup {None}]
        /\ Matches(lru', items', heap) /\ Len(lru') <= MaxSize
    <3>1. CASE items[key[g]] = None
      BY <2>1, <3>1, <1>0 DEF TypeOK
    <3>2. CASE items[key[g]] # None
      <4>1. /\ items[key[g]] \in Listed(lru) /\ heap[items[key[g]]].key = key[g]
        BY <2>1, <3>2, <1>0 DEF Matches
      <4>2. Matches(lru', items', heap)
        <5>1. lru \in Seq(Entry) /\ items \in [Key -> Entry \cup {None}]
          BY <1>0 DEF TypeOK
        <5>2. Matches(Without(lru, items[key[g]]),
                      [items EXCEPT ![heap[items[key[g]]].key] = None], heap)
          BY <5>1, <4>1, <1>0, RemoveMatches
        <5> QED
          BY <5>2, <2>1, <3>2, <4>1
      <4>3. lru' \in Seq(Entry) /\ Len(lru') = Len(lru) - 1
        BY <2>1, <3>2, <4>1, <1>0, WithoutFacts DEF TypeOK
      <4>4. Len(lru') <= MaxSize
        <5>1. Len(lru) \in Nat
          BY <1>0 DEF TypeOK
        <5> QED
          BY <5>1, <4>3, <1>0, Ages
      <4> QED
        BY <2>1, <3>2, <4>2, <4>3, <4>4, <1>0 DEF TypeOK
    <3> QED
      BY <3>1, <3>2
  <2>3. Matches(lru', items', heap')
    <3>1. \A x \in Listed(lru') : heap'[x] = heap[x]
      BY <2>1, <2>2 DEF Collected, InUse, Listed
    <3> QED
      BY <2>2, <3>1, SameMatches
  <2>4. heap' \in [Entry -> Contents]
    BY <2>1, <1>0, CollectedType DEF TypeOK
  <2> QED
    BY <2>1, <2>2, <2>3, <2>4, <1>0, Ages DEF Idle, TypeOK, Holding, PC
<1>4. ASSUME NEW g \in Getter, ReadTTL(g) PROVE Goal
  <2>1. heap[ptr[g]].ttl \in Nat /\ elapsed[g] \in Nat
    BY <1>4, <1>0, Ages DEF ReadTTL, TypeOK, Holding, Contents
  <2>2. Decremented(heap[ptr[g]].ttl, elapsed[g]) \in Nat
    BY <2>1 DEF Decremented
  <2> QED
    BY <1>4, <2>2, <1>0 DEF ReadTTL, TypeOK, Holding, PC
<1>5. ASSUME NEW g \in Getter, WriteTTL(g) PROVE Goal
  <2>0. /\ ptr[g] \in Entry /\ ttl[g] \in Nat /\ heap \in [Entry -> Contents]
        /\ heap' = [heap EXCEPT ![ptr[g]] = [heap[ptr[g]] EXCEPT !.ttl = ttl[g]]]
    BY <1>5, <1>0 DEF WriteTTL, TypeOK, Holding
  <2>1. heap' \in [Entry -> Contents] /\ \A x \in Entry : heap'[x].key = heap[x].key
    <3>1. [heap[ptr[g]] EXCEPT !.ttl = ttl[g]] \in Contents
          /\ [heap[ptr[g]] EXCEPT !.ttl = ttl[g]].key = heap[ptr[g]].key
      BY <2>0 DEF Contents
    <3>2. QED
      BY <2>0, <3>1
  <2>2. \A x \in Listed(lru) : heap'[x].key = heap[x].key
    BY <2>1, <1>0 DEF Listed, TypeOK
  <2>3. Matches(lru', items', heap')
    BY <1>5, <2>2, <1>0, SameMatches DEF WriteTTL
  <2> QED
    BY <1>5, <2>1, <2>3, <1>0 DEF WriteTTL, TypeOK, Holding, PC
<1>6. ASSUME NEW g \in Getter, Touch(g) PROVE Goal
  <2> DEFINE e == ptr[g]
  <2>1. lru' \in Seq(Entry) /\ Unique(lru') /\ Listed(lru') = Listed(lru) /\ Len(lru') = Len(lru)
    <3>1. CASE e \in Listed(lru)
      <4>1. lru' = PushFront(Without(lru, e), e) /\ e \in Entry
        BY <1>6, <3>1, <1>0 DEF Touch, Holding
      <4>2. /\ Without(lru, e) \in Seq(Entry) /\ Unique(Without(lru, e))
            /\ Listed(Without(lru, e)) = Listed(lru) \ {e}
            /\ Len(Without(lru, e)) = Len(lru) - 1
        BY <3>1, <1>0, WithoutFacts DEF TypeOK
      <4>3. Len(lru) \in Nat
        BY <1>0 DEF TypeOK
      <4> DEFINE l == Without(lru, e)
      <4>4. e \notin Listed(l)
        BY <4>2
      <4> HIDE DEF e, l
      <4>5. /\ PushFront(l, e) \in Seq(Entry) /\ Unique(PushFront(l, e))
            /\ Listed(PushFront(l, e)) = Listed(l) \cup {e}
            /\ Len(PushFront(l, e)) = Len(l) + 1
        BY <4>1, <4>2, <4>4, PushFacts DEF l
      <4> QED
        BY <3>1, <4>1, <4>2, <4>3, <4>5 DEF l
    <3>2. CASE e \notin Listed(lru)
      BY <1>6, <3>2, <1>0 DEF Touch, TypeOK
    <3> QED
      BY <3>1, <3>2
  <2>2. UNCHANGED <<heap, items, key, ptr, elapsed, ttl, earliest>> /\ pc' = [pc EXCEPT ![g] = "copy"]
        /\ pc[g] = "touch"
    BY <1>6 DEF Touch
  <2>3. Matches(lru', items', heap')
    BY <2>1, <2>2, <1>0 DEF Matches
  <2> QED
    BY <2>1, <2>2, <2>3, <1>0 DEF TypeOK, Holding, PC
<1>7. ASSUME NEW g \in Getter, Copy(g) PROVE Goal
  <2>1. heap[ptr[g]].ttl \in Nat
    BY <1>7, <1>0 DEF Copy, TypeOK, Holding, Contents
  <2> QED
    BY <1>7, <2>1, <1>0 DEF Copy, TypeOK, Holding, PC
<1>8. ASSUME NEW g \in Getter, Return(g) PROVE Goal
  <2>1. UNCHANGED <<items, lru>> /\ Idle(g) /\ heap' = Collected(heap)
    BY <1>8 DEF Return
  <2>2. heap' \in [Entry -> Contents]
    BY <2>1, <1>0, CollectedType DEF TypeOK
  <2>3. \A x \in Listed(lru') : heap'[x] = heap[x]
    BY <2>1, <1>0 DEF Collected, InUse, Listed, TypeOK
  <2>4. Matches(lru', items', heap')
    BY <2>1, <2>3, <1>0, SameMatches
  <2> QED
    BY <2>1, <2>2, <2>4, <1>0, Ages DEF Idle, TypeOK, Holding, PC
<1>9. ASSUME NEW k \in Key, NEW t \in RecordTTLs \cup {NoAnswer}, Set(k, t) PROVE Goal
  <2>1. TypeInv
    BY DEF IInv
  <2> QED
    BY <1>9, <2>1, <1>0, SetFacts DEF TypeOK, Holding, locals
<1>10. CASE Tick
  <2>1. /\ UNCHANGED <<items, lru, locals>>
        /\ \A x \in Entry : heap'[x].key = heap[x].key
        /\ heap' \in [Entry -> Contents]
    <3>1. heap \in [Entry -> Contents]
      BY <1>0 DEF TypeOK
    <3>2. ASSUME NEW x \in Entry PROVE heap'[x] \in Contents /\ heap'[x].key = heap[x].key
      <4>1. heap[x] \in Contents
        BY <3>1
      <4>2. heap'[x] = heap[x] \/ heap'[x] = [heap[x] EXCEPT !.age = Smaller(@ + 1, OldAge)]
        BY <1>10 DEF Tick
      <4>3. Smaller(heap[x].age + 1, OldAge) \in 0..OldAge
        BY <4>1, Ages DEF Smaller, Contents
      <4> QED
        BY <4>1, <4>2, <4>3 DEF Contents
    <3>3. DOMAIN heap' = Entry /\ heap' = [x \in Entry |-> heap'[x]]
      BY <1>10 DEF Tick
    <3> QED
      BY <1>10, <3>2, <3>3 DEF Tick
  <2>2. \A x \in Listed(lru) : heap'[x].key = heap[x].key
    BY <2>1, <1>0 DEF Listed, TypeOK
  <2>3. Matches(lru', items', heap')
    BY <2>1, <2>2, <1>0, SameMatches
  <2> QED
    BY <2>1, <2>3, <1>0 DEF TypeOK, Holding, locals
<1>11. CASE UNCHANGED vars
  BY <1>11, <1>0 DEF vars, locals, TypeOK, Holding
<1> QED
  BY <1>1, <1>2, <1>3, <1>4, <1>5, <1>6, <1>7, <1>8, <1>9, <1>10, <1>11 DEF Next

LEMMA Invariance == Spec => []IInv
  BY InvStart, InvStep, PTL DEF Spec

(* Every state of the cache and of the Gets in progress is type-correct. *)
THEOREM TypeCorrect == Spec => []TypeOK
<1>1. IInv => TypeOK
  BY DEF IInv, TypeInv
<1> QED
  BY <1>1, Invariance, PTL

(* removeLocked's "keeping the LRU list consistent", for every path: the map *)
(* and the list always hold the same entries, and never more than fit.       *)
THEOREM ConsistentHolds == Spec => []Consistent
<1>1. IInv => Consistent
  BY ConsistentMatches DEF IInv, TypeInv, TypeOK
<1> QED
  BY <1>1, Invariance, PTL
-----------------------------------------------------------------------------
(* What a Get holds stays what it was. *)
GetStep(g) ==
  \/ \E k \in Key : Find(g, k)
  \/ Check(g) \/ Remove(g) \/ ReadTTL(g) \/ WriteTTL(g) \/ Touch(g) \/ Copy(g) \/ Return(g)

Same(g) ==
  /\ pc'[g] = pc[g] /\ key'[g] = key[g] /\ ptr'[g] = ptr[g]
  /\ elapsed'[g] = elapsed[g] /\ ttl'[g] = ttl[g] /\ earliest'[g] = earliest[g]

LEMMA OthersSame ==
  ASSUME TypeOK, NEW f \in Getter, GetStep(f), NEW g \in Getter, g # f
  PROVE  Same(g)
BY DEF TypeOK, GetStep, Find, Check, Remove, ReadTTL, WriteTTL, Touch, Copy, Return, Idle, Same

(* An entry that a Get goes on holding keeps its contents but for the TTL that a *)
(* Get writes to it and the age that a tick adds to.                             *)
Written(e) == \E f \in Getter : WriteTTL(f) /\ ptr[f] = e /\ heap'[e] = [heap[e] EXCEPT !.ttl = ttl[f]]

Older(e) == Tick /\ heap'[e] = [heap[e] EXCEPT !.age = Smaller(@ + 1, OldAge)]

LEMMA HeldKept ==
  ASSUME IInv, [Next]_vars, NEW g \in Getter, ptr[g] \in Entry, ptr'[g] = ptr[g]
  PROVE  LET e == ptr[g] IN heap'[e] = heap[e] \/ Written(e) \/ Older(e)
<1> DEFINE e == ptr[g]
<1>1. TypeOK /\ e \in Entry /\ e \in InUse'
  BY DEF IInv, TypeInv, InUse
<1>2. ASSUME NEW f \in Getter, GetStep(f) PROVE heap'[e] = heap[e] \/ Written(e)
  <2>1. CASE WriteTTL(f)
    <3>1. heap' = [heap EXCEPT ![ptr[f]].ttl = ttl[f]]
      BY <2>1 DEF WriteTTL
    <3>2. CASE ptr[f] = e
      <4>1. heap'[e] = [heap[e] EXCEPT !.ttl = ttl[f]]
        BY <1>1, <3>1, <3>2 DEF TypeOK
      <4>2. QED
        BY <2>1, <3>2, <4>1 DEF Written
    <3>3. CASE ptr[f] # e
      BY <1>1, <3>1, <3>3 DEF TypeOK
    <3>4. QED
      BY <3>2, <3>3
  <2>2. CASE Remove(f) \/ Return(f)
    <3>1. heap' = Collected(heap)
      BY <2>2 DEF Remove, Return
    <3>2. QED
      BY <1>1, <3>1 DEF Collected
  <2>3. CASE (\E k \in Key : Find(f, k)) \/ Check(f) \/ ReadTTL(f) \/ Touch(f) \/ Copy(f)
    BY <2>3 DEF Find, Check, ReadTTL, Touch, Copy
  <2>4. QED
    BY <1>2, <2>1, <2>2, <2>3 DEF GetStep
<1>3. ASSUME NEW k \in Key, NEW t \in RecordTTLs \cup {NoAnswer}, Set(k, t) PROVE heap'[e] = heap[e]
  <2>1. PICK x \in Entry \ InUse : \E new : heap' = Collected([heap EXCEPT ![x] = new])
    BY <1>3 DEF Set
  <2>2. x # e
    BY DEF InUse
  <2>3. QED
    BY <1>1, <2>1, <2>2 DEF Collected, TypeOK
<1>4. CASE Tick
  <2>1. e \in InUse
    BY DEF InUse
  <2>2. QED
    BY <1>1, <1>4, <2>1 DEF Tick, Older
<1>5. CASE UNCHANGED vars
  BY <1>5 DEF vars
<1>6. QED
  BY <1>2, <1>3, <1>4, <1>5 DEF Next, GetStep

(* A Get goes on with what it holds, or takes a step of its own. *)
LEMMA OwnStep ==
  ASSUME IInv, [Next]_vars, NEW g \in Getter
  PROVE  Same(g) \/ GetStep(g)
<1>1. TypeOK
  BY DEF IInv, TypeInv
<1>2. ASSUME NEW f \in Getter, GetStep(f) PROVE Same(g) \/ GetStep(g)
  BY <1>1, <1>2, OthersSame
<1>3. CASE UNCHANGED locals
  BY <1>3 DEF locals, Same
<1>4. QED
  BY <1>2, <1>3 DEF Next, GetStep, Set, Tick, vars

-----------------------------------------------------------------------------
(* A Get that met an expired entry holds one: ages only grow. *)
Stale == \A g \in Getter : pc[g] = "expired" => Expired(ptr[g])

LEMMA GrowsOlder ==
  ASSUME IInv, [Next]_vars, NEW g \in Getter, ptr[g] \in Entry, ptr'[g] = ptr[g]
  PROVE  LET e == ptr[g]
         IN  /\ heap'[e].life = heap[e].life /\ heap'[e].stored = heap[e].stored
             /\ heap'[e].age >= heap[e].age /\ heap'[e].age \in Nat
             /\ heap'[e].ttl = heap[e].ttl \/ Written(e)
<1> DEFINE e == ptr[g]
<1>1. /\ heap[e] \in Contents /\ heap[e].age \in Nat /\ heap[e].age <= OldAge /\ OldAge \in Nat
  BY Ages DEF IInv, TypeInv, TypeOK, Contents
<1>2. CASE heap'[e] = heap[e]
  BY <1>1, <1>2
<1>3. CASE Written(e)
  <2>1. PICK n : heap'[e] = [heap[e] EXCEPT !.ttl = n]
    BY <1>3 DEF Written
  <2>2. /\ heap'[e].life = heap[e].life /\ heap'[e].stored = heap[e].stored
        /\ heap'[e].age = heap[e].age
    BY <1>1, <2>1 DEF Contents
  <2>3. QED
    BY <1>1, <1>3, <2>2
<1>4. CASE Older(e)
  BY <1>1, <1>4 DEF Older, Smaller, Contents
<1>5. QED
  BY <1>2, <1>3, <1>4, HeldKept

LEMMA StaleStep == IInv /\ Stale /\ [Next]_vars => Stale'
<1> SUFFICES ASSUME IInv, Stale, [Next]_vars, NEW g \in Getter, pc'[g] = "expired"
             PROVE  Expired(ptr[g])'
  BY DEF Stale
<1>1. TypeOK /\ Holding
  BY DEF IInv, TypeInv
<1>2. ptr'[g] = ptr[g] /\ ptr[g] \in Entry /\ Expired(ptr[g])
  <2>1. CASE Same(g)
    BY <1>1, <2>1 DEF Same, Holding, Stale
  <2>2. CASE GetStep(g)
    <3>1. Check(g)
      BY <1>1, <2>2 DEF GetStep, Find, Remove, ReadTTL, WriteTTL, Touch, Copy, Return, Idle, TypeOK
    <3>2. QED
      BY <1>1, <3>1 DEF Check, Aged, Holding, TypeOK
  <2>3. QED
    BY <2>1, <2>2, OwnStep
<1>3. heap[ptr[g]].age \in Nat /\ heap[ptr[g]].life \in Nat
  BY <1>1, <1>2, Ages DEF TypeOK, Contents
<1>4. heap'[ptr[g]].life = heap[ptr[g]].life /\ heap'[ptr[g]].age >= heap[ptr[g]].age
      /\ heap'[ptr[g]].age \in Nat
  BY <1>2, GrowsOlder
<1>5. QED
  BY <1>2, <1>3, <1>4 DEF Expired

-----------------------------------------------------------------------------
(* What Set evicts: the back of a full cache in which nothing has expired, or *)
(* an entry that has.                                                         *)
LEMMA Evicts ==
  ASSUME IInv, NEW j \in Key, NEW t \in RecordTTLs \cup {NoAnswer}, Set(j, t),
         NEW k \in Key, Dropped(k)
  PROVE  /\ Len(lru) = MaxSize /\ items[k] = lru[MaxSize]
         /\ \A i \in DOMAIN lru : ~Expired(lru[i])
<1>1. TypeOK /\ Matches(lru, items, heap) /\ Len(lru) <= MaxSize /\ Unique(lru)
  BY DEF IInv, TypeInv, Matches
<1>2. /\ heap \in [Entry -> Contents] /\ lru \in Seq(Entry) /\ items \in [Key -> Entry \cup {None}]
      /\ Len(lru) \in Nat /\ MaxSize \in Nat /\ MaxSize > 0
  BY <1>1, Ages DEF TypeOK
<1> DEFINE new == [key |-> j, age |-> 0, life |-> Lifetime(t),
                   stored |-> IF t = NoAnswer THEN 0 ELSE t,
                   ttl |-> IF t = NoAnswer THEN 0 ELSE t]
           H(e) == [heap EXCEPT ![e] = new]
           L(e) == PushFront(Replaced(j), e)
           M(e) == [items EXCEPT ![j] = e]
           V(e) == Victim(L(e), H(e))
<1>3. PICK e \in Entry \ InUse :
        IF Len(L(e)) <= MaxSize THEN lru' = L(e) /\ items' = M(e)
        ELSE /\ lru' = Without(L(e), V(e))
             /\ items' = [M(e) EXCEPT ![H(e)[V(e)].key] = None]
  BY DEF Set
<1> DEFINE h == H(e)
           l == L(e)
           m == M(e)
           v == V(e)
<1>4. items[k] # None /\ ~Expired(items[k]) /\ items'[k] = None /\ items[k] \in Listed(lru) /\ heap[items[k]].key = k
  BY <1>1 DEF Dropped, Matches
<1>5. e \in Entry /\ e \notin Listed(lru) /\ e # None
  BY Ages DEF InUse
<1>6. m[k] # None
  BY <1>2, <1>4, <1>5
<1>7. ~(Len(l) <= MaxSize) /\ items' = [m EXCEPT ![h[v].key] = None]
  BY <1>3, <1>4, <1>6
<1>8. Replaced(j) = lru /\ Len(lru) = MaxSize /\ Len(l) = MaxSize + 1 /\ items[j] = None
  <2>1. CASE items[j] = None
    <3>1. Replaced(j) = lru
      BY <2>1 DEF Replaced
    <3>2. Len(l) = Len(lru) + 1
      BY <1>1, <1>2, <1>5, <3>1, PushFacts
    <3>3. QED
      BY <1>1, <1>2, <1>7, <2>1, <3>1, <3>2
  <2>2. CASE items[j] # None
    <3>1. items[j] \in Listed(lru)
      BY <1>1, <2>2 DEF Matches
    <3>2. /\ Replaced(j) \in Seq(Entry) /\ Unique(Replaced(j)) /\ Len(Replaced(j)) = Len(lru) - 1
          /\ e \notin Listed(Replaced(j))
      BY <1>1, <1>2, <1>5, <2>2, <3>1, WithoutFacts DEF Replaced
    <3>3. Len(l) = Len(lru)
      BY <1>2, <1>5, <3>2, PushFacts
    <3>4. QED
      BY <1>1, <1>7, <3>3
  <2>3. QED
    BY <2>1, <2>2
<1>9. /\ l \in Seq(Entry) /\ l[1] = e /\ \A i \in DOMAIN lru : i + 1 \in DOMAIN l /\ l[i + 1] = lru[i]
      /\ l[Len(l)] = lru[MaxSize] /\ MaxSize \in DOMAIN lru
  <2>1. l = <<e>> \o lru
    BY <1>8 DEF PushFront
  <2>2. QED
    BY <1>2, <1>5, <1>8, <2>1
<1>10. h[e] = new /\ \A x \in Entry : x # e => h[x] = heap[x]
  BY <1>2, <1>5
<1>11. \A i \in DOMAIN lru : lru[i] \in Entry /\ lru[i] # e
  BY <1>2, <1>5 DEF Listed
<1> DEFINE old == {i \in DOMAIN l : h[l[i]].age > h[l[i]].life}
<1>12. old = {}
  <2> SUFFICES ASSUME old # {} PROVE FALSE
    OBVIOUS
  <2> HIDE DEF h, l, m
  <2>1. PICK i \in old : v = l[i]
    <3>1. Len(l) \in Nat /\ old \in SUBSET (1..Len(l))
      BY <1>8, <1>9
    <3>2. \E i \in old : \A x \in old : x <= i
      BY <3>1, LastPosition
    <3>3. v = l[CHOOSE i \in old : \A x \in old : x <= i]
      BY DEF Victim, h, l
    <3>4. QED
      BY <3>2, <3>3
  <2>2. i # 1
    <3>1. new.age = 0 /\ new.life \in Nat
      BY Ages
    <3>2. i = 1 => 0 > new.life
      BY <1>9, <1>10, <3>1
    <3>3. QED
      BY <3>1, <3>2
  <2>3. PICK p \in DOMAIN lru : v = lru[p]
    <3>1. i - 1 \in DOMAIN lru /\ (i - 1) + 1 = i
      BY <1>2, <1>8, <1>9, <2>2
    <3>2. QED
      BY <1>9, <2>1, <3>1
  <2>4. Expired(v) /\ v \in Entry /\ h[v] = heap[v] /\ v \in Listed(lru)
    BY <1>10, <1>11, <2>1, <2>3 DEF Expired, Listed
  <2>5. heap[v].key # k
    BY <1>1, <1>4, <2>4 DEF Matches
  <2>6. items'[k] = m[k]
    BY <1>7, <2>4, <2>5, <1>2 DEF m
  <2>7. QED
    BY <1>4, <1>6, <2>6
<1>13. v = lru[MaxSize]
  BY <1>9, <1>12 DEF Victim
<1>14. items[k] = lru[MaxSize]
  <2>1. h[v] = heap[v] /\ v \in Listed(lru)
    BY <1>9, <1>10, <1>11, <1>13 DEF Listed
  <2> HIDE DEF h, l, m, v
  <2>2. k = heap[v].key
    <3>1. k # h[v].key => items'[k] = m[k]
      BY <1>7, <1>2 DEF m
    <3>2. QED
      BY <1>4, <1>6, <2>1, <3>1
  <2>3. QED
    BY <1>1, <1>13, <2>1, <2>2 DEF Matches
<1>15. ASSUME NEW i \in DOMAIN lru PROVE ~Expired(lru[i])
  <2>1. l[i + 1] = lru[i] /\ i + 1 \in DOMAIN l /\ h[lru[i]] = heap[lru[i]]
    BY <1>9, <1>10, <1>11
  <2> HIDE DEF h, l
  <2>2. ~(h[l[i + 1]].age > h[l[i + 1]].life)
    BY <1>12, <2>1
  <2>3. QED
    BY <2>1, <2>2 DEF Expired
<1>16. QED
  BY <1>8, <1>14, <1>15

(* A live entry leaves the cache only as the back of a full cache in which      *)
(* nothing has expired, or under a Get that met its expired predecessor; never  *)
(* by another key's removal, and never while an expired entry could go instead. *)
THEOREM LiveEntriesStayHolds == Spec => LiveEntriesStay
<1> DEFINE Allowed ==
      \A k \in Key : Dropped(k) =>
        \/ \E g \in Getter : pc[g] = "expired" /\ key[g] = k /\ ptr[g] # items[k]
        \/ /\ Len(lru) = MaxSize /\ items[k] = lru[MaxSize]
           /\ \A i \in DOMAIN lru : ~Expired(lru[i])
<1>1. Init => IInv /\ Stale
  BY InvStart DEF Init, Stale
<1>2. IInv /\ Stale /\ [Next]_vars => (IInv /\ Stale)'
  BY InvStep, StaleStep
<1>3. IInv /\ Stale /\ [Next]_vars => [Allowed]_vars
  <2> SUFFICES ASSUME IInv, Stale, Next, NEW k \in Key, Dropped(k)
               PROVE  \/ \E g \in Getter : pc[g] = "expired" /\ key[g] = k /\ ptr[g] # items[k]
                      \/ /\ Len(lru) = MaxSize /\ items[k] = lru[MaxSize]
                         /\ \A i \in DOMAIN lru : ~Expired(lru[i])
    OBVIOUS
  <2>1. TypeOK /\ items[k] # None /\ ~Expired(items[k]) /\ items'[k] = None
    BY DEF IInv, TypeInv, Dropped
  <2>2. ASSUME NEW g \in Getter, GetStep(g)
        PROVE  pc[g] = "expired" /\ key[g] = k /\ ptr[g] # items[k]
    <3>1. Remove(g)
      BY <2>1, <2>2 DEF GetStep, Find, Check, ReadTTL, WriteTTL, Touch, Copy, Return
    <3>2. pc[g] = "expired" /\ key[g] = k
      BY <2>1, <3>1 DEF Remove, TypeOK
    <3>3. QED
      BY <2>1, <3>2 DEF Stale
  <2>3. ASSUME NEW j \in Key, NEW t \in RecordTTLs \cup {NoAnswer}, Set(j, t)
        PROVE  /\ Len(lru) = MaxSize /\ items[k] = lru[MaxSize]
               /\ \A i \in DOMAIN lru : ~Expired(lru[i])
    BY <2>3, Evicts
  <2>4. ~Tick
    BY <2>1 DEF Tick
  <2>5. QED
    BY <2>2, <2>3, <2>4 DEF Next, GetStep
<1>4. QED
  BY <1>1, <1>2, <1>3, PTL DEF Spec, LiveEntriesStay

-----------------------------------------------------------------------------
(* The TTL of an entry and of the Gets at work on it.  A Get read the clock no    *)
(* earlier than its earliest says, and so did whoever may still write to its entry *)
(* (Ordered); so however late another's write comes, it leaves no more than what   *)
(* was left by then (Bounded), of no more than was stored (Shrinking).             *)
Working == {"read", "write", "touch", "copy", "done"}

Ordered(g) ==
  pc[g] \in Working =>
    /\ earliest[g] <= elapsed[g] /\ elapsed[g] <= heap[ptr[g]].age
    /\ \A f \in Ageing(ptr[g]) : earliest[g] <= elapsed[f]

Bounded(g) ==
  /\ pc[g] = "write" => ttl[g] <= Left(heap[ptr[g]].stored, elapsed[g])
  /\ pc[g] \in {"touch", "copy"} => heap[ptr[g]].ttl <= Left(heap[ptr[g]].stored, earliest[g])
  /\ pc[g] = "done" => ttl[g] <= Left(heap[ptr[g]].stored, earliest[g])

Shrinking == \A e \in Entry : heap[e].ttl <= heap[e].stored

TTLInv == Shrinking /\ \A g \in Getter : Ordered(g) /\ Bounded(g)

LEMMA LeftShrinks ==
  ASSUME NEW s \in Nat, NEW a \in Nat, NEW b \in Nat, a <= b
  PROVE  Left(s, b) <= Left(s, a) /\ Left(s, a) <= s /\ Left(s, a) \in Nat
BY DEF Left

(* A Get at work on an entry goes on with the clock it has read, or reads it. *)
LEMMA ReadsClock ==
  ASSUME IInv, [Next]_vars, NEW g \in Getter, pc'[g] \in Working
  PROVE  /\ ptr'[g] = ptr[g] /\ ptr[g] \in Entry
         /\ \/ /\ pc[g] \in Working /\ elapsed'[g] = elapsed[g] /\ earliest'[g] = earliest[g]
               /\ pc'[g] \in {"read", "write"} => pc[g] \in {"read", "write"}
            \/ Check(g) /\ elapsed'[g] = heap[ptr[g]].age
<1>1. TypeOK /\ Holding
  BY DEF IInv, TypeInv
<1>2. CASE Same(g)
  BY <1>1, <1>2 DEF Same, Holding, Working
<1>3. CASE Check(g)
  BY <1>1, <1>3 DEF Check, Holding, TypeOK
<1>4. CASE ReadTTL(g) \/ WriteTTL(g) \/ Touch(g) \/ Copy(g)
  BY <1>1, <1>4 DEF ReadTTL, WriteTTL, Touch, Copy, Holding, TypeOK, Working
<1>5. CASE Remove(g) \/ Return(g) \/ \E k \in Key : Find(g, k)
  BY <1>1, <1>5 DEF Remove, Return, Find, Idle, TypeOK, Working
<1>6. QED
  BY <1>2, <1>3, <1>4, <1>5, OwnStep DEF GetStep

LEMMA OrderedStep ==
  ASSUME IInv, TTLInv, [Next]_vars, NEW g \in Getter
  PROVE  Ordered(g)'
<1> SUFFICES ASSUME pc'[g] \in Working PROVE Ordered(g)'
  BY DEF Ordered
<1> DEFINE e == ptr[g]
<1>1. TypeOK /\ Holding /\ Ordered(g) /\ ptr'[g] = e /\ e \in Entry
  BY ReadsClock DEF IInv, TypeInv, TTLInv
<1>2. /\ heap[e].age \in 0..OldAge /\ elapsed \in [Getter -> 0..OldAge] /\ earliest[g] \in Nat
      /\ \A n \in 0..OldAge : n \in Nat
  BY <1>1, Ages DEF TypeOK, Contents
<1>3. heap'[e].age \in Nat /\ heap'[e].age >= heap[e].age
  BY <1>1, GrowsOlder
<1>4. ASSUME NEW f \in Getter, f \in Ageing(e)'
      PROVE  \/ f \in Ageing(e) /\ elapsed'[f] = elapsed[f]
             \/ Check(f) /\ elapsed'[f] = heap[e].age
  <2>1. ptr'[f] = e /\ pc'[f] \in {"read", "write"}
    BY <1>1, <1>4 DEF Ageing
  <2>2. QED
    BY <2>1, ReadsClock DEF Working, Ageing
<1>5. CASE /\ pc[g] \in Working /\ elapsed'[g] = elapsed[g] /\ earliest'[g] = earliest[g]
  <2>1. earliest[g] <= elapsed[g] /\ elapsed[g] <= heap[e].age /\ \A f \in Ageing(e) : earliest[g] <= elapsed[f]
    BY <1>1, <1>5 DEF Ordered
  <2>2. earliest'[g] <= elapsed'[g] /\ elapsed'[g] <= heap'[e].age
    BY <1>2, <1>3, <1>5, <2>1
  <2>3. ASSUME NEW f \in Getter, f \in Ageing(e)' PROVE earliest'[g] <= elapsed'[f]
    <3>1. earliest[g] <= heap[e].age
      BY <1>2, <2>1
    <3>2. QED
      BY <1>4, <1>5, <2>1, <2>3, <3>1
  <2>4. QED
    BY <1>1, <2>2, <2>3 DEF Ordered, Ageing
<1>6. CASE Check(g) /\ elapsed'[g] = heap[e].age
  <2> DEFINE S == {heap[e].age} \cup {elapsed[f] : f \in Ageing(e)}
  <2>1. S \in SUBSET (0..OldAge) /\ S # {}
    BY <1>2 DEF Ageing
  <2>2. Least(S) \in S /\ \A m \in S : Least(S) <= m
    BY <2>1, LeastFacts
  <2>3. earliest'[g] = Least(S) /\ heap' = heap
    BY <1>1, <1>6 DEF Check, TypeOK
  <2>4. earliest'[g] <= elapsed'[g] /\ elapsed'[g] <= heap'[e].age
    BY <1>2, <1>6, <2>2, <2>3
  <2>5. ASSUME NEW f \in Getter, f \in Ageing(e)' PROVE earliest'[g] <= elapsed'[f]
    BY <1>4, <2>2, <2>3, <2>5
  <2>6. QED
    BY <1>1, <2>4, <2>5 DEF Ordered, Ageing
<1>7. QED
  BY <1>5, <1>6, ReadsClock

LEMMA ShrinkingStep == IInv /\ TTLInv /\ [Next]_vars => Shrinking'
<1> SUFFICES ASSUME IInv, TTLInv, [Next]_vars PROVE Shrinking'
  OBVIOUS
<1>1. TypeOK /\ Holding /\ Shrinking
  BY DEF IInv, TypeInv, TTLInv
<1>2. Blank.ttl <= Blank.stored
  BY DEF Blank
<1>3. \A h \in [Entry -> Contents] :
        (\A e \in Entry : h[e].ttl <= h[e].stored)
          => \A e \in Entry : Collected(h)[e].ttl <= Collected(h)[e].stored
  BY <1>2 DEF Collected
<1>4. ASSUME NEW g \in Getter, GetStep(g) PROVE Shrinking'
  <2>1. CASE WriteTTL(g)
    <3>1. /\ heap' = [heap EXCEPT ![ptr[g]].ttl = ttl[g]] /\ pc[g] = "write" /\ ptr[g] \in Entry
          /\ ttl[g] <= Left(heap[ptr[g]].stored, elapsed[g])
      BY <1>1, <2>1 DEF WriteTTL, Holding, TTLInv, Bounded
    <3>2. heap[ptr[g]].stored \in Nat /\ elapsed[g] \in Nat /\ ttl[g] \in Nat
      BY <1>1, <3>1, Ages DEF TypeOK, Contents
    <3>3. ttl[g] <= heap[ptr[g]].stored
      BY <3>1, <3>2, LeftShrinks
    <3>4. ASSUME NEW e \in Entry PROVE heap'[e].ttl <= heap'[e].stored
      <4>1. heap[e] \in Contents
        BY <1>1 DEF TypeOK
      <4>2. CASE e = ptr[g]
        BY <1>1, <3>1, <3>3, <4>1, <4>2 DEF TypeOK, Contents
      <4>3. CASE e # ptr[g]
        BY <1>1, <3>1, <4>3 DEF TypeOK, Shrinking
      <4>4. QED
        BY <4>2, <4>3
    <3>5. QED
      BY <3>4 DEF Shrinking
  <2>2. CASE Remove(g) \/ Return(g)
    <3>1. heap' = Collected(heap)
      BY <2>2 DEF Remove, Return
    <3>2. QED
      BY <1>1, <1>3, <3>1 DEF Shrinking, TypeOK
  <2>3. CASE (\E k \in Key : Find(g, k)) \/ Check(g) \/ ReadTTL(g) \/ Touch(g) \/ Copy(g)
    BY <1>1, <2>3 DEF Find, Check, ReadTTL, Touch, Copy, Shrinking
  <2>4. QED
    BY <1>4, <2>1, <2>2, <2>3 DEF GetStep
<1>5. ASSUME NEW k \in Key, NEW t \in RecordTTLs \cup {NoAnswer}, Set(k, t) PROVE Shrinking'
  <2> DEFINE new == [key |-> k, age |-> 0, life |-> Lifetime(t),
                     stored |-> IF t = NoAnswer THEN 0 ELSE t,
                     ttl |-> IF t = NoAnswer THEN 0 ELSE t]
  <2>1. PICK x \in Entry \ InUse : heap' = Collected([heap EXCEPT ![x] = new])
    BY <1>5 DEF Set
  <2>2. new \in Contents /\ new.ttl <= new.stored
    BY Ages DEF Contents
  <2> HIDE DEF new
  <2> DEFINE h == [heap EXCEPT ![x] = new]
  <2>3. h \in [Entry -> Contents] /\ \A e \in Entry : h[e].ttl <= h[e].stored
    BY <1>1, <2>2 DEF TypeOK, Shrinking
  <2>4. QED
    BY <1>3, <2>1, <2>3 DEF Shrinking
<1>6. CASE Tick
  <2>1. ASSUME NEW e \in Entry PROVE heap'[e].ttl = heap[e].ttl /\ heap'[e].stored = heap[e].stored
    <3>1. heap[e] \in Contents
      BY <1>1 DEF TypeOK
    <3>2. heap'[e] = heap[e] \/ heap'[e] = [heap[e] EXCEPT !.age = Smaller(@ + 1, OldAge)]
      BY <1>6 DEF Tick
    <3>3. QED
      BY <3>1, <3>2 DEF Contents
  <2>2. QED
    BY <1>1, <2>1 DEF Shrinking
<1>7. CASE UNCHANGED vars
  BY <1>1, <1>7 DEF vars, Shrinking
<1>8. QED
  BY <1>4, <1>5, <1>6, <1>7 DEF Next, GetStep

LEMMA BoundedStep ==
  ASSUME IInv, TTLInv, [Next]_vars, NEW g \in Getter
  PROVE  Bounded(g)'
<1> SUFFICES ASSUME pc'[g] \in Working PROVE Bounded(g)'
  BY DEF Bounded, Working
<1> DEFINE e == ptr[g]
<1>1. TypeOK /\ Shrinking /\ Ordered(g) /\ Bounded(g) /\ ptr'[g] = e /\ e \in Entry
  BY ReadsClock DEF IInv, TypeInv, TTLInv
<1>2. /\ heap[e] \in Contents /\ heap[e].ttl \in Nat /\ heap[e].stored \in Nat /\ heap[e].age \in Nat
      /\ heap[e].ttl <= heap[e].stored /\ elapsed[g] \in Nat /\ ttl[g] \in Nat /\ earliest[g] \in Nat
  BY <1>1, Ages DEF TypeOK, Contents, Shrinking
<1>3. heap'[e].stored = heap[e].stored /\ (heap'[e].ttl = heap[e].ttl \/ Written(e))
  BY <1>1, GrowsOlder
<1>4. ASSUME Written(e), pc[g] \in Working
      PROVE  heap'[e].ttl <= Left(heap[e].stored, earliest[g])
  <2>1. PICK f \in Getter : WriteTTL(f) /\ ptr[f] = e /\ heap'[e] = [heap[e] EXCEPT !.ttl = ttl[f]]
    BY <1>4 DEF Written
  <2>2. pc[f] = "write" /\ ttl[f] <= Left(heap[e].stored, elapsed[f])
    BY <2>1 DEF WriteTTL, TTLInv, Bounded
  <2>3. earliest[g] <= elapsed[f]
    BY <1>1, <1>4, <2>1, <2>2 DEF Ordered, Ageing
  <2>4. elapsed[f] \in Nat /\ ttl[f] \in Nat
    BY <1>1, Ages DEF TypeOK
  <2>5. heap'[e].ttl = ttl[f]
    BY <1>2, <2>1 DEF Contents
  <2>6. Left(heap[e].stored, elapsed[f]) <= Left(heap[e].stored, earliest[g])
        /\ Left(heap[e].stored, elapsed[f]) \in Nat /\ Left(heap[e].stored, earliest[g]) \in Nat
    BY <1>2, <2>3, <2>4, LeftShrinks
  <2>7. QED
    BY <2>2, <2>4, <2>5, <2>6
<1>5. CASE Same(g)
  <2>1. pc[g] \in Working /\ elapsed'[g] = elapsed[g] /\ ttl'[g] = ttl[g] /\ earliest'[g] = earliest[g]
        /\ pc'[g] = pc[g]
    BY <1>5 DEF Same
  <2>2. QED
    BY <1>1, <1>3, <1>4, <2>1 DEF Bounded
<1>6. CASE Check(g)
  <2>1. /\ heap' = heap /\ elapsed'[g] = heap[e].age /\ earliest'[g] \in Nat
        /\ pc'[g] \in {"read", "touch"} /\ (pc'[g] = "touch" => ~(heap[e].age > 0))
    <3>1. TypeOK'
      BY InvStep DEF IInv, TypeInv
    <3>2. earliest'[g] \in Nat
      BY <3>1, Ages DEF TypeOK
    <3>3. QED
      BY <1>1, <1>6, <3>2 DEF Check, Aged, TypeOK, Working
  <2>2. earliest'[g] <= heap[e].age
    BY <1>1, <2>1, OrderedStep DEF Ordered
  <2>3. pc'[g] = "touch" => heap[e].ttl <= Left(heap[e].stored, earliest'[g])
    <3>1. ASSUME NEW n \in Nat, n <= heap[e].age, ~(heap[e].age > 0)
          PROVE  heap[e].ttl <= Left(heap[e].stored, n)
      BY <1>2, <3>1 DEF Left
    <3>2. QED
      BY <2>1, <2>2, <3>1
  <2>4. QED
    BY <1>1, <2>1, <2>3 DEF Bounded
<1>7. CASE ReadTTL(g)
  <2>1. /\ pc[g] = "read" /\ pc'[g] = "write" /\ heap' = heap /\ elapsed' = elapsed
        /\ ttl'[g] = Decremented(heap[e].ttl, elapsed[g])
    BY <1>1, <1>7 DEF ReadTTL, TypeOK
  <2>2. Decremented(heap[e].ttl, elapsed[g]) <= Left(heap[e].stored, elapsed[g])
    BY <1>2 DEF Decremented, Left
  <2>3. QED
    BY <1>1, <2>1, <2>2 DEF Bounded
<1>8. CASE WriteTTL(g)
  <2>1. pc[g] = "write" /\ pc'[g] = "touch" /\ earliest' = earliest /\ Written(e)
    <3>1. heap'[e] = [heap[e] EXCEPT !.ttl = ttl[g]]
      BY <1>1, <1>8 DEF WriteTTL, TypeOK
    <3>2. QED
      BY <1>1, <1>8, <3>1 DEF WriteTTL, TypeOK, Written
  <2>2. heap'[e].ttl <= Left(heap[e].stored, earliest[g])
    BY <1>4, <2>1 DEF Working
  <2>3. QED
    BY <1>1, <1>3, <2>1, <2>2 DEF Bounded
<1>9. CASE Touch(g)
  <2>1. pc[g] = "touch" /\ pc'[g] = "copy" /\ UNCHANGED <<heap, earliest>>
    BY <1>1, <1>9 DEF Touch, TypeOK
  <2>2. QED
    BY <1>1, <2>1 DEF Bounded
<1>10. CASE Copy(g)
  <2>1. pc[g] = "copy" /\ pc'[g] = "done" /\ UNCHANGED <<heap, earliest>> /\ ttl'[g] = heap[e].ttl
    BY <1>1, <1>10 DEF Copy, TypeOK
  <2>2. QED
    BY <1>1, <2>1 DEF Bounded
<1>11. CASE Remove(g) \/ Return(g) \/ \E k \in Key : Find(g, k)
  BY <1>1, <1>11 DEF Remove, Return, Find, Idle, TypeOK, Working
<1>12. QED
  BY <1>5, <1>6, <1>7, <1>8, <1>9, <1>10, <1>11, OwnStep DEF GetStep

(* No hit carries a TTL longer than what is left of the stored one by the earliest *)
(* clock reading of the Gets at work on the entry when it read its own, however    *)
(* many they are, however long they take, and whatever Sets come in between.       *)
THEOREM TTLNotTooLongHolds == Spec => []TTLNotTooLong
<1>1. Init => IInv /\ TTLInv
  <2>1. Init => TTLInv
    BY DEF Init, TTLInv, Shrinking, Ordered, Bounded, Blank, Working
  <2>2. QED
    BY <2>1, InvStart
<1>2. IInv /\ TTLInv /\ [Next]_vars => (IInv /\ TTLInv)'
  BY InvStep, ShrinkingStep, OrderedStep, BoundedStep DEF TTLInv
<1>3. TTLInv => TTLNotTooLong
  BY DEF TTLInv, Bounded, TTLNotTooLong
<1>4. QED
  BY <1>1, <1>2, <1>3, PTL DEF Spec
=============================================================================
