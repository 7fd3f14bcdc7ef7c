--------------------------- MODULE UpstreamProofs ---------------------------
(***************************************************************************)
(* Proofs about the upstreams.  About ConnPool, for every pool size and    *)
(* any sets of workers and connections: no slot leaks, no connection is    *)
(* shared, and none that failed is used again.  About UpstreamPool, for    *)
(* every number of upstreams with any priorities and timeouts and any      *)
(* requests: the tiers are tried in order, each upstream once, and as many *)
(* as the deadline has time for.                                           *)
(***************************************************************************)
EXTENDS ConnPool, UpstreamPool, FiniteSetTheorems, TLAPS

-----------------------------------------------------------------------------
(* The pool of upstreams *)

Times == [Upstream -> 0..MaxTime]

(* Upstreams in an order to try them: none twice, none before a higher priority. *)
Occurring(list) == {list[i] : i \in DOMAIN list}

InTiers(list) ==
  /\ list \in Seq(Upstream)
  /\ \A i, j \in DOMAIN list : list[i] = list[j] => i = j
  /\ \A i, j \in DOMAIN list : i < j => Priority[list[i]] >= Priority[list[j]]

(* The place of an upstream in the sorted list. *)
Below(u, times) == {v \in Upstream : Less(v, u, times)}

Place(u, times) == 1 + Cardinality(Below(u, times))

LEMMA Sizes ==
  /\ Upstreams \in Nat /\ Upstream = 1..Upstreams
  /\ IsFiniteSet(Upstream) /\ Cardinality(Upstream) = Upstreams
  /\ Priority \in [Upstream -> Int]
<1>1. Upstreams \in Nat /\ Priority \in [Upstream -> Int]
  BY UpstreamPoolAssumption DEF Upstream
<1>2. IsFiniteSet(1..Upstreams) /\ Cardinality(1..Upstreams) = Upstreams
  BY <1>1, FS_Interval
<1>3. QED
  BY <1>1, <1>2 DEF Upstream

(* less is a strict total order. *)
LEMMA LessIsTotal ==
  ASSUME NEW times \in Times, NEW u \in Upstream, NEW v \in Upstream
  PROVE  /\ ~Less(u, u, times)
         /\ u # v => Less(u, v, times) \/ Less(v, u, times)
         /\ \A w \in Upstream :
              Less(u, v, times) /\ Less(v, w, times) => Less(u, w, times)
         /\ Less(u, v, times) => Priority[u] >= Priority[v]
<1>1. \A x \in Upstream : x \in Int /\ times[x] \in Int /\ Priority[x] \in Int
  BY Sizes DEF Times
<1>2. QED
  BY <1>1 DEF Less

(* Lesser upstreams have lower places. *)
LEMMA PlacesRise ==
  ASSUME NEW times \in Times, NEW u \in Upstream, NEW v \in Upstream
  PROVE  /\ Place(u, times) \in Upstream
         /\ Less(u, v, times) => Place(u, times) < Place(v, times)
<1>1. ASSUME NEW x \in Upstream
      PROVE  /\ IsFiniteSet(Below(x, times)) /\ Cardinality(Below(x, times)) \in Nat
             /\ Cardinality(Below(x, times)) < Cardinality(Upstream)
  <2>1. Below(x, times) \in SUBSET Upstream
    BY DEF Below
  <2>2. x \notin Below(x, times)
    BY LessIsTotal DEF Below
  <2>3. Below(x, times) # Upstream
    BY <2>2
  <2>4. /\ IsFiniteSet(Below(x, times))
        /\ Cardinality(Below(x, times)) <= Cardinality(Upstream)
        /\ Cardinality(Below(x, times)) # Cardinality(Upstream)
    BY <2>1, <2>3, Sizes, FS_Subset
  <2>5. Cardinality(Below(x, times)) \in Nat
    BY <2>4, FS_CardinalityType
  <2>6. QED
    BY <2>4, <2>5, Sizes
<1>2. Place(u, times) \in Upstream
  BY <1>1, Sizes DEF Place
<1>3. ASSUME Less(u, v, times) PROVE Place(u, times) < Place(v, times)
  <2>1. Below(u, times) \in SUBSET Below(v, times)
    BY <1>3, LessIsTotal DEF Below
  <2>2. u \in Below(v, times) /\ u \notin Below(u, times)
    BY <1>3, LessIsTotal DEF Below
  <2>3. Below(u, times) # Below(v, times)
    BY <2>2
  <2>4. /\ Cardinality(Below(u, times)) <= Cardinality(Below(v, times))
        /\ Cardinality(Below(u, times)) # Cardinality(Below(v, times))
    BY <1>1, <2>1, <2>3, FS_Subset
  <2>5. QED
    BY <1>1, <2>4 DEF Place
<1>4. QED
  BY <1>2, <1>3

(* Every place is somebody's. *)
LEMMA PlacesTaken ==
  ASSUME NEW times \in Times, NEW i \in Upstream
  PROVE  \E u \in Upstream : Place(u, times) = i
<1> DEFINE f == [u \in Upstream |-> Place(u, times)]
<1>1. f \in [Upstream -> Upstream]
  BY PlacesRise
<1>2. ASSUME NEW u \in Upstream, NEW v \in Upstream, f[u] = f[v] PROVE u = v
  <2>1. Place(u, times) \in Int /\ Place(v, times) \in Int
    BY PlacesRise, Sizes
  <2>2. ~(Place(u, times) < Place(v, times)) /\ ~(Place(v, times) < Place(u, times))
    BY <1>2, <2>1
  <2>3. QED
    BY <2>2, PlacesRise, LessIsTotal
<1>3. f \in Injection(Upstream, Upstream)
  BY <1>1, <1>2 DEF Injection, IsInjective
<1>4. f \in Surjection(Upstream, Upstream)
  BY <1>3, Sizes, FS_Injection
<1>5. QED
  BY <1>4 DEF Surjection

(* sort.Slice: there is a list in the order of less, with every upstream once *)
(* and the tiers in order.                                                    *)
LEMMA SortedFacts ==
  ASSUME NEW times \in Times
  PROVE  InTiers(Sorted(times)) /\ Occurring(Sorted(times)) = Upstream
<1> DEFINE list == Sorted(times)
           Ascending(l) == \A i, j \in Upstream : i < j => Less(l[i], l[j], times)
<1>1. \E l \in [Upstream -> Upstream] : Ascending(l)
  <2> DEFINE l == [i \in Upstream |-> CHOOSE u \in Upstream : Place(u, times) = i]
  <2>1. ASSUME NEW i \in Upstream PROVE l[i] \in Upstream /\ Place(l[i], times) = i
    BY PlacesTaken
  <2>2. ASSUME NEW i \in Upstream, NEW j \in Upstream, i < j
        PROVE  Less(l[i], l[j], times)
    <3>1. l[i] \in Upstream /\ l[j] \in Upstream /\ Place(l[i], times) = i /\ Place(l[j], times) = j
      BY <2>1
    <3> HIDE DEF l
    <3>2. i \in Int /\ j \in Int
      BY Sizes
    <3>3. l[i] # l[j] /\ ~(j < i)
      BY <2>2, <3>1, <3>2
    <3>4. QED
      BY <3>1, <3>3, PlacesRise, LessIsTotal
  <2>3. l \in [Upstream -> Upstream]
    BY <2>1
  <2>4. QED
    BY <2>2, <2>3
<1>2. list \in [Upstream -> Upstream] /\ Ascending(list)
  <2>1. list = CHOOSE l \in [Upstream -> Upstream] : Ascending(l)
    BY DEF Sorted, Upstream
  <2> HIDE DEF list, Ascending
  <2>2. QED
    BY <1>1, <2>1
<1> HIDE DEF list
<1>3. Upstream = 1..Upstreams /\ Upstreams \in Nat /\ Upstream \subseteq Int /\ DOMAIN list = Upstream
  BY <1>2, Sizes
<1>4. \A i, j \in Upstream : list[i] = list[j] => i = j
  <2> SUFFICES ASSUME NEW i \in Upstream, NEW j \in Upstream, list[i] = list[j], i < j PROVE FALSE
    BY <1>3
  <2>1. Less(list[i], list[j], times) /\ list[i] \in Upstream
    BY <1>2
  <2>2. QED
    BY <2>1, LessIsTotal
<1>5. InTiers(list)
  <2>1. list \in Seq(Upstream)
    BY <1>2, <1>3
  <2>2. \A i, j \in DOMAIN list : i < j => Priority[list[i]] >= Priority[list[j]]
    BY <1>2, <1>3, LessIsTotal
  <2>3. QED
    BY <1>3, <1>4, <2>1, <2>2 DEF InTiers
<1>6. Occurring(list) = Upstream
  <2>1. list \in Injection(Upstream, Upstream)
    BY <1>2, <1>4 DEF Injection, IsInjective
  <2>2. list \in Surjection(Upstream, Upstream)
    BY <2>1, Sizes, FS_Injection
  <2>3. QED
    BY <1>2, <1>3, <2>2 DEF Surjection, Occurring
<1>7. QED
  BY <1>5, <1>6 DEF list

(* What is left of a list when its head has been taken. *)
LEMMA TailFacts ==
  ASSUME NEW list, InTiers(list), list # << >>
  PROVE  /\ Head(list) \in Upstream /\ InTiers(Tail(list))
         /\ Occurring(Tail(list)) = Occurring(list) \ {Head(list)}
         /\ Head(list) \in Occurring(list)
         /\ \A u \in Occurring(Tail(list)) : Priority[Head(list)] >= Priority[u]
<1>1. list \in Seq(Upstream) /\ Len(list) \in Nat /\ Len(list) >= 1 /\ DOMAIN list = 1..Len(list)
  BY DEF InTiers
<1>2. /\ Head(list) = list[1] /\ Tail(list) \in Seq(Upstream) /\ DOMAIN Tail(list) = 1..(Len(list) - 1)
      /\ \A i \in 1..(Len(list) - 1) : Tail(list)[i] = list[i + 1]
  BY <1>1
<1> DEFINE tail == Tail(list)
           head == Head(list)
<1> HIDE DEF tail, head
<1>3. /\ head = list[1] /\ tail \in Seq(Upstream) /\ DOMAIN tail = 1..(Len(list) - 1)
      /\ \A i \in 1..(Len(list) - 1) : tail[i] = list[i + 1] /\ i + 1 \in DOMAIN list
  BY <1>1, <1>2 DEF tail, head
<1>4. head \in Upstream /\ head \in Occurring(list)
  BY <1>1, <1>3 DEF Occurring
<1>5. InTiers(tail)
  <2>1. ASSUME NEW i \in DOMAIN tail, NEW j \in DOMAIN tail, tail[i] = tail[j] PROVE i = j
    <3>1. i + 1 = j + 1
      BY <1>3, <2>1 DEF InTiers
    <3>2. QED
      BY <1>1, <1>3, <3>1
  <2>2. ASSUME NEW i \in DOMAIN tail, NEW j \in DOMAIN tail, i < j
        PROVE  Priority[tail[i]] >= Priority[tail[j]]
    <3>1. i + 1 < j + 1
      BY <1>1, <1>3, <2>2
    <3>2. QED
      BY <1>3, <3>1 DEF InTiers
  <2>3. QED
    BY <1>3, <2>1, <2>2 DEF InTiers
<1>6. Occurring(tail) = Occurring(list) \ {head}
  <2>1. ASSUME NEW u \in Occurring(tail) PROVE u \in Occurring(list) \ {head}
    <3>1. PICK i \in DOMAIN tail : u = tail[i]
      BY <2>1 DEF Occurring
    <3>2. u = list[i + 1] /\ i + 1 \in DOMAIN list /\ i + 1 # 1
      BY <1>1, <1>3, <3>1
    <3>3. u # list[1]
      BY <1>1, <3>2 DEF InTiers
    <3>4. QED
      BY <1>3, <3>2, <3>3 DEF Occurring
  <2>2. ASSUME NEW u \in Occurring(list) \ {head} PROVE u \in Occurring(tail)
    <3>1. PICK j \in DOMAIN list : u = list[j]
      BY <2>2 DEF Occurring
    <3>2. j # 1
      BY <1>3, <2>2, <3>1
    <3>3. j - 1 \in DOMAIN tail /\ tail[j - 1] = u
      BY <1>1, <1>3, <3>1, <3>2
    <3>4. QED
      BY <3>3 DEF Occurring
  <2>3. QED
    BY <2>1, <2>2
<1>7. ASSUME NEW u \in Occurring(tail) PROVE Priority[head] >= Priority[u]
  <2>1. PICK i \in DOMAIN tail : u = tail[i]
    BY <1>7 DEF Occurring
  <2>2. u = list[i + 1] /\ i + 1 \in DOMAIN list /\ 1 < i + 1 /\ 1 \in DOMAIN list
    BY <1>1, <1>3, <2>1
  <2>3. QED
    BY <1>3, <2>2 DEF InTiers
<1>8. QED
  BY <1>4, <1>5, <1>6, <1>7 DEF tail, head

(* Induction over the natural numbers, for a set of them. *)
LEMMA EveryNumber ==
  ASSUME NEW S, 0 \in S, \A n \in Nat : n \in S => n + 1 \in S
  PROVE  Nat \subseteq S
<1> DEFINE T == Nat \ S
<1> SUFFICES ASSUME T # {} PROVE FALSE
  OBVIOUS
<1>1. PICK n \in T : \A m \in T : ~(<<m, n>> \in OpToRel(<, Nat))
  BY NatLessThanWellFounded, WFMin
<1>2. \A m \in T : ~(m < n)
  BY <1>1 DEF OpToRel
<1>3. n \in Nat /\ n \notin S
  OBVIOUS
<1>4. \A m \in Nat : m < n => m \in S
  BY <1>2
<1> HIDE DEF T
<1>5. CASE n = 0
  BY <1>3, <1>5
<1>6. CASE n # 0
  <2>1. n - 1 \in Nat /\ n - 1 < n /\ (n - 1) + 1 = n
    BY <1>3, <1>6
  <2>2. QED
    BY <1>3, <1>4, <2>1
<1>7. QED
  BY <1>5, <1>6

(* The sum that TimeoutsOf takes, up to the n-th upstream. *)
Share(S, n) == IF n \in S THEN Timeout[n] ELSE 0

Adds(f, S, n) ==
  f = [m \in 0..n |-> IF m = 0 THEN 0 ELSE f[m - 1] + Share(S, m)]

LEMMA SumExists ==
  ASSUME NEW S, NEW n \in Nat
  PROVE  \E f : Adds(f, S, n)
<1> DEFINE Good == {k \in Nat : \E f : Adds(f, S, k)}
<1>1. 0 \in Good
  <2>1. Adds([m \in 0..0 |-> 0], S, 0)
    BY DEF Adds
  <2>2. QED
    BY <2>1
<1>2. ASSUME NEW k \in Nat, k \in Good PROVE k + 1 \in Good
  <2>1. PICK f : Adds(f, S, k)
    BY <1>2
  <2> DEFINE g == [m \in 0..(k + 1) |-> IF m = k + 1 THEN f[k] + Share(S, k + 1) ELSE f[m]]
  <2>2. ASSUME NEW m \in 0..(k + 1)
        PROVE  g[m] = IF m = 0 THEN 0 ELSE g[m - 1] + Share(S, m)
    <3>1. CASE m = k + 1
      BY <3>1
    <3>2. CASE m # k + 1
      <4>1. m \in 0..k /\ g[m] = f[m] /\ (m # 0 => m - 1 \in 0..(k + 1) /\ m - 1 # k + 1)
        BY <3>2
      <4>2. f[m] = IF m = 0 THEN 0 ELSE f[m - 1] + Share(S, m)
        BY <2>1, <4>1 DEF Adds
      <4>3. m # 0 => g[m - 1] = f[m - 1]
        BY <4>1
      <4>4. QED
        BY <4>1, <4>2, <4>3
    <3>3. QED
      BY <3>1, <3>2
  <2>3. Adds(g, S, k + 1)
    <3>1. g = [m \in 0..(k + 1) |-> g[m]]
      OBVIOUS
    <3> HIDE DEF g
    <3>2. QED
      BY <2>2, <3>1 DEF Adds
  <2>4. QED
    BY <2>3
<1>3. Nat \subseteq Good
  BY <1>1, <1>2, EveryNumber
<1>4. QED
  BY <1>3

(* TimeoutsOf is such a sum. *)
LEMMA TimeoutsAdded ==
  ASSUME NEW S
  PROVE  \E f : Adds(f, S, Upstreams) /\ TimeoutsOf(S) = f[Upstreams]
<1> DEFINE f == CHOOSE f : Adds(f, S, Upstreams)
<1>1. Adds(f, S, Upstreams)
  BY SumExists, Sizes
<1>2. TimeoutsOf(S) = f[Upstreams]
  BY DEF TimeoutsOf, Adds, Share
<1>3. QED
  BY <1>1, <1>2

(* The sum is a number, and another upstream adds its timeout to it. *)
LEMMA TimeoutsGrow ==
  ASSUME Timeout \in [Upstream -> Nat], NEW S \in SUBSET Upstream,
         NEW u \in Upstream, u \notin S
  PROVE  /\ TimeoutsOf(S) \in Nat
         /\ TimeoutsOf(S \cup {u}) = TimeoutsOf(S) + Timeout[u]
<1>1. PICK f : Adds(f, S, Upstreams) /\ TimeoutsOf(S) = f[Upstreams]
  BY TimeoutsAdded
<1>2. PICK g : Adds(g, S \cup {u}, Upstreams) /\ TimeoutsOf(S \cup {u}) = g[Upstreams]
  BY TimeoutsAdded
<1> DEFINE Good == {n \in Nat : n <= Upstreams =>
                      /\ f[n] \in Nat
                      /\ g[n] = f[n] + IF u <= n THEN Timeout[u] ELSE 0}
<1>3. 0 \in Good
  <2>1. 0 \in 0..Upstreams /\ ~(u <= 0)
    BY Sizes
  <2>2. f[0] = 0 /\ g[0] = 0
    BY <1>1, <1>2, <2>1 DEF Adds
  <2>3. QED
    BY <2>1, <2>2
<1>4. ASSUME NEW n \in Nat, n \in Good PROVE n + 1 \in Good
  <2> SUFFICES ASSUME n + 1 <= Upstreams
               PROVE  /\ f[n + 1] \in Nat
                      /\ g[n + 1] = f[n + 1] + IF u <= n + 1 THEN Timeout[u] ELSE 0
    OBVIOUS
  <2>1. n + 1 \in 0..Upstreams /\ n + 1 # 0 /\ (n + 1) - 1 = n /\ n + 1 \in Upstream /\ u \in Int
    BY Sizes
  <2>2. f[n + 1] = f[n] + Share(S, n + 1) /\ g[n + 1] = g[n] + Share(S \cup {u}, n + 1)
    BY <1>1, <1>2, <2>1 DEF Adds
  <2>3. f[n] \in Nat /\ g[n] = f[n] + IF u <= n THEN Timeout[u] ELSE 0
    <3>1. n <= Upstreams
      BY <2>1, Sizes
    <3>2. QED
      BY <1>4, <3>1
  <2>4. Share(S, n + 1) \in Nat /\ Timeout[u] \in Nat
    BY <2>1 DEF Share
  <2>5. CASE u = n + 1
    <3>1. Share(S, n + 1) = 0 /\ Share(S \cup {u}, n + 1) = Timeout[u]
      BY <2>5 DEF Share
    <3>2. QED
      BY <2>2, <2>3, <2>4, <2>5, <3>1
  <2>6. CASE u # n + 1
    <3>1. Share(S \cup {u}, n + 1) = Share(S, n + 1)
      BY <2>6 DEF Share
    <3>2. u <= n + 1 <=> u <= n
      BY <2>1, <2>6
    <3>3. QED
      BY <2>2, <2>3, <2>4, <3>1, <3>2
  <2>7. QED
    BY <2>5, <2>6
<1>5. Upstreams \in Good
  BY <1>3, <1>4, EveryNumber, Sizes
<1>6. u <= Upstreams
  BY Sizes
<1>7. QED
  BY <1>1, <1>2, <1>5, <1>6, Sizes

FailoverTypes ==
  /\ ewma \in Times /\ measured \subseteq Upstream
  /\ at \in [Caller -> Stage]
  /\ snapshot \in [Caller -> Seq(Upstream)]
  /\ tried \in [Caller -> SUBSET Upstream]
  /\ current \in [Caller -> Upstream \cup {0}]
  /\ left \in [Caller -> Nat] /\ waited \in [Caller -> Nat]
  /\ again \in [Caller -> BOOLEAN] /\ given \in [Caller -> Nat]

ListReady == InTiers(upstreamList) /\ Occurring(upstreamList) = Upstream

Remaining(r) == Occurring(snapshot[r])

Asked(r) == {current[r]} \ {0}

(* An exchange has every upstream once: among those left, those that failed, or as *)
(* the one it asks; and those left are of no higher priority than the others.    *)
Underway(r) ==
  /\ InTiers(snapshot[r])
  /\ at[r] = "none" => snapshot[r] = << >> /\ tried[r] = {}
  /\ at[r] # "none" => Upstream = Remaining(r) \cup tried[r] \cup Asked(r)
  /\ tried[r] \cap Remaining(r) = {} /\ current[r] \notin tried[r] \cup Remaining(r)
  /\ \A u \in Remaining(r) : \A v \in tried[r] \cup Asked(r) : Priority[v] >= Priority[u]
  /\ at[r] \in {"none", "try", "failed"} <=> current[r] = 0
  /\ at[r] = "failed" => left[r] = 0 \/ snapshot[r] = << >>

(* The time that is gone since the exchange began went to the upstreams that     *)
(* failed and to the one asked; the first exchange begins with all there is.     *)
WaitedNow(r) == IF at[r] = "ask" THEN waited[r] ELSE 0

Accounted(r) ==
  /\ at[r] = "ask" => waited[r] <= Patience(current[r])
  /\ at[r] \in {"none", "try", "ask", "failed"} /\ tried[r] \subseteq DoHs =>
       left[r] + TimeoutsOf(tried[r]) + WaitedNow(r) >= given[r]
  /\ ~again[r] => given[r] = Budget

FailoverInv ==
  /\ FailoverTypes /\ ListReady
  /\ \A r \in Caller : Underway(r) /\ Accounted(r)

RequestStep(r) ==
  \/ Begin(r) \/ Tick(r) \/ Ask(r) \/ Fail(r)
  \/ Succeed(r) \/ RecordSuccess(r) \/ RunOut(r) \/ AskAgain(r) \/ Return(r)

LEMMA FailoverConstants ==
  /\ Timeout \in [Upstream -> Nat] /\ Budget \in Nat /\ MaxTime \in Nat
  /\ DoHs \subseteq Upstream /\ 0 \notin Upstream
BY Sizes, UpstreamPoolAssumption DEF Upstream

LEMMA NoTimeouts == TimeoutsOf({}) \in Nat
<1>1. PICK f : Adds(f, {}, Upstreams) /\ TimeoutsOf({}) = f[Upstreams]
  BY TimeoutsAdded
<1> DEFINE Good == {n \in Nat : n <= Upstreams => f[n] \in Nat}
<1>2. 0 \in Good
  <2>1. f[0] = 0
    BY <1>1, Sizes DEF Adds
  <2>2. QED
    BY <2>1
<1>3. ASSUME NEW n \in Nat, n \in Good PROVE n + 1 \in Good
  <2> SUFFICES ASSUME n + 1 <= Upstreams PROVE f[n + 1] \in Nat
    OBVIOUS
  <2>1. n + 1 \in 0..Upstreams /\ n + 1 # 0 /\ (n + 1) - 1 = n /\ n <= Upstreams
    BY Sizes
  <2>2. f[n + 1] = f[n] + 0
    BY <1>1, <2>1 DEF Adds, Share
  <2>3. f[n] \in Nat
    BY <1>3, <2>1
  <2>4. QED
    BY <2>2, <2>3
<1>4. Upstreams \in Good
  BY <1>2, <1>3, EveryNumber, Sizes
<1>5. QED
  BY <1>1, <1>4, Sizes

LEMMA TimeoutsNat ==
  ASSUME NEW S \in SUBSET Upstream
  PROVE  TimeoutsOf(S) \in Nat
<1>1. CASE S = Upstream /\ Upstream = {}
  BY <1>1, NoTimeouts
<1>2. CASE S # Upstream
  BY <1>2, FailoverConstants, TimeoutsGrow
<1>3. CASE S = Upstream /\ Upstream # {}
  <2>1. PICK u : u \in Upstream
    BY <1>3
  <2>2. TimeoutsOf(Upstream \ {u}) \in Nat /\ Timeout[u] \in Nat
    BY <2>1, FailoverConstants, TimeoutsGrow
  <2>3. (Upstream \ {u}) \cup {u} = Upstream
    BY <2>1
  <2>4. TimeoutsOf(Upstream) = TimeoutsOf(Upstream \ {u}) + Timeout[u]
    BY <2>1, <2>3, FailoverConstants, TimeoutsGrow
  <2>5. QED
    BY <1>3, <2>2, <2>4
<1>4. QED
  BY <1>1, <1>2, <1>3

(* A step of one request leaves the others as they are. *)
LEMMA OthersUnmoved ==
  ASSUME FailoverInv, NEW r \in Caller, RequestStep(r), NEW q \in Caller, q # r,
         FailoverTypes'
  PROVE  Underway(q)' /\ Accounted(q)'
<1>1. /\ at'[q] = at[q] /\ snapshot'[q] = snapshot[q] /\ tried'[q] = tried[q]
      /\ current'[q] = current[q] /\ left'[q] = left[q] /\ waited'[q] = waited[q]
      /\ again'[q] = again[q] /\ given'[q] = given[q]
  <2> USE DEF FailoverInv, FailoverTypes, MoveTo, request
  <2>1. CASE Begin(r) \/ Tick(r)
    BY <2>1 DEF Begin, Tick
  <2>2. CASE Ask(r) \/ Fail(r)
    BY <2>2 DEF Ask, Fail
  <2>3. CASE Succeed(r) \/ RecordSuccess(r)
    BY <2>3 DEF Succeed, RecordSuccess
  <2>4. CASE RunOut(r)
    BY <2>4 DEF RunOut
  <2>5. CASE AskAgain(r) \/ Return(r)
    BY <2>5 DEF AskAgain, Return
  <2>6. QED
    BY <2>1, <2>2, <2>3, <2>4, <2>5 DEF RequestStep
<1>2. Underway(q) /\ Accounted(q)
  BY DEF FailoverInv
<1>3. QED
  BY <1>1, <1>2 DEF Underway, Accounted, Remaining, Asked, WaitedNow

(* Every step keeps the types and the list sorted. *)
LEMMA FailoverTypesKept ==
  ASSUME FailoverInv, NEW r \in Caller, RequestStep(r)
  PROVE  FailoverTypes' /\ ListReady'
<1>1. FailoverTypes /\ ListReady /\ Underway(r)
  BY DEF FailoverInv
<1>2. CASE Begin(r)
  BY <1>1, <1>2 DEF Begin, FailoverTypes, ListReady, InTiers, MoveTo, ranking, request, Stage
<1>3. CASE Tick(r)
  BY <1>1, <1>3 DEF Tick, FailoverTypes, ListReady, ranking
<1>4. CASE Ask(r)
  <2>1. Head(snapshot[r]) \in Upstream /\ Tail(snapshot[r]) \in Seq(Upstream)
    BY <1>1, <1>4 DEF Ask, FailoverTypes
  <2>2. QED
    BY <1>1, <1>4, <2>1 DEF Ask, FailoverTypes, ListReady, MoveTo, ranking, request, Stage,
      NextUpstream
<1>5. CASE Fail(r)
  <2>1. current[r] \in Upstream
    BY <1>1, <1>5 DEF Fail, FailoverTypes, Underway
  <2>2. QED
    BY <1>1, <1>5, <2>1 DEF Fail, FailoverTypes, ListReady, MoveTo, ranking, request, Stage
<1>6. CASE Succeed(r)
  BY <1>1, <1>6 DEF Succeed, FailoverTypes, ListReady, MoveTo, ranking, request, Stage
<1>7. CASE RecordSuccess(r)
  <2>1. current[r] \in Upstream
    BY <1>1, <1>7 DEF RecordSuccess, FailoverTypes, Underway
  <2>2. PICK t \in 0..MaxTime : ewma' = [ewma EXCEPT ![current[r]] = t]
    BY <1>7 DEF RecordSuccess, Between
  <2>3. ewma' \in Times
    BY <1>1, <2>1, <2>2 DEF FailoverTypes, Times
  <2>4. ListReady'
    <3>1. upstreamList' = Sorted(ewma')
      BY <1>7 DEF RecordSuccess
    <3>2. QED
      BY <2>3, <3>1, SortedFacts DEF ListReady
  <2>5. measured' \subseteq Upstream
    BY <1>1, <1>7, <2>1 DEF RecordSuccess, FailoverTypes
  <2>6. QED
    BY <1>1, <1>7, <2>3, <2>4, <2>5 DEF RecordSuccess, FailoverTypes, MoveTo, request, Stage
<1>8. CASE RunOut(r)
  BY <1>1, <1>8 DEF RunOut, FailoverTypes, ListReady, MoveTo, ranking, request, Stage
<1>9. CASE Return(r)
  BY <1>1, <1>9, FailoverConstants DEF Return, FailoverTypes, ListReady, MoveTo, ranking, Stage
<1>10. CASE AskAgain(r)
  BY <1>1, <1>10 DEF AskAgain, FailoverTypes, ListReady, InTiers, MoveTo, ranking, Stage
<1>11. QED
  BY <1>2, <1>3, <1>4, <1>5, <1>6, <1>7, <1>8, <1>9, <1>10 DEF RequestStep

(* A step of a request keeps its lists apart and in order. *)
LEMMA UnderwayKept ==
  ASSUME FailoverInv, NEW r \in Caller, RequestStep(r), FailoverTypes'
  PROVE  Underway(r)'
<1>1. FailoverTypes /\ ListReady /\ Underway(r) /\ at[r] \in Stage
  BY DEF FailoverInv, FailoverTypes
<1>2. CASE Begin(r)
  <2>1. /\ at'[r] = "try" /\ snapshot'[r] = upstreamList
        /\ tried'[r] = {} /\ current'[r] = 0
    BY <1>1, <1>2 DEF Begin, FailoverTypes, Underway, MoveTo
  <2>2. InTiers(upstreamList) /\ Occurring(upstreamList) = Upstream
    BY <1>1 DEF ListReady
  <2>3. QED
    BY <2>1, <2>2, FailoverConstants DEF Underway, Remaining, Asked
<1>3. CASE Tick(r)
  <2>1. /\ at'[r] = at[r] /\ snapshot'[r] = snapshot[r] /\ at[r] = "ask"
        /\ tried'[r] = tried[r] /\ current'[r] = current[r]
    BY <1>1, <1>3 DEF Tick, FailoverTypes
  <2>2. QED
    BY <1>1, <2>1 DEF Underway, Remaining, Asked
<1>4. CASE Ask(r)
  <2> DEFINE u == Head(snapshot[r])
  <2>1. /\ at'[r] = "ask" /\ snapshot'[r] = Tail(snapshot[r]) /\ at[r] = "try"
        /\ tried'[r] = tried[r] /\ current'[r] = u
        /\ snapshot[r] # << >>
    BY <1>1, <1>4 DEF Ask, FailoverTypes, MoveTo, NextUpstream
  <2>2. /\ u \in Upstream /\ InTiers(Tail(snapshot[r]))
        /\ Occurring(Tail(snapshot[r])) = Remaining(r) \ {u}
        /\ u \in Remaining(r)
        /\ \A v \in Remaining(r) \ {u} : Priority[u] >= Priority[v]
    <3>1. InTiers(snapshot[r])
      BY <1>1 DEF Underway
    <3>2. QED
      BY <2>1, <3>1, TailFacts DEF Remaining
  <2>3. u # 0 /\ current[r] = 0
    BY <1>1, <2>1, <2>2, FailoverConstants DEF Underway
  <2>4. /\ Remaining(r)' = Remaining(r) \ {u} /\ Asked(r)' = {u} /\ Asked(r) = {}
    BY <2>1, <2>2, <2>3 DEF Remaining, Asked
  <2> HIDE DEF u
  <2>5. u \notin tried[r] /\ Upstream = Remaining(r)' \cup tried'[r] \cup Asked(r)'
    BY <1>1, <2>1, <2>2, <2>4 DEF Underway
  <2>6. \A v \in Remaining(r)' : \A x \in tried'[r] \cup Asked(r)' : Priority[x] >= Priority[v]
    BY <1>1, <2>1, <2>2, <2>4 DEF Underway
  <2>7. tried'[r] \cap Remaining(r)' = {} /\ current'[r] \notin tried'[r] \cup Remaining(r)'
    BY <1>1, <2>1, <2>4, <2>5 DEF Underway
  <2>8. QED
    BY <2>1, <2>2, <2>3, <2>5, <2>6, <2>7 DEF Underway
<1>5. CASE Fail(r)
  <2>1. /\ at'[r] = "try" /\ snapshot'[r] = snapshot[r] /\ at[r] = "ask"
        /\ tried'[r] = tried[r] \cup {current[r]} /\ current'[r] = 0
    BY <1>1, <1>5 DEF Fail, FailoverTypes, MoveTo
  <2>2. current[r] # 0 /\ Asked(r) = {current[r]} /\ Asked(r)' = {} /\ Remaining(r)' = Remaining(r)
    BY <1>1, <2>1 DEF Underway, Asked, Remaining
  <2>3. 0 \notin tried'[r] \cup Remaining(r)'
    <3>1. tried'[r] \subseteq Upstream /\ InTiers(snapshot'[r])
      BY <1>1, <2>1 DEF FailoverTypes, Underway
    <3>2. Remaining(r)' \subseteq Upstream
      BY <3>1 DEF Remaining, Occurring, InTiers
    <3>3. QED
      BY <3>1, <3>2, FailoverConstants
  <2>4. QED
    BY <1>1, <2>1, <2>2, <2>3 DEF Underway
<1>6. CASE Succeed(r)
  <2>1. /\ at'[r] = "success" /\ snapshot'[r] = snapshot[r] /\ at[r] = "ask"
        /\ tried'[r] = tried[r] /\ current'[r] = current[r]
    BY <1>1, <1>6 DEF Succeed, FailoverTypes, MoveTo
  <2>2. QED
    BY <1>1, <2>1 DEF Underway, Remaining, Asked
<1>7. CASE RecordSuccess(r)
  <2>1. /\ at'[r] = "answered" /\ snapshot'[r] = snapshot[r] /\ at[r] = "success"
        /\ tried'[r] = tried[r] /\ current'[r] = current[r]
    BY <1>1, <1>7 DEF RecordSuccess, FailoverTypes, MoveTo
  <2>2. QED
    BY <1>1, <2>1 DEF Underway, Remaining, Asked
<1>8. CASE RunOut(r)
  <2>1. /\ at'[r] = "failed" /\ snapshot'[r] = snapshot[r] /\ at[r] = "try" /\ left'[r] = left[r]
        /\ tried'[r] = tried[r] /\ current'[r] = current[r]
        /\ left[r] = 0 \/ snapshot[r] = << >>
    BY <1>1, <1>8 DEF RunOut, FailoverTypes, MoveTo, request
  <2>2. QED
    BY <1>1, <2>1 DEF Underway, Remaining, Asked
<1>9. CASE Return(r)
  <2>1. /\ at'[r] = "none" /\ snapshot'[r] = << >>
        /\ tried'[r] = {} /\ current'[r] = 0
    BY <1>1, <1>9 DEF Return, FailoverTypes, MoveTo
  <2>2. InTiers(<< >>) /\ Occurring(<< >>) = {}
    BY DEF InTiers, Occurring
  <2>3. QED
    BY <2>1, <2>2 DEF Underway, Remaining, Asked
<1>10. CASE AskAgain(r)
  <2>1. /\ at'[r] = "try" /\ snapshot'[r] = upstreamList
        /\ tried'[r] = {} /\ current'[r] = 0
    BY <1>1, <1>10 DEF AskAgain, FailoverTypes, MoveTo
  <2>2. InTiers(upstreamList) /\ Occurring(upstreamList) = Upstream
    BY <1>1 DEF ListReady
  <2>3. QED
    BY <2>1, <2>2, FailoverConstants DEF Underway, Remaining, Asked
<1>11. QED
  BY <1>2, <1>3, <1>4, <1>5, <1>6, <1>7, <1>8, <1>9, <1>10 DEF RequestStep

(* A step of a request keeps the account of its time. *)
LEMMA AccountedKept ==
  ASSUME FailoverInv, NEW r \in Caller, RequestStep(r), FailoverTypes'
  PROVE  Accounted(r)'
<1>1. /\ FailoverTypes /\ Underway(r) /\ Accounted(r)
      /\ at[r] \in Stage /\ left[r] \in Nat /\ waited[r] \in Nat /\ given[r] \in Nat
      /\ tried[r] \in SUBSET Upstream
  BY DEF FailoverInv, FailoverTypes
<1>2. TimeoutsOf(tried[r]) \in Nat
  BY <1>1, TimeoutsNat
<1>3. CASE Begin(r)
  <2>1. /\ at'[r] = "try" /\ at[r] = "none" /\ tried'[r] = tried[r] /\ left'[r] = left[r]
        /\ again'[r] = again[r] /\ given'[r] = given[r]
    BY <1>1, <1>3 DEF request, Begin, FailoverTypes, MoveTo
  <2>2. QED
    BY <1>1, <2>1 DEF Accounted, WaitedNow
<1>4. CASE Tick(r)
  <2>1. /\ at'[r] = "ask" /\ at[r] = "ask" /\ tried'[r] = tried[r] /\ current'[r] = current[r]
        /\ left'[r] = left[r] - 1 /\ waited'[r] = waited[r] + 1
        /\ waited[r] < Patience(current[r])
        /\ again'[r] = again[r] /\ given'[r] = given[r]
    BY <1>1, <1>4 DEF Tick, FailoverTypes
  <2>2. Patience(current[r]) \in Nat
    <3>1. current[r] \in Upstream
      BY <1>1, <2>1 DEF Underway, FailoverTypes
    <3>2. QED
      BY <3>1, FailoverConstants DEF Patience
  <2>3. waited'[r] <= Patience(current[r])
    BY <1>1, <2>1, <2>2
  <2>4. tried[r] \subseteq DoHs =>
          left'[r] + TimeoutsOf(tried[r]) + waited'[r] >= given[r]
    BY <1>1, <1>2, <2>1 DEF Accounted, WaitedNow
  <2>5. QED
    BY <1>1, <2>1, <2>3, <2>4 DEF Accounted, WaitedNow
<1>5. CASE Ask(r)
  <2>1. /\ at'[r] = "ask" /\ at[r] = "try" /\ tried'[r] = tried[r] /\ left'[r] = left[r]
        /\ waited'[r] = 0 /\ current'[r] = Head(snapshot[r]) /\ snapshot[r] # << >>
        /\ again'[r] = again[r] /\ given'[r] = given[r]
    BY <1>1, <1>5 DEF request, Ask, FailoverTypes, MoveTo, NextUpstream
  <2>2. Patience(current'[r]) \in Nat
    <3>1. current'[r] \in Upstream
      BY <1>1, <2>1 DEF FailoverTypes
    <3>2. QED
      BY <3>1, FailoverConstants DEF Patience
  <2>3. QED
    BY <1>1, <1>2, <2>1, <2>2 DEF Accounted, WaitedNow
<1>6. CASE Fail(r)
  <2> DEFINE u == current[r]
  <2>1. /\ at'[r] = "try" /\ at[r] = "ask" /\ tried'[r] = tried[r] \cup {u} /\ left'[r] = left[r]
        /\ again'[r] = again[r] /\ given'[r] = given[r]
    BY <1>1, <1>6 DEF request, Fail, FailoverTypes, MoveTo
  <2>2. u \in Upstream /\ u \notin tried[r] /\ waited[r] <= Patience(u)
    BY <1>1, <2>1 DEF Underway, FailoverTypes, Accounted
  <2> HIDE DEF u
  <2>3. TimeoutsOf(tried[r] \cup {u}) = TimeoutsOf(tried[r]) + Timeout[u]
    BY <1>1, <2>2, FailoverConstants, TimeoutsGrow
  <2>4. SUFFICES ASSUME tried[r] \cup {u} \subseteq DoHs
                 PROVE  left[r] + TimeoutsOf(tried[r] \cup {u}) + 0 >= given[r]
    BY <1>1, <2>1 DEF Accounted, WaitedNow
  <2>5. waited[r] <= Timeout[u] /\ Timeout[u] \in Nat
    BY <2>2, <2>4, FailoverConstants DEF Patience
  <2>6. left[r] + TimeoutsOf(tried[r]) + waited[r] >= given[r]
    BY <1>1, <2>1, <2>4 DEF Accounted, WaitedNow
  <2>7. QED
    BY <1>1, <1>2, <2>3, <2>5, <2>6
<1>7. CASE Succeed(r)
  BY <1>1, <1>7 DEF request, Succeed, FailoverTypes, MoveTo, Accounted
<1>8. CASE RecordSuccess(r)
  BY <1>1, <1>8 DEF request, RecordSuccess, FailoverTypes, MoveTo, Accounted
<1>9. CASE RunOut(r)
  <2>1. /\ at'[r] = "failed" /\ at[r] = "try" /\ tried'[r] = tried[r] /\ left'[r] = left[r]
        /\ again'[r] = again[r] /\ given'[r] = given[r]
    BY <1>1, <1>9 DEF request, RunOut, FailoverTypes, MoveTo
  <2>2. QED
    BY <1>1, <2>1 DEF Accounted, WaitedNow
<1>10. CASE Return(r)
  <2>1. /\ at'[r] = "none" /\ tried'[r] = {} /\ left'[r] = Budget /\ given'[r] = Budget
    BY <1>1, <1>10 DEF Return, FailoverTypes, MoveTo
  <2>2. QED
    BY <1>1, <2>1, NoTimeouts, FailoverConstants DEF Accounted, WaitedNow
<1>11. CASE AskAgain(r)
  <2>1. /\ at'[r] = "try" /\ tried'[r] = {} /\ left'[r] = left[r] /\ given'[r] = left[r]
        /\ again'[r]
    BY <1>1, <1>11 DEF AskAgain, FailoverTypes, MoveTo
  <2>2. QED
    BY <1>1, <2>1, NoTimeouts DEF Accounted, WaitedNow
<1>12. QED
  BY <1>3, <1>4, <1>5, <1>6, <1>7, <1>8, <1>9, <1>10, <1>11 DEF RequestStep

LEMMA FailoverInvHolds == FailoverSpec => []FailoverInv
<1>1. FailoverInit => FailoverInv
  <2> SUFFICES ASSUME FailoverInit PROVE FailoverInv
    OBVIOUS
  <2>1. FailoverTypes
    BY FailoverConstants DEF FailoverInit, FailoverTypes, Times, Upstream, Stage
  <2>2. ListReady
    <3>1. ewma \in Times /\ upstreamList = Sorted(ewma)
      BY <2>1 DEF FailoverInit, FailoverTypes
    <3>2. QED
      BY <3>1, SortedFacts DEF ListReady
  <2>3. ASSUME NEW r \in Caller PROVE Underway(r) /\ Accounted(r)
    <3>1. /\ at[r] = "none" /\ snapshot[r] = << >> /\ tried[r] = {} /\ current[r] = 0
          /\ left[r] = Budget /\ given[r] = Budget /\ ~again[r]
      BY DEF FailoverInit
    <3>2. InTiers(<< >>) /\ Occurring(<< >>) = {}
      BY DEF InTiers, Occurring
    <3>3. Underway(r)
      BY <3>1, <3>2 DEF Underway, Remaining, Asked
    <3>4. Accounted(r)
      BY <3>1, NoTimeouts, FailoverConstants DEF Accounted, WaitedNow
    <3>5. QED
      BY <3>3, <3>4
  <2>4. QED
    BY <2>1, <2>2, <2>3 DEF FailoverInv
<1>2. FailoverInv /\ [FailoverNext]_failoverVars => FailoverInv'
  <2> SUFFICES ASSUME FailoverInv, [FailoverNext]_failoverVars PROVE FailoverInv'
    OBVIOUS
  <2>1. CASE FailoverNext
    <3>1. PICK r \in Caller : RequestStep(r)
      BY <2>1 DEF FailoverNext, RequestStep
    <3>2. FailoverTypes' /\ ListReady'
      BY <3>1, FailoverTypesKept
    <3>3. \A q \in Caller : Underway(q)' /\ Accounted(q)'
      BY <3>1, <3>2, OthersUnmoved, UnderwayKept, AccountedKept
    <3>4. QED
      BY <3>2, <3>3 DEF FailoverInv
  <2>2. CASE UNCHANGED failoverVars
    BY <2>2 DEF failoverVars, ranking, callers, request, FailoverInv, FailoverTypes, ListReady,
      Underway, Accounted, Remaining, Asked, WaitedNow
  <2>3. QED
    BY <2>1, <2>2
<1>3. QED
  BY <1>1, <1>2, PTL DEF FailoverSpec

(* UpstreamPool: "Higher priority tiers are always tried first", for every number *)
(* of upstreams, however the list is sorted again while a request goes over its   *)
(* copy.                                                                          *)
THEOREM TiersInOrderHolds == FailoverSpec => []TiersInOrder
<1>1. FailoverInv => TiersInOrder
  <2> SUFFICES ASSUME FailoverInv PROVE TiersInOrder
    OBVIOUS
  <2> SUFFICES ASSUME NEW r \in Caller, current[r] # 0, NEW u \in Upstream, Priority[u] > Priority[current[r]]
               PROVE  u \in tried[r]
    BY DEF TiersInOrder
  <2>1. FailoverTypes /\ Underway(r)
    BY DEF FailoverInv
  <2>2. at[r] # "none" /\ Asked(r) = {current[r]} /\ current[r] \in Upstream
    BY <2>1 DEF Underway, Asked, FailoverTypes
  <2>3. u \notin Remaining(r) /\ u \notin Asked(r)
    BY <2>1, <2>2, Sizes DEF Underway
  <2>4. QED
    BY <2>1, <2>2, <2>3 DEF Underway
<1>2. QED
  BY <1>1, FailoverInvHolds, PTL

(* UpstreamPool: an exchange asks no upstream twice, and it fails only when the  *)
(* request's time is up or every upstream has failed it.                         *)
THEOREM EachTriedOnceHolds == FailoverSpec => []EachTriedOnce
<1>1. FailoverInv => EachTriedOnce
  <2> SUFFICES ASSUME FailoverInv PROVE EachTriedOnce
    OBVIOUS
  <2>1. ASSUME NEW r \in Caller PROVE current[r] \notin tried[r]
    BY DEF FailoverInv, Underway
  <2>2. ASSUME NEW r \in Caller, at[r] = "failed" PROVE left[r] = 0 \/ tried[r] = Upstream
    <3>1. Underway(r)
      BY DEF FailoverInv
    <3>2. Occurring(<< >>) = {}
      BY DEF Occurring
    <3>3. QED
      BY <2>2, <3>1, <3>2 DEF Underway, Remaining, Asked
  <2>3. QED
    BY <2>1, <2>2 DEF EachTriedOnce
<1>2. QED
  BY <1>1, FailoverInvHolds, PTL

(* UpstreamPool: the failover reaches every upstream that the deadline has time  *)
(* for, whatever the timeouts: an exchange that gave up early asked a TCP or DoT *)
(* upstream, or upstreams whose timeouts add up to all the time it had, which    *)
(* for the retry of a truncated answer is what was left of the request's.        *)
THEOREM FailoverFitsHolds == FailoverSpec => []FailoverFits
<1>1. FailoverInv => FailoverFits
  <2> SUFFICES ASSUME FailoverInv PROVE FailoverFits
    OBVIOUS
  <2> SUFFICES ASSUME NEW r \in Caller, at[r] = "failed", tried[r] # Upstream, tried[r] \ DoHs = {}
               PROVE  TimeoutsOf(tried[r]) >= IF again[r] THEN given[r] ELSE Budget
    BY DEF FailoverFits
  <2>1. FailoverTypes /\ Underway(r) /\ Accounted(r)
    BY DEF FailoverInv
  <2>2. left[r] = 0
    <3>1. Occurring(<< >>) = {}
      BY DEF Occurring
    <3>2. QED
      BY <2>1, <3>1 DEF Underway, Remaining, Asked
  <2>3. tried[r] \subseteq DoHs
    OBVIOUS
  <2>4. TimeoutsOf(tried[r]) \in Nat
    BY <2>1, TimeoutsNat DEF FailoverTypes
  <2>5. 0 + TimeoutsOf(tried[r]) + 0 >= given[r] /\ given[r] \in Nat
    BY <2>1, <2>2, <2>3 DEF Accounted, WaitedNow, FailoverTypes
  <2>6. ~again[r] => given[r] = Budget
    BY <2>1 DEF Accounted
  <2>7. QED
    BY <2>4, <2>5, <2>6
<1>2. QED
  BY <1>1, FailoverInvHolds, PTL
-----------------------------------------------------------------------------
USE ConnPoolAssumption

(* A connection in use is open, and until its exchange fails no response to an *)
(* earlier query is on its way.                                                *)
Held ==
  \A w \in Worker :
    /\ pc[w] \in Holders => conn[w] \in open
    /\ pc[w] \in {"exchange", "release"} => conn[w] \notin owed

IInv == TypeOK /\ Accounting /\ Exclusive /\ IdleClean /\ Held

Busy(p) == {w \in Worker : p[w] \in Counted}

(* The workers that count are a finite set, which a step of one changes by that *)
(* one at most.                                                                 *)
LEMMA BusyChanges ==
  ASSUME NEW p, p \in [Worker -> PC], NEW w \in Worker, NEW label \in PC
  PROVE  LET q == [p EXCEPT ![w] = label] IN
         /\ Cardinality(Busy(p)) \in Nat
         /\ p[w] \in Counted => Cardinality(Busy(p)) >= 1
         /\ p[w] \in Counted /\ label \in Counted => Cardinality(Busy(q)) = Cardinality(Busy(p))
         /\ p[w] \notin Counted /\ label \notin Counted => Cardinality(Busy(q)) = Cardinality(Busy(p))
         /\ p[w] \notin Counted /\ label \in Counted => Cardinality(Busy(q)) = Cardinality(Busy(p)) + 1
         /\ p[w] \in Counted /\ label \notin Counted => Cardinality(Busy(q)) = Cardinality(Busy(p)) - 1
<1> DEFINE q == [p EXCEPT ![w] = label]
<1>1. IsFiniteSet(Busy(p)) /\ Cardinality(Busy(p)) \in Nat
  <2>1. Busy(p) \subseteq Worker
    BY DEF Busy
  <2>2. QED
    BY <2>1, FS_Subset, FS_CardinalityType
<1>2. p[w] \in Counted => Cardinality(Busy(p)) >= 1
  <2>1. p[w] \in Counted => Busy(p) # {}
    BY DEF Busy
  <2>2. QED
    BY <1>1, <2>1, FS_EmptySet
<1>3. label \in Counted => Busy(q) = Busy(p) \cup {w}
  BY DEF Busy
<1>4. label \notin Counted => Busy(q) = Busy(p) \ {w}
  BY DEF Busy
<1>5. w \in Busy(p) <=> p[w] \in Counted
  BY DEF Busy
<1>6. Cardinality(Busy(p) \cup {w}) = IF w \in Busy(p) THEN Cardinality(Busy(p)) ELSE Cardinality(Busy(p)) + 1
  BY <1>1, FS_AddElement
<1>7. Cardinality(Busy(p) \ {w}) = IF w \in Busy(p) THEN Cardinality(Busy(p)) - 1 ELSE Cardinality(Busy(p))
  BY <1>1, FS_RemoveElement
<1>8. QED
  BY <1>1, <1>2, <1>3, <1>4, <1>5, <1>6, <1>7

(* What a step does to the count when it moves one worker and the channel. *)
LEMMA CountKept ==
  ASSUME TypeOK, Accounting, NEW w \in Worker, NEW label \in PC,
         pc' = [pc EXCEPT ![w] = label], Len(idle') \in Nat, total' \in Nat, total' <= Max,
         total' - Len(idle') - (IF label \in Counted THEN 1 ELSE 0)
           = total - Len(idle) - (IF pc[w] \in Counted THEN 1 ELSE 0)
  PROVE  Accounting'
<1>1. Len(idle) \in Nat /\ pc \in [Worker -> PC] /\ total \in Nat
  BY DEF TypeOK
<1>2. total = Len(idle) + Cardinality(Busy(pc))
  BY DEF Accounting, Busy
<1>3. total' = Len(idle') + Cardinality(Busy(pc'))
  <2>1. pc[w] \in Counted /\ label \in Counted => Cardinality(Busy(pc')) = Cardinality(Busy(pc))
    BY <1>1, BusyChanges
  <2>2. pc[w] \notin Counted /\ label \notin Counted => Cardinality(Busy(pc')) = Cardinality(Busy(pc))
    BY <1>1, BusyChanges
  <2>3. pc[w] \notin Counted /\ label \in Counted => Cardinality(Busy(pc')) = Cardinality(Busy(pc)) + 1
    BY <1>1, BusyChanges
  <2>4. pc[w] \in Counted /\ label \notin Counted => Cardinality(Busy(pc')) = Cardinality(Busy(pc)) - 1
    BY <1>1, BusyChanges
  <2>5. Cardinality(Busy(pc)) \in Nat
    BY <1>1, BusyChanges
  <2> DEFINE before == Cardinality(Busy(pc))
             after == Cardinality(Busy(pc'))
  <2> HIDE DEF before, after
  <2>6. CASE pc[w] \in Counted /\ label \in Counted
    <3>1. after = before /\ total = Len(idle) + before /\ before \in Nat
      BY <1>2, <2>1, <2>5, <2>6 DEF before, after
    <3>2. total' - Len(idle') - 1 = total - Len(idle) - 1
      BY <2>6
    <3>3. QED
      BY <1>1, <3>1, <3>2 DEF after
  <2>7. CASE pc[w] \notin Counted /\ label \notin Counted
    <3>1. after = before /\ total = Len(idle) + before /\ before \in Nat
      BY <1>2, <2>2, <2>5, <2>7 DEF before, after
    <3>2. total' - Len(idle') - 0 = total - Len(idle) - 0
      BY <2>7
    <3>3. QED
      BY <1>1, <3>1, <3>2 DEF after
  <2>8. CASE pc[w] \notin Counted /\ label \in Counted
    <3>1. after = before + 1 /\ total = Len(idle) + before /\ before \in Nat
      BY <1>2, <2>3, <2>5, <2>8 DEF before, after
    <3>2. total' - Len(idle') - 1 = total - Len(idle) - 0
      BY <2>8
    <3>3. QED
      BY <1>1, <3>1, <3>2 DEF after
  <2>9. CASE pc[w] \in Counted /\ label \notin Counted
    <3>1. after = before - 1 /\ total = Len(idle) + before /\ before \in Nat
      BY <1>2, <2>4, <2>5, <2>9 DEF before, after
    <3>2. total' - Len(idle') - 0 = total - Len(idle) - 1
      BY <2>9
    <3>3. QED
      BY <1>1, <3>1, <3>2 DEF after
  <2>10. QED
    BY <2>6, <2>7, <2>8, <2>9
<1>4. QED
  BY <1>3 DEF Accounting, Busy

(* A worker that counts has its place in the total. *)
LEMMA PlaceTaken ==
  ASSUME TypeOK, Accounting, NEW w \in Worker, pc[w] \in Counted
  PROVE  total \in Nat /\ total >= Len(idle) + 1
<1>1. pc \in [Worker -> PC] /\ pc[w] \in PC /\ Len(idle) \in Nat
  BY DEF TypeOK
<1>2. total = Len(idle) + Cardinality(Busy(pc))
  BY DEF Accounting, Busy
<1>3. QED
  BY <1>1, <1>2, BusyChanges DEF TypeOK

(* The head and the tail of the channel. *)
LEMMA ChannelHead ==
  ASSUME TypeOK, idle # << >>
  PROVE  /\ Head(idle) = idle[1] /\ 1 \in DOMAIN idle /\ Head(idle) \in Conn
         /\ Tail(idle) \in Seq(Conn) /\ Len(Tail(idle)) = Len(idle) - 1
         /\ \A i \in DOMAIN Tail(idle) : i + 1 \in DOMAIN idle /\ Tail(idle)[i] = idle[i + 1]
BY DEF TypeOK

(* Every step keeps the types; a worker that gives its place back had one. *)
LEMMA TypesKept ==
  ASSUME IInv, NEW w \in Worker, Request(w) \/ ContextDone(w) \/ Step(w)
  PROVE  TypeOK'
<1>0. /\ TypeOK /\ Accounting
      /\ pc[w] \in Holders => conn[w] \in Conn
  BY DEF IInv, Held, TypeOK
<1>1. CASE Request(w)
  BY <1>0, <1>1 DEF Request, TypeOK, pool, net, PC, Holders, Goto
<1>2. CASE ContextDone(w)
  BY <1>0, <1>2 DEF ContextDone, TypeOK, pool, net, PC, Holders
<1>3. CASE TakeIdle(w)
  BY <1>0, <1>3, ChannelHead DEF TakeIdle, TypeOK, pool, net, PC, Holders, Goto, Use, Close
<1>4. CASE DiscardStale(w)
  BY <1>0, <1>4, PlaceTaken DEF DiscardStale, TypeOK, pool, net, PC, Holders, Goto, Use, Counted
<1>5. CASE NoneIdle(w)
  BY <1>0, <1>5 DEF NoneIdle, TypeOK, pool, net, PC, Holders, Goto
<1>6. CASE Reserve(w)
  BY <1>0, <1>6 DEF Reserve, TypeOK, pool, net, PC, Holders, Goto, HasRoom
<1>7. CASE Dial(w)
  BY <1>0, <1>7 DEF Dial, TypeOK, pool, net, PC, Holders, Goto, Dialed, Use
<1>8. CASE DialFails(w)
  BY <1>0, <1>8, PlaceTaken DEF DialFails, TypeOK, pool, net, PC, Holders, Leave, Goto, Counted
<1>9. CASE TakeReleased(w)
  BY <1>0, <1>9, ChannelHead DEF TakeReleased, TypeOK, pool, net, PC, Holders, Goto, Use
<1>10. CASE GiveUp(w)
  BY <1>0, <1>10 DEF GiveUp, TypeOK, pool, net, PC, Holders, Leave, Goto
<1>11. CASE Answered(w)
  BY <1>0, <1>11 DEF Answered, TypeOK, pool, net, PC, Holders, Goto
<1>12. CASE Fails(w)
  BY <1>0, <1>12 DEF Fails, TypeOK, pool, net, PC, Holders, Goto
<1>13. CASE Release(w)
  <2>1. idle' \in Seq(Conn)
    BY <1>0, <1>13 DEF Release, TypeOK, Holders
  <2>2. pc' \in [Worker -> PC] /\ open' \subseteq Conn
    BY <1>0, <1>13 DEF Release, TypeOK, Leave, Goto, Close, PC
  <2>3. /\ conn' \in [Worker -> Conn \cup {None}]
        /\ reused' \in [Worker -> BOOLEAN] /\ done' \in [Worker -> BOOLEAN]
    BY <1>0, <1>13 DEF Release, TypeOK, Leave
  <2>4. QED
    BY <1>0, <1>13, <2>1, <2>2, <2>3 DEF Release, TypeOK
<1>14. CASE Drop(w)
  BY <1>0, <1>14 DEF Drop, TypeOK, pool, net, PC, Holders, Goto, Close
<1>15. CASE Uncount(w)
  <2>1. total' \in Nat
    BY <1>0, <1>15, PlaceTaken DEF Uncount, Counted
  <2>2. pc' \in [Worker -> PC]
    BY <1>0, <1>15 DEF Uncount, TypeOK, Leave, Goto, PC
  <2>3. /\ conn' \in [Worker -> Conn \cup {None}]
        /\ reused' \in [Worker -> BOOLEAN] /\ done' \in [Worker -> BOOLEAN]
    BY <1>0, <1>15 DEF Uncount, TypeOK, Leave, Use
  <2>4. QED
    BY <1>0, <1>15, <2>1, <2>2, <2>3 DEF Uncount, TypeOK, net
<1>16. CASE Redial(w)
  <2>1. ASSUME NEW c \in Conn, Dialed(w, c), Use(w, c, FALSE), Goto(w, "retry"), UNCHANGED <<pool, done>>
        PROVE  TypeOK'
    <3>1. idle' = idle /\ total' = total /\ done' = done
      BY <2>1 DEF pool
    <3>2. open' \subseteq Conn /\ owed' \subseteq Conn
      BY <1>0, <2>1 DEF TypeOK, Dialed
    <3>3. pc' \in [Worker -> PC]
      BY <1>0, <2>1 DEF TypeOK, Goto, PC
    <3>4. conn' \in [Worker -> Conn \cup {None}] /\ reused' \in [Worker -> BOOLEAN]
      BY <1>0, <2>1 DEF TypeOK, Use
    <3>5. QED
      BY <1>0, <3>1, <3>2, <3>3, <3>4 DEF TypeOK
  <2>2. ASSUME Leave(w), UNCHANGED <<pool, net>> PROVE TypeOK'
    <3>1. idle' = idle /\ total' = total /\ open' = open /\ owed' = owed
      BY <2>2 DEF pool, net
    <3>2. pc' \in [Worker -> PC]
      BY <1>0, <2>2 DEF TypeOK, Leave, Goto, PC
    <3>3. /\ conn' \in [Worker -> Conn \cup {None}]
          /\ reused' \in [Worker -> BOOLEAN] /\ done' \in [Worker -> BOOLEAN]
      BY <1>0, <2>2 DEF TypeOK, Leave
    <3>4. QED
      BY <1>0, <3>1, <3>2, <3>3 DEF TypeOK
  <2>3. QED
    BY <1>16, <2>1, <2>2 DEF Redial
<1>17. CASE Retry(w)
  BY <1>0, <1>17 DEF Retry, TypeOK, pool, net, PC, Holders, Leave, Goto, Close
<1>18. QED
  BY <1>1, <1>2, <1>3, <1>4, <1>5, <1>6, <1>7, <1>8, <1>9, <1>10, <1>11, <1>12, <1>13, <1>14, <1>15, <1>16, <1>17 DEF Step

(* Every step keeps the count. *)
LEMMA CountingKept ==
  ASSUME TypeOK, Accounting, NEW w \in Worker, Request(w) \/ ContextDone(w) \/ Step(w)
  PROVE  Accounting'
<1>0. Len(idle) \in Nat /\ total \in Nat /\ total <= Max /\ pc \in [Worker -> PC]
  BY DEF TypeOK, Accounting
<1>1. CASE Request(w)
  BY <1>0, <1>1, CountKept DEF Request, pool, PC, Counted, Goto
<1>2. CASE ContextDone(w)
  BY <1>2 DEF ContextDone, Accounting, pool
<1>3. CASE TakeIdle(w)
  BY <1>0, <1>3, CountKept, ChannelHead DEF TakeIdle, pool, PC, Counted, Goto, Use, Close
<1>4. CASE DiscardStale(w)
  <2>1. pc[w] \in PC /\ pc' = [pc EXCEPT ![w] = "try"] /\ idle' = idle /\ total' = total - 1
    BY <1>0, <1>4 DEF DiscardStale, Goto, Use, pool
  <2>2. Len(idle') \in Nat /\ total' \in Nat /\ total' <= Max
    BY <1>0, <1>4, <2>1, PlaceTaken DEF DiscardStale, Counted
  <2>3. total' - Len(idle') - (IF "try" \in Counted THEN 1 ELSE 0)
          = total - Len(idle) - (IF pc[w] \in Counted THEN 1 ELSE 0)
    BY <1>0, <1>4, <2>1, PlaceTaken DEF DiscardStale, Counted
  <2>4. "try" \in PC
    BY DEF PC
  <2>5. QED
    BY <2>1, <2>2, <2>3, <2>4, CountKept
<1>5. CASE NoneIdle(w)
  BY <1>0, <1>5, CountKept DEF NoneIdle, pool, PC, Counted, Goto
<1>6. CASE Reserve(w)
  <2>1. CASE HasRoom
    <3>1. pc[w] \in PC /\ pc' = [pc EXCEPT ![w] = "dial"] /\ idle' = idle /\ total' = total + 1
      BY <1>0, <1>6, <2>1 DEF Reserve, Goto, HasRoom, pool
    <3>2. Len(idle') \in Nat /\ total' \in Nat /\ total' <= Max
      BY <1>0, <1>6, <2>1, <3>1 DEF Reserve, HasRoom, Counted
    <3>3. total' - Len(idle') - (IF "dial" \in Counted THEN 1 ELSE 0)
            = total - Len(idle) - (IF pc[w] \in Counted THEN 1 ELSE 0)
      BY <1>0, <1>6, <2>1, <3>1 DEF Reserve, HasRoom, Counted
    <3>4. "dial" \in PC
      BY DEF PC
    <3>5. QED
      BY <3>1, <3>2, <3>3, <3>4, CountKept
  <2>2. CASE ~HasRoom
    <3>1. pc[w] \in PC /\ pc' = [pc EXCEPT ![w] = "wait"] /\ idle' = idle /\ total' = total
      BY <1>0, <1>6, <2>2 DEF Reserve, Goto, HasRoom, pool
    <3>2. Len(idle') \in Nat /\ total' \in Nat /\ total' <= Max
      BY <1>0, <1>6, <2>2, <3>1 DEF Reserve, HasRoom, Counted
    <3>3. total' - Len(idle') - (IF "wait" \in Counted THEN 1 ELSE 0)
            = total - Len(idle) - (IF pc[w] \in Counted THEN 1 ELSE 0)
      BY <1>0, <1>6, <2>2, <3>1 DEF Reserve, HasRoom, Counted
    <3>4. "wait" \in PC
      BY DEF PC
    <3>5. QED
      BY <3>1, <3>2, <3>3, <3>4, CountKept
  <2>3. QED
    BY <2>1, <2>2
<1>7. CASE Dial(w)
  BY <1>0, <1>7, CountKept DEF Dial, pool, PC, Counted, Goto, Dialed, Use
<1>8. CASE DialFails(w)
  <2>1. pc[w] \in PC /\ pc' = [pc EXCEPT ![w] = "none"] /\ idle' = idle /\ total' = total - 1
    BY <1>0, <1>8 DEF DialFails, Leave, Goto, pool
  <2>2. Len(idle') \in Nat /\ total' \in Nat /\ total' <= Max
    BY <1>0, <1>8, <2>1, PlaceTaken DEF DialFails, Counted
  <2>3. total' - Len(idle') - (IF "none" \in Counted THEN 1 ELSE 0)
          = total - Len(idle) - (IF pc[w] \in Counted THEN 1 ELSE 0)
    BY <1>0, <1>8, <2>1, PlaceTaken DEF DialFails, Counted
  <2>4. "none" \in PC
    BY DEF PC
  <2>5. QED
    BY <2>1, <2>2, <2>3, <2>4, CountKept
<1>9. CASE TakeReleased(w)
  <2>1. pc[w] \in PC /\ pc' = [pc EXCEPT ![w] = "exchange"] /\ idle' = Tail(idle) /\ total' = total
    BY <1>0, <1>9 DEF TakeReleased, Goto, Use, pool
  <2>2. Len(idle') \in Nat /\ total' \in Nat /\ total' <= Max
    BY <1>0, <1>9, <2>1, ChannelHead DEF TakeReleased, Counted
  <2>3. total' - Len(idle') - (IF "exchange" \in Counted THEN 1 ELSE 0)
          = total - Len(idle) - (IF pc[w] \in Counted THEN 1 ELSE 0)
    BY <1>0, <1>9, <2>1, ChannelHead DEF TakeReleased, Counted
  <2>4. "exchange" \in PC
    BY DEF PC
  <2>5. QED
    BY <2>1, <2>2, <2>3, <2>4, CountKept
<1>10. CASE GiveUp(w)
  BY <1>0, <1>10, CountKept DEF GiveUp, pool, PC, Counted, Leave, Goto
<1>11. CASE Answered(w)
  BY <1>0, <1>11, CountKept DEF Answered, pool, PC, Counted, Goto
<1>12. CASE Fails(w)
  BY <1>0, <1>12, CountKept DEF Fails, pool, PC, Counted, Goto
<1>13. CASE Release(w)
  <2>1. CASE Len(idle) < Max
    <3>1. pc[w] \in PC /\ pc' = [pc EXCEPT ![w] = "none"] /\ idle' = Append(idle, conn[w]) /\ total' = total
      BY <1>0, <1>13, <2>1 DEF Release, Leave, Goto, pool
    <3>2. Len(idle') \in Nat /\ total' \in Nat /\ total' <= Max
      BY <1>0, <1>13, <2>1, <3>1 DEF Release, Counted
    <3>3. total' - Len(idle') - (IF "none" \in Counted THEN 1 ELSE 0)
            = total - Len(idle) - (IF pc[w] \in Counted THEN 1 ELSE 0)
      BY <1>0, <1>13, <2>1, <3>1 DEF Release, Counted
    <3>4. "none" \in PC
      BY DEF PC
    <3>5. QED
      BY <3>1, <3>2, <3>3, <3>4, CountKept
  <2>2. CASE ~(Len(idle) < Max)
    <3>1. pc[w] \in PC /\ pc' = [pc EXCEPT ![w] = "uncount"] /\ idle' = idle /\ total' = total
      BY <1>0, <1>13, <2>2 DEF Release, Goto, pool
    <3>2. Len(idle') \in Nat /\ total' \in Nat /\ total' <= Max
      BY <1>0, <1>13, <2>2, <3>1 DEF Release, Counted
    <3>3. total' - Len(idle') - (IF "uncount" \in Counted THEN 1 ELSE 0)
            = total - Len(idle) - (IF pc[w] \in Counted THEN 1 ELSE 0)
      BY <1>0, <1>13, <2>2, <3>1 DEF Release, Counted
    <3>4. "uncount" \in PC
      BY DEF PC
    <3>5. QED
      BY <3>1, <3>2, <3>3, <3>4, CountKept
  <2>3. QED
    BY <2>1, <2>2
<1>14. CASE Drop(w)
  BY <1>0, <1>14, CountKept DEF Drop, pool, PC, Counted, Goto, Close
<1>15. CASE Uncount(w)
  BY <1>0, <1>15, CountKept, PlaceTaken DEF Uncount, pool, PC, Counted, Leave, Goto, Use
<1>16. CASE Redial(w)
  BY <1>0, <1>16, CountKept DEF Redial, pool, PC, Counted, Leave, Goto, Dialed, Use
<1>17. CASE Retry(w)
  BY <1>0, <1>17, CountKept DEF Retry, pool, PC, Counted, Leave, Goto, Close
<1>18. QED
  BY <1>1, <1>2, <1>3, <1>4, <1>5, <1>6, <1>7, <1>8, <1>9, <1>10, <1>11, <1>12, <1>13, <1>14, <1>15, <1>16, <1>17 DEF Step

(* Every step keeps the connections apart: what it opens nobody uses, and what it *)
(* closes or has failed on is in no other hands.                                  *)
LEMMA ConnectionsKept ==
  ASSUME IInv, NEW w \in Worker, Request(w) \/ ContextDone(w) \/ Step(w)
  PROVE  Exclusive' /\ IdleClean' /\ Held'
<1> USE DEF IInv, TypeOK, Exclusive, IdleClean, Held, Holders
<1>1. CASE Request(w)
  BY <1>1 DEF Request, pool, net, PC, Goto
<1>2. CASE ContextDone(w)
  BY <1>2 DEF ContextDone, pool, net, PC
<1>3. CASE TakeIdle(w)
  BY <1>3, ChannelHead DEF TakeIdle, pool, net, PC, Goto, Use, Close
<1>4. CASE DiscardStale(w)
  BY <1>4 DEF DiscardStale, pool, net, PC, Goto, Use
<1>5. CASE NoneIdle(w)
  BY <1>5 DEF NoneIdle, pool, net, PC, Goto
<1>6. CASE Reserve(w)
  BY <1>6 DEF Reserve, pool, net, PC, Goto, HasRoom
<1>7. CASE Dial(w)
  BY <1>7 DEF Dial, pool, net, PC, Goto, Dialed, Use
<1>8. CASE DialFails(w)
  BY <1>8 DEF DialFails, pool, net, PC, Leave, Goto
<1>9. CASE TakeReleased(w)
  BY <1>9, ChannelHead DEF TakeReleased, pool, net, PC, Goto, Use
<1>10. CASE GiveUp(w)
  BY <1>10 DEF GiveUp, pool, net, PC, Leave, Goto
<1>11. CASE Answered(w)
  BY <1>11 DEF Answered, pool, net, PC, Goto
<1>12. CASE Fails(w)
  BY <1>12 DEF Fails, pool, net, PC, Goto
<1>13. CASE Release(w)
  <2>1. CASE Len(idle) < Max
    <3>1. Len(idle') = Len(idle) + 1 /\ Len(idle) \in Nat
      BY <1>13, <2>1 DEF Release
    <3>2. DOMAIN idle' = 1..Len(idle) + 1 /\ DOMAIN idle = 1..Len(idle)
      BY <1>13, <2>1 DEF Release
    <3>3. \A i \in DOMAIN idle' : idle'[i] = IF i \in DOMAIN idle THEN idle[i] ELSE conn[w]
      BY <1>13, <2>1 DEF Release
    <3>4. /\ pc' = [pc EXCEPT ![w] = "none"] /\ conn' = [conn EXCEPT ![w] = None]
          /\ open' = open /\ owed' = owed /\ pc[w] = "release"
      BY <1>13, <2>1 DEF Release, Leave, Goto
    <3>5. \A i \in DOMAIN idle' : i \notin DOMAIN idle => i = Len(idle) + 1
      BY <3>1, <3>2
    <3>6. Exclusive'
      BY <3>3, <3>4, <3>5
    <3>7. IdleClean'
      BY <3>3, <3>4
    <3>8. Held'
      BY <3>4
    <3>9. QED
      BY <3>6, <3>7, <3>8
  <2>2. CASE ~(Len(idle) < Max)
    BY <1>13, <2>2 DEF Release, pool, net, PC, Goto, Close
  <2>3. QED
    BY <2>1, <2>2
<1>14. CASE Drop(w)
  BY <1>14 DEF Drop, pool, net, PC, Goto, Close
<1>15. CASE Uncount(w)
  BY <1>15 DEF Uncount, pool, net, PC, Leave, Goto, Use
<1>16. CASE Redial(w)
  BY <1>16 DEF Redial, pool, net, PC, Leave, Goto, Dialed, Use
<1>17. CASE Retry(w)
  BY <1>17 DEF Retry, pool, net, PC, Leave, Goto, Close
<1>18. QED
  BY <1>1, <1>2, <1>3, <1>4, <1>5, <1>6, <1>7, <1>8, <1>9, <1>10, <1>11, <1>12, <1>13, <1>14, <1>15, <1>16, <1>17 DEF Step

LEMMA IInvHolds == Spec => []IInv
<1>1. Init => IInv
  <2>1. ASSUME Init PROVE {w \in Worker : pc[w] \in Counted} = {}
    BY <2>1 DEF Init, Counted
  <2>2. ASSUME Init PROVE TypeOK /\ Exclusive /\ IdleClean /\ Held
    BY <2>2 DEF Init, TypeOK, Exclusive, IdleClean, Held, Holders, PC
  <2>3. ASSUME Init PROVE Accounting
    <3>1. Len(idle) = 0 /\ total = 0 /\ total <= Max
      BY <2>3 DEF Init
    <3>2. {w \in Worker : pc[w] \in Counted} = {}
      BY <2>1, <2>3
    <3>3. Cardinality({w \in Worker : pc[w] \in Counted}) = 0
      BY <3>2, FS_EmptySet
    <3>4. QED
      BY <3>1, <3>3 DEF Accounting
  <2>4. QED
    BY <2>2, <2>3 DEF IInv
<1>2. IInv /\ [Next]_vars => IInv'
  <2> SUFFICES ASSUME IInv, [Next]_vars PROVE IInv'
    OBVIOUS
  <2>1. CASE Next
    <3>1. PICK w \in Worker : Request(w) \/ ContextDone(w) \/ Step(w)
      BY <2>1 DEF Next
    <3>2. QED
      BY <3>1, TypesKept, CountingKept, ConnectionsKept DEF IInv
  <2>2. CASE UNCHANGED vars
    BY <2>2 DEF vars, pool, net, IInv, TypeOK, Accounting, Exclusive, IdleClean, Held
  <2>3. QED
    BY <2>1, <2>2
<1>3. QED
  BY <1>1, <1>2, PTL DEF Spec

(* The pool, its channel and the exchanges in progress keep their types. *)
THEOREM TypeCorrect == Spec => []TypeOK
BY IInvHolds, PTL DEF IInv

(* "Bounded so a single upstream cannot exhaust file descriptors": the pool counts *)
(* its connections exactly and never has more than fit, whatever fails.            *)
THEOREM AccountingHolds == Spec => []Accounting
BY IInvHolds, PTL DEF IInv

(* No two exchanges ever use one connection, and none uses an idle one. *)
THEOREM ExclusiveHolds == Spec => []Exclusive
BY IInvHolds, PTL DEF IInv

(* A connection of the pool is open, and no old response can come on it. *)
THEOREM IdleCleanHolds == Spec => []IdleClean
BY IInvHolds, PTL DEF IInv
=============================================================================
