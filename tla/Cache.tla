-------------------------------- MODULE Cache --------------------------------
(***************************************************************************)
(* The DNS response cache (internal/cache/cache.go), shared by every       *)
(* goroutine that resolves.  Set is one critical section.  Get is not: it  *)
(* looks the entry up under the read lock, checks and ages it with no lock *)
(* held, and takes the write lock again to touch or to remove.  Each of    *)
(* those pieces is an action, so a Set or another Get may come in between. *)
(*                                                                         *)
(* Entries are heap objects: a Get keeps its pointer to an entry that has  *)
(* left the map and the list meanwhile.  Time is relative: an entry has an *)
(* age, which stops at the value beyond which it makes no difference.  A   *)
(* message is reduced to the TTL of its records (all of them equal).       *)
(***************************************************************************)
EXTENDS Integers, Sequences

CONSTANTS
  Entry,        \* entry objects
  Getter,       \* goroutines that call Get
  Key,          \* cacheKey values
  MaxSize,      \* maxSize
  MaxTTL,       \* ttl: the longest lifetime of an entry
  NegativeTTL,  \* negativeTTL: the lifetime of an entry without answers
  RecordTTLs,   \* the TTLs of the records of the answers
  NoAnswer,     \* instead of a TTL: a message with no answer records
  None

ASSUME CacheAssumption ==
  /\ MaxSize \in Nat \ {0} /\ MaxTTL \in Nat \ {0} /\ NegativeTTL \in Nat \ {0}
  /\ RecordTTLs \subseteq Nat /\ NoAnswer \notin Nat
  /\ None \notin Entry \cup Key

VARIABLES
  heap,     \* heap[e]: the contents of entry e
  items,    \* items[k]: the entry under key k
  lru,      \* the list of entries, most recently used first
  pc,       \* pc[g]: where Get is in goroutine g
  key,      \* key[g]: the key it was asked for
  ptr,      \* ptr[g]: the entry it found
  elapsed,  \* elapsed[g]: elapsedSeconds
  ttl,      \* ttl[g]: the record TTL it has computed or copied
  earliest  \* earliest[g]: the least elapsedSeconds of the Gets at work on the
            \* records of the entry when g read the clock, its own included

locals == <<pc, key, ptr, elapsed, ttl, earliest>>
vars == <<heap, items, lru, locals>>

PC == {"idle", "found", "expired", "read", "write", "touch", "copy", "done"}

\* The age at which every entry has expired.
OldAge == (IF MaxTTL > NegativeTTL THEN MaxTTL ELSE NegativeTTL) + 1

Blank == [key |-> None, age |-> 0, life |-> 0, stored |-> 0, ttl |-> 0]

Init ==
  /\ heap = [e \in Entry |-> Blank]
  /\ items = [k \in Key |-> None]
  /\ lru = << >>
  /\ pc = [g \in Getter |-> "idle"]
  /\ key = [g \in Getter |-> None]
  /\ ptr = [g \in Getter |-> None]
  /\ elapsed = [g \in Getter |-> 0]
  /\ ttl = [g \in Getter |-> 0]
  /\ earliest = [g \in Getter |-> 0]

Listed(l) == {l[i] : i \in DOMAIN l}

\* Entries in the list or held by a Get; nothing reaches the others.
InUse == Listed(lru) \cup {ptr[g] : g \in Getter}

Collected(h) == [e \in Entry |-> IF e \in InUse' THEN h[e] ELSE Blank]

Expired(e) == heap[e].age > heap[e].life

(* container/list: Remove does nothing to an element that is not in the list. *)
Where(l, e) == CHOOSE i \in DOMAIN l : l[i] = e

Without(l, e) ==
  IF e \in Listed(l)
  THEN [j \in 1..(Len(l) - 1) |-> IF j < Where(l, e) THEN l[j] ELSE l[j + 1]]
  ELSE l

PushFront(l, e) == <<e>> \o l

-----------------------------------------------------------------------------
(* Get *)

(* The lookup under the read lock.  One that finds nothing changes nothing. *)
Find(g, k) ==
  /\ pc[g] = "idle"
  /\ items[k] # None
  /\ pc' = [pc EXCEPT ![g] = "found"]
  /\ key' = [key EXCEPT ![g] = k]
  /\ ptr' = [ptr EXCEPT ![g] = items[k]]
  /\ UNCHANGED <<heap, items, lru, elapsed, ttl, earliest>>

\* Mutant: records younger than two seconds are not aged.
AgedLate(seconds) == seconds > 1

Aged(seconds) == seconds > 0

Least(S) == CHOOSE n \in S : \A m \in S : n <= m

\* The Gets that may still write the TTL they have computed for entry e.
Ageing(e) == {f \in Getter : ptr[f] = e /\ pc[f] \in {"read", "write"}}

(* The clock is read: the entry has expired, is to be aged, or is new. *)
Check(g) ==
  /\ pc[g] = "found"
  /\ LET age == heap[ptr[g]].age
     IN  /\ pc' = [pc EXCEPT ![g] = IF Expired(ptr[g]) THEN "expired"
                                    ELSE IF Aged(age) THEN "read" ELSE "touch"]
         /\ elapsed' = [elapsed EXCEPT ![g] = age]
         /\ earliest' = [earliest EXCEPT ![g] = Least({age} \cup {elapsed[f] : f \in Ageing(ptr[g])})]
  /\ UNCHANGED <<heap, items, lru, key, ptr, ttl>>

Idle(g) ==
  /\ pc' = [pc EXCEPT ![g] = "idle"]
  /\ key' = [key EXCEPT ![g] = None]
  /\ ptr' = [ptr EXCEPT ![g] = None]
  /\ elapsed' = [elapsed EXCEPT ![g] = 0]
  /\ ttl' = [ttl EXCEPT ![g] = 0]
  /\ earliest' = [earliest EXCEPT ![g] = 0]

(* removeLocked: by key, whatever entry is under it by now. *)
Remove(g) ==
  /\ pc[g] = "expired"
  /\ LET e == items[key[g]]
     IN  IF e = None THEN UNCHANGED <<items, lru>>
         ELSE /\ lru' = Without(lru, e)
              /\ items' = [items EXCEPT ![key[g]] = None]
  /\ Idle(g)
  /\ heap' = Collected(heap)

(* The records of the shared entry are aged in place, with no lock held. *)
Decremented(current, seconds) == IF current <= seconds THEN 0 ELSE current - seconds

ReadTTL(g) ==
  /\ pc[g] = "read"
  /\ ttl' = [ttl EXCEPT ![g] = Decremented(heap[ptr[g]].ttl, elapsed[g])]
  /\ pc' = [pc EXCEPT ![g] = "write"]
  /\ UNCHANGED <<heap, items, lru, key, ptr, elapsed, earliest>>

WriteTTL(g) ==
  /\ pc[g] = "write"
  /\ heap' = [heap EXCEPT ![ptr[g]].ttl = ttl[g]]
  /\ pc' = [pc EXCEPT ![g] = "touch"]
  /\ UNCHANGED <<items, lru, key, ptr, elapsed, ttl, earliest>>

(* MoveToFront, under the lock: nothing when the entry has left the list. *)
Touch(g) ==
  /\ pc[g] = "touch"
  /\ lru' = IF ptr[g] \in Listed(lru) THEN PushFront(Without(lru, ptr[g]), ptr[g]) ELSE lru
  /\ pc' = [pc EXCEPT ![g] = "copy"]
  /\ UNCHANGED <<heap, items, key, ptr, elapsed, ttl, earliest>>

Copy(g) ==
  /\ pc[g] = "copy"
  /\ ttl' = [ttl EXCEPT ![g] = heap[ptr[g]].ttl]
  /\ pc' = [pc EXCEPT ![g] = "done"]
  /\ UNCHANGED <<heap, items, lru, key, ptr, elapsed, earliest>>

Return(g) ==
  /\ pc[g] = "done"
  /\ Idle(g)
  /\ UNCHANGED <<items, lru>>
  /\ heap' = Collected(heap)

-----------------------------------------------------------------------------
(* Set.  A nil message and an NXDOMAIN are not stored. *)
Smaller(a, b) == IF a < b THEN a ELSE b

Lifetime(t) ==
  IF t = NoAnswer \/ t = 0 THEN NegativeTTL ELSE Smaller(t, MaxTTL)

\* Mutant: eviction does not look for expired entries.
VictimLast(l, h) == l[Len(l)]

\* evictLocked's victim: the expired entry nearest to the back, or the back.
Victim(l, h) ==
  LET old == {i \in DOMAIN l : h[l[i]].age > h[l[i]].life}
  IN  IF old = {} THEN l[Len(l)] ELSE l[CHOOSE i \in old : \A j \in old : j <= i]

\* Mutant: the list keeps the entry that Set replaces.
ReplacedKept(k) == lru

Replaced(k) == IF items[k] = None THEN lru ELSE Without(lru, items[k])

(* Set adds one entry to a cache that fits, so evictLocked's loop runs at most *)
(* once.                                                                       *)
Set(k, t) ==
  \E e \in Entry \ InUse :
    LET new == [key |-> k, age |-> 0, life |-> Lifetime(t),
                stored |-> IF t = NoAnswer THEN 0 ELSE t,
                ttl |-> IF t = NoAnswer THEN 0 ELSE t]
        h == [heap EXCEPT ![e] = new]
        l == PushFront(Replaced(k), e)
        m == [items EXCEPT ![k] = e]
        v == Victim(l, h)
    IN  /\ IF Len(l) <= MaxSize THEN lru' = l /\ items' = m
           ELSE /\ lru' = Without(l, v)
                /\ items' = [m EXCEPT ![h[v].key] = None]
        /\ UNCHANGED locals
        /\ heap' = Collected(h)

(* A second passes, whatever the Gets are at. *)
Tick ==
  /\ heap' = [e \in Entry |->
                IF e \in InUse THEN [heap[e] EXCEPT !.age = Smaller(@ + 1, OldAge)]
                ELSE heap[e]]
  /\ UNCHANGED <<items, lru, locals>>

Next ==
  \/ \E g \in Getter :
       \/ \E k \in Key : Find(g, k)
       \/ Check(g) \/ Remove(g) \/ ReadTTL(g) \/ WriteTTL(g) \/ Touch(g) \/ Copy(g)
       \/ Return(g)
  \/ \E k \in Key, t \in RecordTTLs \cup {NoAnswer} : Set(k, t)
  \/ Tick

Spec == Init /\ [][Next]_vars
-----------------------------------------------------------------------------
(* Type invariant of the cache and of the Gets in progress. *)
Contents == [key : Key \cup {None}, age : 0..OldAge, life : 0..OldAge, stored : Nat, ttl : Nat]

TypeOK ==
  /\ heap \in [Entry -> Contents]
  /\ items \in [Key -> Entry \cup {None}]
  /\ lru \in Seq(Entry)
  /\ pc \in [Getter -> PC]
  /\ key \in [Getter -> Key \cup {None}]
  /\ ptr \in [Getter -> Entry \cup {None}]
  /\ elapsed \in [Getter -> 0..OldAge]
  /\ ttl \in [Getter -> Nat]
  /\ earliest \in [Getter -> 0..OldAge]

(* The map and the list hold the same entries, each once and under its own key, *)
(* and no more of them than fit, whatever Get and Set interleave.               *)
Consistent ==
  /\ \A i, j \in DOMAIN lru : lru[i] = lru[j] => i = j
  /\ \A i \in DOMAIN lru : heap[lru[i]].key \in Key /\ items[heap[lru[i]].key] = lru[i]
  /\ \A k \in Key : items[k] # None => items[k] \in Listed(lru) /\ heap[items[k]].key = k
  /\ Len(lru) <= MaxSize

(* A live entry leaves the cache in two ways only: it is the least recently   *)
(* used one of a full cache in which nothing has expired, or a Get that met   *)
(* its expired predecessor under the same key removes it by key.  (Set may    *)
(* also replace it under its key.)                                            *)
Dropped(k) == items[k] # None /\ ~Expired(items[k]) /\ items'[k] = None

LiveEntriesStay ==
  [][\A k \in Key : Dropped(k) =>
       \/ \E g \in Getter : pc[g] = "expired" /\ key[g] = k /\ ptr[g] # items[k]
       \/ /\ Len(lru) = MaxSize /\ items[k] = lru[MaxSize]
          /\ \A i \in DOMAIN lru : ~Expired(lru[i])]_vars

(* No hit carries a TTL longer than what is left of the stored one by the       *)
(* earliest clock reading among the Gets that were ageing the entry when it     *)
(* read its own: a Get with no other at work on its entry never hands out too   *)
(* much, and a racing one too much by at most the time between their readings,  *)
(* because a late write may undo a later reading's.                             *)
Left(stored, seconds) == IF stored > seconds THEN stored - seconds ELSE 0

TTLNotTooLong ==
  \A g \in Getter :
    pc[g] = "done" => ttl[g] <= Left(heap[ptr[g]].stored, earliest[g])

(* "answer TTL want 290": a hit carries the stored TTL less the seconds since *)
(* it was stored.                                                             *)
HitTTLExact ==
  \A g \in Getter :
    pc[g] = "done" => ttl[g] = Left(heap[ptr[g]].stored, elapsed[g])
=============================================================================
