--------------------------- MODULE FragmentsProofs ---------------------------
(***************************************************************************)
(* Theorems about Fragments, for every set of connections, queries and     *)
(* keys and every choice of the timeouts.                                  *)
(***************************************************************************)
EXTENDS Fragments, FiniteSetTheorems, TLAPS

(* What a connection holds at each point of its handler. *)
Wiring ==
  \A c \in Conn :
    /\ pc[c] # "none" => query[c] \in Query /\ index[c] \in 1..PiecesOf[query[c]]
    /\ ptr[c] = None <=> pc[c] \in {"none", "open"}
    /\ pc[c] = "resolve" => out[c] \in Text
    /\ pc[c] \in {"store", "close"} => out[c] \in Result
    /\ got[c] # None => pc[c] = "closed"

TypeInv == TypeOK /\ Wiring

USE DEF PC, Completing

LEMMA PiecesType ==
  ASSUME NEW q \in Query PROVE PiecesOf[q] \in Nat /\ 2 <= PiecesOf[q] /\ PiecesOf[q] <= MaxPieces
  BY FragmentsAssumption

LEMMA ClockType ==
  /\ MaxPieces \in Nat /\ WriteDeadline \in Nat /\ FragmentTimeout \in Nat /\ PurgeAge \in Nat
  /\ FragmentTimeout > 0 /\ WriteDeadline <= FragmentTimeout
  BY FragmentsAssumption DEF PurgeAge

LEMMA NoneType ==
  /\ None \notin Conn /\ None \notin Query /\ None \notin Result /\ None # Ack
  /\ None \notin Text /\ Ack \notin Result /\ ServFail \in Result
  /\ \A t \in Text : t \in Result
  BY FragmentsAssumption DEF Result

LEMMA EmptyText == [i \in Position |-> None] \in Text
  BY DEF Text

LEMMA TypeStart == Init => TypeInv
  BY ClockType, NoneType, EmptyText DEF Init, TypeInv, TypeOK, Wiring

LEMMA TypeStep == TypeInv /\ [Next]_vars => TypeInv'
<1> SUFFICES ASSUME TypeOK, Wiring, [Next]_vars PROVE TypeOK' /\ Wiring'
  BY DEF TypeInv
<1> USE ClockType, NoneType DEF TypeOK, conns, cells, clocks
<1>1. ASSUME NEW c \in Conn, Open(c) PROVE TypeOK' /\ Wiring'
  <2>1. PICK q \in Query, i \in Nat :
          /\ i \in 1..PiecesOf[q]
          /\ query' = [query EXCEPT ![c] = q] /\ index' = [index EXCEPT ![c] = i]
    <3>1. PICK q \in Query : \E i \in 1..PiecesOf[q] :
            query' = [query EXCEPT ![c] = q] /\ index' = [index EXCEPT ![c] = i]
      BY <1>1 DEF Open
    <3>2. PiecesOf[q] \in Nat
      BY PiecesType
    <3>3. PICK i \in 1..PiecesOf[q] :
            query' = [query EXCEPT ![c] = q] /\ index' = [index EXCEPT ![c] = i]
      BY <3>1
    <3>4. i \in Nat
      BY <3>2
    <3> QED
      BY <3>3, <3>4
  <2>2. i \in 0..MaxPieces
    BY <2>1, PiecesType
  <2>3. TypeOK'
    BY <1>1, <2>1, <2>2 DEF Open
  <2>4. Wiring'
    BY <1>1, <2>1 DEF Open, Wiring
  <2> QED
    BY <2>3, <2>4
<1>2. ASSUME NEW c \in Conn, Lookup(c) PROVE TypeOK' /\ Wiring'
  <2> DEFINE s == IF Purged(KeyOf[query[c]]) = None THEN c ELSE Purged(KeyOf[query[c]])
  <2>1. KeyOf[query[c]] \in Key
    BY <1>2, FragmentsAssumption DEF Lookup, Wiring
  <2>2. s \in Conn
    BY <2>1 DEF Purged
  <2>3. TypeOK'
    <3>1. sets' = [j \in Key |-> IF j = KeyOf[query[c]] THEN s ELSE Purged(j)]
      BY <1>2 DEF Lookup
    <3>2. sets' \in [Key -> Conn \cup {None}]
      BY <2>2, <3>1 DEF Purged
    <3>3. idle' \in [Conn -> 0..PurgeAge]
      <4>1. idle' = [idle EXCEPT ![s] = 0] /\ PurgeAge \in Nat
        BY <1>2 DEF Lookup
      <4>2. QED
        BY <2>2, <4>1
    <3>4. pc' \in [Conn -> PC] /\ ptr' \in [Conn -> Conn \cup {None}]
      BY <1>2, <2>2 DEF Lookup
    <3>5. QED
      BY <1>2, <3>2, <3>3, <3>4 DEF Lookup
  <2>4. Wiring'
    BY <1>2, <2>2 DEF Lookup, Wiring
  <2> QED
    BY <2>3, <2>4
<1>3. ASSUME NEW c \in Conn, Store(c) PROVE TypeOK' /\ Wiring'
  <2>1. /\ ptr[c] \in Conn /\ query[c] \in Query
        /\ PiecesOf[query[c]] \in 0..MaxPieces
        /\ [pieces[ptr[c]] EXCEPT ![index[c]] = query[c]] \in Text
    <3>1. ptr[c] \in Conn /\ query[c] \in Query
      BY <1>3 DEF Store, Completes, Wiring
    <3>2. PiecesOf[query[c]] \in 0..MaxPieces
      BY <3>1, PiecesType
    <3>3. pieces[ptr[c]] \in Text
      BY <3>1
    <3> QED
      BY <3>1, <3>2, <3>3 DEF Text
  <2>2. TypeOK'
    BY <1>3, <2>1 DEF Store
  <2>3. Wiring'
    BY <1>3, <2>1 DEF Store, Wiring
  <2> QED
    BY <2>2, <2>3
<1>4. ASSUME NEW c \in Conn, Reassemble(c) PROVE TypeOK' /\ Wiring'
  <2>1. Reassembled(ptr[c]) \in Text
    <3>1. pieces[ptr[c]] \in Text
      BY <1>4 DEF Reassemble, Wiring
    <3> QED
      BY <3>1 DEF Reassembled, Text
  <2>2. TypeOK'
    BY <1>4, <2>1 DEF Reassemble
  <2>3. Wiring'
    BY <1>4, <2>1 DEF Reassemble, Wiring
  <2> QED
    BY <2>2, <2>3
<1>5. ASSUME NEW c \in Conn, Resolve(c) PROVE TypeOK' /\ Wiring'
  BY <1>5 DEF Resolve, Wiring
<1>6. ASSUME NEW c \in Conn, StoreResult(c) PROVE TypeOK' /\ Wiring'
  BY <1>6 DEF StoreResult, Wiring
<1>7. ASSUME NEW c \in Conn, CloseReady(c) PROVE TypeOK' /\ Wiring'
  BY <1>7 DEF CloseReady, Wiring
<1>8. ASSUME NEW c \in Conn, WaitReady(c) PROVE TypeOK' /\ Wiring'
  BY <1>8 DEF WaitReady, Wiring
<1>9. ASSUME NEW c \in Conn, WaitTimeout(c) PROVE TypeOK' /\ Wiring'
  BY <1>9 DEF WaitTimeout, Wiring
<1>10. ASSUME NEW c \in Conn, Reply(c) PROVE TypeOK' /\ Wiring'
  BY <1>10 DEF Reply, Wiring
<1>11. CASE Tick
  BY <1>11 DEF Tick, Advance, Wiring
<1>12. CASE UNCHANGED vars
  BY <1>12 DEF vars, Wiring
<1> QED
  BY <1>1, <1>2, <1>3, <1>4, <1>5, <1>6, <1>7, <1>8, <1>9, <1>10, <1>11, <1>12
  DEF Next, Step

(* Every state of every execution is type-correct. *)
THEOREM TypeCorrect == Spec => []TypeOK
<1>1. TypeInv => TypeOK
  BY DEF TypeInv
<1> QED
  BY <1>1, TypeStart, TypeStep, PTL DEF Spec
-----------------------------------------------------------------------------
(* The inductive invariant.  A connection on the completer's path owns its   *)
(* set: it is the only one there, and it leaves the result unpublished until *)
(* it closes the channel.                                                    *)
Publishing ==
  \A c \in Conn : pc[c] \in Completing =>
    /\ started[ptr[c]] /\ closes[ptr[c]] = 0
    /\ response[ptr[c]] = IF pc[c] = "close" THEN out[c] ELSE None
    /\ \A d \in Conn : pc[d] \in Completing /\ ptr[d] = ptr[c] => d = c

(* What the cells of a set say of one another and of its completer. *)
Published ==
  \A s \in Conn :
    /\ closes[s] \in {0, 1}
    /\ closes[s] = 1 => response[s] # None
    /\ response[s] # None => started[s]
    /\ total[s] > 0 /\ Cardinality(Filled(pieces[s])) = total[s] => started[s]
    /\ started[s] => closes[s] = 1 \/ \E c \in Conn : pc[c] \in Completing /\ ptr[c] = s

(* A reply in preparation is the published result, an ack, or too late. *)
Replies ==
  \A c \in Conn :
    /\ pc[c] = "wait" => timer[c] <= age[c] \/ age[c] = WriteDeadline
    /\ pc[c] = "reply" /\ out[c] # Ack => out[c] = response[ptr[c]] \/ age[c] = WriteDeadline
    /\ pc[c] = "reply" => out[c] # None
    /\ got[c] \in Result => got[c] = response[ptr[c]]

IInv == TypeInv /\ Publishing /\ Published /\ Replies

LEMMA InvStart == Init => IInv
<1> SUFFICES ASSUME Init, TypeInv PROVE Publishing /\ Published /\ Replies
  BY TypeStart DEF IInv
<1>1. Publishing
  BY DEF Init, Publishing
<1>2. Published
  <2>1. \A s \in Conn : closes[s] = 0 /\ response[s] = None /\ total[s] = 0 /\ ~started[s]
    BY DEF Init
  <2> QED
    BY <2>1 DEF Published
<1>3. Replies
  BY NoneType DEF Init, Replies
<1> QED
  BY <1>1, <1>2, <1>3

LEMMA InvStep == IInv /\ [Next]_vars => IInv'
<1> SUFFICES ASSUME IInv, [Next]_vars, TypeOK, Wiring, TypeInv'
             PROVE Publishing' /\ Published' /\ Replies'
  BY TypeStep DEF IInv, TypeInv
<1> USE ClockType, NoneType DEF IInv, TypeOK, conns, cells, clocks
<1>1. ASSUME NEW c \in Conn, Open(c) PROVE Publishing' /\ Published' /\ Replies'
  BY <1>1 DEF Open, Publishing, Published, Replies, Wiring
<1>2. ASSUME NEW c \in Conn, Lookup(c) PROVE Publishing' /\ Published' /\ Replies'
  <2>1. /\ UNCHANGED <<query, index, out, got, cells, age, timer>>
        /\ pc[c] = "open" /\ pc' = [pc EXCEPT ![c] = "found"]
        /\ \E s : ptr' = [ptr EXCEPT ![c] = s]
    BY <1>2 DEF Lookup
  <2>2. Publishing' /\ Published'
    BY <2>1 DEF Publishing, Published
  <2>3. Replies'
    BY <2>1 DEF Replies, Wiring
  <2> QED
    BY <2>2, <2>3
<1>3. ASSUME NEW c \in Conn, Store(c) PROVE Publishing' /\ Published' /\ Replies'
  <2> DEFINE s == ptr[c]
             n == IF total[s] = 0 THEN PiecesOf[query[c]] ELSE total[s]
             f == [pieces[s] EXCEPT ![index[c]] = query[c]]
             full == Cardinality(Filled(f)) = n
             completer == ~started[s] /\ response[s] = None /\ full
             next == IF completer THEN "complete"
                     ELSE IF index[c] = PiecesOf[query[c]] THEN "wait" ELSE "reply"
  <2>1. /\ s \in Conn /\ pc[c] = "found"
        /\ pc' = [pc EXCEPT ![c] = next]
        /\ started' = [started EXCEPT ![s] = @ \/ completer]
        /\ total' = [total EXCEPT ![s] = n]
        /\ pieces' = [pieces EXCEPT ![s] = f]
        /\ UNCHANGED <<ptr, response, closes>>
        /\ \A d \in Conn : d # c => out'[d] = out[d]
    BY <1>3 DEF Store, Completes, Wiring
  <2> HIDE DEF f, n, full
  <2>2. Publishing'
    <3>1. CASE completer
      <4>1. /\ pc' = [pc EXCEPT ![c] = "complete"]
            /\ ~started[s] /\ response[s] = None /\ closes[s] = 0
            /\ started' = [started EXCEPT ![s] = TRUE]
        BY <2>1, <3>1 DEF Published
      <4>2. \A d \in Conn : d # c /\ pc[d] \in Completing => ptr[d] # s
        BY <4>1 DEF Publishing
      <4> QED
        BY <2>1, <4>1, <4>2 DEF Publishing
    <3>2. CASE ~completer
      BY <2>1, <3>2 DEF Publishing
    <3> QED
      BY <3>1, <3>2
  <2>3. Published'
    <3> SUFFICES ASSUME NEW t \in Conn
                 PROVE /\ closes[t] \in {0, 1}
                       /\ closes[t] = 1 => response[t] # None
                       /\ response[t] # None => started'[t]
                       /\ total'[t] > 0 /\ Cardinality(Filled(pieces'[t])) = total'[t]
                            => started'[t]
                       /\ started'[t] =>
                            closes[t] = 1 \/ \E d \in Conn : pc'[d] \in Completing /\ ptr[d] = t
      BY <2>1 DEF Published
    <3>1. CASE t # s
      BY <2>1, <3>1 DEF Published
    <3>2. CASE t = s /\ completer
      BY <2>1, <3>2 DEF Published
    <3>3. CASE t = s /\ ~completer
      <4>1. pc'[c] \notin Completing /\ started'[s] = started[s]
        BY <2>1, <3>3
      <4>2. total'[s] = n /\ pieces'[s] = f
        BY <2>1
      <4>3. Cardinality(Filled(pieces'[s])) = total'[s] => started[s]
        BY <4>2, <3>3 DEF full, Published
      <4> QED
        BY <2>1, <3>3, <4>1, <4>3 DEF Published
    <3> QED
      BY <3>1, <3>2, <3>3
  <2>4. Replies'
    BY <1>3, <2>1 DEF Store, Replies, Wiring
  <2> QED
    BY <2>2, <2>3, <2>4
<1>4. ASSUME NEW c \in Conn, Reassemble(c) PROVE Publishing' /\ Published' /\ Replies'
  <2>1. Publishing' /\ Published'
    BY <1>4 DEF Reassemble, Publishing, Published, Wiring
  <2>2. Replies'
    BY <1>4 DEF Reassemble, Replies, Wiring
  <2> QED
    BY <2>1, <2>2
<1>5. ASSUME NEW c \in Conn, Resolve(c) PROVE Publishing' /\ Published' /\ Replies'
  <2>1. Publishing' /\ Published'
    BY <1>5 DEF Resolve, Publishing, Published, Wiring
  <2>2. Replies'
    BY <1>5 DEF Resolve, Replies, Wiring
  <2> QED
    BY <2>1, <2>2
<1>6. ASSUME NEW c \in Conn, StoreResult(c) PROVE Publishing' /\ Published' /\ Replies'
  <2>1. ptr[c] \in Conn /\ out[c] \in Result /\ response[ptr[c]] = None /\ started[ptr[c]]
    BY <1>6 DEF StoreResult, Wiring, Publishing
  <2>2. Publishing'
    BY <1>6, <2>1 DEF StoreResult, Publishing, Wiring
  <2>3. Published'
    BY <1>6, <2>1 DEF StoreResult, Published, Wiring
  <2>4. Replies'
    BY <1>6, <2>1 DEF StoreResult, Replies, Wiring
  <2> QED
    BY <2>2, <2>3, <2>4
<1>7. ASSUME NEW c \in Conn, CloseReady(c) PROVE Publishing' /\ Published' /\ Replies'
  <2>1. ptr[c] \in Conn /\ out[c] \in Result /\ response[ptr[c]] = out[c] /\ closes[ptr[c]] = 0
    BY <1>7 DEF CloseReady, Wiring, Publishing
  <2>2. Publishing'
    BY <1>7, <2>1 DEF CloseReady, Publishing, Wiring
  <2>3. Published'
    BY <1>7, <2>1 DEF CloseReady, Published, Publishing, Wiring
  <2>4. Replies'
    BY <1>7, <2>1 DEF CloseReady, Replies, Wiring
  <2> QED
    BY <2>2, <2>3, <2>4
<1>8. ASSUME NEW c \in Conn, WaitReady(c) PROVE Publishing' /\ Published' /\ Replies'
  <2>1. Publishing' /\ Published'
    BY <1>8 DEF WaitReady, Publishing, Published, Wiring
  <2>2. Replies'
    BY <1>8 DEF WaitReady, Replies, Published, Wiring
  <2> QED
    BY <2>1, <2>2
<1>9. ASSUME NEW c \in Conn, WaitTimeout(c) PROVE Publishing' /\ Published' /\ Replies'
  <2>1. age[c] = WriteDeadline
    <3>1. /\ timer[c] <= age[c] \/ age[c] = WriteDeadline
          /\ timer[c] >= FragmentTimeout
      BY <1>9 DEF WaitTimeout, WaitOver, Replies
    <3>2. timer[c] \in Nat /\ age[c] \in Nat /\ age[c] <= WriteDeadline
      OBVIOUS
    <3> QED
      BY <3>1, <3>2
  <2>2. Publishing' /\ Published'
    BY <1>9 DEF WaitTimeout, Publishing, Published, Wiring
  <2>3. Replies'
    BY <1>9, <2>1 DEF WaitTimeout, Replies, Wiring
  <2> QED
    BY <2>2, <2>3
<1>10. ASSUME NEW c \in Conn, Reply(c) PROVE Publishing' /\ Published' /\ Replies'
  <2>1. Publishing' /\ Published'
    BY <1>10 DEF Reply, Publishing, Published, Wiring
  <2>2. Replies'
    BY <1>10 DEF Reply, Replies, Wiring
  <2> QED
    BY <2>1, <2>2
<1>11. CASE Tick
  <2>1. UNCHANGED <<conns, cells>>
    BY <1>11 DEF Tick
  <2>2. Publishing' /\ Published'
    BY <2>1 DEF Publishing, Published
  <2>3. Replies'
    BY <2>1, <1>11 DEF Tick, Advance, Replies
  <2> QED
    BY <2>2, <2>3
<1>12. CASE UNCHANGED vars
  BY <1>12 DEF vars, Publishing, Published, Replies
<1> QED
  BY <1>1, <1>2, <1>3, <1>4, <1>5, <1>6, <1>7, <1>8, <1>9, <1>10, <1>11, <1>12
  DEF Next, Step

LEMMA Invariance == Spec => []IInv
  BY InvStart, InvStep, PTL DEF Spec

(* "Assembly completes exactly once": whatever the interleaving, one completer *)
(* per set, one close of its channel.                                          *)
THEOREM CompletesOnceHolds == Spec => []CompletesOnce
<1>1. IInv => CompletesOnce
  <2> SUFFICES ASSUME IInv, NEW s \in Conn
               PROVE /\ \A c, d \in Completers(s) : c = d
                     /\ closes[s] <= 1
                     /\ closes[s] = 1 => response[s] # None /\ Completers(s) = {}
    BY DEF CompletesOnce
  <2>1. \A c, d \in Completers(s) : c = d
    BY DEF IInv, Publishing, Completers
  <2>2. closes[s] <= 1 /\ (closes[s] = 1 => response[s] # None)
    BY DEF IInv, Published
  <2>3. closes[s] = 1 => Completers(s) = {}
    BY DEF IInv, Publishing, Completers
  <2> QED
    BY <2>1, <2>2, <2>3
<1> QED
  BY <1>1, Invariance, PTL

(* A set with all its pieces is served, or about to be. *)
THEOREM FullSetServedHolds == Spec => []FullSetServed
<1>1. IInv => FullSetServed
  BY DEF IInv, Published, FullSetServed, Completers
<1> QED
  BY <1>1, Invariance, PTL

(* Every DNS reply is the published result of the connection's set. *)
THEOREM RepliesAgreeHolds == Spec => []RepliesAgree
<1>1. IInv => RepliesAgree
  BY DEF IInv, Replies, RepliesAgree
<1> QED
  BY <1>1, Invariance, PTL
-----------------------------------------------------------------------------
(* A fragment set is a one-shot cell: every step of the assembler and of the *)
(* handlers is a claim, a fill or a read of a cell, or changes none of them. *)
THEOREM Refinement == Spec => RefinesOneShot
<1>1. Init => Cells!Init
  BY NoneType DEF Init, Cells!Init
<1>2. IInv /\ [Next]_vars => [Cells!Next]_(Cells!vars)
  <2> SUFFICES ASSUME IInv, [Next]_vars PROVE [Cells!Next]_(Cells!vars)
    OBVIOUS
  <2> USE NoneType DEF IInv, TypeInv, TypeOK
  <2>1. ASSUME NEW c \in Conn, Store(c) PROVE Cells!Next \/ UNCHANGED Cells!vars
    <3>1. /\ ptr[c] \in Conn /\ UNCHANGED <<response, got>>
          /\ \/ UNCHANGED started
             \/ /\ ~started[ptr[c]]
                /\ started' = [started EXCEPT ![ptr[c]] = TRUE]
      <4>1. PICK b \in BOOLEAN :
              /\ started' = [started EXCEPT ![ptr[c]] = @ \/ b]
              /\ b => ~started[ptr[c]]
        BY <2>1 DEF Store, Completes
      <4>2. ptr[c] \in Conn /\ UNCHANGED <<response, got>>
        BY <2>1 DEF Store, Wiring
      <4>3. CASE b
        BY <4>1, <4>2, <4>3
      <4>4. CASE ~b
        BY <4>1, <4>2, <4>4
      <4> QED
        BY <4>2, <4>3, <4>4
    <3>2. CASE UNCHANGED started
      BY <3>1, <3>2 DEF Cells!vars
    <3>3. CASE /\ ~started[ptr[c]] /\ started' = [started EXCEPT ![ptr[c]] = TRUE]
      <4>1. {s \in Conn : started'[s]} = {s \in Conn : started[s]} \cup {ptr[c]}
        BY <3>1, <3>3
      <4> QED
        BY <3>1, <3>3, <4>1 DEF Cells!Next, Cells!Claim
    <3> QED
      BY <3>1, <3>2, <3>3
  <2>2. ASSUME NEW c \in Conn, StoreResult(c) PROVE Cells!Next
    <3>1. /\ ptr[c] \in Conn /\ UNCHANGED <<started, got>>
          /\ started[ptr[c]] /\ response[ptr[c]] = None /\ out[c] \in Result
          /\ response' = [response EXCEPT ![ptr[c]] = out[c]]
      BY <2>2 DEF StoreResult, Wiring, Publishing
    <3>2. Cells!Fill(ptr[c])
      BY <3>1 DEF Cells!Fill
    <3> QED
      BY <3>1, <3>2 DEF Cells!Next
  <2>3. ASSUME NEW c \in Conn, Reply(c) PROVE Cells!Next \/ UNCHANGED Cells!vars
    <3>1. /\ ptr[c] \in Conn /\ UNCHANGED <<started, response>>
          /\ got[c] = None
          /\ \/ got' = [got EXCEPT ![c] = None]
             \/ got' = [got EXCEPT ![c] = Ack]
             \/ /\ got' = [got EXCEPT ![c] = response[ptr[c]]]
                /\ response[ptr[c]] # None
      <4>1. /\ ptr[c] \in Conn /\ UNCHANGED <<started, response>> /\ got[c] = None
            /\ got' = [got EXCEPT ![c] = IF age[c] < WriteDeadline THEN out[c] ELSE None]
            /\ age[c] \in Nat
        BY <2>3 DEF Reply, Wiring, conns, cells
      <4>2. /\ out[c] # None
            /\ out[c] # Ack => (out[c] = response[ptr[c]] \/ age[c] = WriteDeadline)
        BY <2>3 DEF Reply, Replies
      <4>3. CASE age[c] < WriteDeadline
        <5>1. got' = [got EXCEPT ![c] = out[c]]
          BY <4>1, <4>3
        <5>2. out[c] = Ack \/ (out[c] = response[ptr[c]] /\ response[ptr[c]] # None)
          BY <4>1, <4>2, <4>3, ClockType
        <5>3. \/ got' = [got EXCEPT ![c] = Ack]
              \/ got' = [got EXCEPT ![c] = response[ptr[c]]] /\ response[ptr[c]] # None
          BY <5>1, <5>2, Zenon
        <5> QED
          BY <4>1, <5>3, Zenon
      <4>4. CASE ~(age[c] < WriteDeadline)
        BY <4>1, <4>4
      <4> QED
        BY <4>1, <4>3, <4>4
    <3>2. CASE got' = [got EXCEPT ![c] = None] \/ got' = [got EXCEPT ![c] = Ack]
      BY <3>1, <3>2 DEF Cells!vars
    <3>3. CASE got' = [got EXCEPT ![c] = response[ptr[c]]] /\ response[ptr[c]] # None
      <4>1. response[ptr[c]] # Ack
        BY <3>1
      <4>2. Cells!Read(c, ptr[c])
        BY <3>1, <3>3, <4>1 DEF Cells!Read
      <4> DEFINE Reads(r, s) == Cells!Read(r, s)
      <4>3. Reads(c, ptr[c]) /\ ptr[c] \in Conn
        BY <3>1, <4>2
      <4> HIDE DEF Reads
      <4>4. \E r \in Conn, s \in Conn : Reads(r, s)
        BY <4>3
      <4> QED
        BY <4>4 DEF Cells!Next, Reads
    <3> QED
      BY <3>1, <3>2, <3>3
  <2>4. ASSUME UNCHANGED <<started, response, got>> PROVE UNCHANGED Cells!vars
    BY <2>4 DEF Cells!vars
  <2>5. ASSUME NEW c \in Conn,
               \/ Open(c) \/ Lookup(c) \/ Reassemble(c) \/ Resolve(c)
               \/ CloseReady(c) \/ WaitReady(c) \/ WaitTimeout(c)
        PROVE UNCHANGED <<started, response, got>>
    BY <2>5 DEF Open, Lookup, Reassemble, Resolve, CloseReady, WaitReady, WaitTimeout,
                conns, cells, clocks
  <2>6. Tick => UNCHANGED <<started, response, got>>
    BY DEF Tick, conns, cells
  <2>7. UNCHANGED vars => UNCHANGED <<started, response, got>>
    BY DEF vars, conns, cells
  <2> QED
    BY <2>1, <2>2, <2>3, <2>4, <2>5, <2>6, <2>7 DEF Next, Step
<1> QED
  BY <1>1, <1>2, Invariance, PTL DEF Spec, RefinesOneShot, Cells!Spec
-----------------------------------------------------------------------------
(* Pieces of different queries do not meet.  The set named s was created by *)
(* the connection s, so query[s] is the query the set was created for.      *)

(* n distinct positions among the first n are all of them. *)
LEMMA AllFilled ==
  ASSUME NEW f \in Text, NEW n \in 0..MaxPieces,
         \A i \in Position : f[i] # None => i <= n,
         Cardinality(Filled(f)) = n
  PROVE  \A i \in 1..n : f[i] # None
<1>1. n \in Nat /\ MaxPieces \in Nat
  BY ClockType
<1>2. IsFiniteSet(1..n) /\ Cardinality(1..n) = n
  BY <1>1, FS_Interval
<1>3. Filled(f) \in SUBSET (1..n)
  BY <1>1 DEF Filled, Position
<1>4. Filled(f) = 1..n
  BY <1>2, <1>3, FS_Subset
<1> QED
  BY <1>4 DEF Filled

Mine(s) == [i \in Position |-> IF i <= PiecesOf[query[s]] THEN query[s] ELSE None]

Owned ==
  /\ \A c \in Conn : ptr[c] # None =>
       /\ pc[ptr[c]] \notin {"none", "open"}
       /\ KeyOf[query[ptr[c]]] = KeyOf[query[c]]
  /\ \A k \in Key : sets[k] # None =>
       /\ pc[sets[k]] \notin {"none", "open"}
       /\ KeyOf[query[sets[k]]] = k

OwnPieces ==
  \A s \in Conn :
    /\ total[s] = 0 => \A i \in Position : pieces[s][i] = None
    /\ total[s] # 0 => pc[s] # "none" /\ total[s] = PiecesOf[query[s]]
    /\ \A i \in Position : pieces[s][i] # None => pieces[s][i] = query[s] /\ i <= total[s]
    /\ started[s] => pc[s] # "none" /\ Reassembled(s) = Whole(query[s])

OwnResult ==
  /\ \A c \in Conn : pc[c] \in {"resolve", "store", "close"} /\ out[c] \in Text =>
       out[c] = Whole(query[ptr[c]])
  /\ \A s \in Conn : response[s] \in Text => response[s] = Whole(query[s])

OwnInv == IInv /\ Owned /\ OwnPieces /\ OwnResult

LEMMA OwnStart == Init => OwnInv
<1> SUFFICES ASSUME Init, IInv PROVE Owned /\ OwnPieces /\ OwnResult
  BY InvStart DEF OwnInv
<1>1. Owned
  BY DEF Init, Owned
<1>2. OwnPieces
  BY DEF Init, OwnPieces
<1>3. OwnResult
  BY NoneType DEF Init, OwnResult
<1> QED
  BY <1>1, <1>2, <1>3

LEMMA OwnStep == DistinctKeys /\ OwnInv /\ [Next]_vars => OwnInv'
<1> SUFFICES ASSUME DistinctKeys, OwnInv, [Next]_vars, TypeOK, Wiring, IInv'
             PROVE Owned' /\ OwnPieces' /\ OwnResult'
  BY InvStep DEF OwnInv, IInv, TypeInv
<1> USE ClockType, NoneType DEF OwnInv, TypeOK, conns, cells, clocks
<1>1. ASSUME NEW c \in Conn, Open(c) PROVE Owned' /\ OwnPieces' /\ OwnResult'
  <2>1. /\ pc[c] = "none" /\ pc' = [pc EXCEPT ![c] = "open"]
        /\ UNCHANGED <<ptr, out, cells, sets>>
        /\ \A d \in Conn : d # c => query'[d] = query[d]
    BY <1>1 DEF Open
  <2>2. Owned'
    BY <2>1 DEF Owned, Wiring
  <2>3. OwnPieces'
    <3>1. \A s \in Conn : Reassembled(s)' = Reassembled(s)
      BY <2>1 DEF Reassembled
    <3> QED
      BY <2>1, <3>1 DEF OwnPieces, Whole
  <2>4. OwnResult'
    <3>1. \A s \in Conn : response[s] # None => s # c
      BY <2>1 DEF OwnPieces, IInv, Published
    <3>2. \A d \in Conn : ptr[d] # c
      BY <2>1 DEF Owned
    <3> QED
      BY <2>1, <3>1, <3>2 DEF OwnResult, Whole, Wiring
  <2> QED
    BY <2>2, <2>3, <2>4
<1>2. ASSUME NEW c \in Conn, Lookup(c) PROVE Owned' /\ OwnPieces' /\ OwnResult'
  <2> DEFINE k == KeyOf[query[c]]
             s == IF Purged(k) = None THEN c ELSE Purged(k)
  <2>1. /\ pc[c] = "open" /\ pc' = [pc EXCEPT ![c] = "found"]
        /\ ptr' = [ptr EXCEPT ![c] = s]
        /\ sets' = [j \in Key |-> IF j = k THEN s ELSE Purged(j)]
        /\ UNCHANGED <<query, out, cells>>
    BY <1>2 DEF Lookup
  <2>2. k \in Key /\ s \in Conn /\ KeyOf[query[s]] = k /\ pc'[s] \notin {"none", "open"}
    <3>1. query[c] \in Query
      BY <2>1 DEF Wiring
    <3>2. k \in Key
      BY <3>1, FragmentsAssumption
    <3>3. CASE Purged(k) = None
      BY <2>1, <3>2, <3>3
    <3>4. CASE Purged(k) # None
      <4>1. s = sets[k] /\ sets[k] # None
        BY <3>4 DEF Purged
      <4>2. sets[k] \in Conn
        BY <3>2, <4>1
      <4> QED
        BY <2>1, <3>2, <4>1, <4>2 DEF Owned
    <3> QED
      BY <3>3, <3>4
  <2>3. Owned'
    <3>1. \A j \in Key : Purged(j) # None => Purged(j) = sets[j]
      BY DEF Purged
    <3> HIDE DEF s, k
    <3>2. ASSUME NEW d \in Conn, ptr'[d] # None
          PROVE /\ pc'[ptr'[d]] \notin {"none", "open"}
                /\ KeyOf[query[ptr'[d]]] = KeyOf[query[d]]
      <4>1. CASE d = c
        BY <2>1, <2>2, <4>1 DEF k
      <4>2. CASE d # c
        BY <2>1, <3>2, <4>2 DEF Owned
      <4> QED
        BY <4>1, <4>2
    <3>3. ASSUME NEW j \in Key, sets'[j] # None
          PROVE /\ pc'[sets'[j]] \notin {"none", "open"}
                /\ KeyOf[query[sets'[j]]] = j
      <4>1. CASE j = k
        BY <2>1, <2>2, <4>1
      <4>2. CASE j # k
        BY <2>1, <3>1, <3>3, <4>2 DEF Owned
      <4> QED
        BY <4>1, <4>2
    <3> QED
      BY <2>1, <3>2, <3>3 DEF Owned
  <2>4. OwnPieces' /\ OwnResult'
    <3>1. \A t \in Conn : Reassembled(t)' = Reassembled(t)
      BY <2>1 DEF Reassembled
    <3> QED
      BY <2>1, <3>1 DEF OwnPieces, OwnResult, Whole
  <2> QED
    BY <2>3, <2>4
<1>3. ASSUME NEW c \in Conn, Store(c) PROVE Owned' /\ OwnPieces' /\ OwnResult'
  <2> DEFINE s == ptr[c]
             q == query[c]
             n == IF total[s] = 0 THEN PiecesOf[q] ELSE total[s]
             f == [pieces[s] EXCEPT ![index[c]] = q]
             full == Cardinality(Filled(f)) = n
             completer == ~started[s] /\ response[s] = None /\ full
  <2>1. /\ s \in Conn /\ pc[c] = "found" /\ q \in Query /\ index[c] \in 1..PiecesOf[q]
        /\ pc'[c] \in {"complete", "wait", "reply"}
        /\ \A d \in Conn : d # c => pc'[d] = pc[d] /\ out'[d] = out[d]
        /\ started' = [started EXCEPT ![s] = @ \/ completer]
        /\ total' = [total EXCEPT ![s] = n]
        /\ pieces' = [pieces EXCEPT ![s] = f]
        /\ UNCHANGED <<query, ptr, sets, response>>
    BY <1>3 DEF Store, Completes, Wiring
  <2>2. query[s] = q /\ pc[s] \notin {"none", "open"}
    <3>1. pc[s] \notin {"none", "open"} /\ KeyOf[query[s]] = KeyOf[q]
      BY <2>1 DEF Owned
    <3>2. query[s] \in Query
      BY <2>1, <3>1 DEF Wiring
    <3> QED
      BY <2>1, <3>1, <3>2 DEF DistinctKeys
  <2>3. n = PiecesOf[q] /\ n \in Nat /\ n <= MaxPieces /\ n >= 2
    BY <2>1, <2>2, PiecesType DEF OwnPieces
  <2>4. f \in Text /\ \A i \in Position : f[i] # None => f[i] = q /\ i <= n
    <3>1. pieces[s] \in Text /\ \A i \in Position : pieces[s][i] # None => pieces[s][i] = q /\ i <= total[s]
      BY <2>1, <2>2 DEF OwnPieces
    <3>2. index[c] \in Nat /\ index[c] <= n
      BY <2>1, <2>3
    <3>3. total[s] = 0 => \A i \in Position : pieces[s][i] = None
      BY <2>1 DEF OwnPieces
    <3>4. total[s] # 0 => total[s] = n
      BY <2>1, <2>3
    <3> QED
      BY <2>1, <2>3, <3>1, <3>2, <3>3, <3>4 DEF Text
  <2> HIDE DEF n, f, full
  <2>5. Owned'
    BY <2>1, <2>2 DEF Owned
  <2>6. started'[s] => Reassembled(s)' = Whole(q)
    <3>1. CASE completer
      <4>1. \A i \in 1..n : f[i] = q
        <5>1. \A i \in 1..n : f[i] # None
          BY <2>3, <2>4, <3>1, AllFilled DEF full
        <5>2. \A i \in 1..n : i \in Position
          BY <2>3 DEF Position
        <5> QED
          BY <5>1, <5>2, <2>4
      <4>2. Reassembled(s)' = [i \in Position |-> IF i <= n THEN f[i] ELSE None]
        BY <2>1 DEF Reassembled
      <4>3. \A i \in Position : i <= n => i \in 1..n
        BY <2>3 DEF Position
      <4>4. Whole(q) = [i \in Position |-> IF i <= n THEN q ELSE None]
        BY <2>3 DEF Whole
      <4> QED
        BY <4>1, <4>2, <4>3, <4>4
    <3>2. CASE started[s]
      <4>1. Reassembled(s) = Whole(q) /\ total[s] = n
        <5>1. total[s] # 0
          <6>1. 1 \in Position
            BY <2>3 DEF Position
          <6>2. Reassembled(s) = Whole(q)
            BY <3>2, <2>1, <2>2 DEF OwnPieces
          <6>3. Whole(q)[1] = q
            BY <2>3, <6>1 DEF Whole
          <6>4. total[s] = 0 => Reassembled(s)[1] = None
            BY <6>1 DEF Reassembled
          <6> QED
            BY <6>2, <6>3, <6>4, <2>1
        <5> QED
          BY <3>2, <2>1, <2>2, <5>1 DEF OwnPieces, n
      <4>2. \A i \in Position : i <= n => f[i] = q
        <5> SUFFICES ASSUME NEW i \in Position, i <= n PROVE f[i] = q
          OBVIOUS
        <5>1. Reassembled(s)[i] = pieces[s][i]
          BY <4>1 DEF Reassembled
        <5>2. Whole(q)[i] = q
          BY <2>3 DEF Whole
        <5>3. pieces[s][i] = q
          BY <4>1, <5>1, <5>2
        <5> QED
          BY <5>3, <2>1 DEF f, Text
      <4>3. Reassembled(s)' = [i \in Position |-> IF i <= n THEN f[i] ELSE None]
        BY <2>1 DEF Reassembled
      <4>4. Whole(q) = [i \in Position |-> IF i <= n THEN q ELSE None]
        BY <2>3 DEF Whole
      <4> QED
        BY <4>2, <4>3, <4>4
    <3> QED
      BY <3>1, <3>2, <2>1
  <2>7. OwnPieces'
    <3> SUFFICES ASSUME NEW t \in Conn
                 PROVE /\ total'[t] = 0 => \A i \in Position : pieces'[t][i] = None
                       /\ total'[t] # 0 => pc'[t] # "none" /\ total'[t] = PiecesOf[query'[t]]
                       /\ \A i \in Position : pieces'[t][i] # None =>
                            pieces'[t][i] = query'[t] /\ i <= total'[t]
                       /\ started'[t] => pc'[t] # "none" /\ Reassembled(t)' = Whole(query'[t])
      BY DEF OwnPieces
    <3>1. CASE t = s
      BY <3>1, <2>1, <2>2, <2>3, <2>4, <2>6
    <3>2. CASE t # s
      <4>1. Reassembled(t)' = Reassembled(t)
        BY <2>1, <3>2 DEF Reassembled
      <4> QED
        BY <3>2, <4>1, <2>1 DEF OwnPieces
    <3> QED
      BY <3>1, <3>2
  <2>8. OwnResult'
    BY <2>1 DEF OwnResult, Whole
  <2> QED
    BY <2>5, <2>7, <2>8
<1>4. ASSUME NEW c \in Conn, Reassemble(c) PROVE Owned' /\ OwnPieces' /\ OwnResult'
  <2>1. /\ ptr[c] \in Conn /\ started[ptr[c]]
        /\ pc'[c] \in {"resolve", "store"} /\ out'[c] \in {Reassembled(ptr[c]), ServFail}
        /\ \A d \in Conn : d # c => pc'[d] = pc[d] /\ out'[d] = out[d]
        /\ UNCHANGED <<query, ptr, sets, cells>> /\ pc[c] = "complete"
    BY <1>4 DEF Reassemble, IInv, Publishing, Wiring
  <2>2. Reassembled(ptr[c]) = Whole(query[ptr[c]])
    BY <2>1 DEF OwnPieces
  <2>3. \A s \in Conn : Reassembled(s)' = Reassembled(s)
    BY <2>1 DEF Reassembled
  <2>4. Owned'
    BY <2>1 DEF Owned
  <2>5. OwnPieces'
    BY <2>1, <2>3 DEF OwnPieces, Whole
  <2>6. OwnResult'
    BY <2>1, <2>2, FragmentsAssumption DEF OwnResult, Whole
  <2> QED
    BY <2>4, <2>5, <2>6
<1>5. ASSUME NEW c \in Conn,
             \/ Resolve(c) \/ StoreResult(c) \/ CloseReady(c)
             \/ WaitReady(c) \/ WaitTimeout(c) \/ Reply(c)
      PROVE Owned' /\ OwnPieces' /\ OwnResult'
  <2>1. /\ pc[c] \notin {"none", "open"} /\ pc'[c] \notin {"none", "open"}
        /\ \A d \in Conn : d # c => pc'[d] = pc[d] /\ out'[d] = out[d]
        /\ UNCHANGED <<query, ptr, sets, pieces, total, started>>
    BY <1>5 DEF Resolve, StoreResult, CloseReady, WaitReady, WaitTimeout, Reply
  <2>2. \A s \in Conn : Reassembled(s)' = Reassembled(s)
    BY <2>1 DEF Reassembled
  <2>3. Owned'
    BY <2>1 DEF Owned
  <2>4. OwnPieces'
    BY <2>1, <2>2 DEF OwnPieces, Whole
  <2>5. OwnResult'
    <3>1. CASE Resolve(c)
      <4>1. pc[c] = "resolve" /\ out'[c] \in {out[c], ServFail} /\ ServFail \notin Text
        BY <3>1, FragmentsAssumption DEF Resolve
      <4>2. response' = response
        BY <3>1 DEF Resolve
      <4> QED
        BY <2>1, <4>1, <4>2 DEF OwnResult, Whole
    <3>2. CASE StoreResult(c)
      <4>1. ptr[c] \in Conn
        BY <3>2 DEF StoreResult, Wiring
      <4> QED
        BY <3>2, <4>1, <2>1 DEF StoreResult, OwnResult, Whole
    <3>3. CASE CloseReady(c) \/ WaitReady(c) \/ WaitTimeout(c) \/ Reply(c)
      BY <3>3, <2>1 DEF CloseReady, WaitReady, WaitTimeout, Reply, OwnResult, Whole
    <3> QED
      BY <1>5, <3>1, <3>2, <3>3
  <2> QED
    BY <2>3, <2>4, <2>5
<1>6. CASE UNCHANGED <<conns, cells, sets>>
  <2>1. \A s \in Conn : Reassembled(s)' = Reassembled(s)
    BY <1>6 DEF Reassembled
  <2> QED
    BY <1>6, <2>1 DEF Owned, OwnPieces, OwnResult, Whole
<1> QED
  BY <1>1, <1>2, <1>3, <1>4, <1>5, <1>6 DEF Next, Step, Tick, vars

(* An answer is the answer to the connection's own query, whole and in order, *)
(* provided no two queries share an address and a nonce.                      *)
THEOREM OwnAnswerHolds == Spec => []OwnAnswer
<1>1. CASE DistinctKeys
  <2>1. OwnInv => OwnAnswer
    <3> SUFFICES ASSUME OwnInv, NEW c \in Conn, got[c] \in Text
                 PROVE got[c] = Whole(query[c])
      BY DEF OwnAnswer
    <3> QED
      BY <1>1, NoneType DEF OwnInv, IInv, TypeInv, TypeOK, Wiring, Replies, Owned,
         OwnResult, DistinctKeys, Whole
  <2>2. OwnInv /\ [Next]_vars => OwnInv'
    BY <1>1, OwnStep
  <2> QED
    BY OwnStart, <2>1, <2>2, PTL DEF Spec
<1>2. CASE ~DistinctKeys
  <2>1. OwnAnswer
    BY <1>2 DEF OwnAnswer
  <2> QED
    BY <2>1, PTL
<1> QED
  BY <1>1, <1>2
-----------------------------------------------------------------------------
(* A prompt completer is in time.  Until it resolves no time has passed, then *)
(* at most the resolver's timeout, and no more until it has replied.          *)
InTime ==
  \A c \in Conn :
    /\ pc[c] \in {"open", "found", "complete"} => age[c] = 0
    /\ pc[c] = "resolve" => age[c] <= timer[c] /\ timer[c] <= ResolveTimeout
    /\ pc[c] \in {"store", "close"} => age[c] <= ResolveTimeout

(* A published result has its completer to deliver it. *)
Delivers(c, s) ==
  /\ ptr[c] = s
  /\ \/ pc[c] = "reply" /\ out[c] = response[s] /\ age[c] <= ResolveTimeout
     \/ pc[c] = "closed" /\ got[c] = response[s]

Delivered == \A s \in Conn : closes[s] = 1 => \E c \in Conn : Delivers(c, s)

Promptly == Prompt /\ ResolveTimeout < WriteDeadline

LEMMA InTimeStep == Promptly /\ TypeInv /\ InTime /\ [Next]_vars => InTime'
<1> SUFFICES ASSUME Promptly, TypeOK, Wiring, InTime, [Next]_vars PROVE InTime'
  BY DEF TypeInv
<1> USE ClockType, FragmentsAssumption DEF TypeOK, InTime, conns, cells, clocks
<1>1. ASSUME NEW c \in Conn, Open(c) PROVE InTime'
  BY <1>1 DEF Open
<1>2. ASSUME NEW c \in Conn, Lookup(c) PROVE InTime'
  <2>1. UNCHANGED <<age, timer>> /\ pc[c] = "open" /\ pc' = [pc EXCEPT ![c] = "found"]
    BY <1>2 DEF Lookup
  <2>2. QED
    BY <2>1
<1>3. ASSUME NEW c \in Conn, Store(c) PROVE InTime'
  <2>1. /\ UNCHANGED age /\ timer' = [timer EXCEPT ![c] = 0] /\ pc[c] = "found"
        /\ \E l \in {"complete", "wait", "reply"} : pc' = [pc EXCEPT ![c] = l]
    BY <1>3 DEF Store
  <2>2. QED
    BY <2>1
<1>4. ASSUME NEW c \in Conn, Reassemble(c) PROVE InTime'
  BY <1>4 DEF Reassemble
<1>5. ASSUME NEW c \in Conn, Resolve(c) PROVE InTime'
  BY <1>5 DEF Resolve
<1>6. ASSUME NEW c \in Conn, StoreResult(c) PROVE InTime'
  BY <1>6 DEF StoreResult
<1>7. ASSUME NEW c \in Conn, CloseReady(c) \/ WaitReady(c) \/ WaitTimeout(c) \/ Reply(c) PROVE InTime'
  BY <1>7 DEF CloseReady, WaitReady, WaitTimeout, Reply
<1>8. CASE Tick
  <2> SUFFICES ASSUME NEW c \in Conn, pc[c] \notin {"none", "wait", "reply", "closed"}
               PROVE  pc[c] = "resolve" /\ age'[c] <= timer'[c] /\ timer'[c] <= ResolveTimeout
    BY <1>8 DEF Tick
  <2>1. pc[c] = "resolve" /\ timer[c] < ResolveTimeout
    <3>1. Blocked(c) /\ ResolveTimeout \in Nat /\ timer[c] \in Nat
      BY <1>8 DEF Tick, Promptly
    <3>2. QED
      BY <3>1 DEF Blocked, ResolveDue
  <2>2. /\ age'[c] = Advance(age[c], WriteDeadline)
        /\ timer'[c] = Advance(timer[c], FragmentTimeout)
    BY <1>8, <2>1 DEF Tick
  <2>3. /\ age[c] <= timer[c] /\ ResolveTimeout < WriteDeadline /\ WriteDeadline <= FragmentTimeout
        /\ age[c] \in Nat /\ timer[c] \in Nat /\ ResolveTimeout \in Nat
    BY <2>1 DEF Promptly
  <2>4. QED
    BY <2>1, <2>2, <2>3 DEF Advance
<1>9. CASE UNCHANGED vars
  BY <1>9 DEF vars
<1>10. QED
  BY <1>1, <1>2, <1>3, <1>4, <1>5, <1>6, <1>7, <1>8, <1>9 DEF Next, Step

(* What a step of one connection leaves alone. *)
Alone(d) ==
  /\ \A c \in Conn \ {d} :
       /\ pc'[c] = pc[c] /\ ptr'[c] = ptr[c] /\ out'[c] = out[c] /\ got'[c] = got[c]
       /\ age'[c] = age[c]
  /\ pc[d] # "closed"
  /\ pc[d] = "reply" => Reply(d)
  /\ closes' = closes \/ CloseReady(d)
  /\ response' = response \/ StoreResult(d)

LEMMA StepAlone ==
  ASSUME TypeOK, NEW d \in Conn, Open(d) \/ Step(d)
  PROVE  Alone(d)
<1> USE DEF TypeOK, Alone, conns, cells, clocks
<1>1. CASE Open(d)
  BY <1>1 DEF Open
<1>2. CASE Lookup(d)
  BY <1>2 DEF Lookup
<1>3. CASE Store(d)
  BY <1>3 DEF Store
<1>4. CASE Reassemble(d)
  BY <1>4 DEF Reassemble
<1>5. CASE Resolve(d)
  BY <1>5 DEF Resolve
<1>6. CASE StoreResult(d)
  BY <1>6 DEF StoreResult
<1>7. CASE CloseReady(d)
  BY <1>7 DEF CloseReady
<1>8. CASE WaitReady(d)
  BY <1>8 DEF WaitReady
<1>9. CASE WaitTimeout(d)
  BY <1>9 DEF WaitTimeout
<1>10. CASE Reply(d)
  BY <1>10 DEF Reply
<1>11. QED
  BY <1>1, <1>2, <1>3, <1>4, <1>5, <1>6, <1>7, <1>8, <1>9, <1>10 DEF Step

LEMMA DeliveredStep == Promptly /\ IInv /\ InTime /\ Delivered /\ [Next]_vars => Delivered'
<1> SUFFICES ASSUME Promptly, IInv, InTime, Delivered, [Next]_vars, NEW s \in Conn, closes'[s] = 1
             PROVE  \E c \in Conn : Delivers(c, s)'
  BY DEF Delivered
<1>1. TypeOK /\ Wiring /\ Publishing /\ Published /\ ResolveTimeout \in Nat
  BY FragmentsAssumption DEF IInv, TypeInv
<1>2. CASE UNCHANGED vars
  BY <1>2 DEF vars, conns, cells, clocks, Delivered, Delivers
<1>3. CASE Tick
  <2>1. UNCHANGED <<pc, ptr, out, got, response, closes>> /\ \A c \in Conn : pc[c] # "reply"
    BY <1>3 DEF Tick, conns, cells, Promptly, Blocked
  <2>2. QED
    BY <2>1 DEF Delivered, Delivers
<1>4. ASSUME NEW d \in Conn, Open(d) \/ Step(d) PROVE \E c \in Conn : Delivers(c, s)'
  <2>1. Alone(d)
    BY <1>1, <1>4, StepAlone
  <2>2. CASE CloseReady(d) /\ ptr[d] = s
    <3>1. pc[d] = "close" /\ pc'[d] = "reply" /\ UNCHANGED <<ptr, out, response, age>>
      BY <1>1, <2>2 DEF CloseReady, clocks, TypeOK
    <3>2. out[d] = response[s] /\ age[d] <= ResolveTimeout
      BY <1>1, <2>2, <3>1 DEF Publishing, InTime
    <3>3. QED
      BY <2>2, <3>1, <3>2 DEF Delivers
  <2>3. CASE ~(CloseReady(d) /\ ptr[d] = s)
    <3>1. closes[s] = 1
      <4>1. CASE closes' = closes
        BY <4>1
      <4>2. CASE CloseReady(d)
        BY <1>1, <2>3, <4>2 DEF CloseReady, TypeOK
      <4>3. QED
        BY <2>1, <4>1, <4>2 DEF Alone
    <3>2. PICK c \in Conn : Delivers(c, s)
      BY <3>1 DEF Delivered
    <3>3. ptr[c] = s /\ pc[c] \in {"reply", "closed"}
      BY <3>2 DEF Delivers
    <3>4. response'[s] = response[s]
      <4>1. CASE StoreResult(d)
        <5>1. pc[d] = "store" /\ response' = [response EXCEPT ![ptr[d]] = out[d]]
          BY <4>1 DEF StoreResult
        <5>2. ptr[d] # s
          BY <1>1, <3>1, <5>1 DEF Publishing
        <5>3. QED
          BY <1>1, <5>1, <5>2 DEF TypeOK
      <4>2. QED
        BY <2>1, <4>1 DEF Alone
    <3>5. CASE c = d
      <4>1. Reply(d)
        BY <2>1, <3>3, <3>5 DEF Alone
      <4>2. /\ pc[d] = "reply" /\ pc'[d] = "closed" /\ ptr' = ptr
            /\ got'[d] = IF age[d] < WriteDeadline THEN out[d] ELSE None
        BY <1>1, <4>1 DEF Reply, TypeOK
      <4>3. out[d] = response[s] /\ age[d] <= ResolveTimeout
        BY <3>2, <3>5, <4>2 DEF Delivers
      <4>4. age[d] < WriteDeadline
        <5>1. age[d] \in Nat /\ ResolveTimeout < WriteDeadline /\ WriteDeadline \in Nat
          BY <1>1, ClockType DEF TypeOK, Promptly
        <5>2. QED
          BY <1>1, <4>3, <5>1
      <4>5. QED
        BY <3>3, <3>4, <3>5, <4>2, <4>3, <4>4 DEF Delivers
    <3>6. CASE c # d
      BY <2>1, <3>2, <3>4, <3>6 DEF Alone, Delivers
    <3>7. QED
      BY <3>5, <3>6
  <2>4. QED
    BY <2>2, <2>3
<1>5. QED
  BY <1>2, <1>3, <1>4 DEF Next

(* No query is resolved in vain: when steps take less than a tick and the      *)
(* resolver's timeout is shorter than the write deadline, however the pieces   *)
(* come and whichever connection completes the set, one of them delivers the   *)
(* published result.                                                           *)
THEOREM ResultDeliveredHolds == Spec => []ResultDelivered
<1>1. CASE Promptly
  <2>1. Init => IInv /\ InTime /\ Delivered
    BY InvStart DEF Init, InTime, Delivered
  <2>2. IInv /\ InTime /\ Delivered /\ [Next]_vars => (IInv /\ InTime /\ Delivered)'
    BY <1>1, InvStep, InTimeStep, DeliveredStep DEF IInv
  <2>3. IInv /\ InTime /\ Delivered => ResultDelivered
    BY DEF ResultDelivered, Delivered, Delivers, Users
  <2>4. QED
    BY <2>1, <2>2, <2>3, PTL DEF Spec
<1>2. CASE ~Promptly
  <2>1. ResultDelivered
    BY <1>2 DEF ResultDelivered, Promptly
  <2>2. QED
    BY <2>1, PTL
<1>3. QED
  BY <1>1, <1>2
=============================================================================
