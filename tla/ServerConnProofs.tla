-------------------------- MODULE ServerConnProofs --------------------------
(***************************************************************************)
(* Proofs about ServerConn, for any number of connections, any cap and any *)
(* deadlines: slots, admission and life span on every path.                *)
(***************************************************************************)
EXTENDS ServerConn, FiniteSetTheorems, TLAPS

USE ServerConnAssumption

(* Only a handler that holds a slot comes to free it. *)
FreesItsOwn == \A c \in Conn : pc[c] = "free" => c \in held

(* What comes after the rate limiter has been let through. *)
Limited == {"handshake", "login", "status", "decide", "work"}

Admitted ==
  \A c \in Conn :
    /\ pc[c] \in Limited => c \in passed
    /\ pc[c] = "work" /\ Protected => c \in showed

(* How old a connection can be by its deadline, by where it is. *)
LatestEnd(label) ==
  CASE label \in {"none", "limit", "gone"} -> 0
    [] label \in {"handshake", "reject", "status", "decide"} -> HandshakeBudget
    [] label \in {"login", "write"} -> HandshakeBudget + ServeBudget
    [] label = "work" -> HandshakeBudget + WorkBudget
    [] OTHER -> HandshakeBudget + ServeBudget + PingBudget

Timely ==
  \A c \in Conn :
    /\ life[c] + (IF pc[c] \in Waiting THEN left[c] ELSE 0) <= LatestEnd(pc[c])
    /\ pc[c] = "decide" => left[c] = ServeBudget

Slots == SlotsAccounted /\ FreesItsOwn
IInv == TypeOK /\ Slots /\ Admitted /\ Timely

(* The holders are a finite set. *)
LEMMA HoldersFinite ==
  ASSUME TypeOK, NEW c \in Conn
  PROVE  /\ IsFiniteSet(held) /\ Cardinality(held) \in Nat
         /\ c \in held => Cardinality(held) >= 1 /\ Cardinality(held \ {c}) = Cardinality(held) - 1
         /\ c \notin held => Cardinality(held \cup {c}) = Cardinality(held) + 1
<1>1. IsFiniteSet(held) /\ Cardinality(held) \in Nat
  BY FS_Subset, FS_CardinalityType DEF TypeOK
<1>2. c \in held => Cardinality(held) # 0
  BY <1>1, FS_EmptySet
<1>3. c \in held => Cardinality(held \ {c}) = Cardinality(held) - 1
  BY <1>1, FS_RemoveElement
<1>4. c \notin held => Cardinality(held \cup {c}) = Cardinality(held) + 1
  BY <1>1, FS_AddElement
<1>5. QED
  BY <1>1, <1>2, <1>3, <1>4

(* Every step of a connection keeps the types. *)
LEMMA TypesKept ==
  ASSUME IInv, NEW c \in Conn, Accept(c) \/ Handle(c)
  PROVE  TypeOK'
<1>1. CASE AcceptSlot(c)
  BY <1>1 DEF AcceptSlot, Goto, IInv, TypeOK, conns, PC
<1>2. CASE AcceptFull(c)
  BY <1>2 DEF AcceptFull, Goto, Deadline, IInv, TypeOK, conns, PC
<1>3. CASE Limit(c)
  BY <1>3 DEF Limit, Goto, Deadline, IInv, TypeOK, conns, PC
<1>4. CASE Handshake(c)
  BY <1>4 DEF Handshake, Goto, Deadline, IInv, TypeOK, conns, PC
<1>5. CASE Login(c)
  BY <1>5 DEF Login, Goto, IInv, TypeOK, conns, PC
<1>6. CASE Status(c)
  BY <1>6 DEF Status, Goto, Deadline, IInv, TypeOK, conns, PC
<1>7. CASE TimeOut(c)
  BY <1>7 DEF TimeOut, Goto, IInv, TypeOK, conns, PC
<1>8. CASE Decide(c)
  BY <1>8 DEF Decide, Goto, Deadline, IInv, TypeOK, conns, PC
<1>9. CASE Work(c)
  BY <1>9 DEF Work, Goto, Deadline, IInv, TypeOK, conns, PC
<1>10. CASE Reject(c)
  BY <1>10 DEF Reject, Goto, IInv, TypeOK, conns, PC
<1>11. CASE Write(c)
  BY <1>11 DEF Write, Goto, Deadline, IInv, TypeOK, conns, PC
<1>12. CASE Ping(c)
  BY <1>12 DEF Ping, Goto, IInv, TypeOK, conns, PC
<1>13. CASE Close(c)
  BY <1>13 DEF Close, Goto, Gone, Deadline, IInv, TypeOK, conns, PC
<1>14. CASE Free(c)
  <2>1. c \in held /\ slots = Cardinality(held) /\ TypeOK
    BY <1>14 DEF Free, IInv, Slots, SlotsAccounted, FreesItsOwn
  <2>2. slots' \in Nat
    BY <1>14, <2>1, HoldersFinite DEF Free
  <2>3. QED
    BY <1>14, <2>2 DEF Free, Goto, Gone, Deadline, IInv, TypeOK, conns, PC
<1>15. QED
  BY <1>1, <1>2, <1>3, <1>4, <1>5, <1>6, <1>7, <1>8, <1>9, <1>10, <1>11, <1>12, <1>13, <1>14 DEF Accept, Handle

(* Every step of a connection keeps the slots accounted for. *)
LEMMA SlotsKept ==
  ASSUME IInv, NEW c \in Conn, Accept(c) \/ Handle(c)
  PROVE  Slots'
<1>1. CASE AcceptSlot(c)
  <2>1. c \notin held
    BY <1>1 DEF AcceptSlot, Over, IInv, Slots, SlotsAccounted
  <2>2. CASE Capped
    <3>1. slots' = slots + 1 /\ held' = held \cup {c} /\ slots < MaxConnections
      BY <1>1, <2>2 DEF AcceptSlot
    <3>2. slots' = Cardinality(held') /\ slots' <= MaxConnections
      BY <2>1, <3>1, HoldersFinite DEF IInv, TypeOK, Slots, SlotsAccounted
    <3>3. QED
      BY <1>1, <2>2, <3>1, <3>2 DEF AcceptSlot, Goto, Over, Capped, IInv, TypeOK, Slots, SlotsAccounted, FreesItsOwn
  <2>3. CASE ~Capped
    BY <1>1, <2>1, <2>3 DEF AcceptSlot, Goto, Over, Capped, IInv, TypeOK, Slots, SlotsAccounted, FreesItsOwn
  <2>4. QED
    BY <2>2, <2>3
<1>2. CASE AcceptFull(c)
  BY <1>2 DEF AcceptFull, Goto, Deadline, IInv, TypeOK, conns, Over, Capped, Slots, SlotsAccounted, FreesItsOwn
<1>3. CASE Limit(c)
  BY <1>3 DEF Limit, Goto, Deadline, IInv, TypeOK, conns, Over, Capped, Slots, SlotsAccounted, FreesItsOwn
<1>4. CASE Handshake(c)
  BY <1>4 DEF Handshake, Goto, Deadline, IInv, TypeOK, conns, Over, Capped, Slots, SlotsAccounted, FreesItsOwn
<1>5. CASE Login(c)
  BY <1>5 DEF Login, Goto, IInv, TypeOK, conns, Over, Capped, Slots, SlotsAccounted, FreesItsOwn
<1>6. CASE Status(c)
  BY <1>6 DEF Status, Goto, Deadline, IInv, TypeOK, conns, Over, Capped, Slots, SlotsAccounted, FreesItsOwn
<1>7. CASE TimeOut(c)
  BY <1>7 DEF TimeOut, Goto, IInv, TypeOK, conns, Over, Capped, Slots, SlotsAccounted, FreesItsOwn
<1>8. CASE Decide(c)
  BY <1>8 DEF Decide, Goto, Deadline, IInv, TypeOK, conns, Over, Capped, Slots, SlotsAccounted, FreesItsOwn
<1>9. CASE Work(c)
  BY <1>9 DEF Work, Goto, Deadline, IInv, TypeOK, conns, Over, Capped, Slots, SlotsAccounted, FreesItsOwn
<1>10. CASE Reject(c)
  BY <1>10 DEF Reject, Goto, IInv, TypeOK, conns, Over, Capped, Slots, SlotsAccounted, FreesItsOwn
<1>11. CASE Write(c)
  BY <1>11 DEF Write, Goto, Deadline, IInv, TypeOK, conns, Over, Capped, Slots, SlotsAccounted, FreesItsOwn
<1>12. CASE Ping(c)
  BY <1>12 DEF Ping, Goto, IInv, TypeOK, conns, Over, Capped, Slots, SlotsAccounted, FreesItsOwn
<1>13. CASE Close(c)
  BY <1>13 DEF Close, Goto, Gone, Deadline, IInv, TypeOK, conns, Over, Capped, Slots, SlotsAccounted, FreesItsOwn
<1>14. CASE Free(c)
  <2>1. c \in held /\ slots = Cardinality(held) /\ (Capped => slots <= MaxConnections)
    BY <1>14 DEF Free, IInv, Slots, SlotsAccounted, FreesItsOwn
  <2>2. slots' = slots - 1 /\ held' = held \ {c}
    BY <1>14 DEF Free
  <2>3. slots' = Cardinality(held') /\ (Capped => slots' <= MaxConnections)
    BY <2>1, <2>2, HoldersFinite DEF IInv, TypeOK, Capped
  <2>4. QED
    BY <1>14, <2>2, <2>3 DEF Free, Goto, Gone, Over, Capped, IInv, TypeOK, Slots, SlotsAccounted, FreesItsOwn
<1>15. QED
  BY <1>1, <1>2, <1>3, <1>4, <1>5, <1>6, <1>7, <1>8, <1>9, <1>10, <1>11, <1>12, <1>13, <1>14 DEF Accept, Handle

(* No step of a connection comes past the limiter or the passphrase. *)
LEMMA AdmissionKept ==
  ASSUME IInv, NEW c \in Conn, Accept(c) \/ Handle(c)
  PROVE  Admitted'
<1>1. CASE AcceptSlot(c)
  BY <1>1 DEF AcceptSlot, Goto, IInv, TypeOK, conns, Admitted, Limited
<1>2. CASE AcceptFull(c)
  BY <1>2 DEF AcceptFull, Goto, Deadline, IInv, TypeOK, conns, Admitted, Limited
<1>3. CASE Limit(c)
  BY <1>3 DEF Limit, Goto, Deadline, IInv, TypeOK, conns, Admitted, Limited
<1>4. CASE Handshake(c)
  BY <1>4 DEF Handshake, Goto, Deadline, IInv, TypeOK, conns, Admitted, Limited
<1>5. CASE Login(c)
  BY <1>5 DEF Login, Goto, IInv, TypeOK, conns, Admitted, Limited
<1>6. CASE Status(c)
  BY <1>6 DEF Status, Goto, Deadline, IInv, TypeOK, conns, Admitted, Limited
<1>7. CASE TimeOut(c)
  BY <1>7 DEF TimeOut, Goto, IInv, TypeOK, conns, Admitted, Limited
<1>8. CASE Decide(c)
  BY <1>8 DEF Decide, Goto, Deadline, IInv, TypeOK, conns, Admitted, Limited
<1>9. CASE Work(c)
  BY <1>9 DEF Work, Goto, Deadline, IInv, TypeOK, conns, Admitted, Limited
<1>10. CASE Reject(c)
  BY <1>10 DEF Reject, Goto, IInv, TypeOK, conns, Admitted, Limited
<1>11. CASE Write(c)
  BY <1>11 DEF Write, Goto, Deadline, IInv, TypeOK, conns, Admitted, Limited
<1>12. CASE Ping(c)
  BY <1>12 DEF Ping, Goto, IInv, TypeOK, conns, Admitted, Limited
<1>13. CASE Close(c)
  BY <1>13 DEF Close, Goto, Gone, Deadline, IInv, TypeOK, conns, Admitted, Limited
<1>14. CASE Free(c)
  BY <1>14 DEF Free, Goto, Gone, Deadline, IInv, TypeOK, conns, Admitted, Limited
<1>15. QED
  BY <1>1, <1>2, <1>3, <1>4, <1>5, <1>6, <1>7, <1>8, <1>9, <1>10, <1>11, <1>12, <1>13, <1>14 DEF Accept, Handle

(* No step of a connection puts its end off beyond the deadlines together. *)
LEMMA DeadlinesKept ==
  ASSUME IInv, NEW c \in Conn, Accept(c) \/ Handle(c)
  PROVE  Timely'
<1>1. CASE AcceptSlot(c)
  BY <1>1 DEF AcceptSlot, Goto, IInv, TypeOK, conns, Timely, LatestEnd, Waiting
<1>2. CASE AcceptFull(c)
  BY <1>2 DEF AcceptFull, Goto, Deadline, IInv, TypeOK, conns, Timely, LatestEnd, Waiting
<1>3. CASE Limit(c)
  BY <1>3 DEF Limit, Goto, Deadline, IInv, TypeOK, conns, Timely, LatestEnd, Waiting
<1>4. CASE Handshake(c)
  BY <1>4 DEF Handshake, Goto, Deadline, IInv, TypeOK, conns, Timely, LatestEnd, Waiting
<1>5. CASE Login(c)
  BY <1>5 DEF Login, Goto, IInv, TypeOK, conns, Timely, LatestEnd, Waiting
<1>6. CASE Status(c)
  BY <1>6 DEF Status, Goto, Deadline, IInv, TypeOK, conns, Timely, LatestEnd, Waiting
<1>7. CASE TimeOut(c)
  BY <1>7 DEF TimeOut, Goto, IInv, TypeOK, conns, Timely, LatestEnd, Waiting
<1>8. CASE Decide(c)
  <2>1. pc[c] = "decide" /\ life' = life /\ pc \in [Conn -> PC] /\ left \in [Conn -> Nat] /\ life \in [Conn -> Nat]
    BY <1>8 DEF Decide, IInv, TypeOK
  <2>2. CASE pc' = [pc EXCEPT ![c] = "write"] /\ left' = left
    BY <2>1, <2>2 DEF IInv, Timely, LatestEnd, Waiting
  <2>3. CASE pc' = [pc EXCEPT ![c] = "work"] /\ left' = [left EXCEPT ![c] = WorkBudget]
    <3>1. life[c] <= HandshakeBudget
      BY <2>1 DEF IInv, Timely, LatestEnd, Waiting
    <3>2. QED
      BY <2>1, <2>3, <3>1 DEF IInv, Timely, LatestEnd, Waiting
  <2>4. QED
    BY <1>8, <2>2, <2>3 DEF Decide, Goto, Deadline
<1>9. CASE Work(c)
  BY <1>9 DEF Work, Goto, Deadline, IInv, TypeOK, conns, Timely, LatestEnd, Waiting
<1>10. CASE Reject(c)
  BY <1>10 DEF Reject, Goto, IInv, TypeOK, conns, Timely, LatestEnd, Waiting
<1>11. CASE Write(c)
  BY <1>11 DEF Write, Goto, Deadline, IInv, TypeOK, conns, Timely, LatestEnd, Waiting
<1>12. CASE Ping(c)
  BY <1>12 DEF Ping, Goto, IInv, TypeOK, conns, Timely, LatestEnd, Waiting
<1>13. CASE Close(c)
  BY <1>13 DEF Close, Goto, Gone, Deadline, IInv, TypeOK, conns, Timely, LatestEnd, Waiting
<1>14. CASE Free(c)
  BY <1>14 DEF Free, Goto, Gone, Deadline, IInv, TypeOK, conns, Timely, LatestEnd, Waiting
<1>15. QED
  BY <1>1, <1>2, <1>3, <1>4, <1>5, <1>6, <1>7, <1>8, <1>9, <1>10, <1>11, <1>12, <1>13, <1>14 DEF Accept, Handle

(* Time passes only for connections that wait, and have time left. *)
LEMMA TickKeeps ==
  ASSUME IInv, Tick
  PROVE  IInv'
<1>1. TypeOK'
  BY DEF Tick, IInv, TypeOK, PC, Over
<1>2. \A c \in Conn : pc'[c] = (IF Over(c) THEN "none" ELSE pc[c])
  BY DEF Tick
<1>3. Slots'
  <2>1. slots' = slots /\ held' = held
    BY DEF Tick
  <2>2. \A c \in held : c \in Conn /\ ~Over(c) /\ pc'[c] = pc[c]
    BY <1>2 DEF IInv, TypeOK, Slots, SlotsAccounted
  <2>3. \A c \in Conn : pc'[c] = pc[c] \/ pc'[c] = "none"
    BY <1>2
  <2>4. SlotsAccounted'
    BY <2>1, <2>2, <2>3 DEF IInv, Slots, SlotsAccounted, Over, Capped
  <2>5. FreesItsOwn'
    BY <2>1, <2>3 DEF IInv, Slots, FreesItsOwn
  <2>6. QED
    BY <2>4, <2>5 DEF Slots
<1>4. Admitted'
  BY <1>2 DEF Tick, IInv, Admitted, Limited, Over
<1>5. Timely'
  <2> SUFFICES ASSUME NEW c \in Conn
               PROVE  /\ life'[c] + (IF pc'[c] \in Waiting THEN left'[c] ELSE 0)
                           <= LatestEnd(pc'[c])
                      /\ pc'[c] # "decide"
    BY DEF Timely, LatestEnd
  <2>1. CASE Over(c)
    <3>1. pc'[c] = "none" /\ life'[c] = 0
      BY <2>1 DEF Tick
    <3>2. QED
      BY <3>1 DEF Waiting, LatestEnd
  <2>2. CASE ~Over(c)
    <3>1. pc[c] \in Waiting /\ left[c] # 0 /\ left[c] \in Nat /\ life[c] \in Nat
      BY <2>2 DEF Tick, Overdue, IInv, TypeOK
    <3>2. pc'[c] = pc[c] /\ left'[c] = left[c] - 1 /\ life'[c] = life[c] + 1
      BY <2>2, <3>1 DEF Tick
    <3>3. life[c] + left[c] <= LatestEnd(pc[c])
      BY <3>1 DEF IInv, Timely
    <3>4. LatestEnd(pc[c]) \in Nat
      BY DEF LatestEnd
    <3>5. QED
      BY <3>1, <3>2, <3>3, <3>4 DEF Waiting
  <2>3. QED
    BY <2>1, <2>2
<1>6. QED
  BY <1>1, <1>3, <1>4, <1>5 DEF IInv

LEMMA IInvHolds == Spec => []IInv
<1>1. Init => IInv
  <2> SUFFICES ASSUME Init PROVE IInv
    OBVIOUS
  <2>1. slots = Cardinality(held) /\ (Capped => slots <= MaxConnections)
    BY FS_EmptySet DEF Init, Capped
  <2>2. QED
    BY <2>1 DEF Init, IInv, TypeOK, PC, Slots, SlotsAccounted, FreesItsOwn, Over, Admitted,
                Limited, Timely, Waiting, LatestEnd
<1>2. IInv /\ [Next]_vars => IInv'
  <2> SUFFICES ASSUME IInv, [Next]_vars PROVE IInv'
    OBVIOUS
  <2>1. ASSUME NEW c \in Conn, Accept(c) \/ Handle(c) PROVE IInv'
    BY <2>1, TypesKept, SlotsKept, AdmissionKept, DeadlinesKept DEF IInv
  <2>2. CASE Shutdown
    BY <2>2 DEF Shutdown, conns, IInv, TypeOK, Slots, SlotsAccounted, FreesItsOwn, Over,
                Admitted, Timely
  <2>3. CASE UNCHANGED vars
    BY <2>3 DEF vars, conns, IInv, TypeOK, Slots, SlotsAccounted, FreesItsOwn, Over, Admitted,
                Timely
  <2>4. QED
    BY <2>1, <2>2, <2>3, TickKeeps DEF Next, Stopped
<1>3. QED
  BY <1>1, <1>2, PTL DEF Spec

(* The accept loop and the connections keep their types; no slot is given back *)
(* that was not taken.                                                         *)
THEOREM TypeCorrect == Spec => []TypeOK
BY IInvHolds, PTL DEF IInv

(* connSlots: every counted handler holds one slot until it has closed its     *)
(* connection, and no path through handleConn keeps it.                        *)
THEOREM SlotsAccountedHolds == Spec => []SlotsAccounted
BY IInvHolds, PTL DEF IInv, Slots

(* No path through handleConn comes to the resolver or to the fragments without *)
(* the rate limiter and, where there is one, the passphrase.                    *)
THEOREM OnlyAdmittedHolds == Spec => []OnlyAdmitted
<1>1. IInv => OnlyAdmitted
  BY DEF IInv, Admitted, OnlyAdmitted, Limited
<1>2. QED
  BY <1>1, IInvHolds, PTL

(* No peer keeps a connection for longer than the three deadlines together. *)
THEOREM LifeBoundedHolds == Spec => []LifeBounded
<1>1. ASSUME IInv, NEW c \in Conn PROVE life[c] <= HandshakeBudget + ServeBudget + PingBudget
  <2>1. life[c] \in Nat /\ left[c] \in Nat
    BY <1>1 DEF IInv, TypeOK
  <2>2. life[c] <= LatestEnd(pc[c])
    BY <1>1, <2>1 DEF IInv, Timely, LatestEnd
  <2>3. LatestEnd(pc[c]) <= HandshakeBudget + ServeBudget + PingBudget
    BY DEF LatestEnd
  <2>4. QED
    BY <2>1, <2>2, <2>3 DEF LatestEnd
<1>2. IInv => LifeBounded
  BY <1>1 DEF LifeBounded
<1>3. QED
  BY <1>2, IInvHolds, PTL
=============================================================================
