------------------------------ MODULE ConnPool ------------------------------
(***************************************************************************)
(* The connection pool of a TCP or DoT upstream and the exchanges that use *)
(* it (internal/upstream: conn_pool.go, TCP.Exchange, DoT.Exchange).  Each *)
(* worker is a goroutine with one request at a time.  An exchange takes a  *)
(* connection from the pool, dials one while the pool has room, or waits;  *)
(* a failed exchange on a reused connection is retried once on a           *)
(* connection dialed outside the pool.                                     *)
(*                                                                         *)
(* A connection is closed before the pool's count is corrected, under the  *)
(* mutex, in a step of its own.  Dials, exchanges and the age of an idle   *)
(* connection have arbitrary outcomes; once the request's context is done, *)
(* neither a dial nor an exchange succeeds.                                *)
(***************************************************************************)
EXTENDS Integers, Sequences, FiniteSets

CONSTANTS
  Worker,  \* goroutines calling Exchange
  Conn,    \* connections
  Max,     \* max, the size of the pool
  None

ASSUME ConnPoolAssumption ==
  /\ IsFiniteSet(Worker)
  /\ Max \in Nat \ {0}
  /\ None \notin Conn

VARIABLES
  idle,    \* the channel of idle connections
  total,   \* total
  open,    \* the connections that are open
  owed,    \* those on which the response to a query may still come
  pc,      \* pc[w]: where worker w is
  conn,    \* conn[w]: the connection it uses
  reused,  \* reused[w]: whether acquire took it from the pool
  done     \* done[w]: whether the context of its request is done

pool == <<idle, total>>
net == <<open, owed>>
vars == <<pool, net, pc, conn, reused, done>>

PC == {"none", "try", "stale", "room", "dial", "wait", "exchange", "release",
       "drop", "uncount", "redial", "retry"}

Init ==
  /\ idle = << >>
  /\ total = 0
  /\ open = {}
  /\ owed = {}
  /\ pc = [w \in Worker |-> "none"]
  /\ conn = [w \in Worker |-> None]
  /\ reused = [w \in Worker |-> FALSE]
  /\ done = [w \in Worker |-> FALSE]

Goto(w, label) == pc' = [pc EXCEPT ![w] = label]

\* Exchange returns; the worker is ready for another request.
Leave(w) ==
  /\ Goto(w, "none")
  /\ conn' = [conn EXCEPT ![w] = None]
  /\ reused' = [reused EXCEPT ![w] = FALSE]
  /\ done' = [done EXCEPT ![w] = FALSE]

Use(w, c, again) ==
  /\ conn' = [conn EXCEPT ![w] = c]
  /\ reused' = [reused EXCEPT ![w] = again]

\* A dial that succeeds opens a connection nobody uses.
Dialed(w, c) ==
  /\ ~done[w]
  /\ c \notin open
  /\ open' = open \cup {c}
  /\ owed' = owed \ {c}

Close(c) == open' = open \ {c}

Request(w) ==
  /\ pc[w] = "none"
  /\ Goto(w, "try")
  /\ UNCHANGED <<pool, net, conn, reused, done>>

ContextDone(w) ==
  /\ pc[w] # "none" /\ ~done[w]
  /\ done' = [done EXCEPT ![w] = TRUE]
  /\ UNCHANGED <<pool, net, pc, conn, reused>>

-----------------------------------------------------------------------------
(* acquire: an idle connection, which may have been idle for too long ... *)
TakeIdle(w) ==
  /\ pc[w] = "try" /\ idle # << >>
  /\ idle' = Tail(idle)
  /\ \/ Goto(w, "exchange") /\ UNCHANGED net
     \/ Goto(w, "stale") /\ Close(Head(idle)) /\ UNCHANGED owed
  /\ Use(w, Head(idle), TRUE)
  /\ UNCHANGED <<total, done>>

DiscardStale(w) ==
  /\ pc[w] = "stale"
  /\ total' = total - 1
  /\ Goto(w, "try")
  /\ Use(w, None, FALSE)
  /\ UNCHANGED <<idle, net, done>>

NoneIdle(w) ==
  /\ pc[w] = "try" /\ idle = << >>
  /\ Goto(w, "room")
  /\ UNCHANGED <<pool, net, conn, reused, done>>

(* ... or a new one while there is room, counted before it is dialed ... *)
HasRoom == total < Max

Reserve(w) ==
  /\ pc[w] = "room"
  /\ total' = IF HasRoom THEN total + 1 ELSE total
  /\ Goto(w, IF HasRoom THEN "dial" ELSE "wait")
  /\ UNCHANGED <<idle, net, conn, reused, done>>

Dial(w) ==
  /\ pc[w] = "dial"
  /\ \E c \in Conn : Dialed(w, c) /\ Use(w, c, FALSE)
  /\ Goto(w, "exchange")
  /\ UNCHANGED <<pool, done>>

\* Mutant: a failed dial keeps its place in the pool.
DialFailsCounted(w) ==
  /\ pc[w] = "dial"
  /\ Leave(w)
  /\ UNCHANGED <<pool, net>>

DialFails(w) ==
  /\ pc[w] = "dial"
  /\ total' = total - 1
  /\ Leave(w)
  /\ UNCHANGED <<idle, net>>

\* Mutant: the connection taken stays in the channel.
TakeReleasedShared(w) ==
  /\ pc[w] = "wait" /\ idle # << >>
  /\ Use(w, Head(idle), TRUE)
  /\ Goto(w, "exchange")
  /\ UNCHANGED <<pool, net, done>>

(* ... or the next one released, or the end of the context. *)
TakeReleased(w) ==
  /\ pc[w] = "wait" /\ idle # << >>
  /\ idle' = Tail(idle)
  /\ Use(w, Head(idle), TRUE)
  /\ Goto(w, "exchange")
  /\ UNCHANGED <<total, net, done>>

\* Mutant: a wait the context ended is started again.
GiveUpRetried(w) ==
  /\ pc[w] = "wait" /\ done[w]
  /\ Goto(w, "room")
  /\ UNCHANGED <<pool, net, conn, reused, done>>

GiveUp(w) ==
  /\ pc[w] = "wait" /\ done[w]
  /\ Leave(w)
  /\ UNCHANGED <<pool, net>>

-----------------------------------------------------------------------------
(* The exchange.  When it fails, a response may still be on its way. *)
Answered(w) ==
  /\ pc[w] = "exchange" /\ ~done[w]
  /\ Goto(w, "release")
  /\ UNCHANGED <<pool, net, conn, reused, done>>

\* Mutant: a connection whose exchange failed goes back to the pool.
FailsKept(w) ==
  /\ pc[w] = "exchange"
  /\ owed' = owed \cup {conn[w]}
  /\ Goto(w, "release")
  /\ UNCHANGED <<pool, open, conn, reused, done>>

Fails(w) ==
  /\ pc[w] = "exchange"
  /\ owed' = owed \cup {conn[w]}
  /\ Goto(w, "drop")
  /\ UNCHANGED <<pool, open, conn, reused, done>>

\* release(connection, true); with no space in the channel it is closed.
Release(w) ==
  /\ pc[w] = "release"
  /\ IF Len(idle) < Max
     THEN idle' = Append(idle, conn[w]) /\ Leave(w) /\ UNCHANGED open
     ELSE Close(conn[w]) /\ Goto(w, "uncount") /\ UNCHANGED <<idle, conn, reused, done>>
  /\ UNCHANGED <<total, owed>>

\* release(connection, false): close, then correct the count.
Drop(w) ==
  /\ pc[w] = "drop"
  /\ Close(conn[w])
  /\ Goto(w, "uncount")
  /\ UNCHANGED <<pool, owed, conn, reused, done>>

Uncount(w) ==
  /\ pc[w] = "uncount"
  /\ total' = total - 1
  /\ IF reused[w] THEN Goto(w, "redial") /\ Use(w, None, FALSE) /\ UNCHANGED done
     ELSE Leave(w)
  /\ UNCHANGED <<idle, net>>

(* The retry on a connection the pool does not count, and its end. *)
Redial(w) ==
  /\ pc[w] = "redial"
  /\ \/ \E c \in Conn : Dialed(w, c) /\ Use(w, c, FALSE) /\ Goto(w, "retry") /\ UNCHANGED done
     \/ Leave(w) /\ UNCHANGED net
  /\ UNCHANGED pool

Retry(w) ==
  /\ pc[w] = "retry"
  /\ Close(conn[w])
  /\ Leave(w)
  /\ UNCHANGED <<pool, owed>>

Step(w) ==
  \/ TakeIdle(w) \/ DiscardStale(w) \/ NoneIdle(w) \/ Reserve(w) \/ Dial(w)
  \/ DialFails(w) \/ TakeReleased(w) \/ GiveUp(w) \/ Answered(w) \/ Fails(w)
  \/ Release(w) \/ Drop(w) \/ Uncount(w) \/ Redial(w) \/ Retry(w)

Next == \E w \in Worker : Request(w) \/ ContextDone(w) \/ Step(w)

Fairness == \A w \in Worker : WF_vars(ContextDone(w)) /\ WF_vars(Step(w))

Spec == Init /\ [][Next]_vars
FairSpec == Spec /\ Fairness
-----------------------------------------------------------------------------
(* Type invariant of the pool and of the exchanges in progress. *)
TypeOK ==
  /\ idle \in Seq(Conn)
  /\ total \in Nat
  /\ open \subseteq Conn /\ owed \subseteq Conn
  /\ pc \in [Worker -> PC]
  /\ conn \in [Worker -> Conn \cup {None}]
  /\ reused \in [Worker -> BOOLEAN]
  /\ done \in [Worker -> BOOLEAN]

(* No slot leaks and none is given out twice: the pool counts its idle          *)
(* connections and the workers that hold or dial one of its own, and no more    *)
(* than fit.  So a release always finds space in the channel.                   *)
Counted == {"stale", "dial", "exchange", "release", "drop", "uncount"}

Accounting ==
  /\ total = Len(idle) + Cardinality({w \in Worker : pc[w] \in Counted})
  /\ total <= Max

(* A connection is in use by one exchange at a time: no two workers hold the  *)
(* same one, and none holds one that is idle in the pool.                     *)
Holders == {"exchange", "release", "drop", "retry"}

Exclusive ==
  /\ \A v, w \in Worker : pc[v] \in Holders /\ pc[w] \in Holders /\ conn[v] = conn[w] => v = w
  /\ \A w \in Worker, i \in DOMAIN idle : pc[w] \in Holders => conn[w] # idle[i]
  /\ \A i, j \in DOMAIN idle : idle[i] = idle[j] => i = j

(* "A connection whose exchange fails is closed and dropped rather than reused":  *)
(* an idle connection is open and has no response to an earlier query coming.     *)
IdleClean == \A i \in DOMAIN idle : idle[i] \in open /\ idle[i] \notin owed

(* "Dialing and waiting respect the request context": an exchange that has come  *)
(* to dial or to wait ends, even when nobody releases a connection.  The loop    *)
(* before it has no such promise: it goes round for as long as what it finds     *)
(* in the pool is stale.                                                         *)
RequestsEnd == \A w \in Worker : pc[w] \in {"dial", "wait"} ~> pc[w] = "none"
=============================================================================
