----------------------------- MODULE ServerConn -----------------------------
(***************************************************************************)
(* The life of a connection in the server (internal/mc/server.go): the     *)
(* accept loop with its slots, and handleConn and rejectAndClose, each in  *)
(* a goroutine of its own per connection.  What the peer sends and when is *)
(* arbitrary; every read and write is bounded by the deadline that was set *)
(* last.  Server steps that do not wait take less than a tick.             *)
(*                                                                         *)
(* The rate limiter's answers, the contents of the frames and the outcome  *)
(* of the resolver and of the fragment sets are arbitrary here; they are   *)
(* the subject of RateLimiter, Fragments and Resolver.                     *)
(***************************************************************************)
EXTENDS Integers, FiniteSets

CONSTANTS
  Conn,             \* connections
  MaxConnections,   \* MaxConnections, 0 for no cap
  Protected,        \* whether there is a passphrase
  HandshakeBudget,  \* handshakeBudget
  ServeBudget,      \* the deadline set once the request has been read
  WorkBudget,       \* the longest of the resolver's timeout and fragmentTimeout
  PingBudget        \* the deadline handlePing sets

ASSUME ServerConnAssumption ==
  /\ IsFiniteSet(Conn)
  /\ MaxConnections \in Nat /\ Protected \in BOOLEAN
  /\ HandshakeBudget \in Nat /\ ServeBudget \in Nat /\ WorkBudget \in Nat
  /\ PingBudget \in Nat
  /\ HandshakeBudget <= ServeBudget /\ WorkBudget <= ServeBudget

VARIABLES
  pc,         \* pc[c]: where the goroutine of connection c is
  listening,  \* whether the accept loop runs
  slots,      \* how many tokens connSlots holds
  held,       \* the connections whose goroutine holds a slot
  left,       \* left[c]: the time to the deadline, or to the end of the work
  life,       \* life[c]: the time since it was accepted
  passed,     \* the connections the rate limiter let through
  showed      \* the connections that showed the passphrase

conns == <<pc, left, life>>
vars == <<conns, listening, slots, held, passed, showed>>

PC == {"none", "reject", "limit", "handshake", "login", "status", "decide", "work",
       "write", "ping", "close", "free", "gone"}

\* Waiting for the peer, or for the answer to the query.
Waiting == {"reject", "handshake", "login", "status", "work", "write", "ping"}

Init ==
  /\ pc = [c \in Conn |-> "none"]
  /\ listening = TRUE
  /\ slots = 0
  /\ held = {}
  /\ left = [c \in Conn |-> 0]
  /\ life = [c \in Conn |-> 0]
  /\ passed = {}
  /\ showed = {}

Goto(c, label) == pc' = [pc EXCEPT ![c] = label]
Deadline(c, budget) == left' = [left EXCEPT ![c] = budget]

-----------------------------------------------------------------------------
(* The accept loop: a slot and handleConn, or no slot and rejectAndClose. *)
Capped == MaxConnections > 0

AcceptSlot(c) ==
  /\ pc[c] = "none" /\ listening
  /\ IF Capped
       THEN slots < MaxConnections /\ slots' = slots + 1 /\ held' = held \cup {c}
       ELSE UNCHANGED <<slots, held>>
  /\ Goto(c, "limit")
  /\ UNCHANGED <<left, life, listening, passed, showed>>

AcceptFull(c) ==
  /\ pc[c] = "none" /\ listening
  /\ Capped /\ slots >= MaxConnections
  /\ Goto(c, "reject")
  /\ Deadline(c, HandshakeBudget)
  /\ UNCHANGED <<life, listening, slots, held, passed, showed>>

\* The context is done: the listener is closed, the connections are not.
Shutdown ==
  /\ listening
  /\ listening' = FALSE
  /\ UNCHANGED <<conns, slots, held, passed, showed>>

-----------------------------------------------------------------------------
(* handleConn *)

(* rateLimiter.Allow: go on, or have rejectAndClose read the two frames. *)
Limit(c) ==
  /\ pc[c] = "limit"
  /\ \/ Goto(c, "handshake") /\ passed' = passed \cup {c}
     \/ Goto(c, "reject") /\ UNCHANGED passed
  /\ Deadline(c, HandshakeBudget)
  /\ UNCHANGED <<life, listening, slots, held, showed>>

\* Mutant: a login may take as long as the peer likes.
HandshakeUnbounded(c) ==
  /\ pc[c] = "handshake"
  /\ \/ Goto(c, "login") /\ Deadline(c, ServeBudget + PingBudget + 1)
     \/ Goto(c, "status") /\ UNCHANGED left
     \/ Goto(c, "close") /\ UNCHANGED left
  /\ UNCHANGED <<life, listening, slots, held, passed, showed>>

(* The handshake frame: a login, a status request, or something else. *)
Handshake(c) ==
  /\ pc[c] = "handshake"
  /\ \/ Goto(c, "login") /\ Deadline(c, HandshakeBudget)
     \/ Goto(c, "status") /\ UNCHANGED left
     \/ Goto(c, "close") /\ UNCHANGED left
  /\ UNCHANGED <<life, listening, slots, held, passed, showed>>

(* handleLogin: kick the player. *)
Login(c) ==
  /\ pc[c] = "login"
  /\ Goto(c, "close")
  /\ UNCHANGED <<left, life, listening, slots, held, passed, showed>>

(* The status request frame. *)
Status(c) ==
  /\ pc[c] = "status"
  /\ \/ Goto(c, "decide") /\ Deadline(c, ServeBudget)
     \/ Goto(c, "close") /\ UNCHANGED left
  /\ UNCHANGED <<life, listening, slots, held, passed, showed>>

\* Mutant: no deadline applies to the ping.
TimeOutPatient(c) ==
  /\ pc[c] \in {"reject", "handshake", "login", "status"} /\ left[c] = 0
  /\ Goto(c, "close")
  /\ UNCHANGED <<left, life, listening, slots, held, passed, showed>>

\* The deadline passes while the peer is to send a frame.
TimeOut(c) ==
  /\ pc[c] \in {"reject", "handshake", "login", "status", "ping"} /\ left[c] = 0
  /\ Goto(c, "close")
  /\ UNCHANGED <<left, life, listening, slots, held, passed, showed>>

\* Mutant: a piece of a fragmented query is served before the passphrase check.
DecideFragmentFirst(c) ==
  /\ pc[c] = "decide"
  /\ \E authentic \in BOOLEAN :
       /\ showed' = IF Protected /\ authentic THEN showed \cup {c} ELSE showed
       /\ \/ Goto(c, "write") /\ UNCHANGED left
          \/ Goto(c, "work") /\ Deadline(c, WorkBudget)
  /\ UNCHANGED <<life, listening, slots, held, passed>>

(* Without the passphrase a connection gets the vanilla status; so does, or an *)
(* error, an address that does not decode; a query or a piece goes to work.    *)
Decide(c) ==
  /\ pc[c] = "decide"
  /\ \E authentic \in BOOLEAN :
       /\ showed' = IF Protected /\ authentic THEN showed \cup {c} ELSE showed
       /\ \/ Goto(c, "write") /\ UNCHANGED left
          \/ (Protected => authentic) /\ Goto(c, "work") /\ Deadline(c, WorkBudget)
  /\ UNCHANGED <<life, listening, slots, held, passed>>

(* The resolver answers, or a wait for the other pieces of the query ends. *)
Work(c) ==
  /\ pc[c] = "work"
  /\ Goto(c, "write")
  /\ Deadline(c, left[c] + ServeBudget - WorkBudget)
  /\ UNCHANGED <<life, listening, slots, held, passed, showed>>

(* rejectAndClose has read the two frames, or one of them cannot be read. *)
Reject(c) ==
  /\ pc[c] = "reject"
  /\ Goto(c, "write") \/ Goto(c, "close")
  /\ UNCHANGED <<left, life, listening, slots, held, passed, showed>>

(* The reply is written, or cannot be; either way a ping is waited for. *)
Write(c) ==
  /\ pc[c] = "write"
  /\ Goto(c, "ping")
  /\ Deadline(c, PingBudget)
  /\ UNCHANGED <<life, listening, slots, held, passed, showed>>

Ping(c) ==
  /\ pc[c] = "ping"
  /\ Goto(c, "close")
  /\ UNCHANGED <<left, life, listening, slots, held, passed, showed>>

\* The goroutine ends.  Its name is for another connection after the next tick, so
\* no more than Conn of them are accepted between two ticks.
Gone(c) ==
  /\ Goto(c, "gone")
  /\ life' = [life EXCEPT ![c] = 0]
  /\ Deadline(c, 0)
  /\ passed' = passed \ {c}
  /\ showed' = showed \ {c}

\* Mutant: a rejected connection is thought to hold a slot.
CloseFreeing(c) ==
  /\ pc[c] = "close"
  /\ IF Capped THEN Goto(c, "free") /\ UNCHANGED <<left, life, passed, showed>>
     ELSE Gone(c)
  /\ UNCHANGED <<listening, slots, held>>

(* The deferred calls: close the connection, then give the slot back. *)
Close(c) ==
  /\ pc[c] = "close"
  /\ IF c \in held THEN Goto(c, "free") /\ UNCHANGED <<left, life, passed, showed>>
     ELSE Gone(c)
  /\ UNCHANGED <<listening, slots, held>>

Free(c) ==
  /\ pc[c] = "free"
  /\ slots' = slots - 1
  /\ held' = held \ {c}
  /\ Gone(c)
  /\ UNCHANGED listening

(* Time.  It does not pass while a server step is due. *)
Overdue(c) == pc[c] \in Waiting /\ left[c] = 0

Over(c) == pc[c] \in {"none", "gone"}

Tick ==
  /\ \E c \in Conn : pc[c] # "none"
  /\ \A c \in Conn : (pc[c] \in Waiting \/ Over(c)) /\ ~Overdue(c)
  /\ left' = [c \in Conn |-> IF left[c] > 0 THEN left[c] - 1 ELSE 0]
  /\ life' = [c \in Conn |-> IF Over(c) THEN 0 ELSE life[c] + 1]
  /\ pc' = [c \in Conn |-> IF Over(c) THEN "none" ELSE pc[c]]
  /\ UNCHANGED <<listening, slots, held, passed, showed>>

Accept(c) == AcceptSlot(c) \/ AcceptFull(c)

Handle(c) ==
  \/ Limit(c) \/ Handshake(c) \/ Login(c) \/ Status(c) \/ TimeOut(c) \/ Decide(c)
  \/ Work(c) \/ Reject(c) \/ Write(c) \/ Ping(c) \/ Close(c) \/ Free(c)

\* What the server does on its own, whatever the peer does.
Due(c) ==
  \/ pc[c] \notin Waiting /\ Handle(c)
  \/ TimeOut(c)
  \/ left[c] = 0 /\ (Work(c) \/ Write(c))

\* After a shutdown the last connection has ended.
Stopped ==
  /\ ~listening /\ \A c \in Conn : pc[c] = "none"
  /\ UNCHANGED vars

Next == Shutdown \/ Stopped \/ Tick \/ \E c \in Conn : Accept(c) \/ Handle(c)

\* A connection does only finitely much between two ticks, so time passes; steps of
\* the server that are due are taken.
Fairness == WF_vars(Tick) /\ \A c \in Conn : WF_vars(Due(c))

Spec == Init /\ [][Next]_vars
FairSpec == Spec /\ Fairness
-----------------------------------------------------------------------------
(* Type invariant of the accept loop and of the connections. *)
TypeOK ==
  /\ pc \in [Conn -> PC]
  /\ listening \in BOOLEAN
  /\ slots \in Nat
  /\ held \subseteq Conn /\ passed \subseteq Conn /\ showed \subseteq Conn
  /\ left \in [Conn -> Nat]
  /\ life \in [Conn -> Nat]

(* Every handler that is counted holds one slot until it is gone, no connection *)
(* keeps one beyond its end, and there are no more than MaxConnections.         *)
SlotsAccounted ==
  /\ slots = Cardinality(held)
  /\ Capped => slots <= MaxConnections
  /\ \A c \in held : ~Over(c)
  /\ Capped => \A c \in Conn : pc[c] \notin {"none", "reject", "write", "ping", "close", "gone"}
                                 => c \in held

(* "A client without the shared passphrase is treated like an unauthenticated  *)
(* Minecraft client", and a rate-limited one like an ordinary one: neither has *)
(* a query resolved or a piece stored, on any path through the handler.        *)
OnlyAdmitted ==
  \A c \in Conn : pc[c] = "work" => c \in passed /\ (Protected => c \in showed)

(* A peer cannot hold a connection for longer than the deadlines together, *)
(* whatever it sends and whenever it does.                                 *)
LifeBounded == \A c \in Conn : life[c] <= HandshakeBudget + ServeBudget + PingBudget

(* A connection ends even when its peer falls silent, so its slot comes back. *)
ConnectionsEnd == \A c \in Conn : pc[c] # "none" ~> Over(c)
=============================================================================
