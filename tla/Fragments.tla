------------------------------ MODULE Fragments ------------------------------
(***************************************************************************)
(* The server side of a fragmented query (internal/mc/fragment.go and      *)
(* Server.handleFragmentConnection).  A query too long for one server      *)
(* address travels as several pieces, one connection each; the pieces meet *)
(* in a fragmentSet found through the assembler's map under the client's   *)
(* address and nonce.  The connection that completes the set resolves the  *)
(* query and publishes the result; a connection that carries the last      *)
(* piece but did not complete the set waits for it; the others get an ack. *)
(*                                                                         *)
(* One atomic step per critical section or channel operation.  A           *)
(* fragmentSet is named by the connection that created it, which is        *)
(* unique, so a set that left the map can still be reached by whoever      *)
(* holds a pointer to it.  Pieces are represented by the query they belong *)
(* to, and a reassembled text by the function from positions to pieces.    *)
(***************************************************************************)
EXTENDS Integers, FiniteSets

CONSTANTS
  Conn,             \* fragment connections
  Query,            \* the queries their pieces belong to
  Key,              \* fragmentKey: client address and nonce
  KeyOf,            \* the key the pieces of a query are sent under
  PiecesOf,         \* into how many pieces the query was split
  MaxPieces,        \* maxFragmentPieces
  FragmentTimeout,  \* fragmentTimeout, in ticks
  ResolveTimeout,   \* the timeout given to Resolver.Resolve, in ticks
  WriteDeadline,    \* the connection's deadline once its request is read
  Prompt,           \* TRUE: a step that can run takes less than a tick
  Ack,              \* the "fragment-ack" status
  ServFail,         \* a SERVFAIL answer
  None

Position == 1..MaxPieces
Text     == [Position -> Query \cup {None}]
Result   == Text \cup {ServFail}

ASSUME FragmentsAssumption ==
  /\ MaxPieces \in Nat /\ FragmentTimeout \in Nat \ {0} /\ ResolveTimeout \in Nat
  /\ WriteDeadline \in Nat /\ WriteDeadline <= FragmentTimeout
  /\ Prompt \in BOOLEAN
  /\ KeyOf \in [Query -> Key] /\ PiecesOf \in [Query -> 2..MaxPieces]
  /\ None \notin Conn \cup Query \cup Result \cup {Ack}
  /\ Ack \notin Result /\ ServFail \notin Text

VARIABLES
  pc,        \* pc[c]: where the goroutine of connection c is
  query,     \* query[c]: the query its piece belongs to
  index,     \* index[c]: the position of its piece
  ptr,       \* ptr[c]: the fragment set add() gave it
  out,       \* out[c]: the reply being prepared
  got,       \* got[c]: the reply the peer received
  age,       \* age[c]: time since its deadline was set, up to the deadline
  timer,     \* timer[c]: time since its current blocking call started
  sets,      \* assembler.sets: the set under each key
  pieces,    \* fragmentSet.pieces
  total,     \* fragmentSet.total
  started,   \* fragmentSet.started
  response,  \* fragmentSet.response, None until done
  closes,    \* how often fragmentSet.resultReady was closed
  idle       \* time since fragmentSet.lastSeen, up to the purge age

conns == <<pc, query, index, ptr, out, got>>
cells == <<pieces, total, started, response, closes>>
clocks == <<age, timer, idle>>
vars == <<conns, cells, clocks, sets>>

PC == {"none", "open", "found", "complete", "resolve", "store", "close",
       "wait", "reply", "closed"}

\* The goroutines of a set's completer, from the decision to the publication.
Completing == {"complete", "resolve", "store", "close"}

PurgeAge == 2 * FragmentTimeout + 1

Init ==
  /\ pc = [c \in Conn |-> "none"]
  /\ query = [c \in Conn |-> None]
  /\ index = [c \in Conn |-> 0]
  /\ ptr = [c \in Conn |-> None]
  /\ out = [c \in Conn |-> None]
  /\ got = [c \in Conn |-> None]
  /\ age = [c \in Conn |-> 0] /\ timer = [c \in Conn |-> 0]
  /\ sets = [k \in Key |-> None]
  /\ pieces = [s \in Conn |-> [i \in Position |-> None]]
  /\ total = [s \in Conn |-> 0]
  /\ started = [s \in Conn |-> FALSE]
  /\ response = [s \in Conn |-> None]
  /\ closes = [s \in Conn |-> 0]
  /\ idle = [s \in Conn |-> 0]

(* A connection whose handshake isFragmented accepts; its deadline is now set. *)
Open(c) ==
  /\ pc[c] = "none"
  /\ pc' = [pc EXCEPT ![c] = "open"]
  /\ \E q \in Query : \E i \in 1..PiecesOf[q] :
       query' = [query EXCEPT ![c] = q] /\ index' = [index EXCEPT ![c] = i]
  /\ age' = [age EXCEPT ![c] = 0]
  /\ UNCHANGED <<ptr, out, got, cells, timer, idle, sets>>

(* add, under the assembler's mutex: purgeLocked, then find or create the set. *)
Purged(k) == IF sets[k] # None /\ idle[sets[k]] >= PurgeAge THEN None ELSE sets[k]

Lookup(c) ==
  /\ pc[c] = "open"
  /\ LET k == KeyOf[query[c]]
         s == IF Purged(k) = None THEN c ELSE Purged(k)
     IN  /\ sets' = [j \in Key |-> IF j = k THEN s ELSE Purged(j)]
         /\ ptr' = [ptr EXCEPT ![c] = s]
         /\ idle' = [idle EXCEPT ![s] = 0]
  /\ pc' = [pc EXCEPT ![c] = "found"]
  /\ UNCHANGED <<query, index, out, got, cells, age, timer>>

(* add, under the set's mutex: store the piece, perhaps become its completer. *)
Filled(f) == {i \in Position : f[i] # None}

\* Mutant: the set does not remember that it was claimed.
CompletesAgain(s, f, n) == Cardinality(Filled(f)) = n

\* Mutant: one piece too many is waited for.
CompletesLate(s, f, n) ==
  /\ ~started[s] /\ response[s] = None
  /\ Cardinality(Filled(f)) > n

Completes(s, f, n) ==
  /\ ~started[s] /\ response[s] = None
  /\ Cardinality(Filled(f)) = n

Store(c) ==
  LET s == ptr[c]
      n == IF total[s] = 0 THEN PiecesOf[query[c]] ELSE total[s]
      f == [pieces[s] EXCEPT ![index[c]] = query[c]]
      completer == Completes(s, f, n)
      last == index[c] = PiecesOf[query[c]]
  IN  /\ pc[c] = "found"
      /\ total' = [total EXCEPT ![s] = n]
      /\ pieces' = [pieces EXCEPT ![s] = f]
      /\ started' = [started EXCEPT ![s] = @ \/ completer]
      /\ pc' = [pc EXCEPT ![c] = IF completer THEN "complete"
                                 ELSE IF last THEN "wait" ELSE "reply"]
      /\ out' = [out EXCEPT ![c] = IF completer \/ last THEN None ELSE Ack]
      /\ timer' = [timer EXCEPT ![c] = 0]
      /\ UNCHANGED <<query, index, ptr, got, response, closes, age, idle, sets>>

\* Mutant: the last piece is left out.
ReassembledShort(s) == [i \in Position |-> IF i < total[s] THEN pieces[s][i] ELSE None]

(* reassemble and DecodeQuery: the text goes on to the resolver, or fails. *)
Reassembled(s) == [i \in Position |-> IF i <= total[s] THEN pieces[s][i] ELSE None]

Reassemble(c) ==
  /\ pc[c] = "complete"
  /\ \/ /\ pc' = [pc EXCEPT ![c] = "resolve"]
        /\ out' = [out EXCEPT ![c] = Reassembled(ptr[c])]
     \/ /\ pc' = [pc EXCEPT ![c] = "store"]
        /\ out' = [out EXCEPT ![c] = ServFail]
  /\ timer' = [timer EXCEPT ![c] = 0]
  /\ UNCHANGED <<query, index, ptr, got, cells, age, idle, sets>>

(* Resolver.Resolve returns: the answer to the text, or an error. *)
Resolve(c) ==
  /\ pc[c] = "resolve"
  /\ pc' = [pc EXCEPT ![c] = "store"]
  /\ \/ UNCHANGED out
     \/ out' = [out EXCEPT ![c] = ServFail]
  /\ UNCHANGED <<query, index, ptr, got, cells, clocks, sets>>

(* storeResult: the assignments under the mutex, then close(resultReady). *)
StoreResult(c) ==
  /\ pc[c] = "store"
  /\ response' = [response EXCEPT ![ptr[c]] = out[c]]
  /\ pc' = [pc EXCEPT ![c] = "close"]
  /\ UNCHANGED <<query, index, ptr, out, got, pieces, total, started, closes, clocks, sets>>

CloseReady(c) ==
  /\ pc[c] = "close"
  /\ closes' = [closes EXCEPT ![ptr[c]] = @ + 1]
  /\ pc' = [pc EXCEPT ![c] = "reply"]
  /\ UNCHANGED <<query, index, ptr, out, got, pieces, total, started, response, clocks, sets>>

(* waitResult: the select takes either ready case, then reads the result. *)
WaitReady(c) ==
  /\ pc[c] = "wait"
  /\ closes[ptr[c]] > 0
  /\ out' = [out EXCEPT ![c] = response[ptr[c]]]
  /\ pc' = [pc EXCEPT ![c] = "reply"]
  /\ UNCHANGED <<query, index, ptr, got, cells, clocks, sets>>

\* Mutant: the wait is shorter than the write deadline.
WaitOverEarly(c) == timer[c] >= FragmentTimeout - 1

WaitOver(c) == timer[c] >= FragmentTimeout

\* Mutant: a wait that timed out starts again.
WaitTimeoutRetried(c) ==
  /\ pc[c] = "wait"
  /\ WaitOver(c)
  /\ timer' = [timer EXCEPT ![c] = 0]
  /\ UNCHANGED <<conns, cells, age, idle, sets>>

WaitTimeout(c) ==
  /\ pc[c] = "wait"
  /\ WaitOver(c)
  /\ out' = [out EXCEPT ![c] = ServFail]
  /\ pc' = [pc EXCEPT ![c] = "reply"]
  /\ UNCHANGED <<query, index, ptr, got, cells, clocks, sets>>

(* Write the reply, which fails once the deadline has passed, and hang up. *)
Reply(c) ==
  /\ pc[c] = "reply"
  /\ got' = [got EXCEPT ![c] = IF age[c] < WriteDeadline THEN out[c] ELSE None]
  /\ pc' = [pc EXCEPT ![c] = "closed"]
  /\ UNCHANGED <<query, index, ptr, out, cells, clocks, sets>>

\* Mutant: the resolver may use up the whole write deadline.
ResolveDueLate(c) == timer[c] >= WriteDeadline

(* Time.  Clocks stop at the value beyond which nothing reads them. *)
ResolveDue(c) == timer[c] >= ResolveTimeout

Blocked(c) ==
  \/ pc[c] \in {"none", "closed"}
  \/ pc[c] = "resolve" /\ ~ResolveDue(c)
  \/ pc[c] = "wait" /\ closes[ptr[c]] = 0 /\ ~WaitOver(c)

Advance(t, limit) == IF t < limit THEN t + 1 ELSE t

Tick ==
  /\ Prompt => \A c \in Conn : Blocked(c)
  /\ age' = [c \in Conn |-> IF pc[c] \in {"none", "closed"} THEN 0
                            ELSE Advance(age[c], WriteDeadline)]
  /\ timer' = [c \in Conn |-> IF pc[c] \in {"resolve", "wait"}
                              THEN Advance(timer[c], FragmentTimeout) ELSE 0]
  /\ idle' = [s \in Conn |-> IF \E k \in Key : sets[k] = s
                             THEN Advance(idle[s], PurgeAge) ELSE 0]
  /\ UNCHANGED <<conns, cells, sets>>

Step(c) ==
  \/ Lookup(c) \/ Store(c) \/ Reassemble(c) \/ Resolve(c) \/ StoreResult(c)
  \/ CloseReady(c) \/ WaitReady(c) \/ WaitTimeout(c) \/ Reply(c)

Next ==
  \/ \E c \in Conn : Open(c) \/ Step(c)
  \/ Tick

Fairness == WF_vars(Tick) /\ \A c \in Conn : WF_vars(Step(c))

Spec == Init /\ [][Next]_vars
FairSpec == Spec /\ Fairness
-----------------------------------------------------------------------------
(* Type invariant of the assembler, its sets and the fragment connections. *)
TypeOK ==
  /\ pc \in [Conn -> PC]
  /\ query \in [Conn -> Query \cup {None}]
  /\ index \in [Conn -> 0..MaxPieces]
  /\ ptr \in [Conn -> Conn \cup {None}]
  /\ out \in [Conn -> Result \cup {Ack, None}]
  /\ got \in [Conn -> Result \cup {Ack, None}]
  /\ age \in [Conn -> 0..WriteDeadline]
  /\ timer \in [Conn -> 0..FragmentTimeout]
  /\ sets \in [Key -> Conn \cup {None}]
  /\ pieces \in [Conn -> Text]
  /\ total \in [Conn -> 0..MaxPieces]
  /\ started \in [Conn -> BOOLEAN]
  /\ response \in [Conn -> Result \cup {None}]
  /\ closes \in [Conn -> Nat]
  /\ idle \in [Conn -> 0..PurgeAge]

(* "Assembly completes exactly once": a set has at most one completer at work, *)
(* none once its result is out, and resultReady is never closed twice (a       *)
(* second close panics and takes the server down).                             *)
Completers(s) == {c \in Conn : ptr[c] = s /\ pc[c] \in Completing}

CompletesOnce ==
  \A s \in Conn :
    /\ \A c, d \in Completers(s) : c = d
    /\ closes[s] <= 1
    /\ closes[s] = 1 => response[s] # None /\ Completers(s) = {}

(* Nobody waits for a result no one is working on: a set that holds all its *)
(* pieces has been claimed, and a claimed set has its result published or a *)
(* completer that is on its way to publish it.                              *)
FullSetServed ==
  \A s \in Conn :
    /\ total[s] > 0 /\ Cardinality(Filled(pieces[s])) = total[s] => started[s]
    /\ started[s] => closes[s] = 1 \/ Completers(s) # {}

(* Every DNS reply a fragment connection sends is the published result of its  *)
(* set, so all of them agree.  The SERVFAIL of waitResult's timeout is never   *)
(* sent: its timer starts after the connection's equally long write deadline.  *)
RepliesAgree ==
  \A c \in Conn : got[c] \in Result => got[c] = response[ptr[c]]

(* When no two queries share an address and nonce, an answer is the answer to *)
(* the query the connection's piece belongs to, reassembled in order, with    *)
(* nothing missing and nothing of another query.                              *)
Whole(q) == [i \in Position |-> IF i <= PiecesOf[q] THEN q ELSE None]

DistinctKeys == \A q, r \in Query : KeyOf[q] = KeyOf[r] => q = r

OwnAnswer ==
  DistinctKeys =>
    \A c \in Conn : got[c] \in Text => got[c] = Whole(query[c])

(* No query is resolved in vain: with steps that take less than a tick, some  *)
(* connection of the set delivers the published result, because the resolver's *)
(* timeout leaves the completer time before its own write deadline.            *)
Users(s) == {c \in Conn : ptr[c] = s}

ResultDelivered ==
  Prompt /\ ResolveTimeout < WriteDeadline =>
    \A s \in Conn :
      closes[s] = 1 /\ (\A c \in Users(s) : pc[c] = "closed")
        => \E c \in Users(s) : got[c] = response[s]

(* A set is the one-shot cell it is meant to be: claimed once, filled once, *)
(* and read by connections only with the value it was filled with.          *)
Cells == INSTANCE OneShot WITH
  Cell <- Conn, Reader <- Conn, Value <- Result, Nothing <- None,
  claimed <- {s \in Conn : started[s]},
  value <- response,
  seen <- [c \in Conn |-> IF got[c] = Ack THEN None ELSE got[c]]

RefinesOneShot == Cells!Spec

(* Every fragment connection the server handles ends, whatever its peers and *)
(* the other pieces of its query do.                                         *)
HandlersFinish == \A c \in Conn : pc[c] = "open" ~> pc[c] = "closed"
=============================================================================
