--------------------------- MODULE FragmentedQuery ---------------------------
(***************************************************************************)
(* A fragmented query from its client's side (internal/mc/client.go,       *)
(* queryFragmented), against a server that counts every piece as a         *)
(* request: the pieces go out one connection after the other, and each may *)
(* be refused by the rate limiter or for want of a slot.  A refusal is an  *)
(* ordinary server's status, which the client cannot tell from the         *)
(* acknowledgement of a piece; only the reply to the last is looked at.    *)
(*                                                                         *)
(* The rate limiter is RateLimiter.  The server's set of pieces is         *)
(* Fragments' seen from outside: what it holds under the query's nonce,    *)
(* of which the piece that completes it is answered.                       *)
(***************************************************************************)
EXTENDS RateLimiter

CONSTANTS
  Query,      \* queries too long for one address
  AddressOf,  \* the client address a query comes from
  PiecesOf    \* into how many pieces a query is split

ASSUME FragmentedQueryAssumption ==
  /\ AddressOf \in [Query -> Address]
  /\ PiecesOf \in [Query -> Nat \ {0, 1}]

VARIABLES
  pc,      \* pc[q]: "idle", "send", "wait", "answered" or "failed"
  index,   \* index[q]: the piece to be sent next
  stored,  \* stored[q]: the pieces the server holds under the query's nonce
  calm,    \* calm[q]: whether the query had enough tokens to itself and lost nothing
  spoiled  \* the queries a piece of which was refused unnoticed, or purged

fragments == <<pc, index, stored, calm, spoiled>>
allVars == <<vars, fragments>>

FragmentsInit ==
  /\ Init
  /\ pc = [q \in Query |-> "idle"]
  /\ index = [q \in Query |-> 1]
  /\ stored = [q \in Query |-> {}]
  /\ calm = [q \in Query |-> FALSE]
  /\ spoiled = {}

Pieces(q) == 1..PiecesOf[q]
Active(q) == pc[q] \in {"send", "wait"}
Neighbours(a) == {q \in Query : AddressOf[q] = a}

Disturb(Q) == calm' = [q \in Query |-> calm[q] /\ q \notin Q]

(* A new nonce, and the first piece. *)
Start(q) ==
  LET a == AddressOf[q]
      others == {r \in Neighbours(a) \ {q} : Active(r)}
  IN  /\ ~Active(q)
      /\ pc' = [pc EXCEPT ![q] = "send"]
      /\ index' = [index EXCEPT ![q] = 1]
      /\ stored' = [stored EXCEPT ![q] = {}]
      /\ calm' = [r \in Query |-> IF r = q THEN others = {} /\ Available(a) >= PiecesOf[q]
                                  ELSE calm[r] /\ r \notin others]
      /\ spoiled' = spoiled \ {q}
      /\ UNCHANGED vars

Leave(q, outcome) == pc' = [pc EXCEPT ![q] = outcome] /\ UNCHANGED index

\* The reply is not looked at, and the next piece follows.
GoOn(q) == index' = [index EXCEPT ![q] = @ + 1] /\ UNCHANGED pc

Last(q) == index[q] = PiecesOf[q]

\* Mutant: the last piece is thought to be the one that completes the set.
CompletesLast(q, pieces) == Last(q)

\* Mutant: one piece too many is waited for.
CompletesLate(q, pieces) == pieces = 1..PiecesOf[q] + 1

Completes(q, pieces) == pieces = Pieces(q)

\* Allow said so: the piece is stored.
Accept(q) ==
  /\ Available(AddressOf[q]) >= 1
  /\ Allow(AddressOf[q])
  /\ stored' = [stored EXCEPT ![q] = @ \cup {index[q]}]

(* A piece is stored and acknowledged; the last one is answered if it completes *)
(* the set, and left waiting otherwise.                                         *)
Piece(q) ==
  /\ pc[q] = "send"
  /\ Accept(q)
  /\ IF Completes(q, stored'[q]) THEN Leave(q, "answered")
     ELSE IF Last(q) THEN Leave(q, "wait")
     ELSE GoOn(q)
  /\ UNCHANGED <<calm, spoiled>>

(* An ordinary status instead of an acknowledgement: no answer, for the last    *)
(* piece, and unnoticed for the others.                                         *)
Refused(q) ==
  IF Last(q) THEN Leave(q, "failed") /\ UNCHANGED spoiled
  ELSE GoOn(q) /\ spoiled' = spoiled \cup {q}

Limited(q) ==
  /\ pc[q] = "send"
  /\ Available(AddressOf[q]) < 1
  /\ Allow(AddressOf[q])
  /\ Refused(q)
  /\ UNCHANGED <<stored, calm>>

\* No slot is free: the limiter is not asked.
Crowded(q) ==
  /\ pc[q] = "send"
  /\ Refused(q)
  /\ Disturb({q})
  /\ UNCHANGED <<vars, stored>>

(* A connection fails, before its piece has reached the server or after. *)
Lose(q) ==
  /\ pc[q] = "send"
  /\ Leave(q, "failed")
  /\ Disturb({q})
  /\ \/ UNCHANGED <<vars, stored>>
     \/ Accept(q)
  /\ UNCHANGED spoiled

(* The client's deadline passes: nobody will complete the set. *)
TimeOut(q) ==
  /\ pc[q] = "wait"
  /\ Leave(q, "failed")
  /\ UNCHANGED <<vars, stored, calm, spoiled>>

(* So slow a client finds its set purged. *)
Purge(q) ==
  /\ pc[q] = "send" /\ stored[q] # {}
  /\ stored' = [stored EXCEPT ![q] = {}]
  /\ spoiled' = spoiled \cup {q}
  /\ Disturb({q})
  /\ UNCHANGED <<vars, pc, index>>

(* An ordinary query of the same address. *)
Plain(a) ==
  /\ Allow(a)
  /\ Disturb(Neighbours(a))
  /\ UNCHANGED <<pc, index, stored, spoiled>>

Progress(q) == Piece(q) \/ Limited(q) \/ Crowded(q) \/ Lose(q) \/ TimeOut(q)

FragmentedNext ==
  \/ \E q \in Query : Start(q) \/ Progress(q) \/ Purge(q)
  \/ \E a \in Address : Plain(a)
  \/ (Cleanup \/ Tick \/ Watch) /\ UNCHANGED fragments

FragmentedSpec == FragmentsInit /\ [][FragmentedNext]_allVars
-----------------------------------------------------------------------------
(* A refusal that the client takes for an acknowledgement, or a purge, dooms the *)
(* query whatever its later pieces fare like: it is never answered.  And nothing *)
(* else keeps a query waiting: with all of its pieces accepted the last one is   *)
(* answered at once.                                                             *)
RefusalDooms ==
  \A q \in Query : /\ q \in spoiled => pc[q] # "answered"
                   /\ pc[q] = "wait" => q \in spoiled

(* An address whose tokens cover the pieces gets its answer: the limiter takes *)
(* one for each piece and no more, and none of them is refused on the way.     *)
QuotaEnough == \A q \in Query : calm[q] => pc[q] \notin {"wait", "failed"}
=============================================================================
