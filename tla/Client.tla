------------------------------- MODULE Client -------------------------------
(***************************************************************************)
(* The client (internal/client): a local DNS resolver that answers from    *)
(* its cache, else asks the DNS servers of the active VPN connections,     *)
(* else asks the dnsmc servers in turn.  Each query is a goroutine of its  *)
(* own; they share the cache, the provider's snapshot and the round-robin  *)
(* counter.                                                                *)
(*                                                                         *)
(* The queries ask one question, so the cache is reduced to the entry for  *)
(* it, and an answer to where it came from.  VPN servers are asked in      *)
(* order of priority, which makes no difference here: any order is taken.  *)
(* Only the remainder of nextServer is used, so only that is kept.         *)
(***************************************************************************)
EXTENDS VpnDns, Integers, Sequences

CONSTANTS
  Query,    \* goroutines of handleDNS
  Servers,  \* servers: the dnsmc servers
  None

ASSUME ClientAssumption ==
  /\ Len(Servers) \in Nat \ {0}
  /\ None \notin {"vpn", "tunnel", "failure"}

N == Len(Servers)
Position == 1..N

VARIABLES
  allowVpnFallback,  \* allowVpnFallback, as configured
  nextServer,  \* nextServer % len(servers)
  cached,      \* where the cached answer came from
  pc,          \* pc[q]: where Resolve is
  offered,     \* offered[q]: the VPN servers it got from the provider
  asked,       \* asked[q]: those that did not answer
  attempt,     \* attempt[q]
  tried,       \* tried[q]: positions of the dnsmc servers it sent the query to
  from,        \* from[q]: where its answer came from
  crowded      \* the queries during whose attempts another query took a server

locals == <<pc, offered, asked, attempt, tried, from>>
shared == <<nextServer, cached>>
outside == <<vpnVars, allowVpnFallback>>
clientVars == <<allowVpnFallback, shared, locals, crowded>>
vars == <<vpnVars, clientVars>>

PC == {"none", "lookup", "offer", "vpn", "tunnel", "ask", "store", "done"}

Init ==
  /\ VpnInit
  /\ allowVpnFallback \in BOOLEAN
  /\ nextServer = 0
  /\ cached = None
  /\ pc = [q \in Query |-> "none"]
  /\ offered = [q \in Query |-> {}] /\ asked = [q \in Query |-> {}]
  /\ attempt = [q \in Query |-> 0] /\ tried = [q \in Query |-> {}]
  /\ from = [q \in Query |-> None]
  /\ crowded = {}

Goto(q, label) == pc' = [pc EXCEPT ![q] = label]

Finish(q, source) == from' = [from EXCEPT ![q] = source]

Start(q) ==
  /\ pc[q] = "none"
  /\ Goto(q, "lookup")
  /\ UNCHANGED <<outside, shared, offered, asked, attempt, tried, from, crowded>>

(* cacheStore.Get *)
Lookup(q) ==
  /\ pc[q] = "lookup"
  /\ IF cached # None THEN Goto(q, "done") /\ Finish(q, cached)
     ELSE Goto(q, "offer") /\ UNCHANGED from
  /\ UNCHANGED <<outside, shared, offered, asked, attempt, tried, crowded>>

(* vpnDNS.Servers: a copy of the snapshot. *)
Offer(q) ==
  /\ pc[q] = "offer"
  /\ offered' = [offered EXCEPT ![q] = snapshot]
  /\ Goto(q, IF snapshot = {} THEN "tunnel" ELSE "vpn")
  /\ UNCHANGED <<outside, shared, asked, attempt, tried, from, crowded>>

(* queryVpn asks one server after the other until one answers. *)
AskVpn(q) ==
  /\ pc[q] = "vpn"
  /\ \E s \in offered[q] \ asked[q] :
       \/ Goto(q, "store") /\ Finish(q, "vpn") /\ UNCHANGED asked
       \/ asked' = [asked EXCEPT ![q] = @ \cup {s}] /\ UNCHANGED <<pc, from>>
  /\ UNCHANGED <<outside, shared, offered, attempt, tried, crowded>>

\* Mutant: a client that must not fall back does.
VpnFailsOpen(q) ==
  /\ pc[q] = "vpn" /\ asked[q] = offered[q]
  /\ Goto(q, "tunnel")
  /\ UNCHANGED <<outside, shared, offered, asked, attempt, tried, from, crowded>>

(* No VPN server answered: fall back to the dnsmc servers, or fail. *)
VpnFails(q) ==
  /\ pc[q] = "vpn" /\ asked[q] = offered[q]
  /\ IF allowVpnFallback THEN Goto(q, "tunnel") /\ UNCHANGED from
     ELSE Goto(q, "done") /\ Finish(q, "failure")
  /\ UNCHANGED <<outside, shared, offered, asked, attempt, tried, crowded>>

-----------------------------------------------------------------------------
\* Mutant: the counter starts over with every query.
AdvancedPerQuery(q) == (attempt[q] + 1) % N

(* pickServer, and the loop around it. *)
Advanced(q) == (nextServer + 1) % N

Trying(q) == pc[q] \in {"tunnel", "ask"} /\ attempt[q] > 0

PickServer(q) ==
  /\ pc[q] = "tunnel" /\ attempt[q] < N
  /\ attempt' = [attempt EXCEPT ![q] = @ + 1]
  /\ nextServer' = Advanced(q)
  /\ tried' = [tried EXCEPT ![q] = @ \cup {nextServer + 1}]
  /\ crowded' = crowded \cup {r \in Query \ {q} : Trying(r)}
  /\ Goto(q, "ask")
  /\ UNCHANGED <<outside, cached, offered, asked, from>>

(* queryFunc: the server answers, or it cannot be reached. *)
Ask(q) ==
  /\ pc[q] = "ask"
  /\ \/ Goto(q, "store") /\ Finish(q, "tunnel")
     \/ Goto(q, "tunnel") /\ UNCHANGED from
  /\ UNCHANGED <<outside, shared, offered, asked, attempt, tried, crowded>>

AllFailed(q) ==
  /\ pc[q] = "tunnel" /\ attempt[q] = N
  /\ Goto(q, "done") /\ Finish(q, "failure")
  /\ UNCHANGED <<outside, shared, offered, asked, attempt, tried, crowded>>

(* cacheStore.Set, which leaves out an NXDOMAIN. *)
Store(q) ==
  /\ pc[q] = "store"
  /\ cached' \in {cached, from[q]}
  /\ Goto(q, "done")
  /\ UNCHANGED <<outside, nextServer, offered, asked, attempt, tried, from, crowded>>

Return(q) ==
  /\ pc[q] = "done"
  /\ Goto(q, "none")
  /\ offered' = [offered EXCEPT ![q] = {}] /\ asked' = [asked EXCEPT ![q] = {}]
  /\ attempt' = [attempt EXCEPT ![q] = 0] /\ tried' = [tried EXCEPT ![q] = {}]
  /\ from' = [from EXCEPT ![q] = None]
  /\ crowded' = crowded \ {q}
  /\ UNCHANGED <<outside, shared>>

\* The entry of the cache expires or is evicted.
Expire ==
  /\ cached # None /\ cached' = None
  /\ UNCHANGED <<outside, nextServer, locals, crowded>>

Step(q) ==
  \/ Lookup(q) \/ Offer(q) \/ AskVpn(q) \/ VpnFails(q) \/ PickServer(q) \/ Ask(q)
  \/ AllFailed(q) \/ Store(q) \/ Return(q)

Next ==
  \/ \E q \in Query : Start(q) \/ Step(q)
  \/ Expire
  \/ VpnNext /\ UNCHANGED clientVars

Spec == Init /\ [][Next]_vars
-----------------------------------------------------------------------------
(* Type invariant of the client and of the queries in progress. *)
TypeOK ==
  /\ allowVpnFallback \in BOOLEAN
  /\ nextServer \in 0..N - 1
  /\ cached \in {None, "vpn", "tunnel"}
  /\ pc \in [Query -> PC]
  /\ offered \in [Query -> SUBSET Address] /\ asked \in [Query -> SUBSET Address]
  /\ attempt \in [Query -> 0..N] /\ tried \in [Query -> SUBSET Position]
  /\ from \in [Query -> {None, "vpn", "tunnel", "failure"}]
  /\ crowded \subseteq Query

(* A query goes to a dnsmc server only when the provider offered no VPN server, *)
(* or when falling back is allowed and every VPN server offered was asked.      *)
VpnFirst ==
  \A q \in Query : tried[q] # {} =>
    \/ offered[q] = {}
    \/ allowVpnFallback /\ asked[q] = offered[q]

(* "failing over to the next": a query that no other one disturbs gives up only *)
(* after it has tried every server.                                             *)
GaveUp(q) == from[q] = "failure" /\ attempt[q] = N

FailoverAlone ==
  \A q \in Query : GaveUp(q) /\ q \notin crowded => tried[q] = Position

(* "unreachable servers are skipped (and logged) until a healthy one answers",  *)
(* of any query: it gives up only after it has tried every server.              *)
FailoverAlways == \A q \in Query : GaveUp(q) => tried[q] = Position
=============================================================================
