---------------------------- MODULE ClientProofs ----------------------------
(***************************************************************************)
(* Proofs about Client, ClientService and VpnDns, for any connections, any *)
(* list of dnsmc servers and any number of queries at a time.              *)
(***************************************************************************)
EXTENDS Client, ClientService, TLAPS

-----------------------------------------------------------------------------
(* The provider *)
USE VpnDnsAssumption

(* What a refresh has found, and what it is about to read, belongs to connections *)
(* activated while it ran; and a connection about which nothing went wrong is     *)
(* still to be read or has been.                                                  *)
Grounded ==
  /\ phase = "reading" => Activated \subseteq seen
  /\ qualified \subseteq seen
  /\ sources \subseteq Advertised(seen)

Covered ==
  /\ steady \subseteq Activated
  /\ \A c \in steady : c \in todo \/ ServersOf[c] \subseteq sources

VpnInv == VpnTypeOK /\ Grounded /\ Covered

LEMMA VpnInvStarts == VpnInit => VpnInv
BY DEF VpnInit, VpnInv, VpnTypeOK, Grounded, Covered, Advertised

LEMMA VpnInvKept == VpnInv /\ [VpnNext]_vpnVars => VpnInv'
<1> SUFFICES ASSUME VpnInv, [VpnNext]_vpnVars PROVE VpnInv'
  OBVIOUS
<1> USE DEF VpnInv, VpnTypeOK, Grounded, Covered
<1>1. ASSUME NEW c \in Connection, Switch(c) PROVE VpnInv'
  <2>1. state' \in [Connection -> States] /\ Activated' \subseteq WireGuard
    BY <1>1 DEF Switch, Activated
  <2>2. seen \subseteq seen' /\ Advertised(seen) \subseteq Advertised(seen')
    BY <1>1 DEF Switch, Advertised
  <2>3. VpnTypeOK'
    BY <1>1, <2>1 DEF Switch
  <2>4. Grounded'
    BY <1>1, <2>2 DEF Switch
  <2>5. Covered'
    BY <1>1 DEF Switch
  <2>6. QED
    BY <2>3, <2>4, <2>5
<1>2. CASE ReadList
  BY <1>2 DEF ReadList, Activated, Advertised
<1>3. ASSUME NEW c \in Connection, CheckConnection(c) \/ CheckConnectionFails(c) PROVE VpnInv'
  <2>1. Activated' = Activated /\ Advertised(seen)' = Advertised(seen)
    BY <1>3 DEF CheckConnection, CheckConnectionFails, Activated, Advertised
  <2>2. CASE CheckConnection(c)
    BY <2>1, <2>2 DEF CheckConnection, Turn, Qualifies
  <2>3. CASE CheckConnectionFails(c)
    BY <2>1, <2>3 DEF CheckConnectionFails, Turn
  <2>4. QED
    BY <1>3, <2>2, <2>3
<1>4. ASSUME NEW c \in Connection, ReadServers(c) \/ ReadServersFails(c) PROVE VpnInv'
  <2>1. PICK servers \in SUBSET ServersOf[c] :
          /\ Read(c, servers)
          /\ \/ steady' = steady \ {c}
             \/ steady' = steady /\ (state[c] # "absent" => servers = ServersOf[c])
    <3>1. CASE ReadServers(c)
      BY <3>1 DEF ReadServers
    <3>2. CASE ReadServersFails(c)
      BY <3>2 DEF ReadServersFails
    <3>3. QED
      BY <1>4, <3>1, <3>2
  <2>2. Activated' = Activated /\ Advertised(seen)' = Advertised(seen)
    BY <2>1 DEF Read, Activated, Advertised
  <2>3. c \in seen /\ servers \subseteq Advertised(seen) /\ servers \subseteq Address
    BY <2>1 DEF Read, Advertised
  <2>4. c \in steady' => servers = ServersOf[c]
    BY <2>1 DEF Activated
  <2>5. QED
    BY <2>1, <2>2, <2>3, <2>4 DEF Read
<1>5. CASE StoreSnapshot
  BY <1>5 DEF StoreSnapshot, Activated, Advertised
<1>6. CASE ReadListFails \/ UNCHANGED vpnVars
  BY <1>6 DEF ReadListFails, vpnVars, refresh, Advertised, Activated
<1>7. QED
  BY <1>1, <1>2, <1>3, <1>4, <1>5, <1>6 DEF VpnNext, Poll, Outage, ReadNext, ReadFails

(* A refresh, which is many calls, leaves a snapshot with all servers of the       *)
(* connections that were activated throughout and whose calls succeeded, and none  *)
(* but of connections activated at some time while it ran, whatever comes, changes *)
(* and goes in between.                                                            *)
THEOREM SnapshotRegularHolds == VpnSpec => SnapshotRegular
<1> DEFINE Regular ==
      phase = "reading" /\ phase' = "idle" =>
        Advertised(steady) \subseteq snapshot' /\ snapshot' \subseteq Advertised(seen)
<1>1. VpnInv /\ [VpnNext]_vpnVars => [Regular]_vpnVars
  <2> SUFFICES ASSUME VpnInv, [VpnNext]_vpnVars, phase = "reading", phase' = "idle"
               PROVE  Advertised(steady) \subseteq snapshot' /\ snapshot' \subseteq Advertised(seen)
    OBVIOUS
  <2>1. StoreSnapshot
    BY DEF VpnNext, Poll, Outage, ReadNext, ReadFails, Switch, ReadList, CheckConnection, Turn,
           CheckConnectionFails, Read, ReadServers, ReadServersFails, ReadListFails, vpnVars, refresh
  <2>2. snapshot' = sources /\ todo = {}
    BY <2>1 DEF StoreSnapshot
  <2>3. QED
    BY <2>2 DEF VpnInv, Grounded, Covered, Advertised
<1>2. QED
  BY <1>1, VpnInvStarts, VpnInvKept, PTL DEF VpnSpec, SnapshotRegular

-----------------------------------------------------------------------------
(* The client *)
HIDE VpnDnsAssumption
USE ClientAssumption

(* The a positions before the next one, around the list of servers. *)
Behind(a) ==
  {p \in Position : \/ nextServer - a <= p - 1 /\ p - 1 < nextServer
                    \/ p - 1 >= nextServer - a + N}

MayTunnel(q) == offered[q] = {} \/ (allowVpnFallback /\ asked[q] = offered[q])

(* What a query knows where it is. *)
Routed(q) ==
  /\ pc[q] \in {"none", "lookup", "offer", "vpn"} => tried[q] = {} /\ attempt[q] = 0
  /\ pc[q] \in {"tunnel", "ask"} \/ tried[q] # {} => MayTunnel(q)
  /\ pc[q] = "store" => from[q] \in {"vpn", "tunnel"}
  /\ from[q] = "failure" => pc[q] = "done"

(* The servers an undisturbed query tried follow one another. *)
InTurn(q) ==
  q \notin crowded =>
    /\ pc[q] \in {"tunnel", "ask"} => tried[q] = Behind(attempt[q])
    /\ GaveUp(q) => tried[q] = Position

IInv == VpnInv /\ TypeOK /\ (\A q \in Query : Routed(q)) /\ \A q \in Query : InTurn(q)

LEMMA Length == N \in Nat \ {0}
BY DEF N

(* The remainder, without the division. *)
LEMMA Advances ==
  ASSUME nextServer \in 0..N - 1, NEW q
  PROVE  Advanced(q) = IF nextServer = N - 1 THEN 0 ELSE nextServer + 1
<1> DEFINE x == nextServer  n == N
<1>1. n \in Nat \ {0} /\ x \in 0..n - 1
  BY Length
<1> HIDE DEF x, n
<1>2. (x + 1) % n = IF x = n - 1 THEN 0 ELSE x + 1
  <2>1. CASE x = n - 1
    <3>1. x + 1 = n
      BY <1>1, <2>1
    <3>2. n % n = 0
      BY <1>1
    <3>3. QED
      BY <2>1, <3>1, <3>2
  <2>2. CASE x # n - 1
    BY <1>1, <2>2
  <2>3. QED
    BY <2>1, <2>2
<1>3. QED
  BY <1>2 DEF x, n, Advanced

(* A query that did not step knows what it knew. *)
LEMMA OthersRouted ==
  ASSUME NEW r \in Query, Routed(r), UNCHANGED allowVpnFallback,
         pc'[r] = pc[r], offered'[r] = offered[r], asked'[r] = asked[r],
         attempt'[r] = attempt[r], tried'[r] = tried[r], from'[r] = from[r]
  PROVE  Routed(r)'
<1>1. MayTunnel(r)' <=> MayTunnel(r)
  BY Zenon DEF MayTunnel
<1>2. QED
  BY <1>1 DEF Routed

(* Every step of a query keeps the types and the route of every query. *)
LEMMA RouteKept ==
  ASSUME IInv, NEW q \in Query, Start(q) \/ Step(q)
  PROVE  VpnInv' /\ TypeOK' /\ \A r \in Query : Routed(r)'
<1>0. /\ VpnInv /\ TypeOK /\ \A r \in Query : Routed(r)
  BY DEF IInv
<1>1. UNCHANGED <<vpnVars, allowVpnFallback>> /\ allowVpnFallback' \in BOOLEAN
  <2>1. UNCHANGED <<vpnVars, allowVpnFallback>>
    BY DEF Step, Start, Lookup, Offer, AskVpn, VpnFails, PickServer, Ask, AllFailed, Store, Return,
           outside
  <2>2. QED
    BY <1>0, <2>1 DEF TypeOK
<1>2. VpnInv'
  BY <1>0, <1>1, VpnInvKept
<1>3. \A r \in Query \ {q} :
        /\ pc'[r] = pc[r] /\ offered'[r] = offered[r] /\ asked'[r] = asked[r]
        /\ attempt'[r] = attempt[r] /\ tried'[r] = tried[r] /\ from'[r] = from[r]
  <2>1. CASE Start(q)
    BY <2>1, <1>0 DEF Start, Goto, Finish, TypeOK, shared, locals
  <2>2. CASE Lookup(q)
    BY <2>2, <1>0 DEF Lookup, Goto, Finish, TypeOK, shared, locals
  <2>3. CASE Offer(q)
    BY <2>3, <1>0 DEF Offer, Goto, Finish, TypeOK, shared, locals
  <2>4. CASE AskVpn(q)
    BY <2>4, <1>0 DEF AskVpn, Goto, Finish, TypeOK, shared, locals
  <2>5. CASE VpnFails(q)
    BY <2>5, <1>0 DEF VpnFails, Goto, Finish, TypeOK, shared, locals
  <2>6. CASE PickServer(q)
    BY <2>6, <1>0 DEF PickServer, Goto, Finish, TypeOK, shared, locals
  <2>7. CASE Ask(q)
    BY <2>7, <1>0 DEF Ask, Goto, Finish, TypeOK, shared, locals
  <2>8. CASE AllFailed(q)
    BY <2>8, <1>0 DEF AllFailed, Goto, Finish, TypeOK, shared, locals
  <2>9. CASE Store(q)
    BY <2>9, <1>0 DEF Store, Goto, Finish, TypeOK, shared, locals
  <2>10. CASE Return(q)
    BY <2>10, <1>0 DEF Return, Goto, Finish, TypeOK, shared, locals
  <2>11. QED
    BY <2>1, <2>2, <2>3, <2>4, <2>5, <2>6, <2>7, <2>8, <2>9, <2>10 DEF Step
<1>4. TypeOK' /\ Routed(q)'
  <2> USE Length
  <2>1. CASE Start(q)
    <3>1. /\ nextServer' \in 0..N - 1 /\ cached' \in {None, "vpn", "tunnel"}
          /\ pc' \in [Query -> PC] /\ from' \in [Query -> {None, "vpn", "tunnel", "failure"}]
          /\ offered' \in [Query -> SUBSET Address] /\ asked' \in [Query -> SUBSET Address]
          /\ attempt' \in [Query -> 0..N] /\ tried' \in [Query -> SUBSET Position]
          /\ crowded' \subseteq Query
      BY <2>1, <1>0 DEF Start, Goto, Finish, Routed, TypeOK, PC, VpnInv, VpnTypeOK, shared, locals
    <3>2. Routed(q)'
      BY <2>1, <1>0, <1>1 DEF Start, Goto, Finish, Routed, MayTunnel, TypeOK, PC, shared, locals
    <3>3. QED
      BY <1>1, <3>1, <3>2 DEF TypeOK
  <2>2. CASE Lookup(q)
    <3>1. /\ nextServer' \in 0..N - 1 /\ cached' \in {None, "vpn", "tunnel"}
          /\ pc' \in [Query -> PC] /\ from' \in [Query -> {None, "vpn", "tunnel", "failure"}]
          /\ offered' \in [Query -> SUBSET Address] /\ asked' \in [Query -> SUBSET Address]
          /\ attempt' \in [Query -> 0..N] /\ tried' \in [Query -> SUBSET Position]
          /\ crowded' \subseteq Query
      BY <2>2, <1>0 DEF Lookup, Goto, Finish, Routed, TypeOK, PC, VpnInv, VpnTypeOK, shared, locals
    <3>2. Routed(q)'
      BY <2>2, <1>0, <1>1 DEF Lookup, Goto, Finish, Routed, MayTunnel, TypeOK, PC, shared, locals
    <3>3. QED
      BY <1>1, <3>1, <3>2 DEF TypeOK
  <2>3. CASE Offer(q)
    <3>1. /\ nextServer' \in 0..N - 1 /\ cached' \in {None, "vpn", "tunnel"}
          /\ pc' \in [Query -> PC] /\ from' \in [Query -> {None, "vpn", "tunnel", "failure"}]
          /\ offered' \in [Query -> SUBSET Address] /\ asked' \in [Query -> SUBSET Address]
          /\ attempt' \in [Query -> 0..N] /\ tried' \in [Query -> SUBSET Position]
          /\ crowded' \subseteq Query
      BY <2>3, <1>0 DEF Offer, Goto, Finish, Routed, TypeOK, PC, VpnInv, VpnTypeOK, shared, locals
    <3>2. Routed(q)'
      <4>1. CASE snapshot = {}
        <5>1. offered'[q] = {}
          BY <2>3, <4>1, <1>0 DEF Offer, TypeOK
        <5>2. MayTunnel(q)'
          BY <5>1, Zenon DEF MayTunnel
        <5>3. QED
          BY <2>3, <4>1, <5>2, <1>0 DEF Offer, Goto, Routed, TypeOK, PC, shared
      <4>2. CASE snapshot # {}
        BY <2>3, <4>2, <1>0 DEF Offer, Goto, Routed, TypeOK, PC, shared
      <4>3. QED
        BY <4>1, <4>2
    <3>3. QED
      BY <1>1, <3>1, <3>2 DEF TypeOK
  <2>4. CASE AskVpn(q)
    <3>1. /\ nextServer' \in 0..N - 1 /\ cached' \in {None, "vpn", "tunnel"}
          /\ pc' \in [Query -> PC] /\ from' \in [Query -> {None, "vpn", "tunnel", "failure"}]
          /\ offered' \in [Query -> SUBSET Address] /\ asked' \in [Query -> SUBSET Address]
          /\ attempt' \in [Query -> 0..N] /\ tried' \in [Query -> SUBSET Position]
          /\ crowded' \subseteq Query
      <4>1. PICK s \in offered[q] \ asked[q] :
              \/ Goto(q, "store") /\ Finish(q, "vpn") /\ UNCHANGED asked
              \/ asked' = [asked EXCEPT ![q] = @ \cup {s}] /\ UNCHANGED <<pc, from>>
        BY <2>4 DEF AskVpn
      <4>2. s \in Address
        BY <1>0 DEF TypeOK
      <4>3. pc' \in [Query -> PC] /\ from' \in [Query -> {None, "vpn", "tunnel", "failure"}]
        BY <4>1, <1>0 DEF Goto, Finish, TypeOK, PC
      <4>4. asked' \in [Query -> SUBSET Address]
        <5>1. asked[q] \cup {s} \in SUBSET Address /\ asked \in [Query -> SUBSET Address]
          BY <4>2, <1>0 DEF TypeOK
        <5>2. asked' = asked \/ asked' = [asked EXCEPT ![q] = asked[q] \cup {s}]
          BY <4>1
        <5>3. QED
          BY <5>1, <5>2
      <4>5. QED
        BY <2>4, <1>0, <4>3, <4>4 DEF AskVpn, TypeOK, shared
    <3>2. Routed(q)'
      BY <2>4, <1>0, <1>1 DEF AskVpn, Goto, Finish, Routed, MayTunnel, TypeOK, PC, shared, locals
    <3>3. QED
      BY <1>1, <3>1, <3>2 DEF TypeOK
  <2>5. CASE VpnFails(q)
    <3>1. /\ nextServer' \in 0..N - 1 /\ cached' \in {None, "vpn", "tunnel"}
          /\ pc' \in [Query -> PC] /\ from' \in [Query -> {None, "vpn", "tunnel", "failure"}]
          /\ offered' \in [Query -> SUBSET Address] /\ asked' \in [Query -> SUBSET Address]
          /\ attempt' \in [Query -> 0..N] /\ tried' \in [Query -> SUBSET Position]
          /\ crowded' \subseteq Query
      BY <2>5, <1>0 DEF VpnFails, Goto, Finish, Routed, TypeOK, PC, VpnInv, VpnTypeOK, shared, locals
    <3>2. Routed(q)'
      BY <2>5, <1>0, <1>1 DEF VpnFails, Goto, Finish, Routed, MayTunnel, TypeOK, PC, shared, locals
    <3>3. QED
      BY <1>1, <3>1, <3>2 DEF TypeOK
  <2>6. CASE PickServer(q)
    <3>1. nextServer' \in 0..N - 1
      BY <2>6, <1>0, Advances DEF PickServer, TypeOK
    <3>2. nextServer + 1 \in Position
      BY <1>0 DEF TypeOK, Position
    <3>3. /\ nextServer' \in 0..N - 1 /\ cached' \in {None, "vpn", "tunnel"}
          /\ pc' \in [Query -> PC] /\ from' \in [Query -> {None, "vpn", "tunnel", "failure"}]
          /\ offered' \in [Query -> SUBSET Address] /\ asked' \in [Query -> SUBSET Address]
          /\ attempt' \in [Query -> 0..N] /\ tried' \in [Query -> SUBSET Position]
          /\ crowded' \subseteq Query
      BY <2>6, <1>0, <3>1, <3>2 DEF PickServer, Goto, Finish, Routed, TypeOK, PC, VpnInv, VpnTypeOK, shared, locals
    <3>4. Routed(q)'
      BY <2>6, <1>0, <1>1 DEF PickServer, Goto, Finish, Routed, MayTunnel, TypeOK, PC, shared, locals
    <3>5. QED
      BY <1>1, <3>3, <3>4 DEF TypeOK
  <2>7. CASE Ask(q)
    <3>1. /\ nextServer' \in 0..N - 1 /\ cached' \in {None, "vpn", "tunnel"}
          /\ pc' \in [Query -> PC] /\ from' \in [Query -> {None, "vpn", "tunnel", "failure"}]
          /\ offered' \in [Query -> SUBSET Address] /\ asked' \in [Query -> SUBSET Address]
          /\ attempt' \in [Query -> 0..N] /\ tried' \in [Query -> SUBSET Position]
          /\ crowded' \subseteq Query
      BY <2>7, <1>0 DEF Ask, Goto, Finish, Routed, TypeOK, PC, VpnInv, VpnTypeOK, shared, locals
    <3>2. Routed(q)'
      BY <2>7, <1>0, <1>1 DEF Ask, Goto, Finish, Routed, MayTunnel, TypeOK, PC, shared, locals
    <3>3. QED
      BY <1>1, <3>1, <3>2 DEF TypeOK
  <2>8. CASE AllFailed(q)
    <3>1. /\ nextServer' \in 0..N - 1 /\ cached' \in {None, "vpn", "tunnel"}
          /\ pc' \in [Query -> PC] /\ from' \in [Query -> {None, "vpn", "tunnel", "failure"}]
          /\ offered' \in [Query -> SUBSET Address] /\ asked' \in [Query -> SUBSET Address]
          /\ attempt' \in [Query -> 0..N] /\ tried' \in [Query -> SUBSET Position]
          /\ crowded' \subseteq Query
      BY <2>8, <1>0 DEF AllFailed, Goto, Finish, Routed, TypeOK, PC, VpnInv, VpnTypeOK, shared, locals
    <3>2. Routed(q)'
      BY <2>8, <1>0, <1>1 DEF AllFailed, Goto, Finish, Routed, MayTunnel, TypeOK, PC, shared, locals
    <3>3. QED
      BY <1>1, <3>1, <3>2 DEF TypeOK
  <2>9. CASE Store(q)
    <3>1. /\ nextServer' \in 0..N - 1 /\ cached' \in {None, "vpn", "tunnel"}
          /\ pc' \in [Query -> PC] /\ from' \in [Query -> {None, "vpn", "tunnel", "failure"}]
          /\ offered' \in [Query -> SUBSET Address] /\ asked' \in [Query -> SUBSET Address]
          /\ attempt' \in [Query -> 0..N] /\ tried' \in [Query -> SUBSET Position]
          /\ crowded' \subseteq Query
      BY <2>9, <1>0 DEF Store, Goto, Finish, Routed, TypeOK, PC, VpnInv, VpnTypeOK, shared, locals
    <3>2. Routed(q)'
      BY <2>9, <1>0, <1>1 DEF Store, Goto, Finish, Routed, MayTunnel, TypeOK, PC, shared, locals
    <3>3. QED
      BY <1>1, <3>1, <3>2 DEF TypeOK
  <2>10. CASE Return(q)
    <3>1. /\ nextServer' \in 0..N - 1 /\ cached' \in {None, "vpn", "tunnel"}
          /\ pc' \in [Query -> PC] /\ from' \in [Query -> {None, "vpn", "tunnel", "failure"}]
          /\ offered' \in [Query -> SUBSET Address] /\ asked' \in [Query -> SUBSET Address]
          /\ attempt' \in [Query -> 0..N] /\ tried' \in [Query -> SUBSET Position]
          /\ crowded' \subseteq Query
      BY <2>10, <1>0 DEF Return, Goto, Finish, Routed, TypeOK, PC, VpnInv, VpnTypeOK, shared, locals
    <3>2. Routed(q)'
      BY <2>10, <1>0, <1>1 DEF Return, Goto, Finish, Routed, MayTunnel, TypeOK, PC, shared, locals
    <3>3. QED
      BY <1>1, <3>1, <3>2 DEF TypeOK
  <2>11. QED
    BY <2>1, <2>2, <2>3, <2>4, <2>5, <2>6, <2>7, <2>8, <2>9, <2>10 DEF Step
<1>5. \A r \in Query \ {q} : Routed(r)'
  BY <1>0, <1>1, <1>3, OthersRouted
<1>6. QED
  BY <1>2, <1>4, <1>5

(* Every step of a query leaves the others in turn, or crowds them. *)
LEMMA TurnKept ==
  ASSUME IInv, NEW q \in Query, Start(q) \/ Step(q), TypeOK'
  PROVE  \A r \in Query : InTurn(r)'
<1>0. /\ TypeOK /\ (\A r \in Query : Routed(r)) /\ \A r \in Query : InTurn(r)
  BY DEF IInv
<1> USE Length
<1>1. CASE PickServer(q)
  <2>1. nextServer' = IF nextServer = N - 1 THEN 0 ELSE nextServer + 1
    BY <1>0, <1>1, Advances DEF PickServer, TypeOK
  <2>2. PICK a \in 0..N - 1, s \in 0..N - 1 : a = attempt[q] /\ s = nextServer
    <3>1. attempt[q] \in 0..N /\ nextServer \in 0..N - 1
      BY <1>0 DEF TypeOK
    <3>2. attempt[q] < N
      BY <1>1 DEF PickServer
    <3>3. QED
      BY <3>1, <3>2
  <2>3. Behind(a) \cup {s + 1} = Behind(a + 1)'
    <3>1. ASSUME NEW p \in Position PROVE p \in Behind(a) \cup {s + 1} <=> p \in Behind(a + 1)'
      <4>1. p \in Nat /\ p >= 1 /\ p <= N
        BY DEF Position
      <4>2. CASE s = N - 1
        <5>1. nextServer' = 0
          BY <2>1, <2>2, <4>2
        <5>2. QED
          BY <2>2, <4>1, <4>2, <5>1 DEF Behind, Position
      <4>3. CASE s # N - 1
        <5>1. nextServer' = s + 1
          BY <2>1, <2>2, <4>3
        <5>2. QED
          BY <2>2, <4>1, <4>3, <5>1 DEF Behind, Position
      <4>4. QED
        BY <4>2, <4>3
    <3>2. s + 1 \in Position
      BY <2>2 DEF Position
    <3>3. QED
      BY <3>1, <3>2 DEF Behind
  <2>4. InTurn(q)'
    <3>1. pc[q] = "tunnel" /\ pc'[q] = "ask" /\ attempt'[q] = a + 1 /\ tried'[q] = tried[q] \cup {s + 1}
      BY <1>0, <1>1, <2>2 DEF PickServer, Goto, TypeOK
    <3>2. from'[q] # "failure" /\ (q \in crowded => q \in crowded')
      BY <1>0, <1>1, <3>1 DEF PickServer, Routed
    <3>3. q \notin crowded => tried[q] = Behind(a)
      BY <1>0, <2>2, <3>1 DEF InTurn
    <3>4. q \notin crowded' => tried'[q] = Behind(attempt[q])'
      <4>1. Behind(attempt[q])' = Behind(a + 1)'
        BY <3>1 DEF Behind
      <4>2. QED
        BY <2>3, <3>1, <3>2, <3>3, <4>1
    <3>5. QED
      <4>1. from'[q] # "failure" /\ (q \notin crowded' => tried'[q] = Behind(attempt[q])')
        BY <3>2, <3>4
      <4>2. QED
        BY <4>1 DEF InTurn, GaveUp
  <2>5. ASSUME NEW r \in Query, r # q PROVE InTurn(r)'
    <3>1. /\ pc'[r] = pc[r] /\ attempt'[r] = attempt[r] /\ tried'[r] = tried[r] /\ from'[r] = from[r]
          /\ r \notin crowded' => r \notin crowded /\ ~Trying(r)
      BY <1>0, <1>1, <2>5 DEF PickServer, Goto, TypeOK
    <3>2. CASE pc[r] \in {"tunnel", "ask"} /\ r \notin crowded'
      <4>1. attempt[r] = 0
        BY <1>0, <3>1, <3>2 DEF Trying, TypeOK
      <4>2. Behind(0) = {} /\ Behind(0)' = {}
        BY <1>0 DEF Behind, TypeOK, Position
      <4>3. QED
        BY <1>0, <3>1, <3>2, <4>1, <4>2 DEF InTurn, GaveUp
    <3>3. CASE ~(pc[r] \in {"tunnel", "ask"} /\ r \notin crowded')
      BY <1>0, <3>1, <3>3 DEF InTurn, GaveUp
    <3>4. QED
      BY <3>2, <3>3
  <2>6. QED
    BY <2>4, <2>5
<1>2. CASE AllFailed(q)
  <2>1. Behind(N) = Position
    BY <1>0 DEF Behind, TypeOK, Position
  <2>2. QED
    BY <1>0, <1>2, <2>1 DEF AllFailed, Goto, Finish, TypeOK, InTurn, GaveUp, Behind, outside, shared
<1>3. CASE Start(q)
  BY <1>0, <1>3 DEF Start, Goto, Finish, TypeOK, Routed, InTurn, GaveUp, Behind, outside, shared
<1>4. CASE Lookup(q)
  <2>1. /\ UNCHANGED <<nextServer, attempt, tried, crowded>> /\ pc[q] = "lookup"
        /\ \A r \in Query \ {q} : pc'[r] = pc[r] /\ from'[r] = from[r]
        /\ pc'[q] \in {"done", "offer"} /\ from'[q] \in {from[q], cached}
    BY <1>0, <1>4 DEF Lookup, Goto, Finish, TypeOK, shared
  <2>2. cached # "failure" /\ from[q] # "failure"
    BY <1>0, <2>1, ClientAssumption DEF TypeOK, Routed
  <2>3. \A a : Behind(a)' = Behind(a)
    BY <2>1 DEF Behind
  <2>4. QED
    BY <1>0, <2>1, <2>2, <2>3 DEF InTurn, GaveUp
<1>5. CASE Offer(q)
  <2>1. Behind(0) = {}
    BY <1>0 DEF Behind, TypeOK, Position
  <2>2. QED
    BY <1>0, <1>5, <2>1 DEF Offer, Goto, Finish, TypeOK, Routed, InTurn, GaveUp, Behind, outside, shared
<1>6. CASE AskVpn(q)
  BY <1>0, <1>6 DEF AskVpn, Goto, Finish, TypeOK, Routed, InTurn, GaveUp, Behind, outside, shared
<1>7. CASE VpnFails(q)
  <2>1. Behind(0) = {}
    BY <1>0 DEF Behind, TypeOK, Position
  <2>2. QED
    BY <1>0, <1>7, <2>1 DEF VpnFails, Goto, Finish, TypeOK, Routed, InTurn, GaveUp, Behind, outside, shared
<1>8. CASE Ask(q)
  BY <1>0, <1>8 DEF Ask, Goto, Finish, TypeOK, Routed, InTurn, GaveUp, Behind, outside, shared
<1>9. CASE Store(q)
  BY <1>0, <1>9 DEF Store, Goto, Finish, TypeOK, Routed, InTurn, GaveUp, Behind, outside, shared
<1>10. CASE Return(q)
  BY <1>0, <1>10 DEF Return, Goto, Finish, TypeOK, Routed, InTurn, GaveUp, Behind, outside, shared
<1>11. QED
  BY <1>1, <1>2, <1>3, <1>4, <1>5, <1>6, <1>7, <1>8, <1>9, <1>10 DEF Step

LEMMA IInvHolds == Spec => []IInv
<1>1. Init => IInv
  <2> SUFFICES ASSUME Init PROVE IInv
    OBVIOUS
  <2>1. VpnInv
    BY VpnInvStarts DEF Init
  <2>2. TypeOK
    BY Length DEF Init, TypeOK, PC
  <2>3. \A q \in Query : Routed(q) /\ InTurn(q)
    BY DEF Init, Routed, InTurn, GaveUp
  <2>4. QED
    BY <2>1, <2>2, <2>3 DEF IInv
<1>2. IInv /\ [Next]_vars => IInv'
  <2> SUFFICES ASSUME IInv, [Next]_vars PROVE IInv'
    OBVIOUS
  <2>1. ASSUME NEW q \in Query, Start(q) \/ Step(q) PROVE IInv'
    <3>1. VpnInv' /\ TypeOK' /\ \A r \in Query : Routed(r)'
      BY <2>1, RouteKept
    <3>2. \A r \in Query : InTurn(r)'
      BY <2>1, <3>1, TurnKept
    <3>3. QED
      BY <3>1, <3>2 DEF IInv
  <2>2. CASE Expire
    <3>1. VpnInv'
      BY <2>2, VpnInvKept DEF IInv, Expire, outside
    <3>2. TypeOK'
      BY <2>2 DEF IInv, Expire, TypeOK, locals, outside
    <3>3. \A r \in Query : Routed(r)'
      BY <2>2, OthersRouted DEF IInv, Expire, locals, outside
    <3>4. \A r \in Query : InTurn(r)'
      BY <2>2 DEF IInv, Expire, InTurn, GaveUp, Behind, locals
    <3>5. QED
      BY <3>1, <3>2, <3>3, <3>4 DEF IInv
  <2>3. CASE [VpnNext]_vpnVars /\ UNCHANGED clientVars
    <3>1. VpnInv'
      BY <2>3, VpnInvKept DEF IInv
    <3>2. TypeOK'
      BY <2>3 DEF IInv, clientVars, TypeOK, locals, shared
    <3>3. \A r \in Query : Routed(r)'
      BY <2>3, OthersRouted DEF IInv, clientVars, locals
    <3>4. \A r \in Query : InTurn(r)'
      BY <2>3 DEF IInv, clientVars, InTurn, GaveUp, Behind, locals, shared
    <3>5. QED
      BY <3>1, <3>2, <3>3, <3>4 DEF IInv
  <2>4. QED
    BY <2>1, <2>2, <2>3 DEF Next, vars
<1>3. QED
  BY <1>1, <1>2, PTL DEF Spec

(* The provider, the queries and the counter keep their types, and the counter *)
(* always points at a server.                                                  *)
THEOREM TypeCorrect == Spec => [](TypeOK /\ VpnTypeOK)
<1>1. IInv => TypeOK /\ VpnTypeOK
  BY DEF IInv, VpnInv
<1>2. QED
  BY <1>1, IInvHolds, PTL

(* No query reaches a dnsmc server while VPN servers it was offered are unasked, *)
(* nor ever when falling back is not allowed.                                    *)
THEOREM VpnFirstHolds == Spec => []VpnFirst
<1>1. IInv => VpnFirst
  BY DEF IInv, Routed, MayTunnel, VpnFirst
<1>2. QED
  BY <1>1, IInvHolds, PTL

(* A query that no other one disturbs tries every dnsmc server before it fails. *)
THEOREM FailoverAloneHolds == Spec => []FailoverAlone
<1>1. IInv => FailoverAlone
  BY DEF IInv, InTurn, FailoverAlone
<1>2. QED
  BY <1>1, IInvHolds, PTL

-----------------------------------------------------------------------------
(* The client as a service *)

(* Where the servers are while main has not started them, and once it returned; *)
(* only a server that was bound handles queries; what ended the select.         *)
ServiceInv ==
  /\ main \in {"attach", "refresh", "listen", "serving", "udp", "tcp", "wait", "exited"}
  /\ srv \in [Network -> {"none", "spawned", "serving", "draining", "failing", "error", "ended"}]
  /\ busy \in [Network -> Nat]
  /\ \A n \in Network :
       /\ busy[n] # 0 => srv[n] \in {"serving", "draining", "failing"}
       /\ main \in {"attach", "refresh", "listen"} => srv[n] = "none"
       /\ main = "exited" => srv[n] = "ended"
  /\ main \in {"udp", "tcp", "wait", "exited"} => cancelled \/ firstError

(* A server's own step. *)
ServerStep(n) ==
  \/ Bind(n) \/ ServeFails(n) \/ Handle(n) \/ QueryEnds(n)
  \/ Stopped(n) \/ Report(n)

LEMMA ServerStepKeeps ==
  ASSUME ServiceInv, NEW n \in Network, ServerStep(n)
  PROVE  ServiceInv'
<1> USE DEF ServiceInv, Running, Move, mainVars, Network
<1>1. CASE Bind(n)
  BY <1>1 DEF Bind
<1>2. CASE ServeFails(n)
  BY <1>2 DEF ServeFails
<1>3. CASE Handle(n)
  BY <1>3 DEF Handle
<1>4. CASE QueryEnds(n)
  BY <1>4 DEF QueryEnds
<1>5. CASE Stopped(n)
  BY <1>5 DEF Stopped
<1>6. CASE Report(n)
  BY <1>6 DEF Report
<1>7. QED
  BY <1>1, <1>2, <1>3, <1>4, <1>5, <1>6 DEF ServerStep

LEMMA MainStepKeeps ==
  ASSUME ServiceInv, Main
  PROVE  ServiceInv'
<1> USE DEF ServiceInv, serverVars, Network
<1>1. CASE Attach
  BY <1>1 DEF Attach
<1>2. CASE Listen
  BY <1>2 DEF Listen
<1>3. CASE Wake
  BY <1>3 DEF Wake
<1>4. CASE Exit
  BY <1>4 DEF Exit
<1>5. ASSUME NEW n \in Network, Shutdown(n) PROVE ServiceInv'
  <2>1. main' \in {main, "tcp", "wait"} /\ main = n
    BY <1>5 DEF Shutdown, AfterShutdown
  <2>2. srv' = srv \/ (srv[n] = "serving" /\ srv' = [srv EXCEPT ![n] = "draining"])
    BY <1>5 DEF Shutdown, Move
  <2>3. UNCHANGED <<busy, firstError, cancelled>>
    BY <1>5 DEF Shutdown
  <2>4. QED
    BY <2>1, <2>2, <2>3
<1>6. QED
  BY <1>1, <1>2, <1>3, <1>4, <1>5 DEF Main

LEMMA ServiceInvHolds == ServiceSpec => []ServiceInv
<1>1. ServiceInit => ServiceInv
  BY DEF ServiceInit, ServiceInv, Network
<1>2. ServiceInv /\ [ServiceNext]_processVars => ServiceInv'
  <2> SUFFICES ASSUME ServiceInv, [ServiceNext]_processVars PROVE ServiceInv'
    OBVIOUS
  <2>1. ASSUME NEW n \in Network, ServerStep(n) PROVE ServiceInv'
    BY <2>1, ServerStepKeeps
  <2>2. CASE Main
    BY <2>2, MainStepKeeps
  <2>3. CASE RefreshEnds
    BY <2>3 DEF RefreshEnds, serverVars, ServiceInv
  <2>4. CASE RefreshStep \/ SwitchAny \/ UNCHANGED processVars
    BY <2>4 DEF RefreshStep, SwitchAny, processVars, serviceVars,
      mainVars, serverVars, ServiceInv
  <2>5. CASE PollerEnds
    BY <2>5 DEF PollerEnds, mainVars, serverVars, ServiceInv
  <2>6. CASE Cancel
    BY <2>6 DEF Cancel, mainVars, serverVars, ServiceInv
  <2>7. QED
    BY <2>1, <2>2, <2>3, <2>4, <2>5, <2>6 DEF ServiceNext, ServerStep, Terminated, Network
<1>3. QED
  BY <1>1, <1>2, PTL DEF ServiceSpec

(* ClientService: runClientService returns only when both servers have, with no *)
(* query of theirs left unanswered, and only after a signal or an error, in     *)
(* whatever order the signal, the errors and the ends of the queries come.      *)
THEOREM NothingLeftHolds == ServiceSpec => []NothingLeft
<1>1. ServiceInv => NothingLeft
  BY DEF ServiceInv, NothingLeft, Network
<1>2. QED
  BY <1>1, ServiceInvHolds, PTL

(* Client and ClientService: in both, whatever the queries or the service do, the *)
(* provider takes only its own steps, one refresh at a time; so what was shown of *)
(* the provider alone holds in both.                                              *)
THEOREM ProviderKept == (Spec => VpnSpec) /\ (ServiceSpec => VpnSpec)
<1>1. Init => VpnInit
  BY DEF Init
<1>2. [Next]_vars => [VpnNext]_vpnVars
  <2>1. Next => VpnNext \/ UNCHANGED vpnVars
    <3>1. ASSUME NEW q \in Query, Start(q) \/ Step(q) PROVE UNCHANGED vpnVars
      BY <3>1 DEF Start, Step, Lookup, Offer, AskVpn, VpnFails, PickServer, Ask, AllFailed, Store, Return, outside
    <3>2. QED
      BY <3>1 DEF Next, Expire, outside
  <2>2. QED
    BY <2>1 DEF vars
<1>3. ServiceInit => VpnInit
  BY DEF ServiceInit, VpnInit
<1>4. [ServiceNext]_processVars => [VpnNext]_vpnVars
  <2>1. RefreshStep \/ RefreshEnds \/ SwitchAny => VpnNext \/ UNCHANGED vpnVars
    BY DEF RefreshStep, RefreshEnds, SwitchAny,
      ReadList, StoreSnapshot, ReadListFails, Switch, vpnVars, refresh, VpnNext, Poll, Outage
  <2>2. Main => UNCHANGED vpnVars
    BY DEF Main, Attach, Listen, Wake, Exit, Shutdown, vpnVars, refresh
  <2>3. PollerEnds \/ Cancel => UNCHANGED vpnVars
    BY DEF PollerEnds, Cancel, vpnVars, refresh
  <2>4. ASSUME NEW n \in Network, ServerStep(n) PROVE UNCHANGED vpnVars
    BY <2>4 DEF ServerStep, Bind, ServeFails, Handle, QueryEnds, Stopped,
      Report, vpnVars, refresh
  <2>5. UNCHANGED processVars => UNCHANGED vpnVars
    BY DEF processVars, vpnVars, refresh
  <2>6. QED
    BY <2>1, <2>2, <2>3, <2>4, <2>5 DEF ServiceNext, ServerStep, Terminated, Network
<1>5. QED
  BY <1>1, <1>2, <1>3, <1>4, PTL DEF Spec, ServiceSpec, VpnSpec
=============================================================================
